CONSTANTS
  InitialResetDelay = 1
  ResetDuration = 1
  Timeouts = {0, 3}
  TracingPossible = TRUE
  ResetPolarityNegative = TRUE
  UserStop = {"ours", "default"}
  MaxTime = 7
SPECIFICATION FairSpec
INVARIANTS TypeOK ResetWaveform TraceExact TogglesAnnounced TraceClosed StopPrompt TimeoutExact ExitCodeHonest
PROPERTIES TimeoutEnds StopEnds
CHECK_DEADLOCK FALSE
