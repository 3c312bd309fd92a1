CONSTANTS
  InitialResetDelay = 1
  ResetDuration = 1
  Timeouts = {2}
  TracingPossible = TRUE
  ResetPolarityNegative = TRUE
  UserStop = {"default"}
  MaxTime = 4
SPECIFICATION Spec
INVARIANT FileFinishedAtExit
CHECK_DEADLOCK FALSE
