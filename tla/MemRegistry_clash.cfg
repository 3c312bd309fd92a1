CONSTANTS
  AddrSpace = 16
  Areas <- MCAreas
  Candidates <- MCCandidates
SPECIFICATION RegistrySpec
INVARIANT ClashThrows
CHECK_DEADLOCK FALSE
