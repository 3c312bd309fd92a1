CONSTANTS
  Options = {"help", "load"}
  MaxOptions = 2
SPECIFICATION Spec
INVARIANT ExitCodeOfSetup
