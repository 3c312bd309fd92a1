CONSTANTS
  AddrSpace = 16
  Areas <- MCAreas
  Candidates <- MCCandidates
  Files <- MCFiles
  Zero = 0
  Blank = Blank
  VmemByte = VmemByte
  Stray = Stray
  MaxLoads = 1
  MaxPhdrs = 1
  Paddrs = {2, 8}
  Sizes = {2}
  Offsets = {0}
  RomDepth = 3
  RamWords = 4
SPECIFICATION Spec
INVARIANT DesignAccepts
CHECK_DEADLOCK FALSE
