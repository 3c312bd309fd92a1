CONSTANTS
  AddrSpace = 16
  Areas <- MCAreas
  Candidates <- MCCandidates
  Files <- MCFiles
  Zero = 0
  Blank = Blank
  VmemByte = VmemByte
  Stray = Stray
  MaxLoads = 2
  MaxPhdrs = 2
  Paddrs = {2, 3, 6, 8, 9, 15}
  Sizes = {1, 3}
  Offsets = {1}
  RomDepth = 2
  RamWords = 3
SPECIFICATION Spec
INVARIANTS RegistryAgrees AreasDisjoint FindExact
PROPERTIES ElfLoadExact NamedLoadExact LoadAllOrNothing StagedFits
CHECK_DEADLOCK FALSE
