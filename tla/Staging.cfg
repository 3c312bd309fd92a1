CONSTANTS
  AddrSpace = 8
  Zero = Zero
  Lens = {1, 2, 5}
  MaxAdds = 4
SPECIFICATION StagingSpec
INVARIANTS SegmentsDisjoint FlatExact
PROPERTY LastWriterWins
CHECK_DEADLOCK FALSE
