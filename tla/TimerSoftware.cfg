CONSTANTS
  WordBits = 3
  TimeBases = {0, 2, 13}
  NewTimes = {3, 9}
  MaxTime = 22
SPECIFICATION Spec
INVARIANTS TypeOK NeverEarly NeverLost ElapsedHonest
PROPERTY ReadExact
CHECK_DEADLOCK FALSE
