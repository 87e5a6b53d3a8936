SPECIFICATION Spec
CONSTANTS
  Threads = {1, 2, 3}
  Devices = {"d1", "d2"}
  Assignments <- MCAssignments
  N = 2
  Caches = 3
  MaxLate = 1
  NoName = "none"
  Garbled = "garbled"
INVARIANTS TypeOK OwnWindow RateOfOneDevice
PROPERTY UnitStarts
CHECK_DEADLOCK FALSE
