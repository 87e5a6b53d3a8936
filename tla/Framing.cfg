SPECIFICATION Spec
CONSTANTS
  Roles = {"server", "client"}
  RingSize = 4
  MaxPkgs = 1
  HeadLen = 2
  CrcLen = 2
  BodyLens = {0, 2}
  GarbageLens = {3, 5, 14}
  WordSize = 64
  MaxSent = 3
  MaxBreaks = 2
INVARIANTS TypeOK LossesExplained OutOfStepOnlyAfterCut
PROPERTY EveryPacketSettled
CHECK_DEADLOCK FALSE
