SPECIFICATION Spec
CONSTANTS
  NumI = 2
  Cap = 2
  Cache = 2
  Fs = 2
  IntervalTask = 3
  KeepsOutput = FALSE
  Timestamps = {1, 2, 3, 4}
  MaxPushed = 5
INVARIANTS TypeOK OutputIsOneFrame NoFrameInThree MissingOnlyIfAbsentOrRaced
PROPERTIES RoadNeverBackAFrame SearchCatchesUp
CHECK_DEADLOCK FALSE
