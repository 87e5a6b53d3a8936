SPECIFICATION Spec
CONSTANTS
  NumI = 2
  Cap = 2
  Cache = 2
  Fs = 2
  IntervalTask = 3
  KeepsOutput = TRUE
  Timestamps = {1, 2, 3, 4}
  MaxPushed = 5
INVARIANT OutputIsOneFrame
CHECK_DEADLOCK FALSE
