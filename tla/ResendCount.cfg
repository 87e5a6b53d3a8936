SPECIFICATION Spec
CONSTANTS
  Units = {"jam"}
  MaxAlarms = 1
  Cap = 1
  MaxResend = 1
  Threshold = 2
  UsesThreshold = FALSE
  MaxFaults = 4
INVARIANT ResendsWithinThreshold
