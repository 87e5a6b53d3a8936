SPECIFICATION Spec
CONSTANTS
  Units = {"jam", "overflow"}
  MaxAlarms = 3
  Cap = 1
  MaxResend = 2
  Threshold = 2
  UsesThreshold = TRUE
  MaxFaults = 2
INVARIANTS TypeOK OnePlace ClosedIsNoticed
PROPERTY FateOnce
