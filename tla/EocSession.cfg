SPECIFICATION Spec
CONSTANTS
  HeartMax = 1
  PkgMax = 1
  RbMax = 1
  MaxFaults = 2
  MaxOrders = 1
INVARIANTS TypeOK LoggedInThisSession SilenceBounded LiveIsOpen
PROPERTIES LossIsMended LogsIn
