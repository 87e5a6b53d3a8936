SPECIFICATION Spec
CONSTANTS
  NumI = 2
  Cap = 2
  Statuses = {0, 1}
  Businesses = {"transparent", "changes"}
  MaxPushed = 3
INVARIANTS TypeOK InOrderOnce OneLossPerOverrun ReportsChanges
CHECK_DEADLOCK FALSE
