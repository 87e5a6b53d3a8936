SPECIFICATION Spec
CONSTANTS
  Byte = {0, 1}
  Capacity = 3
INVARIANTS TypeOK NeverRefused
PROPERTY ImplementsFifo
