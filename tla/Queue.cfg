SPECIFICATION Spec
CONSTANTS
  a = a  b = b
  Data = {a, b}
  NULL = NULL
  MAX_SIZE = 4
INVARIANTS RingInv
PROPERTIES ImplementsFifo
