SPECIFICATION Spec
CONSTANTS
  HeapSize = 112
  HeaderSize = 16
  SizeMod = 256
  Requests = {8, 251}
INVARIANTS
  RequestCovered
