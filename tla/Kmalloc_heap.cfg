SPECIFICATION FairSpec
CONSTANTS
  HeapSize = 112
  HeaderSize = 16
  SizeMod = 256
  Requests = {0, 1, 9, 24, 41, 97}
INVARIANTS
  TypeOK
  Tiling
  RequestCovered
  Coalesced
  FailsOnlyWhenFull
PROPERTIES
  HeldUntouched
  CallsReturn
