SPECIFICATION Spec
CONSTANTS
  Disks <- MCDisks
  SectorsPerTrack = 6
  Heads = 2
  Cylinders = 260
  SectorSize = 8
  BpbSectorsPerTrack = 6
  BpbHeads = 2
  Stage2FirstLba = 3085
  Stage2Sectors = 4
  DirEntrySize = 4
  NameLength = 2
  ExtLength = 1
  Fat12Limit = 4085
  WordMod = 1073741824
  MaxPrinted = 2
  Ds = 65526
  FatSeg = 64
  TableRoom = 24
  KernelSeg = 128
  MemoryEnd = 1048576
  Garbage = {0, 4, 4095}
INVARIANTS
  StartsWholeKernel
  GivesUpForCause
  Stage2InPlace
PROPERTIES
  TableLookupsInside
  Terminates
