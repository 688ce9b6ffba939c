SPECIFICATION CallersSpec
CONSTANTS
  PageSize = 2
  WordBits = 4
  PageCount = 6
  LowPages = 1
  KernelStart = 0
  KernelEnd = 1
  HeapStart = 2
  HeapEnd = 3
  StackStart = 1
  StackEnd = 2
  Callers = {c1, c2}
INVARIANTS
  NoDuplicatePage
