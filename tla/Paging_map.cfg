SPECIFICATION PagingSpec
CONSTANTS
  PageSize = 2
  WordBits = 4
  PageCount = 6
  LowPages = 1
  KernelStart = 0
  KernelEnd = 1
  HeapStart = 2
  HeapEnd = 3
  StackStart = 1
  StackEnd = 2
  DirectoryEntries = 3
  TableEntries = 5
  FirstTablePage = 0
  VirtualAddresses = {4, 10, 11, 20}
  Targets = {4, 10, 13}
  FlagSets = {{"W"}}
INVARIANTS
  TlbCoherent
  TablesPrivate
  Partition
  CounterExact
PROPERTIES
  OneTranslationChanges
