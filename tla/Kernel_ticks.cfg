SPECIFICATION FairSpec
CONSTANTS
  AllStacks = {0, 1, 2}
  BootStack = 1
  Faults = {6, 14}
  TickMod = 2
  MaxNest = 3
  MaxTasks = 2
  TimeSlice = 2
  KernelMayStop = TRUE
INVARIANTS
  NothingLeftInService
  HandlersDontNest
  SectionsExclusive
  TaskStateRestored
PROPERTIES
  EoiEndsOwn
  ImplementsScheduler
