SPECIFICATION FairSpec
CONSTANTS
  MaxTasks = 4
  TimeSlice = 2
  KernelMayStop = TRUE
INVARIANTS
  TypeOK
  ContextIntegrity
  CurrentRuns
  ReturnedIdStable
  IdleOnlyWhenNoneReady
PROPERTIES
  SavedContextUntouched
  NoOvertaking
  NoStarvation
  WokenTaskReturns
  ImplementsLifecycle
