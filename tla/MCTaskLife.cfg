SPECIFICATION TaskSpec
CONSTANTS
  t1 = t1
  t2 = t2
  t3 = t3
  ev1 = ev1
  NoTask = NoTask
  NoQueue = NoQueue
  NumPri = 2
  Task <- ThreeTasks
  InitTask = t1
  FreeList <- Free2
  InitPri = 1
  WaitQueue = {}
  MaxWup = 0
  MaxSus = 1
  Event <- NoEvents
  Slices <- ZeroSlice
  WaitMasks <- NoMasks
  EventSets <- NoWaits
SYMMETRY Alike
INVARIANTS
  QueuesMatchStates
  CachesMatchQueues
  SchedtskIsTop
  RunningIsHighest
  ContextMayRun

  
