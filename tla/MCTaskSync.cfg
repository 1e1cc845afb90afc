SPECIFICATION TaskSpec
CONSTANTS
  t1 = t1
  t2 = t2
  t3 = t3
  ev1 = ev1
  NoTask = NoTask
  NoQueue = NoQueue
  NumPri = 1
  Task <- TwoTasks
  InitTask = t1
  FreeList <- Free1
  InitPri = 0
  WaitQueue = {}
  MaxWup = 2
  MaxSus = 2
  Event <- OneEvent
  Slices <- NoSlices
  WaitMasks <- BothMasks
  EventSets <- OneWait
SYMMETRY Alike
INVARIANTS
  TypeOK
  WaitAndSuspendAgree
  NoMissedWakeup
