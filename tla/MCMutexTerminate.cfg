SPECIFICATION MtxSpec
CONSTANTS
  t1 = t1
  t2 = t2
  t3 = t3
  m1 = m1
  m2 = m2
  NoTask = NoTask
  NoQueue = NoQueue
  NumPri = 2
  Task <- ThreeTasks
  InitTask = t3
  InitPri <- PriLow
  WaitQueue <- TwoMutexes
  MaxWup = 0
  MaxSus = 0
  Event = {}
  Slices = {}
  Mtx <- TwoMutexes
  MtxKinds <- Inheriting
  Suspended = {}
  NewPri <- AnyPri
  MtxTmo = {"TMO_POL", "finite"}
  MtxRank <- RankOne
INVARIANT TerminatedNotQueued
