SPECIFICATION MpfSpec
CONSTANTS
  t1 = t1
  t2 = t2
  t3 = t3
  m1 = m1
  NoTask = NoTask
  NoQueue = NoQueue
  NoMpf = NoMpf
  NumPri = 2
  Task <- ThreeTasks
  InitTask = t3
  InitPri <- Mixed
  WaitQueue <- OneQueue
  Lock <- OneLock
  MaxWup = 0
  MaxSus = 1
  Event = {}
  Slices = {}
  Mpf <- OnePool
  MpfCnt = 2
  MpfAtr = {TRUE, FALSE}
  MpfTmo = {"TMO_POL", "finite"}
  Disturbed <- Supervisor
SYMMETRY Workers
PROPERTY PoolPromise
INVARIANTS
  LockExclusive
  LinkedOnce
  BlocksConserved
