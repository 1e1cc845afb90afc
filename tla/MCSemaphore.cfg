SPECIFICATION SemSpec
CONSTANTS
  t1 = t1
  t2 = t2
  t3 = t3
  s1 = s1
  NoTask = NoTask
  NoQueue = NoQueue
  NumPri = 2
  Task <- ThreeTasks
  InitTask = t1
  InitPri <- SamePri
  WaitQueue <- OneSem
  MaxWup = 0
  MaxSus = 1
  Event = {}
  Slices = {}
  Sem <- OneSem
  SemAtr <- SomeAtr
  MaxSem = 2
  SemTmo = {"TMO_POL", "finite"}
  Disturbed <- OneTask
SYMMETRY Others
INVARIANTS
  SemQueuesMatchStates
  NoGrantableWaiter
PROPERTIES
  UnitsConserved
  NoOvertaking
