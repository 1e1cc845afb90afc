SPECIFICATION RoundRobinSpec
CONSTANTS
  hi = hi
  w1 = w1
  w2 = w2
  NoTask = NoTask
  NoQueue = NoQueue
  NumPri = 2
  Task <- ThreeTasks
  WaitQueue = {}
  MaxWup = 1
  MaxSus = 1
  Event = {}
  Slices = {0, 2}
  Urgent = hi
  SliceTime = 2
PROPERTIES
  WorkersShareCpu
  SelectedTaskRuns
