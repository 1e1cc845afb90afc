SPECIFICATION Spec
CONSTANTS
  Task = {t1}
  Cyc = {c1}
  Alm = {a1}
  TIMER_PERIOD = 2
  Times = {0, 1, 3}
  MaxCalls = 2
  Attributes <- AllAttributes
VIEW TimerView
INVARIANTS
  TimerQueueMatchesStates
  NeverEarly
  NeverLate
PROPERTIES
  CalledOncePerInterval
  PhaseKept
