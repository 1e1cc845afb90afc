SPECIFICATION Spec
CONSTANTS
  None = None
  Task = {t1, t2, t3}
  Opn = {d1, d2}
  Req = {r1, r2}
  Unit = {0, 1}
  Modes <- TwoModes
  Overlap = {}
  Followed = {t1}
INVARIANTS
  OpenCloseSerialised
  DriverOpenWhileUsed
  ModesRespected
  
PROPERTY
  CloseEnds
