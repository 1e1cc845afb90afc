SPECIFICATION CommSpec
CONSTANTS
  t1 = t1
  t2 = t2
  t3 = t3
  f1 = f1
  b1 = b1
  c1 = c1
  p1 = p1
  p2 = p2
  bit1 = bit1
  bit2 = bit2
  m1 = m1
  m2 = m2
  m3 = m3
  l1 = l1
  l3 = l3
  NoTask = NoTask
  NoQueue = NoQueue
  NoMsg = NoMsg
  NumPri = 2
  MaxWup = 0
  MaxSus = 0
  Event = {}
  Slices = {}
  Task <- ThreeTasks
  InitTask = t1
  InitPri <- SamePri
  WaitQueue <- PortQueues
  Flg <- NoObjects
  Bit <- NoObjects
  Mbx <- NoObjects
  Msg <- NoObjects
  MsgPri <- NoSizes
  Mbf <- NoObjects
  Letter <- NoObjects
  MsgSz <- NoSizes
  HEADERSZ = 1
  MaxBufSz = 0
  Por <- TwoPorts
  Pattern <- TwoBits
  Caller <- TheCaller
  MaxRdv <- FewRdv
  FlgAtr <- NoAtrs
  Wfmode <- NoAtrs
  MbxAtr <- NoAtrs
  MbfAtr <- NoAtrs
  BufSz <- NoObjects
  PorAtr <- PorAtrs
  CommTmo <- SomeTmo
  CommPri <- NoPris
  WaitMasks <- PorMasks
  Disturbed <- TheCaller
SYMMETRY PorLike
INVARIANTS
  NoMatchMissed
  ForwardKeepsCall
PROPERTIES
  RdvNumberFresh
