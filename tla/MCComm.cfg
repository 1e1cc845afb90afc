SPECIFICATION CommSpec
CONSTANTS
  t1 = t1
  t2 = t2
  t3 = t3
  f1 = f1
  b1 = b1
  c1 = c1
  p1 = p1
  p2 = p2
  bit1 = bit1
  bit2 = bit2
  m1 = m1
  m2 = m2
  m3 = m3
  l1 = l1
  l3 = l3
  NoTask = NoTask
  NoQueue = NoQueue
  NoMsg = NoMsg
  NumPri = 2
  MaxWup = 0
  MaxSus = 0
  Event = {}
  Slices = {}
  Task <- ThreeTasks
  InitTask = t1
  InitPri <- SamePri
  WaitQueue <- ObjQueues
  Flg <- OneFlg
  Bit <- TwoBits
  Mbx <- OneMbx
  Msg <- Packets
  MsgPri <- PacketPri
  Mbf <- OneMbf
  Letter <- Letters
  MsgSz <- LetterSize
  HEADERSZ = 2
  MaxBufSz = 8
  Por <- NoObjects
  Pattern <- NoObjects
  Caller <- NoObjects
  MaxRdv <- NoRdv
  FlgAtr <- FlgAtrs
  Wfmode <- Wfmodes
  MbxAtr <- MbxAtrs
  MbfAtr <- MbfAtrs
  BufSz <- Sizes
  PorAtr <- NoAtrs
  CommTmo <- ForEver
  CommPri <- TwoPris
  WaitMasks <- NoMasks
  Disturbed <- OneTask
SYMMETRY Alike
INVARIANTS
  NoNeedlessWait
PROPERTIES
  EventsUsedOnce
  MailboxPromise
  MbfPromise
