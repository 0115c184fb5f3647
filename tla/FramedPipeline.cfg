SPECIFICATION Spec
CONSTANTS
  c1 = c1
  u1 = u1
  v1 = v1
  v2 = v2
  Tcp <- OneConnection
  Udp <- OneDatagram
  Main = Main
  Values <- TwoValues
  Requests <- FrameKinds
  NoValue = NoValue
  Blank = v2
  MaxRequests = 3
  MaxEvents = 2
CONSTRAINT Pipelining
INVARIANTS
  AnsweredInOrder
  LogTruthful
  CountIsHandlers
  ReadBack
