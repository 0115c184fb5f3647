SPECIFICATION FairSpec
CONSTANTS
  c1 = c1
  u1 = u1
  v1 = v1
  v2 = v2
  Tcp <- OneConnection
  Udp <- OneDatagram
  Main = Main
  Values <- OneValue
  Requests <- TwoKinds
  NoValue = NoValue
  Blank = v1
  MaxRequests = 2
  MaxEvents = 1
INVARIANT TypeOK
PROPERTIES
  StartupServes
  EveryRequestAnswered
  ConnectionsEnd
