SPECIFICATION FairSpec
CONSTANTS
  c1 = c1
  c2 = c2
  Conns <- OneConn
  MaxFrames = 2
  Window = 1
INVARIANTS
  TypeOK
  CountIsHandlers
  CountersExact
  DesyncStopsWrites
PROPERTIES
  NoPollAfterHandler
  ConnectionsEnd
  WritesFlow
