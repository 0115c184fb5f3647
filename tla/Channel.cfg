SPECIFICATION FairSpec
CONSTANTS
  t1 = t1
  t2 = t2
  v1 = v1
  h1 = h1
  h2 = h2
  h3 = h3
  Threads <- TwoThreads
  Values <- OneValue
  Handles <- ThreeHandles
  Ops <- BusOps
  Owner = Owner
  NoThread = NoThread
  NoHandle = NoHandle
  NoValue = NoValue
  Blank = v1
  Cooldown = 1
  Lingering = FALSE
INVARIANTS
  TypeOK
  MutualExclusion
  NoHandleLost
  NoClosedHandleUsed
  RecoverySparesLiveChannel
PROPERTIES
  ReopensApart
  ImplementsImage
  LockReleased
  Recovers
