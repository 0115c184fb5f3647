SPECIFICATION FairSpec
CONSTANTS
  r1 = r1
  r2 = r2
  r3 = r3
  c1 = c1
  Runners <- TwoRunners
  Clients <- OneClient
  Dlls <- WindowsDlls
  Servers <- SomeServers
  NoRunner = NoRunner
  NoFile = NoFile
  TornFile = TornFile
  ExclusiveBind = FALSE
INVARIANTS
  TypeOK
  RunningServes
  FixedGatewayStarts
  SettingsApplied
PROPERTIES
  NewClientFindsOpenBackend
  StopFreesPorts
  WindowReturns
