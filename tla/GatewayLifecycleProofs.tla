------------------------ MODULE GatewayLifecycleProofs ------------------------
(* Theorems about GatewayLifecycle, for any runners, clients and settings,   *)
(* and, but for the last, on either platform.                                *)
EXTENDS GatewayLifecycle, TLAPS

USE RunnerAssumption, ConfigAssumption, FileAssumption
USE DEF At, window, runners, world, NoSockets, NoMock, AllClosed, NothingBound,
        NobodyConnected, Protocols

-----------------------------------------------------------------------------
(* Types                                                                    *)

\* Every configuration there is can be stored, loaded and put together.
LEMMA ConfigTypes ==
  /\ DefaultConfig \in AllConfigs
  /\ \A c \in AllConfigs, s \in Servers : Config(c.dll, s) \in AllConfigs
  /\ \A c \in AllConfigs, d \in Dlls : Config(d, c) \in AllConfigs
  /\ \A c \in AllConfigs : Loaded(c, TRUE) = c
  /\ \A f \in AllConfigs \cup {NoFile, TornFile}, readable \in BOOLEAN :
       Loaded(f, readable) \in AllConfigs
BY DEF DefaultConfig, AllConfigs, AllServers, Config, Loaded

\* A process that ends leaves nothing behind but the settings file.
LEMMA ExitTypes ==
  ASSUME TypeOK, NEW how \in {"down", "failed"}, Exit(how)
  PROVE  TypeOK'
BY ConfigTypes DEF TypeOK, Exit, Steps

\* What a server's socket can be.
Socket == {"none", "serving", "shut"}

\* Setting one socket of one runner changes that one alone.
LEMMA OneSocket ==
  ASSUME NEW f \in [Runners -> [Protocols -> Socket]], NEW r \in Runners,
         NEW p \in Protocols, NEW v,
         NEW q \in Runners, NEW t \in Protocols
  PROVE  [f EXCEPT ![r][p] = v][q][t] = IF q = r /\ t = p THEN v ELSE f[q][t]
<1>1. CASE q = r
  <2>1. [f EXCEPT ![r][p] = v][q] = [f[r] EXCEPT ![p] = v]
    BY <1>1
  <2>2. f[r] \in [Protocols -> Socket]
    OBVIOUS
  <2>3. [f[r] EXCEPT ![p] = v][t] = IF t = p THEN v ELSE f[r][t]
    BY <2>2
  <2> QED BY <1>1, <2>1, <2>3
<1>2. CASE q # r
  BY <1>2
<1> QED BY <1>1, <1>2

\* Setting one socket of one runner gives sockets again.
LEMMA SetSocket ==
  ASSUME NEW f \in [Runners -> [Protocols -> Socket]], NEW r, NEW p, NEW v \in Socket
  PROVE  [f EXCEPT ![r][p] = v] \in [Runners -> [Protocols -> Socket]]
<1>1. CASE r \in Runners
  <2>1. [f[r] EXCEPT ![p] = v] \in [Protocols -> Socket]
    BY <1>1
  <2> QED BY <1>1, <2>1
<1>2. CASE r \notin Runners
  BY <1>2
<1> QED BY <1>1, <1>2

\* Every step keeps the types.
LEMMA TypeStep == TypeOK /\ [Next]_vars => TypeOK'
<1> SUFFICES ASSUME TypeOK, [Next]_vars PROVE TypeOK'
  OBVIOUS
<1> USE DEF TypeOK, Steps
<1>1. CASE UNCHANGED vars
  BY <1>1 DEF vars
<1>2. CASE Launch
  <2>1. PICK readable \in BOOLEAN :
          config' = Loaded(file, readable) /\ mishap' = ~readable
    BY <1>2 DEF Launch
  <2>2. config' \in AllConfigs
    BY <2>1, ConfigTypes
  <2> QED BY <1>2, <2>1, <2>2 DEF Launch
<1>3. CASE Killed \/ Quit
  BY <1>3, ExitTypes DEF Killed, Quit
<1>4. CASE Construct
  <2>1. CASE Exit("failed")
    BY <2>1, ExitTypes
  <2>2. CASE ~Exit("failed")
    <3>1. CASE gui' = "event"
      BY <1>4, <2>2, <3>1 DEF Construct
    <3>2. CASE gui' # "event"
      <4>1. PICK r \in Free :
              starting' = r /\ mock' = [mock EXCEPT ![r] = config.dll = "mock"]
        BY <1>4, <2>2, <3>2 DEF Construct
      <4>2. mock' \in [Runners -> BOOLEAN]
        BY <4>1
      <4>3. /\ gui' = "openBackend" /\ fine' \in BOOLEAN
            /\ UNCHANGED <<app, mishap, file, config, launching, then, current, running,
                           backend, sock, conn, world>>
        BY <1>4, <2>2, <3>2 DEF Construct, Fine, WorksWith
      <4> QED BY <4>1, <4>2, <4>3 DEF Free, world
    <3> QED BY <3>1, <3>2
  <2> QED BY <2>1, <2>2
<1>5. CASE OpenBackend
  BY <1>5 DEF OpenBackend
<1>6. CASE BindTcp \/ BindUdp
  <2>1. sock' \in [Runners -> [Protocols -> Socket]]
    <3>1. ASSUME NEW p PROVE [sock EXCEPT ![starting][p] = "serving"]
                             \in [Runners -> [Protocols -> Socket]]
      BY SetSocket DEF Socket
    <3>2. sock \in [Runners -> [Protocols -> Socket]]
      BY DEF Socket
    <3>3. \/ UNCHANGED sock
          \/ \E p \in Protocols : sock' = [sock EXCEPT ![starting][p] = "serving"]
      BY <1>6 DEF BindTcp, BindUdp, Bind
    <3> HIDE DEF TypeOK
    <3> QED BY <3>1, <3>2, <3>3
  <2>2. gui' \in Steps
    BY <1>6 DEF BindTcp, BindUdp, Bind
  <2>3. UNCHANGED <<app, mishap, file, config, launching, then, current, starting, running,
                    mock, backend, conn, world, fine>>
    BY <1>6 DEF BindTcp, BindUdp, Bind
  <2> QED BY <2>1, <2>2, <2>3 DEF Socket
<1>7. CASE FinishStart \/ StartFailed
  BY <1>7 DEF FinishStart, StartFailed
<1>8. CASE BeginStop
  BY <1>8 DEF BeginStop, AfterStep
<1>9. CASE StopServer("tcp", "shutTcp", "closeTcp") \/ StopServer("udp", "shutUdp", "closeUdp")
  BY <1>9 DEF StopServer, AfterStep
<1>10. CASE CloseBackend \/ DropRunner
  BY <1>10 DEF CloseBackend, DropRunner, AfterStep
<1>11. CASE Save \/ SaveFails
  BY <1>11 DEF Save, SaveFails
<1>12. CASE ApplyConfig
  <2>1. config' \in AllConfigs
    BY <1>12, ConfigTypes DEF ApplyConfig
  <2> QED BY <1>12, <2>1 DEF ApplyConfig, AfterDialog
<1>13. CASE RestartGateway \/ CloseWindow
  BY <1>13 DEF RestartGateway, CloseWindow
<1>14. ASSUME NEW c \in Clients, Connect(c) \/ Disconnect(c) \/ RequestReopens(c)
       PROVE  TypeOK'
  <2>1. conn' \in [Clients -> Runners \cup {NoRunner}]
    BY <1>14 DEF Connect, Disconnect, RequestReopens
  <2>2. backend' \in [Runners -> {"closed", "open"}]
    BY <1>14 DEF Connect, Disconnect, RequestReopens
  <2>3. UNCHANGED <<window, mock, sock, world, fine>>
    BY <1>14 DEF Connect, Disconnect, RequestReopens
  <2> QED BY <2>1, <2>2, <2>3
<1>15. CASE WorldChanges
  <2>1. board' \in BOOLEAN
    BY <1>15 DEF WorldChanges
  <2>2. taken' \in SUBSET Protocols
    BY <1>15 DEF WorldChanges
  <2>3. fine' \in BOOLEAN
    BY <1>15 DEF WorldChanges
  <2>4. UNCHANGED <<window, runners, conn>>
    BY <1>15 DEF WorldChanges
  <2> QED BY <2>1, <2>2, <2>3, <2>4
<1> HIDE DEF TypeOK, Steps
<1> QED BY <1>1, <1>2, <1>3, <1>4, <1>5, <1>6, <1>7, <1>8, <1>9, <1>10, <1>11, <1>12,
           <1>13, <1>14, <1>15 DEF Next, GuiStep, User

\* Before the first launch there is no process.
LEMMA TypeInit == Init => TypeOK
<1> SUFFICES ASSUME Init PROVE TypeOK
  OBVIOUS
<1>1. sock \in [Runners -> [Protocols -> {"none", "serving", "shut"}]]
  BY DEF Init
<1>2. /\ mock \in [Runners -> BOOLEAN]
      /\ backend \in [Runners -> {"closed", "open"}]
      /\ conn \in [Clients -> Runners \cup {NoRunner}]
  BY DEF Init
<1>3. config \in AllConfigs
  BY ConfigTypes DEF Init
<1>4. gui \in Steps
  BY DEF Init, Steps
<1> QED BY <1>1, <1>2, <1>3, <1>4 DEF Init, TypeOK

\* Every variable stays within its type.
THEOREM LifecycleTypeCorrect == Spec => []TypeOK
BY TypeInit, TypeStep, PTL DEF Spec

-----------------------------------------------------------------------------
(* The settings                                                             *)

\* Between a dialog and the end of its write the window is ahead of the file;
\* otherwise the two agree, but for a mishap.
FileInv == app = "up" /\ gui \notin {"save", "dump"} /\ ~mishap => Loaded(file, TRUE) = config

\* The window in its event loop runs with what is stored for the next launch,
\* whatever was applied and wherever the application was killed, unless a write
\* failed or the launch could not read the file.
THEOREM SettingsAreApplied == Spec => []SettingsApplied
<1>1. Init => TypeOK /\ FileInv
  BY TypeInit DEF Init, FileInv
<1>2. TypeOK /\ FileInv /\ [Next]_vars => (TypeOK /\ FileInv)'
  <2> SUFFICES ASSUME TypeOK, FileInv, [Next]_vars PROVE FileInv'
    BY TypeStep
  <2> USE DEF FileInv
  <2>1. CASE Launch
    BY <2>1 DEF Launch
  <2>2. CASE Save \/ SaveFails
    <3>1. Loaded(config, TRUE) = config
      BY ConfigTypes DEF TypeOK
    <3> QED BY <2>2, <3>1 DEF Save, SaveFails
  <2>3. CASE ApplyConfig
    BY <2>3 DEF ApplyConfig, AfterDialog
  <2>4. CASE Killed \/ Quit
    BY <2>4 DEF Killed, Quit, Exit
  <2>5. CASE Construct
    BY <2>5 DEF Construct, Exit
  <2>6. CASE OpenBackend \/ BindTcp \/ BindUdp \/ FinishStart \/ StartFailed
    BY <2>6 DEF OpenBackend, BindTcp, BindUdp, Bind, FinishStart, StartFailed
  <2>7. CASE \/ BeginStop \/ CloseBackend \/ DropRunner
             \/ StopServer("tcp", "shutTcp", "closeTcp") \/ StopServer("udp", "shutUdp", "closeUdp")
    BY <2>7 DEF BeginStop, CloseBackend, DropRunner, StopServer
  <2>8. CASE RestartGateway \/ CloseWindow
    BY <2>8 DEF RestartGateway, CloseWindow
  <2>9. ASSUME NEW c \in Clients, Connect(c) \/ Disconnect(c) \/ RequestReopens(c)
        PROVE  FileInv'
    BY <2>9 DEF Connect, Disconnect, RequestReopens
  <2>10. CASE WorldChanges \/ UNCHANGED vars
    BY <2>10 DEF WorldChanges, vars
  <2> QED BY <2>1, <2>2, <2>3, <2>4, <2>5, <2>6, <2>7, <2>8, <2>9, <2>10
          DEF Next, GuiStep, User
<1>3. FileInv => SettingsApplied
  BY DEF FileInv, SettingsApplied
<1> QED BY <1>1, <1>2, <1>3, PTL DEF Spec

-----------------------------------------------------------------------------
(* The runner the GUI thread works on                                       *)

StartSteps == {"openBackend", "bindTcp", "bindUdp", "finish", "startFailed"}
StopSteps == {"shutTcp", "closeTcp", "shutUdp", "closeUdp", "closeBackend", "drop"}
RestSteps == {"event", "save", "dump", "stop"}

\* Which runner there is at which step: none in the window while one is being
\* started, and one while it is being stopped.
WhichRunner ==
  /\ app # "up" => gui = "event" /\ current = NoRunner
  /\ gui \in StartSteps \cup {"construct", "quit"} => current = NoRunner
  /\ gui \in StopSteps => current \in Runners
  /\ gui \in StartSteps => starting \in Runners
  /\ running => current \in Runners

\* A runner in the window has an open backend and takes requests.
CurrentServes ==
  gui \in RestSteps /\ current \in Runners =>
    /\ backend[current] = "open"
    /\ \E p \in Protocols : sock[current][p] = "serving"

\* The runner being started has its backend open before it binds, and what it
\* bound serves.
StartingOpens ==
  /\ gui \in {"bindTcp", "bindUdp", "finish"} => backend[starting] = "open"
  /\ gui \in StartSteps => \A p \in Protocols : sock[starting][p] # "shut"

\* stop() has left no socket behind it.
StopCloses ==
  /\ gui \in {"shutUdp", "closeUdp", "closeBackend", "drop"} => sock[current]["tcp"] = "none"
  /\ gui \in {"closeBackend", "drop"} => sock[current]["udp"] = "none"

\* What takes connections has an open backend, whichever runner it belongs to.
ServingOpen == \A r \in Runners : \A p \in Protocols : sock[r][p] = "serving" => backend[r] = "open"

RunnerInv == WhichRunner /\ CurrentServes /\ StartingOpens /\ StopCloses /\ ServingOpen

LEMMA RunnerInit == Init => RunnerInv
BY DEF Init, RunnerInv, WhichRunner, CurrentServes, StartingOpens, StopCloses, ServingOpen,
       StartSteps, StopSteps, RestSteps

\* Every step keeps the invariant.
LEMMA RunnerStep == TypeOK /\ RunnerInv /\ [Next]_vars => RunnerInv'
<1> SUFFICES ASSUME TypeOK, RunnerInv, [Next]_vars PROVE RunnerInv'
  OBVIOUS
<1> DEFINE Sockets == [Runners -> [Protocols -> Socket]]
<1>t. /\ sock \in Sockets /\ backend \in [Runners -> {"closed", "open"}]
      /\ gui \in Steps /\ app \in {"down", "up", "failed"}
      /\ current \in Runners \cup {NoRunner} /\ starting \in Runners \cup {NoRunner}
  BY DEF TypeOK, Socket
<1>i. WhichRunner /\ CurrentServes /\ StartingOpens /\ StopCloses /\ ServingOpen
  BY DEF RunnerInv
<1> USE DEF StartSteps, StopSteps, RestSteps
<1>e. ASSUME NEW how \in {"down", "failed"}, Exit(how) PROVE RunnerInv'
  BY <1>e DEF Exit, RunnerInv, WhichRunner, CurrentServes, StartingOpens, StopCloses, ServingOpen
<1>1. CASE UNCHANGED <<app, gui, current, starting, running, backend, sock>>
  BY <1>1 DEF RunnerInv, WhichRunner, CurrentServes, StartingOpens, StopCloses, ServingOpen
<1>2. CASE Launch
  BY <1>2, <1>i DEF Launch, RunnerInv, WhichRunner, CurrentServes, StartingOpens, StopCloses,
                    ServingOpen
<1>3. CASE Killed \/ Quit
  BY <1>3, <1>e DEF Killed, Quit
<1>4. CASE Construct
  <2>1. CASE Exit("failed")
    BY <2>1, <1>e
  <2>2. CASE ~Exit("failed")
    <3>1. WhichRunner' /\ ServingOpen' /\ CurrentServes' /\ StopCloses'
      BY <1>4, <2>2, <1>i DEF Construct, Free, WhichRunner, ServingOpen, CurrentServes, StopCloses
    <3>2. StartingOpens'
      BY <1>4, <2>2, <1>i DEF Construct, Free, StartingOpens
    <3> QED BY <3>1, <3>2 DEF RunnerInv
  <2> QED BY <2>1, <2>2
<1>5. CASE OpenBackend
  <2>1. /\ starting \in Runners /\ current = NoRunner /\ app = "up"
        /\ gui' \in {"bindTcp", "startFailed"}
        /\ gui' = "bindTcp" => backend'[starting] = "open"
        /\ \A r \in Runners : backend[r] = "open" => backend'[r] = "open"
        /\ UNCHANGED <<app, current, starting, running, sock>>
    BY <1>5, <1>i, <1>t DEF OpenBackend, WhichRunner
  <2>2. gui = "openBackend"
    BY <1>5 DEF OpenBackend
  <2> QED BY <2>1, <2>2, <1>i DEF RunnerInv, WhichRunner, CurrentServes, StartingOpens,
                                  StopCloses, ServingOpen
<1>6. CASE BindTcp \/ BindUdp
  <2>1. /\ starting \in Runners /\ current = NoRunner /\ backend[starting] = "open"
        /\ app = "up" /\ gui' \in {"bindUdp", "finish", "startFailed"}
        /\ UNCHANGED <<app, current, starting, running, backend>>
    BY <1>6, <1>i DEF BindTcp, BindUdp, Bind, WhichRunner, StartingOpens
  <2>2. \/ UNCHANGED sock
        \/ \E p \in Protocols : sock' = [sock EXCEPT ![starting][p] = "serving"]
    BY <1>6 DEF BindTcp, BindUdp, Bind
  <2>3. \A r \in Runners, p \in Protocols :
          sock'[r][p] # sock[r][p] => r = starting /\ sock'[r][p] = "serving"
    BY <2>1, <2>2, <1>t, OneSocket
  <2>4. gui \in {"bindTcp", "bindUdp"}
    BY <1>6 DEF BindTcp, BindUdp
  <2> QED BY <2>1, <2>3, <2>4, <1>i DEF RunnerInv, WhichRunner, CurrentServes, StartingOpens,
                                       StopCloses, ServingOpen
<1>7. CASE FinishStart
  <2>1. CASE NoServer
    BY <1>7, <2>1, <1>i DEF FinishStart, RunnerInv, WhichRunner, CurrentServes, StartingOpens,
                            StopCloses, ServingOpen
  <2>2. CASE ~NoServer
    <3>1. starting \in Runners /\ gui = "finish" /\ app = "up"
      BY <1>7, <1>i DEF FinishStart, WhichRunner
    <3>2. \E p \in Protocols : sock[starting][p] # "none"
      BY <2>2, <3>1, <1>t DEF NoServer
    <3>3. \E p \in Protocols : sock[starting][p] = "serving"
      BY <3>1, <3>2, <1>t, <1>i DEF StartingOpens, Socket
    <3>4. /\ current' = starting /\ gui' = "event"
          /\ UNCHANGED <<app, backend, sock>>
      BY <1>7, <2>2 DEF FinishStart
    <3> QED BY <3>1, <3>3, <3>4, <1>i DEF RunnerInv, WhichRunner, CurrentServes, StartingOpens,
                                          StopCloses, ServingOpen
  <2> QED BY <2>1, <2>2
<1>8. CASE StartFailed
  BY <1>8, <1>i DEF StartFailed, RunnerInv, WhichRunner, CurrentServes, StartingOpens,
                    StopCloses, ServingOpen
<1>9. CASE BeginStop
  BY <1>9, <1>t, <1>i DEF BeginStop, AfterStep, RunnerInv, WhichRunner, CurrentServes, StartingOpens,
                    StopCloses, ServingOpen
<1>10. ASSUME NEW p \in Protocols, NEW shut, NEW close, StopServer(p, shut, close),
              \/ p = "tcp" /\ shut = "shutTcp" /\ close = "closeTcp"
              \/ p = "udp" /\ shut = "shutUdp" /\ close = "closeUdp"
       PROVE  RunnerInv'
  <2>1. /\ current \in Runners /\ app = "up"
        /\ UNCHANGED <<app, current, starting, running, backend>>
    BY <1>10, <1>i DEF StopServer, WhichRunner
  <2>2. CASE At(shut)
    <3>1. gui' = AfterStep(shut)
      BY <1>10, <2>2 DEF StopServer
    <3>2. PICK v : sock' = [sock EXCEPT ![current][p] = v]
                   /\ v = (IF sock[current][p] = "serving" THEN "shut" ELSE sock[current][p])
      BY <1>10, <2>2, <2>1, <1>t DEF StopServer
    <3>3. \A r \in Runners, q \in Protocols :
            sock'[r][q] = IF r = current /\ q = p THEN v ELSE sock[r][q]
      BY <3>2, <2>1, <1>t, OneSocket
    <3> QED BY <3>1, <3>2, <3>3, <2>1, <2>2, <1>i, <1>10
            DEF AfterStep, RunnerInv, WhichRunner, CurrentServes, StartingOpens, StopCloses, ServingOpen
  <2>3. CASE At(close)
    <3>1. gui' = AfterStep(close)
      BY <1>10, <2>3 DEF StopServer
    <3>2. sock' = [sock EXCEPT ![current][p] = "none"]
      BY <1>10, <2>3 DEF StopServer
    <3>3. \A r \in Runners, q \in Protocols :
            sock'[r][q] = IF r = current /\ q = p THEN "none" ELSE sock[r][q]
      BY <3>2, <2>1, <1>t, OneSocket
    <3> QED BY <3>1, <3>3, <2>1, <2>3, <1>i, <1>10
            DEF AfterStep, RunnerInv, WhichRunner, CurrentServes, StartingOpens, StopCloses, ServingOpen
  <2> QED BY <1>10, <2>2, <2>3 DEF StopServer
<1>11. CASE CloseBackend
  <2>1. /\ current \in Runners /\ app = "up" /\ gui = "closeBackend" /\ gui' = "drop"
        /\ UNCHANGED <<app, current, starting, running, sock>>
    BY <1>11, <1>i DEF CloseBackend, AfterStep, WhichRunner
  <2>2. \A r \in Runners : r # current => backend'[r] = backend[r]
    BY <1>11, <1>t DEF CloseBackend
  <2>3. \A p \in Protocols : sock[current][p] = "none"
    BY <2>1, <1>i DEF StopCloses
  <2> QED BY <2>1, <2>2, <2>3, <1>i DEF RunnerInv, WhichRunner, CurrentServes, StartingOpens,
                                       StopCloses, ServingOpen
<1>12. CASE DropRunner
  BY <1>12, <1>i DEF DropRunner, RunnerInv, WhichRunner, CurrentServes, StartingOpens,
                     StopCloses, ServingOpen
<1>13. CASE Save \/ SaveFails \/ User
  BY <1>13, <1>i DEF Save, SaveFails, User, RestartGateway, ApplyConfig, AfterDialog, CloseWindow,
                     RunnerInv, WhichRunner, CurrentServes, StartingOpens, StopCloses, ServingOpen
<1>14. ASSUME NEW c \in Clients, RequestReopens(c) PROVE RunnerInv'
  <2>1. \A r \in Runners : backend[r] = "open" => backend'[r] = "open"
    BY <1>14, <1>t DEF RequestReopens
  <2>2. UNCHANGED <<app, gui, current, starting, running, sock>>
    BY <1>14 DEF RequestReopens
  <2> QED BY <2>1, <2>2, <1>i, <1>t DEF RunnerInv, WhichRunner, CurrentServes, StartingOpens,
                                  StopCloses, ServingOpen
<1>15. \/ UNCHANGED vars \/ WorldChanges \/ \E c \in Clients : Connect(c) \/ Disconnect(c)
       => UNCHANGED <<app, gui, current, starting, running, backend, sock>>
  BY DEF vars, WorldChanges, Connect, Disconnect
<1>16. CASE StopServer("tcp", "shutTcp", "closeTcp") \/ StopServer("udp", "shutUdp", "closeUdp")
  BY <1>10, <1>16
<1> QED BY <1>1, <1>2, <1>3, <1>4, <1>5, <1>6, <1>7, <1>8, <1>9, <1>11, <1>12, <1>13, <1>14,
           <1>15, <1>16 DEF Next, GuiStep

LEMMA RunnerAlways == Spec => [](TypeOK /\ RunnerInv)
BY TypeInit, TypeStep, RunnerInit, RunnerStep, PTL DEF Spec

\* The label says Running only of a gateway with an open backend and a server
\* that takes requests.
THEOREM RunningIsServing == Spec => []RunningServes
<1>1. RunnerInv => RunningServes
  BY DEF RunnerInv, WhichRunner, CurrentServes, RunningServes, RestSteps
<1> QED BY <1>1, RunnerAlways, PTL

\* A client that connects finds an open backend, of a runner that starts, runs
\* or was given up when its start failed.
THEOREM NewClientIsServed == Spec => NewClientFindsOpenBackend
<1> DEFINE Served == \A c \in Clients :
             conn[c] = NoRunner /\ conn'[c] # NoRunner => backend[conn'[c]] = "open"
<1>1. TypeOK /\ RunnerInv /\ [Next]_vars => [Served]_vars
  <2> SUFFICES ASSUME TypeOK, RunnerInv, [Next]_vars, NEW c \in Clients,
                      conn[c] = NoRunner, conn'[c] # NoRunner
               PROVE  backend[conn'[c]] = "open"
    OBVIOUS
  <2>1. conn' # conn /\ conn' # NobodyConnected
    OBVIOUS
  <2>2. PICK d \in Clients : Connect(d) \/ Disconnect(d)
    BY <2>1 DEF Next, GuiStep, User, vars, Launch, Killed, Quit, Exit, Construct, OpenBackend,
       BindTcp, BindUdp, Bind, FinishStart, StartFailed, BeginStop, StopServer, CloseBackend,
       DropRunner, Save, SaveFails, RestartGateway, ApplyConfig, CloseWindow, RequestReopens,
       WorldChanges
  <2>3. conn \in [Clients -> Runners \cup {NoRunner}]
    BY DEF TypeOK
  <2>4. Connect(d) /\ d = c
    BY <2>2, <2>3 DEF Connect, Disconnect
  <2>5. \E r \in Runners : sock[r]["tcp"] = "serving" /\ conn'[c] = r
    BY <2>3, <2>4 DEF Connect
  <2> QED BY <2>5 DEF RunnerInv, ServingOpen
<1> QED BY <1>1, RunnerAlways, PTL DEF Spec, NewClientFindsOpenBackend

\* A runner the window lets go of after stop() listens on no port.
THEOREM StoppedRunnerIsSilent == Spec => StopFreesPorts
<1> DEFINE Silent == At("drop") /\ app' = "up" /\ current' # current => sock[current] = NoSockets
<1>1. TypeOK /\ RunnerInv => [Silent]_vars
  <2> SUFFICES ASSUME TypeOK, RunnerInv, At("drop") PROVE sock[current] = NoSockets
    OBVIOUS
  <2>1. current \in Runners /\ sock[current]["tcp"] = "none" /\ sock[current]["udp"] = "none"
    BY DEF RunnerInv, WhichRunner, StopCloses, StopSteps
  <2>2. sock[current] \in [Protocols -> {"none", "serving", "shut"}]
    BY <2>1 DEF TypeOK
  <2> QED BY <2>1, <2>2
<1> QED BY <1>1, RunnerAlways, PTL DEF StopFreesPorts

-----------------------------------------------------------------------------
(* Starts                                                                   *)

\* A start with nothing wrong outside has done all it was to do so far.
FineInv ==
  fine =>
    /\ gui \in StartSteps \ {"startFailed"}
    /\ board /\ taken = {} /\ (config["tcp"] \/ config["udp"])
    /\ gui \in {"bindUdp", "finish"} /\ config["tcp"] => sock[starting]["tcp"] = "serving"
    /\ gui = "finish" /\ config["udp"] => sock[starting]["udp"] = "serving"

\* A start with nothing wrong outside goes through, where a second bind() of a
\* listening port succeeds.
THEOREM FixedStartSucceeds == ~ExclusiveBind /\ Spec => []FixedGatewayStarts
<1> SUFFICES ASSUME ~ExclusiveBind PROVE Spec => []FixedGatewayStarts
  OBVIOUS
<1>1. Init => FineInv
  BY DEF Init, FineInv
<1>2. TypeOK /\ RunnerInv /\ FineInv /\ [Next]_vars => FineInv'
  <2> SUFFICES ASSUME TypeOK, RunnerInv, FineInv, [Next]_vars, fine'
               PROVE  FineInv'
    BY DEF FineInv
  <2> USE DEF FineInv, StartSteps
  <2>t. sock \in [Runners -> [Protocols -> Socket]]
    BY DEF TypeOK, Socket
  <2>i. gui \in StartSteps => starting \in Runners
    BY DEF RunnerInv, WhichRunner
  <2>1. CASE UNCHANGED <<gui, config, starting, sock>> /\ fine
    <3>1. board' /\ taken' = {}
      BY <2>1 DEF Next, GuiStep, User, vars, Launch, Killed, Quit, Exit, Construct, OpenBackend,
         BindTcp, BindUdp, Bind, FinishStart, StartFailed, BeginStop, StopServer, CloseBackend,
         DropRunner, Save, SaveFails, RestartGateway, ApplyConfig, CloseWindow, Connect,
         Disconnect, RequestReopens, WorldChanges
    <3> QED BY <2>1, <3>1
  <2>2. CASE Construct
    <3>1. gui = "construct" /\ ~fine
      BY <2>2 DEF Construct
    <3>2. gui' = "openBackend" /\ fine' = (Fine /\ WorksWith(config)) /\ UNCHANGED <<config, world>>
      BY <2>2, <3>1 DEF Construct, Exit
    <3>3. Fine /\ WorksWith(config)
      BY <3>2
    <3>4. board /\ taken = {} /\ (config["tcp"] \/ config["udp"])
      BY <3>3 DEF Fine, WorksWith
    <3> QED BY <3>2, <3>4
  <2>3. CASE OpenBackend
    BY <2>3 DEF OpenBackend
  <2>4. ASSUME NEW p \in Protocols, NEW next, At("bindTcp") \/ At("bindUdp"), Bind(p, next),
               \/ p = "tcp" /\ next = "bindUdp" /\ gui = "bindTcp"
               \/ p = "udp" /\ next = "finish" /\ gui = "bindUdp"
        PROVE  FineInv'
    <3>1. CanBind(p) /\ starting \in Runners
      BY <2>4, <2>i DEF CanBind, Bind
    <3>2. /\ gui' = next
          /\ UNCHANGED <<config, starting, world, fine>>
          /\ IF config[p] THEN sock' = [sock EXCEPT ![starting][p] = "serving"]
             ELSE UNCHANGED sock
      BY <2>4, <3>1 DEF Bind
    <3>3. \A q \in Protocols :
            sock'[starting][q] = IF q = p /\ config[p] THEN "serving" ELSE sock[starting][q]
      BY <3>1, <3>2, <2>t, OneSocket
    <3> QED BY <3>2, <3>3, <2>4
  <2>5. CASE FinishStart
    <3>1. fine /\ gui = "finish"
      BY <2>5 DEF FinishStart
    <3>2. \E p \in Protocols : sock[starting][p] = "serving"
      BY <3>1
    <3>3. ~NoServer
      BY <3>2 DEF NoServer
    <3> QED BY <2>5, <3>3 DEF FinishStart
  <2>u. app # "up" => gui = "event"
    BY DEF RunnerInv, WhichRunner
  <2>6. CASE \/ Launch \/ Killed \/ StartFailed \/ BeginStop \/ CloseBackend \/ DropRunner \/ Quit
             \/ StopServer("tcp", "shutTcp", "closeTcp") \/ StopServer("udp", "shutUdp", "closeUdp")
             \/ Save \/ SaveFails \/ User
    BY <2>6, <2>u DEF Launch, Killed, Quit, Exit, StartFailed, BeginStop, CloseBackend, DropRunner,
                StopServer, Save, SaveFails, User, RestartGateway, ApplyConfig, CloseWindow
  <2>7. \/ WorldChanges \/ UNCHANGED vars
        \/ \E c \in Clients : Connect(c) \/ Disconnect(c) \/ RequestReopens(c)
        => UNCHANGED <<gui, config, starting, sock>> /\ fine
    BY DEF WorldChanges, vars, Connect, Disconnect, RequestReopens
  <2>8. CASE BindTcp \/ BindUdp
    BY <2>8, <2>4 DEF BindTcp, BindUdp
  <2> QED BY <2>1, <2>2, <2>3, <2>5, <2>6, <2>7, <2>8 DEF Next, GuiStep
<1>3. FineInv => FixedGatewayStarts
  BY DEF FineInv, FixedGatewayStarts, StartSteps
<1> QED BY <1>1, <1>2, <1>3, RunnerAlways, PTL DEF Spec

=============================================================================
