--------------------------- MODULE GatewayLifecycle ---------------------------
(* MainWindow (gui/main_window.py) starting, restarting and closing the     *)
(* GatewayRunner (gateway/server.py), across launches of the application.   *)
(* A runner owns a backend and up to two listeners; the connections it      *)
(* accepted live in daemon threads that nothing joins.  The GUI thread runs *)
(* start() and stop() step by step; between two of its steps clients come,  *)
(* go and call, other programs take and free ports, the board comes and     *)
(* goes, and the application may be killed.                                 *)
EXTENDS Naturals

CONSTANTS
  Runners,        \* identities of runners alive at the same time (a bound)
  NoRunner,       \* None
  Clients,        \* TCP clients
  Dlls,           \* what the DLL dialog may be set to
  Servers,        \* what the gateway dialog may be set to
  NoFile,         \* gui_config.json does not exist
  TornFile,       \* gui_config.json is cut off
  ExclusiveBind   \* TRUE: a second bind() of a listening TCP port fails
                  \* (Linux).  FALSE: SO_REUSEADDR lets it succeed (Windows).

Protocols == {"tcp", "udp"}

\* dll: the mock backend, a driver DLL that loads, or one that does not.
Config(dll, servers) == [dll |-> dll, tcp |-> servers.tcp, udp |-> servers.udp]
AllServers == [tcp: BOOLEAN, udp: BOOLEAN]
AllConfigs == [dll: {"mock", "good", "bad"}, tcp: BOOLEAN, udp: BOOLEAN]

\* What load_settings() falls back to.
DefaultConfig == [dll |-> "mock", tcp |-> TRUE, udp |-> TRUE]

ASSUME RunnerAssumption == NoRunner \notin Runners
ASSUME ConfigAssumption == Dlls \subseteq {"mock", "good", "bad"} /\ Servers \subseteq AllServers
ASSUME FileAssumption == {NoFile, TornFile} \cap AllConfigs = {}
ASSUME BindAssumption == ExclusiveBind \in BOOLEAN

\* The driver DLL is a ctypes.WinDLL: it loads on Windows only.
ASSUME PlatformAssumption == ExclusiveBind => "good" \notin Dlls

VARIABLES
  app,        \* "down", "up", or "failed": the launch itself raised
  file,       \* gui_config.json: a configuration, NoFile or TornFile
  config,     \* MainWindow.config
  gui,        \* the step the GUI thread is at; "event": in its event loop
  launching,  \* that step belongs to MainWindow.__init__
  then,       \* what follows a stop: "start" or "quit"
  current,    \* MainWindow.runner
  starting,   \* the local variable runner of _start_gateway
  running,    \* the status label says Running
  mock,       \* per runner: MockCifXBackend
  backend,    \* per runner: "closed" or "open"
  sock,       \* per runner and protocol: "none", "serving" or "shut"
  conn,       \* per client: the runner whose handler thread serves it
  board,      \* the driver and the board answer
  taken,      \* ports other programs hold
  fine,       \* a start is going on, with nothing wrong outside since it began
  mishap      \* this launch could not read gui_config.json, or the last write failed

window == <<app, file, config, gui, launching, then, current, starting, running, mishap>>
runners == <<mock, backend, sock>>
world == <<board, taken>>
vars == <<window, runners, conn, world, fine>>

NoSockets == [p \in Protocols |-> "none"]

\* No process: nothing is open, nobody is connected.
NoMock == [r \in Runners |-> FALSE]
AllClosed == [r \in Runners |-> "closed"]
NothingBound == [r \in Runners |-> NoSockets]
NobodyConnected == [c \in Clients |-> NoRunner]

Init ==
  /\ app = "down"
  /\ file = NoFile
  /\ config = DefaultConfig
  /\ gui = "event"
  /\ launching = FALSE
  /\ then = "start"
  /\ current = NoRunner
  /\ starting = NoRunner
  /\ running = FALSE
  /\ mock = NoMock
  /\ backend = AllClosed
  /\ sock = NothingBound
  /\ conn = NobodyConnected
  /\ board \in BOOLEAN
  /\ taken = {}
  /\ fine = FALSE
  /\ mishap = FALSE

At(step) == app = "up" /\ gui = step

Free == {r \in Runners :
           /\ r \notin {current, starting}
           /\ backend[r] = "closed"
           /\ sock[r] = NoSockets
           /\ \A c \in Clients : conn[c] # r}

-----------------------------------------------------------------------------
(* The process                                                              *)

\* The process ends: its sockets, handles and daemon threads go with it.
Exit(how) ==
  /\ app' = how
  /\ gui' = "event"
  /\ launching' = FALSE
  /\ current' = NoRunner
  /\ starting' = NoRunner
  /\ running' = FALSE
  /\ mock' = NoMock
  /\ backend' = AllClosed
  /\ sock' = NothingBound
  /\ conn' = NobodyConnected
  /\ fine' = FALSE
  /\ config' = DefaultConfig
  /\ then' = "start"
  /\ mishap' = FALSE
  /\ UNCHANGED <<file, world>>

Killed == app = "up" /\ Exit("down")

\* Mutant: the file's content is used as it is.
Loaded_Unchecked(f, readable) ==
  IF ~readable \/ f = NoFile THEN DefaultConfig ELSE f

\* load_settings(): a file that is missing, cut off or cannot be opened gives
\* the default.
Loaded(f, readable) ==
  IF ~readable \/ f \in {NoFile, TornFile} THEN DefaultConfig ELSE f

\* MainWindow.__init__: load the settings, then _start_gateway().
Launch ==
  /\ app # "up"
  /\ app' = "up"
  /\ \E readable \in BOOLEAN :
       /\ config' = Loaded(file, readable)
       /\ mishap' = ~readable
  /\ launching' = TRUE
  /\ gui' = "construct"
  /\ UNCHANGED <<file, then, current, starting, running, runners, conn, world, fine>>

-----------------------------------------------------------------------------
(* _start_gateway(): GatewayRunner(config), then start()                    *)

Fine == board /\ taken = {}

WorksWith(c) == c.dll # "bad" /\ (c.tcp \/ c.udp)

\* The constructor loads the DLL, outside the try: at launch its exception
\* ends the application, later it only ends the slot.
Construct ==
  /\ At("construct")
  /\ \/ /\ config.dll = "bad"
        /\ launching
        /\ Exit("failed")
     \/ /\ config.dll = "bad"
        /\ ~launching
        /\ gui' = "event"
        /\ UNCHANGED <<app, mishap, file, config, launching, then, current, starting, running,
                       runners, conn, world, fine>>
     \/ /\ config.dll # "bad"
        /\ \E r \in Free :
             /\ starting' = r
             /\ mock' = [mock EXCEPT ![r] = config.dll = "mock"]
        /\ gui' = "openBackend"
        /\ fine' = (Fine /\ WorksWith(config))
        /\ UNCHANGED <<app, mishap, file, config, launching, then, current, running,
                       backend, sock, conn, world>>

\* backend.open(); the three startup steps after it never stop the start.
OpenBackend ==
  /\ At("openBackend")
  /\ IF mock[starting] \/ board
     THEN /\ backend' = [backend EXCEPT ![starting] = "open"]
          /\ gui' = "bindTcp"
     ELSE /\ gui' = "startFailed"
          /\ UNCHANGED backend
  /\ UNCHANGED <<app, mishap, file, config, launching, then, current, starting, running,
                 mock, sock, conn, world, fine>>

\* A UDP socket with SO_REUSEADDR shares its port with the gateway's own.
CanBind(p) ==
  /\ p \notin taken
  /\ p = "tcp" /\ ExclusiveBind => \A r \in Runners : sock[r].tcp = "none"

Bind(p, next) ==
  /\ \/ /\ ~config[p]
        /\ gui' = next
        /\ UNCHANGED sock
     \/ /\ config[p] /\ CanBind(p)
        /\ sock' = [sock EXCEPT ![starting][p] = "serving"]
        /\ gui' = next
     \/ /\ config[p] /\ ~CanBind(p)
        /\ gui' = "startFailed"
        /\ UNCHANGED sock
  /\ UNCHANGED <<app, mishap, file, config, launching, then, current, starting, running,
                 mock, backend, conn, world, fine>>

BindTcp == At("bindTcp") /\ Bind("tcp", "bindUdp")
BindUdp == At("bindUdp") /\ Bind("udp", "finish")

\* Mutants: a gateway without any server starts; one with only one does not.
NoServer_Allowed == FALSE
NoServer_Either == \E p \in Protocols : sock[starting][p] = "none"

NoServer == sock[starting] = NoSockets

FinishStart ==
  /\ At("finish")
  /\ IF NoServer
     THEN /\ gui' = "startFailed"
          /\ UNCHANGED <<current, starting, running, launching, fine>>
     ELSE /\ current' = starting
          /\ starting' = NoRunner
          /\ running' = TRUE
          /\ launching' = FALSE
          /\ fine' = FALSE
          /\ gui' = "event"
  /\ UNCHANGED <<app, mishap, file, config, then, runners, conn, world>>

\* except Exception: the runner is dropped as it is, without a stop().
StartFailed ==
  /\ At("startFailed")
  /\ starting' = NoRunner
  /\ running' = FALSE
  /\ launching' = FALSE
  /\ fine' = FALSE
  /\ gui' = "event"
  /\ UNCHANGED <<app, mishap, file, config, then, current, runners, conn, world>>

-----------------------------------------------------------------------------
(* _stop_gateway(): GatewayRunner.stop()                                    *)

\* Mutants: the backend is closed before the servers; a server that was shut
\* down is not closed; server_close() joins the handler threads.
AfterStep_BackendFirst(s) ==
  CASE s = "stop" -> "closeBackend"    [] s = "closeBackend" -> "shutTcp"
    [] s = "shutTcp" -> "closeTcp"     [] s = "closeTcp" -> "shutUdp"
    [] s = "shutUdp" -> "closeUdp"     [] s = "closeUdp" -> "drop"
AfterStep_NoServerClose(s) ==
  CASE s = "stop" -> "shutTcp"         [] s = "shutTcp" -> "shutUdp"
    [] s = "shutUdp" -> "closeUdp"     [] s = "closeUdp" -> "closeBackend"
    [] s = "closeBackend" -> "drop"
CloseWaits_Joins(r) == \E c \in Clients : conn[c] = r

AfterStep(s) ==
  CASE s = "stop" -> "shutTcp"         [] s = "shutTcp" -> "closeTcp"
    [] s = "closeTcp" -> "shutUdp"     [] s = "shutUdp" -> "closeUdp"
    [] s = "closeUdp" -> "closeBackend" [] s = "closeBackend" -> "drop"

\* daemon_threads = True: server_close() leaves the handlers to themselves.
CloseWaits(r) == FALSE

BeginStop ==
  /\ At("stop")
  /\ gui' = IF current # NoRunner THEN AfterStep("stop")
            ELSE IF then = "start" THEN "construct" ELSE "quit"
  /\ UNCHANGED <<app, mishap, file, config, launching, then, current, starting, running,
                 runners, conn, world, fine>>

\* server.shutdown(), server.server_close(), for each server there is.
StopServer(p, shut, close) ==
  /\ \/ /\ At(shut)
        /\ gui' = AfterStep(shut)
        /\ sock' = [sock EXCEPT ![current][p] = IF @ = "serving" THEN "shut" ELSE @]
     \/ /\ At(close)
        /\ ~CloseWaits(current)
        /\ gui' = AfterStep(close)
        /\ sock' = [sock EXCEPT ![current][p] = "none"]
  /\ UNCHANGED <<app, mishap, file, config, launching, then, current, starting, running,
                 mock, backend, conn, world, fine>>

CloseBackend ==
  /\ At("closeBackend")
  /\ backend' = [backend EXCEPT ![current] = "closed"]
  /\ gui' = AfterStep("closeBackend")
  /\ UNCHANGED <<app, mishap, file, config, launching, then, current, starting, running,
                 mock, sock, conn, world, fine>>

DropRunner ==
  /\ At("drop")
  /\ current' = NoRunner
  /\ running' = FALSE
  /\ gui' = IF then = "start" THEN "construct" ELSE "quit"
  /\ UNCHANGED <<app, mishap, file, config, launching, then, starting, runners, conn, world, fine>>

Quit == At("quit") /\ Exit("down")

-----------------------------------------------------------------------------
(* The user, in the event loop.  Free # {}: the bound on runners alive.     *)

RestartGateway ==
  /\ At("event") /\ Free # {}
  /\ then' = "start"
  /\ gui' = "stop"
  /\ UNCHANGED <<app, mishap, file, config, launching, current, starting, running,
                 runners, conn, world, fine>>

\* Mutant: what a dialog returns is used, but not saved.
AfterDialog_NoSave == "stop"

AfterDialog == "save"

\* _open_gateway_config() and _open_dll_config(): each dialog's apply_to()
\* replaces its own part of the configuration and keeps the rest.
ApplyConfig ==
  /\ At("event") /\ Free # {}
  /\ \/ \E s \in Servers : config' = Config(config.dll, s)
     \/ \E d \in Dlls : config' = Config(d, config)
  /\ then' = "start"
  /\ gui' = AfterDialog
  /\ UNCHANGED <<app, mishap, file, launching, current, starting, running,
                 runners, conn, world, fine>>

\* save_settings(): open(path, "w") truncates the file, json.dump fills it.
Save ==
  /\ \/ /\ At("save")
        /\ file' = TornFile
        /\ gui' = "dump"
        /\ UNCHANGED mishap
     \/ /\ At("dump")
        /\ file' = config
        /\ gui' = "stop"
        /\ mishap' = FALSE
  /\ UNCHANGED <<app, config, launching, then, current, starting, running,
                 runners, conn, world, fine>>

\* Either raises: the slot ends there, without the restart.
SaveFails ==
  /\ At("save") \/ At("dump")
  /\ gui' = "event"
  /\ mishap' = TRUE
  /\ UNCHANGED <<app, file, config, launching, then, current, starting, running,
                 runners, conn, world, fine>>

CloseWindow ==
  /\ At("event")
  /\ then' = "quit"
  /\ gui' = "stop"
  /\ UNCHANGED <<app, mishap, file, config, launching, current, starting, running,
                 runners, conn, world, fine>>

-----------------------------------------------------------------------------
(* Clients and the world                                                    *)

Connect(c) ==
  /\ conn[c] = NoRunner
  /\ \E r \in Runners : sock[r].tcp = "serving" /\ conn' = [conn EXCEPT ![c] = r]
  /\ UNCHANGED <<window, runners, world, fine>>

Disconnect(c) ==
  /\ conn[c] # NoRunner
  /\ conn' = [conn EXCEPT ![c] = NoRunner]
  /\ UNCHANGED <<window, runners, world, fine>>

\* A request on a closed Hilscher backend finds NULL handles, which the
\* stale-handle recovery takes as a reason to reopen (CifxChannel).
RequestReopens(c) ==
  /\ conn[c] # NoRunner
  /\ backend[conn[c]] = "closed" /\ ~mock[conn[c]] /\ board
  /\ backend' = [backend EXCEPT ![conn[c]] = "open"]
  /\ UNCHANGED <<window, mock, sock, conn, world, fine>>

WorldChanges ==
  /\ \/ board' = ~board /\ UNCHANGED taken
     \/ /\ UNCHANGED board
        /\ \E p \in Protocols :
             taken' = IF p \in taken THEN taken \ {p}
                      ELSE IF \A r \in Runners : sock[r][p] = "none" THEN taken \cup {p}
                      ELSE taken
  /\ fine' = (fine /\ board' /\ taken' = {})
  /\ UNCHANGED <<window, runners, conn>>

-----------------------------------------------------------------------------
GuiStep ==
  \/ Construct \/ OpenBackend \/ BindTcp \/ BindUdp \/ FinishStart \/ StartFailed
  \/ BeginStop \/ StopServer("tcp", "shutTcp", "closeTcp")
  \/ StopServer("udp", "shutUdp", "closeUdp") \/ CloseBackend \/ DropRunner \/ Quit
  \/ Save \/ SaveFails

User == RestartGateway \/ ApplyConfig \/ CloseWindow

Next ==
  \/ Launch \/ Killed \/ GuiStep \/ User
  \/ \E c \in Clients : Connect(c) \/ Disconnect(c) \/ RequestReopens(c)
  \/ WorldChanges

Spec == Init /\ [][Next]_vars

\* The GUI thread goes on while it has something to do; nobody else must.
FairSpec == Spec /\ WF_vars(GuiStep)

-----------------------------------------------------------------------------
(* Properties                                                               *)

Steps == {"event", "construct", "openBackend", "bindTcp", "bindUdp", "finish",
          "startFailed", "stop", "shutTcp", "closeTcp", "shutUdp", "closeUdp",
          "closeBackend", "drop", "quit", "save", "dump"}

TypeOK ==
  /\ app \in {"down", "up", "failed"}
  /\ file \in AllConfigs \cup {NoFile, TornFile}
  /\ config \in AllConfigs
  /\ gui \in Steps
  /\ launching \in BOOLEAN
  /\ then \in {"start", "quit"}
  /\ current \in Runners \cup {NoRunner}
  /\ starting \in Runners \cup {NoRunner}
  /\ running \in BOOLEAN
  /\ mock \in [Runners -> BOOLEAN]
  /\ backend \in [Runners -> {"closed", "open"}]
  /\ sock \in [Runners -> [Protocols -> {"none", "serving", "shut"}]]
  /\ conn \in [Clients -> Runners \cup {NoRunner}]
  /\ board \in BOOLEAN
  /\ taken \in SUBSET Protocols
  /\ fine \in BOOLEAN
  /\ mishap \in BOOLEAN

\* The window in its event loop runs with what is stored for the next launch,
\* whichever dialogs were applied in which order, after crashes and after a
\* launch from a torn file.  Two mishaps part the two, until settings are
\* applied again: a write that failed, and a launch that could not read the
\* file, which runs with the default while the file keeps what was applied.
SettingsApplied == At("event") /\ ~mishap => Loaded(file, TRUE) = config

\* What the label tells the user: Running, in the event loop, means there is
\* a runner, its backend was opened, and at least one server takes requests.
RunningServes ==
  At("event") /\ running =>
    /\ current # NoRunner
    /\ backend[current] = "open"
    /\ \E p \in Protocols : sock[current][p] = "serving"

\* A client that connects finds an open backend: start() opens it before any
\* server listens, and stop() closes it after the last one has gone.
NewClientFindsOpenBackend ==
  [][\A c \in Clients :
       conn[c] = NoRunner /\ conn'[c] # NoRunner => backend[conn'[c]] = "open"]_vars

\* When MainWindow lets go of a runner it stopped, that runner listens on no
\* port, so the next one can have them.
StopFreesPorts ==
  [][At("drop") /\ app' = "up" /\ current' # current => sock[current] = NoSockets]_vars

\* The window never hangs: every start, stop, restart or close gets back to
\* the event loop or ends the process, however long the clients stay.
WindowReturns == app = "up" /\ gui # "event" ~> app # "up" \/ gui = "event"

\* "Restart Gateway - manual recovery (e.g. after fixing a cable or a bad DLL
\* path) without closing the app": with everything outside fixed before the
\* start begins, and staying so, the start succeeds.  It does where a second
\* bind() succeeds; elsewhere the listener of a failed start is in the way.
FixedGatewayStarts == At("startFailed") => ~fine

\* "The gateway starts automatically the moment the app opens": a launch
\* brings up a window, whatever settings the user applied before.
LaunchOpensWindow == app # "failed"
=============================================================================
