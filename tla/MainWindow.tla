------------------------------ MODULE MainWindow ------------------------------
(* What the main window shows and asks for: the login gate and its password *)
(* file (gui/auth.py), the prompts and the polled status labels             *)
(* (gui/main_window.py) and the Diagnostics window                          *)
(* (gui/diagnostics_window.py), while the gateway behind them is restarted. *)
(* Everything here runs in the GUI thread, one event at a time; a prompt    *)
(* runs an event loop of its own, in which the timers go on.  How a runner  *)
(* starts and stops is GatewayLifecycle's subject: here a start is one step *)
(* with three outcomes.                                                     *)
(*                                                                          *)
(* Runners are told apart by age: what was taken from the runner before is  *)
(* "old" as soon as there is a new one.                                     *)
EXTENDS Integers

CONSTANTS
  Passwords,
  DefaultPassword,  \* DEFAULT_PASSWORD
  NoFile,           \* auth.json does not exist
  TornFile          \* auth.json is cut off

ASSUME PasswordAssumption == DefaultPassword \in Passwords
ASSUME FileAssumption == NoFile # TornFile /\ {NoFile, TornFile} \cap Passwords = {}

VARIABLES
  app,            \* "down" or "up"
  screen,         \* the prompt that is open, or the step the GUI thread is at
  file,           \* auth.json: the password it holds, NoFile or TornFile
  authenticated,  \* _authenticated, and with it the gated buttons
  typed,          \* new_password of _change_password()
  confirmed,      \* the password last set
  spoilt,         \* a launch could not read auth.json, or a write failed, since then
  runner,         \* there is a runner
  polling,        \* _poll_timer is active
  label,          \* bus_state_label
  labelAge,       \* the runner it was read from
  card,           \* the bus state, or "gone": get_status() raises
  diag,           \* the Diagnostics window: "none", "visible" or "hidden"
  timer,          \* its timer is active
  shows,          \* the runner its traffic table is of
  says            \* traffic_status_label: "-", "shown" (the table is its runner's
                  \* log) or "stopped" (the gateway is not running)

auth == <<file, authenticated, typed, confirmed, spoilt>>
status == <<polling, label, labelAge>>
diagnostics == <<diag, timer, shows, says>>
vars == <<app, screen, auth, status, diagnostics, runner, card>>

\* No process.
Init ==
  /\ app = "down" /\ screen = "event"
  /\ file = NoFile /\ confirmed = DefaultPassword /\ spoilt = FALSE
  /\ authenticated = FALSE /\ typed = DefaultPassword
  /\ runner = FALSE
  /\ polling = FALSE /\ label = "-" /\ labelAge = "none"
  /\ diag = "none" /\ timer = FALSE /\ shows = "none" /\ says = "-"
  /\ card \in {"off", "on", "gone"}

\* Screens with an event loop: in all of them the timers fire, but only the
\* first takes clicks on the two windows, for prompts are modal.
Loops == {"event", "login", "newPassword", "confirm", "config", "message"}

At(s) == app = "up" /\ screen = s
InLoop == app = "up" /\ screen \in Loops

-----------------------------------------------------------------------------
(* The process                                                              *)

Exit ==
  /\ app' = "down" /\ screen' = "event"
  /\ authenticated' = FALSE /\ typed' = DefaultPassword
  /\ runner' = FALSE
  /\ polling' = FALSE /\ label' = "-" /\ labelAge' = "none"
  /\ diag' = "none" /\ timer' = FALSE /\ shows' = "none" /\ says' = "-"

Killed ==
  /\ app = "up"
  /\ Exit
  /\ spoilt' = (spoilt \/ file = TornFile)
  /\ UNCHANGED <<file, confirmed, card>>

\* closeEvent(): the Diagnostics window closes, the gateway stops.
CloseWindow == At("event") /\ Exit /\ UNCHANGED <<file, confirmed, spoilt, card>>

\* _load(): a file that is missing, cut off or cannot be opened is None.
Loads(readable) == readable /\ file \notin {NoFile, TornFile}

\* Mutant: every launch is taken for the first.
NeedsDefault_Always(readable) == TRUE

\* ensure_password_set()
NeedsDefault(readable) == ~Loads(readable)

\* MainWindow.__init__: ensure_password_set(), and later _start_gateway().
Launch ==
  /\ app = "down"
  /\ app' = "up"
  /\ \E readable \in BOOLEAN :
       /\ screen' = IF NeedsDefault(readable) THEN "firstTruncate" ELSE "launch"
       /\ spoilt' = (spoilt \/ ~readable)
  /\ UNCHANGED <<file, authenticated, typed, confirmed, status, diagnostics, runner, card>>

-----------------------------------------------------------------------------
(* The password file and the login gate                                     *)

\* set_password(): open(path, "w") truncates the file ...
Truncate(from, to) ==
  /\ At(from)
  /\ file' = TornFile
  /\ screen' = to
  /\ UNCHANGED <<app, authenticated, typed, confirmed, spoilt, status, diagnostics,
                 runner, card>>

\* ... and json.dump() fills it.  typed is DEFAULT_PASSWORD at the launch.
Dump(from, to) ==
  /\ At(from)
  /\ file' = typed
  /\ confirmed' = IF from = "dump" THEN typed ELSE confirmed
  /\ spoilt' = (spoilt /\ from # "dump")
  /\ screen' = to
  /\ UNCHANGED <<app, authenticated, typed, status, diagnostics, runner, card>>

\* The disk is full or the file is locked: OSError ends the launch, later it
\* only ends the click.
WriteFails ==
  /\ \/ At("firstTruncate") \/ At("firstDump")
     \/ At("truncate") \/ At("dump")
  /\ spoilt' = TRUE
  /\ IF screen \in {"truncate", "dump"}
     THEN /\ screen' = "event"
          /\ typed' = DefaultPassword
          /\ UNCHANGED <<app, authenticated, status, diagnostics, runner>>
     ELSE Exit
  /\ UNCHANGED <<file, confirmed, card>>

WritePassword ==
  \/ Truncate("firstTruncate", "firstDump") \/ Dump("firstDump", "launch")
  \/ Truncate("truncate", "dump") \/ Dump("dump", "message")
  \/ WriteFails

\* verify_password()
Accepts(p, readable) == p = IF Loads(readable) THEN file ELSE DefaultPassword

Goto(s) ==
  /\ screen' = s
  /\ UNCHANGED <<app, status, diagnostics, runner, card>>

\* _toggle_login()
ClickLogin ==
  /\ At("event")
  /\ authenticated' = FALSE
  /\ Goto(IF authenticated THEN "event" ELSE "login")
  /\ UNCHANGED <<file, typed, confirmed, spoilt>>

Login ==
  /\ At("login")
  /\ \E p \in Passwords, readable \in BOOLEAN :
       /\ authenticated' = Accepts(p, readable)
       /\ Goto(IF Accepts(p, readable) THEN "event" ELSE "message")
  /\ UNCHANGED <<file, typed, confirmed, spoilt>>

\* Mutant: the buttons are enabled from the start.
Unlocked_Always == TRUE

\* _set_authenticated() enables the buttons.
Unlocked == authenticated

\* _change_password()
ChangePassword ==
  /\ \/ /\ At("event") /\ Unlocked
        /\ Goto("newPassword")
        /\ UNCHANGED typed
     \/ /\ At("newPassword")
        /\ typed' \in Passwords
        /\ Goto("confirm")
     \/ /\ At("confirm")
        /\ \E p \in Passwords : Goto(IF p = typed THEN "truncate" ELSE "message")
        /\ UNCHANGED typed
  /\ UNCHANGED <<file, authenticated, confirmed, spoilt>>

\* OpenConfig: the Gateway or the DLL Configuration dialog.
OpenConfig ==
  /\ At("event") /\ Unlocked
  /\ Goto("config")
  /\ UNCHANGED auth

\* Cancel in a prompt, OK in a message.
Dismiss ==
  /\ InLoop /\ screen # "event"
  /\ Goto("event")
  /\ typed' = DefaultPassword
  /\ UNCHANGED <<file, authenticated, confirmed, spoilt>>

-----------------------------------------------------------------------------
(* The gateway: _restart_gateway(), _start_gateway()                        *)

Aged(age) == IF age = "current" THEN "old" ELSE age

\* Mutant: the labels keep what they showed.
ClearLabels_Kept == label' = label /\ labelAge' = Aged(labelAge)

\* _set_running_ui(False)
ClearLabels == label' = "-" /\ labelAge' = "none"

\* Restart Gateway, or OK in a configuration dialog: _stop_gateway().
Restart ==
  /\ (At("event") /\ Unlocked) \/ At("config")
  /\ screen' = "start"
  /\ IF runner
     THEN /\ polling' = FALSE
          /\ ClearLabels
          /\ runner' = FALSE
          /\ shows' = Aged(shows)
     ELSE UNCHANGED <<status, runner, shows>>
  /\ UNCHANGED <<app, auth, diag, timer, says, card>>

\* Mutant: the timer that _stop_gateway() stopped stays so.
StartsPolling_Not == FALSE

StartsPolling == TRUE

\* _start_gateway(): the runner starts, or start() raises and a message says
\* so, or its constructor raises, which ends a launch.
Start ==
  /\ At("launch") \/ At("start")
  /\ \/ /\ runner' = TRUE
        /\ polling' = StartsPolling
        /\ screen' = "event"
        /\ UNCHANGED <<app, authenticated, typed, label, labelAge, diagnostics>>
     \/ /\ ClearLabels
        /\ screen' = "message"
        /\ UNCHANGED <<app, authenticated, typed, polling, diagnostics, runner>>
     \/ /\ screen = "start"
        /\ screen' = "event"
        /\ UNCHANGED <<app, authenticated, typed, status, diagnostics, runner>>
     \/ /\ screen = "launch"
        /\ Exit
  /\ UNCHANGED <<file, confirmed, spoilt, card>>

\* _poll(): a get_status() that raises leaves the label as it is.
Poll ==
  /\ InLoop /\ polling /\ runner
  /\ card # "gone"
  /\ label' = card
  /\ labelAge' = "current"
  /\ UNCHANGED <<app, screen, auth, polling, diagnostics, runner, card>>

-----------------------------------------------------------------------------
(* The Diagnostics window                                                   *)

\* Mutant: the runner of the first refresh is kept.
Shown_Captured == IF shows = "none" THEN "current" ELSE shows

\* The runner of this refresh is the main window's.
Shown == "current"

\* _refresh(): without a runner the label says so, the table stays as it is.
Refreshed ==
  /\ shows' = IF runner THEN Shown ELSE shows
  /\ says' = IF runner THEN "shown" ELSE "stopped"

Refresh ==
  /\ InLoop /\ timer
  /\ Refreshed
  /\ UNCHANGED <<app, screen, auth, status, diag, timer, runner, card>>

\* _open_diagnostics(): the window is created, and refreshed, only once.
OpenDiagnostics ==
  /\ At("event")
  /\ diag' = "visible"
  /\ IF diag = "none"
     THEN timer' = TRUE /\ Refreshed
     ELSE UNCHANGED <<timer, shows, says>>
  /\ UNCHANGED <<app, screen, auth, status, runner, card>>

\* The close button gives closeEvent(), Escape only hides the dialog.
CloseDiagnostics ==
  /\ At("event") /\ diag = "visible"
  /\ diag' = "hidden"
  /\ timer' \in {FALSE, timer}
  /\ UNCHANGED <<app, screen, auth, status, shows, says, runner, card>>

\* _clear_traffic_log()
ClearTraffic ==
  /\ At("event") /\ diag = "visible"
  /\ Refreshed
  /\ UNCHANGED <<app, screen, auth, status, diag, timer, runner, card>>

-----------------------------------------------------------------------------
(* The card                                                                 *)

CardChanges ==
  /\ card' \in {"off", "on", "gone"}
  /\ UNCHANGED <<app, screen, auth, status, diagnostics, runner>>

-----------------------------------------------------------------------------
GuiStep == WritePassword \/ Start

User ==
  \/ Launch \/ CloseWindow \/ ClickLogin \/ Login \/ ChangePassword \/ OpenConfig
  \/ Dismiss \/ Restart \/ OpenDiagnostics \/ CloseDiagnostics \/ ClearTraffic

Next == GuiStep \/ User \/ Poll \/ Refresh \/ Killed \/ CardChanges

Spec == Init /\ [][Next]_vars

\* The GUI thread goes on, and a timer that has run out is served the next
\* time an event loop runs, however often it is left in between.
FairSpec == Spec /\ WF_vars(GuiStep) /\ SF_vars(Poll) /\ SF_vars(Refresh)

-----------------------------------------------------------------------------
(* Properties                                                               *)

TypeOK ==
  /\ app \in {"down", "up"}
  /\ screen \in Loops \cup {"firstTruncate", "firstDump", "truncate", "dump", "launch", "start"}
  /\ screen \in {"config", "newPassword", "confirm", "truncate", "dump"} => authenticated
  /\ file \in Passwords \cup {NoFile, TornFile}
  /\ {typed, confirmed} \subseteq Passwords
  /\ {authenticated, spoilt, runner, polling, timer} \subseteq BOOLEAN
  /\ label \in {"-", "off", "on"} /\ card \in {"off", "on", "gone"}
  /\ {labelAge, shows} \subseteq {"none", "current", "old"}
  /\ diag \in {"none", "visible", "hidden"} /\ says \in {"-", "shown", "stopped"}

\* Through cancelled prompts, wrong logins, exits at any moment and launches,
\* the password that opens the gate is the last one that was set; and where
\* the file was cut off or could not be read on the way, the default opens
\* it: nobody is locked out.
PasswordKept ==
  InLoop => Accepts(confirmed, TRUE) \/ (spoilt /\ Accepts(DefaultPassword, TRUE))

\* The status labels describe the runner that runs now, never the one before
\* it, and without a runner they are blank.
LabelsOfThisRunner ==
  /\ labelAge # "old"
  /\ ~runner => label = "-"

\* The bus state settles, the label follows: after any restart of the gateway
\* and through any prompts, unless the card cannot be asked.
StatusFollows ==
  \A s \in {"off", "on"} :
    <>[](app = "up" /\ runner /\ card = s) => <>[](label = s)

\* The window does not show what there is: another runner's table, or the
\* word that there is none; or, where there is none, a table as if of one.
Stale == IF runner THEN shows = "old" \/ says = "stopped" ELSE says = "shown"

\* A Diagnostics window whose timer runs turns to the new runner, or says that
\* there is none: a table the last runner left does not pass for live traffic.
DiagnosticsFollows == timer /\ Stale ~> ~Stale \/ ~timer

\* "survives Restart Gateway / config changes": an open Diagnostics window does
\* not go on showing a runner that is gone.
OpenDiagnosticsFollows == diag = "visible" /\ Stale ~> ~Stale \/ diag # "visible"
=============================================================================
