----------------------------- MODULE CifxChannel -----------------------------
(* HilscherCifXBackend (cifx/backend.py): one driver handle and one channel *)
(* handle shared by all handler and poller threads, with stale-handle       *)
(* recovery inside _call's lock and open()/close() outside it.  The driver  *)
(* DLL and the card are external, modelled from how the backend uses them.  *)
(* Every DLL call is one step, taken when it returns; between two calls     *)
(* every other actor may run.                                               *)
EXTENDS CifxDriver

CONSTANTS
  Threads,    \* threads that call the backend's operations
  Owner,      \* the thread that opens and closes it (GatewayRunner)
  NoThread,   \* holds the lock when nobody does
  Ops,        \* the driver calls the threads issue
  Handles,    \* handle values the driver can give out
  NoHandle,   \* a NULL HANDLE()
  Cooldown,   \* _REOPEN_COOLDOWN_S, in ticks
  Lingering   \* TRUE: handler threads outlive the owner's close(), as the
              \* daemon threads of socketserver do.  FALSE: every client has
              \* gone before the owner closes.

ASSUME ActorAssumption == Owner \notin Threads /\ NoThread \notin Threads \cup {Owner}
ASSUME HandleAssumption == NoHandle \notin Handles
ASSUME OpsAssumption == Ops \subseteq DriverCalls
ASSUME CooldownAssumption == Cooldown \in Nat
ASSUME LingeringAssumption == Lingering \in BOOLEAN

Actors == Threads \cup {Owner}

VARIABLES
  hdriver,   \* self._hdriver
  hchannel,  \* self._hchannel
  lock,      \* the holder of self._lock
  elapsed,   \* now - self._last_reopen_attempt, up to Cooldown
  rested,    \* ticks since a thread last began to reopen, up to Cooldown
  pc,        \* where each actor is
  op,        \* the driver call a thread is making
  answer,    \* its return code and the value it read
  used,      \* the channel handle it passed to the driver
  driver,    \* the driver service: "down", "starting" or "up"
  drivers,   \* driver handles this process opened and has not closed
  channels,  \* channel handles this process opened and has not closed
  valid,     \* those of them the driver still recognises
  card       \* the card's registers

backend == <<hdriver, hchannel, lock, elapsed, rested>>
threads == <<pc, op, answer, used>>
dll     == <<driver, drivers, channels, valid>>
vars    == <<backend, threads, dll, card>>

\* The steps of _reopen_locked(): close() and open() share them.
Closing   == {"closeChannel", "clearChannel", "closeDriver", "clearDriver"}
Opening   == {"openDriver", "openChannel", "undoDriver"}
Reopening == Closing \cup Opening \cup {"undoClear"}
InCall    == {"inFn", "retry", "inRetry", "release"} \cup Reopening
ThreadPC  == {"idle", "want", "again"} \cup InCall
OwnerPC   == {"unopened", "open", "failed", "closed"} \cup Closing \cup Opening

Init ==
  /\ hdriver = NoHandle
  /\ hchannel = NoHandle
  /\ lock = NoThread
  /\ elapsed \in 0 .. Cooldown    \* time.monotonic() may still be small
  /\ rested = Cooldown
  /\ pc = [a \in Actors |-> IF a = Owner THEN "unopened" ELSE "idle"]
  /\ op = [t \in Threads |-> NoOp]
  /\ answer = [t \in Threads |-> NoAnswer]
  /\ used = [t \in Threads |-> NoHandle]
  /\ driver \in {"down", "starting", "up"}
  /\ drivers = {}
  /\ channels = {}
  /\ valid = {}
  /\ card \in {c \in Cards : c.bus = "off" /\ c.host = "off"}

At(a, label) == pc[a] = label
Goto(a, label) == pc' = [pc EXCEPT ![a] = label]
Fresh == Handles \ (drivers \cup channels)

-----------------------------------------------------------------------------
(* The driver DLL: what a call given handle h may return.                   *)

\* A handle the running driver recognises works, or the device refuses.
\* With the driver up, any other handle is reported stale.
Outcomes(h) ==
  IF h \in valid /\ driver = "up" THEN {OK, NotReady}
  ELSE IF driver = "up" THEN Stale
  ELSE Errors

\* A call answering rc: a stale or unknown handle never reaches the card.
Reaches(rc, o) ==
  CASE rc = OK       -> Effects(card, o)
    [] rc = NotReady -> {card} \cup Effects(card, o)
    [] OTHER         -> {card}

-----------------------------------------------------------------------------
(* _call()                                                                  *)

\* Clients exist from the moment the servers start; with Lingering they
\* keep calling while and after the owner closes the backend.
Serving ==
  IF Lingering THEN pc[Owner] \in {"open", "closed"} \cup Closing
               ELSE pc[Owner] = "open"

Invoke(t) ==
  /\ Serving
  /\ At(t, "idle")
  /\ \E o \in Ops : op' = [op EXCEPT ![t] = o]
  /\ Goto(t, "want")
  /\ UNCHANGED <<backend, answer, used, dll, card>>

\* Mutant: the call runs without the lock.
LockFree_Ignored == TRUE

LockFree == lock = NoThread

\* with self._lock: fn() reads self._hchannel and enters the DLL.
Acquire(t) ==
  /\ At(t, "want")
  /\ LockFree
  /\ lock' = t
  /\ used' = [used EXCEPT ![t] = hchannel]
  /\ Goto(t, "inFn")
  /\ UNCHANGED <<hdriver, hchannel, elapsed, rested, op, answer, dll, card>>

\* Mutants: every error starts a recovery; one of the two codes is missed;
\* the cooldown is not looked at; the old handles are not closed first.
Recoverable_AnyError(rc) == rc # OK
Recoverable_OneCode(rc) == rc = "CIFX_INVALID_HANDLE"
CooledDown_Ignored == TRUE
ReopenStart_NoClose == "openDriver"

Recoverable(rc) == rc \in Stale   \* _RECOVERABLE_HANDLE_ERRORS
CooledDown == elapsed = Cooldown
ReopenStart == "closeChannel"      \* _reopen_locked() closes, then opens

\* fn() returns rc; the first time, a stale handle starts the recovery.
FnReturns(t) ==
  /\ pc[t] \in {"inFn", "inRetry"}
  /\ \E rc \in Outcomes(used[t]) :
       /\ card' \in Reaches(rc, op[t])
       /\ answer' = [answer EXCEPT ![t] =
                       IF rc = OK THEN Success(card, op[t]) ELSE Failure(rc)]
       /\ IF At(t, "inFn") /\ Recoverable(rc) /\ CooledDown
          THEN /\ elapsed' = 0
               /\ rested' = 0
               /\ Goto(t, ReopenStart)
          ELSE /\ Goto(t, "release")
               /\ UNCHANGED <<elapsed, rested>>
  /\ UNCHANGED <<hdriver, hchannel, lock, op, used, dll>>

\* The channel is open again: fn() once more, on the new handle.
Retry(t) ==
  /\ At(t, "retry")
  /\ used' = [used EXCEPT ![t] = hchannel]
  /\ Goto(t, "inRetry")
  /\ UNCHANGED <<backend, op, answer, dll, card>>

\* get_status() reads the bus state, then, if that worked, the host state.
MoreToRead(t) == op[t] = Read("bus") /\ answer[t].rc = OK

Release(t) ==
  /\ At(t, "release")
  /\ lock' = NoThread
  /\ Goto(t, IF MoreToRead(t) THEN "again" ELSE "idle")
  /\ op' = [op EXCEPT ![t] = NoOp]
  /\ answer' = [answer EXCEPT ![t] = NoAnswer]
  /\ used' = [used EXCEPT ![t] = NoHandle]
  /\ UNCHANGED <<hdriver, hchannel, elapsed, rested, dll, card>>

ReadHostState(t) ==
  /\ At(t, "again")
  /\ op' = [op EXCEPT ![t] = Read("host")]
  /\ Goto(t, "want")
  /\ UNCHANGED <<backend, answer, used, dll, card>>

-----------------------------------------------------------------------------
(* The handle steps of _reopen_locked(), open() and close()                 *)

\* if self._hchannel: dll.xChannelClose(self._hchannel)
CloseChannel(a) ==
  /\ At(a, "closeChannel")
  /\ IF hchannel # NoHandle
     THEN /\ channels' = channels \ {hchannel}
          /\ valid' = valid \ {hchannel}
          /\ Goto(a, "clearChannel")
     ELSE /\ Goto(a, "closeDriver")
          /\ UNCHANGED <<channels, valid>>
  /\ UNCHANGED <<backend, op, answer, used, driver, drivers, card>>

\* Mutant: the field keeps the closed handle.
ClearChannel_Kept(a) ==
  /\ At(a, "clearChannel")
  /\ Goto(a, "closeDriver")
  /\ UNCHANGED <<backend, op, answer, used, dll, card>>

\* self._hchannel = HANDLE()
ClearChannel(a) ==
  /\ At(a, "clearChannel")
  /\ hchannel' = NoHandle
  /\ Goto(a, "closeDriver")
  /\ UNCHANGED <<hdriver, lock, elapsed, rested, op, answer, used, dll, card>>

AfterClose(a) == IF a = Owner THEN "closed" ELSE "openDriver"

\* if self._hdriver: dll.xDriverClose(self._hdriver)
CloseDriver(a) ==
  /\ At(a, "closeDriver")
  /\ IF hdriver # NoHandle
     THEN /\ drivers' = drivers \ {hdriver}
          /\ valid' = valid \ {hdriver}
          /\ Goto(a, "clearDriver")
     ELSE /\ Goto(a, AfterClose(a))
          /\ UNCHANGED <<drivers, valid>>
  /\ UNCHANGED <<backend, op, answer, used, driver, channels, card>>

\* self._hdriver = HANDLE()
ClearDriver(a) ==
  /\ At(a, "clearDriver")
  /\ hdriver' = NoHandle
  /\ Goto(a, AfterClose(a))
  /\ UNCHANGED <<hchannel, lock, elapsed, rested, op, answer, used, dll, card>>

\* Mutants: the recovery's exception is raised as open()'s is; it leaves the
\* call without leaving the lock.
AfterFailure_Raised(a) == "failed"
AfterFailure_LockKept(a) == IF a = Owner THEN "failed" ELSE "idle"

\* open() raises; _call() logs and returns the first rc.
AfterFailure(a) == IF a = Owner THEN "failed" ELSE "release"

\* rc = dll.xDriverOpen(byref(self._hdriver)): fails only without a driver.
OpenDriver(a) ==
  /\ At(a, "openDriver")
  /\ \/ /\ driver # "down"
        /\ \E h \in Fresh :
             /\ hdriver' = h
             /\ drivers' = drivers \cup {h}
             /\ valid' = valid \cup {h}
        /\ Goto(a, "openChannel")
     \/ /\ driver # "up"
        /\ Goto(a, AfterFailure(a))
        /\ UNCHANGED <<hdriver, drivers, valid>>
  /\ UNCHANGED <<hchannel, lock, elapsed, rested, op, answer, used, driver, channels, card>>

AfterOpen(a) == IF a = Owner THEN "open" ELSE "retry"

\* rc = dll.xChannelOpen(self._hdriver, ..., byref(self._hchannel)): works
\* on a valid driver handle once the driver is fully up.
OpenChannel(a) ==
  /\ At(a, "openChannel")
  /\ IF hdriver \in valid /\ driver = "up"
     THEN /\ \E h \in Fresh :
               /\ hchannel' = h
               /\ channels' = channels \cup {h}
               /\ valid' = valid \cup {h}
          /\ Goto(a, AfterOpen(a))
     ELSE /\ Goto(a, "undoDriver")
          /\ UNCHANGED <<hchannel, channels, valid>>
  /\ UNCHANGED <<hdriver, lock, elapsed, rested, op, answer, used, driver, drivers, card>>

\* The channel did not open: dll.xDriverClose(self._hdriver).  open() leaves
\* self._hdriver as it is; _reopen_locked() clears it.
UndoDriver(a) ==
  /\ At(a, "undoDriver")
  /\ drivers' = drivers \ {hdriver}
  /\ valid' = valid \ {hdriver}
  /\ Goto(a, IF a = Owner THEN "failed" ELSE "undoClear")
  /\ UNCHANGED <<backend, op, answer, used, driver, channels, card>>

UndoClear(t) ==
  /\ At(t, "undoClear")
  /\ hdriver' = NoHandle
  /\ Goto(t, "release")
  /\ UNCHANGED <<hchannel, lock, elapsed, rested, op, answer, used, dll, card>>

HandleStep(a) ==
  \/ CloseChannel(a) \/ ClearChannel(a)
  \/ CloseDriver(a)  \/ ClearDriver(a)
  \/ OpenDriver(a)   \/ OpenChannel(a) \/ UndoDriver(a)

ThreadStep(t) ==
  \/ Acquire(t) \/ FnReturns(t) \/ Retry(t) \/ Release(t) \/ ReadHostState(t)
  \/ HandleStep(t) \/ UndoClear(t)

-----------------------------------------------------------------------------
(* open() and close(), called by GatewayRunner.start() and stop()           *)

Open ==
  /\ At(Owner, "unopened")
  /\ Goto(Owner, "openDriver")
  /\ UNCHANGED <<backend, op, answer, used, dll, card>>

\* close() takes no lock.
Close ==
  /\ At(Owner, "open")
  /\ Lingering \/ \A t \in Threads : At(t, "idle")
  /\ Goto(Owner, "closeChannel")
  /\ UNCHANGED <<backend, op, answer, used, dll, card>>

-----------------------------------------------------------------------------
(* The environment                                                          *)

Tick ==
  /\ elapsed < Cooldown \/ rested < Cooldown
  /\ elapsed' = IF elapsed < Cooldown THEN elapsed + 1 ELSE elapsed
  /\ rested' = IF rested < Cooldown THEN rested + 1 ELSE rested
  /\ UNCHANGED <<hdriver, hchannel, lock, threads, dll, card>>

\* The driver service stops, or the card is reset, on its own: every handle
\* given out goes stale, and the card may lose its state.
DriverStops ==
  /\ driver' \in {"down", "starting"} \ {driver}
  /\ driver = "up" \/ driver' = "down"
  /\ valid' = {}
  /\ card' \in {card} \cup Restarted(card)
  /\ UNCHANGED <<backend, threads, drivers, channels>>

\* First xDriverOpen works, then xChannelOpen.
DriverComesUp ==
  /\ driver # "up"
  /\ driver' = IF driver = "down" THEN "starting" ELSE "up"
  /\ UNCHANGED <<backend, threads, drivers, channels, valid, card>>

\* The drive updates its input process data.
DriveUpdates ==
  /\ driver = "up"
  /\ \E v \in Values : card' = [card EXCEPT !.input = v]
  /\ UNCHANGED <<backend, threads, dll>>

-----------------------------------------------------------------------------
Next ==
  \/ \E t \in Threads : Invoke(t) \/ ThreadStep(t)
  \/ Open \/ Close \/ HandleStep(Owner)
  \/ Tick \/ DriverStops \/ DriverComesUp \/ DriveUpdates

Spec == Init /\ [][Next]_vars

\* Every thread goes on with its call, the clock runs, and the gateway keeps
\* being polled: the GUI's timer and the stream pollers call for ever.
Fairness ==
  /\ \A t \in Threads : WF_vars(Invoke(t)) /\ WF_vars(ThreadStep(t))
  /\ WF_vars(Open)
  /\ WF_vars(HandleStep(Owner))
  /\ WF_vars(Tick)

FairSpec == Spec /\ Fairness

-----------------------------------------------------------------------------
(* Properties                                                               *)

TypeOK ==
  /\ hdriver \in Handles \cup {NoHandle}
  /\ hchannel \in Handles \cup {NoHandle}
  /\ lock \in Threads \cup {NoThread}
  /\ elapsed \in 0 .. Cooldown
  /\ rested \in 0 .. Cooldown
  /\ pc \in [Actors -> ThreadPC \cup OwnerPC]
  /\ \A t \in Threads : pc[t] \in ThreadPC
  /\ pc[Owner] \in OwnerPC
  /\ op \in [Threads -> DriverCalls \cup {NoOp}]
  /\ answer \in [Threads -> Answers]
  /\ used \in [Threads -> Handles \cup {NoHandle}]
  /\ driver \in {"down", "starting", "up"}
  /\ drivers \in SUBSET Handles
  /\ channels \in SUBSET Handles
  /\ valid \in SUBSET (drivers \cup channels)
  /\ card \in Cards

\* Between taking the lock in _call and leaving it, through every branch of
\* the recovery, a thread is alone: the lock's holder is exactly the thread
\* that is inside.
MutualExclusion ==
  \A t \in Threads : (pc[t] \in InCall) <=> (lock = t)

\* No handle is lost: whatever the process has opened and not closed is what
\* the backend's two fields hold, also after a reopen, or the first open(),
\* that failed half way; so a later close can give it back.
NoHandleLost ==
  /\ drivers \subseteq {hdriver}
  /\ channels \subseteq {hchannel}

\* The DLL is only ever passed NULL or a handle that is still open: no call
\* on a closed channel, no handle closed twice.
NoClosedHandleUsed ==
  /\ \A t \in Threads :
       pc[t] \in {"inFn", "inRetry"} => used[t] \in channels \cup {NoHandle}
  /\ \A a \in Actors :
       /\ At(a, "closeChannel") => hchannel \in channels \cup {NoHandle}
       /\ At(a, "closeDriver")  => hdriver \in drivers \cup {NoHandle}
       /\ pc[a] \in {"openChannel", "undoDriver"} => hdriver \in drivers

\* Recovery never closes a channel that works: a thread about to close one
\* has been told it is stale, and nobody has reopened it since.
RecoverySparesLiveChannel ==
  \A t \in Threads : At(t, "closeChannel") => hchannel \notin valid

\* Whatever the number of threads that see the stale handle, attempts to
\* reopen begin at least Cooldown apart (README: "at most once every 2s").
ReopensApart ==
  [][\A t \in Threads :
       At(t, "inFn") /\ pc'[t] = "closeChannel" => rested = Cooldown]_vars

\* Once close() is through, nothing of the driver stays open.
ClosedStaysClosed == At(Owner, "closed") => drivers = {} /\ channels = {}

\* The lock is never kept: every call, however its recovery ends, releases it.
LockReleased == \A t \in Threads : lock = t ~> lock # t

\* A driver that comes back and stays is found again, without the gateway
\* being restarted: from some point on the channel handle works.
Recovers ==
  (<>[](driver = "up") /\ <>[](At(Owner, "open"))) => <>[](hchannel \in valid)

\* The calls of all threads, recovery included, are atomic on the card.
Status(t) ==
  CASE pc[t] \in {"idle", "again"} -> "idle"
    [] pc[t] = "release"           -> "answered"
    [] OTHER                       -> "pending"

Image == INSTANCE ProcessImage WITH
  status <- [t \in Threads |-> Status(t)],
  op     <- [t \in Threads |-> IF Status(t) = "idle" THEN NoOp ELSE op[t]],
  answer <- [t \in Threads |-> IF Status(t) = "answered" THEN answer[t] ELSE NoAnswer]

ImplementsImage == Image!Spec
=============================================================================
