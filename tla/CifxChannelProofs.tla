-------------------------- MODULE CifxChannelProofs --------------------------
(* Theorems about CifxChannel, for any number of threads and handles, any   *)
(* cooldown and any set of driver calls.                                    *)
EXTENDS CifxChannel, CifxDriverProofs, TLAPS

USE ActorAssumption, HandleAssumption, CooldownAssumption

-----------------------------------------------------------------------------
(* Type correctness.  The driver calls, answers and cards enter it only     *)
(* through CifxDriverProofs.                                                *)

\* The operations the threads issue are driver calls, and those get_status()
\* adds for its second half are too.
LEMMA CallTypes ==
  /\ Ops \subseteq DriverCalls
  /\ Read("host") \in DriverCalls
  /\ NoAnswer \in Answers
BY OpsAssumption DEF DriverCalls, Read, NoAnswer, Answers

\* Where the shared handle steps lead is a place of the actor's own.
LEMMA Destinations ==
  ASSUME NEW a \in Actors
  PROVE  /\ a \in Threads => /\ AfterClose(a) \in InCall
                             /\ AfterFailure(a) \in InCall
                             /\ AfterOpen(a) \in InCall
         /\ a = Owner => /\ AfterClose(a) \in OwnerPC
                         /\ AfterFailure(a) \in OwnerPC
                         /\ AfterOpen(a) \in OwnerPC
BY DEF Actors, AfterClose, AfterFailure, AfterOpen, InCall, Reopening,
       Closing, Opening, OwnerPC

\* A thread past its invocation has a call to make.
CallInv == \A t \in Threads : pc[t] \notin {"idle", "again"} => op[t] \in DriverCalls

\* The inductive invariant behind the first theorems: types, mutual exclusion,
\* and that the clock kept by the backend never runs ahead of the one that
\* counts from the last reopen.
LockInv == TypeOK /\ MutualExclusion /\ CallInv /\ elapsed <= rested

\* Nobody holds the lock, or is inside a call, when the process starts.
LEMMA LockInvInit == Init => LockInv
<1> SUFFICES ASSUME Init PROVE LockInv
  OBVIOUS
<1> USE DEF Init
<1>1. pc \in [Actors -> ThreadPC \cup OwnerPC]
  BY DEF Actors, ThreadPC, OwnerPC
<1>2. TypeOK
  BY <1>1, CallTypes DEF TypeOK, Actors, ThreadPC, OwnerPC
<1>3. MutualExclusion
  BY DEF MutualExclusion, Actors, InCall, Reopening, Closing, Opening
<1>4. CallInv
  BY DEF CallInv, Actors
<1> QED BY <1>2, <1>3, <1>4 DEF LockInv

\* A handle step moves its actor within its own places, and stays inside the
\* lock when the actor is a thread.
LEMMA HandleStepMoves ==
  ASSUME LockInv, NEW a \in Actors, HandleStep(a) \/ (a \in Threads /\ UndoClear(a))
  PROVE  /\ \E label \in ThreadPC \cup OwnerPC :
              /\ pc' = [pc EXCEPT ![a] = label]
              /\ a \in Threads => pc[a] \in InCall /\ label \in InCall
              /\ a = Owner => label \in OwnerPC
         /\ UNCHANGED <<lock, elapsed, rested, op, answer, used, driver, card>>
<1> USE Destinations DEF LockInv, TypeOK, At, Goto, ThreadPC, OwnerPC, InCall, Reopening, Closing,
        Opening, backend, dll
<1>1. CASE CloseChannel(a)
  BY <1>1 DEF CloseChannel, Actors
<1>2. CASE ClearChannel(a)
  BY <1>2 DEF ClearChannel, Actors
<1>3. CASE CloseDriver(a)
  BY <1>3 DEF CloseDriver, Actors
<1>4. CASE ClearDriver(a)
  BY <1>4 DEF ClearDriver, Actors
<1>5. CASE OpenDriver(a)
  BY <1>5 DEF OpenDriver, Actors
<1>6. CASE OpenChannel(a)
  BY <1>6 DEF OpenChannel, Actors
<1>7. CASE UndoDriver(a)
  BY <1>7 DEF UndoDriver, Actors
<1>8. CASE a \in Threads /\ UndoClear(a)
  BY <1>8 DEF UndoClear, Actors
<1> QED BY <1>1, <1>2, <1>3, <1>4, <1>5, <1>6, <1>7, <1>8 DEF HandleStep

\* A handle step keeps the fields and the sets of handles well typed.
LEMMA HandleStepTypes ==
  ASSUME LockInv, NEW a \in Actors, HandleStep(a) \/ (a \in Threads /\ UndoClear(a))
  PROVE  /\ hdriver' \in Handles \cup {NoHandle}
         /\ hchannel' \in Handles \cup {NoHandle}
         /\ drivers' \in SUBSET Handles
         /\ channels' \in SUBSET Handles
         /\ valid' \in SUBSET (drivers' \cup channels')
<1> USE DEF LockInv, TypeOK, backend, dll, Fresh
<1>1. CASE CloseChannel(a)
  BY <1>1 DEF CloseChannel
<1>2. CASE ClearChannel(a)
  BY <1>2 DEF ClearChannel
<1>3. CASE CloseDriver(a)
  BY <1>3 DEF CloseDriver
<1>4. CASE ClearDriver(a)
  BY <1>4 DEF ClearDriver
<1>5. CASE OpenDriver(a)
  BY <1>5 DEF OpenDriver
<1>6. CASE OpenChannel(a)
  BY <1>6 DEF OpenChannel
<1>7. CASE UndoDriver(a)
  BY <1>7 DEF UndoDriver
<1>8. CASE a \in Threads /\ UndoClear(a)
  BY <1>8 DEF UndoClear
<1> QED BY <1>1, <1>2, <1>3, <1>4, <1>5, <1>6, <1>7, <1>8 DEF HandleStep

\* What a returning driver call leaves: a card, and an answer.
LEMMA FnReturnTypes ==
  ASSUME TypeOK, NEW t \in Threads, NEW rc \in Outcomes(used[t]), NEW c \in Reaches(rc, op[t]),
         op[t] \in DriverCalls
  PROVE  /\ c \in Cards
         /\ IF rc = OK THEN Success(card, op[t]) \in Answers ELSE Failure(rc) \in Answers
<1>1. card \in Cards
  BY DEF TypeOK
<1>2. rc \in Errors \cup {OK}
  BY DEF Outcomes, Errors, Stale
<1>3. c \in Cards
  BY <1>1, EffectType DEF Reaches
<1> QED BY <1>1, <1>2, <1>3, SuccessType, FailureType

\* The invariant, kept by every step of the system.
LEMMA LockInvNext == LockInv /\ [Next]_vars => LockInv'
<1> SUFFICES ASSUME LockInv, [Next]_vars PROVE LockInv'
  OBVIOUS
<1> USE DEF LockInv
<1>h. ASSUME NEW a \in Actors, HandleStep(a) \/ (a \in Threads /\ UndoClear(a))
      PROVE  LockInv'
  <2>1. PICK label \in ThreadPC \cup OwnerPC :
          /\ pc' = [pc EXCEPT ![a] = label]
          /\ a \in Threads => pc[a] \in InCall /\ label \in InCall
          /\ a = Owner => label \in OwnerPC
    BY <1>h, HandleStepMoves
  <2>2. UNCHANGED <<lock, elapsed, rested, op, answer, used, driver, card>>
    BY <1>h, HandleStepMoves
  <2>3. TypeOK'
    BY <1>h, <2>1, <2>2, HandleStepTypes DEF TypeOK, Actors, ThreadPC
  <2>4. MutualExclusion'
    BY <2>1, <2>2 DEF MutualExclusion, TypeOK, Actors
  <2>5. CallInv'
    BY <2>1, <2>2 DEF CallInv, TypeOK, Actors, InCall, Reopening, Closing, Opening
  <2> QED BY <2>2, <2>3, <2>4, <2>5
<1> USE DEF TypeOK, backend, threads, dll, At, Goto
<1>1. ASSUME NEW t \in Threads, Invoke(t) PROVE LockInv'
  <2>1. TypeOK'
    BY <1>1, CallTypes DEF Invoke, ThreadPC, Actors
  <2>2. MutualExclusion'
    BY <1>1 DEF Invoke, MutualExclusion, Actors, InCall, Reopening, Closing, Opening
  <2>3. CallInv'
    BY <1>1, CallTypes DEF Invoke, CallInv, Actors
  <2> QED BY <1>1, <2>1, <2>2, <2>3 DEF Invoke
<1>2. ASSUME NEW t \in Threads, Acquire(t) PROVE LockInv'
  <2>1. TypeOK'
    BY <1>2 DEF Acquire, ThreadPC, InCall, Actors
  <2>2. MutualExclusion'
    BY <1>2 DEF Acquire, LockFree, MutualExclusion, Actors, InCall
  <2>3. CallInv'
    BY <1>2 DEF Acquire, CallInv, Actors
  <2> QED BY <1>2, <2>1, <2>2, <2>3 DEF Acquire
<1>3. ASSUME NEW t \in Threads, FnReturns(t) PROVE LockInv'
  <2>1. op[t] \in DriverCalls
    BY <1>3 DEF FnReturns, CallInv
  <2>2. PICK rc \in Outcomes(used[t]) :
          /\ card' \in Reaches(rc, op[t])
          /\ answer' = [answer EXCEPT ![t] =
                          IF rc = OK THEN Success(card, op[t]) ELSE Failure(rc)]
    BY <1>3 DEF FnReturns
  <2>3. card' \in Cards /\ answer' \in [Threads -> Answers]
    BY <2>1, <2>2, FnReturnTypes
  <2>4. /\ pc[t] \in InCall
        /\ \E label \in {"closeChannel", "release"} : pc' = [pc EXCEPT ![t] = label]
        /\ UNCHANGED <<elapsed, rested>> \/ (elapsed' = 0 /\ rested' = 0)
        /\ UNCHANGED <<hdriver, hchannel, lock, op, used, dll>>
    BY <1>3 DEF FnReturns, ReopenStart, InCall
  <2>5. TypeOK'
    BY <2>3, <2>4 DEF ThreadPC, InCall, Reopening, Closing, Actors
  <2>6. MutualExclusion'
    BY <2>4 DEF MutualExclusion, Actors, InCall, Reopening, Closing
  <2>7. CallInv'
    BY <2>1, <2>4 DEF CallInv, Actors
  <2> QED BY <2>4, <2>5, <2>6, <2>7
<1>4. ASSUME NEW t \in Threads, Retry(t) PROVE LockInv'
  <2>1. TypeOK'
    BY <1>4 DEF Retry, ThreadPC, InCall, Actors
  <2>2. MutualExclusion'
    BY <1>4 DEF Retry, MutualExclusion, Actors, InCall
  <2>3. CallInv'
    BY <1>4 DEF Retry, CallInv, Actors
  <2> QED BY <1>4, <2>1, <2>2, <2>3 DEF Retry
<1>5. ASSUME NEW t \in Threads, Release(t) PROVE LockInv'
  <2>1. \E label \in {"idle", "again"} : pc' = [pc EXCEPT ![t] = label]
    BY <1>5 DEF Release
  <2>2. TypeOK'
    BY <1>5, <2>1, CallTypes DEF Release, ThreadPC, Actors
  <2>3. MutualExclusion'
    BY <1>5, <2>1 DEF Release, MutualExclusion, Actors, InCall, Reopening, Closing, Opening
  <2>4. CallInv'
    BY <1>5, <2>1 DEF Release, CallInv, Actors
  <2> QED BY <1>5, <2>2, <2>3, <2>4 DEF Release
<1>6. ASSUME NEW t \in Threads, ReadHostState(t) PROVE LockInv'
  <2>1. TypeOK'
    BY <1>6, CallTypes DEF ReadHostState, ThreadPC, Actors
  <2>2. MutualExclusion'
    BY <1>6 DEF ReadHostState, MutualExclusion, Actors, InCall, Reopening, Closing, Opening
  <2>3. CallInv'
    BY <1>6, CallTypes DEF ReadHostState, CallInv, Actors
  <2> QED BY <1>6, <2>1, <2>2, <2>3 DEF ReadHostState
<1>7. ASSUME Open \/ Close PROVE LockInv'
  <2>1. /\ \E label \in OwnerPC : pc' = [pc EXCEPT ![Owner] = label]
        /\ UNCHANGED <<backend, op, answer, used, dll, card>>
    BY <1>7 DEF Open, Close, OwnerPC, Closing, Opening
  <2> QED BY <2>1 DEF MutualExclusion, CallInv, Actors
<1>8. CASE Tick
  BY <1>8 DEF Tick, MutualExclusion, CallInv
<1>9. CASE DriverStops
  <2>1. card' \in Cards
    BY <1>9, RestartedType DEF DriverStops, TypeOK
  <2> QED BY <1>9, <2>1 DEF DriverStops, MutualExclusion, CallInv
<1>10. CASE DriverComesUp
  BY <1>10 DEF DriverComesUp, MutualExclusion, CallInv
<1>11. CASE DriveUpdates
  <2>1. card' \in Cards
    BY <1>11 DEF DriveUpdates, Cards
  <2> QED BY <1>11, <2>1 DEF DriveUpdates, MutualExclusion, CallInv
<1>12. CASE UNCHANGED vars
  BY <1>12 DEF vars, MutualExclusion, CallInv
<1> QED
  BY <1>h, <1>1, <1>2, <1>3, <1>4, <1>5, <1>6, <1>7, <1>8, <1>9, <1>10, <1>11, <1>12
  DEF Next, ThreadStep, Actors

\* Every state variable has its type: whatever the DLL answers and whoever
\* runs in between, the backend's fields, the lock and the program counters
\* stay within the values the code can give them.
THEOREM TypeCorrect == Spec => []TypeOK
<1>1. LockInv => TypeOK
  BY DEF LockInv
<1> QED BY <1>1, LockInvInit, LockInvNext, PTL DEF Spec

\* In _call, between taking the lock and leaving it, a thread is alone, on
\* every path through the recovery and for any number of threads.
THEOREM MutualExclusionHolds == Spec => []MutualExclusion
<1>1. LockInv => MutualExclusion
  BY DEF LockInv
<1> QED BY <1>1, LockInvInit, LockInvNext, PTL DEF Spec

\* Attempts to reopen begin at least Cooldown apart, whichever threads make
\* them: the first reading of the clock may be anything, since it only makes
\* the first attempt come later.
THEOREM ReopensStayApart == Spec => ReopensApart
<1> DEFINE Apart == \A t \in Threads :
             At(t, "inFn") /\ pc'[t] = "closeChannel" => rested = Cooldown
<1>1. LockInv /\ [Next]_vars => Apart
  <2> SUFFICES ASSUME LockInv, [Next]_vars, NEW t \in Threads,
                      At(t, "inFn"), pc'[t] = "closeChannel"
               PROVE  rested = Cooldown
    OBVIOUS
  <2>1. elapsed = Cooldown => rested = Cooldown
    BY DEF LockInv, TypeOK
  <2>2. PICK u \in Threads : FnReturns(u) /\ u = t
    <3> USE DEF LockInv, TypeOK, At, Goto, Actors, threads, backend
    <3>1. ASSUME NEW a \in Actors, HandleStep(a) \/ (a \in Threads /\ UndoClear(a)) PROVE FALSE
      <4>1. CASE a = t
        BY <3>1, <4>1 DEF HandleStep, CloseChannel, ClearChannel, CloseDriver, ClearDriver,
             OpenDriver, OpenChannel, UndoDriver, UndoClear
      <4>2. CASE a # t
        <5>1. \E label : pc' = [pc EXCEPT ![a] = label]
          BY <3>1, HandleStepMoves
        <5> QED BY <4>2, <5>1
      <4> QED BY <4>1, <4>2
    <3>2. ASSUME NEW u \in Threads,
                 \/ Invoke(u) \/ Acquire(u) \/ Retry(u) \/ Release(u) \/ ReadHostState(u)
                 \/ (FnReturns(u) /\ u # t)
          PROVE  FALSE
      BY <3>2 DEF Invoke, Acquire, Retry, Release, ReadHostState, FnReturns
    <3>3. ASSUME Open \/ Close \/ Tick \/ DriverStops \/ DriverComesUp \/ DriveUpdates
                 \/ UNCHANGED vars
          PROVE  FALSE
      BY <3>3 DEF Open, Close, Tick, DriverStops, DriverComesUp, DriveUpdates, vars
    <3> QED BY <3>1, <3>2, <3>3 DEF Next, ThreadStep
  <2> QED BY <2>1, <2>2 DEF FnReturns, CooledDown, Goto, LockInv, TypeOK, Actors
<1>2. ReopensApart <=> [][Apart]_vars
  BY DEF ReopensApart
<1> QED BY <1>1, <1>2, LockInvInit, LockInvNext, PTL DEF Spec

-----------------------------------------------------------------------------
(* The handles, when the clients have gone before the owner closes.         *)

\* The actor whose step may touch the handles: the lock's holder, or else
\* the owner.
Active == IF lock = NoThread THEN Owner ELSE lock

Settled(held, field) == held = IF field = NoHandle THEN {} ELSE {field}

\* What is open, place by place, for the active actor.
HandlesAt(label) ==
  /\ label \in {"inFn", "retry", "inRetry", "release", "closeChannel", "open"} =>
       Settled(channels, hchannel) /\ Settled(drivers, hdriver)
  /\ label = "clearChannel" => channels = {} /\ Settled(drivers, hdriver)
  /\ label \in {"closeDriver", "clearDriver", "openDriver", "openChannel", "undoDriver",
                "undoClear", "unopened", "closed", "failed"} =>
       channels = {} /\ hchannel = NoHandle
  /\ label = "closeDriver" => Settled(drivers, hdriver)
  /\ label \in {"clearDriver", "undoClear", "failed"} => drivers = {}
  /\ label \in {"openDriver", "unopened", "closed"} => drivers = {} /\ hdriver = NoHandle
  /\ label \in {"openChannel", "undoDriver"} => hdriver \in Handles /\ drivers = {hdriver}

\* Threads are at work only while the owner has the backend open.
ClientsWhileOpen == \A t \in Threads : pc[t] # "idle" => pc[Owner] = "open"

\* A call under way was given the handle that is still in the field.
UsedIsCurrent == \A t \in Threads : pc[t] \in {"inFn", "inRetry"} => used[t] = hchannel

\* Channels do not survive the driver.
DeadDriverDeadChannels == driver # "up" => channels \cap valid = {}

HandleInv ==
  /\ HandlesAt(pc[Active])
  /\ ClientsWhileOpen
  /\ UsedIsCurrent
  /\ RecoverySparesLiveChannel
  /\ DeadDriverDeadChannels

\* When the process starts nothing is open and both fields are NULL.
LEMMA HandleInvInit == Init => HandleInv
<1> SUFFICES ASSUME Init PROVE HandleInv
  OBVIOUS
<1> USE DEF Init, Actors
<1>1. HandlesAt(pc[Active])
  BY DEF HandlesAt, Active
<1>2. ClientsWhileOpen /\ UsedIsCurrent /\ RecoverySparesLiveChannel /\ DeadDriverDeadChannels
  BY DEF ClientsWhileOpen, UsedIsCurrent, RecoverySparesLiveChannel, DeadDriverDeadChannels, At
<1> QED BY <1>1, <1>2 DEF HandleInv

\* Whoever takes a handle step is the active actor, and no other thread is in
\* a call.
LEMMA HandleStepIsActive ==
  ASSUME LockInv, HandleInv, NEW a \in Actors,
         HandleStep(a) \/ (a \in Threads /\ UndoClear(a))
  PROVE  /\ a = Active
         /\ \A t \in Threads : t # a => pc[t] \notin InCall
         /\ a \in Threads => pc[Owner] = "open"
<1> USE DEF LockInv, TypeOK, Active
<1>1. CASE a \in Threads
  <2>1. pc[a] \in InCall
    BY <1>1, HandleStepMoves
  <2>2. lock = a
    BY <1>1, <2>1 DEF MutualExclusion
  <2>3. pc[Owner] = "open"
    BY <1>1, <2>1 DEF HandleInv, ClientsWhileOpen, InCall, Reopening, Closing, Opening
  <2> QED BY <1>1, <2>2, <2>3 DEF MutualExclusion
<1>2. CASE a = Owner
  <2>1. pc[Owner] # "open"
    BY <1>2 DEF HandleStep, CloseChannel, ClearChannel, CloseDriver, ClearDriver,
         OpenDriver, OpenChannel, UndoDriver, At
  <2>2. \A t \in Threads : pc[t] = "idle"
    BY <2>1 DEF HandleInv, ClientsWhileOpen
  <2>3. \A t \in Threads : pc[t] \notin InCall
    BY <2>2 DEF InCall, Reopening, Closing, Opening
  <2> QED BY <1>2, <2>3 DEF MutualExclusion
<1> QED BY <1>1, <1>2 DEF Actors

\* A handle step takes the handles from what they are at its place to what
\* they must be at the next one.
LEMMA HandleStepHandles ==
  ASSUME LockInv, HandleInv, NEW a \in Actors,
         HandleStep(a) \/ (a \in Threads /\ UndoClear(a))
  PROVE  /\ HandlesAt(pc[a])'
         /\ pc'[a] \notin {"inFn", "inRetry", "closeChannel"}
         /\ DeadDriverDeadChannels'
<1>1. HandlesAt(pc[a])
  BY HandleStepIsActive DEF HandleInv
<1> USE <1>1 DEF LockInv, TypeOK, HandleInv, HandlesAt, Settled, At, Goto, DeadDriverDeadChannels,
        backend, dll, Fresh
<1>2. CASE CloseChannel(a)
  BY <1>2 DEF CloseChannel
<1>3. CASE ClearChannel(a)
  BY <1>3 DEF ClearChannel
<1>4. CASE CloseDriver(a)
  BY <1>4 DEF CloseDriver, AfterClose
<1>5. CASE ClearDriver(a)
  BY <1>5 DEF ClearDriver, AfterClose
<1>6. CASE OpenDriver(a)
  BY <1>6 DEF OpenDriver, AfterFailure
<1>7. CASE OpenChannel(a)
  BY <1>7 DEF OpenChannel, AfterOpen
<1>8. CASE UndoDriver(a)
  BY <1>8 DEF UndoDriver
<1>9. CASE a \in Threads /\ UndoClear(a)
  BY <1>9 DEF UndoClear
<1> QED BY <1>2, <1>3, <1>4, <1>5, <1>6, <1>7, <1>8, <1>9 DEF HandleStep

\* A stale answer means the handle is dead: the DLL never reports a handle
\* stale that it still recognises.
LEMMA StaleHandleDead ==
  ASSUME LockInv, HandleInv, NEW t \in Threads, At(t, "inFn"),
         NEW rc \in Outcomes(used[t]), Recoverable(rc)
  PROVE  hchannel \notin valid
<1>1. used[t] = hchannel
  BY DEF HandleInv, UsedIsCurrent, At
<1>2. lock = t
  BY DEF LockInv, MutualExclusion, At, InCall
<1>3. Settled(channels, hchannel)
  BY <1>2 DEF HandleInv, HandlesAt, Active, At
<1>4. CASE driver = "up"
  BY <1>1, <1>4 DEF Outcomes, Recoverable, Stale, OK, NotReady
<1>5. CASE driver # "up"
  <2>1. hchannel = NoHandle \/ hchannel \in channels
    BY <1>3 DEF Settled
  <2>2. NoHandle \notin valid
    BY DEF LockInv, TypeOK
  <2> QED BY <1>5, <2>1, <2>2 DEF HandleInv, DeadDriverDeadChannels
<1> QED BY <1>4, <1>5

\* The invariant on the handles, kept by every step of the system.
LEMMA HandleInvNext ==
  ASSUME ~Lingering
  PROVE  LockInv /\ HandleInv /\ [Next]_vars => HandleInv'
<1> SUFFICES ASSUME LockInv, HandleInv, [Next]_vars PROVE HandleInv'
  OBVIOUS
<1>h. ASSUME NEW a \in Actors, HandleStep(a) \/ (a \in Threads /\ UndoClear(a))
      PROVE  HandleInv'
  <2>1. PICK label : pc' = [pc EXCEPT ![a] = label] /\ UNCHANGED <<lock, used>>
    BY <1>h, HandleStepMoves
  <2>2. /\ a = Active
        /\ \A t \in Threads : t # a => pc[t] \notin InCall
        /\ a \in Threads => pc[Owner] = "open"
    BY <1>h, HandleStepIsActive
  <2>3. /\ HandlesAt(pc[a])'
        /\ pc'[a] \notin {"inFn", "inRetry", "closeChannel"}
        /\ DeadDriverDeadChannels'
    BY <1>h, HandleStepHandles
  <2>4. HandlesAt(pc[Active])'
    BY <2>1, <2>2, <2>3 DEF Active
  <2>5. ClientsWhileOpen'
    <3>1. CASE a \in Threads
      BY <2>1, <2>2, <3>1 DEF LockInv, TypeOK, Actors, HandleInv, ClientsWhileOpen
    <3>2. CASE a = Owner
      <4>1. pc[Owner] # "open"
        BY <1>h, <3>2 DEF HandleStep, CloseChannel, ClearChannel, CloseDriver, ClearDriver,
             OpenDriver, OpenChannel, UndoDriver, At
      <4>2. \A t \in Threads : pc[t] = "idle"
        BY <4>1 DEF HandleInv, ClientsWhileOpen
      <4> QED BY <2>1, <3>2, <4>2 DEF LockInv, TypeOK, Actors, ClientsWhileOpen
    <3> QED BY <3>1, <3>2 DEF Actors
  <2>6. UsedIsCurrent' /\ RecoverySparesLiveChannel'
    BY <2>1, <2>2, <2>3 DEF LockInv, TypeOK, Actors, UsedIsCurrent, RecoverySparesLiveChannel,
       At, InCall, Reopening, Closing
  <2> QED BY <2>3, <2>4, <2>5, <2>6 DEF HandleInv
<1> USE DEF LockInv, TypeOK, Actors, backend, threads, dll, At, Goto
<1> DEFINE Rest == /\ ClientsWhileOpen
                   /\ UsedIsCurrent
                   /\ RecoverySparesLiveChannel
                   /\ DeadDriverDeadChannels
<1>r. Rest
  BY DEF HandleInv
<1>1. ASSUME NEW t \in Threads, Invoke(t) \/ ReadHostState(t) PROVE HandleInv'
  <2>1. /\ pc' = [pc EXCEPT ![t] = "want"]
        /\ pc[t] \in {"idle", "again"}
        /\ UNCHANGED <<backend, used, dll>>
    BY <1>1 DEF Invoke, ReadHostState
  <2>2. pc[Owner] = "open"
    BY <1>1 DEF Invoke, Serving, ReadHostState, HandleInv, ClientsWhileOpen
  <2>3. Active # t
    BY <2>1 DEF Active, MutualExclusion, InCall, Reopening, Closing, Opening
  <2>4. HandlesAt(pc[Active])'
    BY <2>1, <2>3 DEF Active, HandleInv, HandlesAt, Settled
  <2>5. Rest'
    BY <1>r, <2>1, <2>2 DEF ClientsWhileOpen, UsedIsCurrent, RecoverySparesLiveChannel,
       DeadDriverDeadChannels
  <2> QED BY <2>4, <2>5 DEF HandleInv
<1>2. ASSUME NEW t \in Threads, Acquire(t) PROVE HandleInv'
  <2>1. pc[Owner] = "open"
    BY <1>2 DEF Acquire, HandleInv, ClientsWhileOpen
  <2>2. HandlesAt("open")
    BY <1>2, <2>1 DEF Acquire, LockFree, Active, HandleInv
  <2>3. HandlesAt(pc[Active])'
    BY <1>2, <2>2 DEF Acquire, Active, HandlesAt, Settled
  <2>4. Rest'
    BY <1>r, <1>2 DEF Acquire, ClientsWhileOpen, UsedIsCurrent, RecoverySparesLiveChannel,
       DeadDriverDeadChannels
  <2> QED BY <2>3, <2>4 DEF HandleInv
<1>3. ASSUME NEW t \in Threads, FnReturns(t) PROVE HandleInv'
  <2>1. lock = t
    BY <1>3 DEF FnReturns, MutualExclusion, InCall
  <2>2. PICK rc \in Outcomes(used[t]) :
          /\ pc' = [pc EXCEPT ![t] = IF pc[t] = "inFn" /\ Recoverable(rc) /\ CooledDown
                                     THEN "closeChannel" ELSE "release"]
          /\ UNCHANGED <<hdriver, hchannel, lock, used, dll>>
    BY <1>3 DEF FnReturns, ReopenStart
  <2>3. HandlesAt(pc[Active])'
    BY <1>3, <2>1, <2>2 DEF FnReturns, Active, HandleInv, HandlesAt, Settled
  <2>4. ClientsWhileOpen' /\ UsedIsCurrent' /\ DeadDriverDeadChannels'
    BY <1>r, <1>3, <2>2 DEF FnReturns, ClientsWhileOpen, UsedIsCurrent, DeadDriverDeadChannels
  <2>5. pc'[t] = "closeChannel" => hchannel \notin valid
    BY <1>3, <2>2, StaleHandleDead
  <2>6. RecoverySparesLiveChannel'
    BY <1>r, <2>2, <2>5 DEF RecoverySparesLiveChannel
  <2> QED BY <2>3, <2>4, <2>6 DEF HandleInv
<1>4. ASSUME NEW t \in Threads, Retry(t) PROVE HandleInv'
  <2>1. lock = t
    BY <1>4 DEF Retry, MutualExclusion, InCall
  <2>2. HandlesAt(pc[Active])'
    BY <1>4, <2>1 DEF Retry, Active, HandleInv, HandlesAt, Settled
  <2>3. Rest'
    BY <1>r, <1>4 DEF Retry, ClientsWhileOpen, UsedIsCurrent, RecoverySparesLiveChannel,
       DeadDriverDeadChannels
  <2> QED BY <2>2, <2>3 DEF HandleInv
<1>5. ASSUME NEW t \in Threads, Release(t) PROVE HandleInv'
  <2>1. lock = t /\ pc[Owner] = "open"
    BY <1>5 DEF Release, MutualExclusion, InCall, HandleInv, ClientsWhileOpen
  <2>2. \E label \in {"idle", "again"} : pc' = [pc EXCEPT ![t] = label]
    BY <1>5 DEF Release
  <2>3. HandlesAt(pc[Active])'
    BY <1>5, <2>1, <2>2 DEF Release, Active, HandleInv, HandlesAt, Settled
  <2>4. Rest'
    BY <1>r, <1>5, <2>1, <2>2 DEF Release, ClientsWhileOpen, UsedIsCurrent,
       RecoverySparesLiveChannel, DeadDriverDeadChannels
  <2> QED BY <2>3, <2>4 DEF HandleInv
<1>6. CASE Open \/ Close
  <2>1. /\ pc' = [pc EXCEPT ![Owner] = IF pc[Owner] = "open" THEN "closeChannel" ELSE "openDriver"]
        /\ pc[Owner] \in {"unopened", "open"}
        /\ UNCHANGED <<backend, used, dll>>
    BY <1>6 DEF Open, Close
  <2>2. \A t \in Threads : pc[t] = "idle"
    BY <1>6 DEF Open, Close, HandleInv, ClientsWhileOpen
  <2>3. Active = Owner
    BY <2>2 DEF Active, MutualExclusion, InCall, Reopening, Closing, Opening
  <2>4. HandlesAt(pc[Active])'
    BY <2>1, <2>3 DEF Active, HandleInv, HandlesAt, Settled
  <2>5. Rest'
    BY <1>r, <2>1, <2>2 DEF ClientsWhileOpen, UsedIsCurrent, RecoverySparesLiveChannel,
       DeadDriverDeadChannels
  <2> QED BY <2>4, <2>5 DEF HandleInv
<1>7. CASE Tick \/ DriverStops \/ DriverComesUp \/ DriveUpdates \/ UNCHANGED vars
  <2>1. /\ UNCHANGED <<hdriver, hchannel, lock, pc, used, drivers, channels>>
        /\ valid' \subseteq valid
        /\ valid' = {} \/ (valid' = valid /\ (driver' = driver \/ driver # "up"))
    BY <1>7 DEF Tick, DriverStops, DriverComesUp, DriveUpdates, vars
  <2>2. HandlesAt(pc[Active])'
    BY <2>1 DEF Active, HandleInv, HandlesAt, Settled
  <2>3. Rest'
    BY <1>r, <2>1 DEF ClientsWhileOpen, UsedIsCurrent, RecoverySparesLiveChannel,
       DeadDriverDeadChannels
  <2> QED BY <2>2, <2>3 DEF HandleInv
<1> QED
  BY <1>h, <1>1, <1>2, <1>3, <1>4, <1>5, <1>6, <1>7 DEF Next, ThreadStep

\* The two invariants together hold in every behaviour.
LEMMA HandleInvHolds ==
  ASSUME ~Lingering
  PROVE  Spec => [](LockInv /\ HandleInv)
BY LockInvInit, LockInvNext, HandleInvInit, HandleInvNext, PTL DEF Spec

\* The invariant leaves no place for a handle that no field holds.
LEMMA HandleInvLosesNothing == LockInv /\ HandleInv => NoHandleLost
<1> SUFFICES ASSUME LockInv, HandleInv PROVE NoHandleLost
  OBVIOUS
<1>1. CASE lock \in Threads
  <2>1. pc[lock] \in InCall
    BY <1>1 DEF LockInv, MutualExclusion
  <2> QED BY <1>1, <2>1 DEF HandleInv, HandlesAt, Active, Settled, NoHandleLost, InCall,
       Reopening, Closing, Opening
<1>2. CASE lock = NoThread
  <2>1. pc[Owner] \in OwnerPC
    BY DEF LockInv, TypeOK
  <2> QED BY <1>2, <2>1 DEF HandleInv, HandlesAt, Active, Settled, NoHandleLost, OwnerPC,
       Closing, Opening
<1> QED BY <1>1, <1>2 DEF LockInv, TypeOK

\* The invariant has every handle about to be passed to the DLL open.
LEMMA HandleInvUsesOpen == LockInv /\ HandleInv => NoClosedHandleUsed
<1> SUFFICES ASSUME LockInv, HandleInv PROVE NoClosedHandleUsed
  OBVIOUS
<1>1. ASSUME NEW t \in Threads, pc[t] \in {"inFn", "inRetry"}
      PROVE  used[t] \in channels \cup {NoHandle}
  <2>1. lock = t
    BY <1>1 DEF LockInv, MutualExclusion, InCall
  <2>2. Settled(channels, hchannel)
    BY <1>1, <2>1 DEF HandleInv, HandlesAt, Active
  <2> QED BY <1>1, <2>2 DEF HandleInv, UsedIsCurrent, Settled
<1>2. ASSUME NEW a \in Actors,
             pc[a] \in {"closeChannel", "closeDriver", "openChannel", "undoDriver"}
      PROVE  /\ At(a, "closeChannel") => hchannel \in channels \cup {NoHandle}
             /\ At(a, "closeDriver")  => hdriver \in drivers \cup {NoHandle}
             /\ pc[a] \in {"openChannel", "undoDriver"} => hdriver \in drivers
  <2>1. a = Active
    <3>1. CASE a \in Threads
      BY <1>2, <3>1 DEF LockInv, MutualExclusion, Active, InCall, Reopening, Closing, Opening
    <3>2. CASE a = Owner
      <4>1. \A t \in Threads : pc[t] = "idle"
        BY <1>2, <3>2 DEF HandleInv, ClientsWhileOpen
      <4> QED BY <3>2, <4>1 DEF LockInv, TypeOK, MutualExclusion, Active, InCall, Reopening,
           Closing, Opening
    <3> QED BY <3>1, <3>2 DEF Actors
  <2> QED BY <1>2, <2>1 DEF HandleInv, HandlesAt, Settled, At
<1> QED BY <1>1, <1>2 DEF NoClosedHandleUsed, At

\* Provided the clients have gone before close(): no handle is ever lost, on
\* any path of a reopen or of an open() that fails half way, whatever the
\* driver does meanwhile.
THEOREM NoHandleIsLost ==
  ASSUME ~Lingering
  PROVE  Spec => []NoHandleLost
BY HandleInvHolds, HandleInvLosesNothing, PTL

\* Under the same assumption no DLL call is passed a handle already closed.
THEOREM NoClosedHandleIsUsed ==
  ASSUME ~Lingering
  PROVE  Spec => []NoClosedHandleUsed
BY HandleInvHolds, HandleInvUsesOpen, PTL

\* Under the same assumption the recovery never closes a working channel:
\* neither another thread nor a late answer can make it do so.
THEOREM LiveChannelIsSpared ==
  ASSUME ~Lingering
  PROVE  Spec => []RecoverySparesLiveChannel
<1>1. HandleInv => RecoverySparesLiveChannel
  BY DEF HandleInv
<1> QED BY <1>1, HandleInvHolds, PTL

-----------------------------------------------------------------------------
(* The channel implements the process image, lingering clients included.    *)

\* What the image sees of a thread.
MappedStatus == [t \in Threads |-> Status(t)]
MappedOp     == [t \in Threads |-> IF Status(t) = "idle" THEN NoOp ELSE op[t]]
MappedAnswer == [t \in Threads |-> IF Status(t) = "answered" THEN answer[t] ELSE NoAnswer]

\* The label of a thread inside the handle steps is pending, before and after,
\* unless the reopen failed: then the call is answered with its first error.
LEMMA HandleStepStatus ==
  ASSUME LockInv, NEW a \in Actors, HandleStep(a) \/ (a \in Threads /\ UndoClear(a)),
         a \in Threads
  PROVE  Status(a) = "pending" /\ Status(a)' \in {"pending", "answered"}
<1> USE DEF LockInv, TypeOK, Status, At, Goto, Actors
<1>1. CASE CloseChannel(a)
  BY <1>1 DEF CloseChannel
<1>2. CASE ClearChannel(a)
  BY <1>2 DEF ClearChannel
<1>3. CASE CloseDriver(a)
  BY <1>3 DEF CloseDriver, AfterClose
<1>4. CASE ClearDriver(a)
  BY <1>4 DEF ClearDriver, AfterClose
<1>5. CASE OpenDriver(a)
  BY <1>5 DEF OpenDriver, AfterFailure
<1>6. CASE OpenChannel(a)
  BY <1>6 DEF OpenChannel, AfterOpen
<1>7. CASE UndoDriver(a)
  BY <1>7 DEF UndoDriver
<1>8. CASE UndoClear(a)
  BY <1>8 DEF UndoClear
<1> QED BY <1>1, <1>2, <1>3, <1>4, <1>5, <1>6, <1>7, <1>8 DEF HandleStep

\* While a thread recovers, the answer it keeps is an error.
FailedFirst ==
  \A t \in Threads :
    pc[t] \in Reopening \cup {"retry", "inRetry"} =>
      \E rc \in Errors : answer[t] = Failure(rc)

\* No thread is in the recovery when the process starts.
LEMMA FailedFirstInit == Init => FailedFirst
BY DEF Init, FailedFirst, Actors, Reopening, Closing, Opening

\* A recovery begins with an error, and no step of it changes the answer.
LEMMA FailedFirstNext == LockInv /\ FailedFirst /\ [Next]_vars => FailedFirst'
<1> SUFFICES ASSUME LockInv, FailedFirst, [Next]_vars PROVE FailedFirst'
  OBVIOUS
<1> USE DEF LockInv, TypeOK, FailedFirst, Actors, At, Goto, Reopening, Closing, Opening,
        backend, threads, dll
<1>1. ASSUME NEW a \in Actors, HandleStep(a) \/ (a \in Threads /\ UndoClear(a))
      PROVE  FailedFirst'
  <2>1. PICK label : pc' = [pc EXCEPT ![a] = label] /\ answer' = answer
    BY <1>1, HandleStepMoves
  <2>2. a \in Threads => pc[a] \in Reopening
    BY <1>1 DEF HandleStep, CloseChannel, ClearChannel, CloseDriver, ClearDriver,
       OpenDriver, OpenChannel, UndoDriver, UndoClear
  <2> QED BY <2>1, <2>2
<1>2. ASSUME NEW t \in Threads, Invoke(t) \/ Acquire(t) \/ Release(t) \/ ReadHostState(t)
      PROVE  FailedFirst'
  BY <1>2 DEF Invoke, Acquire, Release, ReadHostState
<1>3. ASSUME NEW t \in Threads, Retry(t) PROVE FailedFirst'
  BY <1>3 DEF Retry
<1>4. ASSUME NEW t \in Threads, FnReturns(t) PROVE FailedFirst'
  <2>1. PICK rc \in Outcomes(used[t]) :
          /\ answer' = [answer EXCEPT ![t] =
                          IF rc = OK THEN Success(card, op[t]) ELSE Failure(rc)]
          /\ pc' = [pc EXCEPT ![t] = IF pc[t] = "inFn" /\ Recoverable(rc) /\ CooledDown
                                     THEN "closeChannel" ELSE "release"]
    BY <1>4 DEF FnReturns, ReopenStart
  <2>2. Recoverable(rc) => rc # OK /\ rc \in Errors
    BY DEF Recoverable, Stale, OK, Errors
  <2> QED BY <2>1, <2>2
<1>5. CASE Open \/ Close \/ Tick \/ DriverStops \/ DriverComesUp \/ DriveUpdates
           \/ UNCHANGED vars
  BY <1>5 DEF Open, Close, Tick, DriverStops, DriverComesUp, DriveUpdates, vars
<1> QED BY <1>1, <1>2, <1>3, <1>4, <1>5 DEF Next, ThreadStep

\* A step of one thread changes one place of the mapped functions.
LEMMA MapsOne ==
  ASSUME LockInv, NEW t \in Threads, NEW label, pc' = [pc EXCEPT ![t] = label],
         \A u \in Threads : u # t => op'[u] = op[u] /\ answer'[u] = answer[u]
  PROVE  /\ MappedStatus' = [MappedStatus EXCEPT ![t] = Status(t)']
         /\ MappedOp' = [MappedOp EXCEPT ![t] = IF Status(t)' = "idle" THEN NoOp ELSE op'[t]]
         /\ MappedAnswer' = [MappedAnswer EXCEPT ![t] =
                               IF Status(t)' = "answered" THEN answer'[t] ELSE NoAnswer]
         /\ MappedStatus[t] = Status(t)
         /\ MappedOp[t] = IF Status(t) = "idle" THEN NoOp ELSE op[t]
         /\ MappedAnswer[t] = IF Status(t) = "answered" THEN answer[t] ELSE NoAnswer
<1>1. \A u \in Threads : u # t => Status(u)' = Status(u)
  BY DEF LockInv, TypeOK, Actors, Status
<1>2. MappedStatus' = [MappedStatus EXCEPT ![t] = Status(t)']
  BY <1>1 DEF MappedStatus
<1>3. MappedOp' = [MappedOp EXCEPT ![t] = IF Status(t)' = "idle" THEN NoOp ELSE op'[t]]
  BY <1>1 DEF MappedOp
<1>4. MappedAnswer' = [MappedAnswer EXCEPT ![t] =
                        IF Status(t)' = "answered" THEN answer'[t] ELSE NoAnswer]
  BY <1>1 DEF MappedAnswer
<1> QED BY <1>2, <1>3, <1>4 DEF MappedStatus, MappedOp, MappedAnswer

\* A step that changes no thread's place, call or answer leaves the mapped
\* functions alone.
LEMMA MapsNone ==
  ASSUME UNCHANGED <<op, answer>>, \A t \in Threads : pc'[t] = pc[t]
  PROVE  UNCHANGED <<MappedStatus, MappedOp, MappedAnswer>>
<1>1. \A t \in Threads : Status(t)' = Status(t)
  BY DEF Status
<1> QED BY <1>1 DEF MappedStatus, MappedOp, MappedAnswer

\* The image's vocabulary is the channel's.
LEMMA SameEffect ==
  ASSUME NEW c, NEW o
  PROVE  Image!Effects(c, o) = Effects(c, o) /\ Image!Restarted(c) = Restarted(c)
BY DEF Image!Effects, Effects, Image!Restarted, Restarted, Image!Dormant, Dormant,
       Image!Cleared, Cleared

\* The two modules mean the same sets by the same names.
LEMMA SameVocabulary ==
  /\ Image!DriverCalls = DriverCalls
  /\ Image!Errors = Errors
  /\ Image!NoOp = NoOp
  /\ Image!NoAnswer = NoAnswer
BY DEF Image!DriverCalls, DriverCalls, Image!Read, Read, Image!Write, Write, Image!Watchdog,
       Watchdog, Image!Reset, Reset, Image!Errors, Errors, Image!Stale, Stale, Image!NotReady,
       NotReady, Image!Switches, Switches, Image!NoOp, NoOp, Image!NoAnswer, NoAnswer,
       Image!OK, OK

\* And the same answers.
LEMMA SameAnswers ==
  ASSUME NEW c, NEW o, NEW rc
  PROVE  Image!Success(c, o) = Success(c, o) /\ Image!Failure(rc) = Failure(rc)
BY DEF Image!Success, Success, Image!Failure, Failure, Image!OK, OK

\* The initial states map to initial states of the image.
LEMMA ImageInit == Init => Image!Init
<1> SUFFICES ASSUME Init PROVE Image!Init
  OBVIOUS
<1>1. \A t \in Threads : Status(t) = "idle"
  BY DEF Init, Status, Actors
<1> QED BY <1>1 DEF Init, Image!Init, Image!Cards, Cards, Image!Switches, Switches, Image!NoOp,
        NoOp, Image!NoAnswer, NoAnswer, Image!OK, OK

\* The image's steps that answer a call, over the mapped functions.
LEMMA ImageAnswers ==
  ASSUME NEW t \in Threads, MappedStatus[t] = "pending", UNCHANGED MappedOp,
         MappedStatus' = [MappedStatus EXCEPT ![t] = "answered"]
  PROVE  /\ (/\ card' \in Effects(card, MappedOp[t])
             /\ MappedAnswer' = [MappedAnswer EXCEPT ![t] = Success(card, MappedOp[t])])
            => Image!Perform(t)
         /\ \A rc \in Errors :
              (/\ card' \in {card} \cup Effects(card, MappedOp[t])
               /\ MappedAnswer' = [MappedAnswer EXCEPT ![t] = Failure(rc)])
              => Image!Refuse(t)
<1>1. ASSUME card' \in Effects(card, MappedOp[t]),
             MappedAnswer' = [MappedAnswer EXCEPT ![t] = Success(card, MappedOp[t])]
      PROVE  Image!Perform(t)
  <2>1. card' \in Image!Effects(card, MappedOp[t])
    BY <1>1, SameEffect
  <2>2. MappedAnswer' = [MappedAnswer EXCEPT ![t] = Image!Success(card, MappedOp[t])]
    BY <1>1, SameAnswers
  <2> QED BY <2>1, <2>2 DEF Image!Perform, MappedStatus, MappedOp, MappedAnswer
<1>2. ASSUME NEW rc \in Errors,
             card' \in {card} \cup Effects(card, MappedOp[t]),
             MappedAnswer' = [MappedAnswer EXCEPT ![t] = Failure(rc)]
      PROVE  Image!Refuse(t)
  <2>1. card' \in {card} \cup Image!Effects(card, MappedOp[t])
    BY <1>2, SameEffect
  <2>2. rc \in Image!Errors
    BY SameVocabulary
  <2>3. MappedAnswer' = [MappedAnswer EXCEPT ![t] = Image!Failure(rc)]
    BY <1>2, SameAnswers
  <2> QED BY <2>1, <2>2, <2>3 DEF Image!Refuse, MappedStatus, MappedOp, MappedAnswer
<1> QED BY <1>1, <1>2

\* Every step of the channel is a step of the image, or a stutter.
LEMMA ImageNext == LockInv /\ FailedFirst /\ [Next]_vars => [Image!Next]_Image!vars
<1> SUFFICES ASSUME LockInv, FailedFirst, [Next]_vars PROVE [Image!Next]_Image!vars
  OBVIOUS
<1> DEFINE Hidden == UNCHANGED <<card, MappedStatus, MappedOp, MappedAnswer>>
<1>t. /\ pc \in [Actors -> ThreadPC \cup OwnerPC]
      /\ op \in [Threads -> DriverCalls \cup {NoOp}]
      /\ answer \in [Threads -> Answers]
  BY DEF LockInv, TypeOK
<1>f. /\ MappedStatus \in [Threads -> {"idle", "pending", "answered"}]
      /\ DOMAIN MappedOp = Threads /\ MappedOp = [t \in Threads |-> MappedOp[t]]
      /\ DOMAIN MappedAnswer = Threads /\ MappedAnswer = [t \in Threads |-> MappedAnswer[t]]
  BY DEF MappedStatus, MappedOp, MappedAnswer, Status
<1>g. Hidden => UNCHANGED Image!vars
  BY DEF Image!vars, MappedStatus, MappedOp, MappedAnswer
<1>1. ASSUME NEW t \in Threads, Invoke(t) \/ ReadHostState(t) PROVE Image!Invoke(t)
  <2>1. /\ pc' = [pc EXCEPT ![t] = "want"]
        /\ pc[t] \in {"idle", "again"}
        /\ \E o \in DriverCalls : op' = [op EXCEPT ![t] = o]
        /\ UNCHANGED <<answer, card>>
    BY <1>1, CallTypes DEF Invoke, ReadHostState, At, Goto
  <2>2. Status(t) = "idle" /\ Status(t)' = "pending"
    BY <1>t, <2>1 DEF Status, Actors
  <2>3. PICK o \in DriverCalls : op' = [op EXCEPT ![t] = o]
    BY <2>1
  <2>4. \A u \in Threads : u # t => op'[u] = op[u] /\ answer'[u] = answer[u]
    BY <2>1, <2>3, <1>t
  <2>5. /\ MappedStatus' = [MappedStatus EXCEPT ![t] = "pending"]
        /\ MappedOp' = [MappedOp EXCEPT ![t] = o]
        /\ MappedAnswer' = [MappedAnswer EXCEPT ![t] = NoAnswer]
        /\ MappedStatus[t] = "idle"
        /\ MappedAnswer[t] = NoAnswer
    BY <1>t, <2>1, <2>2, <2>3, <2>4, MapsOne
  <2>6. MappedAnswer' = MappedAnswer
    BY <1>f, <2>5
  <2> QED BY <2>1, <2>5, <2>6, SameVocabulary
       DEF Image!Invoke, MappedStatus, MappedOp, MappedAnswer
<1>2. ASSUME NEW t \in Threads, Acquire(t) \/ Retry(t) PROVE Hidden
  <2>1. PICK label \in {"inFn", "inRetry"} : pc' = [pc EXCEPT ![t] = label]
    BY <1>2 DEF Acquire, Retry, At, Goto
  <2>2. pc[t] \in {"want", "retry"} /\ UNCHANGED <<op, answer, card>>
    BY <1>2 DEF Acquire, Retry, At, backend
  <2>3. Status(t) = "pending" /\ Status(t)' = "pending"
    BY <1>t, <2>1, <2>2 DEF Status, Actors
  <2>4. /\ MappedStatus' = [MappedStatus EXCEPT ![t] = MappedStatus[t]]
        /\ MappedOp' = [MappedOp EXCEPT ![t] = MappedOp[t]]
        /\ MappedAnswer' = [MappedAnswer EXCEPT ![t] = MappedAnswer[t]]
    BY <2>1, <2>2, <2>3, MapsOne
  <2> QED BY <1>f, <2>2, <2>4
<1>3. ASSUME NEW t \in Threads, FnReturns(t)
      PROVE  Image!Perform(t) \/ Image!Refuse(t) \/ Hidden
  <2>1. PICK rc \in Outcomes(used[t]) :
          /\ card' \in Reaches(rc, op[t])
          /\ answer' = [answer EXCEPT ![t] =
                          IF rc = OK THEN Success(card, op[t]) ELSE Failure(rc)]
          /\ pc' = [pc EXCEPT ![t] = IF pc[t] = "inFn" /\ Recoverable(rc) /\ CooledDown
                                     THEN "closeChannel" ELSE "release"]
    BY <1>3 DEF FnReturns, ReopenStart, At, Goto
  <2>2. pc[t] \in {"inFn", "inRetry"} /\ op' = op /\ rc \in Errors \cup {OK}
    BY <1>3 DEF FnReturns, Outcomes, Errors, Stale
  <2>3. Status(t) = "pending"
    BY <2>2 DEF Status
  <2>4. PICK label : pc' = [pc EXCEPT ![t] = label]
    BY <2>1
  <2>5. \A u \in Threads : u # t => op'[u] = op[u] /\ answer'[u] = answer[u]
    BY <1>t, <2>1, <2>2
  <2>6. CASE pc'[t] = "closeChannel"
    <3>1. Status(t)' = "pending"
      BY <2>6 DEF Status
    <3>2. rc \in Stale
      BY <1>t, <2>1, <2>6 DEF Recoverable, Actors
    <3>3. card' = card
      BY <2>1, <3>2 DEF Reaches, Stale, OK, NotReady
    <3>4. /\ MappedStatus' = [MappedStatus EXCEPT ![t] = "pending"]
          /\ MappedOp' = [MappedOp EXCEPT ![t] = op[t]]
          /\ MappedAnswer' = [MappedAnswer EXCEPT ![t] = NoAnswer]
          /\ MappedStatus[t] = "pending"
          /\ MappedOp[t] = op[t]
          /\ MappedAnswer[t] = NoAnswer
      BY <2>2, <2>3, <2>4, <2>5, <3>1, MapsOne
    <3> QED BY <1>f, <3>3, <3>4
  <2>7. CASE pc'[t] = "release"
    <3>1. Status(t)' = "answered"
      BY <2>7 DEF Status
    <3>2. /\ MappedStatus' = [MappedStatus EXCEPT ![t] = "answered"]
          /\ MappedOp' = [MappedOp EXCEPT ![t] = MappedOp[t]]
          /\ MappedAnswer' = [MappedAnswer EXCEPT ![t] = answer'[t]]
          /\ MappedStatus[t] = "pending"
          /\ MappedOp[t] = op[t]
      BY <2>2, <2>3, <2>4, <2>5, <3>1, MapsOne
    <3>3. MappedOp' = MappedOp
      BY <1>f, <3>2
    <3>4. CASE rc = OK
      <4>1. card' \in Effects(card, op[t])
        BY <2>1, <3>4 DEF Reaches, OK, NotReady
      <4>2. answer'[t] = Success(card, op[t])
        BY <1>t, <2>1, <3>4
      <4>3. Image!Perform(t)
        BY <3>2, <3>3, <4>1, <4>2, ImageAnswers
      <4> QED BY <4>3
    <3>5. CASE rc \in Errors
      <4>1. card' \in {card} \cup Effects(card, op[t])
        BY <2>1, <3>5 DEF Reaches, Errors, Stale, OK, NotReady
      <4>2. answer'[t] = Failure(rc)
        BY <1>t, <2>1, <3>5 DEF Errors, Stale, OK, NotReady
      <4>3. Image!Refuse(t)
        BY <3>2, <3>3, <3>5, <4>1, <4>2, ImageAnswers
      <4> QED BY <4>3
    <3> QED BY <2>2, <3>4, <3>5
  <2> QED BY <1>t, <2>1, <2>6, <2>7 DEF Actors
<1>4. ASSUME NEW t \in Threads, Release(t) PROVE Image!Return(t)
  <2>1. PICK label \in {"idle", "again"} : pc' = [pc EXCEPT ![t] = label]
    BY <1>4 DEF Release, Goto
  <2>2. /\ pc[t] = "release"
        /\ op' = [op EXCEPT ![t] = NoOp]
        /\ answer' = [answer EXCEPT ![t] = NoAnswer]
        /\ card' = card
    BY <1>4 DEF Release, At
  <2>3. Status(t) = "answered" /\ Status(t)' = "idle"
    BY <1>t, <2>1, <2>2 DEF Status, Actors
  <2>4. \A u \in Threads : u # t => op'[u] = op[u] /\ answer'[u] = answer[u]
    BY <1>t, <2>2
  <2>5. /\ MappedStatus' = [MappedStatus EXCEPT ![t] = "idle"]
        /\ MappedOp' = [MappedOp EXCEPT ![t] = NoOp]
        /\ MappedAnswer' = [MappedAnswer EXCEPT ![t] = NoAnswer]
        /\ MappedStatus[t] = "answered"
    BY <2>1, <2>3, <2>4, MapsOne
  <2> QED BY <2>2, <2>5, SameVocabulary DEF Image!Return, MappedStatus, MappedOp, MappedAnswer
<1>5. ASSUME NEW t \in Threads, HandleStep(t) \/ UndoClear(t)
      PROVE  Image!Refuse(t) \/ Hidden
  <2>1. PICK label : pc' = [pc EXCEPT ![t] = label] /\ UNCHANGED <<op, answer, card>>
    BY <1>5, HandleStepMoves DEF Actors
  <2>2. Status(t) = "pending" /\ Status(t)' \in {"pending", "answered"}
    BY <1>5, HandleStepStatus DEF Actors
  <2>3. PICK rc \in Errors : answer[t] = Failure(rc)
    BY <1>5 DEF FailedFirst, HandleStep, CloseChannel, ClearChannel, CloseDriver, ClearDriver,
       OpenDriver, OpenChannel, UndoDriver, UndoClear, At, Reopening, Closing, Opening
  <2>4. /\ MappedStatus' = [MappedStatus EXCEPT ![t] = Status(t)']
        /\ MappedOp' = [MappedOp EXCEPT ![t] = MappedOp[t]]
        /\ MappedAnswer' = [MappedAnswer EXCEPT ![t] =
                              IF Status(t)' = "answered" THEN answer[t] ELSE MappedAnswer[t]]
        /\ MappedStatus[t] = "pending"
    BY <2>1, <2>2, MapsOne
  <2>5. MappedOp' = MappedOp
    BY <1>f, <2>4
  <2>6. CASE Status(t)' = "pending"
    BY <1>f, <2>1, <2>4, <2>5, <2>6
  <2>7. CASE Status(t)' = "answered"
    BY <2>1, <2>3, <2>4, <2>5, <2>7, ImageAnswers
  <2> QED BY <2>2, <2>6, <2>7
<1>6. CASE Open \/ Close \/ HandleStep(Owner) \/ Tick \/ DriverComesUp \/ UNCHANGED vars
  <2>1. UNCHANGED <<op, answer, card>> /\ \A t \in Threads : pc'[t] = pc[t]
    <3>1. CASE HandleStep(Owner)
      BY <1>t, <3>1, HandleStepMoves DEF Actors
    <3> QED BY <1>6, <1>t, <3>1 DEF Open, Close, Tick, DriverComesUp, vars, backend, threads,
         dll, At, Goto, Actors
  <2> QED BY <2>1, MapsNone, <1>g
<1>7. CASE DriverStops \/ DriveUpdates
  <2>1. UNCHANGED <<op, answer>> /\ \A t \in Threads : pc'[t] = pc[t]
    BY <1>7 DEF DriverStops, DriveUpdates, threads
  <2>2. \/ card' = card
        \/ card' \in Restarted(card)
        \/ \E v \in Values : card' = [card EXCEPT !.input = v]
    BY <1>7 DEF DriverStops, DriveUpdates
  <2>3. Hidden \/ Image!CardMoves
    BY <2>1, <2>2, MapsNone, SameEffect
    DEF Image!CardMoves, MappedStatus, MappedOp, MappedAnswer
  <2> QED BY <2>3, <1>g DEF Image!Next
<1> QED
  BY <1>1, <1>2, <1>3, <1>4, <1>5, <1>6, <1>7, <1>g DEF Next, ThreadStep, Image!Next

\* For any number of threads, whatever the driver does and whoever closes the
\* backend meanwhile, the channel implements the process image: a call takes
\* effect at most once, at one instant, and its answer tells what happened.
THEOREM ChannelImplementsImage == Spec => ImplementsImage
BY LockInvInit, LockInvNext, FailedFirstInit, FailedFirstNext, ImageInit, ImageNext, PTL
   DEF Spec, ImplementsImage, Image!Spec
=============================================================================
