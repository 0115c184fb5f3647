-------------------------- MODULE StreamServerProofs --------------------------
(* Theorems about StreamServer, for any finite set of connections, any       *)
(* number of frames and any size of the socket's buffers.                    *)
EXTENDS StreamServer, FiniteSetTheorems, TLAPS

USE ConnsAssumption, MaxFramesAssumption, WindowAssumption

-----------------------------------------------------------------------------
(* Counting the connections whose thread is at one of some places           *)

Count(f, A) == Cardinality({c \in Conns : f[c] \in A})

\* No more connections are counted than there are.
LEMMA CountType ==
  ASSUME NEW f, NEW A
  PROVE  Count(f, A) \in 0 .. Cardinality(Conns)
<1> DEFINE S == {c \in Conns : f[c] \in A}
<1>1. S \in SUBSET Conns
  OBVIOUS
<1> HIDE DEF S
<1>2. IsFiniteSet(S) /\ Cardinality(S) <= Cardinality(Conns)
  BY <1>1, FS_Subset
<1>3. Cardinality(S) \in Nat /\ Cardinality(Conns) \in Nat
  BY <1>2, FS_CardinalityType
<1> QED BY <1>2, <1>3 DEF Count, S

\* From f to g, at most the thread of connection c has moved.
OnlyMoves(f, g, c) == \A b \in Conns \ {c} : g[b] = f[b]

\* The count has changed by what that thread contributes.
CountsOne(f, g, c, A) ==
  Count(g, A) = Count(f, A) + (IF g[c] \in A THEN 1 ELSE 0) - (IF f[c] \in A THEN 1 ELSE 0)

\* When one thread moves, the count changes by what that thread contributes.
LEMMA CountMoves ==
  ASSUME NEW f, NEW g, NEW c \in Conns, NEW A, OnlyMoves(f, g, c)
  PROVE  CountsOne(f, g, c, A)
<1> USE DEF OnlyMoves, CountsOne
<1> DEFINE S == {b \in Conns : f[b] \in A}
           T == {b \in Conns : g[b] \in A}
<1>1. IsFiniteSet(S) /\ Cardinality(S) \in Nat
  <2>1. S \in SUBSET Conns
    OBVIOUS
  <2> HIDE DEF S
  <2> QED BY <2>1, FS_Subset, FS_CardinalityType
<1>2. T = IF g[c] \in A THEN S \cup {c} ELSE S \ {c}
  OBVIOUS
<1>3. c \in S <=> f[c] \in A
  OBVIOUS
<1>4. Count(g, A) = Cardinality(T) /\ Count(f, A) = Cardinality(S)
  BY DEF Count
<1> HIDE DEF S, T
<1>5. Cardinality(S \cup {c}) = IF c \in S THEN Cardinality(S) ELSE Cardinality(S) + 1
  BY <1>1, FS_AddElement
<1>6. Cardinality(S \ {c}) = IF c \in S THEN Cardinality(S) - 1 ELSE Cardinality(S)
  BY <1>1, FS_RemoveElement
<1> QED BY <1>1, <1>2, <1>3, <1>4, <1>5, <1>6

-----------------------------------------------------------------------------
(* Types, all but the ranges of the counters                                *)

Typed ==
  /\ client \in [Conns -> {"away", "here", "left", "vanished"}]
  /\ sent \in [Conns -> Seq({"good", "bad"})]
  /\ taken \in [Conns -> Nat]
  /\ applied \in [Conns -> Nat]
  /\ \A c \in Conns : Len(sent[c]) <= MaxFrames /\ taken[c] <= Len(sent[c])
  /\ \A c \in Conns : applied[c] <= taken[c]
  /\ outbox \in [Conns -> 0 .. Window]
  /\ sock \in [Conns -> {"open", "dead", "closed"}]
  /\ handler \in [Conns -> HandlerPC]
  /\ poller \in [Conns -> PollerPC]
  /\ stop \in [Conns -> BOOLEAN]
  /\ works \in BOOLEAN

\* The server starts without connections.
LEMMA TypedInit == Init => Typed
<1> SUFFICES ASSUME Init PROVE Typed
  OBVIOUS
<1>1. <<>> \in Seq({"good", "bad"}) /\ Len(<<>>) = 0
  OBVIOUS
<1> QED BY <1>1 DEF Init, Typed, HandlerPC, PollerPC

\* What a step of a handler does to the places: it moves itself.
LEMMA HandlerMoves ==
  ASSUME Typed, NEW c \in Conns, HandlerStep(c)
  PROVE  \E label \in HandlerPC : handler' = [handler EXCEPT ![c] = label]
<1> USE DEF HandlerTo, HandlerPC, Counted, AfterBadFrame, AfterEnd, AfterRefusal
<1>1. CASE Accept(c) \/ Begin(c) \/ Spawn(c) \/ Loop(c)
  BY <1>1 DEF Accept, Begin, Spawn, Loop
<1>2. CASE Receive(c) \/ ReceiveEnds(c)
  BY <1>2 DEF Receive, ReceiveEnds
<1>3. CASE WriteFrame(c) \/ AddBytesWritten(c)
  BY <1>3 DEF WriteFrame, AddBytesWritten
<1>4. CASE Finally(c) \/ Join(c) \/ Uncount(c) \/ CloseRequest(c)
  BY <1>4 DEF Finally, Join, Uncount, CloseRequest
<1> QED BY <1>1, <1>2, <1>3, <1>4 DEF HandlerStep

\* Every step keeps the types: a handler takes no frame that was not sent, and
\* the card takes none that was not taken.
LEMMA TypedNext == Typed /\ [Next]_vars => Typed'
<1> SUFFICES ASSUME Typed, [Next]_vars PROVE Typed'
  OBVIOUS
<1> USE DEF Typed, net, totals
<1>1. ASSUME NEW c \in Conns, HandlerStep(c) PROVE Typed'
  <2>1. handler' \in [Conns -> HandlerPC]
    BY <1>1, HandlerMoves
  <2>2. CASE Accept(c) \/ Begin(c) \/ Loop(c) \/ ReceiveEnds(c)
    BY <2>1, <2>2 DEF Accept, Begin, Loop, ReceiveEnds
  <2>6. CASE AddBytesWritten(c) \/ Finally(c) \/ Join(c)
    BY <2>1, <2>6 DEF AddBytesWritten, Finally, Join
  <2>7. CASE Uncount(c) \/ CloseRequest(c)
    BY <2>1, <2>7 DEF Uncount, CloseRequest
  <2>3. CASE Spawn(c)
    BY <2>1, <2>3 DEF Spawn, PollerTo, PollerPC
  <2>4. CASE Receive(c)
    BY <2>1, <2>4 DEF Receive, FrameWaits
  <2>5. CASE WriteFrame(c)
    <3>1. applied' = applied \/ applied' = [applied EXCEPT ![c] = taken[c]]
      BY <2>5 DEF WriteFrame
    <3>2. UNCHANGED <<client, sent, taken, outbox, sock, poller, stop, works>>
      BY <2>5 DEF WriteFrame
    <3>3. applied' \in [Conns -> Nat]
      BY <3>1
    <3>4. ASSUME NEW b \in Conns PROVE applied'[b] <= taken[b]
      <4>1. applied[b] <= taken[b] /\ taken[b] <= taken[b]
        OBVIOUS
      <4>2. applied'[b] = applied[b] \/ (b = c /\ applied'[b] = taken[b])
        BY <3>1
      <4> HIDE DEF Typed
      <4> QED BY <4>1, <4>2
    <3> QED BY <2>1, <3>2, <3>3, <3>4
  <2> QED BY <1>1, <2>2, <2>3, <2>4, <2>5, <2>6, <2>7 DEF HandlerStep
<1>2. ASSUME NEW c \in Conns, PollerStep(c) PROVE Typed'
  <2> USE DEF PollerTo, PollerPC
  <2>1. CASE Push(c)
    BY <2>1 DEF Push
  <2>2. CASE Wake(c) \/ ReadInput(c) \/ PushFails(c) \/ AddBytesRead(c)
    BY <2>2 DEF Wake, ReadInput, PushFails, AddBytesRead
  <2> QED BY <1>2, <2>1, <2>2 DEF PollerStep
<1>3. ASSUME NEW c \in Conns, ClientStep(c) PROVE Typed'
  <2>1. CASE SendFrame(c)
    <3>1. PICK f \in {"good", "bad"} : sent' = [sent EXCEPT ![c] = Append(@, f)]
      BY <2>1 DEF SendFrame
    <3>2. sent[c] \in Seq({"good", "bad"}) /\ Len(sent[c]) \in Nat /\ Len(sent[c]) < MaxFrames
      BY <2>1 DEF SendFrame
    <3>3. sent' \in [Conns -> Seq({"good", "bad"})]
      BY <3>1, <3>2
    <3>4. Len(sent'[c]) = Len(sent[c]) + 1
      BY <3>1, <3>2
    <3>5. \A b \in Conns : b # c => sent'[b] = sent[b]
      BY <3>1
    <3>6. ASSUME NEW b \in Conns PROVE Len(sent'[b]) <= MaxFrames /\ taken[b] <= Len(sent'[b])
      <4>1. CASE b = c
        <5>1. taken[c] \in Nat /\ taken[c] <= Len(sent[c])
          OBVIOUS
        <5> HIDE DEF Typed
        <5> QED BY <3>2, <3>4, <4>1, <5>1
      <4>2. CASE b # c
        BY <3>5, <4>2
      <4> QED BY <4>1, <4>2
    <3>7. UNCHANGED <<client, taken, applied, outbox, sock, handler, poller, stop, works>>
      BY <2>1 DEF SendFrame
    <3> QED BY <3>3, <3>6, <3>7
  <2>2. CASE Connect(c) \/ Leave(c)
    BY <2>2 DEF Connect, Leave
  <2>3. CASE TakePush(c)
    <3>1. outbox' \in [Conns -> 0 .. Window]
      BY <2>3 DEF TakePush
    <3> QED BY <2>3, <3>1 DEF TakePush
  <2> QED BY <1>3, <2>1, <2>2, <2>3 DEF ClientStep
<1>4. ASSUME NEW c \in Conns, TimeOut(c) PROVE Typed'
  BY <1>4 DEF TimeOut
<1>5. CASE BackendChanges \/ UNCHANGED vars
  BY <1>5 DEF BackendChanges, vars
<1> QED BY <1>1, <1>2, <1>3, <1>4, <1>5 DEF Next

-----------------------------------------------------------------------------
(* What the two threads of a connection know of each other                  *)

\* A connection has no poller before its handler starts one.
PollerStarts ==
  \A c \in Conns : handler[c] \in {"none", "begin", "spawn"} => poller[c] = "none"

\* A handler that is past its finally block has set the stop event.
Stopped ==
  \A c \in Conns : handler[c] \in {"join", "uncount", "close", "done"} => stop[c]

Threaded == PollerStarts /\ Stopped

LEMMA ThreadedInit == Init => Threaded
BY DEF Init, Threaded, PollerStarts, Stopped

\* Only a handler that spawns goes from a place without a poller to one with
\* one, only one that has set the event goes to join().
LEMMA ThreadedNext == Typed /\ Threaded /\ [Next]_vars => Threaded'
<1> SUFFICES ASSUME Typed, Threaded, [Next]_vars PROVE Threaded'
  OBVIOUS
<1>0. /\ handler \in [Conns -> HandlerPC] /\ poller \in [Conns -> PollerPC]
      /\ stop \in [Conns -> BOOLEAN]
  BY DEF Typed
<1> USE DEF Threaded, PollerStarts, Stopped, HandlerTo, HandlerAt, PollerTo, PollerAt
<1>1. ASSUME NEW c \in Conns, HandlerStep(c) PROVE Threaded'
  <2>1. CASE Accept(c) \/ Begin(c) \/ Spawn(c) \/ Loop(c)
    BY <1>0, <2>1 DEF Accept, Begin, Spawn, Loop
  <2>2. CASE Receive(c) \/ ReceiveEnds(c)
    BY <1>0, <2>2 DEF Receive, ReceiveEnds, AfterBadFrame, AfterEnd
  <2>3. CASE WriteFrame(c) \/ AddBytesWritten(c)
    BY <1>0, <2>3 DEF WriteFrame, AddBytesWritten, AfterRefusal
  <2>4. CASE Finally(c) \/ Join(c) \/ Uncount(c) \/ CloseRequest(c)
    BY <1>0, <2>4 DEF Finally, Join, Uncount, CloseRequest
  <2> QED BY <1>1, <2>1, <2>2, <2>3, <2>4 DEF HandlerStep
<1>2. ASSUME NEW c \in Conns, PollerStep(c) PROVE Threaded'
  BY <1>0, <1>2 DEF PollerStep, Wake, ReadInput, Push, PushFails, AddBytesRead
<1>3. ASSUME NEW c \in Conns, ClientStep(c) \/ TimeOut(c) PROVE Threaded'
  BY <1>3 DEF ClientStep, Connect, SendFrame, TakePush, Leave, TimeOut
<1>4. CASE BackendChanges \/ UNCHANGED vars
  BY <1>4 DEF BackendChanges, vars
<1> QED BY <1>1, <1>2, <1>3, <1>4 DEF Next

-----------------------------------------------------------------------------
(* The counters                                                             *)

Handled == Count(handler, Counted)
Written == {"addWritten"}
Uncounted == Count(handler, Written)
Pushed == {"addRead"}
Unread == Count(poller, Pushed)

\* Each counter is the number of threads at the places it stands for.
Counts == connections = Handled /\ dueWritten = Uncounted /\ dueRead = Unread

LEMMA CountsInit == Init => Counts
<1> SUFFICES ASSUME Init PROVE Counts
  OBVIOUS
<1>1. /\ {c \in Conns : handler[c] \in Counted} = {}
      /\ {c \in Conns : handler[c] \in Written} = {}
      /\ {c \in Conns : poller[c] \in Pushed} = {}
  BY DEF Init, Counted, Written, Pushed
<1>2. Cardinality({}) = 0
  BY FS_EmptySet
<1> QED BY <1>1, <1>2 DEF Init, Counts, Count, Handled, Uncounted, Unread, Written, Pushed

\* A connection is counted from its begin to its end, a frame from the call
\* that returned to the update of the counter, whatever the others do.
LEMMA CountsNext == Typed /\ PollerStarts /\ Counts /\ [Next]_vars => Counts'
<1> SUFFICES ASSUME Typed, PollerStarts, Counts, [Next]_vars PROVE Counts'
  OBVIOUS
<1>0. /\ handler \in [Conns -> HandlerPC] /\ poller \in [Conns -> PollerPC]
      /\ Handled \in Nat /\ Uncounted \in Nat /\ Unread \in Nat
  BY CountType, FS_CardinalityType DEF Typed, Handled, Uncounted, Unread
<1>h. ASSUME NEW c \in Conns, \E label \in HandlerPC : handler' = [handler EXCEPT ![c] = label]
      PROVE  /\ Handled' = Handled + (IF handler'[c] \in Counted THEN 1 ELSE 0)
                                   - (IF handler[c] \in Counted THEN 1 ELSE 0)
             /\ Uncounted' = Uncounted + (IF handler'[c] = "addWritten" THEN 1 ELSE 0)
                                       - (IF handler[c] = "addWritten" THEN 1 ELSE 0)
  <2>1. Handled' = Count(handler', Counted) /\ Uncounted' = Count(handler', Written)
    BY DEF Handled, Uncounted, Count, Counted, Written
  <2>2. OnlyMoves(handler, handler', c)
    BY <1>0, <1>h DEF OnlyMoves
  <2>3. CountsOne(handler, handler', c, Counted) /\ CountsOne(handler, handler', c, Written)
    BY <2>2, CountMoves
  <2>4. \A label : label \in Written <=> label = "addWritten"
    BY DEF Written
  <2> QED BY <2>1, <2>3, <2>4 DEF Handled, Uncounted, CountsOne
<1>p. ASSUME NEW c \in Conns, OnlyMoves(poller, poller', c)
      PROVE  Unread' = Unread + (IF poller'[c] = "addRead" THEN 1 ELSE 0)
                              - (IF poller[c] = "addRead" THEN 1 ELSE 0)
  <2>1. Unread' = Count(poller', Pushed)
    BY DEF Unread, Count, Pushed
  <2>2. CountsOne(poller, poller', c, Pushed)
    BY <1>p, CountMoves
  <2>3. \A label : label \in Pushed <=> label = "addRead"
    BY DEF Pushed
  <2> QED BY <2>1, <2>2, <2>3 DEF Unread, CountsOne
<1>s. /\ UNCHANGED handler => UNCHANGED <<Handled, Uncounted>>
      /\ UNCHANGED poller => UNCHANGED Unread
  BY DEF Count, Counted, Handled, Uncounted, Unread, Written, Pushed
<1> USE DEF HandlerTo, HandlerAt, PollerTo, PollerAt, totals, net, Counts, Counted
<1>1. ASSUME NEW c \in Conns, HandlerStep(c) PROVE Counts'
  <2>0. handler' \in [Conns -> HandlerPC] /\ \E label \in HandlerPC : handler' = [handler EXCEPT ![c] = label]
    BY <1>0, <1>1, HandlerMoves
  <2>h. /\ Handled' = Handled + (IF handler'[c] \in Counted THEN 1 ELSE 0)
                              - (IF handler[c] \in Counted THEN 1 ELSE 0)
        /\ Uncounted' = Uncounted + (IF handler'[c] = "addWritten" THEN 1 ELSE 0)
                                  - (IF handler[c] = "addWritten" THEN 1 ELSE 0)
    BY <1>h, <2>0
  <2>1. CASE Accept(c)
    BY <1>0, <1>s, <2>h, <2>1 DEF Accept
  <2>2. CASE Begin(c)
    BY <1>0, <1>s, <2>h, <2>2 DEF Begin
  <2>3. CASE Spawn(c)
    <3>1. poller' = [poller EXCEPT ![c] = "wait"] /\ poller[c] = "none"
      BY <2>3 DEF Spawn, PollerStarts
    <3>2. OnlyMoves(poller, poller', c)
      BY <1>0, <3>1 DEF OnlyMoves
    <3>3. UNCHANGED Unread
      BY <1>0, <1>p, <3>1, <3>2
    <3> QED BY <1>0, <2>h, <2>3, <3>3 DEF Spawn
  <2>4. CASE Loop(c)
    BY <1>0, <1>s, <2>h, <2>4 DEF Loop
  <2>5. CASE Receive(c)
    BY <1>0, <1>s, <2>h, <2>5 DEF Receive, AfterBadFrame
  <2>6. CASE ReceiveEnds(c)
    BY <1>0, <1>s, <2>h, <2>6 DEF ReceiveEnds, AfterEnd
  <2>7. CASE WriteFrame(c)
    BY <1>0, <1>s, <2>h, <2>7 DEF WriteFrame, AfterRefusal
  <2>8. CASE AddBytesWritten(c)
    BY <1>0, <1>s, <2>h, <2>8 DEF AddBytesWritten
  <2>9. CASE Finally(c)
    BY <1>0, <1>s, <2>h, <2>9 DEF Finally
  <2>10. CASE Join(c)
    BY <1>0, <1>s, <2>h, <2>10 DEF Join
  <2>11. CASE Uncount(c)
    BY <1>0, <1>s, <2>h, <2>11 DEF Uncount
  <2>12. CASE CloseRequest(c)
    BY <1>0, <1>s, <2>h, <2>12 DEF CloseRequest
  <2> QED
    BY <1>1, <2>1, <2>2, <2>3, <2>4, <2>5, <2>6, <2>7, <2>8, <2>9, <2>10, <2>11, <2>12
    DEF HandlerStep
<1>2. ASSUME NEW c \in Conns, PollerStep(c) PROVE Counts'
  <2>p. OnlyMoves(poller, poller', c)
    BY <1>0, <1>2 DEF OnlyMoves, PollerStep, Wake, ReadInput, Push, PushFails, AddBytesRead
  <2>1. CASE Wake(c)
    BY <1>0, <1>p, <1>s, <2>p, <2>1 DEF Wake
  <2>2. CASE ReadInput(c)
    BY <1>0, <1>p, <1>s, <2>p, <2>2 DEF ReadInput
  <2>3. CASE Push(c)
    BY <1>0, <1>p, <1>s, <2>p, <2>3 DEF Push
  <2>4. CASE PushFails(c)
    BY <1>0, <1>p, <1>s, <2>p, <2>4 DEF PushFails
  <2>5. CASE AddBytesRead(c)
    BY <1>0, <1>p, <1>s, <2>p, <2>5 DEF AddBytesRead
  <2> QED BY <1>2, <2>1, <2>2, <2>3, <2>4, <2>5 DEF PollerStep
<1>3. ASSUME NEW c \in Conns, ClientStep(c) \/ TimeOut(c) PROVE Counts'
  BY <1>3, <1>s DEF ClientStep, Connect, SendFrame, TakePush, Leave, TimeOut
<1>4. CASE BackendChanges \/ UNCHANGED vars
  BY <1>4, <1>s DEF BackendChanges, vars
<1> QED BY <1>1, <1>2, <1>3, <1>4 DEF Next

-----------------------------------------------------------------------------
(* The card and the stream                                                  *)

Good(c, n) == \A i \in 1 .. n : sent[c][i] = "good"

\* What the card took was in step, and a handler that may still take a frame,
\* or pass one on, has met none that was not.
InStep ==
  \A c \in Conns :
    /\ Good(c, applied[c])
    /\ handler[c] \in {"none", "begin", "spawn", "loop", "recv", "write", "addWritten"}
         => Good(c, taken[c])

LEMMA InStepInit == Init => InStep
BY DEF Init, InStep, Good

\* A malformed frame takes its handler to the finally block, from where none
\* comes back to read or to write.
LEMMA InStepNext == Typed /\ InStep /\ [Next]_vars => InStep'
<1> SUFFICES ASSUME Typed, InStep, [Next]_vars PROVE InStep'
  OBVIOUS
<1>0. /\ handler \in [Conns -> HandlerPC]
      /\ taken \in [Conns -> Nat] /\ applied \in [Conns -> Nat]
  BY DEF Typed
<1> USE DEF InStep, Good, HandlerTo, HandlerAt, net, totals
<1>1. ASSUME NEW c \in Conns, HandlerStep(c) PROVE InStep'
  <2>1. CASE Accept(c) \/ Begin(c) \/ Spawn(c) \/ Loop(c)
    BY <1>0, <2>1 DEF Accept, Begin, Spawn, Loop
  <2>2. CASE Receive(c)
    <3>1. /\ taken' = [taken EXCEPT ![c] = taken[c] + 1]
          /\ UNCHANGED <<sent, applied>>
          /\ handler' = [handler EXCEPT ![c] =
               IF sent[c][taken[c] + 1] = "good" THEN "write" ELSE "finally"]
          /\ handler[c] = "recv"
      BY <2>2 DEF Receive, AfterBadFrame
    <3>2. sent[c][taken[c] + 1] = "good" => Good(c, taken[c] + 1)
      BY <1>0, <3>1
    <3>3. ASSUME NEW b \in Conns, handler'[b] \in {"none", "begin", "spawn", "loop", "recv",
                                                   "write", "addWritten"}
          PROVE  Good(b, taken[b])'
      <4>1. CASE b = c
        BY <1>0, <3>1, <3>2, <3>3, <4>1
      <4>2. CASE b # c
        BY <1>0, <3>1, <3>3, <4>2
      <4> QED BY <4>1, <4>2
    <3> QED BY <3>1, <3>3
  <2>3. CASE ReceiveEnds(c) \/ AddBytesWritten(c)
    BY <1>0, <2>3 DEF ReceiveEnds, AfterEnd, AddBytesWritten
  <2>4. CASE WriteFrame(c)
    BY <1>0, <2>4 DEF WriteFrame, AfterRefusal
  <2>5. CASE Finally(c) \/ Join(c) \/ Uncount(c) \/ CloseRequest(c)
    BY <1>0, <2>5 DEF Finally, Join, Uncount, CloseRequest
  <2> QED BY <1>1, <2>1, <2>2, <2>3, <2>4, <2>5 DEF HandlerStep
<1>2. ASSUME NEW c \in Conns, SendFrame(c) PROVE InStep'
  <2>1. PICK f \in {"good", "bad"} : sent' = [sent EXCEPT ![c] = Append(@, f)]
    BY <1>2 DEF SendFrame
  <2>2. sent[c] \in Seq({"good", "bad"}) /\ sent \in [Conns -> Seq({"good", "bad"})]
    BY DEF Typed
  <2>3. ASSUME NEW b \in Conns, NEW i \in 1 .. Len(sent[b]) PROVE sent'[b][i] = sent[b][i]
    BY <2>1, <2>2
  <2>4. \A b \in Conns : taken[b] \in 0 .. Len(sent[b]) /\ applied[b] \in 0 .. Len(sent[b])
    <3>1. \A b \in Conns : Len(sent[b]) \in Nat
      BY <2>2
    <3> QED BY <1>0, <3>1 DEF Typed
  <2>5. UNCHANGED <<taken, applied, handler>>
    BY <1>2 DEF SendFrame
  <2> QED BY <2>3, <2>4, <2>5
<1>3. ASSUME NEW c \in Conns, PollerStep(c) PROVE InStep'
  BY <1>3 DEF PollerStep, Wake, ReadInput, Push, PushFails, AddBytesRead
<1>4. ASSUME NEW c \in Conns, Connect(c) \/ TakePush(c) \/ Leave(c) \/ TimeOut(c) PROVE InStep'
  BY <1>4 DEF Connect, TakePush, Leave, TimeOut
<1>5. CASE BackendChanges \/ UNCHANGED vars
  BY <1>5 DEF BackendChanges, vars
<1> QED BY <1>1, <1>2, <1>3, <1>4, <1>5 DEF Next, ClientStep

-----------------------------------------------------------------------------
(* Theorems                                                                 *)

StreamInv == Typed /\ Threaded /\ Counts /\ InStep

LEMMA StreamInvariant == Spec => []StreamInv
<1>1. Init => StreamInv
  BY TypedInit, ThreadedInit, CountsInit, InStepInit DEF StreamInv
<1>2. StreamInv /\ [Next]_vars => StreamInv'
  BY TypedNext, ThreadedNext, CountsNext, InStepNext DEF StreamInv, Threaded
<1> QED BY <1>1, <1>2, PTL DEF Spec

\* The client count the window shows is the number of connections being
\* handled, for any number of them that begin and end at once.
THEOREM StreamCountIsHandlers == Spec => []CountIsHandlers
<1>1. StreamInv => CountIsHandlers
  BY DEF StreamInv, Counts, Handled, Count, CountIsHandlers
<1> QED BY <1>1, StreamInvariant, PTL

\* No update of the shared byte counters is lost, made twice, or made for a
\* call that failed, whichever threads of whichever connections make them.
THEOREM StreamCountersExact == Spec => []CountersExact
<1>1. {c \in Conns : handler[c] \in {"addWritten"}} = {c \in Conns : handler[c] = "addWritten"}
  OBVIOUS
<1>2. {c \in Conns : poller[c] \in {"addRead"}} = {c \in Conns : poller[c] = "addRead"}
  OBVIOUS
<1>3. StreamInv => CountersExact
  BY <1>1, <1>2 DEF StreamInv, Counts, Uncounted, Unread, Written, Pushed, Count,
     CountersExact, HandlerAt, PollerAt
<1> QED BY <1>3, StreamInvariant, PTL

\* Types, with the ranges of the counters: none is ever negative, and none is
\* further behind than there are connections.
THEOREM StreamTypeCorrect == Spec => []TypeOK
<1>1. StreamInv => /\ connections \in 0 .. Cardinality(Conns)
                   /\ dueWritten \in 0 .. Cardinality(Conns)
                   /\ dueRead \in 0 .. Cardinality(Conns)
  BY CountType DEF StreamInv, Counts, Handled, Uncounted, Unread
<1>2. StreamInv => TypeOK
  BY <1>1 DEF StreamInv, Typed, TypeOK
<1> QED BY <1>2, StreamInvariant, PTL

\* Nothing that follows a malformed prefix on its connection is ever written
\* to the card.
THEOREM StreamDesyncStopsWrites == Spec => []DesyncStopsWrites
<1>1. StreamInv => DesyncStopsWrites
  BY DEF StreamInv, InStep, Good, DesyncStopsWrites
<1> QED BY <1>1, StreamInvariant, PTL

\* A poller that outlives its handler begins no other poll.
THEOREM StreamNoPollAfterHandler == Spec => NoPollAfterHandler
<1>1. StreamInv /\ [Next]_vars =>
        [\A c \in Conns : HandlerAt(c, "done") /\ PollerAt(c, "wait") => poller'[c] # "read"]_vars
  <2> SUFFICES ASSUME StreamInv, Next, NEW c \in Conns, HandlerAt(c, "done"), PollerAt(c, "wait")
               PROVE  poller'[c] # "read"
    OBVIOUS
  <2>0. /\ poller \in [Conns -> PollerPC] /\ poller[c] = "wait" /\ handler[c] = "done" /\ stop[c]
    BY DEF StreamInv, Typed, Threaded, Stopped, HandlerAt, PollerAt
  <2> USE DEF HandlerAt, PollerAt, PollerTo, net, totals
  <2>1. ASSUME NEW b \in Conns, PollerStep(b) PROVE poller'[c] # "read"
    BY <2>0, <2>1 DEF PollerStep, Wake, ReadInput, Push, PushFails, AddBytesRead
  <2>2. ASSUME NEW b \in Conns, HandlerStep(b) PROVE poller'[c] # "read"
    BY <2>0, <2>2 DEF HandlerStep, Accept, Begin, Spawn, Loop, Receive, ReceiveEnds, WriteFrame,
       AddBytesWritten, Finally, Join, Uncount, CloseRequest
  <2>3. ASSUME NEW b \in Conns, ClientStep(b) \/ TimeOut(b) PROVE poller'[c] # "read"
    BY <2>0, <2>3 DEF ClientStep, Connect, SendFrame, TakePush, Leave, TimeOut
  <2>4. CASE BackendChanges
    BY <2>0, <2>4 DEF BackendChanges
  <2> QED BY <2>1, <2>2, <2>3, <2>4 DEF Next
<1> QED BY <1>1, StreamInvariant, PTL DEF Spec, NoPollAfterHandler
=============================================================================
