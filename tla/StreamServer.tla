----------------------------- MODULE StreamServer -----------------------------
(* The streaming mode of the TCP port (gateway/stream_server.py).  Every     *)
(* connection has two threads: the handler reads write frames and passes     *)
(* them to the card, the poller it starts reads the card and pushes to the   *)
(* client.  They share the socket and a stop event; all connections share    *)
(* the server's counters.  Each lock-protected counter update is one step,   *)
(* and so is each call of the socket, of the backend or of the event.        *)
(* The two byte counters only ever grow: what is kept of them is how far     *)
(* each is behind the frames it counts.                                      *)
EXTENDS Integers, Sequences, FiniteSets

CONSTANTS
  Conns,      \* connections, each used once
  MaxFrames,  \* write frames a client sends (a bound)
  Window      \* pushes that fit in the socket's buffers

ASSUME ConnsAssumption == IsFiniteSet(Conns)
ASSUME MaxFramesAssumption == MaxFrames \in Nat
ASSUME WindowAssumption == Window \in Nat \ {0}

VARIABLES
  client,       \* "away", "here", "left" (closed), "vanished" (cable pulled)
  sent,         \* the frames it has sent: "good", or "bad" (a FramingError)
  taken,        \* how many of them the handler has received
  applied,      \* the last one that reached the card
  outbox,       \* pushes the client has not received yet
  sock,         \* the server's end: "open", "dead" (timed out) or "closed"
  handler,      \* where _Handler.handle() is
  poller,       \* where poll_loop() is
  stop,         \* the connection's stop event is set
  connections,  \* _connection_count
  dueWritten,   \* frames io_write() took, less those in _bytes_written
  dueRead,      \* pushes the sockets took, less those in _bytes_read
  works         \* the backend's calls succeed

net == <<client, sent, outbox>>
totals == <<connections, dueWritten, dueRead>>
vars == <<net, taken, sock, handler, poller, stop, totals, applied, works>>

Init ==
  /\ client = [c \in Conns |-> "away"]
  /\ sent = [c \in Conns |-> <<>>]
  /\ taken = [c \in Conns |-> 0]
  /\ applied = [c \in Conns |-> 0]
  /\ outbox = [c \in Conns |-> 0]
  /\ sock = [c \in Conns |-> "closed"]
  /\ handler = [c \in Conns |-> "none"]
  /\ poller = [c \in Conns |-> "none"]
  /\ stop = [c \in Conns |-> FALSE]
  /\ connections = 0
  /\ dueWritten = 0
  /\ dueRead = 0
  /\ works \in BOOLEAN

HandlerAt(c, label) == handler[c] = label
HandlerTo(c, label) == handler' = [handler EXCEPT ![c] = label]
PollerAt(c, label) == poller[c] = label
PollerTo(c, label) == poller' = [poller EXCEPT ![c] = label]

-----------------------------------------------------------------------------
(* The handler: _Handler.handle()                                           *)

Accept(c) ==
  /\ client[c] # "away"
  /\ HandlerAt(c, "none")
  /\ sock' = [sock EXCEPT ![c] = "open"]
  /\ HandlerTo(c, "begin")
  /\ UNCHANGED <<net, taken, poller, stop, totals, applied, works>>

Begin(c) ==
  /\ HandlerAt(c, "begin")
  /\ connections' = connections + 1
  /\ HandlerTo(c, "spawn")
  /\ UNCHANGED <<net, taken, sock, poller, stop, dueWritten, dueRead, applied, works>>

\* poller.start(); the poller begins with its check of the stop event.
Spawn(c) ==
  /\ HandlerAt(c, "spawn")
  /\ PollerTo(c, "wait")
  /\ HandlerTo(c, "loop")
  /\ UNCHANGED <<net, taken, sock, stop, totals, applied, works>>

Loop(c) ==
  /\ HandlerAt(c, "loop")
  /\ HandlerTo(c, IF stop[c] THEN "finally" ELSE "recv")
  /\ UNCHANGED <<net, taken, sock, poller, stop, totals, applied, works>>

\* Mutants: a lock on the socket keeps the two directions from running at
\* once; the next frame is looked for after a bad one; a bad frame leaves
\* without the finally block; the end of the stream is not seen as one.
FrameWaits_Locked(c) == taken[c] < Len(sent[c]) /\ poller[c] # "send"
AfterBadFrame_Resync == "loop"
AfterBadFrame_Return == "close"
AfterEnd_Ignored == "loop"

FrameWaits(c) == taken[c] < Len(sent[c])
AfterBadFrame == "finally"   \* FramingError: log, break
AfterEnd == "finally"        \* ConnectionError: break

Receive(c) ==
  /\ HandlerAt(c, "recv")
  /\ FrameWaits(c)
  /\ taken' = [taken EXCEPT ![c] = @ + 1]
  /\ HandlerTo(c, IF sent[c][taken[c] + 1] = "good" THEN "write" ELSE AfterBadFrame)
  /\ UNCHANGED <<net, sock, poller, stop, totals, applied, works>>

\* The client closed (what it sent last may be lost), or the socket is dead.
ReceiveEnds(c) ==
  /\ HandlerAt(c, "recv")
  /\ client[c] = "left" \/ sock[c] = "dead"
  /\ HandlerTo(c, AfterEnd)
  /\ UNCHANGED <<net, taken, sock, poller, stop, totals, applied, works>>

\* Mutant: what io_write() refused is counted too.
AfterRefusal_Counted == "addWritten"

AfterRefusal == "loop"

\* backend.io_write(): its exception is logged and the frame is dropped, which
\* may have reached the card nevertheless.
WriteFrame(c) ==
  /\ HandlerAt(c, "write")
  /\ IF works
     THEN /\ applied' = [applied EXCEPT ![c] = taken[c]]
          /\ dueWritten' = dueWritten + 1
          /\ HandlerTo(c, "addWritten")
     ELSE /\ applied' \in {applied, [applied EXCEPT ![c] = taken[c]]}
          /\ HandlerTo(c, AfterRefusal)
          /\ UNCHANGED dueWritten
  /\ UNCHANGED <<net, taken, sock, poller, stop, connections, dueRead, works>>

AddBytesWritten(c) ==
  /\ HandlerAt(c, "addWritten")
  /\ dueWritten' = dueWritten - 1
  /\ HandlerTo(c, "loop")
  /\ UNCHANGED <<net, taken, sock, poller, stop, connections, dueRead, applied, works>>

\* Mutant: the handler leaves the event alone.
Finally_NoStop(c) ==
  /\ HandlerAt(c, "finally")
  /\ HandlerTo(c, "join")
  /\ UNCHANGED <<net, taken, sock, poller, stop, totals, applied, works>>

\* Mutant: the connection is taken off the count here and again below.
Finally_Uncounts(c) ==
  /\ HandlerAt(c, "finally")
  /\ stop' = [stop EXCEPT ![c] = TRUE]
  /\ connections' = connections - 1
  /\ HandlerTo(c, "join")
  /\ UNCHANGED <<net, taken, sock, poller, dueWritten, dueRead, applied, works>>

\* finally: stop.set()
Finally(c) ==
  /\ HandlerAt(c, "finally")
  /\ stop' = [stop EXCEPT ![c] = TRUE]
  /\ HandlerTo(c, "join")
  /\ UNCHANGED <<net, taken, sock, poller, totals, applied, works>>

\* poller.join(timeout=1.0): gives up on a poller that is held in a call.
Join(c) ==
  /\ HandlerAt(c, "join")
  /\ poller[c] \in {"done", "read", "send"}
  /\ HandlerTo(c, "uncount")
  /\ UNCHANGED <<net, taken, sock, poller, stop, totals, applied, works>>

Uncount(c) ==
  /\ HandlerAt(c, "uncount")
  /\ connections' = connections - 1
  /\ HandlerTo(c, "close")
  /\ UNCHANGED <<net, taken, sock, poller, stop, dueWritten, dueRead, applied, works>>

\* socketserver closes the request when handle() is through.
CloseRequest(c) ==
  /\ HandlerAt(c, "close")
  /\ sock' = [sock EXCEPT ![c] = "closed"]
  /\ HandlerTo(c, "done")
  /\ UNCHANGED <<net, taken, poller, stop, totals, applied, works>>

HandlerStep(c) ==
  \/ Accept(c) \/ Begin(c) \/ Spawn(c) \/ Loop(c) \/ Receive(c) \/ ReceiveEnds(c)
  \/ WriteFrame(c) \/ AddBytesWritten(c) \/ Finally(c) \/ Join(c) \/ Uncount(c)
  \/ CloseRequest(c)

-----------------------------------------------------------------------------
(* The poller: poll_loop()                                                  *)

\* stop.wait(interval), then while not stop.is_set()
Wake(c) ==
  /\ PollerAt(c, "wait")
  /\ PollerTo(c, IF stop[c] THEN "done" ELSE "read")
  /\ UNCHANGED <<net, taken, sock, handler, stop, totals, applied, works>>

\* backend.io_read(): its exception is logged and this push is left out.
ReadInput(c) ==
  /\ PollerAt(c, "read")
  /\ PollerTo(c, IF works THEN "send" ELSE "wait")
  /\ UNCHANGED <<net, taken, sock, handler, stop, totals, applied, works>>

\* self.request.sendall(): blocks while the buffers are full.
Push(c) ==
  /\ PollerAt(c, "send")
  /\ sock[c] = "open" /\ outbox[c] < Window
  /\ outbox' = [outbox EXCEPT ![c] = @ + 1]
  /\ dueRead' = dueRead + 1
  /\ PollerTo(c, "addRead")
  /\ UNCHANGED <<client, sent, taken, sock, handler, stop, connections, dueWritten, applied, works>>

\* OSError: the client reset the connection, or the socket is not open.
PushFails(c) ==
  /\ PollerAt(c, "send")
  /\ client[c] = "left" \/ sock[c] # "open"
  /\ stop' = [stop EXCEPT ![c] = TRUE]
  /\ PollerTo(c, "done")
  /\ UNCHANGED <<net, taken, sock, handler, totals, applied, works>>

AddBytesRead(c) ==
  /\ PollerAt(c, "addRead")
  /\ dueRead' = dueRead - 1
  /\ PollerTo(c, "wait")
  /\ UNCHANGED <<net, taken, sock, handler, stop, connections, dueWritten, applied, works>>

PollerStep(c) ==
  Wake(c) \/ ReadInput(c) \/ Push(c) \/ PushFails(c) \/ AddBytesRead(c)

-----------------------------------------------------------------------------
(* The clients, the network and the backend                                 *)

Connect(c) ==
  /\ client[c] = "away"
  /\ client' = [client EXCEPT ![c] = "here"]
  /\ UNCHANGED <<sent, taken, outbox, sock, handler, poller, stop, totals, applied, works>>

SendFrame(c) ==
  /\ client[c] = "here"
  /\ Len(sent[c]) < MaxFrames
  /\ \E f \in {"good", "bad"} : sent' = [sent EXCEPT ![c] = Append(@, f)]
  /\ UNCHANGED <<client, taken, outbox, sock, handler, poller, stop, totals, applied, works>>

TakePush(c) ==
  /\ client[c] = "here" /\ outbox[c] > 0
  /\ outbox' = [outbox EXCEPT ![c] = @ - 1]
  /\ UNCHANGED <<client, sent, taken, sock, handler, poller, stop, totals, applied, works>>

Leave(c) ==
  /\ client[c] = "here"
  /\ \E how \in {"left", "vanished"} : client' = [client EXCEPT ![c] = how]
  /\ UNCHANGED <<sent, taken, outbox, sock, handler, poller, stop, totals, applied, works>>

\* TCP gives up on pushes that nobody acknowledges.
TimeOut(c) ==
  /\ client[c] = "vanished" /\ outbox[c] > 0 /\ sock[c] = "open"
  /\ sock' = [sock EXCEPT ![c] = "dead"]
  /\ UNCHANGED <<net, taken, handler, poller, stop, totals, applied, works>>

BackendChanges ==
  /\ works' = ~works
  /\ UNCHANGED <<net, taken, sock, handler, poller, stop, totals, applied>>

-----------------------------------------------------------------------------
ClientStep(c) == Connect(c) \/ SendFrame(c) \/ TakePush(c) \/ Leave(c)

Next ==
  \/ \E c \in Conns : HandlerStep(c) \/ PollerStep(c) \/ ClientStep(c) \/ TimeOut(c)
  \/ BackendChanges

Spec == Init /\ [][Next]_vars

\* Both threads of every connection are scheduled, calls of the backend
\* return, poll intervals end and TCP times out.  Clients owe nothing.
Fairness ==
  \A c \in Conns :
    WF_vars(HandlerStep(c)) /\ WF_vars(PollerStep(c)) /\ WF_vars(TimeOut(c))

FairSpec == Spec /\ Fairness

-----------------------------------------------------------------------------
(* Properties                                                               *)

Counted == {"spawn", "loop", "recv", "write", "addWritten", "finally", "join", "uncount"}
HandlerPC == Counted \cup {"none", "begin", "close", "done"}
PollerPC == {"none", "wait", "read", "send", "addRead", "done"}

TypeOK ==
  /\ client \in [Conns -> {"away", "here", "left", "vanished"}]
  /\ sent \in [Conns -> Seq({"good", "bad"})]
  /\ taken \in [Conns -> Nat]
  /\ applied \in [Conns -> Nat]
  /\ \A c \in Conns : Len(sent[c]) <= MaxFrames /\ taken[c] <= Len(sent[c])
  /\ \A c \in Conns : applied[c] <= taken[c]
  /\ outbox \in [Conns -> 0 .. Window]
  /\ sock \in [Conns -> {"open", "dead", "closed"}]
  /\ handler \in [Conns -> HandlerPC]
  /\ poller \in [Conns -> PollerPC]
  /\ stop \in [Conns -> BOOLEAN]
  /\ connections \in 0 .. Cardinality(Conns)
  /\ {dueWritten, dueRead} \subseteq 0 .. Cardinality(Conns)
  /\ works \in BOOLEAN

\* The client count the window shows is the number of connections being
\* handled, however each of the others came to its end.
CountIsHandlers ==
  connections = Cardinality({c \in Conns : handler[c] \in Counted})

\* The byte counters behind the throughput display are exact: each lags what
\* io_write() took, or what the sockets took, by the calls that have returned
\* and are yet to be counted, and by nothing else.
CountersExact ==
  /\ dueWritten = Cardinality({c \in Conns : HandlerAt(c, "addWritten")})
  /\ dueRead = Cardinality({c \in Conns : PollerAt(c, "addRead")})

\* Past a malformed prefix the stream is out of step: nothing that follows it
\* on its connection is ever written to the card.
DesyncStopsWrites ==
  \A c \in Conns : \A i \in 1 .. applied[c] : sent[c][i] = "good"

\* A poller may outlive its handler, when join() gives up on it, but only to
\* finish the poll it was in: it never begins another one.
NoPollAfterHandler ==
  [][\A c \in Conns :
       HandlerAt(c, "done") /\ PollerAt(c, "wait") => poller'[c] # "read"]_vars

Ended(c) == HandlerAt(c, "done") /\ PollerAt(c, "done")

\* A connection whose client went away comes to its end, both threads, when
\* the client closed it, and also when it vanished without a word, as long as
\* the card can be read: the pushes find out.
ConnectionsEnd ==
  \A c \in Conns :
    /\ client[c] = "left" ~> Ended(c)
    /\ <>[]works => (client[c] = "vanished" ~> Ended(c))

\* The two directions are independent: a client that does not read its pushes
\* still gets every frame taken, until its connection ends.
WritesFlow ==
  \A c \in Conns, i \in 1 .. MaxFrames :
    Len(sent[c]) >= i ~> taken[c] >= i \/ HandlerAt(c, "done")
=============================================================================
