---------------------------- MODULE FramedGateway ----------------------------
(* The gateway in its request/response mode: GatewayRunner.start() of        *)
(* gateway/server.py, the handler threads of tcp_server.py and               *)
(* udp_server.py, handle_frame() of dispatch.py and the TrafficLog they      *)
(* share.  Framing has the frames byte by byte.  The backend is what         *)
(* ProcessImage promises; CifxChannel keeps that promise.                    *)
(*                                                                           *)
(* A thread serves one TCP connection, request after request, or one UDP     *)
(* datagram.  A datagram the network loses never becomes a thread, one it    *)
(* duplicates becomes two.                                                   *)
EXTENDS CifxDriver, Sequences, FiniteSets

CONSTANTS
  Tcp,          \* TCP connections, each used once
  Udp,          \* datagrams that arrive, each with its thread
  Main,         \* the thread that starts the gateway
  Requests,     \* the requests clients send
  MaxRequests,  \* how many a connection sends (a bound)
  MaxEvents     \* max_events of the traffic log

Clients == Tcp \cup Udp
Threads == Clients \cup {Main}

Commands == {"READ_INPUT", "WRITE_OUTPUT", "READ_OUTPUT", "GET_STATUS",
             "SET_HOST_STATE", "WATCHDOG_TRIGGER", "RESET"}

\* form: "ok"; "malformed", decode_request() refuses it; or "desync", the
\* bytes do not have a frame where the TCP framing puts one.
AllRequests ==
  [command: Commands \cup {"UNKNOWN"}, form: {"ok", "malformed", "desync"},
   data: Values \cup Switches \cup {NoValue}]

ASSUME ThreadAssumption ==
  Tcp \cap Udp = {} /\ Main \notin Tcp \cup Udp /\ IsFiniteSet(Tcp)
ASSUME BoundAssumption == {MaxRequests, MaxEvents} \subseteq Nat \ {0}

\* A frame that decode_request() takes carries what its command writes.
ASSUME RequestAssumption ==
  /\ Requests \subseteq AllRequests
  /\ \A r \in Requests :
       r.form = "ok" =>
         /\ r.command = "WRITE_OUTPUT" => r.data \in Values
         /\ r.command = "SET_HOST_STATE" => r.data \in Switches

VARIABLES
  card, status, op, answer,  \* the backend (ProcessImage)
  peer,         \* the client: "away", "here", "stalled" (it stays but reads
                \* nothing, and the buffers are full), "left" or "vanished"
  sent,         \* the requests it sent
  received,     \* how many of them its thread has read
  replies,      \* the responses its thread handed to the socket
  handler,      \* where the thread is
  todo,         \* the backend calls still to make, for this request or to start
  reply,        \* the response as far as it is known
  connections,  \* _connection_count
  log,          \* TrafficLog._events
  disturbed,    \* a startup step failed, or the card restarted meanwhile
  cleared       \* per connection: received when the output was last zeroed

image == <<card, status, op, answer>>
wire == <<peer, sent, replies>>
work == <<received, handler, todo, reply>>
ghosts == <<disturbed, cleared>>
vars == <<image, wire, work, connections, log, ghosts>>

Image == INSTANCE ProcessImage

Response(s, r, d) == [status |-> s, command |-> r.command, data |-> d]
NoReply == [status |-> "NONE", command |-> "UNKNOWN", data |-> <<>>]

\* Mutant: the bus is left to whoever connects next.
StartupSteps_NoBus == <<Write("config", "off"), Write("host", "on")>>

\* set_config_lock(False), set_host_state(True), set_bus_state(True)
StartupSteps == <<Write("config", "off"), Write("host", "on"), Write("bus", "on")>>

Init ==
  /\ Image!Init
  /\ peer = [t \in Threads |-> "away"]
  /\ sent = [t \in Threads |-> <<>>]
  /\ received = [t \in Threads |-> 0]
  /\ replies = [t \in Threads |-> <<>>]
  /\ handler = [t \in Threads |-> IF t = Main THEN "call" ELSE "none"]
  /\ todo = [t \in Threads |-> IF t = Main THEN StartupSteps ELSE <<>>]
  /\ reply = [t \in Threads |-> NoReply]
  /\ connections = 0
  /\ log = <<>>
  /\ disturbed = FALSE
  /\ cleared = [t \in Tcp |-> 0]

At(t, label) == handler[t] = label
Goto(t, label) == handler' = [handler EXCEPT ![t] = label]

Serving == At(Main, "serving")

-----------------------------------------------------------------------------
(* GatewayRunner.start(), once open() has succeeded                         *)

AfterStep == IF Len(todo[Main]) > 1 THEN "call" ELSE "serving"

\* Mutant: a step that fails is fatal.
AfterFailedStep_Fatal == "end"

AfterFailedStep == AfterStep

\* A step's exception is logged, and the next one follows.
StepReturns ==
  /\ At(Main, "wait")
  /\ Image!Return(Main)
  /\ todo' = [todo EXCEPT ![Main] = Tail(@)]
  /\ Goto(Main, IF answer[Main].rc = OK THEN AfterStep ELSE AfterFailedStep)
  /\ disturbed' = (disturbed \/ answer[Main].rc # OK)
  /\ UNCHANGED <<wire, received, reply, connections, log, cleared>>

-----------------------------------------------------------------------------
(* dispatch.py                                                              *)

\* Mutant: the output image is read back with io_read().
CallsFor_InputImage(r) ==
  CASE r.command = "READ_INPUT"       -> <<Read("input")>>
    [] r.command = "WRITE_OUTPUT"     -> <<Write("output", r.data)>>
    [] r.command = "READ_OUTPUT"      -> <<Read("input")>>
    [] OTHER                          -> <<>>

\* The backend calls of _execute(); get_status() makes two.
CallsFor(r) ==
  CASE r.command = "READ_INPUT"       -> <<Read("input")>>
    [] r.command = "WRITE_OUTPUT"     -> <<Write("output", r.data)>>
    [] r.command = "READ_OUTPUT"      -> <<Read("output")>>
    [] r.command = "GET_STATUS"       -> <<Read("bus"), Read("host")>>
    [] r.command = "SET_HOST_STATE"   -> <<Write("host", r.data)>>
    [] r.command = "WATCHDOG_TRIGGER" -> <<Watchdog>>
    [] r.command = "RESET"            -> <<Reset>>
    [] OTHER                          -> <<>>

\* Mutant: a malformed frame is passed over.
AfterMalformed_Skipped == "recv"

\* What the frame is: out of step, refused by decode_request(), a command
\* that _execute() does not know, or one it runs.
Verdict(r) ==
  IF r.form = "desync" THEN "DESYNC"
  ELSE IF r.form = "malformed" THEN "MALFORMED_FRAME"
  ELSE IF CallsFor(r) = <<>> THEN "UNKNOWN_COMMAND"
  ELSE "OK"

AfterMalformed == "send"   \* handle_frame() answers it

AfterVerdict(v) ==
  CASE v = "DESYNC"          -> "end"
    [] v = "MALFORMED_FRAME" -> AfterMalformed
    [] v = "UNKNOWN_COMMAND" -> "send"
    [] OTHER                 -> "call"

Receive(t) ==
  /\ At(t, "recv")
  /\ received[t] < Len(sent[t])
  /\ LET r == sent[t][received[t] + 1]
         v == Verdict(r)
     IN /\ reply' = [reply EXCEPT ![t] = Response(v, r, <<>>)]
        /\ todo' = [todo EXCEPT ![t] = IF v = "OK" THEN CallsFor(r) ELSE <<>>]
        /\ Goto(t, AfterVerdict(v))
  /\ received' = [received EXCEPT ![t] = @ + 1]
  /\ UNCHANGED <<image, wire, connections, log, ghosts>>

Call(t) ==
  /\ At(t, "call")
  /\ Image!Invoke(t) /\ op'[t] = Head(todo[t])
  /\ Goto(t, "wait")
  /\ UNCHANGED <<wire, received, todo, reply, connections, log, ghosts>>

\* Where the step zeroes the output: what each connection had read by then.
NoteCleared ==
  cleared' = IF card'.output # card.output THEN [t \in Tcp |-> received[t]] ELSE cleared

BackendStep(t) ==
  /\ Image!Perform(t) \/ Image!Refuse(t)
  /\ IF op[t].kind = "write" THEN UNCHANGED cleared ELSE NoteCleared
  /\ UNCHANGED <<wire, work, connections, log, disturbed>>

\* Mutant: handle_frame() lets the backend's error through.
AfterError_Raised == "end"

AfterError == "send"   \* BACKEND_ERROR

\* The data a call adds to the response.
Data(a) == IF a.val = NoValue THEN <<>> ELSE <<a.val>>

CallReturns(t) ==
  /\ t # Main /\ At(t, "wait")
  /\ Image!Return(t)
  /\ IF answer[t].rc = OK
     THEN /\ reply' = [reply EXCEPT ![t].data = @ \o Data(answer[t])]
          /\ todo' = [todo EXCEPT ![t] = Tail(@)]
          /\ Goto(t, IF Len(todo[t]) > 1 THEN "call" ELSE "send")
     ELSE /\ reply' = [reply EXCEPT ![t] = Response("BACKEND_ERROR", reply[t], <<>>)]
          /\ todo' = [todo EXCEPT ![t] = <<>>]
          /\ Goto(t, AfterError)
  /\ UNCHANGED <<wire, received, connections, log, ghosts>>

-----------------------------------------------------------------------------
(* tcp_server.py and udp_server.py                                          *)

\* A connection, or a datagram's thread, begins.
Begin(t) ==
  /\ At(t, "none")
  /\ peer[t] # "away"
  /\ connections' = IF t \in Tcp THEN connections + 1 ELSE connections
  /\ Goto(t, "recv")
  /\ UNCHANGED <<image, wire, received, todo, reply, log, ghosts>>

\* sendall() blocks on a client that stays and reads nothing; sendto() never
\* does.
Blocked(t) == peer[t] = "stalled"

\* sendall() or sendto() takes the response.  When nobody is left to receive
\* it, TCP will give the connection up.
Respond(t) ==
  /\ At(t, "send") /\ ~Blocked(t)
  /\ replies' = [replies EXCEPT ![t] = Append(@, reply[t])]
  /\ peer' = [peer EXCEPT ![t] = IF @ = "vanished" THEN "left" ELSE @]
  /\ Goto(t, "record")
  /\ UNCHANGED <<image, sent, received, todo, reply, connections, log, ghosts>>

\* sendall() raises: the client has reset the connection, or TCP gave it up
\* with the buffers full.
RespondFails(t) ==
  /\ At(t, "send")
  /\ t \in Tcp /\ peer[t] \in {"left", "vanished"}
  /\ peer' = [peer EXCEPT ![t] = "left"]
  /\ Goto(t, "end")
  /\ UNCHANGED <<image, sent, replies, received, todo, reply, connections, log, ghosts>>

\* The exchange as TrafficLog.record() describes it.
Event(t) == [thread |-> t, number |-> received[t],
             request |-> sent[t][received[t]], response |-> reply[t]]

\* Mutant: nothing is ever dropped.
Kept_All(events) == events

\* A deque with maxlen drops its oldest element.
Kept(events) == IF Len(events) > MaxEvents THEN Tail(events) ELSE events

\* Mutant: the exchange is logged before it is answered.
Record_Unsent(t) ==
  /\ At(t, "send")
  /\ log' = Kept(Append(log, Event(t)))
  /\ Goto(t, "recv")
  /\ UNCHANGED <<image, wire, received, todo, reply, connections, ghosts>>

Record(t) ==
  /\ At(t, "record")
  /\ log' = Kept(Append(log, Event(t)))
  /\ Goto(t, IF t \in Tcp THEN "recv" ELSE "end")
  /\ todo' = [todo EXCEPT ![t] = <<>>]
  /\ reply' = [reply EXCEPT ![t] = NoReply]
  /\ UNCHANGED <<image, wire, received, connections, ghosts>>

\* Mutant: recv() is called again when it returns nothing.
AfterEof_Retried == "recv"

AfterEof == "end"

\* recv() finds the connection closed, before or inside a frame.
ReceiveEnds(t) ==
  /\ At(t, "recv")
  /\ t \in Tcp /\ peer[t] = "left"
  /\ Goto(t, AfterEof)
  /\ UNCHANGED <<image, wire, received, todo, reply, connections, log, ghosts>>

\* Mutant: only a connection the client closed is taken off the count.
Uncounts_OnEof(t) == t \in Tcp /\ peer[t] = "left"

Uncounts(t) == t \in Tcp

\* finally
End(t) ==
  /\ At(t, "end")
  /\ connections' = IF Uncounts(t) THEN connections - 1 ELSE connections
  /\ Goto(t, "done")
  /\ UNCHANGED <<image, wire, received, todo, reply, log, ghosts>>

HandlerStep(t) ==
  \/ Begin(t) \/ Receive(t) \/ Call(t) \/ BackendStep(t) \/ CallReturns(t)
  \/ Respond(t) \/ RespondFails(t) \/ Record(t) \/ ReceiveEnds(t) \/ End(t)

-----------------------------------------------------------------------------
(* Clients, the card and the Diagnostics window                             *)

\* A connection is opened, or a datagram arrives: nothing listens before the
\* startup is through.
Arrive(t) ==
  /\ Serving
  /\ t # Main /\ peer[t] = "away"
  /\ peer' = [peer EXCEPT ![t] = "here"]
  /\ IF t \in Udp
     THEN \E r \in Requests : r.form # "desync" /\ sent' = [sent EXCEPT ![t] = <<r>>]
     ELSE UNCHANGED sent
  /\ UNCHANGED <<image, replies, work, connections, log, ghosts>>

\* Requests may be pipelined, by a client that reads no answers too.
SendRequest(t) ==
  /\ t \in Tcp /\ peer[t] \in {"here", "stalled"}
  /\ Len(sent[t]) < MaxRequests
  /\ \E r \in Requests : sent' = [sent EXCEPT ![t] = Append(@, r)]
  /\ UNCHANGED <<image, peer, replies, work, connections, log, ghosts>>

\* The client stops reading, and the buffers between the two are full; or it
\* reads on.
Stall(t) ==
  /\ t \in Tcp
  /\ \/ peer[t] = "here" /\ peer' = [peer EXCEPT ![t] = "stalled"]
     \/ peer[t] = "stalled" /\ peer' = [peer EXCEPT ![t] = "here"]
  /\ UNCHANGED <<image, sent, replies, work, connections, log, ghosts>>

Leave(t) ==
  /\ t \in Tcp /\ peer[t] \in {"here", "stalled"}
  /\ \E how \in {"left", "vanished"} : peer' = [peer EXCEPT ![t] = how]
  /\ UNCHANGED <<image, sent, replies, work, connections, log, ghosts>>

CardMoves ==
  /\ Image!CardMoves
  /\ NoteCleared
  /\ disturbed' = (disturbed \/ (~Serving /\ <<card'.bus, card'.host>> # <<card.bus, card.host>>))
  /\ UNCHANGED <<wire, work, connections, log>>

\* TrafficLog.clear()
ClearLog ==
  /\ log # <<>>
  /\ log' = <<>>
  /\ UNCHANGED <<image, wire, work, connections, ghosts>>

-----------------------------------------------------------------------------
Next ==
  \/ \E t \in Threads : HandlerStep(t) \/ Arrive(t) \/ SendRequest(t) \/ Stall(t) \/ Leave(t)
  \/ CardMoves
  \/ ClearLog
  \/ StepReturns

Spec == Init /\ [][Next]_vars

\* The threads are scheduled and backend calls return.
FairSpec ==
  Spec /\ WF_vars(StepReturns) /\ \A t \in Threads : WF_vars(HandlerStep(t))

-----------------------------------------------------------------------------
(* Properties                                                               *)

Statuses == {"OK", "MALFORMED_FRAME", "UNKNOWN_COMMAND", "BACKEND_ERROR"}

TypeOK ==
  /\ peer \in [Threads -> {"away", "here", "stalled", "left", "vanished"}]
  /\ \A t \in Threads :
       /\ sent[t] \in Seq(Requests)
       /\ received[t] \in 0 .. Len(sent[t])
       /\ \A i \in DOMAIN replies[t] : replies[t][i].status \in Statuses
       /\ todo[t] \in Seq(DriverCalls)
       /\ reply[t].status \in Statuses \cup {"NONE", "DESYNC"}
  /\ handler \in [Threads -> {"none", "recv", "call", "wait", "send", "record", "end",
                               "done", "serving"}]
  /\ \A t \in Tcp : cleared[t] \in 0 .. received[t]
  /\ connections \in 0 .. Cardinality(Tcp)
  /\ Len(log) <= MaxEvents

\* Requests may be pipelined and fail in any way: the i-th response on a
\* connection answers its i-th request, a malformed frame has its own answer,
\* and what is out of step is neither answered nor followed by an answer.
AnsweredInOrder ==
  \A t \in Threads :
    /\ Len(replies[t]) <= received[t]
    /\ \A i \in DOMAIN replies[t] :
         /\ replies[t][i].command = sent[t][i].command
         /\ sent[t][i].form = IF replies[t][i].status = "MALFORMED_FRAME"
                              THEN "malformed" ELSE "ok"

\* Every request that was read, over TCP or UDP, is answered, whatever the
\* backend and the other clients do; unless it was out of step, or its own
\* client is gone or reads nothing.
EveryRequestAnswered ==
  \A t \in Clients, i \in 1 .. MaxRequests :
    received[t] >= i /\ sent[t][i].form # "desync"
      ~> Len(replies[t]) >= i \/ peer[t] \in {"left", "stalled"}

\* What the Diagnostics window lists did happen: each exchange was answered
\* on its connection just as it is listed, and is listed once, in order.
LogTruthful ==
  /\ \A k \in DOMAIN log :
       LET e == log[k]
       IN e.number \in DOMAIN replies[e.thread] /\
          e.request = sent[e.thread][e.number] /\ e.response = replies[e.thread][e.number]
  /\ \A j, k \in DOMAIN log :
       j < k /\ log[j].thread = log[k].thread => log[j].number < log[k].number

\* The client count the window shows is the number of TCP connections being
\* served, however each of the others came to its end.
CountIsHandlers ==
  connections = Cardinality({t \in Tcp : handler[t] \notin {"none", "done"}})

\* When no step of the startup sequence failed, and the card has not restarted
\* meanwhile, the servers come up on a card that is active: unlocked, its host
\* ready and on the bus.
ServesActiveCard ==
  [][Serving' /\ ~Serving /\ ~disturbed' =>
       card'.config = "off" /\ card'.host = "on" /\ card'.bus = "on"]_vars

\* And they do come up, whichever steps of the sequence fail.
StartupServes == <>Serving /\ ServesActiveCard

\* A connection its client closed comes to its end, and so does one whose
\* client vanished with a request unanswered.  (One that vanishes between two
\* requests does not: recv() has no timeout.)
ConnectionsEnd ==
  \A t \in Tcp :
    \/ peer[t] = "left"
    \/ peer[t] = "vanished" /\ Len(replies[t]) < Len(sent[t])
    ~> At(t, "done")

Wrote(t, k) == sent[t][k].command = "WRITE_OUTPUT" /\ sent[t][k].form = "ok"
Succeeded(t, k) == replies[t][k].status = "OK"

\* A client that alone writes the output reads back what it wrote: the last
\* value acknowledged, or that of a later write which failed and may have
\* reached the card; or zeros, if a RESET, of any client, or a restart of the
\* card had zeroed the output since the server read that write.
ReadBack ==
  \A t \in Tcp :
    (\A u \in Clients \ {t}, k \in 1 .. MaxRequests : k <= Len(sent[u]) => ~Wrote(u, k)) =>
      \A i, j \in DOMAIN replies[t] :
        /\ i < j
        /\ Wrote(t, i) /\ Succeeded(t, i)
        /\ sent[t][j].command = "READ_OUTPUT" /\ Succeeded(t, j)
        /\ \A k \in i + 1 .. j - 1 : ~(Wrote(t, k) /\ Succeeded(t, k))
        => \/ \E k \in i .. j - 1 : Wrote(t, k) /\ replies[t][j].data = <<sent[t][k].data>>
           \/ cleared[t] >= i /\ replies[t][j].data = <<Blank>>
=============================================================================
