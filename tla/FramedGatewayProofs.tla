------------------------- MODULE FramedGatewayProofs -------------------------
(* Theorems about FramedGateway, for any connections, datagrams, requests    *)
(* and bounds.                                                               *)
EXTENDS FramedGateway, CifxDriverProofs, FiniteSetTheorems, TLAPS

USE DEF At, Goto

-----------------------------------------------------------------------------
(* Types                                                                    *)

Contents == Values \cup Switches
Places == {"none", "recv", "call", "wait", "send", "record", "end", "done", "serving"}
AllCommands == Commands \cup {"UNKNOWN"}
Replies == [status: Statuses, command: AllCommands, data: Seq(Contents)]
Drafts == [status: Statuses \cup {"NONE", "DESYNC"}, command: AllCommands, data: Seq(Contents)]
Events == [thread: Threads, number: Nat, request: Requests, response: Drafts]

\* The backend, as ProcessImage has it.
ImageTyped ==
  /\ card \in Cards
  /\ status \in [Threads -> {"idle", "pending", "answered"}]
  /\ op \in [Threads -> DriverCalls \cup {NoOp}]
  /\ answer \in [Threads -> Answers]

\* The clients and the network.
WireTyped ==
  /\ peer \in [Threads -> {"away", "here", "stalled", "left", "vanished"}]
  /\ sent \in [Threads -> Seq(Requests)]
  /\ replies \in [Threads -> Seq(Drafts)]

\* The threads.
WorkTyped ==
  /\ received \in [Threads -> Nat]
  /\ handler \in [Threads -> Places]
  /\ todo \in [Threads -> Seq(DriverCalls)]
  /\ reply \in [Threads -> Drafts]

Typed ==
  /\ ImageTyped /\ WireTyped /\ WorkTyped
  /\ log \in Seq(Events)
  /\ disturbed \in BOOLEAN
  /\ cleared \in [Tcp -> Nat]

\* What is left of calls of which more than one is to make.
LEMMA RestLeft ==
  ASSUME NEW S, NEW s \in Seq(S), Len(s) > 1
  PROVE  Tail(s) # <<>>
<1>1. Len(s) \in Nat /\ s # <<>>
  OBVIOUS
<1>2. Len(Tail(s)) = Len(s) - 1
  BY <1>1
<1>3. Len(Tail(s)) # 0
  BY <1>1, <1>2
<1>4. Len(<<>>) = 0
  OBVIOUS
<1> QED BY <1>3, <1>4, Zenon

\* The image speaks the driver's vocabulary.
LEMMA SameVocabulary ==
  /\ Image!Cards = Cards /\ Image!DriverCalls = DriverCalls /\ Image!Errors = Errors
  /\ Image!NoOp = NoOp /\ Image!NoAnswer = NoAnswer
BY DEF Image!Cards, Cards, Image!Switches, Switches, Image!DriverCalls, DriverCalls,
   Image!Read, Read, Image!Write, Write, Image!Watchdog, Watchdog, Image!Reset, Reset,
   Image!Errors, Errors, Image!Stale, Stale, Image!NotReady, NotReady,
   Image!NoOp, NoOp, Image!NoAnswer, NoAnswer, Image!OK, OK

LEMMA SameEffect ==
  ASSUME NEW c, NEW o
  PROVE  /\ Image!Effects(c, o) = Effects(c, o) /\ Image!Success(c, o) = Success(c, o)
         /\ Image!Restarted(c) = Restarted(c)
BY DEF Image!Effects, Effects, Image!Restarted, Restarted, Image!Dormant, Dormant,
   Image!Cleared, Cleared, Image!Success, Success, Image!OK, OK

\* What a backend call does, in those terms.
Performed(t) == card' \in Effects(card, op[t]) /\ answer'[t] = Success(card, op[t])
Refused(t) ==
  card' \in {card} \cup Effects(card, op[t]) /\ \E rc \in Errors : answer'[t] = Failure(rc)

LEMMA InvokeMeans ==
  ASSUME NEW t, Image!Invoke(t)
  PROVE  /\ status[t] = "idle" /\ status' = [status EXCEPT ![t] = "pending"]
         /\ \E o \in DriverCalls : op' = [op EXCEPT ![t] = o]
         /\ UNCHANGED <<card, answer>>
BY SameVocabulary DEF Image!Invoke

LEMMA ReturnMeans ==
  ASSUME NEW t, Image!Return(t)
  PROVE  /\ status[t] = "answered" /\ status' = [status EXCEPT ![t] = "idle"]
         /\ op' = [op EXCEPT ![t] = NoOp]
         /\ answer' = [answer EXCEPT ![t] = NoAnswer]
         /\ UNCHANGED card
BY SameVocabulary DEF Image!Return

LEMMA AnswerMeans ==
  ASSUME ImageTyped, NEW t \in Threads, Image!Perform(t) \/ Image!Refuse(t)
  PROVE  /\ status[t] = "pending" /\ status' = [status EXCEPT ![t] = "answered"]
         /\ answer' = [answer EXCEPT ![t] = answer'[t]]
         /\ UNCHANGED op
         /\ Performed(t) \/ Refused(t)
<1>1. CASE Image!Perform(t)
  <2>1. answer' = [answer EXCEPT ![t] = Success(card, op[t])] /\ card' \in Effects(card, op[t])
    BY <1>1, SameEffect DEF Image!Perform
  <2>2. answer'[t] = Success(card, op[t])
    BY <2>1 DEF ImageTyped
  <2> QED BY <1>1, <2>1, <2>2 DEF Image!Perform, Performed
<1>2. CASE Image!Refuse(t)
  <2>1. PICK rc \in Errors : answer' = [answer EXCEPT ![t] = Image!Failure(rc)]
    BY <1>2, SameVocabulary DEF Image!Refuse
  <2>2. Image!Failure(rc) = Failure(rc)
    BY DEF Image!Failure, Failure
  <2>3. answer'[t] = Failure(rc)
    BY <2>1, <2>2 DEF ImageTyped
  <2>4. card' \in {card} \cup Effects(card, op[t])
    BY <1>2, SameEffect DEF Image!Refuse
  <2> QED BY <1>2, <2>1, <2>2, <2>3, <2>4 DEF Image!Refuse, Refused
<1> QED BY <1>1, <1>2

LEMMA ImageReturns ==
  ASSUME ImageTyped, NEW t \in Threads, Image!Return(t)
  PROVE  ImageTyped'
<1>1. /\ status' = [status EXCEPT ![t] = "idle"]
      /\ op' = [op EXCEPT ![t] = NoOp]
      /\ answer' = [answer EXCEPT ![t] = NoAnswer]
      /\ UNCHANGED card
  BY ReturnMeans
<1>2. NoAnswer \in Answers
  BY DEF NoAnswer, Answers
<1> QED BY <1>1, <1>2 DEF ImageTyped

\* The card moves of itself: its output image is kept or zeroed.
LEMMA CardMovesMeans ==
  ASSUME card \in Cards, Image!CardMoves
  PROVE  /\ card' \in Cards /\ card'["output"] \in {card["output"], Blank}
         /\ card'["config"] = card["config"]
         /\ UNCHANGED <<status, op, answer>>
<1>1. CASE \E v \in Values : card' = [card EXCEPT !.input = v]
  BY <1>1 DEF Image!CardMoves, Cards
<1>2. CASE card' \in Image!Restarted(card)
  <2>1. card' \in Restarted(card)
    BY <1>2, SameEffect
  <2> QED BY <2>1, RestartedType DEF Image!CardMoves
<1> QED BY <1>1, <1>2 DEF Image!CardMoves

\* A connection's mark of a zeroed output is where it has got to.
LEMMA MarkMeans ==
  ASSUME Typed, NoteCleared \/ UNCHANGED cleared
  PROVE  /\ cleared' \in [Tcp -> Nat]
         /\ \A t \in Tcp :
              /\ cleared'[t] \in {cleared[t], received[t]}
              /\ NoteCleared /\ card'["output"] # card["output"] => cleared'[t] = received[t]
<1>1. /\ cleared \in [Tcp -> Nat] /\ \A t \in Tcp : received[t] \in Nat
  BY DEF Typed, WorkTyped, Threads, Clients
<1>2. CASE UNCHANGED cleared
  BY <1>1, <1>2 DEF NoteCleared
<1>3. CASE NoteCleared
  BY <1>1, <1>3 DEF NoteCleared
<1> QED BY <1>2, <1>3

\* The requests that are run, and what running one calls.
LEMMA RequestTypes ==
  ASSUME NEW r \in Requests
  PROVE  /\ r.command \in AllCommands /\ r.form \in {"ok", "malformed", "desync"}
         /\ Verdict(r) = "OK" => r.form = "ok" /\ CallsFor(r) # <<>>
         /\ Verdict(r) = "UNKNOWN_COMMAND" => r.form = "ok"
         /\ Verdict(r) = "MALFORMED_FRAME" <=> r.form = "malformed"
         /\ Verdict(r) = "DESYNC" <=> r.form = "desync"
         /\ Verdict(r) \in {"OK", "UNKNOWN_COMMAND", "MALFORMED_FRAME", "DESYNC"}
<1>1. r \in AllRequests
  BY RequestAssumption
<1>2. r.command \in AllCommands /\ r.form \in {"ok", "malformed", "desync"}
  BY <1>1 DEF AllRequests, AllCommands
<1>3. CASE r.form = "desync"
  <2>1. Verdict(r) = "DESYNC"
    BY <1>3 DEF Verdict
  <2> QED BY <1>2, <1>3, <2>1
<1>4. CASE r.form = "malformed"
  <2>1. Verdict(r) = "MALFORMED_FRAME"
    BY <1>4 DEF Verdict
  <2> QED BY <1>2, <1>4, <2>1
<1>5. CASE r.form = "ok"
  <2>1. Verdict(r) = IF CallsFor(r) = <<>> THEN "UNKNOWN_COMMAND" ELSE "OK"
    BY <1>5 DEF Verdict
  <2> QED BY <1>2, <1>5, <2>1
<1> QED BY <1>2, <1>3, <1>4, <1>5

LEMMA CallsTypes ==
  ASSUME NEW r \in Requests, r.form = "ok"
  PROVE  CallsFor(r) \in Seq(DriverCalls)
<1>1. /\ r.command \in AllCommands
      /\ r.command = "WRITE_OUTPUT" => r.data \in Values
      /\ r.command = "SET_HOST_STATE" => r.data \in Switches
  BY RequestTypes, RequestAssumption
<1>2. /\ \A reg \in {"input", "output", "bus", "host"} : Read(reg) \in DriverCalls
      /\ \A v \in Values : Write("output", v) \in DriverCalls
      /\ \A v \in Switches : Write("host", v) \in DriverCalls
      /\ Watchdog \in DriverCalls /\ Reset \in DriverCalls
  BY DEF DriverCalls
<1>3. r.command \in Commands \cup {"UNKNOWN"}
  BY <1>1 DEF AllCommands
<1>4. CASE r.command = "READ_INPUT"
  BY <1>2, <1>4 DEF CallsFor
<1>5. CASE r.command = "WRITE_OUTPUT"
  BY <1>1, <1>2, <1>5 DEF CallsFor
<1>6. CASE r.command = "READ_OUTPUT"
  BY <1>2, <1>6 DEF CallsFor
<1>7. CASE r.command = "GET_STATUS"
  BY <1>2, <1>7 DEF CallsFor
<1>8. CASE r.command = "SET_HOST_STATE"
  BY <1>1, <1>2, <1>8 DEF CallsFor
<1>9. CASE r.command = "WATCHDOG_TRIGGER"
  BY <1>2, <1>9 DEF CallsFor
<1>10. CASE r.command = "RESET"
  BY <1>2, <1>10 DEF CallsFor
<1>11. CASE r.command = "UNKNOWN"
  BY <1>11 DEF CallsFor
<1> QED BY <1>3, <1>4, <1>5, <1>6, <1>7, <1>8, <1>9, <1>10, <1>11 DEF Commands

\* The steps of the startup.
LEMMA StartupTypes ==
  /\ StartupSteps \in Seq(DriverCalls) /\ Len(StartupSteps) = 3
  /\ StartupSteps[1] = Write("config", "off")
  /\ StartupSteps[2] = Write("host", "on")
  /\ StartupSteps[3] = Write("bus", "on")
<1>1. /\ Write("config", "off") \in DriverCalls
      /\ Write("host", "on") \in DriverCalls
      /\ Write("bus", "on") \in DriverCalls
  BY DEF DriverCalls, Switches
<1> QED BY <1>1 DEF StartupSteps

\* What a response takes from a call.
LEMMA DataType ==
  ASSUME NEW a \in Answers
  PROVE  Data(a) \in Seq(Contents)
<1>1. a.val \in Contents \cup {NoValue}
  BY DEF Answers, Contents
<1>2. CASE a.val = NoValue
  BY <1>2 DEF Data
<1>3. CASE a.val # NoValue
  <2>1. a.val \in Contents
    BY <1>1, <1>3
  <2> HIDE DEF Contents
  <2> QED BY <1>3, <2>1 DEF Data
<1> QED BY <1>2, <1>3

-----------------------------------------------------------------------------
(* Where a thread is and what it holds                                      *)

Current(t) == sent[t][received[t]]

\* A response is of a status that a request of this form is given.
Matches(response, r) ==
  /\ response.command = r.command
  /\ r.form = IF response.status = "MALFORMED_FRAME" THEN "malformed" ELSE "ok"

\* At most one request is read and not answered.
Progress(t) ==
  /\ received[t] <= Len(sent[t])
  /\ Len(replies[t]) <= received[t]
  /\ handler[t] = "none" => received[t] = 0
  /\ handler[t] = "recv" => Len(replies[t]) = received[t]
  /\ handler[t] = "record" => Len(replies[t]) = received[t] /\ received[t] > 0
  /\ handler[t] \in {"call", "wait", "send"} => received[t] = Len(replies[t]) + 1

\* The response in hand belongs to the request read last.
Draft(t) ==
  handler[t] \in {"call", "wait", "send", "record"} =>
    /\ reply[t].status \in Statuses
    /\ Matches(reply[t], Current(t))
    /\ handler[t] \in {"call", "wait"} => reply[t].status = "OK"
    /\ handler[t] = "record" => replies[t][received[t]] = reply[t]

\* The responses given belong to the requests, in their order.
InOrder(t) ==
  \A i \in 1 .. Len(replies[t]) :
    replies[t][i].status \in Statuses /\ Matches(replies[t][i], sent[t][i])

\* Nothing was sent on a connection that was not opened.
Away(t) == peer[t] = "away" => sent[t] = <<>> /\ handler[t] = "none"

ClientOK(t) == handler[t] # "serving" /\ Progress(t) /\ Draft(t) /\ InOrder(t) /\ Away(t)

ClientInv == \A t \in Clients : ClientOK(t)

\* The starting thread serves nobody.
MainInv ==
  /\ handler[Main] \in {"call", "wait", "serving"}
  /\ peer[Main] = "away" /\ sent[Main] = <<>>
  /\ received[Main] = 0 /\ replies[Main] = <<>>

\* A thread waits while its backend call is open, the first it has to make.
CallOK(t) ==
  /\ status[t] # "idle" <=> handler[t] = "wait"
  /\ handler[t] = "wait" => op[t] = Head(todo[t])
  /\ handler[t] \in {"call", "wait"} => todo[t] # <<>>

CallInv == \A t \in Threads : CallOK(t)

-----------------------------------------------------------------------------
(* The invariant of types                                                   *)

\* The traffic log drops its oldest event, if any.
LEMMA KeptMeans ==
  ASSUME NEW S, NEW events \in Seq(S), events # <<>>
  PROVE  /\ Kept(events) \in Seq(S)
         /\ \/ Kept(events) = events /\ Len(events) <= MaxEvents
            \/ /\ Kept(events) = Tail(events) /\ Len(Tail(events)) = Len(events) - 1
               /\ \A i \in 1 .. Len(Tail(events)) : Tail(events)[i] = events[i + 1]
<1>1. MaxEvents \in Nat
  BY BoundAssumption
<1>2. /\ Tail(events) \in Seq(S) /\ Len(Tail(events)) = Len(events) - 1
      /\ \A i \in 1 .. Len(Tail(events)) : Tail(events)[i] = events[i + 1]
  OBVIOUS
<1>3. Len(events) \in Nat
  OBVIOUS
<1>4. CASE Len(events) > MaxEvents
  BY <1>2, <1>4 DEF Kept
<1>5. CASE ~(Len(events) > MaxEvents)
  BY <1>1, <1>3, <1>5 DEF Kept
<1> QED BY <1>4, <1>5

LEMMA TypedInit == Init => Typed
<1> SUFFICES ASSUME Init PROVE Typed
  OBVIOUS
<1>1. ImageTyped
  BY SameVocabulary DEF Init, Image!Init, ImageTyped, NoAnswer, Answers
<1>2. WireTyped
  BY DEF Init, WireTyped
<1>3. WorkTyped
  <2>1. NoReply \in Drafts
    BY DEF NoReply, Drafts, AllCommands
  <2>2. \A t \in Threads : todo[t] \in Seq(DriverCalls)
    BY StartupTypes DEF Init
  <2> QED BY <2>1, <2>2 DEF Init, WorkTyped, Places
<1>4. log \in Seq(Events)
  <2>1. log = <<>>
    BY DEF Init
  <2> QED BY <2>1
<1>5. disturbed \in BOOLEAN /\ cleared \in [Tcp -> Nat]
  BY DEF Init
<1> QED BY <1>1, <1>2, <1>3, <1>4, <1>5 DEF Typed

\* A thread that has read a request holds one that was sent.
LEMMA CurrentSent ==
  ASSUME Typed, MainInv, ClientInv, NEW t \in Threads,
         handler[t] \in {"send", "record"} \/ (t # Main /\ handler[t] \in {"call", "wait"})
  PROVE  t \in Clients /\ received[t] \in 1 .. Len(sent[t]) /\ Current(t) \in Requests
<1>1. t # Main /\ t \in Clients
  BY DEF MainInv, Threads
<1>2. Progress(t) /\ received[t] \in Nat /\ sent[t] \in Seq(Requests) /\ replies[t] \in Seq(Drafts)
  BY <1>1 DEF ClientInv, ClientOK, Typed, WireTyped, WorkTyped
<1>3. received[t] \in 1 .. Len(sent[t])
  BY <1>2 DEF Progress
<1> QED BY <1>1, <1>2, <1>3 DEF Current

LEMMA TypedNext ==
  ASSUME Typed, MainInv, ClientInv, CallInv, [Next]_vars
  PROVE  Typed'
<1>0. \A t \in Threads : handler[t] = "record" => Current(t) \in Requests
  BY CurrentSent
<1> USE DEF Typed, image, wire, work, ghosts
<1>1. ASSUME NEW t \in Threads, Begin(t) PROVE Typed'
  BY <1>1 DEF Begin, ImageTyped, WireTyped, WorkTyped, Places
<1>2. ASSUME NEW t \in Threads, Receive(t) PROVE Typed'
  <2> DEFINE r == sent[t][received[t] + 1]
  <2>1. r \in Requests
    BY <1>2 DEF Receive, WireTyped, WorkTyped
  <2>2. Response(Verdict(r), r, <<>>) \in Drafts
    BY <2>1, RequestTypes DEF Response, Drafts, Statuses, AllCommands
  <2>3. (IF Verdict(r) = "OK" THEN CallsFor(r) ELSE <<>>) \in Seq(DriverCalls)
    BY <2>1, RequestTypes, CallsTypes
  <2>4. AfterVerdict(Verdict(r)) \in Places
    BY DEF AfterVerdict, AfterMalformed, Places
  <2>5. WorkTyped'
    BY <1>2, <2>2, <2>3, <2>4 DEF Receive, WorkTyped
  <2> QED BY <1>2, <2>5 DEF Receive, ImageTyped, WireTyped
<1>3. ASSUME NEW t \in Threads, Call(t) PROVE Typed'
  <2>1. WorkTyped'
    BY <1>3 DEF Call, WorkTyped, Places
  <2>2. ImageTyped'
    BY <1>3, InvokeMeans DEF Call, ImageTyped
  <2> QED BY <1>3, <2>1, <2>2 DEF Call, WireTyped
<1>4. ASSUME NEW t \in Threads, BackendStep(t) PROVE Typed'
  <2>1. /\ status[t] = "pending" /\ status' = [status EXCEPT ![t] = "answered"]
        /\ answer' = [answer EXCEPT ![t] = answer'[t]]
        /\ UNCHANGED op
        /\ Performed(t) \/ Refused(t)
    BY <1>4, AnswerMeans DEF BackendStep
  <2>2. op[t] \in DriverCalls
    <3>1. todo[t] # <<>> /\ op[t] = Head(todo[t]) /\ todo[t] \in Seq(DriverCalls)
      BY <2>1 DEF CallInv, CallOK, WorkTyped
    <3> QED BY <3>1
  <2>3. card' \in Cards /\ answer'[t] \in Answers
    BY <2>1, <2>2, EffectType, SuccessType, FailureType DEF ImageTyped, Performed, Refused
  <2>4. cleared' \in [Tcp -> Nat]
    BY <1>4, MarkMeans DEF BackendStep
  <2> QED BY <1>4, <2>1, <2>3, <2>4 DEF BackendStep, ImageTyped, WireTyped, WorkTyped
<1>5. ASSUME NEW t \in Threads, CallReturns(t) PROVE Typed'
  <2>1. ImageTyped'
    BY <1>5, ImageReturns DEF CallReturns
  <2>2. todo[t] # <<>> /\ todo[t] \in Seq(DriverCalls) /\ reply[t] \in Drafts /\ answer[t] \in Answers
    BY <1>5 DEF CallReturns, CallInv, CallOK, WorkTyped, ImageTyped
  <2>3. CASE answer[t].rc = OK
    <3>1. Tail(todo[t]) \in Seq(DriverCalls)
      BY <2>2
    <3>2. reply[t].data \in Seq(Contents) /\ Data(answer[t]) \in Seq(Contents)
      BY <2>2, DataType DEF Drafts
    <3>3. reply[t].data \o Data(answer[t]) \in Seq(Contents)
      BY <3>2
    <3>4. [reply[t] EXCEPT !.data = @ \o Data(answer[t])] \in Drafts
      BY <2>2, <3>3 DEF Drafts
    <3>5. WorkTyped'
      BY <1>5, <2>3, <3>1, <3>4 DEF CallReturns, WorkTyped, Places
    <3> QED BY <1>5, <2>1, <3>5 DEF CallReturns, WireTyped
  <2>4. CASE answer[t].rc # OK
    <3>1. Response("BACKEND_ERROR", reply[t], <<>>) \in Drafts
      BY <2>2 DEF Response, Drafts, Statuses
    <3>2. /\ reply' = [reply EXCEPT ![t] = Response("BACKEND_ERROR", reply[t], <<>>)]
          /\ todo' = [todo EXCEPT ![t] = <<>>]
          /\ handler' = [handler EXCEPT ![t] = "send"]
          /\ received' = received
      BY <1>5, <2>4 DEF CallReturns, AfterError
    <3>3. WorkTyped'
      BY <3>1, <3>2 DEF WorkTyped, Places
    <3> QED BY <1>5, <2>1, <3>3 DEF CallReturns, WireTyped
  <2> QED BY <2>3, <2>4
<1>6. ASSUME NEW t \in Threads, Respond(t) PROVE Typed'
  <2>1. Append(replies[t], reply[t]) \in Seq(Drafts)
    BY DEF WireTyped, WorkTyped
  <2> QED BY <1>6, <2>1 DEF Respond, ImageTyped, WireTyped, WorkTyped, Places
<1>7. ASSUME NEW t \in Threads, RespondFails(t) \/ ReceiveEnds(t) \/ End(t) PROVE Typed'
  BY <1>7 DEF RespondFails, ReceiveEnds, AfterEof, End, ImageTyped, WireTyped, WorkTyped, Places
<1>8. ASSUME NEW t \in Threads, Record(t) PROVE Typed'
  <2>1. Event(t) \in Events
    <3>1. sent[t][received[t]] \in Requests
      BY <1>0, <1>8 DEF Record, Current
    <3>2. received[t] \in Nat /\ reply[t] \in Drafts
      BY DEF WorkTyped
    <3> QED BY <3>1, <3>2 DEF Event, Events
  <2>2. Append(log, Event(t)) \in Seq(Events) /\ Append(log, Event(t)) # <<>>
    BY <2>1
  <2>3. log' \in Seq(Events)
    BY <1>8, <2>2, KeptMeans DEF Record
  <2>4. NoReply \in Drafts
    BY DEF NoReply, Drafts, AllCommands
  <2> QED BY <1>8, <2>3, <2>4 DEF Record, ImageTyped, WireTyped, WorkTyped, Places
<1>9. ASSUME NEW t \in Threads, Arrive(t) PROVE Typed'
  <2>1. sent' \in [Threads -> Seq(Requests)]
    <3>1. CASE t \in Udp
      <4>1. PICK r \in Requests : sent' = [sent EXCEPT ![t] = <<r>>]
        BY <1>9, <3>1 DEF Arrive
      <4>2. <<r>> \in Seq(Requests)
        OBVIOUS
      <4> QED BY <4>1, <4>2 DEF WireTyped
    <3> QED BY <1>9, <3>1 DEF Arrive, WireTyped
  <2> QED BY <1>9, <2>1 DEF Arrive, ImageTyped, WireTyped, WorkTyped
<1>10. ASSUME NEW t \in Threads, SendRequest(t) PROVE Typed'
  <2>1. \A r \in Requests : Append(sent[t], r) \in Seq(Requests)
    BY DEF WireTyped
  <2> QED BY <1>10, <2>1 DEF SendRequest, ImageTyped, WireTyped, WorkTyped
<1>11. ASSUME NEW t \in Threads, Stall(t) \/ Leave(t) PROVE Typed'
  <2>1. peer' \in [Threads -> {"away", "here", "stalled", "left", "vanished"}]
    BY <1>11 DEF Stall, Leave, WireTyped
  <2>2. UNCHANGED <<image, sent, replies, work, log, ghosts>>
    BY <1>11 DEF Stall, Leave
  <2> QED BY <2>1, <2>2 DEF ImageTyped, WireTyped, WorkTyped
<1>12. CASE CardMoves
  <2>1. ImageTyped'
    BY <1>12, CardMovesMeans DEF CardMoves, ImageTyped
  <2>2. disturbed' \in BOOLEAN /\ cleared' \in [Tcp -> Nat]
    BY <1>12, MarkMeans DEF CardMoves
  <2> QED BY <1>12, <2>1, <2>2 DEF CardMoves, WireTyped, WorkTyped
<1>13. CASE ClearLog
  BY <1>13 DEF ClearLog, ImageTyped, WireTyped, WorkTyped
<1>14. CASE StepReturns
  <2>1. ImageTyped'
    BY <1>14, ImageReturns DEF StepReturns, Threads
  <2>2. Tail(todo[Main]) \in Seq(DriverCalls)
    <3>1. Main \in Threads /\ todo[Main] # <<>> /\ todo[Main] \in Seq(DriverCalls)
      BY <1>14 DEF StepReturns, CallInv, CallOK, WorkTyped, Threads
    <3> QED BY <3>1
  <2>3. WorkTyped'
    BY <1>14, <2>2 DEF StepReturns, WorkTyped, AfterFailedStep, AfterStep, Places
  <2> QED BY <1>14, <2>1, <2>3 DEF StepReturns, WireTyped
<1>15. CASE UNCHANGED vars
  BY <1>15 DEF vars, ImageTyped, WireTyped, WorkTyped
<1> QED BY <1>1, <1>2, <1>3, <1>4, <1>5, <1>6, <1>7, <1>8, <1>9, <1>10, <1>11, <1>12, <1>13,
           <1>14, <1>15 DEF Next, HandlerStep

-----------------------------------------------------------------------------
(* Who changes what                                                         *)

\* What a thread and its client have is as it was.
Same(t) ==
  UNCHANGED <<peer[t], sent[t], received[t], replies[t], handler[t], todo[t], reply[t],
              status[t], op[t], answer[t]>>

ClientStep(t) == HandlerStep(t) \/ Arrive(t) \/ SendRequest(t) \/ Stall(t) \/ Leave(t)

\* A thread and its client change nothing of another's.
LEMMA OthersSame ==
  ASSUME Typed, NEW t \in Threads, ClientStep(t), NEW u \in Threads \ {t}
  PROVE  Same(u)
<1> USE DEF Same, image, wire, work
<1>1. CASE Begin(t)
  BY <1>1 DEF Begin, Typed, WorkTyped
<1>2. CASE Receive(t)
  BY <1>2 DEF Receive, Typed, WorkTyped
<1>3. CASE Call(t)
  <2>1. /\ \E o : op' = [op EXCEPT ![t] = o]
        /\ status' = [status EXCEPT ![t] = "pending"] /\ answer' = answer
    BY <1>3, InvokeMeans DEF Call
  <2> QED BY <1>3, <2>1 DEF Call, Typed, ImageTyped, WorkTyped
<1>4. CASE BackendStep(t)
  <2>1. /\ status' = [status EXCEPT ![t] = "answered"]
        /\ answer' = [answer EXCEPT ![t] = answer'[t]]
        /\ UNCHANGED op
    BY <1>4, AnswerMeans DEF BackendStep, Typed
  <2> QED BY <1>4, <2>1 DEF BackendStep, Typed, ImageTyped
<1>5. CASE CallReturns(t)
  <2>1. /\ status' = [status EXCEPT ![t] = "idle"]
        /\ op' = [op EXCEPT ![t] = NoOp]
        /\ answer' = [answer EXCEPT ![t] = NoAnswer]
    BY <1>5, ReturnMeans DEF CallReturns
  <2> QED BY <1>5, <2>1 DEF CallReturns, Typed, ImageTyped, WorkTyped
<1>6. CASE Respond(t)
  BY <1>6 DEF Respond, Typed, WireTyped, WorkTyped
<1>7. CASE RespondFails(t) \/ ReceiveEnds(t) \/ End(t)
  BY <1>7 DEF RespondFails, ReceiveEnds, End, Typed, WireTyped, WorkTyped
<1>8. CASE Record(t)
  BY <1>8 DEF Record, Typed, WorkTyped
<1>9. CASE Arrive(t)
  BY <1>9 DEF Arrive, Typed, WireTyped
<1>10. CASE SendRequest(t)
  BY <1>10 DEF SendRequest, Typed, WireTyped
<1>11. CASE Stall(t) \/ Leave(t)
  BY <1>11 DEF Stall, Leave, Typed, WireTyped
<1> QED BY <1>1, <1>2, <1>3, <1>4, <1>5, <1>6, <1>7, <1>8, <1>9, <1>10, <1>11
        DEF ClientStep, HandlerStep

\* Of the starting thread's steps three are left.
LEMMA MainSteps ==
  ASSUME MainInv, ClientStep(Main)
  PROVE  Call(Main) \/ BackendStep(Main)
BY ThreadAssumption
   DEF ClientStep, HandlerStep, MainInv, Begin, Receive, CallReturns, Respond, RespondFails,
       Record, ReceiveEnds, End, Arrive, SendRequest, Stall, Leave

\* The startup changes nothing of a client's.
LEMMA ClientsSame ==
  ASSUME Typed, StepReturns, NEW u \in Clients
  PROVE  Same(u)
<1>1. u \in Threads \ {Main} /\ Main \in Threads
  BY ThreadAssumption DEF Clients, Threads
<1>2. /\ status' = [status EXCEPT ![Main] = "idle"]
      /\ op' = [op EXCEPT ![Main] = NoOp]
      /\ answer' = [answer EXCEPT ![Main] = NoAnswer]
  BY ReturnMeans DEF StepReturns
<1> QED BY <1>1, <1>2 DEF StepReturns, Same, wire, Typed, ImageTyped, WorkTyped

\* The card, who clears the log and a stutter change nothing of anybody's.
LEMMA AllSame ==
  ASSUME CardMoves \/ ClearLog \/ UNCHANGED vars
  PROVE  \A u \in Threads : Same(u)
<1>1. CASE CardMoves
  <2>1. UNCHANGED <<status, op, answer>>
    BY <1>1 DEF CardMoves, Image!CardMoves
  <2> QED BY <1>1, <2>1 DEF CardMoves, Same, wire, work
<1> QED BY <1>1 DEF ClearLog, Same, vars, image, wire, work

\* A step is one of a thread or its client, or of the startup, or nobody's.
LEMMA Actors ==
  ASSUME [Next]_vars
  PROVE  \/ \E t \in Threads : ClientStep(t)
         \/ StepReturns
         \/ CardMoves \/ ClearLog \/ UNCHANGED vars
BY DEF Next, ClientStep

-----------------------------------------------------------------------------
(* What a thread is at                                                      *)

LEMMA ClientInit == Init => MainInv /\ ClientInv /\ CallInv
<1> SUFFICES ASSUME Init PROVE MainInv /\ ClientInv /\ CallInv
  OBVIOUS
<1>1. Main \in Threads /\ Clients \subseteq Threads /\ Main \notin Clients
  BY ThreadAssumption DEF Threads, Clients
<1>2. \A t \in Clients : handler[t] = "none" /\ sent[t] = <<>> /\ received[t] = 0 /\ replies[t] = <<>>
  BY <1>1 DEF Init
<1>3. MainInv
  BY <1>1 DEF Init, MainInv
<1>4. ClientInv
  BY <1>2 DEF ClientInv, ClientOK, Progress, Draft, InOrder, Away
<1>5. CallInv
  <2>1. \A t \in Threads : status[t] = "idle"
    BY DEF Init, Image!Init
  <2>2. handler[Main] = "call" /\ todo[Main] = StartupSteps /\ todo[Main] # <<>>
    <3>1. handler[Main] = "call" /\ todo[Main] = StartupSteps
      BY <1>1 DEF Init
    <3> QED BY <3>1 DEF StartupSteps
  <2>3. \A t \in Threads : t = Main \/ handler[t] = "none"
    BY DEF Init
  <2> QED BY <2>1, <2>2, <2>3 DEF CallInv, CallOK
<1> QED BY <1>3, <1>4, <1>5

\* The backend's answers leave a request where it is.
LEMMA ClientNext ==
  ASSUME Typed, MainInv, ClientInv, CallInv, NEW t \in Clients, ClientStep(t)
  PROVE  ClientOK(t)'
<1>0. /\ t \in Threads /\ t # Main /\ ClientOK(t) /\ CallOK(t)
      /\ sent[t] \in Seq(Requests) /\ replies[t] \in Seq(Drafts) /\ received[t] \in Nat
      /\ peer \in [Threads -> {"away", "here", "stalled", "left", "vanished"}]
      /\ handler \in [Threads -> Places] /\ reply \in [Threads -> Drafts]
      /\ replies \in [Threads -> Seq(Drafts)]
      /\ sent \in [Threads -> Seq(Requests)]
      /\ received \in [Threads -> Nat]
  BY ThreadAssumption DEF Threads, Clients, ClientInv, CallInv, Typed, WireTyped, WorkTyped
<1> USE DEF ClientOK, image, wire, work
<1>1. CASE Begin(t)
  BY <1>0, <1>1 DEF Begin, Progress, Draft, InOrder, Away, Matches, Current
<1>2. CASE Receive(t)
  <2> DEFINE r == sent[t][received[t] + 1]
             v == Verdict(r)
  <2>1. /\ handler[t] = "recv" /\ received[t] < Len(sent[t])
        /\ received'[t] = received[t] + 1
        /\ handler'[t] = AfterVerdict(v)
        /\ reply'[t] = Response(v, r, <<>>)
        /\ UNCHANGED <<peer, sent, replies>>
    BY <1>0, <1>2 DEF Receive
  <2>2. r \in Requests
    BY <1>0, <2>1
  <2>3. CASE v = "DESYNC"
    <3>1. handler'[t] = "end"
      BY <2>1, <2>3 DEF AfterVerdict
    <3>2. Progress(t)' /\ Draft(t)'
      BY <1>0, <2>1, <3>1 DEF Progress, Draft
    <3>3. InOrder(t)' /\ Away(t)'
      BY <1>0, <2>1, <3>1 DEF InOrder, Away, Matches
    <3> QED BY <3>1, <3>2, <3>3
  <2>4. CASE v # "DESYNC"
    <3>1. handler'[t] \in {"call", "send"} /\ (handler'[t] = "call" => v = "OK") /\ v \in Statuses
      BY <2>1, <2>2, <2>4, RequestTypes DEF AfterVerdict, AfterMalformed, Statuses
    <3>2. Current(t)' = r
      BY <2>1 DEF Current
    <3>3. reply'[t].status = v /\ Matches(reply'[t], r)
      BY <2>1, <2>2, <2>4, RequestTypes DEF Response, Matches
    <3>4. Progress(t)'
      BY <1>0, <2>1, <3>1 DEF Progress
    <3>5. Draft(t)'
      BY <3>1, <3>2, <3>3 DEF Draft, Matches
    <3> HIDE DEF v
    <3> QED BY <1>0, <2>1, <3>1, <3>4, <3>5 DEF InOrder, Away, Matches
  <2> QED BY <2>3, <2>4
<1>3. CASE Call(t)
  BY <1>0, <1>3 DEF Call, Progress, Draft, InOrder, Away, Matches, Current
<1>4. CASE BackendStep(t)
  BY <1>0, <1>4 DEF BackendStep, Progress, Draft, InOrder, Away, Matches, Current
<1>5. CASE CallReturns(t)
  <2>1. /\ handler[t] = "wait" /\ handler'[t] \in {"call", "send"}
        /\ UNCHANGED <<peer, sent, replies, received>>
    BY <1>0, <1>5 DEF CallReturns, AfterError
  <2>2. reply[t].status = "OK" /\ Matches(reply[t], Current(t))
    BY <1>0, <2>1 DEF Draft
  <2>3. /\ reply'[t].status \in {"OK", "BACKEND_ERROR"} /\ reply'[t].command = reply[t].command
        /\ handler'[t] = "call" => reply'[t].status = "OK"
    <3>1. CASE answer[t].rc = OK
      <4>1. reply' = [reply EXCEPT ![t] = [reply[t] EXCEPT !.data = @ \o Data(answer[t])]]
        BY <1>5, <3>1 DEF CallReturns
      <4>2. reply'[t] = [reply[t] EXCEPT !.data = @ \o Data(answer[t])]
        BY <1>0, <4>1
      <4> QED BY <1>0, <2>2, <4>2 DEF Drafts
    <3>2. CASE answer[t].rc # OK
      BY <1>0, <1>5, <3>2 DEF CallReturns, AfterError, Response
    <3> QED BY <3>1, <3>2
  <2>4. Progress(t)'
    BY <1>0, <2>1 DEF Progress
  <2>5. Draft(t)'
    BY <2>1, <2>2, <2>3 DEF Draft, Matches, Current, Statuses
  <2> QED BY <1>0, <2>1, <2>4, <2>5 DEF InOrder, Away, Matches
<1>6. CASE Respond(t)
  <2>1. /\ handler[t] = "send" /\ handler'[t] = "record"
        /\ replies'[t] = Append(replies[t], reply[t])
        /\ peer'[t] = (IF peer[t] = "vanished" THEN "left" ELSE peer[t])
        /\ UNCHANGED <<sent, received, reply>>
    BY <1>0, <1>6 DEF Respond
  <2>2. received[t] = Len(replies[t]) + 1 /\ received[t] <= Len(sent[t])
    BY <1>0, <2>1 DEF Progress
  <2>3. reply[t].status \in Statuses /\ Matches(reply[t], sent[t][received[t]])
    BY <1>0, <2>1 DEF Draft, Current
  <2>4. /\ Len(replies'[t]) = received[t] /\ replies'[t][received[t]] = reply[t]
        /\ \A i \in 1 .. Len(replies[t]) : replies'[t][i] = replies[t][i]
    BY <1>0, <2>1, <2>2
  <2>5. Progress(t)'
    BY <1>0, <2>1, <2>2, <2>4 DEF Progress
  <2>6. Draft(t)'
    BY <2>1, <2>3, <2>4 DEF Draft, Current, Matches
  <2>7. InOrder(t)'
    <3> SUFFICES ASSUME NEW i \in 1 .. Len(replies'[t])
                 PROVE  replies'[t][i].status \in Statuses /\ Matches(replies'[t][i], sent'[t][i])
      BY DEF InOrder, Matches
    <3>1. i = received[t] \/ i \in 1 .. Len(replies[t])
      BY <1>0, <2>2, <2>4
    <3> QED BY <1>0, <2>1, <2>3, <2>4, <3>1 DEF InOrder
  <2> QED BY <1>0, <2>1, <2>5, <2>6, <2>7 DEF Away
<1>7. CASE RespondFails(t) \/ ReceiveEnds(t) \/ End(t)
  BY <1>0, <1>7
  DEF RespondFails, ReceiveEnds, AfterEof, End, Progress, Draft, InOrder, Away, Matches, Current
<1>8. CASE Record(t)
  BY <1>0, <1>8 DEF Record, Progress, Draft, InOrder, Away, Matches, Current
<1>9. CASE Arrive(t)
  <2>1. /\ handler[t] = "none" /\ sent[t] = <<>> /\ received[t] = 0 /\ replies[t] = <<>>
    BY <1>0, <1>9 DEF Arrive, Away, Progress
  <2>2. /\ peer'[t] = "here" /\ UNCHANGED <<handler, received, replies>>
        /\ sent'[t] \in Seq(Requests)
    <3>1. ASSUME t \in Udp, NEW r \in Requests, sent' = [sent EXCEPT ![t] = <<r>>]
          PROVE  sent'[t] \in Seq(Requests)
      BY <1>0, <3>1
    <3> QED BY <1>0, <1>9, <3>1 DEF Arrive
  <2>3. Len(sent'[t]) \in Nat
    BY <2>2
  <2> QED BY <2>1, <2>2, <2>3 DEF Progress, Draft, InOrder, Away
<1>10. CASE SendRequest(t)
  <2>1. PICK r \in Requests : sent'[t] = Append(sent[t], r)
    BY <1>0, <1>10 DEF SendRequest
  <2>2. peer[t] # "away" /\ UNCHANGED <<peer, replies, received, handler, reply>>
    BY <1>10 DEF SendRequest
  <2>3. /\ Len(sent'[t]) = Len(sent[t]) + 1
        /\ \A i \in 1 .. Len(sent[t]) : sent'[t][i] = sent[t][i]
    BY <1>0, <2>1
  <2>4. received[t] <= Len(sent[t]) /\ Len(replies[t]) <= received[t] /\ Len(replies[t]) \in Nat
        /\ Len(sent[t]) \in Nat
    BY <1>0 DEF Progress
  <2>5. Progress(t)'
    BY <1>0, <2>2, <2>3, <2>4 DEF Progress
  <2>6. Draft(t)'
    <3>1. handler[t] \in {"call", "wait", "send", "record"} => received[t] \in 1 .. Len(sent[t])
      BY <1>0, <2>4 DEF Progress
    <3>2. handler[t] \in {"call", "wait", "send", "record"} => Current(t)' = Current(t)
      BY <2>2, <2>3, <3>1 DEF Current
    <3> QED BY <1>0, <2>2, <3>2 DEF Draft, Matches
  <2>7. InOrder(t)'
    <3>1. \A i \in 1 .. Len(replies[t]) : sent'[t][i] = sent[t][i]
      BY <1>0, <2>3, <2>4
    <3> QED BY <1>0, <2>2, <3>1 DEF InOrder, Matches
  <2> QED BY <1>0, <2>2, <2>5, <2>6, <2>7 DEF Away
<1>11. CASE Stall(t) \/ Leave(t)
  <2>1. /\ UNCHANGED <<sent[t], received[t], replies[t], handler[t], reply[t]>>
        /\ peer[t] # "away" /\ peer'[t] # "away"
    BY <1>0, <1>11 DEF Stall, Leave
  <2> QED BY <1>0, <2>1 DEF Progress, Draft, InOrder, Away, Matches, Current
<1> QED BY <1>1, <1>2, <1>3, <1>4, <1>5, <1>6, <1>7, <1>8, <1>9, <1>10, <1>11
        DEF ClientStep, HandlerStep

\* A client thread that nobody moves stays right.
LEMMA SameOK ==
  ASSUME NEW t, Same(t)
  PROVE  ClientOK(t) => ClientOK(t)'
BY DEF Same, ClientOK, Progress, Draft, InOrder, Away, Matches, Current

LEMMA ClientInvNext ==
  ASSUME Typed, MainInv, ClientInv, CallInv, [Next]_vars
  PROVE  ClientInv'
<1> SUFFICES ASSUME NEW u \in Clients PROVE ClientOK(u)'
  BY DEF ClientInv
<1>0. u \in Threads /\ ClientOK(u)
  BY DEF Clients, Threads, ClientInv
<1>1. ASSUME NEW t \in Threads, ClientStep(t) PROVE ClientOK(u)'
  <2>1. CASE u = t
    BY <1>1, <2>1, ClientNext
  <2>2. CASE u # t
    BY <1>0, <1>1, <2>2, OthersSame, SameOK
  <2> QED BY <2>1, <2>2
<1>2. CASE StepReturns
  BY <1>0, <1>2, ClientsSame, SameOK
<1>3. CASE CardMoves \/ ClearLog \/ UNCHANGED vars
  BY <1>0, <1>3, AllSame, SameOK
<1> QED BY <1>1, <1>2, <1>3, Actors

LEMMA MainInvNext ==
  ASSUME Typed, MainInv, [Next]_vars
  PROVE  MainInv'
<1>0. Main \in Threads /\ handler \in [Threads -> Places]
  BY DEF Threads, Typed, WorkTyped
<1>1. Same(Main) => MainInv'
  BY DEF Same, MainInv
<1>2. ASSUME NEW t \in Threads, ClientStep(t) PROVE MainInv'
  <2>1. CASE t = Main
    <3>1. Call(Main) \/ BackendStep(Main)
      BY <1>2, <2>1, MainSteps
    <3> QED BY <1>0, <3>1 DEF Call, BackendStep, wire, work, MainInv
  <2>2. CASE t # Main
    BY <1>0, <1>1, <1>2, <2>2, OthersSame
  <2> QED BY <2>1, <2>2
<1>3. CASE StepReturns
  BY <1>0, <1>3 DEF StepReturns, AfterFailedStep, AfterStep, MainInv, wire
<1>4. CASE CardMoves \/ ClearLog \/ UNCHANGED vars
  BY <1>0, <1>1, <1>4, AllSame
<1> QED BY <1>2, <1>3, <1>4, Actors

LEMMA CallNext ==
  ASSUME Typed, CallInv, NEW t \in Threads, ClientStep(t)
  PROVE  CallOK(t)'
<1>0. /\ CallOK(t) /\ todo[t] \in Seq(DriverCalls)
      /\ status \in [Threads -> {"idle", "pending", "answered"}]
      /\ op \in [Threads -> DriverCalls \cup {NoOp}]
      /\ handler \in [Threads -> Places]
      /\ todo \in [Threads -> Seq(DriverCalls)]
  BY DEF CallInv, Typed, ImageTyped, WorkTyped
<1> USE DEF CallOK, image, wire, work
<1>1. CASE Begin(t)
  BY <1>0, <1>1 DEF Begin
<1>2. CASE Receive(t)
  <2> DEFINE r == sent[t][received[t] + 1]
             v == Verdict(r)
  <2>1. /\ handler[t] = "recv" /\ handler'[t] = AfterVerdict(v)
        /\ todo'[t] = IF v = "OK" THEN CallsFor(r) ELSE <<>>
        /\ UNCHANGED <<status, op>>
    BY <1>0, <1>2 DEF Receive
  <2>2. r \in Requests
    BY <1>2 DEF Receive, Typed, WireTyped, WorkTyped
  <2>3. /\ handler'[t] # "wait"
        /\ handler'[t] = "call" => v = "OK"
    BY <2>1, <2>2, RequestTypes DEF AfterVerdict, AfterMalformed
  <2>4. v = "OK" => CallsFor(r) # <<>>
    BY <2>2, RequestTypes
  <2> HIDE DEF v
  <2> QED BY <1>0, <2>1, <2>3, <2>4
<1>3. CASE Call(t)
  <2>1. status'[t] = "pending"
    BY <1>0, <1>3, InvokeMeans DEF Call
  <2> QED BY <1>0, <1>3, <2>1 DEF Call
<1>4. CASE BackendStep(t)
  <2>1. status[t] = "pending" /\ status'[t] = "answered" /\ UNCHANGED op
    BY <1>0, <1>4, AnswerMeans DEF BackendStep, Typed
  <2> QED BY <1>0, <1>4, <2>1 DEF BackendStep
<1>5. CASE CallReturns(t)
  <2>1. status'[t] = "idle"
    BY <1>0, <1>5, ReturnMeans DEF CallReturns
  <2>2. handler'[t] \in {"call", "send"}
    BY <1>0, <1>5 DEF CallReturns, AfterError
  <2>3. handler'[t] = "call" => todo'[t] # <<>>
    <3> SUFFICES ASSUME handler'[t] = "call" PROVE todo'[t] # <<>>
      OBVIOUS
    <3>1. answer[t].rc = OK
      BY <1>0, <1>5 DEF CallReturns, AfterError
    <3>2. todo'[t] = Tail(todo[t]) /\ Len(todo[t]) > 1
      BY <1>0, <1>5, <3>1 DEF CallReturns
    <3>3. Tail(todo[t]) # <<>>
      BY <1>0, <3>2, RestLeft
    <3> QED BY <3>2, <3>3
  <2> QED BY <2>1, <2>2, <2>3
<1>6. CASE Respond(t) \/ RespondFails(t) \/ ReceiveEnds(t) \/ End(t)
  BY <1>0, <1>6 DEF Respond, RespondFails, ReceiveEnds, AfterEof, End
<1>7. CASE Record(t)
  BY <1>0, <1>7 DEF Record
<1>8. CASE Arrive(t) \/ SendRequest(t) \/ Stall(t) \/ Leave(t)
  BY <1>0, <1>8 DEF Arrive, SendRequest, Stall, Leave
<1> QED BY <1>1, <1>2, <1>3, <1>4, <1>5, <1>6, <1>7, <1>8 DEF ClientStep, HandlerStep

LEMMA CallInvNext ==
  ASSUME Typed, MainInv, CallInv, [Next]_vars
  PROVE  CallInv'
<1> SUFFICES ASSUME NEW u \in Threads PROVE CallOK(u)'
  BY DEF CallInv
<1>0. CallOK(u) /\ Main \in Threads
  BY DEF CallInv, Threads
<1>1. Same(u) => CallOK(u)'
  BY <1>0 DEF Same, CallOK
<1>2. ASSUME NEW t \in Threads, ClientStep(t) PROVE CallOK(u)'
  <2>1. CASE u = t
    BY <1>2, <2>1, CallNext
  <2>2. CASE u # t
    BY <1>1, <1>2, <2>2, OthersSame
  <2> QED BY <2>1, <2>2
<1>3. CASE StepReturns
  <2>1. CASE u = Main
    <3>1. /\ todo[Main] \in Seq(DriverCalls) /\ todo[Main] # <<>>
          /\ status \in [Threads -> {"idle", "pending", "answered"}]
          /\ handler \in [Threads -> Places] /\ todo \in [Threads -> Seq(DriverCalls)]
      BY <1>0, <1>3, <2>1 DEF StepReturns, CallOK, Typed, ImageTyped, WorkTyped
    <3>2. status'[Main] = "idle"
      BY <1>0, <1>3, <3>1, ReturnMeans DEF StepReturns
    <3>3. todo'[Main] = Tail(todo[Main]) /\ handler'[Main] = AfterStep
      BY <1>0, <1>3, <3>1 DEF StepReturns, AfterFailedStep
    <3>4. AfterStep = "call" => Tail(todo[Main]) # <<>>
      <4>1. AfterStep = "call" => Len(todo[Main]) > 1
        BY DEF AfterStep
      <4>2. Len(todo[Main]) > 1 => Tail(todo[Main]) # <<>>
        BY <3>1, RestLeft
      <4> QED BY <4>1, <4>2
    <3>5. AfterStep \in {"call", "serving"}
      BY DEF AfterStep
    <3> QED BY <2>1, <3>2, <3>3, <3>4, <3>5 DEF CallOK
  <2>2. CASE u # Main
    <3>1. u \in Clients
      BY <2>2 DEF Clients, Threads
    <3> QED BY <1>1, <1>3, <3>1, ClientsSame
  <2> QED BY <2>1, <2>2
<1>4. CASE CardMoves \/ ClearLog \/ UNCHANGED vars
  BY <1>1, <1>4, AllSame
<1> QED BY <1>2, <1>3, <1>4, Actors

-----------------------------------------------------------------------------
(* The traffic log                                                          *)

\* An event was answered as it says, and its thread is past recording it.
Happened(e) ==
  /\ e.thread \in Clients
  /\ e.number \in 1 .. Len(replies[e.thread])
  /\ e.request = sent[e.thread][e.number]
  /\ e.response = replies[e.thread][e.number]
  /\ handler[e.thread] = "record" => e.number < received[e.thread]

LogInv ==
  /\ \A k \in 1 .. Len(log) : Happened(log[k])
  /\ \A j, k \in 1 .. Len(log) :
       j < k /\ log[j].thread = log[k].thread => log[j].number < log[k].number
  /\ Len(log) <= MaxEvents

LEMMA LogInit == Init => LogInv
<1> SUFFICES ASSUME Init PROVE LogInv
  OBVIOUS
<1>1. log = <<>> /\ MaxEvents \in Nat
  BY BoundAssumption DEF Init
<1>2. Len(log) = 0
  BY <1>1
<1> QED BY <1>1, <1>2 DEF LogInv

\* What happened has happened.
LEMMA StaysHappened ==
  ASSUME Typed, MainInv, ClientInv, [Next]_vars, NEW e \in Events, Happened(e)
  PROVE  Happened(e)'
<1> DEFINE u == e.thread
<1>0. /\ u \in Clients /\ u \in Threads /\ u # Main /\ ClientOK(u)
      /\ e.number \in 1 .. Len(replies[u])
      /\ sent[u] \in Seq(Requests) /\ replies[u] \in Seq(Drafts) /\ received[u] \in Nat
      /\ received[u] <= Len(sent[u]) /\ Len(replies[u]) <= received[u]
      /\ replies \in [Threads -> Seq(Drafts)] /\ sent \in [Threads -> Seq(Requests)]
      /\ handler \in [Threads -> Places]
  BY ThreadAssumption
  DEF Happened, ClientInv, ClientOK, Progress, Clients, Threads, Typed, WireTyped, WorkTyped
<1> HIDE DEF u
<1>1. ASSUME UNCHANGED <<sent[u], replies[u], received[u]>>, handler[u]' # "record" \/ UNCHANGED handler[u]
      PROVE  Happened(e)'
  BY <1>1 DEF Happened, u
<1>2. ASSUME ClientStep(u) PROVE Happened(e)'
  <2>1. CASE Begin(u) \/ Call(u) \/ CallReturns(u) \/ RespondFails(u) \/ ReceiveEnds(u) \/ End(u)
    <3>1. UNCHANGED <<sent, replies, received>>
      BY <2>1 DEF Begin, Call, CallReturns, RespondFails, ReceiveEnds, End, wire
    <3>2. handler'[u] # "record"
      BY <1>0, <2>1 DEF Begin, Call, CallReturns, AfterError, RespondFails, ReceiveEnds, AfterEof, End
    <3> QED BY <1>1, <3>1, <3>2
  <2>2. CASE Receive(u)
    <3>1. UNCHANGED <<sent, replies>> /\ handler'[u] # "record"
      BY <1>0, <2>2 DEF Receive, wire, AfterVerdict, AfterMalformed
    <3> QED BY <3>1 DEF Happened, u
  <2>3. CASE BackendStep(u) \/ Stall(u) \/ Leave(u)
    BY <1>1, <2>3 DEF BackendStep, Stall, Leave, wire, work
  <2>4. CASE Record(u)
    BY <1>0, <1>1, <2>4 DEF Record, wire
  <2>5. CASE Respond(u)
    <3>1. received[u] = Len(replies[u]) + 1
      BY <1>0, <2>5 DEF Respond, ClientOK, Progress
    <3>2. replies'[u] = Append(replies[u], reply[u]) /\ UNCHANGED <<sent, received>>
      BY <1>0, <2>5 DEF Respond
    <3>3. /\ e.number \in 1 .. Len(replies'[u]) /\ replies'[u][e.number] = replies[u][e.number]
          /\ e.number < received[u]
      BY <1>0, <3>1, <3>2
    <3> QED BY <3>2, <3>3 DEF Happened, u
  <2>6. CASE SendRequest(u)
    <3>1. PICK r \in Requests : sent'[u] = Append(sent[u], r)
      BY <1>0, <2>6 DEF SendRequest
    <3>2. sent'[u][e.number] = sent[u][e.number]
      BY <1>0, <3>1
    <3> QED BY <2>6, <3>2 DEF SendRequest, work, Happened, u
  <2>7. CASE Arrive(u)
    <3>1. Len(sent[u]) = 0
      BY <1>0, <2>7 DEF Arrive, ClientOK, Away
    <3> QED BY <1>0, <3>1
  <2> QED BY <1>2, <2>1, <2>2, <2>3, <2>4, <2>5, <2>6, <2>7 DEF ClientStep, HandlerStep
<1>3. Same(u) => Happened(e)'
  BY <1>1 DEF Same
<1>4. ASSUME NEW t \in Threads, ClientStep(t) PROVE Happened(e)'
  BY <1>0, <1>2, <1>3, <1>4, OthersSame
<1>5. CASE StepReturns
  BY <1>0, <1>3, <1>5, ClientsSame
<1>6. CASE CardMoves \/ ClearLog \/ UNCHANGED vars
  BY <1>0, <1>3, <1>6, AllSame
<1> QED BY <1>4, <1>5, <1>6, Actors

\* What a thread records happened, later than anything it has recorded.
LEMMA RecordHappened ==
  ASSUME Typed, MainInv, ClientInv, NEW t \in Threads, Record(t), NEW e, e = Event(t)
  PROVE  /\ e \in Events /\ Happened(e)'
         /\ \A d : Happened(d) /\ d.thread = t => d.number < e.number
<1>1. handler[t] = "record"
  BY DEF Record
<1>2. t \in Clients /\ ClientOK(t) /\ received[t] \in 1 .. Len(sent[t])
      /\ Current(t) \in Requests
  BY <1>1, CurrentSent DEF ClientInv
<1>3. received[t] \in 1 .. Len(replies[t]) /\ replies[t][received[t]] = reply[t]
  BY <1>1, <1>2 DEF ClientOK, Progress, Draft, Typed, WorkTyped
<1>4. /\ e.thread = t /\ e.number = received[t]
      /\ e.request = sent[t][received[t]] /\ e.response = reply[t]
  BY DEF Event
<1>5. e \in Events
  <2>1. received[t] \in Nat /\ reply[t] \in Drafts
    BY DEF Typed, WorkTyped
  <2> QED BY <1>2, <2>1 DEF Event, Events, Current
<1>6. UNCHANGED <<sent, replies, received>> /\ handler'[t] # "record"
  BY DEF Record, wire, Typed, WorkTyped
<1>7. Happened(e)'
  BY <1>2, <1>3, <1>4, <1>6 DEF Happened
<1>8. \A d : Happened(d) /\ d.thread = t => d.number < e.number
  BY <1>1, <1>4 DEF Happened
<1> QED BY <1>5, <1>7, <1>8

LEMMA LogNext ==
  ASSUME Typed, MainInv, ClientInv, LogInv, [Next]_vars
  PROVE  LogInv'
<1>0. log \in Seq(Events) /\ MaxEvents \in Nat
  BY BoundAssumption DEF Typed
<1>1. CASE UNCHANGED log
  <2>1. \A k \in 1 .. Len(log) : log[k] \in Events /\ Happened(log[k])
    BY <1>0 DEF LogInv
  <2>2. \A k \in 1 .. Len(log) : \A e : e = log[k] => Happened(e)'
    BY <2>1, StaysHappened
  <2> SUFFICES ASSUME NEW k \in 1 .. Len(log) PROVE Happened(log[k])'
    BY <1>1 DEF LogInv
  <2>3. PICK e : e = log[k]
    OBVIOUS
  <2>4. Happened(e)' /\ log'[k] = e
    BY <1>1, <2>2, <2>3
  <2> QED BY <2>4 DEF Happened
<1>2. CASE ClearLog
  <2>1. log' = <<>>
    BY <1>2 DEF ClearLog
  <2>2. Len(log') = 0
    BY <2>1
  <2> QED BY <1>0, <2>1, <2>2 DEF LogInv
<1>3. ASSUME NEW t \in Threads, Record(t) PROVE LogInv'
  <2> DEFINE new == Append(log, Event(t))
  <2>1. PICK d : d = Event(t)
    OBVIOUS
  <2>2. /\ d \in Events /\ Happened(d)' /\ d.thread = t
        /\ \A e : Happened(e) /\ e.thread = d.thread => e.number < d.number
    BY <1>3, <2>1, RecordHappened DEF Event
  <2>3. /\ new \in Seq(Events) /\ new # <<>> /\ Len(new) = Len(log) + 1
        /\ new[Len(log) + 1] = d
        /\ \A k \in 1 .. Len(log) : new[k] = log[k]
    BY <1>0, <2>1, <2>2
  <2>4. \A k \in 1 .. Len(log) : log[k] \in Events /\ Happened(log[k])
    BY <1>0 DEF LogInv
  <2>5. \A k \in 1 .. Len(new) : \A e : e = new[k] => Happened(e)'
    <3> SUFFICES ASSUME NEW k \in 1 .. Len(new), NEW e, e = new[k] PROVE Happened(e)'
      OBVIOUS
    <3>1. CASE k \in 1 .. Len(log)
      BY <2>3, <2>4, <3>1, StaysHappened
    <3>2. CASE k = Len(log) + 1
      BY <2>2, <2>3, <3>2
    <3> QED BY <1>0, <2>3, <3>1, <3>2
  <2>6. \A j, k \in 1 .. Len(new) :
          j < k /\ new[j].thread = new[k].thread => new[j].number < new[k].number
    <3> SUFFICES ASSUME NEW j \in 1 .. Len(new), NEW k \in 1 .. Len(new), j < k,
                        new[j].thread = new[k].thread
                 PROVE  new[j].number < new[k].number
      OBVIOUS
    <3>1. CASE k \in 1 .. Len(log)
      BY <2>3, <3>1 DEF LogInv
    <3>2. CASE k = Len(log) + 1
      <4>1. j \in 1 .. Len(log)
        BY <1>0, <2>3, <3>2
      <4> QED BY <2>2, <2>3, <2>4, <3>2, <4>1
    <3> QED BY <1>0, <2>3, <3>1, <3>2
  <2>7. PICK n \in {0, 1} :
          /\ Len(log') = Len(new) - n /\ Len(log') <= MaxEvents
          /\ \A k \in 1 .. Len(log') : log'[k] = new[k + n]
    <3>1. log' = Kept(new)
      BY <1>3 DEF Record
    <3>2. Len(new) \in Nat /\ Len(log) \in Nat /\ Len(log) <= MaxEvents
      BY <1>0, <2>3 DEF LogInv
    <3> HIDE DEF new
    <3>3. \/ Kept(new) = new /\ Len(new) <= MaxEvents
          \/ /\ Kept(new) = Tail(new) /\ Len(Tail(new)) = Len(new) - 1
             /\ \A i \in 1 .. Len(Tail(new)) : Tail(new)[i] = new[i + 1]
      BY <2>3, KeptMeans
    <3>4. CASE Kept(new) = new /\ Len(new) <= MaxEvents
      <4>1. Len(log') = Len(new) - 0 /\ \A k \in 1 .. Len(log') : log'[k] = new[k + 0]
        BY <3>1, <3>2, <3>4
      <4> QED BY <3>1, <3>4, <4>1
    <3>5. CASE ~(Kept(new) = new /\ Len(new) <= MaxEvents)
      <4>1. /\ Len(log') = Len(new) - 1
            /\ \A k \in 1 .. Len(log') : log'[k] = new[k + 1]
        BY <3>1, <3>3, <3>5
      <4>2. Len(log') <= MaxEvents
        BY <2>3, <3>2, <4>1
      <4> QED BY <4>1, <4>2
    <3> QED BY <3>4, <3>5
  <2>8. Len(new) \in Nat
    BY <2>3
  <2> HIDE DEF new
  <2>9. \A k \in 1 .. Len(log') : k + n \in 1 .. Len(new)
    BY <2>7, <2>8
  <2>10. \A k \in 1 .. Len(log') : Happened(log[k])'
    <3> SUFFICES ASSUME NEW k \in 1 .. Len(log') PROVE Happened(log[k])'
      OBVIOUS
    <3>1. PICK e : e = new[k + n]
      OBVIOUS
    <3>2. Happened(e)' /\ log'[k] = e
      BY <2>5, <2>7, <2>9, <3>1
    <3> QED BY <3>2 DEF Happened
  <2>11. \A j, k \in 1 .. Len(log') :
           j < k /\ log'[j].thread = log'[k].thread => log'[j].number < log'[k].number
    <3> SUFFICES ASSUME NEW j \in 1 .. Len(log'), NEW k \in 1 .. Len(log'), j < k,
                        log'[j].thread = log'[k].thread
                 PROVE  log'[j].number < log'[k].number
      OBVIOUS
    <3>1. j + n < k + n
      BY <2>7
    <3> QED BY <2>6, <2>7, <2>9, <3>1
  <2> QED BY <2>7, <2>10, <2>11 DEF LogInv
<1>4. ASSUME NEW t \in Threads, ClientStep(t), ~Record(t) PROVE UNCHANGED log
  BY <1>4
  DEF ClientStep, HandlerStep, Begin, Receive, Call, BackendStep, CallReturns, Respond,
      RespondFails, ReceiveEnds, End, Arrive, SendRequest, Stall, Leave
<1>5. StepReturns \/ CardMoves \/ UNCHANGED vars => UNCHANGED log
  BY DEF StepReturns, CardMoves, vars
<1> QED BY <1>1, <1>2, <1>3, <1>4, <1>5, Actors

-----------------------------------------------------------------------------
(* The count of the connections                                             *)

Handled == {t \in Tcp : handler[t] \notin {"none", "done"}}

LEMMA CountInit == Init => CountIsHandlers
<1> SUFFICES ASSUME Init PROVE CountIsHandlers
  OBVIOUS
<1>1. \A t \in Tcp : handler[t] = "none"
  BY ThreadAssumption DEF Init, Threads, Clients
<1>2. {t \in Tcp : handler[t] \notin {"none", "done"}} = {}
  BY <1>1
<1> QED BY <1>2, FS_EmptySet DEF Init, CountIsHandlers

LEMMA CountNext ==
  ASSUME Typed, CountIsHandlers, [Next]_vars
  PROVE  CountIsHandlers'
<1>0. /\ Tcp \subseteq Threads /\ Main \notin Tcp /\ handler \in [Threads -> Places]
      /\ IsFiniteSet(Handled) /\ Cardinality(Handled) \in Nat /\ connections = Cardinality(Handled)
  <2>1. Handled \in SUBSET Tcp
    BY DEF Handled
  <2>2. IsFiniteSet(Handled) /\ Cardinality(Handled) \in Nat
    BY <2>1, ThreadAssumption, FS_Subset, FS_CardinalityType
  <2> QED BY <2>2, ThreadAssumption DEF Threads, Clients, Typed, WorkTyped, CountIsHandlers, Handled
<1>1. CountIsHandlers' <=> connections' = Cardinality(Handled')
  BY DEF CountIsHandlers, Handled
<1>2. ASSUME UNCHANGED connections, Handled' = Handled PROVE CountIsHandlers'
  BY <1>0, <1>1, <1>2
<1>3. ASSUME NEW t \in Threads, ClientStep(t) PROVE CountIsHandlers'
  <2>0. \A u \in Tcp \ {t} : handler'[u] = handler[u]
    BY <1>0, <1>3, OthersSame DEF Same
  <2>1. CASE Begin(t)
    <3>1. handler[t] = "none" /\ handler'[t] = "recv"
      BY <1>0, <2>1 DEF Begin
    <3>2. CASE t \in Tcp
      <4>1. Handled' = Handled \cup {t} /\ t \notin Handled
        BY <2>0, <3>1, <3>2 DEF Handled
      <4>2. Cardinality(Handled') = Cardinality(Handled) + 1
        BY <1>0, <4>1, FS_AddElement
      <4> QED BY <1>0, <1>1, <2>1, <3>2, <4>2 DEF Begin
    <3>3. CASE t \notin Tcp
      <4>1. Handled' = Handled
        BY <2>0, <3>3 DEF Handled
      <4> QED BY <1>2, <2>1, <3>3, <4>1 DEF Begin
    <3> QED BY <3>2, <3>3
  <2>2. CASE End(t)
    <3>1. handler[t] = "end" /\ handler'[t] = "done"
      BY <1>0, <2>2 DEF End
    <3>2. CASE t \in Tcp
      <4>1. Handled' = Handled \ {t} /\ t \in Handled
        BY <2>0, <3>1, <3>2 DEF Handled
      <4>2. Cardinality(Handled') = Cardinality(Handled) - 1
        BY <1>0, <4>1, FS_RemoveElement
      <4> QED BY <1>0, <1>1, <2>2, <3>2, <4>2 DEF End, Uncounts
    <3>3. CASE t \notin Tcp
      <4>1. Handled' = Handled
        BY <2>0, <3>3 DEF Handled
      <4> QED BY <1>2, <2>2, <3>3, <4>1 DEF End, Uncounts
    <3> QED BY <3>2, <3>3
  <2>3. CASE ~Begin(t) /\ ~End(t)
    <3>1. /\ UNCHANGED connections
          /\ handler[t] \in {"none", "done"} <=> handler'[t] \in {"none", "done"}
      <4>1. CASE Receive(t)
        BY <1>0, <4>1 DEF Receive, AfterVerdict, AfterMalformed
      <4>2. CASE Call(t) \/ BackendStep(t)
        BY <1>0, <4>2 DEF Call, BackendStep, work
      <4>3. CASE CallReturns(t)
        BY <1>0, <4>3 DEF CallReturns, AfterError
      <4>4. CASE Respond(t) \/ RespondFails(t) \/ Record(t) \/ ReceiveEnds(t)
        BY <1>0, <4>4 DEF Respond, RespondFails, Record, ReceiveEnds, AfterEof
      <4>5. CASE Arrive(t) \/ SendRequest(t) \/ Stall(t) \/ Leave(t)
        BY <4>5 DEF Arrive, SendRequest, Stall, Leave, work
      <4> QED BY <1>3, <2>3, <4>1, <4>2, <4>3, <4>4, <4>5 DEF ClientStep, HandlerStep
    <3>2. Handled' = Handled
      BY <2>0, <3>1 DEF Handled
    <3> QED BY <1>2, <3>1, <3>2
  <2> QED BY <2>1, <2>2, <2>3
<1>4. CASE StepReturns
  <2>1. \A u \in Tcp : handler'[u] = handler[u]
    BY <1>4, ClientsSame DEF Same, Clients
  <2>2. Handled' = Handled
    BY <2>1 DEF Handled
  <2> QED BY <1>2, <1>4, <2>2 DEF StepReturns
<1>5. CASE CardMoves \/ ClearLog \/ UNCHANGED vars
  <2>1. UNCHANGED <<connections, handler>>
    BY <1>5 DEF CardMoves, ClearLog, vars, work
  <2>2. Handled' = Handled
    BY <2>1 DEF Handled
  <2> QED BY <1>2, <2>1, <2>2
<1> QED BY <1>3, <1>4, <1>5, Actors

-----------------------------------------------------------------------------
(* The marks of a zeroed output                                             *)

ClearedInv == \A t \in Tcp : cleared[t] <= received[t]

\* A connection's mark moves up only, and never past what it has read.
LEMMA MarksGrow ==
  ASSUME Typed, ClearedInv, [Next]_vars, NEW t \in Tcp
  PROVE  /\ cleared[t] \in Nat /\ cleared'[t] \in Nat
         /\ cleared[t] <= cleared'[t] /\ cleared'[t] <= received'[t]
<1>0. /\ t \in Threads /\ cleared[t] \in Nat /\ received[t] \in Nat /\ cleared[t] <= received[t]
      /\ received \in [Threads -> Nat]
  BY DEF Typed, WorkTyped, ClearedInv, Threads, Clients
<1>1. UNCHANGED received[t] \/ received'[t] = received[t] + 1
  <2>1. ASSUME NEW v \in Threads, ClientStep(v), v # t PROVE UNCHANGED received[t]
    BY <1>0, <2>1, OthersSame DEF Same
  <2>2. CASE Receive(t)
    BY <1>0, <2>2 DEF Receive
  <2>3. CASE ClientStep(t) /\ ~Receive(t)
    BY <2>3
    DEF ClientStep, HandlerStep, Begin, Call, BackendStep, CallReturns, Respond, RespondFails,
        Record, ReceiveEnds, End, Arrive, SendRequest, Stall, Leave, work
  <2>4. CASE StepReturns \/ CardMoves \/ ClearLog \/ UNCHANGED vars
    BY <2>4 DEF StepReturns, CardMoves, ClearLog, vars, work
  <2> QED BY <2>1, <2>2, <2>3, <2>4, Actors
<1>2. UNCHANGED cleared \/ NoteCleared
  BY DEF Next, HandlerStep, Begin, Receive, Call, BackendStep, CallReturns, Respond, RespondFails,
         Record, ReceiveEnds, End, Arrive, SendRequest, Stall, Leave, StepReturns, CardMoves,
         ClearLog, vars, ghosts
<1>3. cleared'[t] \in {cleared[t], received[t]}
  BY <1>2, MarkMeans
<1> QED BY <1>0, <1>1, <1>3

LEMMA ClearedInit == Init => ClearedInv
BY ThreadAssumption DEF Init, ClearedInv, Threads, Clients

LEMMA ClearedNext ==
  ASSUME Typed, ClearedInv, [Next]_vars
  PROVE  ClearedInv'
BY MarksGrow DEF ClearedInv

-----------------------------------------------------------------------------
(* What follows of all but the reading back and the startup                *)

Inv == Typed /\ MainInv /\ ClientInv /\ CallInv /\ LogInv /\ CountIsHandlers /\ ClearedInv

LEMMA InvHolds == Spec => []Inv
<1>1. Init => Inv
  BY TypedInit, ClientInit, LogInit, CountInit, ClearedInit DEF Inv
<1>2. Inv /\ [Next]_vars => Inv'
  BY TypedNext, MainInvNext, ClientInvNext, CallInvNext, LogNext, CountNext, ClearedNext DEF Inv
<1> QED BY <1>1, <1>2, PTL DEF Spec

\* Every state of the gateway is of the types its definitions say, the traffic
\* log never grows over its limit and the count of connections is never
\* negative or above their number.
THEOREM FramedTypeCorrect == Spec => []TypeOK
<1>1. Inv => TypeOK
  <2> SUFFICES ASSUME Inv PROVE TypeOK
    OBVIOUS
  <2>1. /\ peer \in [Threads -> {"away", "here", "stalled", "left", "vanished"}]
        /\ handler \in [Threads -> Places]
        /\ Len(log) <= MaxEvents
    BY DEF Inv, Typed, WireTyped, WorkTyped, LogInv
  <2>2. ASSUME NEW t \in Threads
        PROVE  /\ sent[t] \in Seq(Requests)
               /\ received[t] \in 0 .. Len(sent[t])
               /\ \A i \in DOMAIN replies[t] : replies[t][i].status \in Statuses
               /\ todo[t] \in Seq(DriverCalls)
               /\ reply[t].status \in Statuses \cup {"NONE", "DESYNC"}
    <3>1. /\ sent[t] \in Seq(Requests) /\ todo[t] \in Seq(DriverCalls) /\ reply[t] \in Drafts
          /\ received[t] \in Nat /\ replies[t] \in Seq(Drafts)
      BY DEF Inv, Typed, WireTyped, WorkTyped
    <3>2. /\ received[t] <= Len(sent[t])
          /\ \A i \in 1 .. Len(replies[t]) : replies[t][i].status \in Statuses
      <4>1. CASE t \in Clients
        BY <4>1 DEF Inv, ClientInv, ClientOK, Progress, InOrder
      <4>2. CASE t = Main
        <5>1. received[t] = 0 /\ replies[t] = <<>> /\ sent[t] = <<>>
          BY <4>2 DEF Inv, MainInv
        <5>2. Len(replies[t]) = 0 /\ Len(sent[t]) = 0
          BY <5>1
        <5> QED BY <5>1, <5>2
      <4> QED BY <4>1, <4>2 DEF Threads
    <3>3. DOMAIN replies[t] = 1 .. Len(replies[t])
      BY <3>1
    <3> QED BY <3>1, <3>2, <3>3 DEF Drafts
  <2>3. connections \in 0 .. Cardinality(Tcp)
    <3>1. Handled \in SUBSET Tcp
      BY DEF Handled
    <3>2. /\ Cardinality(Handled) \in Nat /\ Cardinality(Tcp) \in Nat
          /\ Cardinality(Handled) <= Cardinality(Tcp)
      BY <3>1, ThreadAssumption, FS_Subset, FS_CardinalityType
    <3> QED BY <3>2 DEF Inv, CountIsHandlers, Handled
  <2>4. \A t \in Tcp : cleared[t] \in 0 .. received[t]
    <3> SUFFICES ASSUME NEW t \in Tcp PROVE cleared[t] \in 0 .. received[t]
      OBVIOUS
    <3>1. cleared[t] \in Nat /\ received[t] \in Nat /\ cleared[t] <= received[t]
      BY DEF Inv, Typed, WorkTyped, ClearedInv, Threads, Clients
    <3> QED BY <3>1
  <2> QED BY <2>1, <2>2, <2>3, <2>4 DEF TypeOK, Places
<1> QED BY <1>1, InvHolds, PTL

\* However requests are pipelined and fail, the i-th response on a connection
\* answers its i-th request, and a malformed frame has its own answer.
THEOREM FramedAnsweredInOrder == Spec => []AnsweredInOrder
<1>1. Inv => AnsweredInOrder
  <2> SUFFICES ASSUME Inv, NEW t \in Threads
               PROVE  /\ Len(replies[t]) <= received[t]
                      /\ \A i \in DOMAIN replies[t] : Matches(replies[t][i], sent[t][i])
    BY DEF AnsweredInOrder, Matches
  <2>1. replies[t] \in Seq(Drafts)
    BY DEF Inv, Typed, WireTyped
  <2>2. DOMAIN replies[t] = 1 .. Len(replies[t])
    BY <2>1
  <2>3. CASE t \in Clients
    BY <2>2, <2>3 DEF Inv, ClientInv, ClientOK, Progress, InOrder
  <2>4. CASE t = Main
    <3>1. received[t] = 0 /\ replies[t] = <<>>
      BY <2>4 DEF Inv, MainInv
    <3>2. Len(replies[t]) = 0
      BY <3>1
    <3> QED BY <2>2, <3>1, <3>2
  <2> QED BY <2>3, <2>4 DEF Threads
<1> QED BY <1>1, InvHolds, PTL

\* Whatever is dropped or cleared meanwhile, each exchange the log lists was
\* answered just as it is listed, and is listed once, in order.
THEOREM FramedLogTruthful == Spec => []LogTruthful
<1>1. Inv => LogTruthful
  <2> SUFFICES ASSUME Inv PROVE LogTruthful
    OBVIOUS
  <2>1. DOMAIN log = 1 .. Len(log)
    BY DEF Inv, Typed
  <2>2. \A t \in Clients : DOMAIN replies[t] = 1 .. Len(replies[t])
    <3> SUFFICES ASSUME NEW t \in Clients PROVE DOMAIN replies[t] = 1 .. Len(replies[t])
      OBVIOUS
    <3>1. replies[t] \in Seq(Drafts)
      BY DEF Inv, Typed, WireTyped, Threads
    <3> QED BY <3>1
  <2> QED BY <2>1, <2>2 DEF Inv, LogInv, Happened, LogTruthful
<1> QED BY <1>1, InvHolds, PTL

\* However connections begin and end, the count the window shows is the number
\* of those being served.
THEOREM FramedCountIsHandlers == Spec => []CountIsHandlers
BY InvHolds, PTL DEF Inv

-----------------------------------------------------------------------------
(* Reading back                                                             *)

OutputWrite(o) == o.kind = "write" /\ o.reg = "output"
OutputCommands == {"WRITE_OUTPUT", "READ_OUTPUT"}

\* Calls that touch the output image are the whole of their request.
OutputCalls(t) ==
  handler[t] \in {"call", "wait"} =>
    IF t # Main /\ Current(t).command \in OutputCommands
    THEN todo[t] = CallsFor(Current(t)) /\ reply[t].data = <<>>
    ELSE \A i \in 1 .. Len(todo[t]) : ~OutputWrite(todo[t][i])

OutputInv == \A t \in Threads : OutputCalls(t)

\* Clients send as many requests as they may.
SentInv ==
  /\ \A t \in Udp : Len(sent[t]) <= 1
  /\ \A t \in Tcp : Len(sent[t]) <= MaxRequests

\* Nobody but t has asked for a write of the output.
Sole(t) == \A u \in Clients \ {t} : \A k \in 1 .. Len(sent[u]) : ~Wrote(u, k)

\* The request in hand has succeeded, so far as it has gone.
Through(t) ==
  \/ handler[t] = "wait" /\ status[t] = "answered" /\ answer[t].rc = OK
  \/ handler[t] = "send" /\ reply[t].status = "OK"

\* No write after the i-th, up to the j-th, was acknowledged.
LastAcknowledged(t, i, j) ==
  /\ Wrote(t, i) /\ Succeeded(t, i)
  /\ \A k \in i + 1 .. j : ~(Wrote(t, k) /\ Succeeded(t, k))

\* What a read may give once the i-th request was a write: that write or a
\* later one, or zeros when the output was zeroed since.
May(t, i, data) ==
  \/ \E k \in i .. received[t] : Wrote(t, k) /\ data = <<sent[t][k].data>>
  \/ cleared[t] >= i /\ data = <<Blank>>

\* What the read in hand has given so far.
Given(t) == IF handler[t] = "send" THEN reply[t].data ELSE Data(answer[t])

\* What the request in hand did: a write that went through is in the image,
\* unless that was zeroed; a read has what the image held.
InHand(t) ==
  Through(t) =>
    /\ Current(t).command = "WRITE_OUTPUT" =>
         \/ card["output"] = Current(t).data
         \/ cleared[t] >= received[t] /\ card["output"] = Blank
    /\ Current(t).command = "READ_OUTPUT" =>
         \A i \in 1 .. Len(replies[t]) :
           LastAcknowledged(t, i, Len(replies[t])) => May(t, i, Given(t))

\* The image holds what was acknowledged last, or a later write that failed or
\* is not answered yet, or zeros.
ImageHolds(t) ==
  \A i \in 1 .. Len(replies[t]) :
    LastAcknowledged(t, i, Len(replies[t])) => May(t, i, <<card["output"]>>)

\* The j-th response gives a write from the i-th on, or zeros.
Gave(t, i, j) ==
  \/ \E k \in i .. j - 1 : Wrote(t, k) /\ replies[t][j].data = <<sent[t][k].data>>
  \/ cleared[t] >= i /\ replies[t][j].data = <<Blank>>

\* What reads that were answered gave.
HasRead(t) ==
  \A i, j \in 1 .. Len(replies[t]) :
    /\ i < j
    /\ sent[t][j].command = "READ_OUTPUT" /\ Succeeded(t, j)
    /\ LastAcknowledged(t, i, j - 1)
    => Gave(t, i, j)

SoleInv == \A t \in Tcp : Sole(t) => InHand(t) /\ ImageHolds(t) /\ HasRead(t)

\* Only who opens a connection and who sends on it changes what was sent.
LEMMA SentMoves ==
  ASSUME Inv, [Next]_vars, NEW u \in Clients
  PROVE  UNCHANGED sent[u] \/ Arrive(u) \/ SendRequest(u)
<1>1. u \in Threads
  BY DEF Clients, Threads
<1>2. ASSUME NEW t \in Threads, ClientStep(t), t # u PROVE UNCHANGED sent[u]
  BY <1>1, <1>2, OthersSame DEF Same, Inv
<1>3. CASE HandlerStep(u) \/ Stall(u) \/ Leave(u)
  BY <1>3
  DEF HandlerStep, Begin, Receive, Call, BackendStep, CallReturns, Respond, RespondFails,
      Record, ReceiveEnds, End, Stall, Leave, wire
<1>4. CASE StepReturns \/ CardMoves \/ ClearLog \/ UNCHANGED vars
  BY <1>4 DEF StepReturns, CardMoves, ClearLog, vars, wire
<1> QED BY <1>1, <1>2, <1>3, <1>4, Actors DEF ClientStep

\* What a client has sent stays sent.
LEMMA SentGrows ==
  ASSUME Inv, [Next]_vars, NEW u \in Clients
  PROVE  /\ Len(sent[u]) <= Len(sent'[u])
         /\ \A k \in 1 .. Len(sent[u]) : sent'[u][k] = sent[u][k]
<1>0. /\ u \in Threads /\ ClientOK(u) /\ sent[u] \in Seq(Requests)
      /\ sent \in [Threads -> Seq(Requests)]
  BY DEF Inv, ClientInv, Clients, Threads, Typed, WireTyped
<1>1. UNCHANGED sent[u] \/ Arrive(u) \/ SendRequest(u)
  BY SentMoves
<1>2. CASE UNCHANGED sent[u]
  BY <1>0, <1>2
<1>3. CASE Arrive(u)
  <2>1. sent[u] = <<>>
    BY <1>0, <1>3 DEF Arrive, ClientOK, Away
  <2>2. sent'[u] \in Seq(Requests)
    BY <1>0, TypedNext DEF Inv, Typed, WireTyped
  <2>3. Len(sent[u]) = 0 /\ Len(sent'[u]) \in Nat
    BY <2>1, <2>2
  <2> QED BY <2>3
<1>4. CASE SendRequest(u)
  <2>1. PICK r \in Requests : sent'[u] = Append(sent[u], r)
    BY <1>0, <1>4 DEF SendRequest
  <2> QED BY <1>0, <2>1
<1> QED BY <1>1, <1>2, <1>3, <1>4

\* A client that is alone has always been.
LEMMA SoleBefore ==
  ASSUME Inv, [Next]_vars, NEW t \in Tcp, Sole(t)'
  PROVE  Sole(t)
<1> SUFFICES ASSUME NEW u \in Clients \ {t}, NEW k \in 1 .. Len(sent[u]), Wrote(u, k)
             PROVE  FALSE
  BY DEF Sole
<1>1. sent[u] \in Seq(Requests) /\ sent'[u] \in Seq(Requests)
  <2>1. u \in Threads
    BY DEF Clients, Threads
  <2> QED BY <2>1, TypedNext DEF Inv, Typed, WireTyped
<1>2. k \in 1 .. Len(sent'[u]) /\ sent'[u][k] = sent[u][k]
  BY <1>1, SentGrows
<1> QED BY <1>2 DEF Sole, Wrote

\* What running a request calls.
LEMMA OutputCallsOf ==
  ASSUME NEW r \in Requests, r.form = "ok"
  PROVE  /\ r.command = "WRITE_OUTPUT" => CallsFor(r) = <<Write("output", r.data)>>
         /\ r.command = "READ_OUTPUT" => CallsFor(r) = <<Read("output")>>
         /\ r.command \notin OutputCommands =>
              \A i \in 1 .. Len(CallsFor(r)) : ~OutputWrite(CallsFor(r)[i])
<1>1. r.command \in Commands \cup {"UNKNOWN"}
  BY RequestTypes DEF AllCommands
<1>2. CASE r.command = "WRITE_OUTPUT"
  BY <1>2 DEF CallsFor, OutputCommands
<1>3. CASE r.command = "READ_OUTPUT"
  BY <1>3 DEF CallsFor, OutputCommands
<1>4. CASE r.command \notin OutputCommands
  <2>1. \/ \E o \in {Read("input"), Write("host", r.data), Watchdog, Reset} : CallsFor(r) = <<o>>
        \/ CallsFor(r) = <<Read("bus"), Read("host")>>
        \/ CallsFor(r) = <<>>
    <3>1. CASE r.command = "READ_INPUT"
      BY <3>1 DEF CallsFor
    <3>2. CASE r.command = "GET_STATUS"
      BY <3>2 DEF CallsFor
    <3>3. CASE r.command = "SET_HOST_STATE"
      BY <3>3 DEF CallsFor
    <3>4. CASE r.command = "WATCHDOG_TRIGGER"
      BY <3>4 DEF CallsFor
    <3>5. CASE r.command = "RESET"
      BY <3>5 DEF CallsFor
    <3>6. CASE r.command = "UNKNOWN"
      BY <3>6 DEF CallsFor
    <3> QED BY <1>1, <1>4, <3>1, <3>2, <3>3, <3>4, <3>5, <3>6 DEF Commands, OutputCommands
  <2>2. /\ \A v : ~OutputWrite(Write("host", v))
        /\ \A reg : ~OutputWrite(Read(reg))
        /\ ~OutputWrite(Watchdog) /\ ~OutputWrite(Reset)
    BY DEF OutputWrite, Write, Read, Watchdog, Reset
  <2>3. CASE \E o \in {Read("input"), Write("host", r.data), Watchdog, Reset} : CallsFor(r) = <<o>>
    <3>1. PICK o : CallsFor(r) = <<o>> /\ ~OutputWrite(o)
      BY <2>2, <2>3
    <3>2. Len(CallsFor(r)) = 1 /\ CallsFor(r)[1] = o
      BY <3>1
    <3> QED BY <1>4, <3>1, <3>2 DEF OutputCommands
  <2>4. CASE CallsFor(r) = <<Read("bus"), Read("host")>>
    <3>1. Len(CallsFor(r)) = 2 /\ CallsFor(r)[1] = Read("bus") /\ CallsFor(r)[2] = Read("host")
      BY <2>4
    <3> QED BY <1>4, <2>2, <3>1 DEF OutputCommands
  <2>5. CASE CallsFor(r) = <<>>
    <3>1. Len(CallsFor(r)) = 0
      BY <2>5
    <3> QED BY <1>4, <3>1 DEF OutputCommands
  <2> QED BY <2>1, <2>3, <2>4, <2>5
<1> QED BY <1>2, <1>3, <1>4 DEF OutputCommands

\* What a thread waits for when its request touches the output image.
LEMMA Waiting ==
  ASSUME Inv, OutputInv, NEW t \in Threads, handler[t] = "wait"
  PROVE  /\ op[t] \in DriverCalls
         /\ t # Main /\ Current(t).command = "WRITE_OUTPUT" =>
              /\ op[t] = Write("output", Current(t).data)
              /\ Wrote(t, received[t]) /\ received[t] \in 1 .. Len(sent[t])
         /\ t # Main /\ Current(t).command = "READ_OUTPUT" =>
              op[t] = Read("output") /\ reply[t].data = <<>> /\ Len(todo[t]) = 1
         /\ OutputWrite(op[t]) => t # Main /\ Current(t).command = "WRITE_OUTPUT"
<1>1. /\ CallOK(t) /\ todo[t] \in Seq(DriverCalls) /\ todo[t] # <<>> /\ op[t] = Head(todo[t])
  BY DEF Inv, CallInv, CallOK, Typed, WorkTyped
<1>2. op[t] \in DriverCalls /\ op[t] = todo[t][1] /\ 1 \in 1 .. Len(todo[t])
  BY <1>1
<1>3. ASSUME t # Main
      PROVE  /\ t \in Clients /\ received[t] \in 1 .. Len(sent[t]) /\ Current(t) \in Requests
             /\ Current(t).form = "ok"
  <2>1. t \in Clients /\ received[t] \in 1 .. Len(sent[t]) /\ Current(t) \in Requests
    BY <1>3, CurrentSent DEF Inv
  <2> QED BY <2>1 DEF Inv, ClientInv, ClientOK, Draft, Matches
<1>4. CASE t # Main /\ Current(t).command = "WRITE_OUTPUT"
  <2>1. todo[t] = <<Write("output", Current(t).data)>>
    BY <1>3, <1>4, OutputCallsOf DEF OutputInv, OutputCalls, OutputCommands
  <2> QED BY <1>2, <1>3, <1>4, <2>1 DEF Wrote, Current
<1>5. CASE t # Main /\ Current(t).command = "READ_OUTPUT"
  <2>1. todo[t] = <<Read("output")>> /\ reply[t].data = <<>>
    BY <1>3, <1>5, OutputCallsOf DEF OutputInv, OutputCalls, OutputCommands
  <2> QED BY <1>2, <1>5, <2>1 DEF OutputWrite, Read
<1>6. CASE ~(t # Main /\ Current(t).command \in OutputCommands)
  BY <1>2, <1>6 DEF OutputInv, OutputCalls, OutputCommands
<1> QED BY <1>4, <1>5, <1>6 DEF OutputCommands

\* The calls still to make, from the frame to the last of them.
LEMMA OutputCallsNext ==
  ASSUME Inv, OutputInv, NEW t \in Clients, ClientStep(t)
  PROVE  OutputCalls(t)'
<1>0. /\ t \in Threads /\ t # Main /\ ClientOK(t) /\ CallOK(t) /\ OutputCalls(t)
      /\ todo[t] \in Seq(DriverCalls) /\ received[t] \in Nat /\ sent[t] \in Seq(Requests)
      /\ handler \in [Threads -> Places] /\ todo \in [Threads -> Seq(DriverCalls)]
      /\ reply \in [Threads -> Drafts] /\ sent \in [Threads -> Seq(Requests)]
      /\ received \in [Threads -> Nat]
  BY ThreadAssumption
  DEF Inv, ClientInv, CallInv, OutputInv, Clients, Threads, Typed, WireTyped, WorkTyped
<1> USE DEF image, wire, work
<1>1. ASSUME handler'[t] \notin {"call", "wait"} PROVE OutputCalls(t)'
  BY <1>1 DEF OutputCalls
<1>2. CASE Begin(t) \/ Respond(t) \/ RespondFails(t) \/ Record(t) \/ ReceiveEnds(t) \/ End(t)
  BY <1>0, <1>1, <1>2 DEF Begin, Respond, RespondFails, Record, ReceiveEnds, AfterEof, End
<1>3. CASE Receive(t)
  <2> DEFINE r == sent[t][received[t] + 1]
             v == Verdict(r)
  <2>1. /\ received[t] < Len(sent[t])
        /\ received'[t] = received[t] + 1 /\ UNCHANGED sent
        /\ handler'[t] = AfterVerdict(v)
        /\ reply'[t] = Response(v, r, <<>>)
        /\ todo'[t] = IF v = "OK" THEN CallsFor(r) ELSE <<>>
    BY <1>0, <1>3 DEF Receive
  <2>2. r \in Requests /\ Current(t)' = r
    BY <1>0, <2>1 DEF Current
  <2>3. CASE v = "OK"
    <3>1. r.form = "ok"
      BY <2>2, <2>3, RequestTypes
    <3>2. todo'[t] = CallsFor(r) /\ reply'[t].data = <<>>
      BY <2>1, <2>3 DEF Response
    <3> QED BY <1>0, <2>2, <3>1, <3>2, OutputCallsOf DEF OutputCalls
  <2>4. CASE v # "OK"
    <3>1. v \in {"UNKNOWN_COMMAND", "MALFORMED_FRAME", "DESYNC"}
      BY <2>2, <2>4, RequestTypes
    <3>2. handler'[t] # "call" /\ handler'[t] # "wait"
      BY <2>1, <3>1 DEF AfterVerdict, AfterMalformed
    <3> QED BY <1>1, <3>2
  <2> QED BY <2>3, <2>4
<1>4. CASE Call(t)
  BY <1>0, <1>4 DEF Call, OutputCalls, Current
<1>5. CASE BackendStep(t) \/ Stall(t) \/ Leave(t)
  BY <1>0, <1>5 DEF BackendStep, Stall, Leave, OutputCalls, Current
<1>6. CASE CallReturns(t)
  <2>1. CASE handler'[t] = "call"
    <3>1. answer[t].rc = OK /\ handler[t] = "wait"
      BY <1>0, <1>6, <2>1 DEF CallReturns, AfterError
    <3>2. /\ todo'[t] = Tail(todo[t]) /\ Len(todo[t]) > 1
          /\ UNCHANGED <<sent, received>>
      BY <1>0, <1>6, <2>1, <3>1 DEF CallReturns
    <3>3. Current(t).command \notin OutputCommands
      <4>1. CASE Current(t).command \in OutputCommands
        <5>1. todo[t] = CallsFor(Current(t)) /\ Current(t) \in Requests /\ Current(t).form = "ok"
          <6>1. Current(t) \in Requests
            BY <1>0, <3>1, CurrentSent DEF Inv
          <6> QED BY <1>0, <3>1, <4>1, <6>1 DEF OutputCalls, ClientOK, Draft, Matches
        <5>2. \E o : todo[t] = <<o>>
          BY <4>1, <5>1, OutputCallsOf DEF OutputCommands
        <5>3. Len(todo[t]) = 1
          BY <5>2
        <5> QED BY <3>2, <5>3
      <4> QED BY <4>1
    <3>4. \A i \in 1 .. Len(todo[t]) : ~OutputWrite(todo[t][i])
      BY <1>0, <3>1, <3>3 DEF OutputCalls
    <3>5. /\ todo[t] # <<>> /\ Len(todo[t]) \in Nat
      BY <1>0, <3>2
    <3>6. /\ Len(Tail(todo[t])) = Len(todo[t]) - 1
          /\ \A i \in 1 .. Len(Tail(todo[t])) : Tail(todo[t])[i] = todo[t][i + 1]
      BY <1>0, <3>5
    <3>7. \A i \in 1 .. Len(Tail(todo[t])) : ~OutputWrite(Tail(todo[t])[i])
      <4> SUFFICES ASSUME NEW i \in 1 .. Len(Tail(todo[t])) PROVE ~OutputWrite(Tail(todo[t])[i])
        OBVIOUS
      <4>1. i + 1 \in 1 .. Len(todo[t]) /\ Tail(todo[t])[i] = todo[t][i + 1]
        BY <3>5, <3>6
      <4> QED BY <3>4, <4>1
    <3>8. Current(t)' = Current(t)
      BY <3>2 DEF Current
    <3> QED BY <3>2, <3>3, <3>7, <3>8 DEF OutputCalls, OutputWrite
  <2>2. CASE handler'[t] # "call"
    BY <1>0, <1>1, <1>6, <2>2 DEF CallReturns, AfterError
  <2> QED BY <2>1, <2>2
<1>7. CASE Arrive(t)
  BY <1>0, <1>1, <1>7 DEF Arrive, ClientOK, Away
<1>8. CASE SendRequest(t)
  <2>1. CASE handler[t] \in {"call", "wait"}
    <3>1. received[t] \in 1 .. Len(sent[t])
      BY <1>0, <2>1, CurrentSent DEF Inv
    <3>2. PICK r \in Requests : sent'[t] = Append(sent[t], r)
      BY <1>0, <1>8 DEF SendRequest
    <3>3. Current(t)' = Current(t)
      BY <1>0, <1>8, <3>1, <3>2 DEF SendRequest, Current
    <3> QED BY <1>0, <1>8, <3>3 DEF SendRequest, OutputCalls, OutputWrite
  <2>2. CASE handler[t] \notin {"call", "wait"}
    BY <1>1, <1>8, <2>2 DEF SendRequest
  <2> QED BY <2>1, <2>2
<1> QED BY <1>2, <1>3, <1>4, <1>5, <1>6, <1>7, <1>8 DEF ClientStep, HandlerStep

LEMMA OutputInvInit == Init => OutputInv
<1> SUFFICES ASSUME Init, NEW t \in Threads PROVE OutputCalls(t)
  BY DEF OutputInv
<1>1. CASE t # Main
  BY <1>1 DEF Init, OutputCalls
<1>2. CASE t = Main
  <2>1. todo[t] = StartupSteps
    BY <1>2 DEF Init
  <2>2. \A i \in 1 .. 3 : ~OutputWrite(StartupSteps[i])
    BY StartupTypes DEF OutputWrite, Write
  <2> QED BY <1>2, <2>1, <2>2, StartupTypes DEF OutputCalls
<1> QED BY <1>1, <1>2

LEMMA OutputInvNext ==
  ASSUME Inv, OutputInv, [Next]_vars
  PROVE  OutputInv'
<1> SUFFICES ASSUME NEW u \in Threads PROVE OutputCalls(u)'
  BY DEF OutputInv
<1>0. OutputCalls(u) /\ Main \in Threads
  BY DEF OutputInv, Threads
<1>1. Same(u) => OutputCalls(u)'
  BY <1>0 DEF Same, OutputCalls, Current, OutputWrite
<1>2. ASSUME NEW t \in Threads, ClientStep(t) PROVE OutputCalls(u)'
  <2>1. CASE u = t /\ t \in Clients
    BY <1>2, <2>1, OutputCallsNext
  <2>2. CASE u = t /\ t = Main
    <3>1. Call(Main) \/ BackendStep(Main)
      BY <1>2, <2>2, MainSteps DEF Inv
    <3>2. handler[Main] \in {"call", "wait"} /\ UNCHANGED todo
      <4>1. CASE Call(Main)
        BY <4>1 DEF Call
      <4>2. CASE BackendStep(Main)
        BY <1>0, <4>2, AnswerMeans DEF BackendStep, work, Inv, Typed, CallInv, CallOK
      <4> QED BY <3>1, <4>1, <4>2
    <3> QED BY <1>0, <2>2, <3>2 DEF OutputCalls, OutputWrite
  <2>3. CASE u # t
    BY <1>1, <1>2, <2>3, OthersSame DEF Inv
  <2> QED BY <2>1, <2>2, <2>3 DEF Threads
<1>3. CASE StepReturns
  <2>1. CASE u = Main
    <3>1. /\ todo[Main] \in Seq(DriverCalls) /\ todo[Main] # <<>> /\ handler[Main] = "wait"
          /\ todo \in [Threads -> Seq(DriverCalls)]
      BY <1>0, <1>3 DEF StepReturns, Inv, CallInv, CallOK, Typed, WorkTyped
    <3>2. /\ Len(todo[Main]) \in Nat /\ Len(Tail(todo[Main])) = Len(todo[Main]) - 1
          /\ \A i \in 1 .. Len(Tail(todo[Main])) : Tail(todo[Main])[i] = todo[Main][i + 1]
      BY <3>1
    <3>3. todo'[Main] = Tail(todo[Main])
      BY <1>0, <1>3, <3>1 DEF StepReturns
    <3>4. \A i \in 1 .. Len(todo[Main]) : ~OutputWrite(todo[Main][i])
      BY <1>0, <2>1, <3>1 DEF OutputCalls
    <3>5. \A i \in 1 .. Len(todo'[Main]) : ~OutputWrite(todo'[Main][i])
      BY <3>2, <3>3, <3>4
    <3> QED BY <2>1, <3>5 DEF OutputCalls, OutputWrite
  <2>2. CASE u # Main
    <3>1. u \in Clients
      BY <2>2 DEF Clients, Threads
    <3> QED BY <1>1, <1>3, <3>1, ClientsSame DEF Inv
  <2> QED BY <2>1, <2>2
<1>4. CASE CardMoves \/ ClearLog \/ UNCHANGED vars
  BY <1>1, <1>4, AllSame
<1> QED BY <1>2, <1>3, <1>4, Actors

LEMMA SentInvInit == Init => SentInv
<1> SUFFICES ASSUME Init PROVE SentInv
  OBVIOUS
<1>1. \A t \in Clients : sent[t] = <<>>
  BY DEF Init, Clients, Threads
<1>2. \A t \in Clients : Len(sent[t]) = 0
  BY <1>1
<1>3. MaxRequests \in Nat
  BY BoundAssumption
<1> QED BY <1>2, <1>3 DEF SentInv, Clients

LEMMA SentInvNext ==
  ASSUME Inv, SentInv, [Next]_vars
  PROVE  SentInv'
<1> SUFFICES ASSUME NEW u \in Clients
             PROVE  /\ u \in Udp => Len(sent'[u]) <= 1
                    /\ u \in Tcp => Len(sent'[u]) <= MaxRequests
  BY DEF SentInv, Clients
<1>0. /\ u \in Threads /\ ClientOK(u) /\ sent[u] \in Seq(Requests) /\ MaxRequests \in Nat
      /\ sent \in [Threads -> Seq(Requests)]
  BY BoundAssumption DEF Inv, ClientInv, Clients, Threads, Typed, WireTyped
<1>1. UNCHANGED sent[u] \/ Arrive(u) \/ SendRequest(u)
  BY SentMoves
<1>2. CASE UNCHANGED sent[u]
  BY <1>2 DEF SentInv
<1>3. CASE Arrive(u)
  <2>1. CASE u \in Udp
    <3>1. PICK r \in Requests : sent'[u] = <<r>>
      BY <1>0, <1>3, <2>1 DEF Arrive
    <3>2. Len(sent'[u]) = 1
      BY <3>1
    <3>3. u \notin Tcp
      BY <2>1, ThreadAssumption
    <3> QED BY <3>2, <3>3
  <2>2. CASE u \notin Udp
    BY <1>3, <2>2 DEF Arrive, SentInv
  <2> QED BY <2>1, <2>2
<1>4. CASE SendRequest(u)
  <2>1. PICK r \in Requests : sent'[u] = Append(sent[u], r)
    BY <1>0, <1>4 DEF SendRequest
  <2>2. Len(sent'[u]) = Len(sent[u]) + 1 /\ Len(sent[u]) \in Nat
    BY <1>0, <2>1
  <2> QED BY <1>0, <1>4, <2>2, ThreadAssumption DEF SendRequest
<1> QED BY <1>1, <1>2, <1>3, <1>4

\* Only a client's own requests to write move the output image it alone writes,
\* or it is zeroed, which leaves a mark.
LEMMA OutputMoves ==
  ASSUME Inv, OutputInv, [Next]_vars, NEW t \in Tcp, Sole(t)
  PROVE  \/ card'["output"] = card["output"]
         \/ /\ BackendStep(t) /\ handler[t] = "wait" /\ Wrote(t, received[t])
            /\ card'["output"] = Current(t).data
         \/ card'["output"] = Blank /\ cleared'[t] = received[t] /\ UNCHANGED received
<1>0. card \in Cards /\ Typed
  BY DEF Inv, Typed, ImageTyped
<1>1. ASSUME NEW v \in Threads, BackendStep(v), card'["output"] # card["output"]
      PROVE  \/ /\ BackendStep(t) /\ handler[t] = "wait" /\ Wrote(t, received[t])
                /\ card'["output"] = Current(t).data
             \/ card'["output"] = Blank /\ cleared'[t] = received[t] /\ UNCHANGED received
  <2>1. status[v] = "pending" /\ (Performed(v) \/ Refused(v))
    BY <1>0, <1>1, AnswerMeans DEF BackendStep, Typed
  <2>2. card' \in Effects(card, op[v])
    BY <1>1, <2>1 DEF Performed, Refused
  <2>3. handler[v] = "wait"
    BY <2>1 DEF Inv, CallInv, CallOK
  <2>4. /\ op[v] \in DriverCalls
        /\ OutputWrite(op[v]) => v # Main /\ Current(v).command = "WRITE_OUTPUT"
    BY <2>3, Waiting
  <2>5. CASE ~OutputWrite(op[v])
    <3>1. op[v].kind = "reset" /\ card'["output"] = Blank
      BY <1>0, <1>1, <2>2, <2>4, <2>5, EffectOnOutput DEF OutputWrite
    <3>2. NoteCleared /\ UNCHANGED received
      BY <1>1, <3>1 DEF BackendStep, work
    <3> QED BY <1>0, <1>1, <3>1, <3>2, MarkMeans
  <2>6. CASE OutputWrite(op[v])
    <3>1. v \in Clients /\ Current(v).command = "WRITE_OUTPUT"
      BY <2>4, <2>6 DEF Threads
    <3>2. /\ op[v] = Write("output", Current(v).data)
          /\ Wrote(v, received[v]) /\ received[v] \in 1 .. Len(sent[v])
      BY <2>3, <2>4, <2>6, <3>1, Waiting
    <3>3. v = t
      BY <3>1, <3>2 DEF Sole
    <3>4. card'["output"] = op[v].val
      BY <1>0, <2>2, <2>4, <2>6, EffectOnOutput DEF OutputWrite
    <3> QED BY <1>1, <2>3, <3>2, <3>3, <3>4 DEF Write
  <2> QED BY <2>5, <2>6
<1>2. ASSUME NEW v \in Threads, ClientStep(v), ~BackendStep(v)
      PROVE  card' = card
  <2>1. CASE Call(v)
    BY <2>1, InvokeMeans DEF Call
  <2>2. CASE CallReturns(v)
    BY <2>2, ReturnMeans DEF CallReturns
  <2> QED BY <1>2, <2>1, <2>2
      DEF ClientStep, HandlerStep, Begin, Receive, Respond, RespondFails, Record, ReceiveEnds,
          End, Arrive, SendRequest, Stall, Leave, image
<1>3. CASE StepReturns
  BY <1>3, ReturnMeans DEF StepReturns
<1>4. CASE CardMoves
  <2>1. card'["output"] \in {card["output"], Blank} /\ NoteCleared /\ UNCHANGED received
    BY <1>0, <1>4, CardMovesMeans DEF CardMoves, work
  <2> QED BY <1>0, <2>1, MarkMeans
<1>5. CASE ClearLog \/ UNCHANGED vars
  BY <1>5 DEF ClearLog, vars, image
<1> QED BY <1>1, <1>2, <1>3, <1>4, <1>5, Actors

\* What was sent, read and answered stays so.
LEMMA PastStays ==
  ASSUME Inv, [Next]_vars, NEW t \in Clients
  PROVE  /\ received[t] \in Nat /\ Len(replies[t]) \in Nat /\ Len(sent[t]) \in Nat
         /\ Len(replies[t]) <= received[t] /\ received[t] <= Len(sent[t])
         /\ received[t] <= received'[t] /\ received'[t] \in Nat
         /\ \A k \in 1 .. Len(sent[t]) :
              sent'[t][k] = sent[t][k] /\ (Wrote(t, k)' <=> Wrote(t, k))
         /\ \A k \in 1 .. Len(replies[t]) : replies'[t][k] = replies[t][k]
         /\ UNCHANGED replies[t] \/ Respond(t)
<1>0. /\ t \in Threads /\ ClientOK(t)
      /\ sent[t] \in Seq(Requests) /\ replies[t] \in Seq(Drafts) /\ received[t] \in Nat
      /\ replies \in [Threads -> Seq(Drafts)] /\ received \in [Threads -> Nat]
  BY DEF Inv, ClientInv, Clients, Threads, Typed, WireTyped, WorkTyped
<1>1. \A k \in 1 .. Len(sent[t]) : sent'[t][k] = sent[t][k] /\ (Wrote(t, k)' <=> Wrote(t, k))
  BY SentGrows DEF Wrote
<1>2. (UNCHANGED replies[t] \/ Respond(t)) /\ (UNCHANGED received[t] \/ Receive(t))
  <2>1. ASSUME NEW v \in Threads, ClientStep(v), v # t PROVE UNCHANGED <<replies[t], received[t]>>
    BY <1>0, <2>1, OthersSame DEF Same, Inv
  <2>2. CASE ClientStep(t)
    BY <2>2
    DEF ClientStep, HandlerStep, Begin, Receive, Call, BackendStep, CallReturns, Respond,
        RespondFails, Record, ReceiveEnds, End, Arrive, SendRequest, Stall, Leave, wire, work
  <2>3. CASE StepReturns \/ CardMoves \/ ClearLog \/ UNCHANGED vars
    BY <2>3 DEF StepReturns, CardMoves, ClearLog, vars, wire, work
  <2> QED BY <2>1, <2>2, <2>3, Actors
<1>3. received[t] <= received'[t] /\ received'[t] \in Nat
  BY <1>0, <1>2 DEF Receive
<1>4. \A k \in 1 .. Len(replies[t]) : replies'[t][k] = replies[t][k]
  <2>1. CASE Respond(t)
    <3>1. replies'[t] = Append(replies[t], reply[t])
      BY <1>0, <2>1 DEF Respond
    <3> QED BY <1>0, <3>1
  <2> QED BY <1>2, <2>1
<1>5. /\ Len(replies[t]) \in Nat /\ Len(sent[t]) \in Nat
      /\ Len(replies[t]) <= received[t] /\ received[t] <= Len(sent[t])
  <2>1. Len(replies[t]) \in Nat /\ Len(sent[t]) \in Nat
    BY <1>0
  <2>2. Progress(t)
    BY <1>0 DEF ClientOK
  <2> QED BY <1>0, <2>1, <2>2 DEF Progress
<1>6. UNCHANGED replies[t] \/ Respond(t)
  BY <1>2
<1> QED BY <1>0, <1>1, <1>3, <1>4, <1>5, <1>6, Zenon

LEMMA LastStays ==
  ASSUME Inv, [Next]_vars, NEW t \in Clients,
         NEW i \in 1 .. Len(replies[t]), NEW j \in 0 .. Len(replies[t])
  PROVE  LastAcknowledged(t, i, j)' <=> LastAcknowledged(t, i, j)
<1>1. ASSUME NEW k \in 1 .. Len(replies[t])
      PROVE  (Wrote(t, k)' <=> Wrote(t, k)) /\ (Succeeded(t, k)' <=> Succeeded(t, k))
  <2>1. /\ Len(replies[t]) \in Nat /\ Len(sent[t]) \in Nat /\ received[t] \in Nat
        /\ Len(replies[t]) <= received[t] /\ received[t] <= Len(sent[t])
    BY PastStays
  <2>2. k \in 1 .. Len(sent[t])
    BY <2>1
  <2>3. Wrote(t, k)' <=> Wrote(t, k)
    BY <2>2, PastStays, Zenon
  <2>4. replies'[t][k] = replies[t][k]
    BY PastStays, Zenon
  <2>5. Succeeded(t, k)' <=> Succeeded(t, k)
    BY <2>4 DEF Succeeded
  <2> QED BY <2>3, <2>5
<1>2. \A k \in i + 1 .. j : k \in 1 .. Len(replies[t])
  BY PastStays
<1> QED BY <1>1, <1>2 DEF LastAcknowledged

\* What a read may give it may give ever after.
LEMMA MayStays ==
  ASSUME Inv, [Next]_vars, NEW t \in Tcp, NEW i \in 1 .. Len(replies[t]), NEW data,
         May(t, i, data)
  PROVE  May(t, i, data)'
<1>0. /\ received[t] \in Nat /\ Len(replies[t]) \in Nat /\ Len(sent[t]) \in Nat
      /\ received[t] <= Len(sent[t])
      /\ received[t] <= received'[t] /\ received'[t] \in Nat
      /\ \A k \in 1 .. Len(sent[t]) :
           sent'[t][k] = sent[t][k] /\ (Wrote(t, k)' <=> Wrote(t, k))
  BY PastStays DEF Clients
<1>1. cleared[t] \in Nat /\ cleared'[t] \in Nat /\ cleared[t] <= cleared'[t]
  BY MarksGrow DEF Inv
<1>2. CASE cleared[t] >= i /\ data = <<Blank>>
  <2>1. cleared'[t] >= i
    BY <1>0, <1>1, <1>2
  <2> QED BY <1>2, <2>1 DEF May
<1>3. ASSUME NEW k \in i .. received[t], Wrote(t, k), data = <<sent[t][k].data>>
      PROVE  May(t, i, data)'
  <2>1. k \in 1 .. Len(sent[t]) /\ k \in i .. received'[t]
    BY <1>0
  <2>2. Wrote(t, k)' /\ data = <<sent'[t][k].data>>
    BY <1>0, <1>3, <2>1
  <2> QED BY <2>1, <2>2 DEF May, Wrote
<1> QED BY <1>2, <1>3 DEF May

\* While the request in hand stays as it is, so does what it did, unless the
\* output is zeroed.
LEMMA InHandStays ==
  ASSUME Inv, [Next]_vars, NEW t \in Tcp, InHand(t),
         Through(t)' => Through(t) /\ Current(t)' = Current(t) /\ Given(t)' = Given(t),
         UNCHANGED <<received[t], replies[t]>>,
         \/ card'["output"] = card["output"]
         \/ card'["output"] = Blank /\ cleared'[t] = received[t]
  PROVE  InHand(t)'
<1> SUFFICES ASSUME Through(t)' PROVE InHand(t)'
  BY DEF InHand
<1>0. /\ t \in Clients /\ received[t] \in Nat /\ Len(replies[t]) \in Nat
      /\ cleared[t] \in Nat /\ cleared'[t] \in Nat /\ cleared[t] <= cleared'[t]
  BY PastStays, MarksGrow DEF Inv, Clients
<1>1. ASSUME Current(t)'.command = "WRITE_OUTPUT"
      PROVE  \/ card'["output"] = Current(t)'.data
             \/ cleared'[t] >= received'[t] /\ card'["output"] = Blank
  <2>1. \/ card["output"] = Current(t).data
        \/ cleared[t] >= received[t] /\ card["output"] = Blank
    BY <1>1 DEF InHand
  <2>2. cleared[t] >= received[t] => cleared'[t] >= received[t]
    BY <1>0
  <2>3. received[t] >= received[t]
    BY <1>0
  <2> QED BY <2>1, <2>2, <2>3
<1>2. ASSUME Current(t)'.command = "READ_OUTPUT", NEW i \in 1 .. Len(replies'[t]),
             LastAcknowledged(t, i, Len(replies[t]))'
      PROVE  May(t, i, Given(t))'
  <2>1. PICK data : data = Given(t)
    OBVIOUS
  <2>2. i \in 1 .. Len(replies[t]) /\ Len(replies[t]) \in 0 .. Len(replies[t])
    BY <1>0
  <2>3. LastAcknowledged(t, i, Len(replies[t]))
    BY <1>0, <1>2, <2>2, LastStays
  <2>4. May(t, i, data)
    BY <1>2, <2>1, <2>2, <2>3 DEF InHand
  <2>5. May(t, i, data)'
    BY <2>2, <2>4, MayStays
  <2> QED BY <2>1, <2>5 DEF May
<1> QED BY <1>1, <1>2 DEF InHand, LastAcknowledged

\* A request comes through in one way only: its last call was performed.
LEMMA InHandNext ==
  ASSUME Inv, OutputInv, [Next]_vars, NEW t \in Tcp, Sole(t), InHand(t), ImageHolds(t)
  PROVE  InHand(t)'
<1>0. /\ t \in Threads /\ t # Main /\ t \in Clients /\ ClientOK(t) /\ CallOK(t)
      /\ handler \in [Threads -> Places] /\ reply \in [Threads -> Drafts]
      /\ card \in Cards /\ status \in [Threads -> {"idle", "pending", "answered"}]
      /\ answer \in [Threads -> Answers] /\ op \in [Threads -> DriverCalls \cup {NoOp}]
  BY ThreadAssumption
  DEF Inv, ClientInv, CallInv, Clients, Threads, Typed, ImageTyped, WireTyped, WorkTyped
<1> USE DEF image, wire, work
<1>1. ASSUME handler'[t] \notin {"wait", "send"} PROVE InHand(t)'
  BY <1>1 DEF InHand, Through
<1>2. ASSUME Same(t), ~BackendStep(t) PROVE InHand(t)'
  <2>1. /\ UNCHANGED <<received[t], replies[t]>>
        /\ Through(t)' => Through(t) /\ Current(t)' = Current(t) /\ Given(t)' = Given(t)
    BY <1>2 DEF Same, Through, Current, Given, Data
  <2>2. \/ card'["output"] = card["output"]
        \/ card'["output"] = Blank /\ cleared'[t] = received[t]
    BY <1>2, OutputMoves
  <2> QED BY <2>1, <2>2, InHandStays
<1>4. CASE BackendStep(t)
  <2>1. /\ status[t] = "pending" /\ UNCHANGED <<op, handler, reply, sent, received, replies>>
        /\ Performed(t) \/ Refused(t)
    BY <1>0, <1>4, AnswerMeans DEF BackendStep, Inv, Typed
  <2>2. handler[t] = "wait"
    BY <1>0, <2>1 DEF CallOK
  <2>3. CASE Refused(t)
    <3>1. answer'[t].rc # OK
      BY <2>3, OkIsNoError DEF Refused, Failure
    <3> QED BY <2>1, <2>2, <3>1 DEF InHand, Through
  <2>4. CASE Performed(t)
    <3>1. card' \in Effects(card, op[t]) /\ answer'[t] = Success(card, op[t])
      BY <2>4 DEF Performed
    <3>2. ASSUME Current(t).command = "WRITE_OUTPUT" PROVE card'["output"] = Current(t).data
      <4>1. op[t] = Write("output", Current(t).data) /\ op[t] \in DriverCalls
        BY <1>0, <2>2, <3>2, Waiting
      <4> QED BY <1>0, <3>1, <4>1, EffectOnOutput DEF Write
    <3>3. ASSUME Current(t).command = "READ_OUTPUT", NEW i \in 1 .. Len(replies[t]),
                 LastAcknowledged(t, i, Len(replies[t]))'
          PROVE  May(t, i, Given(t))'
      <4>1. op[t] = Read("output")
        BY <1>0, <2>2, <3>3, Waiting
      <4>2. answer'[t].val = card["output"]
        BY <3>1, <4>1 DEF Read, Success
      <4>3. card["output"] # NoValue
        BY <1>0, ValueAssumption DEF Cards
      <4>4. PICK data : data = <<card["output"]>>
        OBVIOUS
      <4>5. Given(t)' = data
        BY <2>1, <2>2, <4>2, <4>3, <4>4 DEF Given, Data
      <4>6. PICK n \in 0 .. Len(replies[t]) : n = Len(replies[t])
        BY <1>0, PastStays
      <4>7. LastAcknowledged(t, i, n)' /\ LastAcknowledged(t, i, n)
        BY <1>0, <2>1, <3>3, <4>6, LastStays DEF LastAcknowledged
      <4>m. May(t, i, data)
        BY <4>4, <4>6, <4>7 DEF ImageHolds
      <4>8. May(t, i, data)'
        BY <4>m, MayStays
      <4> QED BY <4>5, <4>8 DEF May
    <3> QED BY <2>1, <2>2, <3>2, <3>3 DEF InHand, Current, LastAcknowledged
  <2> QED BY <2>1, <2>3, <2>4
<1>5. CASE CallReturns(t)
  <2>1. /\ handler[t] = "wait" /\ status[t] = "answered"
        /\ UNCHANGED <<card, sent, received, replies>> /\ status'[t] = "idle"
    BY <1>0, <1>5, ReturnMeans DEF CallReturns
  <2>2. CASE answer[t].rc # OK
    <3>1. reply'[t] = Response("BACKEND_ERROR", reply[t], <<>>) /\ handler'[t] = "send"
      BY <1>0, <1>5, <2>2 DEF CallReturns, AfterError
    <3>2. reply'[t].status = "BACKEND_ERROR"
      BY <3>1 DEF Response
    <3> QED BY <3>1, <3>2 DEF InHand, Through
  <2>3. CASE answer[t].rc = OK
    <3>1. Through(t)
      BY <2>1, <2>3 DEF Through
    <3>2. reply' = [reply EXCEPT ![t] = [reply[t] EXCEPT !.data = @ \o Data(answer[t])]]
      BY <1>5, <2>3 DEF CallReturns
    <3>3. reply'[t].data = reply[t].data \o Data(answer[t])
      BY <1>0, <3>2 DEF Drafts
    <3>4. handler'[t] \in {"call", "send"}
      BY <1>0, <1>5, <2>3 DEF CallReturns
    <3>5. CASE Current(t).command = "READ_OUTPUT"
      <4>1. reply[t].data = <<>>
        BY <1>0, <2>1, <3>5, Waiting
      <4>2. Data(answer[t]) \in Seq(Contents)
        BY <1>0, DataType
      <4>3. reply'[t].data = Data(answer[t])
        BY <3>3, <4>1, <4>2
      <4>4. handler'[t] = "send" => Given(t)' = Given(t)
        BY <2>1, <4>3 DEF Given
      <4>5. Through(t)' => Given(t)' = Given(t)
        BY <3>4, <4>4 DEF Through
      <4>6. Current(t)' = Current(t)
        BY <2>1 DEF Current
      <4> QED BY <2>1, <3>1, <4>5, <4>6, InHandStays
    <3>6. CASE Current(t).command # "READ_OUTPUT"
      <4>1. Current(t).command = "WRITE_OUTPUT" =>
              \/ card["output"] = Current(t).data
              \/ cleared[t] >= received[t] /\ card["output"] = Blank
        BY <3>1 DEF InHand
      <4>2. UNCHANGED cleared
        BY <1>5 DEF CallReturns, ghosts
      <4> QED BY <2>1, <3>6, <4>1, <4>2 DEF InHand, Current
    <3> QED BY <3>5, <3>6
  <2> QED BY <2>2, <2>3
<1>6. CASE Call(t)
  <2>1. handler'[t] = "wait" /\ status'[t] = "pending"
    BY <1>0, <1>6, InvokeMeans DEF Call
  <2> QED BY <2>1 DEF InHand, Through
<1>7. CASE Receive(t)
  <2> DEFINE r == sent[t][received[t] + 1]
             v == Verdict(r)
  <2>1. handler'[t] = AfterVerdict(v) /\ reply'[t] = Response(v, r, <<>>)
    BY <1>0, <1>7 DEF Receive
  <2>2. handler'[t] # "wait"
    BY <2>1 DEF AfterVerdict, AfterMalformed
  <2>3. reply'[t].status = v
    BY <2>1 DEF Response
  <2>4. v = "OK" => handler'[t] = "call"
    BY <2>1 DEF AfterVerdict
  <2> HIDE DEF v
  <2> QED BY <2>2, <2>3, <2>4 DEF InHand, Through
<1>8. CASE Begin(t) \/ Respond(t) \/ RespondFails(t) \/ Record(t) \/ ReceiveEnds(t) \/ End(t)
  BY <1>0, <1>1, <1>8 DEF Begin, Respond, RespondFails, Record, ReceiveEnds, AfterEof, End
<1>9. CASE Arrive(t)
  BY <1>0, <1>1, <1>9 DEF Arrive, ClientOK, Away
<1>10. CASE SendRequest(t) \/ Stall(t) \/ Leave(t)
  <2>1. UNCHANGED <<card, status, answer, handler, reply, received, replies>>
    BY <1>10 DEF SendRequest, Stall, Leave
  <2>2. CASE handler[t] \in {"wait", "send"}
    <3>1. received[t] \in 1 .. Len(sent[t])
      BY <1>0, <2>2, CurrentSent DEF Inv
    <3>2. Current(t)' = Current(t)
      BY <1>0, <2>1, <3>1, PastStays DEF Current
    <3>3. Given(t)' = Given(t) /\ Through(t)' = Through(t)
      BY <2>1 DEF Given, Data, Through
    <3> QED BY <2>1, <3>2, <3>3, InHandStays
  <2>3. CASE handler[t] \notin {"wait", "send"}
    BY <1>1, <2>1, <2>3
  <2> QED BY <2>2, <2>3
<1>11. ASSUME NEW u \in Threads, ClientStep(u), u # t PROVE Same(t)
  BY <1>0, <1>11, OthersSame DEF Inv
<1>12. ASSUME StepReturns \/ CardMoves \/ ClearLog \/ UNCHANGED vars PROVE Same(t)
  BY <1>0, <1>12, ClientsSame, AllSame DEF Inv
<1>13. CASE Same(t)
  BY <1>2, <1>4, <1>13
<1> QED BY <1>4, <1>5, <1>6, <1>7, <1>8, <1>9, <1>10, <1>11, <1>12, <1>13, Actors
        DEF ClientStep, HandlerStep

\* What the response just handed over says, of a write and of a read.
LEMMA Answered ==
  ASSUME Inv, [Next]_vars, NEW t \in Tcp, Respond(t), InHand(t)
  PROVE  /\ Len(replies'[t]) = Len(replies[t]) + 1 /\ received[t] = Len(replies[t]) + 1
         /\ UNCHANGED <<card, sent, received, cleared>>
         /\ Succeeded(t, received[t])' =>
              /\ Wrote(t, received[t]) =>
                   \/ card["output"] = sent[t][received[t]].data
                   \/ cleared[t] >= received[t] /\ card["output"] = Blank
              /\ sent[t][received[t]].command = "READ_OUTPUT" =>
                   \A i \in 1 .. Len(replies[t]) :
                     LastAcknowledged(t, i, Len(replies[t])) =>
                       May(t, i, replies'[t][received[t]].data)
<1>0. /\ t \in Threads /\ ClientOK(t) /\ handler[t] = "send" /\ handler[t] # "wait"
      /\ replies[t] \in Seq(Drafts) /\ replies \in [Threads -> Seq(Drafts)]
  BY DEF Respond, Inv, ClientInv, Clients, Threads, Typed, WireTyped
<1>1. received[t] = Len(replies[t]) + 1
  BY <1>0 DEF ClientOK, Progress
<1>2. replies'[t] = Append(replies[t], reply[t])
  BY <1>0 DEF Respond
<1>3. replies'[t][received[t]] = reply[t] /\ Len(replies'[t]) = Len(replies[t]) + 1
  BY <1>0, <1>1, <1>2
<1>4. UNCHANGED <<card, sent, received, cleared>>
  BY DEF Respond, image, ghosts
<1>5. Succeeded(t, received[t])' => Through(t)
  BY <1>0, <1>3, <1>4 DEF Succeeded, Through
<1>6. Given(t) = replies'[t][received[t]].data
  BY <1>0, <1>3 DEF Given
<1>7. Wrote(t, received[t]) => Current(t).command = "WRITE_OUTPUT"
  BY DEF Wrote, Current
<1>8. ASSUME Succeeded(t, received[t])'
      PROVE  /\ Wrote(t, received[t]) =>
                  \/ card["output"] = sent[t][received[t]].data
                  \/ cleared[t] >= received[t] /\ card["output"] = Blank
             /\ sent[t][received[t]].command = "READ_OUTPUT" =>
                  \A i \in 1 .. Len(replies[t]) :
                    LastAcknowledged(t, i, Len(replies[t])) =>
                      May(t, i, replies'[t][received[t]].data)
  BY <1>5, <1>6, <1>7, <1>8 DEF InHand, Current
<1> QED BY <1>1, <1>3, <1>4, <1>8

LEMMA ImageHoldsNext ==
  ASSUME Inv, OutputInv, [Next]_vars, NEW t \in Tcp, Sole(t), InHand(t), ImageHolds(t)
  PROVE  ImageHolds(t)'
<1>0. /\ received[t] \in Nat /\ Len(replies[t]) \in Nat /\ Len(sent[t]) \in Nat
      /\ Len(replies[t]) <= received[t] /\ received[t] <= Len(sent[t])
      /\ received[t] <= received'[t] /\ received'[t] \in Nat
      /\ \A k \in 1 .. Len(sent[t]) :
           sent'[t][k] = sent[t][k] /\ (Wrote(t, k)' <=> Wrote(t, k))
      /\ UNCHANGED replies[t] \/ Respond(t)
  BY PastStays DEF Clients
<1>t. t \in Clients
  BY DEF Clients
<1> SUFFICES ASSUME NEW m, m = Len(replies'[t]), NEW i \in 1 .. m, LastAcknowledged(t, i, m)'
             PROVE  May(t, i, <<card["output"]>>)'
  BY DEF ImageHolds, LastAcknowledged
<1>1. ASSUME i \in 1 .. Len(replies[t]), May(t, i, <<card["output"]>>), UNCHANGED card["output"]
      PROVE  May(t, i, <<card["output"]>>)'
  <2>1. PICK data : data = <<card["output"]>>
    OBVIOUS
  <2>2. May(t, i, data)'
    BY <1>1, <2>1, MayStays
  <2> QED BY <1>1, <2>1, <2>2 DEF May
<1>2. CASE UNCHANGED replies[t]
  <2>1. m = Len(replies[t]) /\ LastAcknowledged(t, i, m)
    BY <1>0, <1>2, <1>t, LastStays
  <2>2. May(t, i, <<card["output"]>>)
    BY <2>1 DEF ImageHolds
  <2>3. CASE /\ BackendStep(t) /\ handler[t] = "wait" /\ Wrote(t, received[t])
             /\ card'["output"] = Current(t).data
    <3>1. received[t] = m + 1 /\ received'[t] = received[t]
      BY <1>t, <2>1, <2>3 DEF BackendStep, work, Inv, ClientInv, ClientOK, Progress
    <3>2. PICK k : k = received[t]
      OBVIOUS
    <3>3. k \in i .. received'[t] /\ k \in 1 .. Len(sent[t])
      BY <1>0, <2>1, <3>1, <3>2
    <3>4. Wrote(t, k)' /\ card'["output"] = sent'[t][k].data
      BY <1>0, <2>3, <3>2, <3>3 DEF Current
    <3> QED BY <3>3, <3>4 DEF May, Wrote
  <2>4. CASE card'["output"] = Blank /\ cleared'[t] = received[t]
    <3>1. cleared'[t] >= i
      BY <1>0, <2>1, <2>4
    <3> QED BY <2>4, <3>1 DEF May
  <2> QED BY <1>1, <2>1, <2>2, <2>3, <2>4, OutputMoves
<1>3. CASE Respond(t)
  <2>1. /\ m = Len(replies[t]) + 1 /\ received[t] = m
        /\ UNCHANGED <<card, sent, received, cleared>>
        /\ Succeeded(t, received[t])' =>
             (Wrote(t, received[t]) =>
                \/ card["output"] = sent[t][received[t]].data
                \/ cleared[t] >= received[t] /\ card["output"] = Blank)
    BY <1>3, Answered
  <2>2. CASE i = m
    <3>1. Succeeded(t, i)' /\ Wrote(t, i)'
      BY DEF LastAcknowledged
    <3>2. Succeeded(t, received[t])' /\ Wrote(t, received[t]) /\ i \in 1 .. Len(sent[t])
      BY <1>0, <2>1, <2>2, <3>1 DEF Succeeded, Wrote
    <3>3. \/ card["output"] = sent[t][i].data
          \/ cleared[t] >= i /\ card["output"] = Blank
      BY <2>1, <2>2, <3>2
    <3>4. i \in i .. received'[t]
      BY <1>0, <2>1, <2>2
    <3> QED BY <2>1, <3>1, <3>3, <3>4 DEF May, Wrote
  <2>3. CASE i # m
    <3>1. m - 1 = Len(replies[t]) /\ i \in 1 .. Len(replies[t]) /\ i + 1 .. m - 1 \subseteq i + 1 .. m
      BY <1>0, <2>1, <2>3
    <3>2. LastAcknowledged(t, i, m - 1)'
      BY <3>1 DEF LastAcknowledged
    <3>3. LastAcknowledged(t, i, m - 1)
      BY <1>0, <1>t, <3>1, <3>2, LastStays
    <3>4. May(t, i, <<card["output"]>>)
      BY <3>1, <3>3 DEF ImageHolds
    <3> QED BY <1>1, <2>1, <3>1, <3>4
  <2> QED BY <2>2, <2>3
<1> QED BY <1>0, <1>2, <1>3

LEMMA HasReadNext ==
  ASSUME Inv, OutputInv, [Next]_vars, NEW t \in Tcp, InHand(t), HasRead(t)
  PROVE  HasRead(t)'
<1>0. /\ received[t] \in Nat /\ Len(replies[t]) \in Nat /\ Len(sent[t]) \in Nat
      /\ Len(replies[t]) <= received[t] /\ received[t] <= Len(sent[t])
      /\ \A k \in 1 .. Len(sent[t]) :
           sent'[t][k] = sent[t][k] /\ (Wrote(t, k)' <=> Wrote(t, k))
      /\ \A k \in 1 .. Len(replies[t]) : replies'[t][k] = replies[t][k]
      /\ UNCHANGED replies[t] \/ Respond(t)
      /\ t \in Clients
  BY PastStays DEF Clients
<1>c. cleared[t] \in Nat /\ cleared'[t] \in Nat /\ cleared[t] <= cleared'[t]
  BY MarksGrow DEF Inv
<1> SUFFICES ASSUME NEW m, m = Len(replies'[t]), NEW i \in 1 .. m, NEW j \in 1 .. m, i < j,
                    sent'[t][j].command = "READ_OUTPUT", Succeeded(t, j)',
                    LastAcknowledged(t, i, j - 1)'
             PROVE  Gave(t, i, j)'
  BY DEF HasRead, LastAcknowledged
<1>1. m \in {Len(replies[t]), Len(replies[t]) + 1}
  BY <1>0, Answered
<1>2. i \in 1 .. Len(replies[t]) /\ j - 1 \in 0 .. Len(replies[t])
  BY <1>0, <1>1
<1>3. LastAcknowledged(t, i, j - 1)
  BY <1>0, <1>2, LastStays
<1>4. \A k \in i .. j - 1 : k \in 1 .. Len(sent[t])
  BY <1>0, <1>2
<1>5. ASSUME NEW k \in i .. j - 1, Wrote(t, k), replies'[t][j].data = <<sent[t][k].data>>
      PROVE  Gave(t, i, j)'
  <2>1. Wrote(t, k)' /\ replies'[t][j].data = <<sent'[t][k].data>>
    BY <1>0, <1>4, <1>5
  <2> QED BY <2>1 DEF Gave, Wrote
<1>6. ASSUME cleared[t] >= i, replies'[t][j].data = <<Blank>> PROVE Gave(t, i, j)'
  <2>1. cleared'[t] >= i
    BY <1>0, <1>c, <1>2, <1>6
  <2> QED BY <1>6, <2>1 DEF Gave
<1>7. CASE j \in 1 .. Len(replies[t])
  <2>1. /\ j \in 1 .. Len(sent[t]) /\ sent[t][j].command = "READ_OUTPUT" /\ Succeeded(t, j)
        /\ replies'[t][j] = replies[t][j]
    <3>1. j \in 1 .. Len(sent[t])
      BY <1>0, <1>7
    <3>2. replies'[t][j] = replies[t][j] /\ sent'[t][j] = sent[t][j]
      BY <1>0, <1>7, <3>1
    <3> QED BY <3>1, <3>2 DEF Succeeded
  <2>2. Gave(t, i, j)
    BY <1>2, <1>3, <1>7, <2>1 DEF HasRead
  <2>3. CASE cleared[t] >= i /\ replies[t][j].data = <<Blank>>
    BY <1>6, <2>1, <2>3
  <2>4. CASE \E k \in i .. j - 1 : Wrote(t, k) /\ replies[t][j].data = <<sent[t][k].data>>
    <3>1. PICK k \in i .. j - 1 : Wrote(t, k) /\ replies[t][j].data = <<sent[t][k].data>>
      BY <2>4
    <3> QED BY <1>5, <2>1, <3>1
  <2> QED BY <2>2, <2>3, <2>4 DEF Gave
<1>8. CASE j \notin 1 .. Len(replies[t])
  <2>1. m = Len(replies[t]) + 1 /\ j = m /\ Respond(t)
    <3>1. Len(replies[t]) \in Nat /\ m # Len(replies[t])
      BY <1>0, <1>1, <1>8
    <3>2. m = Len(replies[t]) + 1 /\ j = m
      BY <1>1, <1>8, <3>1
    <3> QED BY <1>0, <3>1, <3>2
  <2>2. /\ received[t] = j /\ UNCHANGED <<sent, received>>
        /\ Succeeded(t, received[t])' =>
             (sent[t][received[t]].command = "READ_OUTPUT" =>
                \A h \in 1 .. Len(replies[t]) :
                  LastAcknowledged(t, h, Len(replies[t])) =>
                    May(t, h, replies'[t][received[t]].data))
    <3>1. Len(replies'[t]) = Len(replies[t]) + 1 /\ received[t] = Len(replies[t]) + 1
      BY <2>1, Answered
    <3>2. /\ UNCHANGED <<sent, received>>
          /\ Succeeded(t, received[t])' =>
               (sent[t][received[t]].command = "READ_OUTPUT" =>
                  \A h \in 1 .. Len(replies[t]) :
                    LastAcknowledged(t, h, Len(replies[t])) =>
                      May(t, h, replies'[t][received[t]].data))
      BY <2>1, Answered
    <3> QED BY <2>1, <3>1, <3>2
  <2>3. Succeeded(t, received[t])' /\ sent[t][j].command = "READ_OUTPUT"
    BY <2>2 DEF Succeeded
  <2>4. LastAcknowledged(t, i, Len(replies[t]))
    BY <1>0, <1>3, <2>1
  <2>5. May(t, i, replies'[t][j].data)
    BY <1>2, <2>2, <2>3, <2>4
  <2>6. CASE cleared[t] >= i /\ replies'[t][j].data = <<Blank>>
    BY <1>6, <2>6
  <2>7. CASE \E k \in i .. received[t] : Wrote(t, k) /\ replies'[t][j].data = <<sent[t][k].data>>
    <3>1. PICK k \in i .. received[t] : Wrote(t, k) /\ replies'[t][j].data = <<sent[t][k].data>>
      BY <2>7
    <3>2. k # j
      BY <2>3, <3>1 DEF Wrote
    <3>3. k \in i .. j - 1
      BY <2>2, <3>1, <3>2
    <3> QED BY <1>5, <3>1, <3>3
  <2> QED BY <2>5, <2>6, <2>7 DEF May
<1> QED BY <1>7, <1>8

LEMMA SoleInvInit == Init => SoleInv
<1> SUFFICES ASSUME Init, NEW t \in Tcp PROVE InHand(t) /\ ImageHolds(t) /\ HasRead(t)
  BY DEF SoleInv
<1>1. handler[t] = "none" /\ replies[t] = <<>>
  BY ThreadAssumption DEF Init, Threads, Clients
<1>2. Len(replies[t]) = 0
  BY <1>1
<1> QED BY <1>1, <1>2 DEF InHand, Through, ImageHolds, HasRead

LEMMA SoleInvNext ==
  ASSUME Inv, OutputInv, SoleInv, [Next]_vars
  PROVE  SoleInv'
<1> SUFFICES ASSUME NEW t \in Tcp, Sole(t)' PROVE (InHand(t) /\ ImageHolds(t) /\ HasRead(t))'
  BY DEF SoleInv
<1>1. t \in Clients /\ Sole(t) /\ InHand(t) /\ ImageHolds(t) /\ HasRead(t)
  BY SoleBefore DEF SoleInv, Clients
<1> QED BY <1>1, InHandNext, ImageHoldsNext, HasReadNext

LEMMA ReadBackHolds == Spec => [](Inv /\ OutputInv /\ SentInv /\ SoleInv)
<1>1. Init => OutputInv /\ SentInv /\ SoleInv
  BY OutputInvInit, SentInvInit, SoleInvInit
<1>2. Inv /\ OutputInv /\ SentInv /\ SoleInv /\ [Next]_vars => (OutputInv /\ SentInv /\ SoleInv)'
  BY OutputInvNext, SentInvNext, SoleInvNext
<1> QED BY <1>1, <1>2, InvHolds, PTL DEF Spec

\* However the connections interleave and whatever fails, a client that alone
\* writes the output reads back the last value acknowledged to it, or that of
\* a later write of its own which failed; or zeros, if the output was zeroed
\* after that write was received.
THEOREM FramedReadBack == Spec => []ReadBack
<1>1. Inv /\ SentInv /\ SoleInv => ReadBack
  <2> SUFFICES ASSUME Inv, SentInv, SoleInv, NEW t \in Tcp,
                      \A u \in Clients \ {t}, k \in 1 .. MaxRequests :
                        k <= Len(sent[u]) => ~Wrote(u, k),
                      NEW i \in DOMAIN replies[t], NEW j \in DOMAIN replies[t],
                      i < j, Wrote(t, i) /\ Succeeded(t, i),
                      sent[t][j].command = "READ_OUTPUT" /\ Succeeded(t, j),
                      \A k \in i + 1 .. j - 1 : ~(Wrote(t, k) /\ Succeeded(t, k))
               PROVE  Gave(t, i, j)
    BY DEF ReadBack, Gave
  <2>1. Sole(t)
    <3> SUFFICES ASSUME NEW u \in Clients \ {t}, NEW k \in 1 .. Len(sent[u]) PROVE ~Wrote(u, k)
      BY DEF Sole
    <3>1. Len(sent[u]) \in Nat
      BY DEF Inv, Typed, WireTyped, Threads
    <3>2. MaxRequests \in Nat \ {0}
      BY BoundAssumption
    <3>3. Len(sent[u]) <= MaxRequests
      BY <3>1, <3>2 DEF SentInv, Clients
    <3>4. k \in 1 .. MaxRequests /\ k <= Len(sent[u])
      BY <3>1, <3>2, <3>3
    <3> QED BY <3>4
  <2>2. DOMAIN replies[t] = 1 .. Len(replies[t])
    <3>1. replies[t] \in Seq(Drafts)
      BY DEF Inv, Typed, WireTyped, Threads, Clients
    <3> QED BY <3>1
  <2>3. LastAcknowledged(t, i, j - 1)
    BY DEF LastAcknowledged
  <2> QED BY <2>1, <2>2, <2>3 DEF SoleInv, HasRead
<1> QED BY <1>1, ReadBackHolds, PTL

-----------------------------------------------------------------------------
(* The startup                                                              *)

\* The steps still to make, the one being made among them.
Remaining == {StartupSteps, <<Write("host", "on"), Write("bus", "on")>>, <<Write("bus", "on")>>}

\* All but the last n steps were made, or the first of these was performed.
Made(n) ==
  \/ Len(todo[Main]) < n
  \/ Len(todo[Main]) = n /\ status[Main] = "answered" /\ answer[Main].rc = OK

Marked ==
  /\ Made(3) => card["config"] = "off"
  /\ Made(2) => card["host"] = "on"
  /\ Made(1) => card["bus"] = "on"

\* Before the servers come up only the starting thread is at work, and the
\* steps it has made have left their mark, unless one of them failed.
StartupInv ==
  ~Serving =>
    /\ \A t \in Clients : handler[t] = "none" /\ peer[t] = "away"
    /\ todo[Main] \in Remaining
    /\ ~disturbed => Marked

LEMMA RemainingMeans ==
  ASSUME NEW s \in Remaining
  PROVE  /\ Len(s) \in 1 .. 3
         /\ Len(s) = 3 => Head(s) = Write("config", "off") /\ Tail(s) \in Remaining /\ Len(Tail(s)) = 2
         /\ Len(s) = 2 => Head(s) = Write("host", "on") /\ Tail(s) \in Remaining /\ Len(Tail(s)) = 1
         /\ Len(s) = 1 => Head(s) = Write("bus", "on")
<1>1. CASE s = StartupSteps
  <2>1. /\ Head(s) = Write("config", "off") /\ Len(s) = 3
        /\ Tail(s) = <<Write("host", "on"), Write("bus", "on")>>
    BY <1>1 DEF StartupSteps
  <2>2. Len(Tail(s)) = 2
    BY <2>1
  <2> QED BY <2>1, <2>2 DEF Remaining
<1>2. CASE s = <<Write("host", "on"), Write("bus", "on")>>
  <2>1. /\ Head(s) = Write("host", "on") /\ Len(s) = 2 /\ Tail(s) = <<Write("bus", "on")>>
    BY <1>2
  <2>2. Len(Tail(s)) = 1
    BY <2>1
  <2> QED BY <2>1, <2>2 DEF Remaining
<1>3. CASE s = <<Write("bus", "on")>>
  <2>1. Head(s) = Write("bus", "on") /\ Len(s) = 1
    BY <1>3
  <2> QED BY <2>1
<1> QED BY <1>1, <1>2, <1>3 DEF Remaining

LEMMA StartupInit == Init => StartupInv
<1> SUFFICES ASSUME Init PROVE StartupInv
  OBVIOUS
<1>1. \A t \in Clients : handler[t] = "none" /\ peer[t] = "away"
  BY ThreadAssumption DEF Init, Threads, Clients
<1>2. todo[Main] = StartupSteps /\ status[Main] = "idle"
  BY DEF Init, Image!Init, Threads
<1>3. Marked
  BY <1>2, StartupTypes DEF Marked, Made
<1> QED BY <1>1, <1>2, <1>3 DEF StartupInv, Remaining

\* The step in hand sets its register and no other.
LEMMA StepMarks ==
  ASSUME NEW c \in Cards, NEW s \in Remaining, NEW d \in Effects(c, Head(s))
  PROVE  /\ Len(s) = 3 => d["config"] = "off"
         /\ Len(s) < 3 => d["config"] = c["config"]
         /\ Len(s) = 2 => d["host"] = "on"
         /\ Len(s) < 2 => d["host"] = c["host"]
         /\ Len(s) = 1 => d["bus"] = "on"
<1>1. \A r, v : Effects(c, Write(r, v)) = {[c EXCEPT ![r] = v]}
  BY DEF Effects, Write
<1>2. CASE Len(s) = 3
  BY <1>1, <1>2, RemainingMeans DEF Cards
<1>3. CASE Len(s) = 2
  BY <1>1, <1>3, RemainingMeans DEF Cards
<1>4. CASE Len(s) = 1
  BY <1>1, <1>4, RemainingMeans DEF Cards
<1> QED BY <1>2, <1>3, <1>4, RemainingMeans

LEMMA StartupNext ==
  ASSUME Inv, StartupInv, [Next]_vars
  PROVE  StartupInv'
<1> SUFFICES ASSUME ~Serving'
             PROVE  /\ \A t \in Clients : handler'[t] = "none" /\ peer'[t] = "away"
                    /\ todo'[Main] \in Remaining
                    /\ ~disturbed' => Marked'
  BY DEF StartupInv, Remaining
<1>0. /\ Main \in Threads /\ Clients \subseteq Threads \ {Main}
      /\ handler \in [Threads -> Places] /\ todo \in [Threads -> Seq(DriverCalls)]
      /\ card \in Cards /\ disturbed \in BOOLEAN /\ CallOK(Main)
      /\ status \in [Threads -> {"idle", "pending", "answered"}]
  BY ThreadAssumption DEF Inv, Typed, ImageTyped, WorkTyped, CallInv, Threads, Clients
<1>s. ASSUME NEW t \in Threads, ClientStep(t), ~Serving
      PROVE  t = Main /\ (Call(Main) \/ BackendStep(Main))
  <2>1. CASE t = Main
    BY <1>s, <2>1, MainSteps DEF Inv
  <2>2. CASE t # Main
    <3>1. t \in Clients /\ handler[t] = "none" /\ peer[t] = "away"
      BY <1>s, <2>2 DEF StartupInv, Threads
    <3>2. ~BackendStep(t)
      BY <1>0, <3>1, AnswerMeans DEF BackendStep, Inv, Typed, CallInv, CallOK, Clients, Threads
    <3> QED
      BY <1>s, <3>1, <3>2
      DEF ClientStep, HandlerStep, Begin, Receive, Call, CallReturns, Respond, RespondFails,
          Record, ReceiveEnds, End, Arrive, SendRequest, Stall, Leave
  <2> QED BY <2>1, <2>2
<1>m. ~Serving
  <2>1. CASE Serving
    <3>1. UNCHANGED handler[Main]
      <4>1. ASSUME NEW t \in Threads, ClientStep(t) PROVE UNCHANGED handler[Main]
        <5>1. CASE t = Main
          <6>1. Call(Main) \/ BackendStep(Main)
            BY <4>1, <5>1, MainSteps DEF Inv
          <6> QED BY <2>1, <6>1 DEF Serving, Call, BackendStep, work
        <5>2. CASE t # Main
          BY <1>0, <4>1, <5>2, OthersSame DEF Same, Inv
        <5> QED BY <5>1, <5>2
      <4>2. ~StepReturns
        BY <2>1 DEF StepReturns, Serving
      <4>3. CASE CardMoves \/ ClearLog \/ UNCHANGED vars
        BY <1>0, <4>3, AllSame DEF Same
      <4> QED BY <4>1, <4>2, <4>3, Actors
    <3> QED BY <2>1, <3>1 DEF Serving
  <2> QED BY <2>1
<1>1. /\ \A t \in Clients : handler[t] = "none" /\ peer[t] = "away"
      /\ todo[Main] \in Remaining
      /\ ~disturbed => Marked
  BY <1>m DEF StartupInv
<1>2. ASSUME UNCHANGED todo[Main], UNCHANGED <<card, status[Main], answer[Main]>>
      PROVE  Marked' <=> Marked
  BY <1>2 DEF Marked, Made
<1>3. \A t \in Clients : handler'[t] = "none" /\ peer'[t] = "away"
  <2> SUFFICES ASSUME NEW t \in Clients PROVE handler'[t] = "none" /\ peer'[t] = "away"
    OBVIOUS
  <2>1. Same(t)
    <3>1. ASSUME NEW u \in Threads, ClientStep(u) PROVE Same(t)
      BY <1>0, <1>m, <1>s, <3>1, OthersSame DEF Inv
    <3> QED BY <1>0, <3>1, ClientsSame, AllSame, Actors DEF Inv
  <2> QED BY <1>1, <2>1 DEF Same
<1>4. CASE Call(Main)
  <2>1. status'[Main] = "pending" /\ UNCHANGED <<card, todo, disturbed>>
    BY <1>0, <1>4, InvokeMeans DEF Call, ghosts
  <2> QED BY <1>1, <1>3, <2>1 DEF Marked, Made
<1>5. CASE BackendStep(Main)
  <2>1. /\ status[Main] = "pending" /\ status'[Main] = "answered"
        /\ UNCHANGED <<todo, disturbed>> /\ (Performed(Main) \/ Refused(Main))
    BY <1>0, <1>5, AnswerMeans DEF BackendStep, work, Inv, Typed
  <2>2. op[Main] = Head(todo[Main])
    BY <1>0, <2>1 DEF CallOK
  <2>3. CASE Performed(Main)
    <3>1. card' \in Effects(card, Head(todo[Main]))
      BY <2>2, <2>3 DEF Performed
    <3>2. Marked \/ disturbed
      BY <1>1
    <3>3. Len(todo[Main]) \in 1 .. 3
      BY <1>1, RemainingMeans
    <3>4. /\ Len(todo[Main]) = 3 => card'["config"] = "off"
          /\ Len(todo[Main]) < 3 => card'["config"] = card["config"]
          /\ Len(todo[Main]) = 2 => card'["host"] = "on"
          /\ Len(todo[Main]) < 2 => card'["host"] = card["host"]
          /\ Len(todo[Main]) = 1 => card'["bus"] = "on"
      BY <1>0, <1>1, <3>1, StepMarks
    <3>5. UNCHANGED todo
      BY <2>1
    <3>6. Marked \/ disturbed'
      BY <2>1, <3>2
    <3>7. Marked => Marked'
      <4>1. (Made(3)' => card'["config"] = "off") \/ ~Marked
        BY <2>1, <3>3, <3>4, <3>5 DEF Marked, Made
      <4>2. (Made(2)' => card'["host"] = "on") \/ ~Marked
        BY <2>1, <3>3, <3>4, <3>5 DEF Marked, Made
      <4>3. (Made(1)' => card'["bus"] = "on") \/ ~Marked
        BY <2>1, <3>3, <3>4, <3>5 DEF Marked, Made
      <4> QED BY <4>1, <4>2, <4>3 DEF Marked
    <3> QED BY <1>1, <1>3, <2>1, <3>6, <3>7
  <2>4. CASE Refused(Main)
    <3>1. answer'[Main].rc # OK /\ card' \in {card} \cup Effects(card, Head(todo[Main]))
      BY <2>2, <2>4, OkIsNoError DEF Refused, Failure
    <3>2. /\ Len(todo[Main]) \in 1 .. 3
          /\ Len(todo[Main]) < 3 => card'["config"] = card["config"]
          /\ Len(todo[Main]) < 2 => card'["host"] = card["host"]
      BY <1>0, <1>1, <3>1, StepMarks, RemainingMeans
    <3> QED BY <1>1, <1>3, <2>1, <3>1, <3>2 DEF Marked, Made
  <2> QED BY <2>1, <2>3, <2>4
<1>6. CASE StepReturns
  <2>1. /\ status[Main] = "answered" /\ status'[Main] = "idle" /\ UNCHANGED card
        /\ todo'[Main] = Tail(todo[Main]) /\ handler'[Main] = AfterStep
    BY <1>0, <1>6, ReturnMeans DEF StepReturns, AfterFailedStep
  <2>2. Len(todo[Main]) > 1
    BY <2>1 DEF AfterStep, Serving
  <2>3. /\ Len(todo[Main]) \in {2, 3} /\ Tail(todo[Main]) \in Remaining
        /\ Len(Tail(todo[Main])) = Len(todo[Main]) - 1
    <3>1. /\ Len(todo[Main]) \in 1 .. 3
          /\ Len(todo[Main]) = 3 => Tail(todo[Main]) \in Remaining /\ Len(Tail(todo[Main])) = 2
          /\ Len(todo[Main]) = 2 => Tail(todo[Main]) \in Remaining /\ Len(Tail(todo[Main])) = 1
      BY <1>1, RemainingMeans
    <3>2. Len(todo[Main]) \in {2, 3}
      <4>1. PICK n \in 1 .. 3 : n = Len(todo[Main])
        BY <3>1
      <4>2. n > 1
        BY <2>2, <4>1, Zenon
      <4>3. n \in {2, 3}
        BY <4>2
      <4> QED BY <4>1, <4>3
    <3> QED BY <3>1, <3>2
  <2>4. ~disturbed' => ~disturbed /\ answer[Main].rc = OK
    BY <1>6 DEF StepReturns
  <2>5. ~disturbed' => Marked'
    <3> SUFFICES ASSUME ~disturbed' PROVE Marked'
      OBVIOUS
    <3>1. Marked /\ answer[Main].rc = OK
      BY <1>1, <2>4
    <3>2. Len(todo'[Main]) = Len(todo[Main]) - 1 /\ status'[Main] # "answered"
      BY <2>1, <2>3
    <3>3. \A n \in {1, 2, 3} : Made(n)' => Made(n)
      BY <2>1, <2>3, <3>1, <3>2 DEF Made
    <3> QED BY <2>1, <3>1, <3>3 DEF Marked
  <2> QED BY <1>3, <2>1, <2>3, <2>5
<1>7. CASE CardMoves
  <2>1. UNCHANGED <<todo, status, answer>>
    BY <1>7 DEF CardMoves, work, Image!CardMoves
  <2>2. ~disturbed' => ~disturbed /\ card'["bus"] = card["bus"] /\ card'["host"] = card["host"]
    BY <1>7, <1>m DEF CardMoves
  <2>3. card'["config"] = card["config"]
    BY <1>0, <1>7, CardMovesMeans DEF CardMoves
  <2> QED BY <1>1, <1>3, <2>1, <2>2, <2>3 DEF Marked, Made
<1>8. CASE ClearLog \/ UNCHANGED vars
  <2>1. UNCHANGED <<card, status, answer, todo, disturbed>>
    BY <1>8 DEF ClearLog, vars, image, work, ghosts
  <2> QED BY <1>1, <1>2, <1>3, <2>1
<1> QED BY <1>m, <1>s, <1>4, <1>5, <1>6, <1>7, <1>8, Actors

\* Whatever else the startup meets, when none of its steps fails and the card
\* does not restart meanwhile the servers come up on a card that is unlocked,
\* ready and on the bus.
THEOREM FramedServesActiveCard == Spec => ServesActiveCard
<1>1. ASSUME Inv, StartupInv, [Next]_vars
      PROVE  Serving' /\ ~Serving /\ ~disturbed' =>
               card'.config = "off" /\ card'.host = "on" /\ card'.bus = "on"
  <2> SUFFICES ASSUME Serving', ~Serving, ~disturbed'
               PROVE  card'["config"] = "off" /\ card'["host"] = "on" /\ card'["bus"] = "on"
    OBVIOUS
  <2>0. Main \in Threads /\ handler \in [Threads -> Places] /\ disturbed \in BOOLEAN
    BY <1>1 DEF Inv, Typed, WorkTyped, Threads
  <2>1. StepReturns
    <3>1. ASSUME NEW t \in Threads, ClientStep(t) PROVE FALSE
      <4>1. CASE t = Main
        <5>1. Call(Main) \/ BackendStep(Main)
          BY <1>1, <3>1, <4>1, MainSteps DEF Inv
        <5> QED BY <2>0, <5>1 DEF Serving, Call, BackendStep, work
      <4>2. CASE t # Main
        BY <1>1, <2>0, <3>1, <4>2, OthersSame DEF Same, Inv, Serving
      <4> QED BY <4>1, <4>2
    <3>2. CASE CardMoves \/ ClearLog \/ UNCHANGED vars
      BY <2>0, <3>2, AllSame DEF Same, Serving
    <3> QED BY <1>1, <3>1, <3>2, Actors
  <2>2. /\ status[Main] = "answered" /\ UNCHANGED card /\ handler'[Main] = AfterStep
    BY <2>0, <2>1, ReturnMeans DEF StepReturns, AfterFailedStep
  <2>3. answer[Main].rc = OK /\ ~disturbed
    BY <2>1 DEF StepReturns
  <2>4. Len(todo[Main]) = 1
    <3>1. ~(Len(todo[Main]) > 1)
      BY <2>2 DEF Serving, AfterStep
    <3>2. todo[Main] \in Remaining
      BY <1>1 DEF StartupInv
    <3> QED BY <3>1, <3>2, RemainingMeans
  <2>5. Marked
    BY <1>1, <2>3 DEF StartupInv
  <2> QED BY <2>2, <2>3, <2>4, <2>5 DEF Marked, Made
<1>2. Spec => []StartupInv
  BY StartupInit, StartupNext, InvHolds, PTL DEF Spec
<1> QED BY <1>1, <1>2, InvHolds, PTL DEF Spec, ServesActiveCard

=============================================================================
