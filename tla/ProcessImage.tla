---------------------------- MODULE ProcessImage ----------------------------
(* What a CifXBackend (cifx/backend.py) promises the gateway: the card's    *)
(* registers behave as one shared image, and every driver call issued on it *)
(* takes effect at most once, at one instant between its invocation and its *)
(* answer.  A call that succeeds took effect exactly once and, when it      *)
(* reads, answers what the register held at that instant.  A call that      *)
(* fails may or may not have reached the card, but never more than once.    *)
(*                                                                          *)
(* get_status() is two such calls (bus state, then host state): the image   *)
(* promises nothing about the pair.                                         *)
EXTENDS CifxDriver

CONSTANT Threads  \* the threads that call the backend

VARIABLES card, status, op, answer
vars == <<card, status, op, answer>>

Init ==
  /\ card \in Cards
  /\ status = [t \in Threads |-> "idle"]
  /\ op = [t \in Threads |-> NoOp]
  /\ answer = [t \in Threads |-> NoAnswer]

Invoke(t) ==
  /\ status[t] = "idle"
  /\ \E o \in DriverCalls : op' = [op EXCEPT ![t] = o]
  /\ status' = [status EXCEPT ![t] = "pending"]
  /\ UNCHANGED <<card, answer>>

Perform(t) ==
  /\ status[t] = "pending"
  /\ card' \in Effects(card, op[t])
  /\ answer' = [answer EXCEPT ![t] = Success(card, op[t])]
  /\ status' = [status EXCEPT ![t] = "answered"]
  /\ UNCHANGED op

Refuse(t) ==
  /\ status[t] = "pending"
  /\ card' \in {card} \cup Effects(card, op[t])
  /\ \E rc \in Errors : answer' = [answer EXCEPT ![t] = Failure(rc)]
  /\ status' = [status EXCEPT ![t] = "answered"]
  /\ UNCHANGED op

Return(t) ==
  /\ status[t] = "answered"
  /\ status' = [status EXCEPT ![t] = "idle"]
  /\ op' = [op EXCEPT ![t] = NoOp]
  /\ answer' = [answer EXCEPT ![t] = NoAnswer]
  /\ UNCHANGED card

\* The PROFINET side: the drive updates its input data, or the card restarts.
CardMoves ==
  /\ \/ \E v \in Values : card' = [card EXCEPT !.input = v]
     \/ card' \in Restarted(card)
  /\ UNCHANGED <<status, op, answer>>

Next ==
  \/ \E t \in Threads : Invoke(t) \/ Perform(t) \/ Refuse(t) \/ Return(t)
  \/ CardMoves

Spec == Init /\ [][Next]_vars
=============================================================================
