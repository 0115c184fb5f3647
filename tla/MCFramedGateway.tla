--------------------------- MODULE MCFramedGateway ----------------------------
(* FramedGateway on small instances: which requests clients send.           *)
EXTENDS FramedGateway, TLC

CONSTANTS c1, u1, v1, v2

R(command, form, data) == [command |-> command, form |-> form, data |-> data]

OneConnection == {c1}
OneDatagram == {u1}
TwoValues == {v1, v2}
OneValue == {v1}

\* A request that may fail in the backend, and one that is refused before.
TwoKinds == {R("READ_INPUT", "ok", NoValue), R("WRITE_OUTPUT", "malformed", v1)}

Writing == R("WRITE_OUTPUT", "ok", v1)
ReadingBack == R("READ_OUTPUT", "ok", NoValue)
Resetting == R("RESET", "ok", NoValue)

\* Writing the output, reading it back and resetting the card; the command with
\* two backend calls; and every way a frame can be refused.
FrameKinds ==
  {Writing, ReadingBack, Resetting, R("GET_STATUS", "ok", NoValue),
   R("WRITE_OUTPUT", "malformed", v1), R("READ_INPUT", "desync", NoValue),
   R("UNKNOWN", "ok", NoValue)}

\* A start that goes well, and a drive that leaves its input alone.
QuietCard == ~disturbed /\ card.input = Blank

\* A third request only reads back what the first one wrote, after another
\* write or a RESET; the datagram is a RESET.
FewRequests ==
  /\ \A t \in Tcp : Len(sent[t]) > 2 => sent[t][1] = Writing
                                       /\ sent[t][2] \in {Writing, Resetting}
                                       /\ sent[t][3] = ReadingBack
  /\ \A u \in Udp : sent[u] # <<>> => sent[u][1] = Resetting

\* A client that stalls or vanishes only keeps its thread from steps that it may
\* take with one that stays or leaves, so safety loses nothing without them.
PlainClients == \A t \in Threads : peer[t] \in {"away", "here", "left"}

Pipelining == QuietCard /\ FewRequests /\ PlainClients
=============================================================================
