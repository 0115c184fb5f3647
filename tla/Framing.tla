------------------------------- MODULE Framing -------------------------------
(* One TCP connection byte by byte: how frames are put on the stream and    *)
(* found in it again, by the framed server (gateway/tcp_server.py), by the  *)
(* streaming server in its two write framings (gateway/stream_server.py),   *)
(* and by their clients (examples/), with the codec of the framed protocol  *)
(* (gateway/protocol.py).  Bytes are numbers, and the markers, widths and   *)
(* limits are the code's own.                                               *)
(*                                                                          *)
(* recv() returns any part of what is there, so a frame arrives in pieces   *)
(* and a piece may hold the end of one frame and the start of the next.     *)
EXTENDS Naturals, Sequences

CONSTANTS
  Requests,     \* the requests a framed client makes: [command, length, data]
  Malformed,    \* frames it makes that are no requests
  Garbage,      \* bytes it sends that are no frame
  Writes,       \* the frames a streaming client writes, with length prefix
  AsciiGarbage, \* bytes it sends that are no such frame
  Blocks,       \* write frames, and pushes, of a fixed length
  MaxSends      \* frames a connection carries each way (a bound)

START_BYTE == 130            \* 0x82
END_BYTE == 131              \* 0x83
MAX_FRAME_SIZE == 64 * 1024
LEN_PREFIX_LITERAL == <<108, 101, 110, 34>>  \* len"
Quote == 34
Digits == 48 .. 57
MAX_LENGTH_DIGITS == 6
FixedLength == 2             \* write_length, and read_length of the pushes

Byte == 0 .. 255

\* struct's ">H", ">I": the bytes of a number, and the number they stand for
Short(n) == <<(n \div 256) % 256, n % 256>>
Long(n) == Short(n \div 65536) \o Short(n % 65536)
OfShort(bytes) == 256 * bytes[1] + bytes[2]
OfLong(bytes) == 65536 * OfShort(SubSeq(bytes, 1, 2)) + OfShort(SubSeq(bytes, 3, 4))

-----------------------------------------------------------------------------
(* protocol.py                                                              *)

READ_INPUT == 1
WRITE_OUTPUT == 2
SET_HOST_STATE == 17
Commands == {1, 2, 3, 16, 17, 18, 19}

\* Area and offset are one and two bytes like any other: 0 here.
EncodeRequest(r) ==
  <<r.command, 0, 0, 0>> \o Short(r.length) \o
  (IF r.command \in {WRITE_OUTPUT, SET_HOST_STATE} THEN r.data ELSE <<>>)

Header(frame) == [command |-> frame[1], length |-> OfShort(SubSeq(frame, 5, 6))]

WellFormed(frame) ==
  /\ Len(frame) >= 6
  /\ frame[1] = WRITE_OUTPUT => Len(frame) - 6 = Header(frame).length
  /\ frame[1] = SET_HOST_STATE => Len(frame) = 7

Refused(frame) == [status |-> 1, command |-> IF frame = <<>> THEN 255 ELSE frame[1]]

\* Mutant: the declared length is not compared with the payload.
DecodeRequest_AnyLength(frame) ==
  IF Len(frame) < 6 THEN Refused(frame)
  ELSE [command |-> frame[1], length |-> Header(frame).length,
        data |-> IF frame[1] \in {WRITE_OUTPUT, SET_HOST_STATE}
                 THEN SubSeq(frame, 7, Len(frame)) ELSE <<>>]

DecodeRequest(frame) ==
  IF ~WellFormed(frame) THEN Refused(frame)
  ELSE [command |-> frame[1], length |-> Header(frame).length,
        data |-> IF frame[1] \in {WRITE_OUTPUT, SET_HOST_STATE}
                 THEN SubSeq(frame, 7, Len(frame)) ELSE <<>>]

Response(status, command, data) == [status |-> status, command |-> command, data |-> data]

EncodeResponse(r) == <<r.status, r.command>> \o Short(Len(r.data)) \o r.data

DecodeResponse(frame) ==
  Response(frame[1], frame[2], SubSeq(frame, 5, 4 + OfShort(SubSeq(frame, 3, 4))))

\* handle_frame(), over a card whose input image is made of end markers.
Execute(r) ==
  IF "status" \in DOMAIN r THEN Response(1, r.command, <<>>)
  ELSE IF r.command \notin Commands THEN Response(2, r.command, <<>>)
  ELSE Response(0, r.command,
                IF r.command = READ_INPUT THEN [i \in 1 .. r.length |-> END_BYTE] ELSE <<>>)

-----------------------------------------------------------------------------
VARIABLES
  mode,    \* "framed", "ascii" or "fixed": the server's configuration
  wire,    \* per side, the bytes on their way to it
  reader,  \* per side, where it is in the stream
  sent,    \* per side, what was sent to it, frame by frame
  got,     \* per side, the frames it took from the stream
  open     \* per side, its end of the connection is open

vars == <<mode, wire, reader, sent, got, open>>

Sides == {"server", "client"}

Format(side) == IF mode = "framed" THEN "framed"
                ELSE IF side = "server" THEN mode ELSE "fixed"

At(stage, need, kept) == [stage |-> stage, need |-> need, buffer |-> <<>>, kept |-> kept]

\* The first thing a reader asks for.
Start(side) ==
  CASE Format(side) = "framed" -> At("start", 1, <<>>)
    [] Format(side) = "ascii"  -> At("literal", Len(LEN_PREFIX_LITERAL), <<>>)
    [] Format(side) = "fixed"  -> At("data", FixedLength, <<>>)

Init ==
  /\ mode \in {"framed", "ascii", "fixed"}
  /\ wire = [s \in Sides |-> <<>>]
  /\ reader = [s \in Sides |-> Start(s)]
  /\ sent = [s \in Sides |-> <<>>]
  /\ got = [s \in Sides |-> <<>>]
  /\ open = [s \in Sides |-> TRUE]

-----------------------------------------------------------------------------
(* Reading: _recv_exact() and what is done with what it returns             *)

Broken == At("broken", 0, <<>>)       \* the connection is given up
Whole(frame) == At("whole", 0, frame) \* a frame was found

TooLong(n) == n > MAX_FRAME_SIZE

\* [START][4-byte length][frame][END].  Only the server has a limit.
AfterFramed(side, r, bytes) ==
  CASE r.stage = "start"  -> IF bytes = <<START_BYTE>> THEN At("length", 4, <<>>) ELSE Broken
    [] r.stage = "length" -> IF side = "server" /\ TooLong(OfLong(bytes)) THEN Broken
                             ELSE At("frame", OfLong(bytes), <<>>)
    [] r.stage = "frame"  -> At("end", 1, bytes)
    [] r.stage = "end"    -> IF bytes = <<END_BYTE>> THEN Whole(r.kept) ELSE Broken

\* int(text), of at most MAX_LENGTH_DIGITS digits
LengthOf(text) ==
  LET digit(i) == IF i < Len(text) THEN text[Len(text) - i] - 48 ELSE 0
  IN digit(0) + 10 * digit(1) + 100 * digit(2)
     + 1000 * digit(3) + 10000 * digit(4) + 100000 * digit(5)

\* len"N" and N bytes
AfterAscii(r, bytes) ==
  CASE r.stage = "literal" -> IF bytes = LEN_PREFIX_LITERAL THEN At("digit", 1, <<>>) ELSE Broken
    [] r.stage = "digit" /\ bytes = <<Quote>> ->
         IF r.kept = <<>> \/ TooLong(LengthOf(r.kept)) THEN Broken
         ELSE At("data", LengthOf(r.kept), <<>>)
    [] r.stage = "digit" /\ bytes # <<Quote>> ->
         IF bytes[1] \notin Digits \/ Len(r.kept) = MAX_LENGTH_DIGITS THEN Broken
         ELSE At("digit", 1, r.kept \o bytes)
    [] r.stage = "data"    -> Whole(bytes)

After(side, r, bytes) ==
  CASE Format(side) = "framed" -> AfterFramed(side, r, bytes)
    [] Format(side) = "ascii"  -> AfterAscii(r, bytes)
    [] Format(side) = "fixed"  -> Whole(bytes)

\* Mutants: one recv() is taken to return all that was asked for; recv() is
\* called for an empty frame too, and finds nothing.
Complete_Once(r, bytes) == TRUE
Sizes_NeverZero(r, n) == 1 .. (IF r.need - Len(r.buffer) < n THEN r.need - Len(r.buffer) ELSE n)

Complete(r, bytes) == Len(bytes) = r.need

\* How much one call of recv() may return, of n bytes; none is made for an
\* empty frame.
Sizes(r, n) ==
  IF r.need = 0 THEN {0}
  ELSE 1 .. (IF r.need - Len(r.buffer) < n THEN r.need - Len(r.buffer) ELSE n)

\* A framed server answers before it reads on.
Reading(side) == open[side] /\ reader[side].stage \notin {"broken", "whole"}

Receive(side) ==
  /\ Reading(side)
  /\ \E k \in Sizes(reader[side], Len(wire[side])) :
       LET r == reader[side]
           bytes == r.buffer \o SubSeq(wire[side], 1, k)
           next == After(side, r, bytes)
       IN /\ wire' = [wire EXCEPT ![side] = SubSeq(@, k + 1, Len(@))]
          /\ IF ~Complete(r, bytes)
             THEN /\ reader' = [reader EXCEPT ![side].buffer = bytes]
                  /\ UNCHANGED got
             ELSE IF next.stage = "whole"
             THEN /\ got' = [got EXCEPT ![side] = Append(@, next.kept)]
                  /\ reader' = [reader EXCEPT ![side] =
                       IF side = "server" /\ mode = "framed" THEN next ELSE Start(side)]
             ELSE /\ reader' = [reader EXCEPT ![side] = next]
                  /\ UNCHANGED got
  /\ UNCHANGED <<mode, sent, open>>

\* The side's end is closed.  What it has not read may cost the other side
\* what that has not received yet.
Closes(side) ==
  LET other == CHOOSE s \in Sides : s # side
  IN /\ open' = [open EXCEPT ![side] = FALSE]
     /\ \E k \in IF wire[side] = <<>> THEN {Len(wire[other])} ELSE 0 .. Len(wire[other]) :
          wire' = [wire EXCEPT ![side] = <<>>, ![other] = SubSeq(@, 1, k)]
     /\ UNCHANGED <<mode, reader, sent, got>>

\* Mutant: a byte out of step is skipped.
GivesUp_Resync(side) == FALSE

\* A frame could not be found: the connection is closed.
GivesUp(side) == reader[side].stage = "broken"

\* recv() returns nothing: the other side has closed.
SeesEnd(side) ==
  /\ Reading(side) /\ reader[side].need > 0
  /\ wire[side] = <<>>
  /\ \E s \in Sides \ {side} : ~open[s]

Close(side) == open[side] /\ (GivesUp(side) \/ SeesEnd(side)) /\ Closes(side)

-----------------------------------------------------------------------------
(* Sending: sendall()                                                       *)

Framed(frame) == <<START_BYTE>> \o Long(Len(frame)) \o frame \o <<END_BYTE>>

\* str(n).encode("ascii"), for a length that is not too long.
Decimal(n) ==
  LET digit(unit) == 48 + ((n \div unit) % 10)
  IN IF n < 10 THEN <<digit(1)>>
     ELSE IF n < 100 THEN <<digit(10), digit(1)>>
     ELSE IF n < 1000 THEN <<digit(100), digit(10), digit(1)>>
     ELSE IF n < 10000 THEN <<digit(1000), digit(100), digit(10), digit(1)>>
     ELSE <<digit(10000), digit(1000), digit(100), digit(10), digit(1)>>

Prefixed(data) == LEN_PREFIX_LITERAL \o Decimal(Len(data)) \o <<Quote>> \o data

Send(side, bytes, item) ==
  /\ wire' = [wire EXCEPT ![side] = IF open[side] THEN @ \o bytes ELSE @]
  /\ sent' = [sent EXCEPT ![side] = Append(@, item)]

NoFrame == [bytes |-> "bad"]
Data(bytes) == [data |-> bytes]

\* Bytes in which a server that looks for a frame finds that there is none.
BadFrame(g) ==
  \/ Len(g) >= 1 /\ g[1] # START_BYTE
  \/ /\ Len(g) >= 5
     /\ LET n == OfLong(SubSeq(g, 2, 5))
        IN TooLong(n) \/ (Len(g) >= 6 + n /\ g[6 + n] # END_BYTE)

BadPrefix(g) ==
  \/ Len(g) >= 4 /\ SubSeq(g, 1, 4) # LEN_PREFIX_LITERAL
  \/ \E n \in 0 .. MAX_LENGTH_DIGITS :
       LET text == SubSeq(g, 5, 4 + n)
       IN /\ Len(g) >= 5 + n
          /\ \A i \in 1 .. n : text[i] \in Digits
          /\ IF g[5 + n] = Quote THEN n = 0 \/ TooLong(LengthOf(text))
             ELSE n = MAX_LENGTH_DIGITS \/ g[5 + n] \notin Digits

\* The requests are what encode_request() can pack, and a length field holds
\* the length of the longest malformed frame.
ASSUME RequestAssumption ==
  \A r \in Requests :
    /\ r \in [command : Byte, length : Nat, data : Seq(Byte)]
    /\ r.length < 65536
    /\ Len(r.data) = IF r.command = WRITE_OUTPUT THEN r.length
                     ELSE IF r.command = SET_HOST_STATE THEN 1 ELSE 0

ASSUME MalformedAssumption ==
  \A f \in Malformed : f \in Seq(Byte) /\ ~WellFormed(f) /\ Len(f) \div 65536 < 65536

ASSUME GarbageAssumption ==
  /\ \A g \in Garbage : g \in Seq(Byte) /\ BadFrame(g)
  /\ \A g \in AsciiGarbage : g \in Seq(Byte) /\ BadPrefix(g)

ASSUME WriteAssumption == \A w \in Writes : w \in Seq(Byte) /\ ~TooLong(Len(w))

ASSUME BlockAssumption == \A b \in Blocks : b \in Seq(Byte) /\ Len(b) = FixedLength

ClientSends ==
  /\ open["client"] /\ Len(sent["server"]) < MaxSends
  /\ \/ /\ mode = "framed"
        /\ \/ \E r \in Requests : Send("server", Framed(EncodeRequest(r)), r)
           \/ \E f \in Malformed : Send("server", Framed(f), Refused(f))
           \/ \E g \in Garbage : Send("server", g, NoFrame)
     \/ /\ mode = "ascii"
        /\ \/ \E w \in Writes : Send("server", Prefixed(w), Data(w))
           \/ \E g \in AsciiGarbage : Send("server", g, NoFrame)
     \/ /\ mode = "fixed"
        /\ \E b \in Blocks : Send("server", b, Data(b))
  /\ UNCHANGED <<mode, reader, got, open>>

\* The framed server's answer to the frame it has just read.
Answer ==
  /\ open["server"] /\ reader["server"].stage = "whole"
  /\ LET response == Execute(DecodeRequest(reader["server"].kept))
     IN Send("client", Framed(EncodeResponse(response)), response)
  /\ reader' = [reader EXCEPT !["server"] = Start("server")]
  /\ UNCHANGED <<mode, got, open>>

\* sendall() finds that the client has closed.
AnswerFails ==
  /\ open["server"] /\ reader["server"].stage = "whole" /\ ~open["client"]
  /\ Closes("server")

\* The streaming server's poll_loop() pushes what it read.
Push ==
  /\ mode # "framed"
  /\ open["server"] /\ Len(sent["client"]) < MaxSends
  /\ \E b \in Blocks : Send("client", b, Data(b))
  /\ UNCHANGED <<mode, reader, got, open>>

\* The client ends, or dies: bytes it has sent may be lost from any point on.
Leave ==
  /\ open["client"]
  /\ open' = [open EXCEPT !["client"] = FALSE]
  /\ \E k \in 0 .. Len(wire["server"]) :
       wire' = [wire EXCEPT !["server"] = SubSeq(@, 1, k), !["client"] = <<>>]
  /\ UNCHANGED <<mode, reader, sent, got>>

-----------------------------------------------------------------------------
Side(s) == Receive(s) \/ Close(s)

Next ==
  \/ \E s \in Sides : Side(s)
  \/ ClientSends \/ Answer \/ AnswerFails \/ Push \/ Leave

Spec == Init /\ [][Next]_vars

\* Both sides go on reading, and the server answers.
FairSpec ==
  Spec /\ (\A s \in Sides : WF_vars(Side(s))) /\ WF_vars(Answer \/ AnswerFails)

-----------------------------------------------------------------------------
(* Properties                                                               *)

\* What the frames a side took from the stream say to it.
Understood(side, frame) ==
  IF mode # "framed" THEN Data(frame)
  ELSE IF side = "server" THEN DecodeRequest(frame)
  ELSE DecodeResponse(frame)

\* However the stream is cut into pieces, whatever bytes the payloads are made
\* of, and wherever it ends: each side takes from it exactly the frames that
\* were sent, in order, up to the first that was none.
FramesExact ==
  \A s \in Sides :
    \A i \in DOMAIN got[s] :
      /\ Understood(s, got[s][i]) = sent[s][i]
      /\ sent[s][i] # NoFrame

\* The i-th response a client reads answers the i-th request it made, one
\* that was refused included.
AnswersMatch ==
  mode = "framed" =>
    \A i \in DOMAIN got["client"] :
      DecodeResponse(got["client"][i]) = Execute(sent["server"][i])

\* While the client stays, each frame it sends, an empty one included, is
\* taken and, in the framed protocol, answered: if none before it was garbage.
FramesTaken ==
  \A i \in 1 .. MaxSends :
    Len(sent["server"]) >= i /\ (\A j \in 1 .. i : sent["server"][j] # NoFrame)
      ~> \/ ~open["client"]
         \/ Len(got["server"]) >= i /\ (mode = "framed" => Len(got["client"]) >= i)

\* Bytes that are no frame end the connection, and the client learns of it:
\* neither side waits for a frame in a stream that is out of step.
GarbageEnds ==
  (\E i \in DOMAIN sent["server"] : sent["server"][i] = NoFrame)
    ~> ~open["server"] /\ ~open["client"]
=============================================================================
