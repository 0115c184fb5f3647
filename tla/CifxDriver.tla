----------------------------- MODULE CifxDriver -----------------------------
(* The vocabulary of the cifX driver API as cifx/backend.py uses it: the    *)
(* channel's registers, the calls, their effect on the card, and the return *)
(* codes of cifx/errors.py.  No state: the modules that EXTEND it keep the  *)
(* card in a variable.                                                      *)
EXTENDS Naturals

CONSTANTS
  Values,  \* contents of the input and output process data
  Blank,   \* the contents that are all zeros
  NoValue  \* the value of an operation that carries none

ASSUME BlankAssumption == Blank \in Values
ASSUME ValueAssumption == NoValue \notin Values \cup {"off", "on"}

Switches == {"off", "on"}

\* The channel's registers: process-data images and the three state words.
Cards == [input: Values, output: Values,
          bus: Switches, host: Switches, config: Switches]

Read(r)     == [kind |-> "read", reg |-> r, val |-> NoValue]
Write(r, v) == [kind |-> "write", reg |-> r, val |-> v]
Watchdog    == [kind |-> "watchdog", reg |-> "none", val |-> NoValue]
Reset       == [kind |-> "reset", reg |-> "none", val |-> NoValue]
NoOp        == [kind |-> "none", reg |-> "none", val |-> NoValue]

\* The driver calls behind the backend's methods.
DriverCalls ==
  {Read(r) : r \in {"input", "output", "bus", "host"}}
    \cup {Write("output", v) : v \in Values}
    \cup {Write(r, v) : r \in {"bus", "host", "config"}, v \in Switches}
    \cup {Watchdog, Reset}

OK       == "CIFX_NO_ERROR"
Stale    == {"CIFX_INVALID_HANDLE", "CIFX_DRV_NOT_OPENED"}
NotReady == "CIFX_DEV_NOT_READY"   \* stands for every other error code
Errors   == Stale \cup {NotReady}

Answers  == [rc: Errors \cup {OK}, val: Values \cup Switches \cup {NoValue}]
NoAnswer == [rc |-> OK, val |-> NoValue]

Failure(rc) == [rc |-> rc, val |-> NoValue]

\* A card that lost its state: configured, but off the bus.
Dormant(c) == [c EXCEPT !.bus = "off", !.host = "off"]

\* Its process data zeroed.
Cleared(c) == [c EXCEPT !.input = Blank, !.output = Blank]

\* A restart takes the card off the bus; the process data survives it or not.
Restarted(c) == {Dormant(c), Cleared(Dormant(c))}

\* What a call may make of the card.  A reset is a restart; the mock's zeroes
\* the process data and leaves the bus alone.
Effects(c, o) ==
  CASE o.kind = "write" -> {[c EXCEPT ![o.reg] = o.val]}
    [] o.kind = "reset" -> Restarted(c) \cup {Cleared(c)}
    [] OTHER            -> {c}

Success(c, o) == [rc |-> OK, val |-> IF o.kind = "read" THEN c[o.reg] ELSE NoValue]
=============================================================================
