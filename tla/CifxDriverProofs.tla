--------------------------- MODULE CifxDriverProofs ---------------------------
(* Facts about the vocabulary of CifxDriver, for any values.                *)
EXTENDS CifxDriver, TLAPS

\* A card whose process data is zeroed is a card.
LEMMA ClearedType ==
  ASSUME NEW c \in Cards
  PROVE  Cleared(c) \in Cards /\ Cleared(c)["output"] = Blank
BY BlankAssumption DEF Cleared, Cards

\* So is one that restarts; its output is kept or zeroed.
LEMMA RestartedType ==
  ASSUME NEW c \in Cards, NEW d \in Restarted(c)
  PROVE  d \in Cards /\ d["output"] \in {c["output"], Blank} /\ d["config"] = c["config"]
<1>1. Dormant(c) \in Cards /\ Dormant(c)["output"] = c["output"] /\ Dormant(c)["config"] = c["config"]
  BY DEF Dormant, Cards, Switches
<1>2. Cleared(Dormant(c))["config"] = c["config"]
  BY <1>1 DEF Cleared, Cards
<1> QED BY <1>1, <1>2, ClearedType DEF Restarted

\* A driver call leaves a card a card.
LEMMA EffectType ==
  ASSUME NEW c \in Cards, NEW o \in DriverCalls, NEW d \in Effects(c, o)
  PROVE  d \in Cards
<1>1. CASE \E v \in Values : o = Write("output", v)
  BY <1>1 DEF Effects, Write, Cards
<1>2. CASE \E r \in {"bus", "host", "config"}, v \in Switches : o = Write(r, v)
  BY <1>2 DEF Effects, Write, Cards, Switches
<1>3. CASE o.kind \notin {"write", "reset"}
  BY <1>3 DEF Effects
<1>4. CASE o = Reset
  <2>1. d \in Restarted(c) \cup {Cleared(c)}
    BY <1>4 DEF Effects, Reset
  <2> QED BY <2>1, RestartedType, ClearedType
<1> QED BY <1>1, <1>2, <1>3, <1>4 DEF DriverCalls, Read, Watchdog

\* A call that worked answers with a value a register can hold.
LEMMA SuccessType ==
  ASSUME NEW c \in Cards, NEW o \in DriverCalls
  PROVE  Success(c, o) \in Answers
<1>1. CASE \E r \in {"input", "output", "bus", "host"} : o = Read(r)
  BY <1>1 DEF Success, Read, Answers, Cards
<1>2. CASE ~ \E r \in {"input", "output", "bus", "host"} : o = Read(r)
  <2>1. o.kind # "read"
    BY <1>2 DEF DriverCalls, Write, Watchdog, Reset
  <2> QED BY <2>1 DEF Success, Answers
<1> QED BY <1>1, <1>2

\* A call that failed answers with its error code and no value.
LEMMA FailureType ==
  ASSUME NEW rc \in Errors
  PROVE  Failure(rc) \in Answers
BY DEF Failure, Answers

\* The error codes are not the success code.
LEMMA OkIsNoError == OK \notin Errors
BY DEF OK, Errors, Stale, NotReady

\* Only a write of the output changes the output image, to what it carries; a
\* reset may zero it.
LEMMA EffectOnOutput ==
  ASSUME NEW c \in Cards, NEW o \in DriverCalls, NEW d \in Effects(c, o)
  PROVE  IF o.kind = "write" /\ o.reg = "output" THEN d["output"] = o.val
         ELSE d["output"] = c["output"] \/ (o.kind = "reset" /\ d["output"] = Blank)
<1>1. CASE o.kind = "write"
  <2>1. o.reg \in {"output", "bus", "host", "config"}
    BY <1>1 DEF DriverCalls, Read, Write, Watchdog, Reset
  <2> QED BY <1>1, <2>1 DEF Effects, Cards
<1>2. CASE o.kind = "reset"
  <2>1. d \in Restarted(c) \cup {Cleared(c)}
    BY <1>2 DEF Effects
  <2> QED BY <1>2, <2>1, RestartedType, ClearedType
<1>3. CASE o.kind \notin {"write", "reset"}
  BY <1>3 DEF Effects
<1> QED BY <1>1, <1>2, <1>3

=============================================================================
