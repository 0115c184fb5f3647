------------------------------ MODULE MCFraming ------------------------------
(* Framing on small instances: payloads made of the markers, and streams    *)
(* that are out of step in each of the ways a reader looks for.             *)
EXTENDS Framing, TLC

R(command, length, data) == [command |-> command, length |-> length, data |-> data]

SomeRequests ==
  {R(WRITE_OUTPUT, 2, <<END_BYTE, START_BYTE>>), R(WRITE_OUTPUT, 0, <<>>),
   R(READ_INPUT, 1, <<>>), R(SET_HOST_STATE, 0, <<1>>), R(99, 0, <<>>)}

\* Empty, shorter than a header, and of another length than declared.
SomeMalformed == {<<>>, <<READ_INPUT, 0>>, <<WRITE_OUTPUT, 0, 0, 0, 0, 2, START_BYTE>>}

\* A wrong start, an oversized frame, a wrong end.
SomeGarbage == {<<END_BYTE>>, <<START_BYTE, 0, 1, 0, 1>>, <<START_BYTE, 0, 0, 0, 0, 0>>}

\* Empty, and one whose length has two digits.
SomeWrites == {<<>>, <<Quote, 108, 49, 0, 0, 0, 0, 0, 0, 49>>}

\* A wrong literal, no digit, a byte that is none, a length that is too large,
\* too many digits.
SomeAsciiGarbage ==
  {<<108, 101, 110, 49>>, LEN_PREFIX_LITERAL \o <<Quote>>,
   LEN_PREFIX_LITERAL \o <<49, 108>>,
   LEN_PREFIX_LITERAL \o <<54, 53, 53, 51, 55, Quote>>,
   LEN_PREFIX_LITERAL \o <<48, 48, 48, 48, 48, 48, 49>>}

SomeBlocks == {<<START_BYTE, Quote>>, <<0, 1>>}
=============================================================================
