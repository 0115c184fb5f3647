---------------------------- MODULE MCMockBackend -----------------------------
(* MockBackend with two datagrams, which may name two areas.                *)
EXTENDS MockBackend

CONSTANTS d1, d2, a1, a2

TwoDatagrams == {d1, d2}
TwoAreas == {a1, a2}
=============================================================================
