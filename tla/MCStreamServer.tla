---------------------------- MODULE MCStreamServer ----------------------------
(* StreamServer on small instances.                                         *)
EXTENDS StreamServer

CONSTANTS c1, c2

OneConn == {c1}
TwoConns == {c1, c2}
=============================================================================
