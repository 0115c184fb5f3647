---------------------------- MODULE MCCifxChannel ----------------------------
(* CifxChannel on small instances: which threads, which driver calls.       *)
EXTENDS CifxChannel, TLC

CONSTANTS t1, t2, v1, h1, h2, h3

TwoThreads == {t1, t2}
OneValue == {v1}
ThreeHandles == {h1, h2, h3}

\* A read and a write of one register, so that an answer tells the two apart.
BusOps == {Read("bus"), Write("bus", "on")}

\* Recovery does not depend on what is called.
RecoveryOps == {Watchdog, Write("config", "off")}
=============================================================================
