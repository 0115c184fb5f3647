---------------------------- MODULE MCMainWindow ----------------------------
(* MainWindow on a small instance.                                          *)
EXTENDS MainWindow, TLC

TwoPasswords == {"admin", "secret"}
=============================================================================
