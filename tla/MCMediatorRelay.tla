-------------------------- MODULE MCMediatorRelay ---------------------------
(* Small instances of the relay for TLC.                                   *)
EXTENDS MediatorRelay

OneMessage == 1 .. 1
TwoMessages == 1 .. 2
OneSocket == 1 .. 1
TwoSockets == 1 .. 2
=============================================================================
