-------------------------- MODULE MCEcashTransfer ---------------------------
(* Small instances of EcashTransfer for TLC. *)
EXTENDS EcashTransfer

CONSTANTS b1, b2, h1, h2

TwoBatches == {b1, b2}
TwoTasks == {h1, h2}
OneTwice == [b \in TwoBatches |-> IF b = b1 THEN 2 ELSE 1]
=============================================================================
