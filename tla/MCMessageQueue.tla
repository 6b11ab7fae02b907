--------------------------- MODULE MCMessageQueue ---------------------------
(* A small instance of the pickup queue for TLC.                           *)
EXTENDS MessageQueue

CONSTANTS c1, k1, t1, t2, r1

TwoMessages == 1 .. 2

\* One recipient; the filter k1 matches every message but the first.
OneConnection == [m \in Messages |-> c1]
FirstUnfiltered == [m \in Messages |-> IF m = 1 THEN {} ELSE {k1}]
=============================================================================
