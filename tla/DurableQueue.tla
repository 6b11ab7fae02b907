---------------------------- MODULE DurableQueue ----------------------------
(***************************************************************************)
(* What the mediator's message queue promises its callers, without caches, *)
(* locks or storage rows: a message enters once, is handed out to at most  *)
(* one delivery at a time, and leaves for good.  A restart takes every     *)
(* message back from the deliveries that were under way.                   *)
(***************************************************************************)
CONSTANT Messages

VARIABLES
  entered,   \* the messages that were ever stored
  stored,    \* the messages in the queue
  out        \* the messages a delivery holds

vars == <<entered, stored, out>>

Init ==
  /\ entered = {}
  /\ stored = {}
  /\ out = {}

Store(m) ==
  /\ m \notin entered
  /\ entered' = entered \cup {m}
  /\ stored' = stored \cup {m}
  /\ UNCHANGED out

HandOut(S) ==
  /\ S \subseteq stored \ out
  /\ out' = out \cup S
  /\ UNCHANGED <<entered, stored>>

PutBack(S) ==
  /\ out' = out \ S
  /\ UNCHANGED <<entered, stored>>

Remove(m) ==
  /\ stored' = stored \ {m}
  /\ out' = out \ {m}
  /\ UNCHANGED entered

Next ==
  \/ \E m \in Messages : Store(m) \/ Remove(m)
  \/ \E S \in SUBSET Messages : HandOut(S) \/ PutBack(S)

Spec == Init /\ [][Next]_vars
=============================================================================
