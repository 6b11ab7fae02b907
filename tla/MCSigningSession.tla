-------------------------- MODULE MCSigningSession ---------------------------
(* Small instances of SigningSession for TLC. *)
EXTENDS SigningSession, TLC

CONSTANTS s1, s2, t1, t2

TwoSigners == {s1, s2}
TwoTasks == {t1, t2}
Symmetry == Permutations(TwoSigners) \cup Permutations(TwoTasks)
=============================================================================
