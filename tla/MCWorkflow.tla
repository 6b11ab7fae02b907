----------------------------- MODULE MCWorkflow ------------------------------
(* A small instance of Workflow for TLC. *)
EXTENDS Workflow

CONSTANTS i1, i2, i3, c1, c2, o1, h1, h2, r1, r2, r3

M(op, i, key) == [op |-> op, inst |-> i, key |-> key]

Messages == {M("start", i2, None), M("start", i3, None),
             M("advance", i1, "go"), M("cancel", i1, None)}
OperatorCalls == {M("start", i1, None), M("advance", i1, None), M("pause", i1, None),
                  M("resume", i1, None), M("context", i1, None), M("complete", i1, None)}

\* A loop, and a way out of it that the context opens.
Loop == <<[from |-> "a", to |-> "end", guarded |-> TRUE],
          [from |-> "a", to |-> "b", guarded |-> FALSE],
          [from |-> "b", to |-> "a", guarded |-> FALSE]>>
=============================================================================
