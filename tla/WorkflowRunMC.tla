--------------------------- MODULE WorkflowRunMC ---------------------------
(* Scripts small enough for TLC: a fan-out wider than its pool under a budget, a
   sequence, a pipeline of two stages, and fan-outs of nested workflows. *)
EXTENDS WorkflowRun

Script(items, stages, nested, width, budget) ==
    [items |-> items, stages |-> stages, nested |-> nested, width |-> width, budget |-> budget]

FanOut == Script(3, 1, FALSE, 2, 1)
Sequence == Script(1, 5, FALSE, 1, 0)
Pipeline == Script(2, 2, FALSE, 2, 0)
Children == Script(2, 1, TRUE, 1, 1)

ThreeChildren == Script(3, 1, TRUE, 2, 1)

AllScripts == {FanOut, Sequence, Pipeline, Children}
NestedOnly == {ThreeChildren}
=============================================================================
