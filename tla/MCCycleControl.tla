---- MODULE MCCycleControl ----
(* Small instances of CycleControl. *)
EXTENDS CycleControl, TLC

CONSTANTS l1, l2, p1, c1, c2, c3

RunSet == {l1, l2}
Symmetric == Permutations(RunSet)
====
