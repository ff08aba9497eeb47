---- MODULE MCLineFile ----
EXTENDS LineFile, TLC
CONSTANTS l1, l2, l3, l4, p1, p2, w1, w2, d1, d2
MixedPrefix == [l \in Lines |-> IF l = l1 THEN p1 ELSE p2]
Datasets == [l \in {l1, l2} |-> IF l = l1 THEN d1 ELSE d2]
Symmetry == Permutations(Inodes) \cup Permutations(Droppers)
\* Nothing is claimed once lines are spliced. Three appends, of which one may die: any
\* of them in any order, but in a cell file the second of them in their order. Or four
\* records one after another, none of which dies.
Over(l) == at[l] \in {"done", "dead"}
Started(l) == at[l] # "idle"
Explored ==
    /\ ~spliced
    /\ Cardinality({l \in Lines : at[l] = "dead"}) <= 1
    /\ kind = "cells" =>
        /\ Started(l2) => at[l1] = "done"
        /\ Started(l3) => Over(l2)
        /\ at[l1] # "dead" /\ at[l3] # "dead"
    /\ Started(l4) => /\ kind = "records"
                      /\ at[l1] = "done" /\ at[l2] = "done" /\ at[l3] = "done"
====
