------------------------- MODULE MCAccountCeiling -------------------------
EXTENDS AccountCeiling
CONSTANTS c1, c2, k1, k2, k3, f1

\* A campaign of two root cycles and a fork, and a campaign of one.
Campaign == [k \in Cycles |-> IF k = k3 THEN c2 ELSE c1]
Forks == [k \in Cycles |-> IF k = f1 THEN k1 ELSE NoRecord]
Configs == [c \in Campaigns |-> IF c = c1 THEN 2 ELSE NoCap]

\* The first launch is of the root that may fork; the third comes while another lives.
Explored ==
    /\ on[1] \in {NoRecord, k1, f1}
    /\ phase[3] # "unmade" => {1, 2} \cap (Live \cup Waiting) # {}
=============================================================================
