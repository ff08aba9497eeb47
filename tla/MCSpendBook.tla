---------------------------- MODULE MCSpendBook ----------------------------
EXTENDS SpendBook
CONSTANTS s1, s2, s3, z1, z2, z3, a1, b1, a2, a3

\* A send of the nested run, inside a cell of the root's, which may be billed
\* in two parts; one of the root's inside that cell; and one beside it.
PartOwner == [p \in Parts |-> CASE p \in {z1, a1, b1} -> s1 [] p \in {z2, a2} -> s2 [] OTHER -> s3]
Prices == [p \in Parts |-> IF p \in {z1, z2, z3} THEN 0 ELSE 1]
Zeros == [s \in Sends |-> CASE s = s1 -> z1 [] s = s2 -> z2 [] OTHER -> z3]
Bounds == [s \in Sends |-> IF s = s1 THEN 2 ELSE 1]
Shares == [b \in Books |-> IF b = Root THEN 3 ELSE 2]
=============================================================================
