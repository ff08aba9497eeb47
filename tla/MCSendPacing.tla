---------------------------- MODULE MCSendPacing ----------------------------
EXTENDS SendPacing
CONSTANTS s1, s2, s3, s4, root, inner, NoCap

ThreeSends == {s1, s2, s3}
FourSends == {s1, s2, s3, s4}

\* Two accounts: the first two sends are one account's.
TwoTenants == [s \in Sends |-> IF s \in {s1, s2} THEN "a" ELSE "b"]
\* The first send is made by a run nested under a root; the others by the root.
NestedHears == [s \in Sends |-> IF s = s1 THEN {root, inner} ELSE {root}]
\* One send needs more than a cap a response may state.
Needs == [s \in Sends |-> IF s = s1 THEN 2 ELSE 1]

\* The budget of one send allows a resend.
Budgets == [s \in Sends |-> IF s = s3 THEN 2 ELSE 1]

LearnedCaps == {<<2, 1>>}
=============================================================================
