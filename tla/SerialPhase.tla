----------------------------- MODULE SerialPhase -----------------------------
(***************************************************************************)
(* What a scoring phase promises: rows, cuts and turns as if its walks     *)
(* measured one cell after another, each walk in its turn.  A phase is     *)
(* stopped between two rows, or between a row and what the row decides.    *)
(***************************************************************************)
EXTENDS WalkRules

VARIABLES
    how,        \* how the phase is set up; never changes
    rows,       \* rows[w]: the rows of a walk, as taken
    verdict,    \* verdict[w]: what ended it
    turn, block,
    pool, has,  \* the priors of a race, and the cells each has been read on
    unread      \* the priors that gave no scored row when a row was judged

vars == <<how, rows, verdict, turn, block, pool, has, unread>>

Init ==
    /\ rows = [w \in Walks |-> <<>>]
    /\ verdict = [w \in Walks |-> "none"]
    /\ turn = 1 /\ block = 0
    /\ pool = IF how.catching THEN {Parent} ELSE {}
    /\ has = [p \in Priors |-> IF p = Parent THEN how.parent ELSE {}]
    /\ unread = {}

Measured(o) == [rows EXCEPT ![turn] = Append(@, Row(Len(@) + 1, o))]

Read(ps, i) == [p \in Priors |-> IF p \in ps THEN has[p] \cup {i} ELSE has[p]]

Goes(v, r, h) ==
    \E to \in After(v, r, turn, block, how.size) :
        LET joins == Admits(verdict, to.verdict, how.catching)
        IN  /\ verdict' = to.verdict /\ turn' = to.turn /\ block' = to.block
            /\ pool' = pool \cup joins
            /\ has' = [p \in Priors |-> IF p \in joins THEN Scored(r[p]) ELSE h[p]]

\* The next row of the walk whose turn it is.  Every prior that was not read on
\* its cell is asked for it, and is read on it unless it gave no scored row; then
\* the row is judged.
Take(o) ==
    /\ turn \in Walks
    /\ rows' = Measured(o)
    /\ LET r == Measured(o)[turn]
           asked == {p \in pool : Len(r) \notin has[p]}
           v == Judgement(r, how.size)
           closes == how.size > 0 /\ Len(r) = Boundary(how.size, block)
       IN  \/ /\ Aborts(r, how.rereads[turn])
              /\ Goes([verdict EXCEPT ![turn] = "abort"], Measured(o), has)
              /\ UNCHANGED unread
           \/ /\ ~Aborts(r, how.rereads[turn])
              /\ \E mute \in SUBSET asked :
                  /\ unread' = unread \cup {<<turn, p, Len(r)>> : p \in mute}
                  /\ \/ /\ v # "none" \/ closes
                        /\ Goes([verdict EXCEPT ![turn] = v], Measured(o),
                                Read(asked \ mute, Len(r)))
                     \/ /\ v = "none" /\ ~closes
                        /\ has' = Read(asked \ mute, Len(r))
                        /\ UNCHANGED <<verdict, turn, block, pool>>
    /\ UNCHANGED how

AtMostOneMore == rows' = rows \/ \E o \in Says : rows' = Measured(o)

\* The operator's skip ends the walk with what it has.
Skip ==
    /\ turn \in Walks /\ AtMostOneMore
    /\ Goes([verdict EXCEPT ![turn] = "skip"], rows', has)
    /\ UNCHANGED <<how, unread>>

\* A pause, a spent ceiling or a failure; some priors may have been read.
Halt ==
    /\ turn \in Walks /\ turn' = Over /\ AtMostOneMore
    /\ \E ps \in SUBSET pool : has' = has \/ has' = Read(ps, Len(rows'[turn]))
    /\ UNCHANGED <<how, verdict, block, pool, unread>>

Next == (\E o \in Says : Take(o)) \/ Skip \/ Halt

Spec == Init /\ [][Next]_vars
=============================================================================
