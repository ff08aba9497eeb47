------------------------------ MODULE WalkRules ------------------------------
(***************************************************************************)
(* What a taken row decides (Walk.judge, Walk._abort_reason, the rate of   *)
(* DegradationCheck) and whose turn is next (_ScoringPhase.advance,        *)
(* close_block).  A phase is given how it is set up: see `how' below.      *)
(***************************************************************************)
EXTENDS Integers, Sequences, FiniteSets, FiniteSetsExt

CONSTANTS
    NW,             \* walks of a phase, numbered in the order of their turns
    N,              \* rows of each walk's panel
    MinSamples,     \* rows before the rate is read
    Num, Den,       \* a rate of Num/Den deprecated rows stops a walk
    MaxErrors       \* errors in a row that do (MAX_CONSECUTIVE_ERRORS)

ASSUME RulesAssumption ==
    /\ NW \in Nat \ {0} /\ N \in Nat \ {0}
    /\ MinSamples \in Nat /\ Num \in Nat /\ Den \in Nat \ {0} /\ MaxErrors \in Nat

Walks == 1..NW

\* No walk has the turn: the phase has run out of walks, or was stopped.
Over == NW + 1

\* Those a race compares a walk with: the parent, and walks complete before it.
Parent == 0
Priors == Walks \cup {Parent}

\* What a row says of its cell, and a row.
Says == {"good", "degraded", "fatal", "error", "broken", "client", "refused"}
Row(i, o) == [at |-> i, is |-> o]

Errored(o) == o \in {"error", "broken", "client", "refused"}

\* What ends a walk on one sighting, and what its rate counts (is_deprecated).
Fatal == {"fatal", "broken", "client"}
Deprecated == Fatal \cup {"degraded"}

Scored(r) == {r[k].at : k \in {j \in DOMAIN r : ~Errored(r[j].is)}}

Degraded(r) == Cardinality({k \in DOMAIN r : r[k].is \in Deprecated})

TooDegraded(d, m) == m >= MinSamples /\ d * Den >= Num * m

\* A client error aborts at once, other errors when enough of them follow one
\* another; a replay neither counts nor breaks the series.
Aborts(r, rereads) ==
    LET fresh == SelectSeq(r, LAMBDA x : x.at \notin rereads)
        k == Len(fresh)
    IN  /\ r[Len(r)].at \notin rereads
        /\ \/ fresh[k].is = "client"
           \/ /\ k >= MaxErrors
              /\ \A j \in (k - MaxErrors + 1)..k : Errored(fresh[j].is)

\* DegradationCheck.check: the fast path on the last row, then the rate.
RuleStops(r) == r[Len(r)].is \in Fatal \/ TooDegraded(Degraded(r), Len(r))

\* Walk.judge; in a block race a walk is complete only when its block closes.
Judgement(r, size) ==
    CASE RuleStops(r) -> "rule"
      [] ~RuleStops(r) /\ Len(r) = N /\ size = 0 -> "complete"
      [] OTHER -> "none"

\* Where a walk's turn ends in a block race.
Boundary(size, block) == Min({N, (block + 1) * size})

Undecided(v) == {w \in Walks : v[w] = "none"}

\* A block closes: the race stops some of the walks, and those that took
\* every row are complete.
Closed(v, r, stopped) ==
    [w \in Walks |->
        CASE w \in stopped -> "rule"
          [] w \in Undecided(v) \ stopped /\ Len(r[w]) = N -> "complete"
          [] OTHER -> v[w]]

\* The walks that become priors, where the verdicts go from v to u.
Admits(v, u, catching) == {w \in Undecided(v) : catching /\ u[w] = "complete"}

\* What may follow walk t's turn, once verdicts v and rows r stand.
After(v, r, t, block, size) ==
    LET later == {w \in Undecided(v) : w > t}
        On(u, b) == [verdict |-> u, block |-> b,
                     turn |-> IF Undecided(u) = {} THEN Over ELSE Min(Undecided(u))]
    IN  CASE later # {} -> {[verdict |-> v, block |-> block, turn |-> Min(later)]}
          [] later = {} /\ size = 0 -> {[verdict |-> v, block |-> block, turn |-> Over]}
          [] OTHER -> {On(Closed(v, r, s), block + 1) : s \in SUBSET Undecided(v)}
=============================================================================
