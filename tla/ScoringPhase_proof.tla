-------------------------- MODULE ScoringPhase_proof --------------------------
(***************************************************************************)
(* Proofs about ScoringPhase, for any number of walks and rows, any stop   *)
(* rule's numbers, any setting, depth and budget: its types, that it takes  *)
(* rows as a serial phase would, that no call is launched the book could    *)
(* not pay, that what is banked was sure to be taken, and that a cut wastes *)
(* one cell at most.                                                        *)
(***************************************************************************)
EXTENDS ScoringPhase, SetFacts, SequenceTheorems

Verdicts == {"none", "complete", "rule", "abort", "skip"}
CellStates == Outcomes \cup {"no", "out", "drains", "taken", "gone"}
CatchStates == {"no", "out", "good", "raised", "cancelled", "error", "refused"}
Grid == [Walks -> [Cells -> CellStates]]
ARow == [at : Cells, is : Says]
RowsOf == [Walks -> Seq(ARow)]

(* A walk's rows are its first cells, in order.                             *)
InOrder(r) == \A w \in Walks : Len(r[w]) <= N /\ \A k \in 1..Len(r[w]) : r[w][k].at = k

(* Cells are launched in order, and a decided walk has let go of its own.  *)
Gapless(c) == \A w \in Walks, i, j \in Cells : i < j /\ c[w][j] # "no" => c[w][i] # "no"
LetGo(c, v) ==
    \A w \in Walks : v[w] # "none" => \A i \in Cells : c[w][i] \in {"no", "drains", "taken", "gone"}

(* The cells a walk took are those of its rows.                             *)
TakenAre(c, r, v) ==
    \A w \in Walks : v[w] = "none" => \A i \in Cells : c[w][i] = "taken" <=> i <= Len(r[w])

RowsOK == rows \in RowsOf /\ InOrder(rows)

CellsOK == Gapless(cell) /\ LetGo(cell, verdict) /\ TakenAre(cell, rows, verdict)

TurnOK ==
    /\ turn \in Walks => verdict[turn] = "none"
    /\ stage \in {"owing", "filling", "asks", "waits", "wakes"} => turn \in Walks
    /\ stage = "filling" => filler \in Walks /\ verdict[filler] = "none" /\ upto <= N
    /\ stop # "none" => stage \in {"landing", "banking", "over"}

(* A row that settles is the last of the walk whose turn it is; the priors *)
(* are those of a race that catches them up, and no other is caught up.     *)
SettlingOK ==
    /\ settling => /\ how.catching /\ turn \in Walks /\ Len(rows[turn]) >= 1
                   /\ ~Aborts(rows[turn], how.rereads[turn])
    /\ ~how.catching => pool = {}
    /\ \A p \in Priors, i \in Cells : catch[p][i] # "no" => p \in pool

Types ==
    /\ how \in Settings
    /\ verdict \in [Walks -> Verdicts]
    /\ turn \in Walks \cup {Over} /\ block \in Nat
    /\ cell \in Grid
    /\ settling \in BOOLEAN
    /\ pool \subseteq Priors /\ has \in [Priors -> SUBSET Cells]
    /\ unread \subseteq Walks \X Priors \X Cells
    /\ catch \in [Priors -> [Cells -> CatchStates]]
    /\ stage \in Stages
    /\ filler \in Walks \cup {0} /\ room \in Int /\ upto \in Int
    /\ armed \in Depths /\ depth \in Depths \cup {0}
    /\ pause \in BOOLEAN /\ skip \in BOOLEAN
    /\ left \in Int /\ upsets \in 0..MaxUpsets
    /\ stop \in {"none", "pause", "budget", "failure"}
    /\ banked \in [Walks -> SUBSET Cells]

PhaseInv == Types /\ RowsOK /\ CellsOK /\ TurnOK /\ SettlingOK
-----------------------------------------------------------------------------
(* What the constants say of a phase.                                       *)
LEMMA Setup ==
    ASSUME how \in Settings
    PROVE  /\ how.size \in Nat /\ how.catching \in BOOLEAN /\ how.bound \in BOOLEAN
           /\ how.cancels \in BOOLEAN /\ how.budget \in Nat /\ how.parent \subseteq Cells
           /\ \A w \in Walks : how.rereads[w] \subseteq Cells
           /\ how.answers \subseteq Outcomes
<1>1. how \in [size : Nat, catching : BOOLEAN, parent : SUBSET Cells,
               cancels : BOOLEAN, bound : BOOLEAN, budget : Nat,
               rereads : [Walks -> SUBSET Cells], answers : SUBSET Outcomes]
  BY PhaseAssumption
<1> QED BY <1>1

(* A walk chosen among some has a number of its own.                       *)
LEMMA LeastWalk ==
    ASSUME NEW S \in SUBSET Walks, S # {}
    PROVE  Min(S) \in S /\ \A w \in S : Min(S) <= w
<1>1. IsFiniteSet(Walks) /\ \A w \in S : w \in Int
  BY FS_Interval, RulesAssumption DEF Walks
<1>2. IsFiniteSet(S)  BY <1>1, FS_Subset
<1> QED BY <1>1, <1>2, MinIsLeast

(* What follows a walk's turn: another undecided walk, or none; a verdict  *)
(* that was passed stands.                                                  *)
LEMMA AfterIs ==
    ASSUME NEW v \in [Walks -> Verdicts], NEW r, NEW t \in Walks, NEW b \in Nat, NEW size \in Nat,
           NEW to \in After(v, r, t, b, size)
    PROVE  /\ to.verdict \in [Walks -> Verdicts]
           /\ \A w \in Walks : v[w] # "none" => to.verdict[w] = v[w]
           /\ to.turn \in Walks \cup {Over}
           /\ to.turn \in Walks => to.verdict[to.turn] = "none"
           /\ to.block \in Nat
<1> DEFINE later == {w \in Undecided(v) : w > t}
           On(u, n) == [verdict |-> u, block |-> n,
                        turn |-> IF Undecided(u) = {} THEN Over ELSE Min(Undecided(u))]
<1>1. After(v, r, t, b, size) =
        CASE later # {} -> {[verdict |-> v, block |-> b, turn |-> Min(later)]}
          [] later = {} /\ size = 0 -> {[verdict |-> v, block |-> b, turn |-> Over]}
          [] OTHER -> {On(Closed(v, r, s), b + 1) : s \in SUBSET Undecided(v)}
  BY DEF After
<1>2. CASE later # {}
  <2>1. to = [verdict |-> v, block |-> b, turn |-> Min(later)]  BY <1>1, <1>2
  <2>2. Min(later) \in later  BY <1>2, LeastWalk DEF Undecided
  <2> QED BY <2>1, <2>2 DEF Undecided
<1>3. CASE later = {} /\ size = 0
  <2>1. to = [verdict |-> v, block |-> b, turn |-> Over]  BY <1>1, <1>3
  <2>2. Over \notin Walks  BY RulesAssumption DEF Over, Walks
  <2> QED BY <2>1, <2>2
<1>4. CASE later = {} /\ size # 0
  <2>1. PICK s \in SUBSET Undecided(v) : to = On(Closed(v, r, s), b + 1)  BY <1>1, <1>4
  <2> DEFINE u == Closed(v, r, s)
  <2>2. u \in [Walks -> Verdicts]  BY DEF Closed, Verdicts
  <2>3. \A w \in Walks : v[w] # "none" => u[w] = v[w]  BY DEF Closed, Undecided
  <2>4. to.verdict = u /\ to.block = b + 1
        /\ to.turn = IF Undecided(u) = {} THEN Over ELSE Min(Undecided(u))
    BY <2>1
  <2> HIDE DEF u
  <2>5. Undecided(u) # {} => Min(Undecided(u)) \in Undecided(u)  BY LeastWalk DEF Undecided
  <2>6. Over \notin Walks  BY RulesAssumption DEF Over, Walks
  <2> QED BY <2>2, <2>3, <2>4, <2>5, <2>6 DEF Undecided
<1> QED BY <1>2, <1>3, <1>4

(* A decided walk drops what is not taken.                                  *)
LEMMA DroppedIs ==
    ASSUME NEW c \in Grid, NEW v, Gapless(c), LetGo(c, verdict), NEW r, TakenAre(c, r, verdict),
           \A w \in Walks : verdict[w] # "none" => v[w] # "none"
    PROVE  /\ Dropped(c, v) \in Grid /\ Gapless(Dropped(c, v)) /\ LetGo(Dropped(c, v), v)
           /\ TakenAre(Dropped(c, v), r, v)
           /\ \A w \in Walks, i \in Cells :
                /\ Dropped(c, v)[w][i] \in {"out", "drains"} <=> c[w][i] \in {"out", "drains"}
                /\ Dropped(c, v)[w][i] = "no" <=> c[w][i] = "no"
<1> DEFINE D(w, i) == CASE w \in Live /\ v[w] # "none" /\ c[w][i] = "out" -> "drains"
                        [] w \in Live /\ v[w] # "none" /\ c[w][i] \in Outcomes -> "gone"
                        [] OTHER -> c[w][i]
<1>1. Dropped(c, v) = [w \in Walks |-> [i \in Cells |-> D(w, i)]]  BY DEF Dropped
<1>2. \A w \in Walks, i \in Cells : c[w][i] \in CellStates
  <2> TAKE w \in Walks, i \in Cells
  <2>1. c[w] \in [Cells -> CellStates]  BY DEF Grid
  <2> QED BY <2>1
<1>3. \A w \in Walks, i \in Cells :
        /\ D(w, i) \in CellStates
        /\ D(w, i) \in {"out", "drains"} <=> c[w][i] \in {"out", "drains"}
        /\ D(w, i) = "no" <=> c[w][i] = "no"
        /\ D(w, i) = "taken" <=> c[w][i] = "taken"
        /\ v[w] # "none" => D(w, i) \in {"no", "drains", "taken", "gone"}
  <2> TAKE w \in Walks, i \in Cells
  <2>1. c[w][i] \in CellStates  BY <1>2
  <2>2. verdict[w] # "none" => c[w][i] \in {"no", "drains", "taken", "gone"}  BY DEF LetGo
  <2>3. w \in Live <=> verdict[w] = "none"  BY DEF Live, Undecided
  <2> QED BY <2>1, <2>2, <2>3 DEF CellStates, Outcomes, Says
<1> HIDE DEF D
<1>4. \A w \in Walks, i \in Cells : Dropped(c, v)[w][i] = D(w, i)  BY <1>1
<1>5. Dropped(c, v) \in Grid  BY <1>1, <1>3 DEF Grid
<1>6. Gapless(Dropped(c, v))
  <2> SUFFICES ASSUME NEW w \in Walks, NEW i \in Cells, NEW j \in Cells, i < j,
                      Dropped(c, v)[w][j] # "no"
               PROVE  Dropped(c, v)[w][i] # "no"
    BY DEF Gapless
  <2>1. c[w][j] # "no"  BY <1>3, <1>4
  <2>2. c[w][i] # "no"  BY <2>1 DEF Gapless
  <2> QED BY <1>3, <1>4, <2>2
<1>7. LetGo(Dropped(c, v), v)  BY <1>3, <1>4 DEF LetGo
<1>8. TakenAre(Dropped(c, v), r, v)  BY <1>3, <1>4 DEF TakenAre
<1> QED BY <1>3, <1>4, <1>5, <1>6, <1>7, <1>8

(* The cells a walk's rows scored.                                          *)
LEMMA ScoredIs ==
    ASSUME NEW r \in RowsOf, NEW w \in Walks
    PROVE  Scored(r[w]) \in SUBSET Cells
<1>1. r[w] \in Seq(ARow)  BY DEF RowsOf
<1>2. \A k \in DOMAIN r[w] : r[w][k] \in ARow  BY <1>1
<1>3. \A k \in DOMAIN r[w] : r[w][k].at \in Cells  BY <1>2 DEF ARow
<1> QED BY <1>3 DEF Scored

(* The turn goes on as its types and order ask.                             *)
LEMMA GoesOn ==
    ASSUME how \in Settings, verdict \in [Walks -> Verdicts], turn \in Walks, block \in Nat,
           pool \subseteq Priors, has \in [Priors -> SUBSET Cells],
           NEW v \in [Walks -> Verdicts], \A w \in Walks : verdict[w] # "none" => v[w] # "none",
           NEW r \in RowsOf,
           NEW c \in Grid, Gapless(c), LetGo(c, verdict), TakenAre(c, r, verdict),
           NEW h \in [Priors -> SUBSET Cells], Goes(v, r, c, h)
    PROVE  /\ verdict' \in [Walks -> Verdicts]
           /\ \A w \in Walks : verdict[w] # "none" => verdict'[w] # "none"
           /\ turn' \in Walks \cup {Over} /\ block' \in Nat
           /\ turn' \in Walks => verdict'[turn'] = "none"
           /\ cell' \in Grid /\ Gapless(cell') /\ LetGo(cell', verdict')
           /\ TakenAre(cell', r, verdict')
           /\ \A w \in Walks, i \in Cells :
                /\ cell'[w][i] \in {"out", "drains"} <=> c[w][i] \in {"out", "drains"}
                /\ cell'[w][i] = "no" <=> c[w][i] = "no"
           /\ pool \subseteq pool' /\ pool' \subseteq Priors
           /\ ~how.catching => pool' = pool
           /\ has' \in [Priors -> SUBSET Cells]
<1>1. how.size \in Nat  BY Setup
<1>2. PICK to \in After(v, r, turn, block, how.size) :
        /\ verdict' = to.verdict /\ turn' = to.turn /\ block' = to.block
        /\ cell' = Dropped(c, to.verdict)
        /\ pool' = pool \cup Admits(verdict, to.verdict, how.catching)
        /\ has' = [p \in Priors |-> IF p \in Admits(verdict, to.verdict, how.catching)
                                    THEN Scored(r[p]) ELSE h[p]]
  BY DEF Goes
<1>3. /\ to.verdict \in [Walks -> Verdicts]
      /\ \A w \in Walks : v[w] # "none" => to.verdict[w] = v[w]
      /\ to.turn \in Walks \cup {Over}
      /\ to.turn \in Walks => to.verdict[to.turn] = "none"
      /\ to.block \in Nat
  BY <1>1, AfterIs
<1>4. \A w \in Walks : verdict[w] # "none" => to.verdict[w] # "none"  BY <1>3
<1> DEFINE u == to.verdict
           joins == Admits(verdict, u, how.catching)
<1>5. joins \subseteq Walks /\ (~how.catching => joins = {})  BY DEF Admits, Undecided
<1>6. has' \in [Priors -> SUBSET Cells]
  <2>1. \A p \in joins : Scored(r[p]) \in SUBSET Cells  BY <1>5, ScoredIs
  <2> HIDE DEF joins
  <2>2. has' = [p \in Priors |-> IF p \in joins THEN Scored(r[p]) ELSE h[p]]
    BY <1>2 DEF joins
  <2> QED BY <2>1, <2>2
<1>7. pool \subseteq pool' /\ pool' \subseteq Priors /\ (~how.catching => pool' = pool)
  BY <1>2, <1>5 DEF Priors
<1> HIDE DEF joins, u
<1>8. cell' = Dropped(c, u) /\ \A w \in Walks : verdict[w] # "none" => u[w] # "none"
  BY <1>2, <1>4 DEF u
<1>9. /\ cell' \in Grid /\ Gapless(cell') /\ LetGo(cell', u) /\ TakenAre(cell', r, u)
      /\ \A w \in Walks, i \in Cells :
                /\ cell'[w][i] \in {"out", "drains"} <=> c[w][i] \in {"out", "drains"}
                /\ cell'[w][i] = "no" <=> c[w][i] = "no"
  BY <1>8, DroppedIs
<1> QED BY <1>2, <1>3, <1>4, <1>6, <1>7, <1>9 DEF u

(* What the turn's going on, or staying, leaves of rows r and cells c.     *)
Turned(r, c) ==
    /\ verdict' \in [Walks -> Verdicts]
    /\ \A w \in Walks : verdict[w] # "none" => verdict'[w] # "none"
    /\ turn' \in Walks \cup {Over} /\ block' \in Nat
    /\ turn' \in Walks => verdict'[turn'] = "none"
    /\ cell' \in Grid /\ Gapless(cell') /\ LetGo(cell', verdict')
    /\ TakenAre(cell', r, verdict')
    /\ \A w \in Walks, i \in Cells :
        /\ cell'[w][i] \in {"out", "drains"} <=> c[w][i] \in {"out", "drains"}
        /\ cell'[w][i] = "no" <=> c[w][i] = "no"
    /\ pool \subseteq pool' /\ pool' \subseteq Priors
    /\ ~how.catching => pool' = pool
    /\ has' \in [Priors -> SUBSET Cells]

LEMMA JudgedOn ==
    ASSUME PhaseInv, turn \in Walks, NEW r \in RowsOf,
           NEW c \in Grid, Gapless(c), LetGo(c, verdict), TakenAre(c, r, verdict),
           NEW h \in [Priors -> SUBSET Cells], Judged(r, c, h)
    PROVE  Turned(r, c)
<1> DEFINE v == Judgement(r[turn], how.size)
<1>1. v \in Verdicts  BY DEF Judgement, Verdicts
<1>2. verdict[turn] = "none"  BY DEF PhaseInv, TurnOK
<1>3. CASE Goes([verdict EXCEPT ![turn] = v], r, c, h)
  <2> DEFINE u == [verdict EXCEPT ![turn] = v]
  <2>1. u \in [Walks -> Verdicts] /\ \A w \in Walks : verdict[w] # "none" => u[w] # "none"
    BY <1>1, <1>2 DEF PhaseInv, Types
  <2> HIDE DEF u, v
  <2>2. Goes(u, r, c, h)  BY <1>3 DEF u
  <2> QED BY <2>1, <2>2, GoesOn DEF Turned, PhaseInv, Types
<1>4. CASE cell' = c /\ has' = h /\ UNCHANGED <<verdict, turn, block, pool>>
  BY <1>2, <1>4 DEF Turned, PhaseInv, Types
<1> QED BY <1>3, <1>4 DEF Judged

(* The cells of a walk that were launched are its first.                   *)
LEMMA SubmittedAre ==
    ASSUME cell \in Grid, Gapless(cell), NEW w \in Walks
    PROVE  /\ Submitted(w) \in 0..N
           /\ \A i \in Cells : cell[w][i] # "no" <=> i <= Submitted(w)
<1> DEFINE S == {i \in Cells : cell[w][i] # "no"}
<1>1. S \in SUBSET (1..N) /\ N \in Nat  BY RulesAssumption DEF Cells
<1>2. \A i, j \in 1..N : i < j /\ j \in S => i \in S  BY DEF Gapless, Cells
<1>3. Submitted(w) = Cardinality(S)  BY DEF Submitted
<1>4. \A i \in Cells : i \in S <=> cell[w][i] # "no"  OBVIOUS
<1> HIDE DEF S
<1>5. Cardinality(S) \in 0..N /\ S = 1..Cardinality(S)  BY <1>1, <1>2, NoGap
<1>6. ASSUME NEW i \in Cells PROVE i \in S <=> i <= Cardinality(S)
  <2>1. i \in Int /\ 1 <= i /\ Cardinality(S) \in Int  BY <1>1, <1>5 DEF Cells
  <2> QED BY <1>5, <2>1
<1> QED BY <1>3, <1>4, <1>5, <1>6

(* The calls out are finitely many.                                         *)
LEMMA CallsAreFinite ==
    /\ IsFiniteSet(Walks \X Cells) /\ IsFiniteSet(Priors \X Cells)
    /\ IsFiniteSet(Calls) /\ IsFiniteSet(Catching)
    /\ Cardinality(Calls) \in Nat /\ Cardinality(Catching) \in Nat /\ Out \in Nat
<1>1. IsFiniteSet(Walks) /\ IsFiniteSet(Cells)
  BY FS_Interval, RulesAssumption DEF Walks, Cells
<1>2. IsFiniteSet(Priors)
  <2>1. IsFiniteSet(Walks \cup {Parent})  BY <1>1, FS_AddElement
  <2> QED BY <2>1 DEF Priors
<1>3. IsFiniteSet(Walks \X Cells) /\ IsFiniteSet(Priors \X Cells)  BY <1>1, <1>2, FS_Product
<1>4. Calls \in SUBSET (Walks \X Cells) /\ Catching \in SUBSET (Priors \X Cells)
  BY DEF Calls, Catching
<1>5. IsFiniteSet(Calls) /\ IsFiniteSet(Catching)  BY <1>3, <1>4, FS_Subset
<1> QED BY <1>3, <1>5, FS_CardinalityType DEF Out

(* How many cells from one on replay unpaid.                                *)
LEMMA RereadsAre ==
    ASSUME NEW w, NEW i \in 1..(N + 1)
    PROVE  /\ RereadsAhead(w, i) \in 0..(N - i + 1)
           /\ i..(i + RereadsAhead(w, i) - 1) \subseteq how.rereads[w]
           /\ \A k \in 0..(N - i + 1) :
                i..(i + k - 1) \subseteq how.rereads[w] => k <= RereadsAhead(w, i)
<1> DEFINE S == {k \in 0..(N - i + 1) : i..(i + k - 1) \subseteq how.rereads[w]}
<1>1. N \in Nat /\ i \in Int /\ 1 <= i /\ i <= N + 1  BY RulesAssumption
<1>2. IsFiniteSet(S)
  <2>1. IsFiniteSet(0..(N - i + 1)) /\ S \in SUBSET (0..(N - i + 1))  BY <1>1, FS_Interval
  <2> QED BY <2>1, FS_Subset
<1>3. 0 \in S
  <2>1. i..(i + 0 - 1) = {}  BY <1>1
  <2> QED BY <1>1, <2>1
<1>4. \A k \in S : k \in Int  BY <1>1
<1>5. RereadsAhead(w, i) = Max(S)  BY DEF RereadsAhead
<1> HIDE DEF S
<1>6. Max(S) \in S /\ \A k \in S : k <= Max(S)  BY <1>2, <1>3, <1>4, MaxIsGreatest
<1> QED BY <1>5, <1>6 DEF S

(* A horizon is a set of rows up to the last one asked about.              *)
LEMMA HorizonIs ==
    ASSUME rows \in RowsOf, NEW w \in Walks, NEW l \in Int
    PROVE  IsFiniteSet(Horizon(w, l)) /\ \A m \in Horizon(w, l) : m \in 1..l
<1> DEFINE ahead == (Taken(w) + 1)..l
           worst(m) == {i \in (Taken(w) + 1)..m : cell[w][i] \notin Says \ Deprecated}
           rate == {m \in ahead : TooDegraded(Degraded(rows[w]) + Cardinality(worst(m)), m)}
           close == IF Bounded THEN {Boundary(how.size, block)} \cap 1..l ELSE {}
<1>1. Horizon(w, l) = IF ahead = {} THEN {} ELSE rate \cup close  BY DEF Horizon
<1>2. Taken(w) \in Nat
  <2>1. rows[w] \in Seq(ARow)  BY DEF RowsOf
  <2> QED BY <2>1 DEF Taken
<1>3. \A m \in Horizon(w, l) : m \in 1..l
  <2>1. \A m \in ahead : m \in 1..l  BY <1>2
  <2>2. \A m \in rate : m \in ahead  OBVIOUS
  <2>3. \A m \in close : m \in 1..l  OBVIOUS
  <2> HIDE DEF ahead, rate, close
  <2> QED BY <1>1, <2>1, <2>2, <2>3
<1>4. IsFiniteSet(1..l) /\ Horizon(w, l) \in SUBSET (1..l)  BY <1>3, FS_Interval
<1> QED BY <1>3, <1>4, FS_Subset

(* No walk is launched past its last row.                                   *)
LEMMA LastIs ==
    ASSUME PhaseInv, NEW w \in Walks, NEW k \in Int
    PROVE  Last(w, k) \in Int /\ Last(w, k) <= N
<1> DEFINE close == IF Bounded THEN {Boundary(how.size, block) + 1} ELSE {}
           S == {N, Submitted(w) + k} \cup close
           l == Min(S)
<1>1. N \in Int /\ Submitted(w) \in Int /\ how.size \in Nat /\ block \in Nat
  BY RulesAssumption, SubmittedAre, Setup DEF PhaseInv, Types, CellsOK
<1>2. Boundary(how.size, block) \in Int
  <2>1. (block + 1) * how.size \in Int  BY <1>1
  <2> QED BY <1>1, <2>1, OfTwo DEF Boundary
<1>3. IsFiniteSet(S)
  <2>1. IsFiniteSet({N}) /\ IsFiniteSet({N} \cup {Submitted(w) + k})
    BY FS_Singleton, FS_AddElement
  <2>2. {N, Submitted(w) + k} = {N} \cup {Submitted(w) + k}  OBVIOUS
  <2>3. IsFiniteSet({N, Submitted(w) + k})  BY <2>1, <2>2
  <2> DEFINE T == {N, Submitted(w) + k}
             x == Boundary(how.size, block) + 1
  <2>4. S = T \/ S = T \cup {x}  OBVIOUS
  <2> HIDE DEF S, T, x
  <2>5. IsFiniteSet(T)  BY <2>3 DEF T
  <2> QED BY <2>4, <2>5, FS_AddElement
<1>4. N \in S /\ \A y \in S : y \in Int  BY <1>1, <1>2
<1> HIDE DEF S
<1>5. l \in Int /\ l <= N  BY <1>3, <1>4, MinIsLeast
<1>6. Last(w, k) = LaunchHorizon(w, l)  BY DEF Last, S
<1> HIDE DEF l
<1> DEFINE h == Horizon(w, l - 2)
<1>7. LaunchHorizon(w, l) = IF h = {} THEN l ELSE Min({l, Min(h) + 1})  BY DEF LaunchHorizon
<1>8. h # {} => Min(h) \in Int
  <2>1. IsFiniteSet(h) /\ \A m \in h : m \in 1..(l - 2)  BY <1>5, HorizonIs DEF PhaseInv, RowsOK
  <2> HIDE DEF h
  <2>2. \A m \in h : m \in Int  BY <2>1
  <2> QED BY <2>1, <2>2, MinIsLeast
<1> HIDE DEF h
<1>9. CASE h = {}  BY <1>5, <1>6, <1>7, <1>9
<1>10. CASE h # {}
  <2>1. Min(h) + 1 \in Int  BY <1>8, <1>10
  <2>2. Min({l, Min(h) + 1}) \in Int /\ Min({l, Min(h) + 1}) <= l  BY <1>5, <2>1, OfTwo
  <2> DEFINE least == Min({l, Min(h) + 1})
  <2>3. Last(w, k) = least  BY <1>6, <1>7, <1>10
  <2>4. least \in Int /\ least <= l  BY <2>2
  <2> HIDE DEF least
  <2> QED BY <1>1, <1>5, <2>3, <2>4
<1> QED BY <1>9, <1>10

-----------------------------------------------------------------------------
(* The inductive invariant. *)

LEMMA InitPhase == Init => PhaseInv
<1> SUFFICES ASSUME Init PROVE PhaseInv  OBVIOUS
<1> USE DEF Init
<1>1. NW \in Nat \ {0} /\ N \in Nat \ {0}  BY RulesAssumption
<1>2. turn \in Walks  BY <1>1 DEF Walks
<1>3. Types
  <2>1. /\ how \in Settings /\ how.budget \in Nat /\ how.parent \subseteq Cells  BY Setup
  <2>2. /\ verdict \in [Walks -> Verdicts] /\ cell \in Grid
        /\ catch \in [Priors -> [Cells -> CatchStates]]
    BY DEF Verdicts, Grid, CellStates, CatchStates
  <2>3. pool \subseteq Priors /\ has \in [Priors -> SUBSET Cells]  BY <2>1 DEF Priors
  <2>4. 0 \in 0..MaxUpsets  BY PhaseAssumption
  <2>5. left \in Int /\ upsets \in 0..MaxUpsets /\ banked \in [Walks -> SUBSET Cells]
    BY <2>1, <2>4
  <2>6. /\ turn \in Walks \cup {Over} /\ block \in Nat /\ stage \in Stages
        /\ filler \in Walks \cup {0} /\ room \in Int /\ upto \in Int
        /\ armed \in Depths /\ depth \in Depths \cup {0}
    BY <1>2 DEF Stages
  <2>8. settling \in BOOLEAN /\ pause \in BOOLEAN /\ skip \in BOOLEAN  BY Zenon
  <2>7. stop \in {"none", "pause", "budget", "failure"}  OBVIOUS
  <2> QED BY <2>1, <2>2, <2>3, <2>5, <2>6, <2>7, <2>8 DEF Types
<1>4. RowsOK
  <2>1. <<>> \in Seq(ARow) /\ Len(<<>>) = 0  OBVIOUS
  <2> QED BY <1>1, <2>1 DEF RowsOK, RowsOf, InOrder
<1>5. CellsOK
  <2>1. \A i \in Cells : ~(i <= 0)  BY DEF Cells
  <2> QED BY <2>1 DEF CellsOK, Gapless, LetGo, TakenAre
<1>6. TurnOK /\ SettlingOK  BY <1>2 DEF TurnOK, SettlingOK
<1> QED BY <1>3, <1>4, <1>5, <1>6 DEF PhaseInv

LEMMA HonourSkipKeeps == PhaseInv /\ HonourSkip => PhaseInv'
<1> SUFFICES ASSUME PhaseInv, HonourSkip PROVE PhaseInv'  OBVIOUS
<1> USE DEF PhaseInv
<1>1. turn \in Walks /\ verdict[turn] = "none" /\ stop = "none" /\ stage = "awake"
  BY DEF HonourSkip, Awake, TurnOK
<1> DEFINE v == [verdict EXCEPT ![turn] = "skip"]
<1>2. v \in [Walks -> Verdicts] /\ \A w \in Walks : verdict[w] # "none" => v[w] # "none"
  BY <1>1 DEF Types, Verdicts
<1> HIDE DEF v
<1>3. Goes(v, rows, cell, has)  BY DEF HonourSkip, v
<1>4. Turned(rows, cell)
  BY <1>1, <1>2, <1>3, GoesOn DEF Types, RowsOK, CellsOK, Turned
<1>5. /\ skip' = FALSE /\ settling' = FALSE
      /\ UNCHANGED <<how, rows, catch, left, upsets, unread, stage, filler, room, upto, depth, armed,
                     pause, stop, banked>>
  BY DEF HonourSkip, launchVars, endVars
<1>6. Types'  BY <1>4, <1>5 DEF Types, Turned
<1>7. RowsOK'  BY <1>5 DEF RowsOK
<1>8. CellsOK'  BY <1>4, <1>5 DEF CellsOK, Turned
<1>9. TurnOK'  BY <1>1, <1>4, <1>5 DEF TurnOK, Turned
<1>10. SettlingOK'  BY <1>4, <1>5 DEF SettlingOK, Turned
<1> QED BY <1>6, <1>7, <1>8, <1>9, <1>10

(* A step that moves no turn, row, cell or catch-up.                        *)
LEMMA Elsewhere ==
    ASSUME PhaseInv, UNCHANGED <<how, rows, verdict, turn, block, cell, settling, pool, has, unread, catch>>,
           Types', TurnOK'
    PROVE  PhaseInv'
<1>1. RowsOK' /\ CellsOK' /\ SettlingOK'
  BY DEF PhaseInv, RowsOK, CellsOK, SettlingOK
<1> QED BY <1>1 DEF PhaseInv

LEMMA StopKeeps == PhaseInv /\ (HonourStop \/ TakeFails) => PhaseInv'
<1> SUFFICES ASSUME PhaseInv, HonourStop \/ TakeFails PROVE PhaseInv'  OBVIOUS
<1>1. /\ UNCHANGED <<how, rows, verdict, turn, block, cell, settling, pool, has, unread, catch>>
      /\ UNCHANGED <<left, upsets, filler, room, upto, depth, armed, pause, skip, banked>>
      /\ stop' \in {"pause", "budget", "failure"} /\ stage' \in {"landing", "banking"}
  BY DEF HonourStop, TakeFails, Stops, turnVars, callVars, launchVars, pressVars
<1>2. Types'  BY <1>1 DEF PhaseInv, Types, Stages
<1>3. TurnOK'  BY <1>1 DEF PhaseInv, TurnOK
<1> QED BY <1>1, <1>2, <1>3, Elsewhere

LEMMA SettlesIs ==
    ASSUME PhaseInv, settling
    PROVE  Settles = Len(rows[turn]) /\ Settles \in Cells
<1>1. turn \in Walks /\ Len(rows[turn]) >= 1  BY DEF PhaseInv, SettlingOK
<1>2. rows[turn] \in Seq(ARow) /\ Len(rows[turn]) <= N  BY <1>1 DEF PhaseInv, RowsOK, RowsOf, InOrder
<1>3. Len(rows[turn]) \in 1..Len(rows[turn])  BY <1>1, <1>2
<1>4. rows[turn][Len(rows[turn])].at = Len(rows[turn])
  BY <1>1, <1>3 DEF PhaseInv, RowsOK, InOrder
<1>5. N \in Nat  BY RulesAssumption
<1> QED BY <1>1, <1>2, <1>4, <1>5 DEF Settles, Taken, Cells

LEMMA SettleKeeps == PhaseInv /\ Settle => PhaseInv'
<1> SUFFICES ASSUME PhaseInv, Settle PROVE PhaseInv'  OBVIOUS
<1> USE DEF PhaseInv
<1>1. turn \in Walks /\ settling /\ stop = "none" /\ stage = "awake"
  BY DEF Settle, Awake, Settled, TurnOK
<1> DEFINE i == Settles
           ok == {p \in Started(i) : \A q \in FailedCatch : p < q}
           mute == {p \in ok : catch[p][i] = "error"}
           done == {p \in Started(i) : \A q \in FailedCatch : p <= q}
           read == [p \in Priors |-> IF p \in ok \ mute THEN has[p] \cup {i} ELSE has[p]]
           unmet == unread \cup {<<turn, p, i>> : p \in mute}
<1>2. i \in Cells  BY <1>1, SettlesIs
<1>3. read \in [Priors -> SUBSET Cells]  BY <1>2 DEF Types
<1>9. unmet \subseteq Walks \X Priors \X Cells
  <2>1. mute \subseteq Priors  BY DEF Started
  <2> QED BY <1>1, <1>2, <2>1 DEF Types
<1>4. /\ settling' = FALSE
      /\ catch' = [p \in Priors |->
                      IF p \in done THEN [catch[p] EXCEPT ![i] = "no"] ELSE catch[p]]
      /\ UNCHANGED <<how, rows, left, upsets, filler, room, upto, depth, armed, pause, skip, banked>>
      /\ \/ /\ Judged(rows, cell, read) /\ unread' = unmet
            /\ UNCHANGED <<stage, stop>>
         \/ /\ has' = read /\ (Stops("failure") \/ Stops("budget"))
            /\ UNCHANGED <<verdict, turn, block, cell, pool, unread>>
  BY DEF Settle, launchVars, pressVars
<1> HIDE DEF i, ok, mute, done, read, unmet
<1>5. catch' \in [Priors -> [Cells -> CatchStates]]
  BY <1>2, <1>4 DEF Types, CatchStates
<1>6. \A p \in Priors, j \in Cells : catch'[p][j] # "no" => catch[p][j] # "no"
  BY <1>2, <1>4 DEF Types
<1>7. CASE Judged(rows, cell, read) /\ unread' = unmet /\ UNCHANGED <<stage, stop>>
  <2>1. Turned(rows, cell)
    BY <1>1, <1>3, <1>7, JudgedOn DEF Types, RowsOK, CellsOK
  <2>2. Types'  BY <1>4, <1>5, <1>7, <1>9, <2>1 DEF Types, Turned
  <2>3. RowsOK'  BY <1>4 DEF RowsOK
  <2>4. CellsOK'  BY <1>4, <2>1 DEF CellsOK, Turned
  <2>5. TurnOK'  BY <1>1, <1>7, <2>1 DEF TurnOK, Turned
  <2>6. SettlingOK'  BY <1>4, <1>6, <2>1 DEF SettlingOK, Turned
  <2> QED BY <2>2, <2>3, <2>4, <2>5, <2>6
<1>8. CASE /\ has' = read /\ (Stops("failure") \/ Stops("budget"))
           /\ UNCHANGED <<verdict, turn, block, cell, pool, unread>>
  <2>1. stop' \in {"failure", "budget"} /\ stage' \in {"landing", "banking"}  BY <1>8 DEF Stops
  <2>2. Types'  BY <1>3, <1>4, <1>5, <1>8, <2>1 DEF Types, Stages
  <2>3. RowsOK' /\ CellsOK'  BY <1>4, <1>8 DEF RowsOK, CellsOK
  <2>4. TurnOK'  BY <1>8, <2>1 DEF TurnOK
  <2>5. SettlingOK'  BY <1>4, <1>6, <1>8 DEF SettlingOK
  <2> QED BY <2>2, <2>3, <2>4, <2>5
<1> QED BY <1>4, <1>7, <1>8

(* One row more is the walk's next cell's.                                 *)
LEMMA OneRowMore ==
    ASSUME PhaseInv, turn \in Walks, NEW o \in Says, HeadIs(o)
    PROVE  LET i == Taken(turn) + 1
               r == [rows EXCEPT ![turn] = Append(@, Row(i, o))]
               c == [cell EXCEPT ![turn][i] = "taken"]
           IN  /\ i \in Cells
               /\ r \in RowsOf /\ InOrder(r) /\ r[turn] = Append(rows[turn], Row(i, o))
               /\ Len(r[turn]) = i
               /\ c \in Grid /\ Gapless(c) /\ LetGo(c, verdict) /\ TakenAre(c, r, verdict)
               /\ \A w \in Walks, j \in Cells :
                    /\ c[w][j] \in {"out", "drains"} <=> cell[w][j] \in {"out", "drains"}
                    /\ c[w][j] = "no" <=> cell[w][j] = "no"
<1> DEFINE i == Taken(turn) + 1
           s == Append(rows[turn], Row(i, o))
           r == [rows EXCEPT ![turn] = s]
           c == [cell EXCEPT ![turn][i] = "taken"]
<1>1. rows \in RowsOf /\ rows[turn] \in Seq(ARow) /\ InOrder(rows) /\ N \in Nat
  BY RulesAssumption DEF PhaseInv, RowsOK, RowsOf
<1>2. i \in Cells /\ i = Len(rows[turn]) + 1  BY <1>1 DEF HeadIs, Taken, Cells
<1>3. Row(i, o) \in ARow  BY <1>2 DEF Row, ARow
<1>4. s \in Seq(ARow) /\ Len(s) = i /\ \A k \in 1..Len(s) :
        s[k] = IF k <= Len(rows[turn]) THEN rows[turn][k] ELSE Row(i, o)
  BY <1>1, <1>2, <1>3
<1>5. r \in RowsOf /\ r[turn] = s /\ \A w \in Walks \ {turn} : r[w] = rows[w]
  BY <1>1, <1>4 DEF RowsOf
<1>6. InOrder(r)
  <2> SUFFICES ASSUME NEW w \in Walks
               PROVE  Len(r[w]) <= N /\ \A k \in 1..Len(r[w]) : r[w][k].at = k
    BY DEF InOrder
  <2>1. CASE w = turn
    <3>1. Len(r[w]) <= N  BY <1>2, <1>4, <1>5, <2>1 DEF Cells
    <3>2. ASSUME NEW k \in 1..Len(r[w]) PROVE r[w][k].at = k
      <4>1. CASE k <= Len(rows[turn])
        <5>1. k \in 1..Len(rows[turn])  BY <1>1, <3>2, <4>1
        <5>2. r[w][k] = rows[turn][k]  BY <1>4, <1>5, <2>1, <3>2, <4>1
        <5> QED BY <1>1, <5>1, <5>2 DEF InOrder
      <4>2. CASE ~(k <= Len(rows[turn]))
        <5>1. k = i  BY <1>1, <1>2, <1>4, <1>5, <2>1, <3>2, <4>2
        <5>2. r[w][k] = Row(i, o)  BY <1>4, <1>5, <2>1, <3>2, <4>2
        <5> QED BY <5>1, <5>2 DEF Row
      <4> QED BY <4>1, <4>2
    <3> QED BY <3>1, <3>2
  <2>2. CASE w # turn  BY <1>1, <1>5, <2>2 DEF InOrder
  <2> QED BY <2>1, <2>2
<1>7. cell \in Grid /\ cell[turn] \in [Cells -> CellStates] /\ cell[turn][i] = o
      /\ verdict[turn] = "none" /\ Gapless(cell) /\ LetGo(cell, verdict)
      /\ TakenAre(cell, rows, verdict)
  BY DEF PhaseInv, Types, Grid, CellsOK, TurnOK, HeadIs
<1>8. c \in Grid /\ \A w \in Walks, j \in Cells :
        c[w][j] = IF w = turn /\ j = i THEN "taken" ELSE cell[w][j]
  BY <1>2, <1>7 DEF Grid, CellStates
<1> HIDE DEF c, r, s
<1>9. \A w \in Walks, j \in Cells :
        /\ c[w][j] \in {"out", "drains"} <=> cell[w][j] \in {"out", "drains"}
        /\ c[w][j] = "no" <=> cell[w][j] = "no"
  BY <1>7, <1>8 DEF Says
<1>10. Gapless(c)
  <2> SUFFICES ASSUME NEW w \in Walks, NEW j \in Cells, NEW k \in Cells, j < k, c[w][k] # "no"
               PROVE  c[w][j] # "no"
    BY DEF Gapless
  <2> QED BY <1>7, <1>9 DEF Gapless
<1>11. LetGo(c, verdict)  BY <1>7, <1>8 DEF LetGo
<1>12. TakenAre(c, r, verdict)
  <2> SUFFICES ASSUME NEW w \in Walks, verdict[w] = "none", NEW j \in Cells
               PROVE  c[w][j] = "taken" <=> j <= Len(r[w])
    BY DEF TakenAre
  <2>1. cell[w][j] = "taken" <=> j <= Len(rows[w])  BY <1>7 DEF TakenAre
  <2>2. CASE w # turn  BY <1>5, <1>8, <2>1, <2>2
  <2>3. CASE w = turn
    <3>1. Len(r[w]) = i /\ i = Len(rows[w]) + 1 /\ Len(rows[w]) \in Nat /\ j \in Int
      BY <1>1, <1>2, <1>4, <1>5, <2>3 DEF Cells
    <3> QED BY <1>8, <2>1, <2>3, <3>1
  <2> QED BY <2>2, <2>3
<1> QED BY <1>2, <1>4, <1>5, <1>6, <1>8, <1>9, <1>10, <1>11, <1>12 DEF c, r, s

LEMMA TakeHeadKeeps == PhaseInv /\ TakeHead => PhaseInv'
<1> SUFFICES ASSUME PhaseInv, TakeHead PROVE PhaseInv'  OBVIOUS
<1>1. turn \in Walks /\ ~settling /\ stop = "none" /\ stage = "awake" /\ verdict[turn] = "none"
  BY DEF TakeHead, Awake, PhaseInv, TurnOK
<1> DEFINE i == Taken(turn) + 1
           r(o) == [rows EXCEPT ![turn] = Append(@, Row(i, o))]
           c == [cell EXCEPT ![turn][i] = "taken"]
           settles == how.catching /\ Owed(i) \cup Started(i) # {}
           aborts(o) == Aborts(r(o)[turn], how.rereads[turn])
           abort == [verdict EXCEPT ![turn] = "abort"]
<1>2. PICK o \in Says :
        /\ HeadIs(o)
        /\ rows' = r(o)
        /\ \/ /\ Stops("failure") \/ Stops("budget")
              /\ cell' = c
              /\ UNCHANGED <<verdict, turn, block, pool, has, settling>>
           \/ /\ Goes(abort, r(o), c, has)
              /\ UNCHANGED <<settling, stage, stop>>
           \/ /\ ~aborts(o) /\ settles
              /\ settling' = TRUE /\ cell' = c
              /\ UNCHANGED <<verdict, turn, block, pool, has, stage, stop>>
           \/ /\ Judged(r(o), c, has)
              /\ UNCHANGED <<settling, stage, stop>>
  <2>1. PICK o \in Says :
        /\ HeadIs(o)
        /\ rows' = r(o)
        /\ \/ /\ o = "refused"
              /\ Stops("failure") \/ (how.bound /\ Stops("budget"))
              /\ cell' = c
              /\ UNCHANGED <<verdict, turn, block, pool, has, settling>>
           \/ /\ o # "refused" /\ aborts(o)
              /\ Goes(abort, r(o), c, has)
              /\ UNCHANGED <<settling, stage, stop>>
           \/ /\ o # "refused" /\ ~aborts(o) /\ settles
              /\ settling' = TRUE /\ cell' = c
              /\ UNCHANGED <<verdict, turn, block, pool, has, stage, stop>>
           \/ /\ o # "refused" /\ ~aborts(o) /\ ~settles
              /\ Judged(r(o), c, has)
              /\ UNCHANGED <<settling, stage, stop>>
    BY DEF TakeHead
  <2> HIDE DEF r, c, settles, aborts, abort
  <2> QED BY <2>1
<1>3. UNCHANGED <<how, catch, left, upsets, unread, filler, room, upto, depth, armed, pause, skip,
                  banked>>
  BY DEF TakeHead, launchVars, pressVars
<1>4. /\ i \in Cells /\ r(o) \in RowsOf /\ InOrder(r(o)) /\ Len(r(o)[turn]) = i
      /\ c \in Grid /\ Gapless(c) /\ LetGo(c, verdict) /\ TakenAre(c, r(o), verdict)
  BY <1>1, <1>2, OneRowMore
<1>5. abort \in [Walks -> Verdicts] /\ \A w \in Walks : verdict[w] # "none" => abort[w] # "none"
  BY <1>1 DEF PhaseInv, Types, Verdicts
<1> DEFINE rr == r(o)
<1>6. rows' = rr  BY <1>2
<1> HIDE DEF rr, c, abort, settles
<1>7. RowsOK'  BY <1>4, <1>6 DEF RowsOK, rr
<1>8. CASE /\ Stops("failure") \/ Stops("budget")
           /\ cell' = c
           /\ UNCHANGED <<verdict, turn, block, pool, has, settling>>
  <2>1. stop' \in {"failure", "budget"} /\ stage' \in {"landing", "banking"}  BY <1>8 DEF Stops
  <2>2. Types'  BY <1>3, <1>4, <1>8, <2>1 DEF PhaseInv, Types, Stages
  <2>3. CellsOK'  BY <1>4, <1>6, <1>8 DEF CellsOK, rr
  <2>4. TurnOK'  BY <1>1, <1>8, <2>1 DEF TurnOK
  <2>5. SettlingOK'  BY <1>1, <1>3, <1>8 DEF PhaseInv, SettlingOK
  <2> QED BY <1>7, <2>2, <2>3, <2>4, <2>5 DEF PhaseInv
<1>9. CASE Turned(rr, c) /\ UNCHANGED <<settling, stage, stop>>
  <2>1. Types'  BY <1>3, <1>9 DEF PhaseInv, Types, Turned
  <2>2. CellsOK'  BY <1>6, <1>9 DEF CellsOK, Turned
  <2>3. TurnOK'  BY <1>1, <1>9 DEF TurnOK, Turned
  <2>4. SettlingOK'  BY <1>1, <1>3, <1>9 DEF PhaseInv, SettlingOK, Turned
  <2> QED BY <1>7, <2>1, <2>2, <2>3, <2>4 DEF PhaseInv
<1>10. CASE Goes(abort, rr, c, has) /\ UNCHANGED <<settling, stage, stop>>
  <2>1. Turned(rr, c)
    BY <1>1, <1>4, <1>5, <1>10, GoesOn DEF PhaseInv, Types, Turned, rr
  <2> QED BY <1>9, <1>10, <2>1
<1>11. CASE Judged(rr, c, has) /\ UNCHANGED <<settling, stage, stop>>
  <2>1. has \in [Priors -> SUBSET Cells] /\ rr \in RowsOf /\ TakenAre(c, rr, verdict)
    BY <1>4 DEF PhaseInv, Types, rr
  <2>2. Turned(rr, c)  BY <1>1, <1>4, <1>11, <2>1, JudgedOn
  <2> QED BY <1>9, <1>11, <2>2
<1>12. CASE /\ ~aborts(o) /\ settles
            /\ settling' = TRUE /\ cell' = c
            /\ UNCHANGED <<verdict, turn, block, pool, has, stage, stop>>
  <2>1. Types'  BY <1>3, <1>4, <1>12 DEF PhaseInv, Types
  <2>2. CellsOK'  BY <1>4, <1>6, <1>12 DEF CellsOK, rr
  <2>3. TurnOK'  BY <1>1, <1>12 DEF TurnOK
  <2>4. ~Aborts(rr[turn], how.rereads[turn])  BY <1>12 DEF rr
  <2>5. Len(rr[turn]) >= 1  BY <1>4 DEF rr, Cells
  <2>6. SettlingOK'
    BY <1>1, <1>3, <1>6, <1>12, <2>4, <2>5 DEF PhaseInv, SettlingOK, settles
  <2> QED BY <1>7, <2>1, <2>2, <2>3, <2>6 DEF PhaseInv
<1> QED BY <1>2, <1>8, <1>10, <1>11, <1>12 DEF rr

(* A walk's fill is of a cell it has not launched, up to its last.         *)
LEMMA FillsIs ==
    ASSUME PhaseInv, NEW w \in Walks, Fills(w)
    PROVE  /\ filler' = w /\ room' \in Int /\ upto' \in Int /\ upto' <= N
           /\ how.bound => \/ room' <= left - Out
                           \/ room' <= RereadsAhead(w, Submitted(w) + 1)
<1> DEFINE cap == IF w = turn THEN armed ELSE armed - 1
           a == Affordable
           b == RereadsAhead(w, Submitted(w) + 1)
           m == Max({a, b})
           k == Min({cap - Out, m})
<1>1. /\ filler' = w /\ room' = k /\ upto' = Last(w, k)  BY DEF Fills
<1>2. armed \in Int /\ left \in Int /\ Out \in Int /\ N \in Int /\ NW \in Int
  BY CallsAreFinite, PhaseAssumption, RulesAssumption DEF PhaseInv, Types
<1>3. cap - Out \in Int /\ a \in Int
  <2>1. 2 * NW * N + NW \in Int  BY <1>2
  <2> QED BY <1>2, <2>1 DEF Affordable, Unlimited
<1>4. b \in Int
  <2>1. Submitted(w) + 1 \in 1..(N + 1)  BY SubmittedAre, RulesAssumption DEF PhaseInv, Types, CellsOK
  <2>2. b \in 0..(N - (Submitted(w) + 1) + 1)  BY <2>1, RereadsAre
  <2> QED BY <2>2
<1>5. how.bound => a = left - Out  BY DEF Affordable
<1> HIDE DEF a, b, cap
<1>6. m \in Int /\ m \in {a, b}  BY <1>3, <1>4, OfTwo
<1> HIDE DEF m
<1>7. k \in Int /\ k <= m  BY <1>3, <1>6, OfTwo
<1> HIDE DEF k
<1>8. upto' \in Int /\ upto' <= N  BY <1>1, <1>7, LastIs
<1> QED BY <1>1, <1>2, <1>3, <1>4, <1>5, <1>6, <1>7, <1>8 DEF b

LEMMA BeginLaunchKeeps == PhaseInv /\ BeginLaunch => PhaseInv'
<1> SUFFICES ASSUME PhaseInv, BeginLaunch PROVE PhaseInv'  OBVIOUS
<1>1. /\ UNCHANGED <<how, rows, verdict, turn, block, cell, settling, pool, has, unread, catch>>
      /\ UNCHANGED <<left, upsets, filler, upto, depth, armed, pause, skip, stop, banked>>
      /\ turn \in Walks /\ stage = "awake"
      /\ \/ stage' = "asks" /\ room' = room
         \/ stage' = "owing" /\ room' = Min({armed - Out, Affordable})
  BY DEF BeginLaunch, Awake, turnVars, callVars, pressVars, endVars
<1>2. room' \in Int
  <2>1. armed \in Int /\ left \in Int /\ Out \in Int /\ N \in Int /\ NW \in Int /\ room \in Int
    BY CallsAreFinite, PhaseAssumption, RulesAssumption DEF PhaseInv, Types
  <2>2. armed - Out \in Int /\ Affordable \in Int
    <3>1. 2 * NW * N + NW \in Int  BY <2>1
    <3> QED BY <2>1, <3>1 DEF Affordable, Unlimited
  <2>3. Min({armed - Out, Affordable}) \in Int  BY <2>2, OfTwo
  <2> QED BY <1>1, <2>1, <2>3
<1>3. Types'  BY <1>1, <1>2 DEF PhaseInv, Types, Stages
<1>4. TurnOK'  BY <1>1 DEF PhaseInv, TurnOK
<1> QED BY <1>1, <1>3, <1>4, Elsewhere

LEMMA FillKeeps == PhaseInv /\ (BeginFilling \/ FillNext) => PhaseInv'
<1> SUFFICES ASSUME PhaseInv, BeginFilling \/ FillNext PROVE PhaseInv'  OBVIOUS
<1>1. /\ UNCHANGED <<how, rows, verdict, turn, block, cell, settling, pool, has, unread, catch>>
      /\ UNCHANGED <<left, upsets, depth, armed, pause, skip, stop, banked>>
      /\ stage \in {"owing", "filling"}
  BY DEF BeginFilling, FillNext, turnVars, callVars, pressVars, endVars
<1>2. turn \in Walks /\ verdict[turn] = "none" /\ stop = "none"
  BY <1>1 DEF PhaseInv, TurnOK
<1>3. CASE stage' = "filling" /\ \E w \in Walks : verdict[w] = "none" /\ Fills(w)
  <2>1. PICK w \in Walks : verdict[w] = "none" /\ Fills(w)  BY <1>3
  <2>2. filler' = w /\ room' \in Int /\ upto' \in Int /\ upto' <= N  BY <2>1, FillsIs
  <2>3. Types'  BY <1>1, <1>3, <2>2 DEF PhaseInv, Types, Stages
  <2>4. TurnOK'  BY <1>1, <1>2, <1>3, <2>1, <2>2 DEF TurnOK
  <2> QED BY <1>1, <2>3, <2>4, Elsewhere
<1>4. CASE stage' = "asks" /\ filler' = 0 /\ room' = 0 /\ upto' = 0
  <2>1. Types'  BY <1>1, <1>4 DEF PhaseInv, Types, Stages
  <2>2. TurnOK'  BY <1>1, <1>2, <1>4 DEF TurnOK
  <2> QED BY <1>1, <2>1, <2>2, Elsewhere
<1>5. CASE BeginFilling  BY <1>2, <1>3, <1>5 DEF BeginFilling
<1>6. CASE FillNext
  <2>1. CASE Unfilled # {} /\ Fills(Min(Unfilled)) /\ UNCHANGED stage
    <3>1. Min(Unfilled) \in Unfilled  BY <2>1, LeastWalk DEF Unfilled, Live, Undecided
    <3>2. Min(Unfilled) \in Walks /\ verdict[Min(Unfilled)] = "none"
      BY <3>1 DEF Unfilled, Live, Undecided
    <3> QED BY <1>3, <1>6, <2>1, <3>2 DEF FillNext
  <2> QED BY <1>4, <1>6, <2>1 DEF FillNext
<1> QED BY <1>5, <1>6

(* A set of priors has a least.                                             *)
LEMMA LeastPrior ==
    ASSUME NEW S \in SUBSET Priors, S # {}
    PROVE  Min(S) \in S
<1>1. IsFiniteSet(Priors) /\ \A p \in S : p \in Int
  <2>1. IsFiniteSet(Walks)  BY FS_Interval, RulesAssumption DEF Walks
  <2>2. IsFiniteSet(Walks \cup {Parent})  BY <2>1, FS_AddElement
  <2> QED BY <2>2 DEF Priors, Parent, Walks
<1>2. IsFiniteSet(S)  BY <1>1, FS_Subset
<1> QED BY <1>1, <1>2, MinIsLeast

(* A set of cells has a least.                                              *)
LEMMA LeastCell ==
    ASSUME NEW S \in SUBSET Cells, S # {}
    PROVE  Min(S) \in S
<1>1. IsFiniteSet(Cells) /\ \A i \in S : i \in Int
  BY FS_Interval, RulesAssumption DEF Cells
<1>2. IsFiniteSet(S)  BY <1>1, FS_Subset
<1> QED BY <1>1, <1>2, MinIsLeast

(* A catch-up started is of a prior that lacks the cell.                   *)
LEMMA StartOwedIs ==
    ASSUME PhaseInv, StartOwed
    PROVE  \E p \in pool, i \in Cells :
              /\ p \in Priors /\ catch[p][i] = "no" /\ i \notin has[p]
              /\ catch' = [catch EXCEPT ![p][i] = "out"]
<1> DEFINE i == Min(Owing)
           p == Min(Owed(i))
<1>1. Owing \subseteq Cells
  <2>1. settling => Settles \in Cells  BY SettlesIs
  <2> QED BY <2>1 DEF Owing, Returned
<1>2. i \in Owing  BY <1>1, LeastCell DEF StartOwed
<1>3. Owed(i) # {} /\ i \in Cells  BY <1>1, <1>2 DEF Owing
<1>4. Owed(i) \subseteq Priors  BY DEF Owed, PhaseInv, Types
<1>5. p \in Owed(i)  BY <1>3, <1>4, LeastPrior
<1>6. catch' = [catch EXCEPT ![p][i] = "out"]  BY DEF StartOwed
<1> QED BY <1>3, <1>4, <1>5, <1>6 DEF Owed

LEMMA StartOwedKeeps == PhaseInv /\ StartOwed => PhaseInv'
<1> SUFFICES ASSUME PhaseInv, StartOwed PROVE PhaseInv'  OBVIOUS
<1>1. PICK p \in pool, i \in Cells :
        p \in Priors /\ catch[p][i] = "no" /\ catch' = [catch EXCEPT ![p][i] = "out"]
  BY StartOwedIs
<1>2. /\ UNCHANGED <<how, rows, verdict, turn, block, cell, settling, pool, has, unread>>
      /\ UNCHANGED <<left, upsets, stage, filler, upto, depth, armed, pause, skip, stop, banked>>
      /\ room' = room - 1
  BY DEF StartOwed, turnVars, pressVars, endVars
<1>3. catch' \in [Priors -> [Cells -> CatchStates]]
      /\ \A q \in Priors, j \in Cells : catch'[q][j] # "no" => q = p \/ catch[q][j] # "no"
  BY <1>1 DEF PhaseInv, Types, CatchStates
<1>4. Types'  BY <1>2, <1>3 DEF PhaseInv, Types
<1>5. RowsOK' /\ CellsOK' /\ TurnOK'  BY <1>2 DEF PhaseInv, RowsOK, CellsOK, TurnOK
<1>6. SettlingOK'  BY <1>1, <1>2, <1>3 DEF PhaseInv, SettlingOK
<1> QED BY <1>4, <1>5, <1>6 DEF PhaseInv


(* The next cell of a walk, launched, with its catch-ups.                  *)
LEMMA LaunchCellIs ==
    ASSUME PhaseInv, LaunchCell
    PROVE  LET i == Submitted(filler) + 1
               k == Min({room - 1, IF how.bound THEN Affordable - 1 ELSE Unlimited})
               started == Least(Owed(i), k)
           IN  /\ filler \in Walks /\ i \in Cells /\ cell[filler][i] = "no"
               /\ \A w \in Walks, j \in Cells : cell'[w][j] =
                    IF w = filler /\ j = i THEN "out" ELSE cell[w][j]
               /\ cell' \in Grid
               /\ started \subseteq pool
               /\ \A p \in started : catch[p][i] = "no" /\ i \notin has[p]
               /\ catch' \in [Priors -> [Cells -> CatchStates]]
               /\ \A p \in Priors, j \in Cells : catch'[p][j] =
                    IF p \in started /\ j = i THEN "out" ELSE catch[p][j]
               /\ room' = room - 1 - Cardinality(started)
               /\ room > 0
<1> DEFINE i == Submitted(filler) + 1
           k == Min({room - 1, IF how.bound THEN Affordable - 1 ELSE Unlimited})
           started == Least(Owed(i), k)
<1>1. filler \in Walks /\ upto <= N /\ upto \in Int /\ N \in Int /\ Submitted(filler) < upto /\ room > 0
  BY RulesAssumption DEF LaunchCell, MayLaunch, PhaseInv, TurnOK, Types
<1>2. /\ Submitted(filler) \in 0..N
      /\ \A j \in Cells : cell[filler][j] # "no" <=> j <= Submitted(filler)
  BY <1>1, SubmittedAre DEF PhaseInv, Types, CellsOK
<1>3. i \in Cells  BY <1>1, <1>2 DEF Cells
<1>4. cell[filler][i] = "no"
  <2>1. ~(i <= Submitted(filler))  BY <1>2
  <2> QED BY <1>2, <1>3, <2>1
<1>5. /\ cell' = [cell EXCEPT ![filler][i] = "out"]
      /\ catch' = [p \in Priors |->
                      IF p \in started THEN [catch[p] EXCEPT ![i] = "out"] ELSE catch[p]]
      /\ room' = room - 1 - Cardinality(started)
  BY DEF LaunchCell
<1>6. started \subseteq pool /\ \A p \in started : catch[p][i] = "no" /\ i \notin has[p]
  BY DEF Least, Owed
<1> HIDE DEF i, k, started
<1>7. cell \in Grid /\ catch \in [Priors -> [Cells -> CatchStates]]  BY DEF PhaseInv, Types
<1>8. cell' \in Grid /\ \A w \in Walks, j \in Cells : cell'[w][j] =
        IF w = filler /\ j = i THEN "out" ELSE cell[w][j]
  BY <1>1, <1>3, <1>5, <1>7 DEF Grid, CellStates
<1>9. catch' \in [Priors -> [Cells -> CatchStates]] /\ \A p \in Priors, j \in Cells : catch'[p][j] =
        IF p \in started /\ j = i THEN "out" ELSE catch[p][j]
  BY <1>3, <1>5, <1>7 DEF CatchStates
<1> QED BY <1>1, <1>3, <1>4, <1>5, <1>6, <1>8, <1>9 DEF i, k, started

LEMMA LaunchCellKeeps == PhaseInv /\ LaunchCell => PhaseInv'
<1> SUFFICES ASSUME PhaseInv, LaunchCell PROVE PhaseInv'  OBVIOUS
<1> DEFINE i == Submitted(filler) + 1
           k == Min({room - 1, IF how.bound THEN Affordable - 1 ELSE Unlimited})
           started == Least(Owed(i), k)
<1>1. /\ filler \in Walks /\ i \in Cells /\ cell[filler][i] = "no"
      /\ \A w \in Walks, j \in Cells : cell'[w][j] =
            IF w = filler /\ j = i THEN "out" ELSE cell[w][j]
      /\ cell' \in Grid
      /\ started \subseteq pool
      /\ catch' \in [Priors -> [Cells -> CatchStates]]
      /\ \A p \in Priors, j \in Cells : catch'[p][j] =
            IF p \in started /\ j = i THEN "out" ELSE catch[p][j]
      /\ room' = room - 1 - Cardinality(started)
  BY LaunchCellIs
<1>2. /\ UNCHANGED <<how, rows, verdict, turn, block, settling, pool, has, unread>>
      /\ UNCHANGED <<left, upsets, stage, filler, upto, depth, armed, pause, skip, stop, banked>>
      /\ stage = "filling"
  BY DEF LaunchCell, turnVars, pressVars, endVars
<1>3. Cardinality(started) \in Nat
  <2>1. started \in SUBSET Priors  BY <1>1 DEF PhaseInv, Types
  <2>2. IsFiniteSet(Priors)
    <3>1. IsFiniteSet(Walks)  BY FS_Interval, RulesAssumption DEF Walks
    <3>2. IsFiniteSet(Walks \cup {Parent})  BY <3>1, FS_AddElement
    <3> QED BY <3>2 DEF Priors
  <2> HIDE DEF started
  <2>3. IsFiniteSet(started)  BY <2>1, <2>2, FS_Subset
  <2> QED BY <2>3, FS_CardinalityType
<1>4. /\ Submitted(filler) \in 0..N
      /\ \A j \in Cells : cell[filler][j] # "no" <=> j <= Submitted(filler)
  BY <1>1, SubmittedAre DEF PhaseInv, Types, CellsOK
<1>5. verdict[filler] = "none"  BY <1>2 DEF PhaseInv, TurnOK
<1>6. \A j \in Cells : j < i => cell[filler][j] # "no"
  <2> TAKE j \in Cells
  <2>1. j \in Int /\ Submitted(filler) \in Int  BY <1>4 DEF Cells
  <2> QED BY <1>4, <2>1
<1> HIDE DEF i, k, started
<1>7. Types'  BY <1>1, <1>2, <1>3 DEF PhaseInv, Types
<1>8. Gapless(cell')
  <2> SUFFICES ASSUME NEW w \in Walks, NEW j \in Cells, NEW m \in Cells, j < m, cell'[w][m] # "no"
               PROVE  cell'[w][j] # "no"
    BY DEF Gapless
  <2>1. CASE w = filler /\ m = i  BY <1>1, <1>6, <2>1
  <2>2. CASE ~(w = filler /\ m = i)
    <3>1. cell[w][m] # "no"  BY <1>1, <2>2
    <3>2. cell[w][j] # "no"  BY <3>1 DEF PhaseInv, CellsOK, Gapless
    <3> QED BY <1>1, <3>2
  <2> QED BY <2>1, <2>2
<1>9. LetGo(cell', verdict') /\ TakenAre(cell', rows', verdict')
  <2>1. LetGo(cell', verdict)  BY <1>1, <1>5 DEF PhaseInv, CellsOK, LetGo
  <2>2. TakenAre(cell', rows, verdict)
    <3> SUFFICES ASSUME NEW w \in Walks, verdict[w] = "none", NEW j \in Cells
                 PROVE  cell'[w][j] = "taken" <=> j <= Len(rows[w])
      BY DEF TakenAre
    <3>1. cell[w][j] = "taken" <=> j <= Len(rows[w])  BY DEF PhaseInv, CellsOK, TakenAre
    <3> QED BY <1>1, <3>1
  <2> QED BY <1>2, <2>1, <2>2
<1>10. RowsOK' /\ TurnOK'  BY <1>2 DEF PhaseInv, RowsOK, TurnOK
<1>11. SettlingOK'  BY <1>1, <1>2 DEF PhaseInv, SettlingOK
<1> QED BY <1>7, <1>8, <1>9, <1>10, <1>11 DEF PhaseInv, CellsOK

LEMMA WaitKeeps == PhaseInv /\ (Wait \/ Wake) => PhaseInv'
<1> SUFFICES ASSUME PhaseInv, Wait \/ Wake PROVE PhaseInv'  OBVIOUS
<1>1. /\ UNCHANGED <<how, rows, verdict, turn, block, cell, settling, pool, has, unread, catch>>
      /\ UNCHANGED <<left, upsets, filler, room, upto, armed, pause, skip, banked>>
      /\ depth' \in {depth, armed, 0} /\ stage \in {"asks", "waits", "wakes"}
      /\ \/ stop' = stop /\ stage' \in {"waits", "awake"}
         \/ stop' = "budget" /\ stage' \in {"landing", "banking"}
  BY DEF Wait, Wake, Stops, turnVars, callVars, pressVars, endVars
<1>2. Types'  BY <1>1 DEF PhaseInv, Types, Stages
<1>3. TurnOK'  BY <1>1 DEF PhaseInv, TurnOK
<1> QED BY <1>1, <1>2, <1>3, Elsewhere

LEMMA PressKeeps == PhaseInv /\ Presses => PhaseInv'
<1> SUFFICES ASSUME PhaseInv, Presses PROVE PhaseInv'  OBVIOUS
<1>1. /\ UNCHANGED <<how, rows, verdict, turn, block, cell, settling, pool, has, unread, catch>>
      /\ UNCHANGED <<left, stage, filler, room, upto, depth, stop, banked>>
      /\ pause' \in {pause, TRUE} /\ skip' \in {skip, TRUE} /\ armed' \in Depths \cup {armed}
      /\ upsets < MaxUpsets /\ upsets' = upsets + 1
  BY DEF Presses, Upset, turnVars, launchVars, endVars
<1>2. upsets' \in 0..MaxUpsets  BY <1>1, PhaseAssumption DEF PhaseInv, Types
<1>3. Types'  BY <1>1, <1>2 DEF PhaseInv, Types
<1>4. TurnOK'  BY <1>1 DEF PhaseInv, TurnOK
<1> QED BY <1>1, <1>3, <1>4, Elsewhere

LEMMA EndKeeps == PhaseInv /\ (Finish \/ Land \/ Bank) => PhaseInv'
<1> SUFFICES ASSUME PhaseInv, Finish \/ Land \/ Bank PROVE PhaseInv'  OBVIOUS
<1>1. /\ UNCHANGED <<how, rows, verdict, turn, block, cell, settling, pool, has, unread, catch>>
      /\ UNCHANGED <<left, filler, room, upto, depth, armed, pause, skip, stop>>
      /\ stage' \in {"landing", "banking", "over"}
      /\ upsets' = upsets \/ (upsets < MaxUpsets /\ upsets' = upsets + 1)
      /\ banked' = banked \/ \E kept : banked' = [w \in Walks |-> IF w \in kept THEN Sure(w) ELSE {}]
  BY DEF Finish, Land, Bank, Upset, turnVars, callVars, launchVars, pressVars, endVars
<1>2. upsets' \in 0..MaxUpsets  BY <1>1, PhaseAssumption DEF PhaseInv, Types
<1>3. banked' \in [Walks -> SUBSET Cells]
  <2>1. \A w \in Walks : Sure(w) \in SUBSET Cells  BY DEF Sure
  <2> QED BY <1>1, <2>1 DEF PhaseInv, Types
<1>4. Types'  BY <1>1, <1>2, <1>3 DEF PhaseInv, Types, Stages
<1>5. TurnOK'  BY <1>1 DEF PhaseInv, TurnOK
<1> QED BY <1>1, <1>4, <1>5, Elsewhere

(* What a call that returns moves beside its cell.                         *)
LEMMA ReturnIs ==
    ASSUME PhaseInv, NEW o, NEW free, CallReturns(o), Bills(o, free)
    PROVE  /\ UNCHANGED <<how, rows, verdict, turn, block, settling, pool, has, unread>>
           /\ UNCHANGED <<filler, room, upto, depth, armed, pause, skip, stop, banked>>
           /\ upsets' \in 0..MaxUpsets
           /\ left' = left \/ (left' = left - 1 /\ ~free /\ how.bound)
           /\ stage \in {"waits", "wakes", "landing"}
           /\ stage' = IF stage = "landing" THEN "landing" ELSE "wakes"
<1>1. upsets' \in 0..MaxUpsets
  <2>1. upsets' = upsets \/ (upsets < MaxUpsets /\ upsets' = upsets + 1)
    BY DEF CallReturns, Fault, Upset
  <2> QED BY <2>1, PhaseAssumption DEF PhaseInv, Types
<1> QED BY <1>1 DEF CallReturns, Bills, turnVars, launchVars, pressVars, endVars

LEMMA ReturnsKeeps ==
    ASSUME NEW w \in Walks, NEW i \in Cells
    PROVE  PhaseInv /\ Returns(w, i) => PhaseInv'
<1> SUFFICES ASSUME PhaseInv, Returns(w, i) PROVE PhaseInv'  OBVIOUS
<1>1. PICK o \in how.answers \cup {"good"} :
        /\ CallReturns(o) /\ Bills(o, i \in how.rereads[w])
        /\ cell' = [cell EXCEPT ![w][i] = IF @ = "out" THEN o ELSE "gone"]
        /\ catch' = catch
  BY DEF Returns
<1>2. cell[w][i] \in {"out", "drains"}  BY DEF Returns, Calls
<1>3. o \in Outcomes  BY <1>1, Setup DEF PhaseInv, Types, Outcomes, Says
<1>4. /\ UNCHANGED <<how, rows, verdict, turn, block, settling, pool, has, unread>>
      /\ UNCHANGED <<filler, room, upto, depth, armed, pause, skip, stop, banked>>
      /\ upsets' \in 0..MaxUpsets /\ left' \in {left, left - 1}
      /\ stage \in {"waits", "wakes", "landing"}
      /\ stage' = IF stage = "landing" THEN "landing" ELSE "wakes"
  BY <1>1, ReturnIs
<1>5. cell \in Grid  BY DEF PhaseInv, Types
<1> DEFINE x == IF cell[w][i] = "out" THEN o ELSE "gone"
<1>6. x \in CellStates /\ x \notin {"no", "out", "drains", "taken"}
  BY <1>3 DEF CellStates, Outcomes, Says
<1>7. cell' \in Grid /\ \A v \in Walks, j \in Cells : cell'[v][j] =
        IF v = w /\ j = i THEN x ELSE cell[v][j]
  BY <1>1, <1>5, <1>6 DEF Grid
<1>8. verdict[w] # "none" => x = "gone"
  BY <1>2 DEF PhaseInv, CellsOK, LetGo
<1> HIDE DEF x
<1>9. Types'  BY <1>1, <1>4, <1>7 DEF PhaseInv, Types, Stages
<1>10. Gapless(cell')
  <2> SUFFICES ASSUME NEW v \in Walks, NEW j \in Cells, NEW m \in Cells, j < m, cell'[v][m] # "no"
               PROVE  cell'[v][j] # "no"
    BY DEF Gapless
  <2>1. cell[v][m] # "no"  BY <1>2, <1>7
  <2>2. cell[v][j] # "no"  BY <2>1 DEF PhaseInv, CellsOK, Gapless
  <2> QED BY <1>6, <1>7, <2>2
<1>11. LetGo(cell', verdict)  BY <1>7, <1>8 DEF PhaseInv, CellsOK, LetGo
<1>12. TakenAre(cell', rows, verdict)
  <2> SUFFICES ASSUME NEW v \in Walks, verdict[v] = "none", NEW j \in Cells
               PROVE  cell'[v][j] = "taken" <=> j <= Len(rows[v])
    BY DEF TakenAre
  <2>1. cell[v][j] = "taken" <=> j <= Len(rows[v])  BY DEF PhaseInv, CellsOK, TakenAre
  <2> QED BY <1>2, <1>6, <1>7, <2>1
<1>13. RowsOK' /\ TurnOK'  BY <1>4 DEF PhaseInv, RowsOK, TurnOK
<1>14. SettlingOK'  BY <1>1, <1>4 DEF PhaseInv, SettlingOK
<1> QED BY <1>4, <1>9, <1>10, <1>11, <1>12, <1>13, <1>14 DEF PhaseInv, CellsOK

LEMMA CatchUpKeeps ==
    ASSUME NEW p \in Priors, NEW i \in Cells
    PROVE  PhaseInv /\ CatchUpReturns(p, i) => PhaseInv'
<1> SUFFICES ASSUME PhaseInv, CatchUpReturns(p, i) PROVE PhaseInv'  OBVIOUS
<1>1. PICK o \in Unscored \cup {"good"} :
        /\ CallReturns(o) /\ Bills(o, FALSE)
        /\ catch' = [catch EXCEPT ![p][i] = o]
        /\ cell' = cell
  BY DEF CatchUpReturns
<1>2. catch[p][i] = "out"  BY DEF CatchUpReturns, Catching
<1>3. /\ UNCHANGED <<how, rows, verdict, turn, block, settling, pool, has, unread>>
      /\ UNCHANGED <<filler, room, upto, depth, armed, pause, skip, stop, banked>>
      /\ upsets' \in 0..MaxUpsets /\ left' \in {left, left - 1}
      /\ stage \in {"waits", "wakes", "landing"}
      /\ stage' = IF stage = "landing" THEN "landing" ELSE "wakes"
  BY <1>1, ReturnIs
<1>4. /\ catch' \in [Priors -> [Cells -> CatchStates]]
      /\ \A q \in Priors, j \in Cells : catch'[q][j] # "no" => catch[q][j] # "no"
  BY <1>1, <1>2 DEF PhaseInv, Types, CatchStates, Unscored
<1>5. Types'  BY <1>1, <1>3, <1>4 DEF PhaseInv, Types, Stages
<1>6. RowsOK' /\ CellsOK' /\ TurnOK'  BY <1>1, <1>3 DEF PhaseInv, RowsOK, CellsOK, TurnOK
<1>7. SettlingOK'  BY <1>3, <1>4 DEF PhaseInv, SettlingOK
<1> QED BY <1>5, <1>6, <1>7 DEF PhaseInv

LEMMA PhaseStep == PhaseInv /\ [Next]_vars => PhaseInv'
<1> SUFFICES ASSUME PhaseInv, [Next]_vars PROVE PhaseInv'  OBVIOUS
<1>1. CASE UNCHANGED vars
  <2>1. UNCHANGED <<how, rows, verdict, turn, block, cell, settling, pool, has, unread, catch>>
        /\ UNCHANGED <<stage, filler, room, upto, depth, armed, pause, skip, left, stop, banked, upsets>>
    BY <1>1 DEF vars, turnVars, callVars, launchVars, pressVars, endVars
  <2>2. Types' /\ TurnOK'  BY <2>1 DEF PhaseInv, Types, TurnOK
  <2> QED BY <2>1, <2>2, Elsewhere
<1>2. CASE Phase
  <2>1. CASE Takes
    BY <2>1, HonourSkipKeeps, StopKeeps, SettleKeeps, TakeHeadKeeps DEF Takes
  <2>2. CASE Launches
    BY <2>2, BeginLaunchKeeps, StartOwedKeeps, FillKeeps, LaunchCellKeeps DEF Launches
  <2>3. CASE Ends  BY <2>3, EndKeeps DEF Ends
  <2> QED BY <1>2, <2>1, <2>2, <2>3, WaitKeeps DEF Phase
<1>3. CASE SomeReturns  BY <1>3, ReturnsKeeps, CatchUpKeeps DEF SomeReturns
<1> QED BY <1>1, <1>2, <1>3, PressKeeps DEF Next

THEOREM PhaseInvariant == Spec => []PhaseInv
BY InitPhase, PhaseStep, PTL DEF Spec

(* Rows are a walk's first cells in order, cells are launched in order, and *)
(* a decided walk has none out or back that it has not let go               *)
(* (query_loop.py Walk.take, Walk.end; ScoringPhase's TypeOK).              *)
THEOREM PhaseTypeCorrect == Spec => []TypeOK
<1>1. PhaseInv => TypeOK
  <2> SUFFICES ASSUME PhaseInv PROVE TypeOK  OBVIOUS
  <2>1. ASSUME NEW w \in Walks
        PROVE  /\ \A k \in DOMAIN rows[w] : rows[w][k].at = k /\ rows[w][k].is \in Says
               /\ \A i, j \in Cells : i < j /\ cell[w][j] # "no" => cell[w][i] # "no"
               /\ verdict[w] # "none" =>
                    \A i \in Cells : cell[w][i] \in {"no", "drains", "taken", "gone"}
    <3>1. rows[w] \in Seq(ARow)  BY DEF PhaseInv, RowsOK, RowsOf
    <3>2. DOMAIN rows[w] = 1..Len(rows[w])  BY <3>1
    <3>3. \A k \in DOMAIN rows[w] : rows[w][k] \in ARow  BY <3>1
    <3>4. \A k \in DOMAIN rows[w] : rows[w][k].is \in Says  BY <3>3 DEF ARow
    <3>5. \A k \in DOMAIN rows[w] : rows[w][k].at = k  BY <3>2 DEF PhaseInv, RowsOK, InOrder
    <3> QED BY <3>4, <3>5 DEF PhaseInv, CellsOK, Gapless, LetGo
  <2> QED BY <2>1 DEF TypeOK, PhaseInv, Types, Verdicts, Grid, CellStates, CatchStates
<1> QED BY <1>1, PhaseInvariant, PTL

-----------------------------------------------------------------------------
(* Who is caught up.                                                       *)

(* The priors are the parent and walks that are complete, and none is      *)
(* caught up on a cell that it has been read on.                            *)
PriorsAre(v, ps) == ps \subseteq {Parent} \cup {w \in Walks : v[w] = "complete"}
Unread(h, c) == \A p \in Priors, i \in Cells : c[p][i] # "no" => i \notin h[p]
AskedInv == PriorsAre(verdict, pool) /\ Unread(has, catch)

(* What a prior has been read on changes as it becomes one, and by h.      *)
Joined(h) ==
    /\ PriorsAre(verdict', pool')
    /\ \A p \in Priors : has'[p] = h[p] \/ (p \in Walks /\ verdict[p] = "none")

LEMMA GoesAsks ==
    ASSUME PhaseInv, AskedInv, turn \in Walks,
           NEW v \in [Walks -> Verdicts], \A w \in Walks : verdict[w] # "none" => v[w] = verdict[w],
           NEW r, NEW c, NEW h, Goes(v, r, c, h)
    PROVE  Joined(h)
<1>1. how.size \in Nat /\ block \in Nat  BY Setup DEF PhaseInv, Types
<1>2. PICK to \in After(v, r, turn, block, how.size) :
        /\ verdict' = to.verdict
        /\ pool' = pool \cup Admits(verdict, to.verdict, how.catching)
        /\ has' = [p \in Priors |-> IF p \in Admits(verdict, to.verdict, how.catching)
                                    THEN Scored(r[p]) ELSE h[p]]
  BY DEF Goes
<1>3. \A w \in Walks : v[w] # "none" => to.verdict[w] = v[w]
  <2> DEFINE n == how.size
             b == block
  <2>1. to \in After(v, r, turn, b, n) /\ n \in Nat /\ b \in Nat  BY <1>1, <1>2
  <2> HIDE DEF n, b
  <2>2. /\ to.verdict \in [Walks -> Verdicts]
        /\ \A w \in Walks : v[w] # "none" => to.verdict[w] = v[w]
        /\ to.turn \in Walks \cup {Over}
        /\ to.turn \in Walks => to.verdict[to.turn] = "none"
        /\ to.block \in Nat
    BY <2>1, AfterIs
  <2> QED BY <2>2
<1>4. \A w \in Walks : verdict[w] = "complete" => to.verdict[w] = "complete"  BY <1>3
<1>5. \A p \in Admits(verdict, to.verdict, how.catching) :
        p \in Walks /\ verdict[p] = "none" /\ to.verdict[p] = "complete"
  BY DEF Admits, Undecided
<1>6. PriorsAre(verdict', pool')  BY <1>2, <1>4, <1>5 DEF AskedInv, PriorsAre
<1>7. \A p \in Priors : has'[p] = h[p] \/ (p \in Walks /\ verdict[p] = "none")
  BY <1>2, <1>5
<1> QED BY <1>6, <1>7 DEF Joined

LEMMA JudgedAsks ==
    ASSUME PhaseInv, AskedInv, turn \in Walks, NEW r, NEW c, NEW h, Judged(r, c, h)
    PROVE  Joined(h)
<1> DEFINE v == Judgement(r[turn], how.size)
           u == [verdict EXCEPT ![turn] = v]
<1>1. v \in Verdicts  BY DEF Judgement, Verdicts
<1>2. verdict \in [Walks -> Verdicts] /\ verdict[turn] = "none"
  BY DEF PhaseInv, Types, TurnOK
<1>3. u \in [Walks -> Verdicts] /\ \A w \in Walks : verdict[w] # "none" => u[w] = verdict[w]
  BY <1>1, <1>2
<1>4. CASE Goes(u, r, c, h)
  <2> HIDE DEF u, v
  <2> QED BY <1>3, <1>4, GoesAsks
<1>5. CASE has' = h /\ UNCHANGED <<verdict, pool>>
  BY <1>5 DEF Joined, AskedInv
<1> QED BY <1>4, <1>5 DEF Judged

(* Where priors are only read on what they are no longer caught up on.     *)
LEMMA JoinedAsks ==
    ASSUME PhaseInv, AskedInv, NEW h, Joined(h),
           \A p \in Priors, i \in Cells :
               catch'[p][i] # "no" => catch[p][i] # "no" /\ i \notin h[p]
    PROVE  AskedInv'
<1> SUFFICES ASSUME NEW p \in Priors, NEW i \in Cells, catch'[p][i] # "no"
             PROVE  i \notin has'[p]
  BY DEF Joined, AskedInv, Unread
<1>1. catch[p][i] # "no" /\ i \notin h[p]  OBVIOUS
<1>2. p \in pool  BY <1>1 DEF PhaseInv, SettlingOK
<1>3. ~(p \in Walks /\ verdict[p] = "none")
  BY <1>2 DEF AskedInv, PriorsAre, Parent, Walks
<1> QED BY <1>1, <1>3 DEF Joined

LEMMA SettleAsks == PhaseInv /\ AskedInv /\ Settle => AskedInv'
<1> SUFFICES ASSUME PhaseInv, AskedInv, Settle PROVE AskedInv'  OBVIOUS
<1>1. turn \in Walks /\ settling  BY DEF Settle, Awake, Settled
<1> DEFINE i == Settles
           ok == {p \in Started(i) : \A q \in FailedCatch : p < q}
           mute == {p \in ok : catch[p][i] = "error"}
           done == {p \in Started(i) : \A q \in FailedCatch : p <= q}
           read == [p \in Priors |-> IF p \in ok \ mute THEN has[p] \cup {i} ELSE has[p]]
<1>2. i \in Cells  BY <1>1, SettlesIs
<1>3. /\ catch' = [p \in Priors |->
                      IF p \in done THEN [catch[p] EXCEPT ![i] = "no"] ELSE catch[p]]
      /\ Judged(rows, cell, read) \/ (has' = read /\ UNCHANGED <<verdict, pool>>)
  BY DEF Settle
<1>4. \A p \in ok : p \in done
  <2>1. \A p, q \in Priors : p < q => p <= q  BY RulesAssumption DEF Priors, Walks, Parent
  <2>2. FailedCatch \subseteq Priors /\ Started(i) \subseteq Priors  BY DEF FailedCatch, Started
  <2> QED BY <2>1, <2>2
<1>5. Joined(read)
  <2> HIDE DEF read
  <2>1. CASE Judged(rows, cell, read)  BY <1>1, <2>1, JudgedAsks
  <2>2. CASE has' = read /\ UNCHANGED <<verdict, pool>>  BY <2>2 DEF Joined, AskedInv
  <2> QED BY <1>3, <2>1, <2>2
<1>6. ASSUME NEW p \in Priors, NEW j \in Cells, catch'[p][j] # "no"
      PROVE  catch[p][j] # "no" /\ j \notin read[p]
  <2>1. catch[p] \in [Cells -> CatchStates]  BY DEF PhaseInv, Types
  <2> HIDE DEF i, ok, mute, done
  <2>2. catch[p][j] # "no" /\ (p \in done => j # i)  BY <1>2, <1>3, <1>6, <2>1
  <2>3. j \notin has[p]  BY <2>2 DEF AskedInv, Unread
  <2> QED BY <1>4, <2>2, <2>3
<1> HIDE DEF read
<1> QED BY <1>5, <1>6, JoinedAsks

LEMMA TakeHeadAsks == PhaseInv /\ AskedInv /\ (TakeHead \/ HonourSkip) => AskedInv'
<1> SUFFICES ASSUME PhaseInv, AskedInv, TakeHead \/ HonourSkip PROVE AskedInv'  OBVIOUS
<1>1. turn \in Walks /\ catch' = catch  BY DEF TakeHead, HonourSkip, Awake
<1>2. verdict \in [Walks -> Verdicts] /\ verdict[turn] = "none"
  BY <1>1 DEF PhaseInv, Types, TurnOK
<1>3. Joined(has)
  <2>1. CASE UNCHANGED <<verdict, pool, has>>  BY <2>1 DEF Joined, AskedInv
  <2>2. ASSUME NEW r, NEW c, Judged(r, c, has) PROVE Joined(has)  BY <1>1, <2>2, JudgedAsks
  <2>3. ASSUME NEW r, NEW c, NEW x \in {"skip", "abort"},
               Goes([verdict EXCEPT ![turn] = x], r, c, has)
        PROVE  Joined(has)
    <3> DEFINE u == [verdict EXCEPT ![turn] = x]
    <3>1. u \in [Walks -> Verdicts] /\ \A w \in Walks : verdict[w] # "none" => u[w] = verdict[w]
      BY <1>2 DEF Verdicts
    <3> HIDE DEF u
    <3>2. Goes(u, r, c, has)  BY <2>3 DEF u
    <3> QED BY <1>1, <3>1, <3>2, GoesAsks
  <2>4. CASE TakeHead
    <3>1. \/ UNCHANGED <<verdict, pool, has>>
          \/ \E r, c : Judged(r, c, has)
          \/ \E r, c : Goes([verdict EXCEPT ![turn] = "abort"], r, c, has)
      BY <2>4 DEF TakeHead
    <3> QED BY <2>1, <2>2, <2>3, <3>1
  <2>5. CASE HonourSkip  BY <2>3, <2>5 DEF HonourSkip
  <2> QED BY <2>4, <2>5
<1> QED BY <1>1, <1>3, JoinedAsks DEF AskedInv, Unread

LEMMA LaunchAsks == PhaseInv /\ AskedInv /\ (StartOwed \/ LaunchCell) => AskedInv'
<1> SUFFICES ASSUME PhaseInv, AskedInv, StartOwed \/ LaunchCell PROVE AskedInv'  OBVIOUS
<1>1. UNCHANGED <<verdict, pool, has>>  BY DEF StartOwed, LaunchCell, turnVars
<1>2. \A p \in Priors, j \in Cells : catch'[p][j] # "no" => j \notin has[p]
  <2>1. CASE StartOwed
    <3>1. PICK p \in pool, i \in Cells :
            p \in Priors /\ i \notin has[p] /\ catch' = [catch EXCEPT ![p][i] = "out"]
      BY <2>1, StartOwedIs
    <3>2. catch \in [Priors -> [Cells -> CatchStates]]  BY DEF PhaseInv, Types
    <3> QED BY <3>1, <3>2 DEF AskedInv, Unread
  <2>2. CASE LaunchCell
    <3> DEFINE i == Submitted(filler) + 1
               k == Min({room - 1, IF how.bound THEN Affordable - 1 ELSE Unlimited})
               started == Least(Owed(i), k)
    <3>1. /\ \A p \in started : i \notin has[p]
          /\ \A p \in Priors, j \in Cells : catch'[p][j] =
               IF p \in started /\ j = i THEN "out" ELSE catch[p][j]
      BY <2>2, LaunchCellIs
    <3> HIDE DEF i, k, started
    <3> QED BY <3>1 DEF AskedInv, Unread
  <2> QED BY <2>1, <2>2
<1> QED BY <1>1, <1>2 DEF AskedInv, Unread

LEMMA OthersAsk ==
    PhaseInv /\ AskedInv /\ (SomeReturns \/ Presses \/ Wait \/ Wake \/ Ends \/ HonourStop
                             \/ TakeFails \/ BeginLaunch \/ BeginFilling \/ FillNext)
        => AskedInv'
<1> SUFFICES ASSUME PhaseInv, AskedInv,
                    SomeReturns \/ Presses \/ Wait \/ Wake \/ Ends \/ HonourStop \/ TakeFails
                    \/ BeginLaunch \/ BeginFilling \/ FillNext
             PROVE  AskedInv'
  OBVIOUS
<1>1. CASE SomeReturns
  <2>1. UNCHANGED <<verdict, pool, has>>
    BY <1>1 DEF SomeReturns, Returns, CatchUpReturns, CallReturns, turnVars
  <2>2. \A p \in Priors, j \in Cells : catch'[p][j] # "no" => catch[p][j] # "no"
    <3>1. catch \in [Priors -> [Cells -> CatchStates]]  BY DEF PhaseInv, Types
    <3>2. CASE \E w \in Walks, i \in Cells : Returns(w, i)  BY <3>2 DEF Returns
    <3>3. CASE \E p \in Priors, i \in Cells : CatchUpReturns(p, i)
      <4>1. PICK p \in Priors, i \in Cells : CatchUpReturns(p, i)  BY <3>3
      <4>2. PICK o : catch' = [catch EXCEPT ![p][i] = o]  BY <4>1 DEF CatchUpReturns
      <4>3. catch[p][i] = "out"  BY <4>1 DEF CatchUpReturns, Catching
      <4> QED BY <3>1, <4>2, <4>3
    <3> QED BY <1>1, <3>2, <3>3 DEF SomeReturns
  <2> QED BY <2>1, <2>2 DEF AskedInv, Unread
<1>2. CASE Presses \/ Wait \/ Wake \/ Ends \/ HonourStop \/ TakeFails \/ BeginLaunch \/ BeginFilling
           \/ FillNext
  <2>1. UNCHANGED <<verdict, pool, has, catch>>
    BY <1>2 DEF Presses, Wait, Wake, Ends, Finish, Land, Bank, HonourStop, TakeFails, BeginLaunch,
                BeginFilling, FillNext, turnVars, callVars
  <2> QED BY <2>1 DEF AskedInv
<1> QED BY <1>1, <1>2

LEMMA AskedStep == PhaseInv /\ AskedInv /\ [Next]_vars => AskedInv'
<1> SUFFICES ASSUME PhaseInv, AskedInv, [Next]_vars PROVE AskedInv'  OBVIOUS
<1>1. CASE UNCHANGED vars  BY <1>1 DEF vars, turnVars, callVars, AskedInv
<1>2. CASE Next
  BY <1>2, SettleAsks, TakeHeadAsks, LaunchAsks, OthersAsk DEF Next, Phase, Takes, Launches
<1> QED BY <1>1, <1>2

LEMMA InitAsks == Init => AskedInv
BY DEF Init, AskedInv, PriorsAre, Unread, Parent

-----------------------------------------------------------------------------
(* The phase takes rows as a serial phase would.                           *)

(* SerialPhase reads the rules of WalkRules as ScoringPhase does.          *)
LEMMA SameNumbers ==
    /\ Serial!Walks = Walks /\ Serial!Over = Over /\ Serial!Says = Says
    /\ Serial!Priors = Priors /\ Serial!Parent = Parent
    /\ \A S : Serial!Cardinality(S) = Cardinality(S) /\ Serial!Min(S) = Min(S)
<1>1. \A S : Serial!Cardinality(S) = Cardinality(S)
  BY DEF Serial!Cardinality, Cardinality
<1>2. \A S : Serial!Min(S) = Min(S)
  BY DEF Serial!Min, Min
<1> QED BY <1>1, <1>2 DEF Serial!Walks, Walks, Serial!Over, Over, Serial!Says, Says, Serial!Priors,
                         Priors, Serial!Parent, Parent

LEMMA SameVerdicts ==
    /\ \A i, o : Serial!Row(i, o) = Row(i, o)
    /\ \A r : Serial!Scored(r) = Scored(r)
    /\ \A r, x : Serial!Aborts(r, x) <=> Aborts(r, x)
    /\ \A r, size : Serial!Judgement(r, size) = Judgement(r, size)
    /\ \A size, b : Serial!Boundary(size, b) = Boundary(size, b)
<1>1. \A i, o : Serial!Row(i, o) = Row(i, o)  BY DEF Serial!Row, Row
<1>2. \A r : Serial!Scored(r) = Scored(r)
  BY DEF Serial!Scored, Scored, Serial!Errored, Errored
<1>3. \A r, x : Serial!Aborts(r, x) <=> Aborts(r, x)
  BY DEF Serial!Aborts, Aborts, Serial!Errored, Errored
<1>4. ASSUME NEW r, NEW size PROVE Serial!Judgement(r, size) = Judgement(r, size)
  <2>1. \A d, m : Serial!TooDegraded(d, m) <=> TooDegraded(d, m)
    BY DEF Serial!TooDegraded, TooDegraded
  <2>2. Serial!Degraded(r) = Degraded(r)  BY SameNumbers
    DEF Serial!Degraded, Degraded, Serial!Deprecated, Deprecated, Serial!Fatal, Fatal
  <2>3. Serial!RuleStops(r) <=> RuleStops(r)
    BY <2>1, <2>2 DEF Serial!RuleStops, RuleStops, Serial!Fatal, Fatal
  <2> QED BY <2>3 DEF Serial!Judgement, Judgement
<1>5. \A size, b : Serial!Boundary(size, b) = Boundary(size, b)
  BY SameNumbers DEF Serial!Boundary, Boundary
<1> QED BY <1>1, <1>2, <1>3, <1>4, <1>5

LEMMA SameTurns ==
    /\ \A v, r, t, b, size : Serial!After(v, r, t, b, size) = After(v, r, t, b, size)
    /\ \A v, u, catching : Serial!Admits(v, u, catching) = Admits(v, u, catching)
<1>1. ASSUME NEW v PROVE Serial!Undecided(v) = Undecided(v)
  BY SameNumbers DEF Serial!Undecided, Undecided
<1>2. ASSUME NEW v, NEW r, NEW s PROVE Serial!Closed(v, r, s) = Closed(v, r, s)
  BY <1>1, SameNumbers DEF Serial!Closed, Closed
<1>3. ASSUME NEW v, NEW r, NEW t, NEW b, NEW size
      PROVE  Serial!After(v, r, t, b, size) = After(v, r, t, b, size)
  BY <1>1, <1>2, SameNumbers DEF Serial!After, After
<1>4. ASSUME NEW v, NEW u, NEW catching PROVE Serial!Admits(v, u, catching) = Admits(v, u, catching)
  BY <1>1 DEF Serial!Admits, Admits
<1> QED BY <1>3, <1>4

(* The rows the serial phase has taken: all of them, but for one that      *)
(* settles, which is its next.                                              *)
LEMMA AllAreJudgeable ==
    ASSUME PhaseInv, ~settling \/ stop # "none"
    PROVE  Judgeable = rows
BY DEF Judgeable, PhaseInv, RowsOK, RowsOf

LEMMA NextIsMeasured ==
    ASSUME PhaseInv, turn \in Walks, stop = "none", ~settling, NEW o
    PROVE  Serial!Measured(o) = [rows EXCEPT ![turn] = Append(@, Row(Taken(turn) + 1, o))]
<1>1. Judgeable = rows  BY AllAreJudgeable
<1> QED BY <1>1, SameVerdicts DEF Serial!Measured, Taken

LEMMA WithoutLast ==
    ASSUME NEW s \in Seq(ARow), Len(s) >= 1
    PROVE  /\ SubSeq(s, 1, Len(s) - 1) \in Seq(ARow)
           /\ Len(SubSeq(s, 1, Len(s) - 1)) = Len(s) - 1
           /\ Append(SubSeq(s, 1, Len(s) - 1), s[Len(s)]) = s
<1> DEFINE t == SubSeq(s, 1, Len(s) - 1)
           x == s[Len(s)]
<1>1. Len(s) \in Nat /\ Len(s) - 1 \in Nat /\ Len(s) \in 1..Len(s)  OBVIOUS
<1>2. x \in ARow  BY <1>1
<1>3. /\ t \in Seq(ARow) /\ Len(t) = Len(s) - 1
      /\ \A k \in 1..(Len(s) - 1) : t[k] = s[k]
  <2>1. \A k \in 1..(Len(s) - 1) : k \in 1..Len(s) /\ 1 + k - 1 = k  BY <1>1
  <2>2. Len(s) - 1 - 1 + 1 = Len(s) - 1  BY <1>1
  <2> HIDE DEF x
  <2> QED BY <1>1, <2>1, <2>2, SubSeqProperties
<1> HIDE DEF t, x
<1>4. /\ Append(t, x) \in Seq(ARow) /\ Len(Append(t, x)) = Len(s)
      /\ \A k \in 1..Len(s) : Append(t, x)[k] = IF k <= Len(s) - 1 THEN t[k] ELSE x
  BY <1>1, <1>2, <1>3
<1>5. ASSUME NEW k \in 1..Len(s) PROVE Append(t, x)[k] = s[k]
  <2>1. CASE k <= Len(s) - 1  BY <1>1, <1>3, <1>4, <2>1
  <2>2. CASE ~(k <= Len(s) - 1)
    <3>1. k = Len(s)  BY <1>1, <2>2
    <3> QED BY <1>4, <2>2, <3>1 DEF x
  <2> QED BY <2>1, <2>2
<1>6. Append(t, x) = s  BY <1>4, <1>5, SeqEqual
<1> QED BY <1>3, <1>6 DEF t, x

LEMMA SettlingIsNext ==
    ASSUME PhaseInv, settling, stop = "none"
    PROVE  /\ turn \in Walks
           /\ \E o \in Says : Serial!Measured(o) = rows
<1>1. turn \in Walks /\ Len(rows[turn]) >= 1  BY DEF PhaseInv, SettlingOK
<1>2. rows \in RowsOf /\ rows[turn] \in Seq(ARow)  BY <1>1 DEF PhaseInv, RowsOK, RowsOf
<1> DEFINE s == rows[turn]
           t == SubSeq(s, 1, Len(s) - 1)
           last == s[Len(s)]
           o == last.is
<1>3. t \in Seq(ARow) /\ Len(t) = Len(s) - 1 /\ Append(t, last) = s  BY <1>1, <1>2, WithoutLast
<1>4. Len(s) \in 1..Len(s)  BY <1>1, <1>2
<1>5. last \in ARow  BY <1>2, <1>4
<1>6. last = Row(Len(s), o) /\ o \in Says
  <2>1. last.at = Len(s)  BY <1>1, <1>4 DEF PhaseInv, RowsOK, InOrder
  <2> HIDE DEF last
  <2> QED BY <1>5, <2>1 DEF ARow, Row
<1>7. Len(t) + 1 = Len(s)  BY <1>1, <1>2, <1>3
<1>8. Judgeable = [w \in Walks |-> IF w = turn THEN t ELSE rows[w]]
  BY DEF Judgeable, Taken
<1> HIDE DEF t, s, last, o
<1>9. Serial!Measured(o) = [w \in Walks |-> IF w = turn THEN Append(t, Row(Len(t) + 1, o)) ELSE rows[w]]
  BY <1>1, <1>8, SameVerdicts DEF Serial!Measured
<1>10. Append(t, Row(Len(t) + 1, o)) = rows[turn]  BY <1>3, <1>6, <1>7 DEF s
<1>11. Serial!Measured(o) = rows
  BY <1>2, <1>9, <1>10 DEF RowsOf
<1> QED BY <1>1, <1>6, <1>11

(* A step that changes nothing the serial phase sees.                       *)
LEMMA Stutters ==
    ASSUME UNCHANGED <<how, rows, verdict, turn, block, settling, pool, has, unread, stop>>
    PROVE  UNCHANGED Serial!vars
BY DEF Serial!vars, Judgeable, Taken

(* A stop is the serial phase's, whatever was read of the priors.          *)
LEMMA Halts ==
    ASSUME PhaseInv, turn \in Walks, stop = "none", stop' # "none",
           UNCHANGED <<how, verdict, block, pool, unread>>,
           Judgeable' = Judgeable \/ \E o \in Says : Judgeable' = Serial!Measured(o),
           has' = has \/ \E ps \in SUBSET pool : has' = Serial!Read(ps, Len(Judgeable'[turn]))
    PROVE  Serial!Halt
<1>1. {} \in SUBSET pool  OBVIOUS
<1>2. \E ps \in SUBSET pool : has' = has \/ has' = Serial!Read(ps, Len(Judgeable'[turn]))
  BY <1>1
<1>3. Serial!AtMostOneMore  BY SameNumbers DEF Serial!AtMostOneMore
<1>4. (IF stop = "none" THEN turn ELSE Over) = turn
      /\ (IF stop = "none" THEN turn ELSE Over)' = Over
  BY DEF Over
<1> QED BY <1>2, <1>3, <1>4, SameNumbers DEF Serial!Halt

(* So is a stop that finds every row judged, or one that settles.          *)
LEMMA HaltsAsItStands ==
    ASSUME PhaseInv, turn \in Walks, stop = "none", stop' # "none",
           UNCHANGED <<how, rows, verdict, turn, block, pool, has, unread, settling>>
    PROVE  Serial!Halt
<1>1. Judgeable' = rows
  BY DEF Judgeable, PhaseInv, RowsOK, RowsOf
<1>2. CASE ~settling  BY <1>1, <1>2, AllAreJudgeable, Halts
<1>3. CASE settling
  <2>1. \E o \in Says : Judgeable' = Serial!Measured(o)  BY <1>1, <1>3, SettlingIsNext
  <2> QED BY <2>1, Halts
<1> QED BY <1>2, <1>3 DEF PhaseInv, Types

(* The turn goes on as the serial phase's does.                             *)
LEMMA GoesSerially ==
    ASSUME stop = "none", stop' = "none", NEW v, NEW r, NEW c, NEW h, Goes(v, r, c, h)
    PROVE  Serial!Goes(v, r, h)
<1>1. PICK to \in After(v, r, turn, block, how.size) :
        /\ verdict' = to.verdict /\ turn' = to.turn /\ block' = to.block
        /\ pool' = pool \cup Admits(verdict, to.verdict, how.catching)
        /\ has' = [p \in Priors |-> IF p \in Admits(verdict, to.verdict, how.catching)
                                    THEN Scored(r[p]) ELSE h[p]]
  BY DEF Goes
<1>2. (IF stop = "none" THEN turn ELSE Over) = turn
      /\ (IF stop = "none" THEN turn ELSE Over)' = turn'
  OBVIOUS
<1>3. to \in Serial!After(v, r, turn, block, how.size)  BY SameTurns
<1> QED BY <1>1, <1>2, <1>3, SameTurns, SameNumbers, SameVerdicts DEF Serial!Goes

(* A row that is judged is one the serial phase takes.                      *)
LEMMA JudgedSerially ==
    ASSUME PhaseInv, turn \in Walks, stop = "none", stop' = "none", how' = how,
           NEW o \in Says, Judgeable' = Serial!Measured(o),
           NEW r, r = Serial!Measured(o), ~Aborts(r[turn], how.rereads[turn]),
           NEW mute, mute \subseteq {p \in pool : Len(r[turn]) \notin has[p]},
           unread' = unread \cup {<<turn, p, Len(r[turn])>> : p \in mute}, NEW c,
           Judged(r, c, Serial!Read({p \in pool : Len(r[turn]) \notin has[p]} \ mute, Len(r[turn])))
    PROVE  Serial!Take(o)
<1> DEFINE v == Judgement(r[turn], how.size)
           closes == how.size > 0 /\ Len(r[turn]) = Boundary(how.size, block)
           asked == {p \in pool : Len(r[turn]) \notin has[p]}
           read == Serial!Read(asked \ mute, Len(r[turn]))
           T == IF stop = "none" THEN turn ELSE Over
<1>1. T = turn /\ T' = turn'  OBVIOUS
<1>2. Bounded <=> how.size > 0  BY DEF Bounded
<1>3. \/ /\ v # "none" \/ closes
         /\ Goes([verdict EXCEPT ![turn] = v], r, c, read)
      \/ /\ v = "none" /\ ~closes
         /\ has' = read /\ UNCHANGED <<verdict, turn, block, pool>>
  BY <1>2 DEF Judged
<1>4. \/ /\ v # "none" \/ closes
         /\ Serial!Goes([verdict EXCEPT ![turn] = v], r, read)
      \/ /\ v = "none" /\ ~closes
         /\ has' = read /\ UNCHANGED <<verdict, turn, block, pool>>
  BY <1>3, GoesSerially
<1> HIDE DEF read
<1>5. \/ /\ \/ Serial!Judgement(r[T], how.size) # "none"
            \/ how.size > 0 /\ Len(r[T]) = Serial!Boundary(how.size, block)
         /\ Serial!Goes([verdict EXCEPT ![T] = Serial!Judgement(r[T], how.size)], r, read)
      \/ /\ Serial!Judgement(r[T], how.size) = "none"
         /\ ~(how.size > 0 /\ Len(r[T]) = Serial!Boundary(how.size, block))
         /\ has' = read /\ verdict' = verdict /\ T' = T /\ block' = block /\ pool' = pool
  <2>1. v = Serial!Judgement(r[T], how.size) /\ T' = turn'
        /\ (closes <=> how.size > 0 /\ Len(r[T]) = Serial!Boundary(how.size, block))
    BY <1>1, SameVerdicts
  <2> HIDE DEF v, closes, T
  <2> QED BY <1>1, <1>4, <2>1
<1>6. ~Serial!Aborts(r[T], how.rereads[T])  BY <1>1, SameVerdicts
<1>7. T \in Serial!Walks  BY <1>1, SameNumbers
<1> DEFINE lacking == {p \in pool : Len(r[T]) \notin has[p]}
<1>8. /\ mute \in SUBSET lacking /\ read = Serial!Read(lacking \ mute, Len(r[T]))
      /\ unread' = unread \cup {<<T, p, Len(r[T])>> : p \in mute}
  BY <1>1 DEF read
<1> HIDE DEF T, asked
<1> QED BY <1>5, <1>6, <1>7, <1>8 DEF Serial!Take, T

LEMMA SerialInit == Init => Serial!Init
<1> SUFFICES ASSUME Init PROVE Serial!Init  OBVIOUS
<1>1. (IF stop = "none" THEN turn ELSE Over) = 1  BY DEF Init
<1>2. Judgeable = [w \in Walks |-> <<>>]  BY DEF Init, Judgeable
<1> QED BY <1>1, <1>2, SameNumbers DEF Init, Serial!Init

LEMMA SkipsSerially == PhaseInv /\ HonourSkip => Serial!Skip
<1> SUFFICES ASSUME PhaseInv, HonourSkip PROVE Serial!Skip  OBVIOUS
<1>1. /\ turn \in Walks /\ stop = "none" /\ stop' = "none" /\ how' = how
      /\ rows' = rows /\ settling' = FALSE /\ unread' = unread
  BY DEF HonourSkip, Awake, PhaseInv, TurnOK, endVars
<1>2. Judgeable' = rows
  BY <1>1 DEF Judgeable, PhaseInv, RowsOK, RowsOf
<1>3. Judgeable' = Judgeable \/ \E o \in Says : Judgeable' = Serial!Measured(o)
  <2>1. CASE ~settling  BY <1>2, <2>1, AllAreJudgeable
  <2>2. CASE settling  BY <1>1, <1>2, <2>2, SettlingIsNext
  <2> QED BY <2>1, <2>2
<1>4. Goes([verdict EXCEPT ![turn] = "skip"], rows, cell, has)  BY DEF HonourSkip
<1>5. Serial!Goes([verdict EXCEPT ![turn] = "skip"], rows, has)  BY <1>1, <1>4, GoesSerially
<1>6. Serial!AtMostOneMore  BY <1>3, SameNumbers DEF Serial!AtMostOneMore
<1>7. (IF stop = "none" THEN turn ELSE Over) = turn  BY <1>1
<1> QED BY <1>1, <1>2, <1>5, <1>6, <1>7, SameNumbers DEF Serial!Skip

LEMMA StopsSerially == PhaseInv /\ (HonourStop \/ TakeFails) => Serial!Halt
<1> SUFFICES ASSUME PhaseInv, HonourStop \/ TakeFails PROVE Serial!Halt  OBVIOUS
<1>1. /\ turn \in Walks /\ stop = "none" /\ stop' # "none"
      /\ UNCHANGED <<how, rows, verdict, turn, block, pool, has, unread, settling>>
  BY DEF HonourStop, TakeFails, Awake, Stops, PhaseInv, TurnOK, turnVars
<1> QED BY <1>1, HaltsAsItStands

(* The priors asked for a settled row are those it was not read on.        *)
LEMMA SettledIsAsked ==
    ASSUME PhaseInv, AskedInv, settling, Owed(Settles) = {}
    PROVE  Started(Settles) = {p \in pool : Len(rows[turn]) \notin has[p]}
<1>1. Settles = Len(rows[turn]) /\ Settles \in Cells  BY SettlesIs
<1>2. ASSUME NEW p \in Started(Settles) PROVE p \in pool /\ Settles \notin has[p]
  <2>1. p \in Priors /\ catch[p][Settles] # "no"  BY DEF Started
  <2> QED BY <1>1, <2>1 DEF PhaseInv, SettlingOK, AskedInv, Unread
<1>3. ASSUME NEW p \in pool, Settles \notin has[p] PROVE p \in Started(Settles)
  BY <1>3 DEF Owed, Started, PhaseInv, Types
<1> QED BY <1>1, <1>2, <1>3

LEMMA SettlesSerially == PhaseInv /\ AskedInv /\ Settle => Serial!Next
<1> SUFFICES ASSUME PhaseInv, AskedInv, Settle PROVE Serial!Next  OBVIOUS
<1>1. turn \in Walks /\ settling /\ Owed(Settles) = {} /\ stop = "none"
  BY DEF Settle, Awake, Settled, PhaseInv, TurnOK
<1> DEFINE ok == {p \in Started(Settles) : \A q \in FailedCatch : p < q}
           mute == {p \in ok : catch[p][Settles] = "error"}
           read == [p \in Priors |-> IF p \in ok \ mute THEN has[p] \cup {Settles} ELSE has[p]]
<1>2. /\ settling' = FALSE /\ how' = how /\ rows' = rows
      /\ \/ /\ FailedCatch = {}
            /\ unread' = unread \cup {<<turn, p, Settles>> : p \in mute}
            /\ Judged(rows, cell, read) /\ UNCHANGED <<stage, stop>>
         \/ /\ FailedCatch # {}
            /\ has' = read /\ (Stops("failure") \/ Stops("budget"))
            /\ UNCHANGED <<verdict, turn, block, cell, pool, unread>>
  BY DEF Settle
<1>3. PICK o \in Says : Serial!Measured(o) = rows  BY <1>1, SettlingIsNext
<1>4. Judgeable' = rows
  BY <1>2 DEF Judgeable, PhaseInv, RowsOK, RowsOf
<1>5. ok \subseteq Started(Settles) /\ mute \subseteq ok /\ ok \subseteq Priors  BY DEF Started
<1>8. Settles = Len(rows[turn]) /\ Settles \in Cells  BY <1>1, SettlesIs
<1>6. CASE FailedCatch = {}
  <2> DEFINE asked == {p \in pool : Len(rows[turn]) \notin has[p]}
  <2>1. ok = asked  BY <1>1, <1>6, SettledIsAsked
  <2> HIDE DEF ok, asked, mute
  <2>2. read = Serial!Read(asked \ mute, Len(rows[turn]))
    BY <1>8, <2>1, SameNumbers DEF Serial!Read
  <2> HIDE DEF read
  <2>3. /\ Judged(rows, cell, Serial!Read(asked \ mute, Len(rows[turn]))) /\ stop' = "none"
        /\ unread' = unread \cup {<<turn, p, Len(rows[turn])>> : p \in mute}
        /\ mute \subseteq asked
    BY <1>1, <1>2, <1>5, <1>6, <1>8, <2>1, <2>2
  <2>4. ~Aborts(rows[turn], how.rereads[turn])  BY <1>1 DEF PhaseInv, SettlingOK
  <2>5. Serial!Take(o)
    BY <1>1, <1>2, <1>3, <1>4, <2>3, <2>4, JudgedSerially DEF asked
  <2> QED BY <2>5, SameNumbers DEF Serial!Next
<1>7. CASE FailedCatch # {}
  <2>1. stop' # "none" /\ UNCHANGED <<verdict, turn, block, pool, unread>> /\ has' = read
    BY <1>2, <1>7 DEF Stops
  <2>3. ok \ mute \in SUBSET pool
    <3>1. \A p \in Started(Settles) : p \in pool
      BY <1>8 DEF Started, PhaseInv, SettlingOK
    <3> QED BY <1>5, <3>1
  <2> HIDE DEF ok, mute
  <2>4. read = Serial!Read(ok \ mute, Len(Judgeable'[turn]))
    BY <1>4, <1>8, SameNumbers DEF Serial!Read
  <2> HIDE DEF read
  <2>5. Serial!Halt  BY <1>1, <1>2, <1>3, <1>4, <2>1, <2>3, <2>4, Halts
  <2> QED BY <2>5 DEF Serial!Next
<1> QED BY <1>6, <1>7

(* With nothing owed or started, every prior was read on the cell.         *)
LEMMA NothingIsAsked ==
    ASSUME PhaseInv, NEW i \in Cells, how.catching => Owed(i) \cup Started(i) = {}
    PROVE  {p \in pool : i \notin has[p]} = {} /\ Serial!Read({}, i) = has
<1>1. ASSUME NEW p \in pool, i \notin has[p] PROVE FALSE
  <2>1. how.catching /\ how.catching \in BOOLEAN /\ p \in Priors
    BY Setup DEF PhaseInv, SettlingOK, Types
  <2>2. p \notin Started(i) /\ p \notin Owed(i)  BY <2>1
  <2> QED BY <1>1, <2>1, <2>2 DEF Started, Owed
<1>2. Serial!Read({}, i) = [p \in Priors |-> has[p]]
  BY SameNumbers DEF Serial!Read
<1> QED BY <1>1, <1>2 DEF PhaseInv, Types

LEMMA AbortsSerially ==
    ASSUME PhaseInv, turn \in Walks, stop = "none", stop' = "none", how' = how,
           NEW o \in Says, NEW r, r = Serial!Measured(o), Judgeable' = r,
           Aborts(r[turn], how.rereads[turn]), unread' = unread,
           NEW c, Goes([verdict EXCEPT ![turn] = "abort"], r, c, has)
    PROVE  Serial!Take(o)
<1>1. Serial!Goes([verdict EXCEPT ![turn] = "abort"], r, has)  BY GoesSerially
<1> DEFINE T == IF stop = "none" THEN turn ELSE Over
<1>2. T = turn  OBVIOUS
<1> HIDE DEF T
<1>3. /\ Serial!Goes([verdict EXCEPT ![T] = "abort"], r, has) /\ T \in Serial!Walks
      /\ Serial!Aborts(r[T], how.rereads[T])
  BY <1>1, <1>2, SameVerdicts, SameNumbers
<1> QED BY <1>3 DEF Serial!Take, T

(* A row that is to settle is not taken yet.                                *)
LEMMA SettlingStutters ==
    ASSUME PhaseInv, turn \in Walks, stop = "none", ~settling, settling',
           NEW o \in Says, HeadIs(o),
           rows' = [rows EXCEPT ![turn] = Append(@, Row(Taken(turn) + 1, o))],
           UNCHANGED <<how, verdict, turn, block, pool, has, unread, stop>>
    PROVE  UNCHANGED Serial!vars
<1>1. rows \in RowsOf /\ rows[turn] \in Seq(ARow)  BY DEF PhaseInv, RowsOK, RowsOf
<1> DEFINE s == rows[turn]
           x == Row(Len(s) + 1, o)
           t == Append(s, x)
<1>2. x \in ARow
  <2>1. Len(s) + 1 \in Cells  BY <1>1, RulesAssumption DEF HeadIs, Taken, Cells
  <2> QED BY <2>1 DEF Row, ARow
<1>3. t \in Seq(ARow) /\ Len(t) = Len(s) + 1 /\ \A k \in 1..Len(s) : t[k] = s[k]
  BY <1>1, <1>2
<1>4. SubSeq(t, 1, Len(t) - 1) = s
  <2>1. Len(s) \in Nat /\ Len(t) - 1 = Len(s)  BY <1>1, <1>3
  <2> HIDE DEF t, s, x
  <2>2. \A k \in 1..Len(s) : t[k] \in ARow /\ 1 + k - 1 = k
    <3>1. \A k \in 1..Len(s) : s[k] \in ARow  BY <1>1 DEF s
    <3> QED BY <1>3, <2>1, <3>1
  <2>3. Len(s) - 1 + 1 = Len(s)  BY <2>1
  <2>4. /\ SubSeq(t, 1, Len(s)) \in Seq(ARow)
        /\ Len(SubSeq(t, 1, Len(s))) = IF 1 <= Len(s) THEN Len(s) - 1 + 1 ELSE 0
        /\ \A k \in 1..(Len(s) - 1 + 1) : SubSeq(t, 1, Len(s))[k] = t[1 + k - 1]
    BY <2>1, <2>2, SubSeqProperties
  <2>5. Len(SubSeq(t, 1, Len(s))) = Len(s)  BY <2>1, <2>4
  <2>6. \A k \in 1..Len(s) : SubSeq(t, 1, Len(s))[k] = s[k]  BY <1>3, <2>2, <2>3, <2>4
  <2>7. s \in Seq(ARow)  BY <1>1 DEF s
  <2>8. SubSeq(t, 1, Len(s)) = s  BY <2>4, <2>5, <2>6, <2>7, SeqEqual
  <2> QED BY <2>1, <2>8
<1>5. rows' = [w \in Walks |-> IF w = turn THEN t ELSE rows[w]]
  BY <1>1 DEF RowsOf, Taken
<1> HIDE DEF t, s
<1>6. Judgeable' = [w \in Walks |-> IF w = turn THEN SubSeq(rows'[turn], 1, Len(rows'[turn]) - 1)
                                   ELSE rows'[w]]
  BY DEF Judgeable, Taken
<1>7. rows'[turn] = t  BY <1>5
<1>8. Judgeable' = rows  BY <1>1, <1>4, <1>5, <1>6, <1>7 DEF RowsOf, s
<1>9. Judgeable = rows  BY AllAreJudgeable
<1> QED BY <1>8, <1>9 DEF Serial!vars

LEMMA TakesSerially == PhaseInv /\ TakeHead => Serial!Next \/ UNCHANGED Serial!vars
<1> SUFFICES ASSUME PhaseInv, TakeHead PROVE Serial!Next \/ UNCHANGED Serial!vars  OBVIOUS
<1>1. turn \in Walks /\ ~settling /\ stop = "none" /\ how' = how /\ unread' = unread
  BY DEF TakeHead, Awake, PhaseInv, TurnOK
<1> DEFINE i == Taken(turn) + 1
           r(o) == [rows EXCEPT ![turn] = Append(@, Row(i, o))]
           c == [cell EXCEPT ![turn][i] = "taken"]
           settles == how.catching /\ Owed(i) \cup Started(i) # {}
           aborts(o) == Aborts(r(o)[turn], how.rereads[turn])
           abort == [verdict EXCEPT ![turn] = "abort"]
<1>2. PICK o \in Says :
        /\ HeadIs(o)
        /\ rows' = r(o)
        /\ \/ /\ o = "refused"
              /\ Stops("failure") \/ (how.bound /\ Stops("budget"))
              /\ cell' = c
              /\ UNCHANGED <<verdict, turn, block, pool, has, settling>>
           \/ /\ o # "refused" /\ aborts(o)
              /\ Goes(abort, r(o), c, has)
              /\ UNCHANGED <<settling, stage, stop>>
           \/ /\ o # "refused" /\ ~aborts(o) /\ settles
              /\ settling' = TRUE /\ cell' = c
              /\ UNCHANGED <<verdict, turn, block, pool, has, stage, stop>>
           \/ /\ o # "refused" /\ ~aborts(o) /\ ~settles
              /\ Judged(r(o), c, has)
              /\ UNCHANGED <<settling, stage, stop>>
  BY DEF TakeHead
<1> DEFINE rr == r(o)
<1>3. rr = Serial!Measured(o)  BY <1>1, NextIsMeasured
<1>4. i \in Cells /\ rr \in RowsOf /\ Len(rr[turn]) = i  BY <1>1, <1>2, OneRowMore
<1>5. ~settling' => Judgeable' = rr
  BY <1>2, <1>4 DEF Judgeable, RowsOf
<1> HIDE DEF i, c, settles, abort
<1>6. CASE /\ Stops("failure") \/ (how.bound /\ Stops("budget"))
           /\ UNCHANGED <<verdict, turn, block, pool, has, settling>>
  <2>1. stop' # "none" /\ ~settling'  BY <1>1, <1>6 DEF Stops
  <2>2. Serial!Halt
    BY <1>1, <1>3, <1>5, <1>6, <2>1, Halts
  <2> QED BY <2>2 DEF Serial!Next
<1>7. CASE aborts(o) /\ Goes(abort, r(o), c, has) /\ UNCHANGED <<settling, stage, stop>>
  <2>1. ~settling' /\ stop' = "none" /\ Judgeable' = rr  BY <1>1, <1>5, <1>7
  <2>2. Aborts(rr[turn], how.rereads[turn])
        /\ Goes([verdict EXCEPT ![turn] = "abort"], rr, c, has)
    BY <1>7 DEF abort
  <2> HIDE DEF rr
  <2>3. Serial!Take(o)  BY <1>1, <1>3, <2>1, <2>2, AbortsSerially
  <2> QED BY <2>3, SameNumbers DEF Serial!Next
<1>8. CASE settling' = TRUE /\ UNCHANGED <<verdict, turn, block, pool, has, stage, stop>>
  BY <1>1, <1>2, <1>8, SettlingStutters DEF i
<1>9. CASE ~aborts(o) /\ ~settles /\ Judged(r(o), c, has) /\ UNCHANGED <<settling, stage, stop>>
  <2>1. ~settling' /\ stop' = "none" /\ Judgeable' = rr  BY <1>1, <1>5, <1>9
  <2>2. ~Aborts(rr[turn], how.rereads[turn]) /\ Judged(rr, c, has)  BY <1>9
  <2>3. how.catching => Owed(i) \cup Started(i) = {}  BY <1>9 DEF settles
  <2> HIDE DEF rr
  <2> DEFINE asked == {p \in pool : Len(rr[turn]) \notin has[p]}
             none == {}
  <2>4. asked = {} /\ Serial!Read({}, Len(rr[turn])) = has  BY <1>4, <2>3, NothingIsAsked
  <2>5. /\ none \subseteq asked /\ Judged(rr, c, Serial!Read(asked \ none, Len(rr[turn])))
        /\ unread' = unread \cup {<<turn, p, Len(rr[turn])>> : p \in none}
    BY <1>1, <2>2, <2>4
  <2> HIDE DEF none
  <2>6. Serial!Take(o)  BY <1>1, <1>3, <2>1, <2>2, <2>5, JudgedSerially DEF asked
  <2> QED BY <2>6, SameNumbers DEF Serial!Next
<1> QED BY <1>2, <1>6, <1>7, <1>8, <1>9

LEMMA OthersStutter ==
    Launches \/ Wake \/ Ends \/ SomeReturns \/ Presses => UNCHANGED Serial!vars
<1>1. BeginLaunch \/ StartOwed \/ BeginFilling \/ LaunchCell \/ FillNext \/ Wake
        => UNCHANGED <<how, rows, verdict, turn, block, settling, pool, has, unread, stop>>
  BY DEF BeginLaunch, StartOwed, BeginFilling, LaunchCell, FillNext, Wake, turnVars, endVars
<1>2. Finish \/ Land \/ Bank \/ Presses
        => UNCHANGED <<how, rows, verdict, turn, block, settling, pool, has, unread, stop>>
  BY DEF Finish, Land, Bank, Presses, turnVars, endVars
<1>3. SomeReturns => UNCHANGED <<how, rows, verdict, turn, block, settling, pool, has, unread, stop>>
  BY DEF SomeReturns, Returns, CatchUpReturns, CallReturns, turnVars, endVars
<1> QED BY <1>1, <1>2, <1>3, Stutters DEF Launches, Ends

LEMMA WaitsSerially == PhaseInv /\ Wait => Serial!Next \/ UNCHANGED Serial!vars
<1> SUFFICES ASSUME PhaseInv, Wait PROVE Serial!Next \/ UNCHANGED Serial!vars  OBVIOUS
<1>1. /\ turn \in Walks /\ stop = "none" /\ stop' \in {stop, "budget"}
      /\ UNCHANGED <<how, rows, verdict, turn, block, settling, pool, has, unread>>
  BY DEF Wait, Stops, PhaseInv, TurnOK, turnVars
<1>2. CASE stop' = stop  BY <1>1, <1>2, Stutters
<1>3. CASE stop' = "budget"
  <2>1. Serial!Halt  BY <1>1, <1>3, HaltsAsItStands
  <2> QED BY <2>1 DEF Serial!Next
<1> QED BY <1>1, <1>2, <1>3

LEMMA SerialStep == PhaseInv /\ AskedInv /\ [Next]_vars => [Serial!Next]_(Serial!vars)
<1> SUFFICES ASSUME PhaseInv, AskedInv, [Next]_vars PROVE Serial!Next \/ UNCHANGED Serial!vars  OBVIOUS
<1>1. CASE UNCHANGED vars
  <2>1. UNCHANGED <<how, rows, verdict, turn, block, settling, pool, has, unread, stop>>
    BY <1>1 DEF vars, turnVars, endVars
  <2> QED BY <2>1, Stutters
<1>2. CASE Takes
  BY <1>2, SkipsSerially, StopsSerially, SettlesSerially, TakesSerially DEF Takes, Serial!Next
<1>3. CASE Wait  BY <1>3, WaitsSerially
<1>4. CASE Launches \/ Wake \/ Ends \/ SomeReturns \/ Presses  BY <1>4, OthersStutter
<1> QED BY <1>1, <1>2, <1>3, <1>4 DEF Next, Phase

(* Whatever was measured ahead, and in whatever order the calls came back, *)
(* rows, verdicts, turns, blocks and what each prior had been read on when  *)
(* a row was judged are those of a phase that measures one cell after       *)
(* another, stopped at most between a row and what it decides.  A prior     *)
(* whose catch-up came back an error is not read, and is among the unread   *)
(* (query_loop.py run_walks, Walk.take, Walk.judge; race.py catch_up).      *)
THEOREM LandsSerially == Spec => LandsAsSerial
<1>1. Init => Serial!Init  BY SerialInit
<1>2. PhaseInv /\ AskedInv /\ [Next]_vars => [Serial!Next]_(Serial!vars)  BY SerialStep
<1>3. Init => AskedInv  BY InitAsks
<1>4. PhaseInv /\ AskedInv /\ [Next]_vars => AskedInv'  BY AskedStep
<1> QED BY <1>1, <1>2, <1>3, <1>4, PhaseInvariant, PTL DEF Spec, LandsAsSerial, Serial!Spec
-----------------------------------------------------------------------------
(* No call is out that the book could not pay.                             *)

(* While it launches, the calls the phase may still launch fit in what the *)
(* calls out leave of the book, or the cells ahead replay unpaid.          *)
Room ==
    /\ stage = "owing" => room <= left - Out
    /\ stage = "filling" =>
        room <= left - Out \/ room <= RereadsAhead(filler, Submitted(filler) + 1)

FitInv == how.bound => LaunchesFitTheBook /\ Room

(* The least k of a set are at most k.                                      *)
LEMMA LeastAreFew ==
    ASSUME NEW S, IsFiniteSet(S), \A p \in S : p \in Int, NEW k \in Int
    PROVE  /\ Least(S, k) \subseteq S /\ IsFiniteSet(Least(S, k))
           /\ Cardinality(Least(S, k)) \in Nat
           /\ Cardinality(Least(S, k)) <= k \/ Cardinality(Least(S, k)) = 0
<1> DEFINE L == Least(S, k)
           below(p) == {q \in S : q < p}
<1>1. L \subseteq S /\ \A p \in L : Cardinality(below(p)) < k  BY DEF Least
<1> HIDE DEF L
<1>2. IsFiniteSet(L) /\ Cardinality(L) \in Nat  BY <1>1, FS_Subset, FS_CardinalityType
<1>3. CASE L = {}  BY <1>1, <1>2, <1>3, FS_EmptySet DEF L
<1>4. CASE L # {}
  <2> DEFINE m == Max(L)
  <2>1. m \in L /\ \A p \in L : p <= m
    <3>1. \A p \in L : p \in Int  BY <1>1
    <3> QED BY <1>2, <1>4, <3>1, MaxIsGreatest
  <2> HIDE DEF m
  <2>2. Cardinality(below(m)) < k  BY <1>1, <2>1
  <2> DEFINE B == below(m)
  <2>3. B \in SUBSET S  OBVIOUS
  <2>4. L \in SUBSET (B \cup {m})
    <3>1. ASSUME NEW p \in L PROVE p \in B \cup {m}
      <4>1. p \in Int /\ m \in Int /\ p \in S /\ p <= m  BY <1>1, <2>1
      <4>2. p < m \/ p = m  BY <4>1
      <4> QED BY <4>1, <4>2
    <3> QED BY <3>1
  <2>5. Cardinality(B) < k  BY <2>2
  <2> HIDE DEF B
  <2>6. IsFiniteSet(B) /\ Cardinality(B) \in Nat  BY <2>3, FS_Subset, FS_CardinalityType
  <2>7. IsFiniteSet(B \cup {m}) /\ Cardinality(B \cup {m}) <= Cardinality(B) + 1
        /\ Cardinality(B \cup {m}) \in Nat
    BY <2>6, FS_AddElement, FS_CardinalityType
  <2>8. Cardinality(L) <= Cardinality(B \cup {m})  BY <2>4, <2>7, FS_Subset
  <2> QED BY <1>1, <1>2, <2>5, <2>6, <2>7, <2>8 DEF L
<1> QED BY <1>3, <1>4

(* The calls that may bill are some of those out.                           *)
LEMMA PaidAre ==
    /\ Paid \subseteq Calls /\ IsFiniteSet(Paid) /\ Cardinality(Paid) \in Nat
    /\ Cardinality(Paid) <= Cardinality(Calls)
<1>1. Paid \in SUBSET Calls  BY DEF Paid
<1>2. IsFiniteSet(Calls)  BY CallsAreFinite
<1> QED BY <1>1, <1>2, FS_Subset, FS_CardinalityType

(* A step that launches nothing and bills nothing.                         *)
LEMMA FewerOut ==
    ASSUME PhaseInv, FitInv, how' = how, left' = left, Calls' \subseteq Calls, Catching' \subseteq Catching,
           stage' \notin {"owing", "filling"}
    PROVE  FitInv'
<1> SUFFICES ASSUME how.bound PROVE LaunchesFitTheBook' /\ Room'  BY DEF FitInv
<1>1. Paid' \in SUBSET Paid /\ Catching' \in SUBSET Catching  BY DEF Paid
<1>2. IsFiniteSet(Paid) /\ IsFiniteSet(Catching)  BY PaidAre, CallsAreFinite
<1>3. Cardinality(Paid') <= Cardinality(Paid) /\ Cardinality(Catching') <= Cardinality(Catching)
  BY <1>1, <1>2, FS_Subset
<1>4. IsFiniteSet(Paid') /\ IsFiniteSet(Catching')  BY <1>1, <1>2, FS_Subset
<1>5. /\ Cardinality(Paid) \in Nat /\ Cardinality(Catching) \in Nat /\ left \in Int
      /\ Cardinality(Paid') \in Nat /\ Cardinality(Catching') \in Nat
  BY <1>2, <1>4, FS_CardinalityType DEF PhaseInv, Types
<1>6. Cardinality(Paid) + Cardinality(Catching) <= left  BY DEF FitInv, LaunchesFitTheBook
<1>7. Cardinality(Paid') + Cardinality(Catching') <= left'  BY <1>3, <1>5, <1>6
<1> QED BY <1>7 DEF LaunchesFitTheBook, Room

(* A step that leaves the cells out as they are.                            *)
LEMMA SameOut ==
    ASSUME \A w \in Walks, i \in Cells :
             cell'[w][i] \in {"out", "drains"} <=> cell[w][i] \in {"out", "drains"}
    PROVE  Calls' = Calls
BY DEF Calls

LEMMA TakesFit == PhaseInv /\ FitInv /\ Takes => FitInv'
<1> SUFFICES ASSUME PhaseInv, FitInv, Takes PROVE FitInv'  OBVIOUS
<1>1. turn \in Walks /\ stage = "awake" /\ how' = how /\ left' = left
      /\ stage' \in {"awake", "landing", "banking"}
  BY DEF Takes, HonourSkip, HonourStop, Settle, TakeHead, TakeFails, Awake, Stops, callVars
<1>2. CASE HonourStop \/ TakeFails
  <2>1. Calls' = Calls /\ Catching' = Catching
    BY <1>2 DEF HonourStop, TakeFails, callVars, Calls, Catching
  <2> QED BY <1>1, <2>1, FewerOut
<1>3. CASE HonourSkip
  <2>1. verdict[turn] = "none"  BY <1>1 DEF PhaseInv, TurnOK
  <2> DEFINE v == [verdict EXCEPT ![turn] = "skip"]
  <2>2. v \in [Walks -> Verdicts] /\ \A w \in Walks : verdict[w] # "none" => v[w] # "none"
    BY <1>1, <2>1 DEF PhaseInv, Types, Verdicts
  <2> HIDE DEF v
  <2>3. Goes(v, rows, cell, has) /\ catch' = catch  BY <1>3 DEF HonourSkip, v
  <2>4. Turned(rows, cell)
    BY <1>1, <2>2, <2>3, GoesOn DEF PhaseInv, Types, RowsOK, CellsOK, Turned
  <2>5. Calls' = Calls  BY <2>4, SameOut DEF Turned
  <2>6. Catching' = Catching  BY <2>3 DEF Catching
  <2> QED BY <1>1, <2>5, <2>6, FewerOut
<1>4. CASE Settle
  <2> DEFINE i == Settles
             ok == {p \in Started(i) : \A q \in FailedCatch : p < q}
             done == {p \in Started(i) : \A q \in FailedCatch : p <= q}
             mute == {p \in ok : catch[p][i] = "error"}
             read == [p \in Priors |->
                         IF p \in ok \ mute THEN has[p] \cup {i} ELSE has[p]]
  <2>1. settling /\ i \in Cells  BY <1>4, SettlesIs DEF Settle, Settled
  <2>2. /\ catch' = [p \in Priors |->
                        IF p \in done THEN [catch[p] EXCEPT ![i] = "no"] ELSE catch[p]]
        /\ Judged(rows, cell, read) \/ cell' = cell
    BY <1>4 DEF Settle
  <2>3. read \in [Priors -> SUBSET Cells]  BY <2>1 DEF PhaseInv, Types
  <2> HIDE DEF read, done, i
  <2>4. Judged(rows, cell, read) => Turned(rows, cell)
    BY <1>1, <2>3, JudgedOn DEF PhaseInv, Types, RowsOK, CellsOK
  <2>5. Calls' = Calls  BY <2>2, <2>4, SameOut DEF Turned
  <2>6. \A p \in Priors, j \in Cells : catch'[p][j] = "out" => catch[p][j] = "out"
    BY <2>1, <2>2 DEF PhaseInv, Types
  <2>7. Catching' \subseteq Catching
    <3> SUFFICES ASSUME NEW x \in Priors \X Cells, catch'[x[1]][x[2]] = "out"
                 PROVE  catch[x[1]][x[2]] = "out"
      BY DEF Catching
    <3>1. x[1] \in Priors /\ x[2] \in Cells  OBVIOUS
    <3> QED BY <2>6, <3>1
  <2> QED BY <1>1, <2>5, <2>7, FewerOut
<1>5. CASE TakeHead
  <2> DEFINE i == Taken(turn) + 1
             r(o) == [rows EXCEPT ![turn] = Append(@, Row(i, o))]
             c == [cell EXCEPT ![turn][i] = "taken"]
             abort == [verdict EXCEPT ![turn] = "abort"]
  <2>1. PICK o \in Says :
          /\ HeadIs(o)
          /\ cell' = c \/ Goes(abort, r(o), c, has) \/ Judged(r(o), c, has)
    BY <1>5 DEF TakeHead
  <2>2. verdict[turn] = "none" /\ catch' = catch  BY <1>1, <1>5 DEF PhaseInv, TurnOK, TakeHead
  <2>3. abort \in [Walks -> Verdicts] /\ \A w \in Walks : verdict[w] # "none" => abort[w] # "none"
    BY <1>1, <2>2 DEF PhaseInv, Types, Verdicts
  <2> DEFINE rr == r(o)
  <2>4. /\ rr \in RowsOf /\ c \in Grid /\ Gapless(c) /\ LetGo(c, verdict) /\ TakenAre(c, rr, verdict)
        /\ \A w \in Walks, j \in Cells : c[w][j] \in {"out", "drains"} <=> cell[w][j] \in {"out", "drains"}
    BY <1>1, <2>1, OneRowMore
  <2>5. cell' = c \/ Goes(abort, rr, c, has) \/ Judged(rr, c, has)  BY <2>1
  <2> HIDE DEF rr, c, abort
  <2>6. Goes(abort, rr, c, has) => Turned(rr, c)
    BY <1>1, <2>3, <2>4, GoesOn DEF PhaseInv, Types, Turned
  <2>7. Judged(rr, c, has) => Turned(rr, c)
    <3>1. has \in [Priors -> SUBSET Cells]  BY DEF PhaseInv, Types
    <3> QED BY <1>1, <2>4, <3>1, JudgedOn
  <2>8. Calls' = Calls  BY <2>4, <2>5, <2>6, <2>7, SameOut DEF Turned
  <2>9. Catching' = Catching  BY <2>2 DEF Catching
  <2> QED BY <1>1, <2>8, <2>9, FewerOut
<1> QED BY <1>2, <1>3, <1>4, <1>5 DEF Takes

(* The steps beside launching, taking and returning.                       *)
LEMMA QuietFit == PhaseInv /\ FitInv /\ (Wait \/ Wake \/ Ends \/ Presses) => FitInv'
<1> SUFFICES ASSUME PhaseInv, FitInv, Wait \/ Wake \/ Ends \/ Presses PROVE FitInv'  OBVIOUS
<1>1. /\ how' = how /\ left' = left /\ cell' = cell /\ catch' = catch
      /\ stage' \notin {"owing", "filling"}
  BY DEF Wait, Wake, Ends, Finish, Land, Bank, Presses, Stops, callVars
<1>2. Calls' = Calls /\ Catching' = Catching  BY <1>1 DEF Calls, Catching
<1> QED BY <1>1, <1>2, FewerOut
LEMMA BeginLaunchFit == PhaseInv /\ FitInv /\ BeginLaunch => FitInv'
<1> SUFFICES ASSUME PhaseInv, FitInv, BeginLaunch PROVE FitInv'  OBVIOUS
<1>1. /\ how' = how /\ left' = left /\ cell' = cell /\ catch' = catch
      /\ stage' = "asks" \/ (stage' = "owing" /\ room' = Min({armed - Out, Affordable}))
  BY DEF BeginLaunch, callVars
<1>2. Calls' = Calls /\ Catching' = Catching  BY <1>1 DEF Calls, Catching
<1>3. CASE stage' = "asks"  BY <1>1, <1>2, <1>3, FewerOut
<1>4. CASE stage' = "owing" /\ room' = Min({armed - Out, Affordable})
  <2> SUFFICES ASSUME how.bound PROVE LaunchesFitTheBook' /\ Room'  BY <1>1 DEF FitInv
  <2>1. armed - Out \in Int /\ left - Out \in Int
    BY CallsAreFinite, PhaseAssumption DEF PhaseInv, Types
  <2>2. Affordable = left - Out  BY DEF Affordable
  <2>3. Min({armed - Out, left - Out}) <= left - Out  BY <2>1, OfTwo
  <2>4. room' <= left - Out  BY <1>4, <2>2, <2>3
  <2>5. Out' = Out /\ Paid' = Paid  BY <1>1, <1>2 DEF Out, Paid
  <2> QED BY <1>1, <1>2, <1>4, <2>4, <2>5 DEF FitInv, LaunchesFitTheBook, Room
<1> QED BY <1>1, <1>3, <1>4

LEMMA StartOwedFit == PhaseInv /\ FitInv /\ StartOwed => FitInv'
<1> SUFFICES ASSUME PhaseInv, FitInv, StartOwed PROVE FitInv'  OBVIOUS
<1>1. /\ how' = how /\ left' = left /\ cell' = cell /\ stage = "owing" /\ stage' = "owing"
      /\ room > 0 /\ room' = room - 1
  BY DEF StartOwed
<1>2. PICK p \in pool, i \in Cells :
        p \in Priors /\ catch[p][i] = "no" /\ catch' = [catch EXCEPT ![p][i] = "out"]
  BY StartOwedIs
<1> SUFFICES ASSUME how.bound PROVE LaunchesFitTheBook' /\ Room'  BY <1>1 DEF FitInv
<1>3. room <= left - Out  BY <1>1 DEF FitInv, Room
<1>4. Catching' = Catching \cup {<<p, i>>}
  <2>1. \A q \in Priors, j \in Cells : catch'[q][j] = "out" <=> catch[q][j] = "out" \/ (q = p /\ j = i)
    BY <1>2 DEF PhaseInv, Types
  <2>2. ASSUME NEW x \in Priors \X Cells
        PROVE  catch'[x[1]][x[2]] = "out" <=> catch[x[1]][x[2]] = "out" \/ x = <<p, i>>
    <3>1. x[1] \in Priors /\ x[2] \in Cells /\ (x = <<p, i>> <=> x[1] = p /\ x[2] = i)  OBVIOUS
    <3> QED BY <2>1, <3>1
  <2>3. <<p, i>> \in Priors \X Cells  BY <1>2
  <2> QED BY <2>2, <2>3 DEF Catching
<1>5. Calls' = Calls /\ Paid' = Paid  BY <1>1 DEF Calls, Paid
<1>6. /\ IsFiniteSet(Catching) /\ Cardinality(Catching) \in Nat /\ Cardinality(Calls) \in Nat
      /\ Cardinality(Paid) \in Nat /\ Cardinality(Paid) <= Cardinality(Calls)
  BY CallsAreFinite, PaidAre
<1>7. /\ Cardinality(Catching') <= Cardinality(Catching) + 1 /\ Cardinality(Catching') \in Nat
  <2> DEFINE C == Catching
             x == <<p, i>>
  <2> HIDE DEF C, x
  <2>1. /\ IsFiniteSet(C \cup {x})
        /\ Cardinality(C \cup {x}) = IF x \in C THEN Cardinality(C) ELSE Cardinality(C) + 1
    BY <1>6, FS_AddElement DEF C
  <2>2. Cardinality(C \cup {x}) \in Nat /\ Cardinality(C) \in Nat
    BY <1>6, <2>1, FS_CardinalityType DEF C
  <2>3. Cardinality(C \cup {x}) <= Cardinality(C) + 1  BY <2>1, <2>2
  <2> QED BY <1>4, <2>2, <2>3 DEF C, x
<1>8. room \in Int /\ left \in Int  BY DEF PhaseInv, Types
<1>9. Out = Cardinality(Calls) + Cardinality(Catching)
      /\ Out' = Cardinality(Calls) + Cardinality(Catching')
  BY <1>5 DEF Out
<1>10. Cardinality(Paid) + Cardinality(Catching') <= left /\ room' <= left - Out'
  BY <1>1, <1>3, <1>6, <1>7, <1>8, <1>9
<1> QED BY <1>1, <1>5, <1>10 DEF LaunchesFitTheBook, Room

LEMMA FillFit == PhaseInv /\ FitInv /\ (BeginFilling \/ FillNext) => FitInv'
<1> SUFFICES ASSUME PhaseInv, FitInv, BeginFilling \/ FillNext PROVE FitInv'  OBVIOUS
<1>1. /\ how' = how /\ left' = left /\ cell' = cell /\ catch' = catch
      /\ stage \in {"owing", "filling"}
      /\ \/ stage' = "asks"
         \/ stage' = "filling" /\ (Fills(turn) \/ (Unfilled # {} /\ Fills(Min(Unfilled))))
  BY DEF BeginFilling, FillNext, callVars
<1>2. Calls' = Calls /\ Catching' = Catching /\ Paid' = Paid /\ Out' = Out
  BY <1>1 DEF Calls, Catching, Paid, Out
<1>3. CASE stage' = "asks"  BY <1>1, <1>2, <1>3, FewerOut
<1>4. CASE stage' = "filling"
  <2> SUFFICES ASSUME how.bound PROVE LaunchesFitTheBook' /\ Room'  BY <1>1 DEF FitInv
  <2>1. PICK w \in Walks : Fills(w)
    <3>1. turn \in Walks  BY <1>1 DEF PhaseInv, TurnOK
    <3>2. Unfilled # {} => Min(Unfilled) \in Walks
      BY LeastWalk DEF Unfilled, Live, Undecided
    <3> QED BY <1>1, <1>4, <3>1, <3>2
  <2>2. /\ filler' = w
        /\ room' <= left - Out \/ room' <= RereadsAhead(w, Submitted(w) + 1)
    BY <2>1, FillsIs
  <2>3. RereadsAhead(w, Submitted(w) + 1)' = RereadsAhead(w, Submitted(w) + 1)
    BY <1>1 DEF RereadsAhead, Submitted
  <2>4. Room'  BY <1>1, <1>2, <1>4, <2>2, <2>3 DEF Room
  <2> QED BY <1>1, <1>2, <2>4 DEF FitInv, LaunchesFitTheBook
<1> QED BY <1>1, <1>3, <1>4

(* What a launch adds to the calls out.                                     *)
LEMMA LaunchAdds ==
    ASSUME PhaseInv, LaunchCell
    PROVE  LET i == Submitted(filler) + 1
               k == Min({room - 1, IF how.bound THEN Affordable - 1 ELSE Unlimited})
               started == Least(Owed(i), k)
           IN  /\ Calls' = Calls \cup {<<filler, i>>}
               /\ Paid' = IF i \in how.rereads[filler] THEN Paid ELSE Paid \cup {<<filler, i>>}
               /\ Cardinality(Catching') \in Nat
               /\ Cardinality(Catching') <= Cardinality(Catching) + Cardinality(started)
               /\ Submitted(filler)' = i
<1> DEFINE i == Submitted(filler) + 1
           k == Min({room - 1, IF how.bound THEN Affordable - 1 ELSE Unlimited})
           started == Least(Owed(i), k)
<1>1. /\ filler \in Walks /\ i \in Cells /\ cell[filler][i] = "no"
      /\ \A w \in Walks, j \in Cells : cell'[w][j] =
            IF w = filler /\ j = i THEN "out" ELSE cell[w][j]
      /\ cell' \in Grid
      /\ started \subseteq pool
      /\ \A p \in Priors, j \in Cells : catch'[p][j] =
            IF p \in started /\ j = i THEN "out" ELSE catch[p][j]
  BY LaunchCellIs
<1>2. how' = how /\ filler' = filler  BY DEF LaunchCell
<1>3. started \subseteq Priors  BY <1>1 DEF PhaseInv, Types
<1>4. /\ Submitted(filler) \in 0..N
      /\ \A j \in Cells : cell[filler][j] # "no" <=> j <= Submitted(filler)
  BY <1>1, SubmittedAre DEF PhaseInv, Types, CellsOK
<1>5. Submitted(filler)' = i
  <2>1. \A j \in Cells : cell'[filler][j] # "no" <=> j \in 1..i
    <3> TAKE j \in Cells
    <3>1. j \in Int /\ 1 <= j /\ Submitted(filler) \in Int  BY <1>4 DEF Cells
    <3> QED BY <1>1, <1>4, <3>1
  <2>2. 1..i \subseteq Cells
    <3>1. i \in Int /\ i <= N  BY <1>1, RulesAssumption DEF Cells
    <3> QED BY <3>1, RulesAssumption DEF Cells
  <2> DEFINE S == {j \in Cells : cell'[filler][j] # "no"}
  <2>3. S = 1..i  BY <2>1, <2>2
  <2>4. Submitted(filler)' = Cardinality(S)  BY <1>2 DEF Submitted
  <2> HIDE DEF S
  <2>5. i \in Nat /\ Cardinality(1..i) = i
    <3>1. i \in Int /\ 1 <= i  BY <1>1 DEF Cells
    <3> HIDE DEF i
    <3>2. Cardinality(1..i) = i - 1 + 1  BY <3>1, FS_Interval
    <3> QED BY <3>1, <3>2
  <2> QED BY <2>3, <2>4, <2>5
<1> HIDE DEF i, k, started
<1>6. Calls' = Calls \cup {<<filler, i>>}
  <2>1. ASSUME NEW x \in Walks \X Cells
        PROVE  cell'[x[1]][x[2]] \in {"out", "drains"} <=>
                 cell[x[1]][x[2]] \in {"out", "drains"} \/ x = <<filler, i>>
    <3>1. x[1] \in Walks /\ x[2] \in Cells /\ (x = <<filler, i>> <=> x[1] = filler /\ x[2] = i)
      OBVIOUS
    <3> QED BY <1>1, <3>1
  <2>2. <<filler, i>> \in Walks \X Cells  BY <1>1
  <2> QED BY <2>1, <2>2 DEF Calls
<1>7. Paid' = IF i \in how.rereads[filler] THEN Paid ELSE Paid \cup {<<filler, i>>}
  <2>1. Paid' = {x \in Calls \cup {<<filler, i>>} : x[2] \notin how.rereads[x[1]]}
    BY <1>2, <1>6 DEF Paid
  <2>2. <<filler, i>>[1] = filler /\ <<filler, i>>[2] = i  OBVIOUS
  <2> QED BY <2>1, <2>2 DEF Paid
<1>8. IsFiniteSet(Priors)
  <2>1. IsFiniteSet(Walks)  BY FS_Interval, RulesAssumption DEF Walks
  <2>2. IsFiniteSet(Walks \cup {Parent})  BY <2>1, FS_AddElement
  <2> QED BY <2>2 DEF Priors
<1>9. IsFiniteSet(started) /\ Cardinality(started) \in Nat
  BY <1>3, <1>8, FS_Subset, FS_CardinalityType
<1>10. Catching' = Catching \cup (started \X {i})
  <2>1. ASSUME NEW x \in Priors \X Cells
        PROVE  catch'[x[1]][x[2]] = "out" <=> catch[x[1]][x[2]] = "out" \/ x \in started \X {i}
    <3>1. x[1] \in Priors /\ x[2] \in Cells /\ (x \in started \X {i} <=> x[1] \in started /\ x[2] = i)
      OBVIOUS
    <3> QED BY <1>1, <3>1
  <2>2. started \X {i} \subseteq Priors \X Cells  BY <1>1, <1>3
  <2> QED BY <2>1, <2>2 DEF Catching
<1>11. IsFiniteSet(started \X {i}) /\ Cardinality(started \X {i}) = Cardinality(started)
  <2>1. IsFiniteSet({i}) /\ Cardinality({i}) = 1  BY FS_Singleton
  <2>2. IsFiniteSet(started \X {i}) /\ Cardinality(started \X {i}) = Cardinality(started) * 1
    BY <1>9, <2>1, FS_Product
  <2> QED BY <1>9, <2>2
<1>12. /\ Cardinality(Catching') \in Nat
       /\ Cardinality(Catching') <= Cardinality(Catching) + Cardinality(started)
  <2> DEFINE X == started \X {i}
  <2>1. IsFiniteSet(X) /\ Cardinality(X) = Cardinality(started)  BY <1>11
  <2>2. Catching' = Catching \cup X  BY <1>10
  <2> HIDE DEF X
  <2>3. IsFiniteSet(Catching) /\ Cardinality(Catching) \in Nat  BY CallsAreFinite
  <2>4. IsFiniteSet(Catching \cap X) /\ IsFiniteSet(Catching \cup X)
    <3>1. Catching \cap X \in SUBSET X  OBVIOUS
    <3> QED BY <2>1, <2>3, <3>1, FS_Subset, FS_Union
  <2>5. Cardinality(Catching \cup X)
          = Cardinality(Catching) + Cardinality(X) - Cardinality(Catching \cap X)
    BY <2>1, <2>3, FS_Union
  <2>6. Cardinality(Catching \cap X) \in Nat /\ Cardinality(Catching \cup X) \in Nat
    BY <2>4, FS_CardinalityType
  <2> QED BY <1>9, <2>1, <2>2, <2>3, <2>5, <2>6
<1> QED BY <1>5, <1>6, <1>7, <1>12 DEF i, k, started
LEMMA LaunchCellFit == PhaseInv /\ FitInv /\ LaunchCell => FitInv'
<1> SUFFICES ASSUME PhaseInv, FitInv, LaunchCell PROVE FitInv'  OBVIOUS
<1> DEFINE i == Submitted(filler) + 1
           k == Min({room - 1, IF how.bound THEN Affordable - 1 ELSE Unlimited})
           started == Least(Owed(i), k)
           n == Cardinality(started)
           x == <<filler, i>>
<1>1. how' = how /\ left' = left /\ filler' = filler /\ stage = "filling" /\ stage' = "filling"
  BY DEF LaunchCell
<1> SUFFICES ASSUME how.bound PROVE LaunchesFitTheBook' /\ Room'  BY <1>1 DEF FitInv
<1>2. /\ filler \in Walks /\ i \in Cells /\ room' = room - 1 - n /\ room > 0
  BY LaunchCellIs
<1>3. /\ Calls' = Calls \cup {x}
      /\ Paid' = IF i \in how.rereads[filler] THEN Paid ELSE Paid \cup {x}
      /\ Cardinality(Catching') \in Nat
      /\ Cardinality(Catching') <= Cardinality(Catching) + n
      /\ Submitted(filler)' = i
  BY LaunchAdds
<1>4. /\ room \in Int /\ left \in Int /\ N \in Int /\ Submitted(filler) \in 0..N
      /\ Affordable = left - Out
  BY <1>2, RulesAssumption, SubmittedAre DEF PhaseInv, Types, CellsOK, Affordable
<1>5. /\ Out = Cardinality(Calls) + Cardinality(Catching)
      /\ Out' = Cardinality(Calls') + Cardinality(Catching')
  BY DEF Out
<1>6. /\ IsFiniteSet(Calls) /\ IsFiniteSet(Paid)
      /\ Cardinality(Calls) \in Nat /\ Cardinality(Catching) \in Nat
      /\ Cardinality(Paid) \in Nat /\ Cardinality(Paid) <= Cardinality(Calls)
  BY CallsAreFinite, PaidAre
<1>7. k \in Int /\ k <= room - 1 /\ k <= left - Out - 1
  <2>1. room - 1 \in Int /\ left - Out - 1 \in Int  BY <1>4, <1>5, <1>6
  <2>2. k = Min({room - 1, left - Out - 1})  BY <1>4
  <2> HIDE DEF k
  <2> QED BY <2>1, <2>2, OfTwo
<1>8. /\ started \subseteq Owed(i) /\ n \in Nat /\ (n <= k \/ n = 0)
  <2>1. Owed(i) \subseteq Priors  BY DEF Owed, PhaseInv, Types
  <2>2. IsFiniteSet(Priors) /\ \A p \in Priors : p \in Int
    <3>1. IsFiniteSet(Walks)  BY FS_Interval, RulesAssumption DEF Walks
    <3>2. IsFiniteSet(Walks \cup {Parent})  BY <3>1, FS_AddElement
    <3> QED BY <3>2 DEF Priors, Parent, Walks
  <2> DEFINE S == Owed(i)
  <2> HIDE DEF S, k
  <2>3. IsFiniteSet(S) /\ \A p \in S : p \in Int  BY <2>1, <2>2, FS_Subset DEF S
  <2>4. Least(S, k) \subseteq S /\ Cardinality(Least(S, k)) \in Nat
        /\ (Cardinality(Least(S, k)) <= k \/ Cardinality(Least(S, k)) = 0)
    BY <1>7, <2>3, LeastAreFew
  <2> QED BY <2>4 DEF S
<1> HIDE DEF n, k, x
<1>9. Cardinality(Calls') \in Nat /\ Cardinality(Calls') <= Cardinality(Calls) + 1
  <2>1. IsFiniteSet(Calls \cup {x})
        /\ Cardinality(Calls \cup {x}) = IF x \in Calls THEN Cardinality(Calls) ELSE Cardinality(Calls) + 1
    BY <1>6, FS_AddElement
  <2>2. Cardinality(Calls \cup {x}) \in Nat  BY <2>1, FS_CardinalityType
  <2>3. Cardinality(Calls \cup {x}) <= Cardinality(Calls) + 1  BY <1>6, <2>1
  <2> QED BY <1>3, <2>2, <2>3
<1>10. /\ Cardinality(Paid') \in Nat /\ Cardinality(Paid') <= Cardinality(Paid) + 1
       /\ i \in how.rereads[filler] => Cardinality(Paid') = Cardinality(Paid)
  <2>1. IsFiniteSet(Paid \cup {x})
        /\ Cardinality(Paid \cup {x}) = IF x \in Paid THEN Cardinality(Paid) ELSE Cardinality(Paid) + 1
    BY <1>6, FS_AddElement
  <2>2. Cardinality(Paid \cup {x}) \in Nat  BY <2>1, FS_CardinalityType
  <2>3. Cardinality(Paid \cup {x}) <= Cardinality(Paid) + 1  BY <1>6, <2>1
  <2>4. CASE i \in how.rereads[filler]  BY <1>3, <1>6, <2>4
  <2>5. CASE i \notin how.rereads[filler]  BY <1>3, <2>2, <2>3, <2>5
  <2> QED BY <2>4, <2>5
<1>11. Cardinality(Paid) + Cardinality(Catching) <= left
       /\ (room <= left - Out \/ room <= RereadsAhead(filler, i))
  BY <1>1 DEF FitInv, LaunchesFitTheBook, Room
<1>12. CASE room <= left - Out
  <2>1. n <= left - Out - 1  BY <1>2, <1>4, <1>5, <1>6, <1>7, <1>8, <1>12
  <2>2. Cardinality(Paid') + Cardinality(Catching') <= left
    BY <1>3, <1>4, <1>5, <1>6, <1>8, <1>10, <2>1
  <2>3. room' <= left - Out'
    BY <1>2, <1>3, <1>4, <1>5, <1>6, <1>8, <1>9, <1>12
  <2> QED BY <1>1, <2>2, <2>3 DEF LaunchesFitTheBook, Room
<1>13. CASE room <= RereadsAhead(filler, i)
  <2>1. i \in Int /\ 1 <= i /\ i <= N  BY <1>2, <1>4 DEF Cells
  <2> DEFINE R == RereadsAhead(filler, i)
             S == RereadsAhead(filler, i + 1)
  <2>2. R \in 0..(N - i + 1) /\ i..(i + R - 1) \subseteq how.rereads[filler]
    BY <2>1, <1>4, RereadsAre
  <2>3. R \in Int /\ S \in Int
    <3>1. i + 1 \in 1..(N + 1)  BY <1>4, <2>1
    <3>2. S \in 0..(N - (i + 1) + 1)  BY <3>1, RereadsAre
    <3> HIDE DEF R, S
    <3> QED BY <2>2, <3>2
  <2>4. R >= 1 /\ R - 1 \in 0..(N - (i + 1) + 1)
    <3> HIDE DEF R, i
    <3> QED BY <1>2, <1>4, <1>13, <2>1, <2>2, <2>3 DEF R
  <2>5. i \in how.rereads[filler]
    <3> HIDE DEF R, i
    <3>1. i \in i..(i + R - 1)  BY <2>1, <2>3, <2>4
    <3> QED BY <2>2, <3>1
  <2>6. S >= R - 1
    <3>1. i + 1 \in 1..(N + 1)  BY <1>4, <2>1
    <3>2. (i + 1)..((i + 1) + (R - 1) - 1) \subseteq how.rereads[filler]
      <4> HIDE DEF R, i
      <4>1. \A j \in (i + 1)..((i + 1) + (R - 1) - 1) : j \in i..(i + R - 1)  BY <2>1, <2>3
      <4> QED BY <2>2, <4>1
    <3>3. \A m \in 0..(N - (i + 1) + 1) :
            (i + 1)..((i + 1) + m - 1) \subseteq how.rereads[filler] => m <= S
      BY <3>1, RereadsAre
    <3> HIDE DEF R, S, i
    <3> QED BY <2>3, <2>4, <3>2, <3>3
  <2>7. RereadsAhead(filler, Submitted(filler) + 1)' = S
    BY <1>1, <1>3 DEF RereadsAhead
  <2>8. room' <= S
    <3> HIDE DEF R, S, i
    <3> QED BY <1>2, <1>4, <1>8, <1>13, <2>3, <2>6 DEF R
  <2>9. Cardinality(Paid') + Cardinality(Catching') <= left
    <3>1. Cardinality(Paid') = Cardinality(Paid)  BY <1>10, <2>5
    <3>2. CASE n = 0  BY <1>3, <1>4, <1>6, <1>11, <3>1, <3>2
    <3>3. CASE n <= k  BY <1>3, <1>4, <1>5, <1>6, <1>7, <1>8, <3>1, <3>3
    <3> QED BY <1>8, <3>2, <3>3
  <2> QED BY <1>1, <2>7, <2>8, <2>9 DEF LaunchesFitTheBook, Room
<1> QED BY <1>11, <1>12, <1>13

LEMMA ReturnsFit ==
    ASSUME NEW w \in Walks, NEW i \in Cells
    PROVE  PhaseInv /\ FitInv /\ Returns(w, i) => FitInv'
<1> SUFFICES ASSUME PhaseInv, FitInv, Returns(w, i) PROVE FitInv'  OBVIOUS
<1> DEFINE x == <<w, i>>
           free == i \in how.rereads[w]
<1>1. PICK o \in how.answers \cup {"good"} :
        /\ CallReturns(o) /\ Bills(o, free)
        /\ cell' = [cell EXCEPT ![w][i] = IF @ = "out" THEN o ELSE "gone"]
        /\ catch' = catch
  BY DEF Returns
<1>2. o \in Outcomes /\ x \in Calls  BY <1>1, Setup DEF PhaseInv, Types, Outcomes, Says, Returns
<1>3. /\ how' = how /\ (left' = left \/ (left' = left - 1 /\ ~free))
      /\ stage' \in {"landing", "wakes"}
  BY <1>1, ReturnIs
<1> SUFFICES ASSUME how.bound PROVE LaunchesFitTheBook' /\ Room'  BY <1>3 DEF FitInv
<1>4. \A v \in Walks, j \in Cells : cell'[v][j] \in {"out", "drains"} <=>
         cell[v][j] \in {"out", "drains"} /\ ~(v = w /\ j = i)
  <2>1. cell \in Grid  BY DEF PhaseInv, Types
  <2>2. (IF cell[w][i] = "out" THEN o ELSE "gone") \notin {"out", "drains"}
    BY <1>2 DEF Outcomes, Says
  <2> QED BY <1>1, <2>1, <2>2 DEF Grid
<1>5. Calls' = Calls \ {x}
  <2>1. ASSUME NEW y \in Walks \X Cells
        PROVE  cell'[y[1]][y[2]] \in {"out", "drains"} <=>
                 cell[y[1]][y[2]] \in {"out", "drains"} /\ y # x
    <3>1. y[1] \in Walks /\ y[2] \in Cells /\ (y = x <=> y[1] = w /\ y[2] = i)  OBVIOUS
    <3> QED BY <1>4, <3>1
  <2> HIDE DEF x
  <2> QED BY <2>1 DEF Calls
<1>6. Paid' = Paid \ {x}  BY <1>3, <1>5 DEF Paid
<1>7. ~free => x \in Paid
  <2>1. x[1] = w /\ x[2] = i  OBVIOUS
  <2> QED BY <1>2, <2>1 DEF Paid
<1> HIDE DEF x, free
<1>8. IsFiniteSet(Paid) /\ Cardinality(Paid) \in Nat /\ Cardinality(Catching) \in Nat /\ left \in Int
  BY PaidAre, CallsAreFinite DEF PhaseInv, Types
<1>9. Cardinality(Paid') = IF x \in Paid THEN Cardinality(Paid) - 1 ELSE Cardinality(Paid)
  BY <1>6, <1>8, FS_RemoveElement
<1>10. Catching' = Catching  BY <1>1 DEF Catching
<1>11. Cardinality(Paid) + Cardinality(Catching) <= left  BY DEF FitInv, LaunchesFitTheBook
<1>12. Cardinality(Paid') + Cardinality(Catching') <= left'
  <2> DEFINE a == Cardinality(Paid)
             b == Cardinality(Catching)
             c == Cardinality(Paid')
  <2>1. Cardinality(Catching') = b  BY <1>10
  <2>2. a \in Nat /\ b \in Nat /\ a + b <= left /\ left \in Int
        /\ c = IF x \in Paid THEN a - 1 ELSE a
    BY <1>8, <1>9, <1>11
  <2> HIDE DEF a, b, c
  <2>3. c + b <= left'  BY <1>3, <1>7, <2>2
  <2> QED BY <2>1, <2>3 DEF c
<1> QED BY <1>3, <1>12 DEF LaunchesFitTheBook, Room

LEMMA CatchUpFit ==
    ASSUME NEW p \in Priors, NEW i \in Cells
    PROVE  PhaseInv /\ FitInv /\ CatchUpReturns(p, i) => FitInv'
<1> SUFFICES ASSUME PhaseInv, FitInv, CatchUpReturns(p, i) PROVE FitInv'  OBVIOUS
<1> DEFINE x == <<p, i>>
<1>1. PICK o \in Unscored \cup {"good"} :
        /\ CallReturns(o) /\ Bills(o, FALSE)
        /\ catch' = [catch EXCEPT ![p][i] = o]
        /\ cell' = cell
  BY DEF CatchUpReturns
<1>2. x \in Catching  BY DEF CatchUpReturns
<1>3. /\ how' = how /\ left' \in {left, left - 1} /\ stage' \in {"landing", "wakes"}
  BY <1>1, ReturnIs
<1> SUFFICES ASSUME how.bound PROVE LaunchesFitTheBook' /\ Room'  BY <1>3 DEF FitInv
<1>4. \A q \in Priors, j \in Cells :
        catch'[q][j] = "out" <=> catch[q][j] = "out" /\ ~(q = p /\ j = i)
  BY <1>1 DEF PhaseInv, Types, Unscored
<1>5. Catching' = Catching \ {x}
  <2>1. ASSUME NEW y \in Priors \X Cells
        PROVE  catch'[y[1]][y[2]] = "out" <=> catch[y[1]][y[2]] = "out" /\ y # x
    <3>1. y[1] \in Priors /\ y[2] \in Cells /\ (y = x <=> y[1] = p /\ y[2] = i)  OBVIOUS
    <3> QED BY <1>4, <3>1
  <2> HIDE DEF x
  <2> QED BY <2>1 DEF Catching
<1> HIDE DEF x
<1>6. Paid' = Paid  BY <1>1, <1>3 DEF Paid, Calls
<1>7. /\ IsFiniteSet(Catching) /\ Cardinality(Paid) \in Nat /\ Cardinality(Catching) \in Nat
      /\ left \in Int
  BY PaidAre, CallsAreFinite DEF PhaseInv, Types
<1>8. Cardinality(Catching') = Cardinality(Catching) - 1
  BY <1>2, <1>5, <1>7, FS_RemoveElement
<1>9. Cardinality(Paid) + Cardinality(Catching) <= left  BY DEF FitInv, LaunchesFitTheBook
<1>10. Cardinality(Paid') + Cardinality(Catching') <= left'
  <2>1. Cardinality(Paid') = Cardinality(Paid)  BY <1>6
  <2> QED BY <1>3, <1>7, <1>8, <1>9, <2>1
<1> QED BY <1>3, <1>10 DEF LaunchesFitTheBook, Room

LEMMA InitFit == Init => FitInv
<1> SUFFICES ASSUME Init, how.bound PROVE LaunchesFitTheBook /\ Room  BY DEF FitInv
<1>1. how.budget \in Nat  BY Setup DEF Init
<1>2. Calls = {} /\ Catching = {}
  <2>1. \A w \in Walks, i \in Cells : cell[w][i] = "no"  BY DEF Init
  <2>2. \A p \in Priors, i \in Cells : catch[p][i] = "no"  BY DEF Init
  <2> QED BY <2>1, <2>2 DEF Calls, Catching
<1>3. Paid = {}  BY <1>2 DEF Paid
<1>4. Cardinality(Paid) = 0 /\ Cardinality(Catching) = 0  BY <1>2, <1>3, FS_EmptySet
<1> QED BY <1>1, <1>4 DEF LaunchesFitTheBook, Room, Init

LEMMA FitStep == PhaseInv /\ FitInv /\ [Next]_vars => FitInv'
<1> SUFFICES ASSUME PhaseInv, FitInv, [Next]_vars PROVE FitInv'  OBVIOUS
<1>1. CASE UNCHANGED vars
  <2>1. UNCHANGED <<how, cell, catch, left, stage, room, filler>>
    BY <1>1 DEF vars, callVars, launchVars
  <2> QED BY <2>1 DEF FitInv, LaunchesFitTheBook, Room, Paid, Calls, Catching, Out, RereadsAhead, Submitted
<1>2. CASE Phase
  <2>1. CASE Launches
    BY <2>1, BeginLaunchFit, StartOwedFit, FillFit, LaunchCellFit DEF Launches
  <2> QED BY <1>2, <2>1, TakesFit, QuietFit DEF Phase
<1>3. CASE SomeReturns  BY <1>3, ReturnsFit, CatchUpFit DEF SomeReturns
<1> QED BY <1>1, <1>2, <1>3, QuietFit DEF Next

(* However many walks, catch-ups and draining calls there are, no call is   *)
(* out that the book could not pay at its bound (query_loop.py             *)
(* _ScoringPhase.affordable, fill, start_owed).                             *)
THEOREM LaunchesFit == Spec => []LaunchesFitTheBook
<1>1. FitInv => LaunchesFitTheBook  BY DEF FitInv, LaunchesFitTheBook
<1> QED BY <1>1, InitFit, FitStep, PhaseInvariant, PTL DEF Spec
-----------------------------------------------------------------------------
(* What is banked was sure to be taken.                                     *)

(* Cells are kept as the phase ends, of walks that are not decided.        *)
BankInv ==
    /\ stage # "over" => \A w \in Walks : banked[w] = {}
    /\ \A w \in Walks : /\ banked[w] \subseteq Sure(w)
                        /\ banked[w] # {} => verdict[w] = "none"

LEMMA BankStep == PhaseInv /\ BankInv /\ [Next]_vars => BankInv'
<1> SUFFICES ASSUME PhaseInv, BankInv, [Next]_vars PROVE BankInv'  OBVIOUS
<1>1. CASE UNCHANGED vars
  <2>1. UNCHANGED <<how, rows, verdict, block, cell, stage, banked>>
    BY <1>1 DEF vars, turnVars, callVars, endVars
  <2>2. \A w \in Walks : Sure(w)' = Sure(w)
    BY <2>1 DEF Sure, Horizon, Taken, Bounded
  <2> QED BY <2>1, <2>2 DEF BankInv
<1>2. CASE Bank
  <2>1. PICK kept \in SUBSET Live : banked' = [w \in Walks |-> IF w \in kept THEN Sure(w) ELSE {}]
    BY <1>2 DEF Bank
  <2>2. UNCHANGED <<how, rows, verdict, block, cell>> /\ stage' = "over"
    BY <1>2 DEF Bank, turnVars
  <2>3. \A w \in Walks : Sure(w)' = Sure(w)
    BY <2>2 DEF Sure, Horizon, Taken, Bounded
  <2>4. ASSUME NEW w \in Walks
        PROVE  /\ banked'[w] \subseteq Sure(w)
               /\ banked'[w] # {} => verdict[w] = "none"
    BY <2>1 DEF Live, Undecided
  <2> QED BY <2>2, <2>3, <2>4 DEF BankInv
<1>3. CASE Next /\ ~Bank
  <2>1. stage # "over" /\ banked' = banked
    <3>1. CASE Takes
      BY <3>1 DEF Takes, HonourSkip, HonourStop, Settle, TakeHead, TakeFails, Awake, endVars
    <3>2. CASE Launches
      BY <3>2 DEF Launches, BeginLaunch, StartOwed, BeginFilling, LaunchCell, FillNext, Awake, endVars
    <3>3. CASE Wait \/ Wake \/ Finish \/ Land \/ Presses
      BY <3>3 DEF Wait, Wake, Finish, Land, Presses, endVars
    <3>4. CASE SomeReturns
      BY <3>4 DEF SomeReturns, Returns, CatchUpReturns, CallReturns, endVars
    <3> QED BY <1>3, <3>1, <3>2, <3>3, <3>4 DEF Next, Phase, Ends
  <2>2. \A w \in Walks : banked'[w] = {}  BY <2>1 DEF BankInv
  <2> QED BY <2>2 DEF BankInv
<1> QED BY <1>1, <1>2, <1>3

(* More degraded rows are too many, where fewer are.                       *)
LEMMA WorseIsWorse ==
    ASSUME NEW d \in Nat, NEW e \in Nat, d <= e, NEW m \in Int, TooDegraded(d, m)
    PROVE  TooDegraded(e, m)
<1>1. Den \in Nat /\ Num \in Nat  BY RulesAssumption
<1> DEFINE x == e - d
           a == d * Den
           b == x * Den
           c == Num * m
<1>2. x \in Nat /\ e = d + x  OBVIOUS
<1> HIDE DEF x
<1>3. e * Den = a + b  BY <1>1, <1>2
<1>4. a \in Int /\ b \in Nat /\ c \in Int  BY <1>1, <1>2
<1>5. m >= MinSamples /\ a >= c  BY DEF TooDegraded
<1> HIDE DEF a, b
<1>6. e * Den >= c  BY <1>3, <1>4, <1>5
<1> QED BY <1>5, <1>6 DEF TooDegraded

(* No answers of the calls that are not back bring a walk to its rate before *)
(* a cell that is sure, none of them is an error, and the walk's block does  *)
(* not close before it.                                                      *)
LEMMA SureIsSure ==
    ASSUME PhaseInv, NEW w \in Walks, verdict[w] = "none", NEW i \in Sure(w)
    PROVE  /\ \A f \in Answers(w, i) : \A m \in (Taken(w) + 1)..(i - 1) :
                /\ ~Errored(f[m])
                /\ ~TooDegraded(Degraded(rows[w])
                                + Cardinality({j \in (Taken(w) + 1)..m : f[j] \in Deprecated}), m)
           /\ Bounded => i <= Boundary(how.size, block)
<1> DEFINE T == Taken(w)
           ahead == (T + 1)..N
           worst(m) == {j \in (T + 1)..m : cell[w][j] \notin Says \ Deprecated}
           rate == {m \in ahead : TooDegraded(Degraded(rows[w]) + Cardinality(worst(m)), m)}
           close == IF Bounded THEN {Boundary(how.size, block)} \cap 1..N ELSE {}
<1>1. Horizon(w, N) = IF ahead = {} THEN {} ELSE rate \cup close  BY DEF Horizon
<1>2. /\ i \in Cells /\ cell[w][i] \in {"good", "degraded", "fatal"}
      /\ \A j \in 1..(i - 1) : ~Errored(cell[w][j])
      /\ \A m \in Horizon(w, N) : i <= m
  BY DEF Sure
<1>3. T \in Nat /\ N \in Nat /\ rows[w] \in Seq(ARow) /\ N >= 1
  BY RulesAssumption DEF PhaseInv, RowsOK, RowsOf, Taken
<1>4. i \in Int /\ T + 1 <= i /\ i <= N
  <2>1. ~(i <= Len(rows[w]))  BY <1>2 DEF PhaseInv, CellsOK, TakenAre
  <2>2. i \in Int /\ i <= N  BY <1>2, <1>3 DEF Cells
  <2> QED BY <1>3, <2>1, <2>2 DEF Taken
<1>5. ahead # {}
  <2>1. i \in ahead  BY <1>3, <1>4
  <2> QED BY <2>1
<1>6. Degraded(rows[w]) \in Nat
  <2> DEFINE S == {k \in DOMAIN rows[w] : rows[w][k].is \in Deprecated}
  <2>1. DOMAIN rows[w] = 1..Len(rows[w]) /\ Len(rows[w]) \in Int  BY <1>3
  <2>2. IsFiniteSet(DOMAIN rows[w]) /\ S \in SUBSET DOMAIN rows[w]  BY <2>1, FS_Interval
  <2>3. Degraded(rows[w]) = Cardinality(S)  BY DEF Degraded
  <2> HIDE DEF S
  <2> QED BY <2>2, <2>3, FS_Subset, FS_CardinalityType
<1>7. ASSUME NEW f \in Answers(w, i), NEW m \in (T + 1)..(i - 1),
             TooDegraded(Degraded(rows[w]) + Cardinality({j \in (T + 1)..m : f[j] \in Deprecated}), m)
      PROVE  FALSE
  <2> DEFINE A == {j \in (T + 1)..m : f[j] \in Deprecated}
             B == worst(m)
  <2>1. m \in Int /\ T + 1 <= m /\ m <= i - 1  BY <1>3, <1>4
  <2>2. A \in SUBSET B
    <3> SUFFICES ASSUME NEW j \in (T + 1)..m, f[j] \in Deprecated
                 PROVE  cell[w][j] \notin Says \ Deprecated
      OBVIOUS
    <3>1. j \in (T + 1)..i  BY <1>3, <1>4, <2>1
    <3>2. cell[w][j] \in Says => f[j] = cell[w][j]  BY <3>1 DEF Answers
    <3> QED BY <3>2
  <2>3. IsFiniteSet(B)
    <3>1. IsFiniteSet((T + 1)..m) /\ B \in SUBSET ((T + 1)..m)  BY <1>3, <2>1, FS_Interval
    <3> HIDE DEF B
    <3> QED BY <3>1, FS_Subset
  <2>4. TooDegraded(Degraded(rows[w]) + Cardinality(A), m)  BY <1>7
  <2> HIDE DEF A, B
  <2>5. /\ Cardinality(A) \in Nat /\ Cardinality(B) \in Nat /\ Cardinality(A) <= Cardinality(B)
    BY <2>2, <2>3, FS_Subset, FS_CardinalityType
  <2> DEFINE d == Degraded(rows[w]) + Cardinality(A)
             e == Degraded(rows[w]) + Cardinality(B)
  <2>6. d \in Nat /\ e \in Nat /\ d <= e /\ TooDegraded(d, m)  BY <1>6, <2>4, <2>5
  <2> HIDE DEF d, e
  <2>7. TooDegraded(e, m)  BY <2>1, <2>6, WorseIsWorse
  <2>8. m \in ahead  BY <1>3, <1>4, <2>1
  <2>9. m \in Horizon(w, N)  BY <1>1, <1>5, <2>7, <2>8 DEF e, B
  <2>10. i <= m  BY <1>2, <2>9
  <2> QED BY <1>4, <2>1, <2>10
<1>8. ASSUME Bounded PROVE i <= Boundary(how.size, block)
  <2> DEFINE x == (block + 1) * how.size
  <2>1. how.size \in Nat /\ how.size > 0 /\ block \in Nat
    BY <1>8, Setup DEF PhaseInv, Types, Bounded
  <2>2. x \in Int /\ x >= 1
    <3> DEFINE n == how.size
               y == block * n
    <3>1. n \in Nat /\ n >= 1 /\ block \in Nat  BY <2>1
    <3> HIDE DEF n
    <3>2. (block + 1) * n = y + n /\ y \in Nat  BY <3>1
    <3>3. x = y + n  BY <3>2 DEF n
    <3> HIDE DEF x, y
    <3> QED BY <3>1, <3>2, <3>3
  <2>3. Boundary(how.size, block) = Min({N, x})  BY DEF Boundary
  <2> HIDE DEF x
  <2>4. Boundary(how.size, block) \in 1..N
    <3> DEFINE y == Min({N, x})
    <3>1. N \in Int /\ N >= 1 /\ x \in Int /\ x >= 1  BY <1>3, <2>2
    <3>2. y \in {N, x} /\ y <= N  BY <3>1, OfTwo
    <3> HIDE DEF y
    <3>3. y \in 1..N  BY <3>1, <3>2
    <3> QED BY <2>3, <3>3 DEF y
  <2>5. Boundary(how.size, block) \in Horizon(w, N)  BY <1>1, <1>5, <1>8, <2>4
  <2> QED BY <1>2, <2>5
<1>9. ASSUME NEW f \in Answers(w, i), NEW m \in (T + 1)..(i - 1)
      PROVE  ~Errored(f[m])
  <2>1. m \in (T + 1)..i /\ m \in 1..(i - 1)  BY <1>3, <1>4
  <2>2. IF cell[w][m] \in Says THEN f[m] = cell[w][m] ELSE f[m] \in {"good", "degraded"}
    BY <2>1 DEF Answers
  <2>3. ~Errored(cell[w][m])  BY <1>2, <2>1
  <2> QED BY <2>2, <2>3 DEF Errored
<1> QED BY <1>7, <1>8, <1>9

(* The rows a walk would have, gone on to m of them: those it has, and as   *)
(* many as m answered.                                                      *)
LEMMA OnwardIs ==
    ASSUME PhaseInv, NEW w \in Walks, NEW i \in Cells, NEW f \in Answers(w, i),
           NEW m \in (Taken(w) + 1)..i
    PROVE  /\ Len(Onward(w, f, m)) = m
           /\ Onward(w, f, m)[m].is = f[m]
           /\ Degraded(Onward(w, f, m)) = Degraded(rows[w])
                + Cardinality({j \in (Taken(w) + 1)..m : f[j] \in Deprecated})
<1> DEFINE T == Taken(w)
           q == rows[w]
           o == Onward(w, f, m)
           A == {k \in 1..T : q[k].is \in Deprecated}
           B == {j \in (T + 1)..m : f[j] \in Deprecated}
<1>1. /\ q \in Seq(ARow) /\ T = Len(q) /\ T \in Nat /\ DOMAIN q = 1..T
      /\ i \in Int /\ m \in Int /\ T + 1 <= m /\ m \in Nat
  BY RulesAssumption DEF PhaseInv, RowsOK, RowsOf, Taken, Cells
<1>2. o = [k \in 1..m |-> IF k <= T THEN q[k] ELSE Row(k, f[k])]  BY DEF Onward
<1>3. Degraded(q) = Cardinality(A)  BY <1>1 DEF Degraded
<1> HIDE DEF T, q, o
<1>4. Len(o) = m /\ DOMAIN o = 1..m
  <2>1. o \in Seq({o[k] : k \in 1..m})  BY <1>1, <1>2
  <2> QED BY <1>1, <1>2, <2>1
<1>5. ASSUME NEW k \in 1..m
      PROVE  o[k].is = IF k <= T THEN q[k].is ELSE f[k]
  BY <1>2 DEF Row
<1>6. {k \in DOMAIN o : o[k].is \in Deprecated} = A \cup B
  <2>1. \A k : k \in 1..m <=> k \in 1..T \/ k \in (T + 1)..m  BY <1>1
  <2>2. \A k \in 1..T : k <= T  BY <1>1
  <2>3. \A k \in (T + 1)..m : ~(k <= T)  BY <1>1
  <2>4. \A k \in 1..T : o[k].is = q[k].is  BY <1>5, <2>1, <2>2
  <2>5. \A k \in (T + 1)..m : o[k].is = f[k]  BY <1>5, <2>1, <2>3
  <2> QED BY <1>4, <2>1, <2>4, <2>5
<1>7. /\ IsFiniteSet(A) /\ IsFiniteSet(B) /\ A \cap B = {}
  <2>1. A \in SUBSET (1..T) /\ B \in SUBSET ((T + 1)..m)  OBVIOUS
  <2>2. IsFiniteSet(1..T) /\ IsFiniteSet((T + 1)..m)
    <3>1. 1 \in Int /\ T \in Int /\ T + 1 \in Int /\ m \in Int  BY <1>1
    <3> QED BY <3>1, FS_Interval
  <2>3. (1..T) \cap ((T + 1)..m) = {}  BY <1>1
  <2> HIDE DEF A, B
  <2> QED BY <2>1, <2>2, <2>3, FS_Subset
<1> HIDE DEF A, B
<1>8. Cardinality(A \cup B) = Cardinality(A) + Cardinality(B)
  <2>1. /\ Cardinality(A \cup B) = Cardinality(A) + Cardinality(B) - Cardinality(A \cap B)
        /\ Cardinality(A) \in Nat /\ Cardinality(B) \in Nat
    BY <1>7, FS_Union, FS_CardinalityType
  <2>2. Cardinality(A \cap B) = 0  BY <1>7, FS_EmptySet
  <2> QED BY <2>1, <2>2
<1>9. Degraded(o) = Cardinality(A) + Cardinality(B)  BY <1>6, <1>8 DEF Degraded
<1>10. o[m].is = f[m]
  <2>1. m \in 1..m /\ ~(m <= T)  BY <1>1
  <2> QED BY <1>5, <2>1
<1> QED BY <1>3, <1>4, <1>9, <1>10 DEF T, q, o, B

(* Whatever the calls that are not back would have answered, no error, no   *)
(* stop rule and no close of a block could have ended a walk before a cell  *)
(* that was kept when the phase was stopped, but for a row that is fatal,   *)
(* which the horizon does not ask about (query_loop.py Walk.bank).          *)
THEOREM BankedSure == Spec => []BankedAreSure
<1>1. Init => BankInv  BY DEF Init, BankInv
<1>2. PhaseInv /\ BankInv => BankedAreSure
  <2> SUFFICES ASSUME PhaseInv, BankInv, NEW w \in Walks, NEW i \in banked[w]
               PROVE  /\ \A f \in Answers(w, i) : \A m \in (Taken(w) + 1)..(i - 1) :
                            /\ ~Errored(f[m])
                            /\ RuleStops(Onward(w, f, m)) =>
                                 /\ KeptPastFatal(w, m)
                                 /\ ~TooDegraded(Degraded(Onward(w, f, m)), m)
                      /\ Bounded => i <= Boundary(how.size, block)
    BY DEF BankedAreSure
  <2>1. verdict[w] = "none" /\ i \in Sure(w)  BY DEF BankInv
  <2>2. ASSUME NEW f \in Answers(w, i), NEW m \in (Taken(w) + 1)..(i - 1)
        PROVE  /\ ~Errored(f[m])
               /\ RuleStops(Onward(w, f, m)) =>
                    KeptPastFatal(w, m) /\ ~TooDegraded(Degraded(Onward(w, f, m)), m)
    <3> DEFINE o == Onward(w, f, m)
    <3>1. i \in Cells /\ i \in Int /\ Taken(w) \in Nat
      BY <2>1, RulesAssumption DEF Sure, Cells, PhaseInv, RowsOK, RowsOf, Taken
    <3>2. m \in (Taken(w) + 1)..i  BY <3>1
    <3>3. /\ Len(o) = m /\ o[m].is = f[m]
          /\ Degraded(o) = Degraded(rows[w])
                + Cardinality({j \in (Taken(w) + 1)..m : f[j] \in Deprecated})
      BY <3>1, <3>2, OnwardIs
    <3>4. /\ ~Errored(f[m])
          /\ ~TooDegraded(Degraded(rows[w])
                + Cardinality({j \in (Taken(w) + 1)..m : f[j] \in Deprecated}), m)
      BY <2>1, SureIsSure
    <3> HIDE DEF o
    <3>5. ~TooDegraded(Degraded(o), m)  BY <3>3, <3>4
    <3>6. IF cell[w][m] \in Says THEN f[m] = cell[w][m] ELSE f[m] \in {"good", "degraded"}
      BY <3>2 DEF Answers
    <3>7. RuleStops(o) => f[m] \in Fatal  BY <3>3, <3>5 DEF RuleStops
    <3>8. f[m] \in Fatal => KeptPastFatal(w, m)  BY <3>6 DEF Fatal, KeptPastFatal
    <3> QED BY <3>4, <3>5, <3>7, <3>8 DEF o
  <2>3. Bounded => i <= Boundary(how.size, block)  BY <2>1, SureIsSure
  <2> QED BY <2>2, <2>3
<1> QED BY <1>1, <1>2, BankStep, PhaseInvariant, PTL DEF Spec

-----------------------------------------------------------------------------
(* A cut by the rate, or at the close of a block, wastes one cell at most.  *)

(* The cells past a walk's n rows that may turn out degraded, and whether  *)
(* the rate could stop it at row m, the worst of them taken for granted.    *)
Worst(c, w, n, m) == {i \in (n + 1)..m : c[w][i] \notin Says \ Deprecated}
MayStop(r, c, w, m) ==
    TooDegraded(Degraded(r[w]) + Cardinality(Worst(c, w, Len(r[w]), m)), m)

(* The rate cannot stop a walk at a row with two of its first l cells past *)
(* it; and no more than one of them is past the walk's block.               *)
Unstopped(r, c, w, l) == \A m \in (Len(r[w]) + 1)..(l - 2) : ~MayStop(r, c, w, m)
WithinBlock(l) == Bounded => l <= Boundary(how.size, block) + 1

(* So it is of the cells every undecided walk launched, and of those it is *)
(* about to; and in a block race, the walks whose turn in the block is over *)
(* stand at its end.                                                        *)
Guarded == \A w \in Live : Unstopped(rows, cell, w, Submitted(w)) /\ WithinBlock(Submitted(w))
BlocksDone ==
    Bounded /\ turn \in Walks =>
        \A w \in Live : w < turn => Len(rows[w]) = Boundary(how.size, block)
FillGuarded == stage = "filling" => Unstopped(rows, cell, filler, upto) /\ WithinBlock(upto)

CutInv == Guarded /\ BlocksDone /\ FillGuarded

(* The cells that may turn out degraded are finitely many.                 *)
LEMMA WorstIs ==
    ASSUME NEW c, NEW w, NEW n \in Int, NEW m \in Int
    PROVE  IsFiniteSet(Worst(c, w, n, m)) /\ Cardinality(Worst(c, w, n, m)) \in Nat
<1>1. IsFiniteSet((n + 1)..m)  BY FS_Interval
<1>2. Worst(c, w, n, m) \in SUBSET ((n + 1)..m)  BY DEF Worst
<1> QED BY <1>1, <1>2, FS_Subset, FS_CardinalityType

(* The degraded rows of a walk, and those of one row more.                 *)
LEMMA DegradedIs ==
    ASSUME NEW s \in Seq(ARow)
    PROVE  /\ Degraded(s) \in Nat
           /\ \A x \in ARow : Degraded(Append(s, x)) =
                IF x.is \in Deprecated THEN Degraded(s) + 1 ELSE Degraded(s)
<1> DEFINE S == {k \in DOMAIN s : s[k].is \in Deprecated}
<1>1. DOMAIN s = 1..Len(s) /\ Len(s) \in Nat  OBVIOUS
<1>2. IsFiniteSet(DOMAIN s) /\ S \in SUBSET DOMAIN s  BY <1>1, FS_Interval
<1>3. IsFiniteSet(S)  BY <1>2, FS_Subset
<1>4. Degraded(s) = Cardinality(S)  BY DEF Degraded
<1>5. Cardinality(S) \in Nat  BY <1>3, FS_CardinalityType
<1>6. ASSUME NEW x \in ARow
      PROVE  Degraded(Append(s, x)) = IF x.is \in Deprecated THEN Degraded(s) + 1 ELSE Degraded(s)
  <2> DEFINE t == Append(s, x)
             n == Len(s) + 1
             T == {k \in DOMAIN t : t[k].is \in Deprecated}
  <2>1. DOMAIN t = 1..n /\ t[n] = x /\ \A k \in 1..Len(s) : t[k] = s[k]  BY <1>1
  <2>2. Degraded(t) = Cardinality(T)  BY DEF Degraded
  <2>3. \A k : k \in T <=> k \in S \/ (k = n /\ x.is \in Deprecated)
    <3> TAKE k
    <3>1. k \in 1..n <=> k \in 1..Len(s) \/ k = n  BY <1>1
    <3>2. n \notin 1..Len(s)  BY <1>1
    <3> HIDE DEF t, n
    <3> QED BY <1>1, <2>1, <3>1, <3>2
  <2>4. n \notin S  BY <1>1
  <2> HIDE DEF S, T, t, n
  <2>5. CASE x.is \in Deprecated
    <3>1. T = S \cup {n}  BY <2>3, <2>5
    <3>2. Cardinality(T) = Cardinality(S) + 1  BY <1>3, <2>4, <3>1, FS_AddElement
    <3> QED BY <1>4, <2>2, <2>5, <3>2 DEF t
  <2>6. CASE x.is \notin Deprecated
    <3>1. T = S  BY <2>3, <2>6
    <3> QED BY <1>4, <2>2, <2>6, <3>1 DEF t
  <2> QED BY <2>5, <2>6
<1> QED BY <1>4, <1>5, <1>6

(* Where fewer cells may turn out degraded, fewer rows may stop the walk.  *)
LEMMA FewerStops ==
    ASSUME NEW r \in RowsOf, NEW w \in Walks, NEW c, NEW d,
           \A j \in Cells : d[w][j] \notin Says \ Deprecated => c[w][j] \notin Says \ Deprecated,
           NEW l \in Int, NEW k \in Int, k <= l, l <= N, Unstopped(r, c, w, l)
    PROVE  Unstopped(r, d, w, k)
<1> SUFFICES ASSUME NEW m \in (Len(r[w]) + 1)..(k - 2), MayStop(r, d, w, m)
             PROVE  FALSE
  BY DEF Unstopped
<1> DEFINE n == Len(r[w])
<1>1. r[w] \in Seq(ARow) /\ n \in Nat /\ N \in Int  BY RulesAssumption DEF RowsOf
<1>2. m \in Int /\ n + 1 <= m /\ m <= k - 2  BY <1>1
<1>3. m \in (n + 1)..(l - 2) /\ m <= N  BY <1>1, <1>2
<1>4. Worst(d, w, n, m) \in SUBSET Worst(c, w, n, m)
  <2> SUFFICES ASSUME NEW j \in (n + 1)..m, d[w][j] \notin Says \ Deprecated
               PROVE  c[w][j] \notin Says \ Deprecated
    BY DEF Worst
  <2>1. j \in Cells  BY <1>1, <1>2, <1>3 DEF Cells
  <2> QED BY <2>1
<1> DEFINE C == Worst(c, w, n, m)
           D == Worst(d, w, n, m)
           g == Degraded(r[w])
<1>5. IsFiniteSet(C) /\ Cardinality(C) \in Nat /\ Cardinality(D) \in Nat  BY <1>1, <1>2, WorstIs
<1>6. g \in Nat  BY <1>1, DegradedIs
<1>7. TooDegraded(g + Cardinality(D), m)  BY DEF MayStop
<1>8. D \in SUBSET C  BY <1>4
<1>9. ~TooDegraded(g + Cardinality(C), m)  BY <1>3 DEF Unstopped, MayStop
<1> HIDE DEF C, D, g, n
<1>10. Cardinality(D) <= Cardinality(C)  BY <1>5, <1>8, FS_Subset
<1>11. g + Cardinality(D) \in Nat /\ g + Cardinality(C) \in Nat
       /\ g + Cardinality(D) <= g + Cardinality(C)
  BY <1>5, <1>6, <1>10
<1>12. TooDegraded(g + Cardinality(C), m)  BY <1>2, <1>7, <1>11, WorseIsWorse
<1> QED BY <1>9, <1>12

(* Where a block ends, and that the next one ends no earlier.              *)
LEMMA BoundaryIs ==
    ASSUME NEW n \in Nat, NEW b \in Nat
    PROVE  /\ Boundary(n, b) \in Int /\ Boundary(n, b + 1) \in Int
           /\ Boundary(n, b) <= Boundary(n, b + 1)
<1> DEFINE x == (b + 1) * n
           y == (b + 1 + 1) * n
           p == Min({N, x})
           q == Min({N, y})
<1>1. N \in Int /\ x \in Int  BY RulesAssumption
<1>2. y = x + n /\ y \in Int  BY <1>1
<1>3. Boundary(n, b) = p /\ Boundary(n, b + 1) = q  BY DEF Boundary
<1> HIDE DEF x, y
<1>4. p \in {N, x} /\ p <= N /\ p <= x  BY <1>1, OfTwo
<1>5. q \in {N, y} /\ q <= N /\ q <= y  BY <1>1, <1>2, OfTwo
<1> HIDE DEF p, q
<1>6. p \in Int /\ q \in Int /\ p <= q  BY <1>1, <1>2, <1>4, <1>5
<1> QED BY <1>3, <1>6


(* A walk is launched no further than one cell past a row the rate could   *)
(* stop it at, or past its block.                                           *)
LEMMA HorizonGuards ==
    ASSUME PhaseInv, NEW w \in Walks, NEW l \in Int
    PROVE  /\ LaunchHorizon(w, l) \in Int /\ LaunchHorizon(w, l) <= l
           /\ Unstopped(rows, cell, w, LaunchHorizon(w, l))
<1> DEFINE h == Horizon(w, l - 2)
           T == Taken(w)
           x == LaunchHorizon(w, l)
<1>1. x = IF h = {} THEN l ELSE Min({l, Min(h) + 1})  BY DEF LaunchHorizon
<1>2. T \in Nat /\ T = Len(rows[w])
  <2>1. rows[w] \in Seq(ARow)  BY DEF PhaseInv, RowsOK, RowsOf
  <2> QED BY <2>1 DEF Taken
<1>3. IsFiniteSet(h) /\ \A m \in h : m \in Int
  <2>1. l - 2 \in Int  OBVIOUS
  <2>2. IsFiniteSet(h) /\ \A m \in h : m \in 1..(l - 2)
    BY <2>1, HorizonIs DEF PhaseInv, RowsOK
  <2> HIDE DEF h
  <2> QED BY <2>2
<1>4. \A m \in (T + 1)..(l - 2) : MayStop(rows, cell, w, m) => m \in h
  <2> SUFFICES ASSUME NEW m \in (T + 1)..(l - 2), MayStop(rows, cell, w, m) PROVE m \in h
    OBVIOUS
  <2>1. (T + 1)..(l - 2) # {}  OBVIOUS
  <2>2. TooDegraded(Degraded(rows[w]) + Cardinality({i \in (T + 1)..m : cell[w][i] \notin Says \ Deprecated}), m)
    BY <1>2 DEF MayStop, Worst
  <2> QED BY <2>1, <2>2 DEF Horizon
<1> HIDE DEF h, T, x
<1>5. h # {} => Min(h) \in Int /\ \A m \in h : Min(h) <= m  BY <1>3, MinIsLeast
<1>6. x \in Int /\ x <= l /\ (h # {} => x <= Min(h) + 1)
  <2>1. CASE h = {}  BY <1>1, <2>1
  <2>2. CASE h # {}
    <3> DEFINE a == Min(h) + 1
               y == Min({l, a})
    <3>1. a \in Int  BY <1>5, <2>2
    <3>2. x = y  BY <1>1, <2>2
    <3> HIDE DEF a
    <3>3. y \in {l, a} /\ y <= l /\ y <= a  BY <3>1, OfTwo
    <3> HIDE DEF y
    <3>4. x \in Int /\ x <= l /\ x <= a  BY <3>1, <3>2, <3>3
    <3> QED BY <3>4 DEF a
  <2> QED BY <2>1, <2>2
<1>7. Unstopped(rows, cell, w, x)
  <2> SUFFICES ASSUME NEW m \in (Len(rows[w]) + 1)..(x - 2), MayStop(rows, cell, w, m)
               PROVE  FALSE
    BY DEF Unstopped
  <2>1. m \in Int /\ m <= x - 2 /\ T + 1 <= m  BY <1>2, <1>6
  <2>2. m \in (T + 1)..(l - 2)  BY <1>2, <1>6, <2>1
  <2>3. m \in h  BY <1>4, <2>2
  <2>4. h # {} /\ Min(h) \in Int /\ Min(h) <= m  BY <1>5, <2>3
  <2> QED BY <1>6, <2>1, <2>4
<1> QED BY <1>6, <1>7 DEF x

LEMMA LastGuards ==
    ASSUME PhaseInv, NEW w \in Walks, NEW k \in Int
    PROVE  Unstopped(rows, cell, w, Last(w, k)) /\ WithinBlock(Last(w, k))
<1> DEFINE b == Boundary(how.size, block) + 1
           T == {N, Submitted(w) + k}
           S == T \cup (IF Bounded THEN {b} ELSE {})
           l == Min(S)
<1>1. N \in Int /\ Submitted(w) \in Int /\ how.size \in Nat /\ block \in Nat
  BY RulesAssumption, SubmittedAre, Setup DEF PhaseInv, Types, CellsOK
<1>2. b \in Int  BY <1>1, BoundaryIs
<1>3. Last(w, k) = LaunchHorizon(w, l)  BY DEF Last
<1>4. WithinBlock(Last(w, k)) <=> (Bounded => Last(w, k) <= b)  BY DEF WithinBlock
<1> HIDE DEF b
<1>5. IsFiniteSet(T) /\ (\A y \in T : y \in Int) /\ T # {}
  <2>1. IsFiniteSet({N}) /\ IsFiniteSet({N} \cup {Submitted(w) + k})
    BY FS_Singleton, FS_AddElement
  <2>2. T = {N} \cup {Submitted(w) + k}  OBVIOUS
  <2>3. IsFiniteSet(T)  BY <2>1, <2>2
  <2> QED BY <1>1, <2>3
<1> HIDE DEF T
<1>6. IsFiniteSet(S) /\ (\A y \in S : y \in Int) /\ S # {} /\ (Bounded => b \in S)
  <2>1. S = T \/ S = T \cup {b}  OBVIOUS
  <2>2. IsFiniteSet(S)  BY <1>5, <2>1, FS_AddElement
  <2> QED BY <1>2, <1>5, <2>2
<1> HIDE DEF S
<1>7. l \in Int /\ (Bounded => l <= b)  BY <1>6, MinIsLeast
<1> HIDE DEF l
<1>8. /\ LaunchHorizon(w, l) \in Int /\ LaunchHorizon(w, l) <= l
      /\ Unstopped(rows, cell, w, LaunchHorizon(w, l))
  BY <1>7, HorizonGuards
<1> QED BY <1>2, <1>3, <1>4, <1>7, <1>8

(* What follows a turn takes no verdict back; only the close of a block    *)
(* stops walks, none of which comes after the one that had the turn.        *)
LEMMA AfterCuts ==
    ASSUME NEW v \in [Walks -> Verdicts], NEW r, NEW t \in Walks, NEW b \in Nat, NEW size \in Nat,
           NEW to \in After(v, r, t, b, size)
    PROVE  /\ to.block \in {b, b + 1}
           /\ \A w \in Walks :
                /\ to.verdict[w] = "none" => v[w] = "none"
                /\ v[w] = "none" /\ to.verdict[w] = "rule" => size # 0 /\ w <= t
                /\ (size # 0 /\ to.turn \in Walks /\ to.verdict[w] = "none" /\ w < to.turn)
                     => to.block = b /\ w <= t
<1> DEFINE later == {w \in Undecided(v) : w > t}
           On(u, n) == [verdict |-> u, block |-> n,
                        turn |-> IF Undecided(u) = {} THEN Over ELSE Min(Undecided(u))]
<1>1. After(v, r, t, b, size) =
        CASE later # {} -> {[verdict |-> v, block |-> b, turn |-> Min(later)]}
          [] later = {} /\ size = 0 -> {[verdict |-> v, block |-> b, turn |-> Over]}
          [] OTHER -> {On(Closed(v, r, s), b + 1) : s \in SUBSET Undecided(v)}
  BY DEF After
<1>2. \A w \in Walks : w \in Int  BY RulesAssumption DEF Walks
<1>3. CASE later # {}
  <2>1. to = [verdict |-> v, block |-> b, turn |-> Min(later)]  BY <1>1, <1>3
  <2>2. Min(later) \in Walks /\ \A w \in later : Min(later) <= w
    BY <1>3, LeastWalk DEF Undecided
  <2>3. \A w \in Walks : v[w] = "none" /\ ~(w <= t) => w \in later
    BY <1>2 DEF Undecided
  <2> DEFINE m == Min(later)
  <2>4. to.verdict = v /\ to.block = b /\ to.turn = m  BY <2>1
  <2>5. m \in Walks /\ \A w \in later : m <= w  BY <2>2
  <2> HIDE DEF later, m
  <2>6. ASSUME NEW w \in Walks, v[w] = "none", w < m PROVE w <= t
    BY <1>2, <2>3, <2>5, <2>6
  <2> QED BY <2>4, <2>6
<1>4. CASE later = {} /\ size = 0
  <2>1. to = [verdict |-> v, block |-> b, turn |-> Over]  BY <1>1, <1>4
  <2>2. Over \notin Walks  BY RulesAssumption DEF Over, Walks
  <2> QED BY <1>4, <2>1, <2>2
<1>5. CASE later = {} /\ size # 0
  <2>1. PICK s \in SUBSET Undecided(v) : to = On(Closed(v, r, s), b + 1)  BY <1>1, <1>5
  <2> DEFINE u == Closed(v, r, s)
  <2>2. \A w \in Walks : u[w] = "none" => v[w] = "none"  BY DEF Closed, Undecided
  <2>3. to.verdict = u /\ to.block = b + 1
        /\ to.turn = IF Undecided(u) = {} THEN Over ELSE Min(Undecided(u))
    BY <2>1
  <2> HIDE DEF u
  <2>4. \A w \in Undecided(u) : Min(Undecided(u)) <= w  BY LeastWalk DEF Undecided
  <2>5. \A w \in Walks : v[w] = "none" => w <= t  BY <1>2, <1>5 DEF Undecided
  <2>6. ASSUME NEW w \in Walks, u[w] = "none", to.turn \in Walks, w < to.turn PROVE FALSE
    <3>1. w \in Undecided(u)  BY <2>6 DEF Undecided
    <3>2. to.turn <= w  BY <2>3, <2>4, <3>1
    <3> QED BY <1>2, <2>6, <3>2
  <2> QED BY <1>5, <2>2, <2>3, <2>5, <2>6
<1> QED BY <1>3, <1>4, <1>5

LEMMA SameSubmitted ==
    ASSUME NEW w \in Walks, \A i \in Cells : cell'[w][i] = "no" <=> cell[w][i] = "no"
    PROVE  Submitted(w)' = Submitted(w)
BY DEF Submitted


(* Where verdicts, turns and blocks stand still.                            *)
LEMMA RowsMove ==
    ASSUME PhaseInv, CutInv, NEW r, NEW c,
           \A w \in Walks, i \in Cells : c[w][i] = "no" <=> cell[w][i] = "no",
           \A w \in Live : Unstopped(r, c, w, Submitted(w)),
           \A w \in Walks : w < turn => r[w] = rows[w],
           rows' = r, cell' = c, UNCHANGED <<how, verdict, turn, block>>, stage' # "filling"
    PROVE  CutInv'
<1>1. Live' = Live /\ Bounded' = Bounded  BY DEF Live, Undecided, Bounded
<1>2. ASSUME NEW w \in Live
      PROVE  Unstopped(rows', cell', w, Submitted(w)') /\ WithinBlock(Submitted(w))'
  <2>1. w \in Walks  BY DEF Live, Undecided
  <2>2. Submitted(w)' = Submitted(w)  BY <2>1, SameSubmitted
  <2>3. Unstopped(r, c, w, Submitted(w)) /\ WithinBlock(Submitted(w))  BY DEF CutInv, Guarded
  <2> QED BY <1>1, <2>2, <2>3 DEF WithinBlock
<1>3. Guarded'  BY <1>1, <1>2 DEF Guarded
<1>4. BlocksDone'
  <2> SUFFICES ASSUME Bounded, turn \in Walks, NEW w \in Live, w < turn
               PROVE  Len(rows'[w]) = Boundary(how.size, block)
    BY <1>1 DEF BlocksDone
  <2>1. w \in Walks  BY DEF Live, Undecided
  <2>2. Len(rows[w]) = Boundary(how.size, block)  BY DEF CutInv, BlocksDone
  <2> QED BY <2>1, <2>2
<1>5. FillGuarded'  BY DEF FillGuarded
<1> QED BY <1>3, <1>4, <1>5 DEF CutInv

(* Where the turn goes on, as far as cuts are concerned.                    *)
LEMMA GoesTo ==
    ASSUME turn \in Walks, block \in Nat, how.size \in Nat,
           NEW v \in [Walks -> Verdicts], NEW r, NEW c, NEW h, Goes(v, r, c, h)
    PROVE  /\ \A w \in Walks : v[w] # "none" => verdict'[w] = v[w]
           /\ block' \in {block, block + 1}
           /\ \A w \in Walks :
                /\ verdict'[w] = "none" => v[w] = "none"
                /\ v[w] = "none" /\ verdict'[w] = "rule" => how.size # 0 /\ w <= turn
                /\ (how.size # 0 /\ turn' \in Walks /\ verdict'[w] = "none" /\ w < turn')
                     => block' = block /\ w <= turn
<1> DEFINE n == how.size
<1>1. PICK to \in After(v, r, turn, block, n) :
        verdict' = to.verdict /\ turn' = to.turn /\ block' = to.block
  BY DEF Goes
<1>2. n \in Nat  OBVIOUS
<1>3. n = how.size  OBVIOUS
<1> HIDE DEF n
<1>4. /\ to.verdict \in [Walks -> Verdicts]
      /\ \A w \in Walks : v[w] # "none" => to.verdict[w] = v[w]
      /\ to.turn \in Walks \cup {Over}
      /\ to.turn \in Walks => to.verdict[to.turn] = "none"
      /\ to.block \in Nat
  BY <1>2, AfterIs
<1>5. /\ to.block \in {block, block + 1}
      /\ \A w \in Walks :
           /\ to.verdict[w] = "none" => v[w] = "none"
           /\ v[w] = "none" /\ to.verdict[w] = "rule" => n # 0 /\ w <= turn
           /\ (n # 0 /\ to.turn \in Walks /\ to.verdict[w] = "none" /\ w < to.turn)
                => to.block = block /\ w <= turn
  BY <1>2, AfterCuts
<1> QED BY <1>1, <1>3, <1>4, <1>5

(* Where the turn goes on from verdicts v, rows r and cells c.              *)
LEMMA GoesCuts ==
    ASSUME PhaseInv, CutInv, turn \in Walks,
           NEW v \in [Walks -> Verdicts], \A w \in Walks : v[w] = "none" => verdict[w] = "none",
           NEW r \in RowsOf, NEW c \in Grid, NEW h,
           \A w \in Walks, i \in Cells : c[w][i] = "no" <=> cell[w][i] = "no",
           \A w \in Walks : v[w] = "none" => Unstopped(r, c, w, Submitted(w)),
           Bounded => \A w \in Walks : v[w] = "none" /\ w <= turn =>
                         Len(r[w]) = Boundary(how.size, block),
           Goes(v, r, c, h), rows' = r, how' = how, stage' # "filling"
    PROVE  CutInv'
<1>1. how.size \in Nat /\ block \in Nat  BY Setup DEF PhaseInv, Types
<1>2. cell' = Dropped(c, verdict')  BY DEF Goes
<1>3. \A w \in Walks : v[w] # "none" => verdict'[w] = v[w]  BY <1>1, GoesTo
<1>4. /\ block' \in {block, block + 1}
      /\ \A w \in Walks :
           /\ verdict'[w] = "none" => v[w] = "none"
           /\ v[w] = "none" /\ verdict'[w] = "rule" => how.size # 0 /\ w <= turn
           /\ (how.size # 0 /\ turn' \in Walks /\ verdict'[w] = "none" /\ w < turn')
                => block' = block /\ w <= turn
  BY <1>1, GoesTo
<1>5. \A w \in Walks, i \in Cells :
        /\ cell'[w][i] = "no" <=> c[w][i] = "no"
        /\ verdict'[w] = "none" => cell'[w][i] = c[w][i]
  BY <1>2 DEF Dropped, Outcomes, Says
<1>6. \A w \in Walks : Submitted(w)' = Submitted(w)  BY <1>5, SameSubmitted
<1>7. \A w \in Walks : Submitted(w) \in Int /\ Submitted(w) <= N
  <2>1. N \in Int  BY RulesAssumption
  <2>2. \A w \in Walks : Submitted(w) \in 0..N  BY SubmittedAre DEF PhaseInv, Types, CellsOK
  <2> QED BY <2>1, <2>2
<1>8. \A w \in Walks : v[w] = "none" => WithinBlock(Submitted(w))
  BY DEF CutInv, Guarded, Live, Undecided
<1> DEFINE b == Boundary(how.size, block)
           e == Boundary(how.size, block')
<1>9. b \in Int /\ e \in Int /\ b <= e
  <2>1. /\ b \in Int /\ Boundary(how.size, block + 1) \in Int
        /\ b <= Boundary(how.size, block + 1)
    BY <1>1, BoundaryIs
  <2>2. e = b \/ e = Boundary(how.size, block + 1)  BY <1>4
  <2> HIDE DEF b, e
  <2> QED BY <2>1, <2>2
<1>10. Bounded <=> how.size # 0  BY <1>1 DEF Bounded
<1>11. ASSUME NEW w \in Walks, verdict'[w] = "none"
       PROVE  Unstopped(rows', cell', w, Submitted(w)') /\ WithinBlock(Submitted(w))'
  <2> DEFINE s == Submitted(w)
  <2>1. v[w] = "none"  BY <1>4, <1>11
  <2>2. Unstopped(r, c, w, s)  BY <2>1
  <2>3. s \in Int /\ s <= N /\ s <= s  BY <1>7
  <2>4. \A j \in Cells : cell'[w][j] \notin Says \ Deprecated => c[w][j] \notin Says \ Deprecated
    BY <1>5, <1>11
  <2>5. Bounded => s <= b + 1  BY <1>8, <2>1 DEF WithinBlock
  <2>6. Submitted(w)' = s  BY <1>6
  <2>7. WithinBlock(Submitted(w))' <=> (Bounded => s <= e + 1)
    BY <2>6 DEF WithinBlock, Bounded
  <2> HIDE DEF s, b, e
  <2>8. Unstopped(r, cell', w, s)  BY <2>2, <2>3, <2>4, FewerStops
  <2>9. Bounded => s <= e + 1  BY <1>9, <2>3, <2>5
  <2> QED BY <2>6, <2>7, <2>8, <2>9
<1>12. Guarded'
  <2>1. Live' = {w \in Walks : verdict'[w] = "none"}  BY DEF Live, Undecided
  <2> QED BY <1>11, <2>1 DEF Guarded
<1>13. BlocksDone'
  <2> SUFFICES ASSUME Bounded', turn' \in Walks, NEW w \in Walks, verdict'[w] = "none", w < turn'
               PROVE  Len(rows'[w]) = e
    BY DEF BlocksDone, Live, Undecided
  <2>1. Bounded  BY DEF Bounded
  <2>2. block' = block /\ w <= turn /\ v[w] = "none"  BY <1>4, <1>10, <2>1
  <2> QED BY <2>1, <2>2
<1>14. FillGuarded'  BY DEF FillGuarded
<1> QED BY <1>12, <1>13, <1>14 DEF CutInv

(* Where the row last taken is judged.                                      *)
LEMMA JudgedCuts ==
    ASSUME PhaseInv, CutInv, turn \in Walks,
           NEW r \in RowsOf, NEW c \in Grid, NEW h,
           \A w \in Walks, i \in Cells : c[w][i] = "no" <=> cell[w][i] = "no",
           \A w \in Live : Unstopped(r, c, w, Submitted(w)),
           \A w \in Walks \ {turn} : r[w] = rows[w],
           Judged(r, c, h), rows' = r, how' = how, stage' # "filling"
    PROVE  CutInv'
<1> DEFINE j == Judgement(r[turn], how.size)
           v == [verdict EXCEPT ![turn] = j]
           ends == j # "none" \/ (Bounded /\ Len(r[turn]) = Boundary(how.size, block))
<1>1. verdict \in [Walks -> Verdicts] /\ verdict[turn] = "none"
  BY DEF PhaseInv, Types, TurnOK
<1>2. j \in Verdicts  BY DEF Judgement, Verdicts
<1>3. \A w \in Walks : w \in Int  BY RulesAssumption DEF Walks
<1>4. \/ ends /\ Goes(v, r, c, h)
      \/ cell' = c /\ UNCHANGED <<verdict, turn, block>>
  BY DEF Judged
<1> HIDE DEF j
<1>5. v \in [Walks -> Verdicts] /\ v[turn] = j /\ \A w \in Walks \ {turn} : v[w] = verdict[w]
  BY <1>1, <1>2
<1> HIDE DEF v
<1>6. CASE ends /\ Goes(v, r, c, h)
  <2>1. \A w \in Walks : v[w] = "none" => verdict[w] = "none"  BY <1>1, <1>5
  <2>2. \A w \in Walks : v[w] = "none" => Unstopped(r, c, w, Submitted(w))
    BY <2>1 DEF Live, Undecided
  <2>3. Bounded => \A w \in Walks : v[w] = "none" /\ w <= turn =>
                     Len(r[w]) = Boundary(how.size, block)
    <3> SUFFICES ASSUME Bounded, NEW w \in Walks, v[w] = "none", w <= turn
                 PROVE  Len(r[w]) = Boundary(how.size, block)
      OBVIOUS
    <3>1. CASE w = turn  BY <1>5, <1>6, <3>1
    <3>2. CASE w # turn
      <4>1. w < turn  BY <1>3, <3>2
      <4>2. w \in Live  BY <2>1 DEF Live, Undecided
      <4>3. Len(rows[w]) = Boundary(how.size, block)  BY <4>1, <4>2 DEF CutInv, BlocksDone
      <4> QED BY <3>2, <4>3
    <3> QED BY <3>1, <3>2
  <2>4. Goes(v, r, c, h)  BY <1>6
  <2> QED BY <1>5, <2>1, <2>2, <2>3, <2>4, GoesCuts
<1>7. CASE cell' = c /\ UNCHANGED <<verdict, turn, block>>
  <2>1. \A w \in Walks : w < turn => r[w] = rows[w]  BY <1>3
  <2> QED BY <1>7, <2>1, RowsMove
<1> QED BY <1>4, <1>6, <1>7


(* The worst a walk may come to at a row is the same before and after its  *)
(* next row is taken: the cell that came back is a row, or one of the       *)
(* degraded.                                                                *)
LEMMA TakingGuards ==
    ASSUME PhaseInv, CutInv, turn \in Walks, NEW o \in Says, HeadIs(o)
    PROVE  LET i == Taken(turn) + 1
               r == [rows EXCEPT ![turn] = Append(@, Row(i, o))]
               c == [cell EXCEPT ![turn][i] = "taken"]
           IN  /\ \A w \in Live : Unstopped(r, c, w, Submitted(w))
               /\ TooDegraded(Degraded(r[turn]), i) => Submitted(turn) <= i + 1
<1> DEFINE T == Taken(turn)
           i == T + 1
           s == Append(rows[turn], Row(i, o))
           r == [rows EXCEPT ![turn] = s]
           c == [cell EXCEPT ![turn][i] = "taken"]
<1>1. /\ rows \in RowsOf /\ rows[turn] \in Seq(ARow) /\ T \in Nat /\ T = Len(rows[turn])
      /\ N \in Nat /\ i \in Cells /\ i <= N
  BY RulesAssumption DEF PhaseInv, RowsOK, RowsOf, HeadIs, Taken, Cells
<1>2. r[turn] = s /\ Len(s) = i /\ \A w \in Walks \ {turn} : r[w] = rows[w]
  BY <1>1 DEF RowsOf
<1>3. /\ cell \in Grid /\ cell[turn][i] = o /\ verdict[turn] = "none"
      /\ c[turn] = [cell[turn] EXCEPT ![i] = "taken"]
      /\ \A w \in Walks \ {turn} : c[w] = cell[w]
  BY DEF PhaseInv, Types, TurnOK, HeadIs, Grid
<1>4. \A j \in Cells : c[turn][j] = IF j = i THEN "taken" ELSE cell[turn][j]
  BY <1>1, <1>3 DEF Grid
<1>5. Row(i, o) \in ARow /\ Row(i, o).is = o  BY <1>1 DEF Row, ARow
<1>6. /\ Degraded(rows[turn]) \in Nat
      /\ Degraded(s) = IF o \in Deprecated THEN Degraded(rows[turn]) + 1 ELSE Degraded(rows[turn])
  BY <1>1, <1>5, DegradedIs
<1>7. Submitted(turn) \in Int /\ Submitted(turn) <= N
  BY <1>1, SubmittedAre DEF PhaseInv, Types, CellsOK
<1>8. turn \in Live /\ Unstopped(rows, cell, turn, Submitted(turn))
  BY <1>3 DEF CutInv, Guarded, Live, Undecided
<1> HIDE DEF r, c, s
<1>9. ASSUME NEW m \in Int, i <= m, m <= N
      PROVE  /\ Degraded(s) + Cardinality(Worst(c, turn, i, m))
                  = Degraded(rows[turn]) + Cardinality(Worst(cell, turn, T, m))
             /\ Cardinality(Worst(c, turn, i, m)) \in Nat
  <2> DEFINE A == Worst(c, turn, i, m)
             B == Worst(cell, turn, T, m)
  <2>1. \A j : j \in (T + 1)..m <=> j \in (i + 1)..m \/ j = i  BY <1>1, <1>9
  <2>2. i \notin (i + 1)..m  BY <1>1
  <2>3. ASSUME NEW j \in (i + 1)..m PROVE c[turn][j] = cell[turn][j]
    <3>1. j \in Int /\ i + 1 <= j /\ j <= m  BY <1>1
    <3>2. j \in Cells /\ j # i  BY <1>1, <1>9, <3>1 DEF Cells
    <3> QED BY <1>4, <3>2
  <2>4. i \notin A  BY <2>2 DEF Worst
  <2>5. B = IF o \in Deprecated THEN A \cup {i} ELSE A
    <3>1. \A j : j \in A <=> j \in (i + 1)..m /\ cell[turn][j] \notin Says \ Deprecated
      BY <2>3 DEF Worst
    <3>2. \A j : j \in B <=> j \in (T + 1)..m /\ cell[turn][j] \notin Says \ Deprecated
      BY DEF Worst
    <3>3. cell[turn][i] \notin Says \ Deprecated <=> o \in Deprecated  BY <1>3
    <3> HIDE DEF A, B, i, T
    <3> QED BY <2>1, <3>1, <3>2, <3>3
  <2>6. IsFiniteSet(A) /\ Cardinality(A) \in Nat  BY <1>1, WorstIs
  <2> HIDE DEF A, B, i, T
  <2>7. Cardinality(B) = IF o \in Deprecated THEN Cardinality(A) + 1 ELSE Cardinality(A)
    BY <2>4, <2>5, <2>6, FS_AddElement
  <2>8. Degraded(s) + Cardinality(A) = Degraded(rows[turn]) + Cardinality(B)
    <3> DEFINE a == Cardinality(A)
               b == Cardinality(B)
               d == Degraded(rows[turn])
               e == Degraded(s)
    <3>1. /\ a \in Nat /\ d \in Nat
          /\ b = IF o \in Deprecated THEN a + 1 ELSE a
          /\ e = IF o \in Deprecated THEN d + 1 ELSE d
      BY <1>6, <2>6, <2>7
    <3> HIDE DEF a, b, d, e
    <3>2. e + a = d + b  BY <3>1
    <3> QED BY <3>2 DEF a, b, d, e
  <2> QED BY <2>6, <2>8 DEF A, B
<1>10. ASSUME NEW m \in Int, i <= m, m <= Submitted(turn) - 2
       PROVE  ~TooDegraded(Degraded(s) + Cardinality(Worst(c, turn, i, m)), m)
  <2>1. m \in (Len(rows[turn]) + 1)..(Submitted(turn) - 2)  BY <1>1, <1>7, <1>10
  <2>2. ~MayStop(rows, cell, turn, m)  BY <1>8, <2>1 DEF Unstopped
  <2>3. ~TooDegraded(Degraded(rows[turn]) + Cardinality(Worst(cell, turn, T, m)), m)
    BY <1>1, <2>2 DEF MayStop
  <2>4. i <= m /\ m <= N  BY <1>1, <1>7, <1>10
  <2>5. Degraded(s) + Cardinality(Worst(c, turn, i, m))
          = Degraded(rows[turn]) + Cardinality(Worst(cell, turn, T, m))
    BY <1>9, <2>4
  <2> QED BY <2>3, <2>5
<1>11. ASSUME NEW w \in Live PROVE Unstopped(r, c, w, Submitted(w))
  <2>1. CASE w = turn
    <3> SUFFICES ASSUME NEW m \in (Len(r[turn]) + 1)..(Submitted(turn) - 2)
                 PROVE  ~MayStop(r, c, turn, m)
      BY <2>1 DEF Unstopped
    <3>1. m \in Int /\ i <= m /\ m <= Submitted(turn) - 2  BY <1>1, <1>2, <1>7
    <3>2. ~TooDegraded(Degraded(s) + Cardinality(Worst(c, turn, i, m)), m)  BY <1>10, <3>1
    <3> QED BY <1>2, <3>2 DEF MayStop
  <2>2. CASE w # turn
    <3>1. w \in Walks /\ Unstopped(rows, cell, w, Submitted(w))
      BY DEF CutInv, Guarded, Live, Undecided
    <3>2. r[w] = rows[w] /\ c[w] = cell[w]  BY <1>2, <1>3, <2>2, <3>1 DEF c
    <3> QED BY <3>1, <3>2 DEF Unstopped, MayStop, Worst
  <2> QED BY <2>1, <2>2
<1>12. ASSUME TooDegraded(Degraded(r[turn]), i) PROVE Submitted(turn) <= i + 1
  <2>1. TooDegraded(Degraded(s), i)  BY <1>2, <1>12
  <2>2. Worst(c, turn, i, i) = {}  BY <1>1 DEF Worst
  <2>3. Degraded(s) + Cardinality(Worst(c, turn, i, i)) = Degraded(s)
    <3>1. Cardinality(Worst(c, turn, i, i)) = 0  BY <2>2, FS_EmptySet
    <3>2. Degraded(s) \in Nat  BY <1>6
    <3> QED BY <3>1, <3>2
  <2>4. i \in Int /\ i <= i  BY <1>1
  <2>5. ~(i <= Submitted(turn) - 2)
    <3> SUFFICES ASSUME i <= Submitted(turn) - 2 PROVE FALSE  OBVIOUS
    <3>1. ~TooDegraded(Degraded(s) + Cardinality(Worst(c, turn, i, i)), i)  BY <1>10, <2>4
    <3> QED BY <2>1, <2>3, <3>1
  <2> QED BY <1>7, <2>4, <2>5
<1> QED BY <1>11, <1>12 DEF r, c, s, i, T

Wastes == \A w \in Walks : CutWastes(w)

(* Where a block closes, its walks are within it.                           *)
LEMMA CloseWastes ==
    ASSUME CutInv, NEW w \in Walks, StoppedAtClose(w)
    PROVE  Submitted(w) <= Len(rows'[w]) + 1
BY DEF CutInv, Guarded, WithinBlock, StoppedAtClose, Live, Undecided

(* A step that takes no row.                                                *)
LEMMA NoNewRow ==
    ASSUME PhaseInv, CutInv, rows' = rows
    PROVE  Wastes
<1> SUFFICES ASSUME NEW w \in Walks, RateStops(w) \/ StoppedAtClose(w)
             PROVE  Submitted(w) <= Len(rows'[w]) + 1
  BY DEF Wastes, CutWastes
<1>1. Len(rows[w]) \in Nat  BY DEF PhaseInv, RowsOK, RowsOf
<1>2. ~RateStops(w)  BY <1>1 DEF RateStops, Taken
<1> QED BY <1>2, CloseWastes

(* A step of the calls, of the operator, or of the phase beside taking and *)
(* filling.                                                                 *)
LEMMA QuietCuts ==
    ASSUME PhaseInv, CutInv, UNCHANGED <<how, rows, verdict, turn, block, cell>>,
           stage' # "filling"
    PROVE  CutInv' /\ Wastes
<1>1. \A w \in Live : Unstopped(rows, cell, w, Submitted(w))  BY DEF CutInv, Guarded
<1>2. CutInv'
  <2> DEFINE r == rows
             c == cell
  <2>1. /\ \A w \in Walks, i \in Cells : c[w][i] = "no" <=> cell[w][i] = "no"
        /\ \A w \in Live : Unstopped(r, c, w, Submitted(w))
        /\ \A w \in Walks : w < turn => r[w] = rows[w]
        /\ rows' = r /\ cell' = c /\ UNCHANGED <<how, verdict, turn, block>>
    BY <1>1
  <2> HIDE DEF r, c
  <2> QED BY <2>1, RowsMove
<1> QED BY <1>2, NoNewRow

LEMMA HonourSkipCuts == PhaseInv /\ CutInv /\ HonourSkip => CutInv' /\ Wastes
<1> SUFFICES ASSUME PhaseInv, CutInv, HonourSkip PROVE CutInv' /\ Wastes  OBVIOUS
<1>1. turn \in Walks /\ verdict[turn] = "none" /\ stage' = "awake" /\ how' = how /\ rows' = rows
  BY DEF HonourSkip, Awake, PhaseInv, TurnOK
<1> DEFINE v == [verdict EXCEPT ![turn] = "skip"]
           r == rows
           c == cell
<1>2. /\ v \in [Walks -> Verdicts] /\ v[turn] = "skip"
      /\ \A w \in Walks \ {turn} : v[w] = verdict[w]
  BY <1>1 DEF PhaseInv, Types, Verdicts
<1>3. Goes(v, r, c, has) /\ r \in RowsOf /\ c \in Grid /\ rows' = r
  BY <1>1 DEF HonourSkip, PhaseInv, RowsOK, Types
<1> HIDE DEF v
<1>4. \A w \in Walks : v[w] = "none" => verdict[w] = "none" /\ w # turn  BY <1>2
<1>5. \A w \in Walks, i \in Cells : c[w][i] = "no" <=> cell[w][i] = "no"  OBVIOUS
<1>6. \A w \in Walks : v[w] = "none" => Unstopped(r, c, w, Submitted(w))
  BY <1>4 DEF CutInv, Guarded, Live, Undecided
<1>7. Bounded => \A w \in Walks : v[w] = "none" /\ w <= turn =>
                    Len(r[w]) = Boundary(how.size, block)
  <2>1. \A w \in Walks : w <= turn /\ w # turn => w < turn
    BY <1>1, RulesAssumption DEF Walks
  <2> QED BY <1>1, <1>4, <2>1 DEF CutInv, BlocksDone, Live, Undecided
<1>8. rows = r /\ cell = c /\ stage' # "filling"  BY <1>1
<1> HIDE DEF r, c
<1>9. CutInv'  BY <1>1, <1>2, <1>3, <1>4, <1>5, <1>6, <1>7, <1>8, GoesCuts
<1> QED BY <1>1, <1>9, NoNewRow

LEMMA SettleCuts == PhaseInv /\ CutInv /\ Settle => CutInv' /\ Wastes
<1> SUFFICES ASSUME PhaseInv, CutInv, Settle PROVE CutInv' /\ Wastes  OBVIOUS
<1>1. settling /\ turn \in Walks /\ stage = "awake" /\ how' = how /\ rows' = rows
  BY DEF Settle, Settled, Awake
<1> DEFINE i == Settles
           ok == {p \in Started(i) : \A q \in FailedCatch : p < q}
           mute == {p \in ok : catch[p][i] = "error"}
           read == [p \in Priors |->
                       IF p \in ok \ mute THEN has[p] \cup {i} ELSE has[p]]
<1>2. \/ Judged(rows, cell, read) /\ stage' = stage
      \/ /\ Stops("failure") \/ Stops("budget")
         /\ UNCHANGED <<verdict, turn, block, cell>>
  BY DEF Settle
<1> HIDE DEF read
<1>3. stage' # "filling"  BY <1>1, <1>2 DEF Stops
<1>4. CASE Judged(rows, cell, read)
  <2> DEFINE r == rows
             c == cell
  <2>1. /\ r \in RowsOf /\ c \in Grid
        /\ \A w \in Walks, j \in Cells : c[w][j] = "no" <=> cell[w][j] = "no"
        /\ \A w \in Live : Unstopped(r, c, w, Submitted(w))
        /\ \A w \in Walks \ {turn} : r[w] = rows[w]
        /\ Judged(r, c, read) /\ rows' = r
    BY <1>1, <1>4 DEF PhaseInv, RowsOK, Types, CutInv, Guarded
  <2> HIDE DEF r, c
  <2>2. CutInv'  BY <1>1, <1>3, <2>1, JudgedCuts
  <2> QED BY <1>1, <2>2, NoNewRow
<1>5. CASE UNCHANGED <<verdict, turn, block, cell>>
  BY <1>1, <1>3, <1>5, QuietCuts
<1> QED BY <1>2, <1>4, <1>5

LEMMA TakeHeadCuts == PhaseInv /\ CutInv /\ TakeHead => CutInv' /\ Wastes
<1> SUFFICES ASSUME PhaseInv, CutInv, TakeHead PROVE CutInv' /\ Wastes  OBVIOUS
<1>1. turn \in Walks /\ ~settling /\ stage = "awake" /\ verdict[turn] = "none" /\ how' = how
  BY DEF TakeHead, Awake, PhaseInv, TurnOK
<1> DEFINE i == Taken(turn) + 1
           q(o) == [rows EXCEPT ![turn] = Append(@, Row(i, o))]
           c == [cell EXCEPT ![turn][i] = "taken"]
           abort == [verdict EXCEPT ![turn] = "abort"]
<1>2. PICK o \in Says :
        /\ HeadIs(o)
        /\ rows' = q(o)
        /\ \/ /\ cell' = c /\ UNCHANGED <<verdict, turn, block>>
              /\ Stops("failure") \/ Stops("budget") \/ stage' = stage
           \/ Goes(abort, q(o), c, has) /\ stage' = stage
           \/ Judged(q(o), c, has) /\ stage' = stage
  BY DEF TakeHead
<1> DEFINE r == q(o)
<1>3. /\ r \in RowsOf /\ Len(r[turn]) = i /\ c \in Grid
      /\ \A w \in Walks, j \in Cells : c[w][j] = "no" <=> cell[w][j] = "no"
  BY <1>1, <1>2, OneRowMore
<1>4. /\ \A w \in Live : Unstopped(r, c, w, Submitted(w))
      /\ TooDegraded(Degraded(r[turn]), i) => Submitted(turn) <= i + 1
  BY <1>1, <1>2, TakingGuards
<1>5. \A w \in Walks \ {turn} : r[w] = rows[w]  BY DEF PhaseInv, RowsOK, RowsOf
<1>6. rows' = r /\ stage' # "filling"  BY <1>1, <1>2 DEF Stops
<1>7. /\ abort \in [Walks -> Verdicts] /\ abort[turn] = "abort"
      /\ \A w \in Walks \ {turn} : abort[w] = verdict[w]
  BY <1>1 DEF PhaseInv, Types, Verdicts
<1>8. \/ cell' = c /\ UNCHANGED <<verdict, turn, block>>
      \/ Goes(abort, r, c, has)
      \/ Judged(r, c, has)
  BY <1>2
<1>9. turn \in Int /\ \A w \in Walks : w \in Int  BY <1>1, RulesAssumption DEF Walks
<1> HIDE DEF r, c, abort, i
<1> SUFFICES CutInv'
  <2> SUFFICES ASSUME NEW w \in Walks, RateStops(w) \/ StoppedAtClose(w)
               PROVE  Submitted(w) <= Len(rows'[w]) + 1
    BY DEF Wastes, CutWastes
  <2>1. CASE w = turn /\ RateStops(w)  BY <1>3, <1>4, <1>6, <2>1 DEF RateStops
  <2>2. CASE w # turn /\ RateStops(w)
    <3>1. Len(rows[w]) \in Nat  BY DEF PhaseInv, RowsOK, RowsOf
    <3> QED BY <1>5, <1>6, <2>2, <3>1 DEF RateStops, Taken
  <2>3. CASE StoppedAtClose(w)  BY <2>3, CloseWastes
  <2> QED BY <2>1, <2>2, <2>3
<1>10. CASE cell' = c /\ UNCHANGED <<verdict, turn, block>>
  <2>1. \A w \in Walks : w < turn => r[w] = rows[w]  BY <1>5, <1>9
  <2> QED BY <1>1, <1>3, <1>4, <1>6, <1>10, <2>1, RowsMove
<1>11. CASE Goes(abort, r, c, has)
  <2>1. \A w \in Walks : abort[w] = "none" => verdict[w] = "none" /\ w # turn  BY <1>7
  <2>2. \A w \in Walks : abort[w] = "none" => Unstopped(r, c, w, Submitted(w))
    BY <1>4, <2>1 DEF Live, Undecided
  <2>3. Bounded => \A w \in Walks : abort[w] = "none" /\ w <= turn =>
                      Len(r[w]) = Boundary(how.size, block)
    <3> SUFFICES ASSUME Bounded, NEW w \in Walks, abort[w] = "none", w <= turn
                 PROVE  Len(r[w]) = Boundary(how.size, block)
      OBVIOUS
    <3>1. w # turn /\ w < turn /\ w \in Live  BY <1>9, <2>1 DEF Live, Undecided
    <3>2. Len(rows[w]) = Boundary(how.size, block)  BY <1>1, <3>1 DEF CutInv, BlocksDone
    <3> QED BY <1>5, <3>1, <3>2
  <2> QED BY <1>1, <1>3, <1>6, <1>7, <1>11, <2>1, <2>2, <2>3, GoesCuts
<1>12. CASE Judged(r, c, has)
  BY <1>1, <1>3, <1>4, <1>5, <1>6, <1>12, JudgedCuts
<1> QED BY <1>8, <1>10, <1>11, <1>12

(* A walk is filled no further than its horizon.                            *)
LEMMA FillCuts == PhaseInv /\ CutInv /\ (BeginFilling \/ FillNext) => CutInv' /\ Wastes
<1> SUFFICES ASSUME PhaseInv, CutInv, BeginFilling \/ FillNext PROVE CutInv' /\ Wastes  OBVIOUS
<1>1. UNCHANGED <<how, rows, verdict, turn, block, cell>> /\ stage \in {"owing", "filling"}
  BY DEF BeginFilling, FillNext, turnVars, callVars
<1>2. CASE stage' = "asks"  BY <1>1, <1>2, QuietCuts
<1>3. CASE \E w \in Walks : Fills(w)
  <2>1. PICK w \in Walks : Fills(w)  BY <1>3
  <2> DEFINE cap == IF w = turn THEN armed ELSE armed - 1
             m == Max({Affordable, RereadsAhead(w, Submitted(w) + 1)})
             k == Min({cap - Out, m})
  <2>2. filler' = w /\ upto' = Last(w, k)  BY <2>1 DEF Fills
  <2>3. k \in Int
    <3>1. armed \in Int /\ left \in Int /\ Out \in Int /\ N \in Int /\ NW \in Int
      BY CallsAreFinite, PhaseAssumption, RulesAssumption DEF PhaseInv, Types
    <3>2. cap - Out \in Int /\ Affordable \in Int
      <4>1. 2 * NW * N + NW \in Int  BY <3>1
      <4> QED BY <3>1, <4>1 DEF Affordable, Unlimited
    <3>3. RereadsAhead(w, Submitted(w) + 1) \in Int
      <4>1. Submitted(w) + 1 \in 1..(N + 1)
        BY SubmittedAre, RulesAssumption DEF PhaseInv, Types, CellsOK
      <4>2. RereadsAhead(w, Submitted(w) + 1) \in 0..(N - (Submitted(w) + 1) + 1)
        BY <4>1, RereadsAre
      <4> QED BY <4>2
    <3>4. m \in Int  BY <3>2, <3>3, OfTwo
    <3> HIDE DEF cap, m
    <3> QED BY <3>2, <3>4, OfTwo
  <2> HIDE DEF k
  <2>4. Unstopped(rows, cell, w, Last(w, k)) /\ WithinBlock(Last(w, k))  BY <2>3, LastGuards
  <2>5. FillGuarded'  BY <1>1, <2>2, <2>4 DEF FillGuarded, WithinBlock, Bounded
  <2>6. Guarded' /\ BlocksDone'
    BY <1>1 DEF CutInv, Guarded, BlocksDone, WithinBlock, Bounded, Live, Undecided, Submitted
  <2> QED BY <1>1, <2>5, <2>6, NoNewRow DEF CutInv
<1>4. CASE FillNext /\ Unfilled # {} /\ Fills(Min(Unfilled))
  <2>1. Min(Unfilled) \in Unfilled  BY <1>4, LeastWalk DEF Unfilled, Live, Undecided
  <2> QED BY <1>3, <1>4, <2>1 DEF Unfilled, Live, Undecided
<1>5. turn \in Walks  BY <1>1 DEF PhaseInv, TurnOK
<1> QED BY <1>2, <1>3, <1>4, <1>5 DEF BeginFilling, FillNext

(* A cell is launched within the horizon its walk was filled to, and what  *)
(* is launched is no worse than what is not.                                *)
LEMMA LaunchCellCuts == PhaseInv /\ CutInv /\ LaunchCell => CutInv' /\ Wastes
<1> SUFFICES ASSUME PhaseInv, CutInv, LaunchCell PROVE CutInv' /\ Wastes  OBVIOUS
<1> DEFINE i == Submitted(filler) + 1
<1>1. /\ UNCHANGED <<how, rows, verdict, turn, block, stage, filler, upto>>
      /\ stage = "filling" /\ Submitted(filler) < upto
  BY DEF LaunchCell, MayLaunch, turnVars
<1>2. filler \in Walks /\ verdict[filler] = "none" /\ upto \in Int /\ upto <= N /\ rows \in RowsOf
  BY <1>1 DEF PhaseInv, TurnOK, Types, RowsOK
<1>3. /\ i \in Cells /\ cell[filler][i] = "no"
      /\ \A w \in Walks, j \in Cells : cell'[w][j] =
            IF w = filler /\ j = i THEN "out" ELSE cell[w][j]
  BY LaunchCellIs
<1>4. Submitted(filler)' = i  BY LaunchAdds
<1>5. \A w \in Walks : Submitted(w) \in Int /\ Submitted(w) <= N
  <2>1. N \in Int  BY RulesAssumption
  <2>2. \A w \in Walks : Submitted(w) \in 0..N  BY SubmittedAre DEF PhaseInv, Types, CellsOK
  <2> QED BY <2>1, <2>2
<1>6. i \in Int /\ i <= upto  BY <1>1, <1>2, <1>5
<1>7. \A w \in Walks, j \in Cells :
        cell'[w][j] \notin Says \ Deprecated => cell[w][j] \notin Says \ Deprecated
  BY <1>3 DEF Says
<1> HIDE DEF i
<1>8. Unstopped(rows, cell, filler, upto) /\ WithinBlock(upto)
  BY <1>1 DEF CutInv, FillGuarded
<1>9. Unstopped(rows, cell', filler, i) /\ Unstopped(rows, cell', filler, upto)
  <2>1. \A j \in Cells : cell'[filler][j] \notin Says \ Deprecated
                           => cell[filler][j] \notin Says \ Deprecated
    BY <1>2, <1>7
  <2>2. upto <= upto  BY <1>2
  <2> QED BY <1>2, <1>6, <1>8, <2>1, <2>2, FewerStops
<1>10. ASSUME NEW w \in Live
       PROVE  Unstopped(rows', cell', w, Submitted(w)') /\ WithinBlock(Submitted(w))'
  <2>1. w \in Walks  BY DEF Live, Undecided
  <2>2. CASE w = filler
    <3>1. Unstopped(rows', cell', w, Submitted(w)')  BY <1>1, <1>4, <1>9, <2>2
    <3>2. WithinBlock(Submitted(w))' <=> (Bounded => i <= Boundary(how.size, block) + 1)
      BY <1>1, <1>4, <2>2 DEF WithinBlock, Bounded
    <3>3. Boundary(how.size, block) \in Int
      BY Setup, BoundaryIs DEF PhaseInv, Types
    <3>4. Bounded => upto <= Boundary(how.size, block) + 1  BY <1>8 DEF WithinBlock
    <3> QED BY <1>2, <1>6, <3>1, <3>2, <3>3, <3>4
  <2>3. CASE w # filler
    <3> DEFINE s == Submitted(w)
    <3>1. \A j \in Cells : cell'[w][j] = "no" <=> cell[w][j] = "no"  BY <1>3, <2>1, <2>3
    <3>2. Submitted(w)' = s  BY <2>1, <3>1, SameSubmitted
    <3>3. Unstopped(rows, cell, w, s) /\ WithinBlock(s)  BY DEF CutInv, Guarded
    <3>4. s \in Int /\ s <= s /\ s <= N  BY <1>5, <2>1
    <3>5. \A j \in Cells : cell'[w][j] \notin Says \ Deprecated
                             => cell[w][j] \notin Says \ Deprecated
      BY <1>7, <2>1
    <3>6. WithinBlock(Submitted(w))'  BY <1>1, <3>2, <3>3 DEF WithinBlock, Bounded
    <3> HIDE DEF s
    <3>7. Unstopped(rows, cell', w, s)  BY <1>2, <2>1, <3>3, <3>4, <3>5, FewerStops
    <3> QED BY <1>1, <3>2, <3>6, <3>7
  <2> QED BY <2>2, <2>3
<1>11. Live' = Live  BY <1>1 DEF Live, Undecided
<1>12. Guarded'  BY <1>10, <1>11 DEF Guarded
<1>13. BlocksDone'  BY <1>1, <1>11 DEF CutInv, BlocksDone, Bounded
<1>14. FillGuarded'  BY <1>1, <1>8, <1>9 DEF FillGuarded, WithinBlock, Bounded
<1> QED BY <1>1, <1>12, <1>13, <1>14, NoNewRow DEF CutInv

(* What comes back is no worse than what is out.                            *)
LEMMA ReturnsCut ==
    ASSUME NEW w \in Walks, NEW i \in Cells
    PROVE  PhaseInv /\ CutInv /\ Returns(w, i) => CutInv' /\ Wastes
<1> SUFFICES ASSUME PhaseInv, CutInv, Returns(w, i) PROVE CutInv' /\ Wastes  OBVIOUS
<1>1. PICK o \in how.answers \cup {"good"} :
        /\ CallReturns(o) /\ Bills(o, i \in how.rereads[w])
        /\ cell' = [cell EXCEPT ![w][i] = IF @ = "out" THEN o ELSE "gone"]
  BY DEF Returns
<1>2. /\ UNCHANGED <<how, rows, verdict, turn, block>>
      /\ stage' \in {"landing", "wakes"}
  BY <1>1, ReturnIs
<1>3. cell[w][i] \in {"out", "drains"} /\ o \in Outcomes /\ cell \in Grid /\ rows \in RowsOf
  BY <1>1, Setup DEF Returns, Calls, Outcomes, Says, PhaseInv, Types, RowsOK
<1> DEFINE r == rows
           c == cell'
<1>4. \A v \in Walks, j \in Cells :
        /\ c[v][j] = "no" <=> cell[v][j] = "no"
        /\ c[v][j] \notin Says \ Deprecated => cell[v][j] \notin Says \ Deprecated
  BY <1>1, <1>3 DEF Grid, Outcomes, Says
<1>5. ASSUME NEW v \in Live PROVE Unstopped(r, c, v, Submitted(v))
  <2> DEFINE s == Submitted(v)
  <2>1. v \in Walks  BY DEF Live, Undecided
  <2>2. Unstopped(r, cell, v, s)  BY DEF CutInv, Guarded
  <2>3. s \in 0..N /\ N \in Nat  BY <2>1, SubmittedAre, RulesAssumption DEF PhaseInv, Types, CellsOK
  <2>4. \A j \in Cells : c[v][j] \notin Says \ Deprecated => cell[v][j] \notin Says \ Deprecated
    BY <1>4, <2>1
  <2>5. r \in RowsOf  BY <1>3
  <2> HIDE DEF c, r, s
  <2>6. s \in Int /\ s <= s /\ s <= N  BY <2>3
  <2>7. Unstopped(r, c, v, s)  BY <2>1, <2>2, <2>4, <2>5, <2>6, FewerStops
  <2> QED BY <2>7 DEF s
<1>6. /\ \A v \in Walks : v < turn => r[v] = rows[v]
      /\ rows' = r /\ cell' = c /\ stage' # "filling"
  BY <1>2
<1> HIDE DEF r, c
<1>7. CutInv'  BY <1>2, <1>4, <1>5, <1>6, RowsMove
<1> QED BY <1>2, <1>7, NoNewRow

LEMMA InitCuts == Init => CutInv
<1> SUFFICES ASSUME Init PROVE CutInv  OBVIOUS
<1>1. \A w \in Walks : Submitted(w) = 0
  <2> SUFFICES ASSUME NEW w \in Walks PROVE Submitted(w) = 0  OBVIOUS
  <2>1. {i \in Cells : cell[w][i] # "no"} = {}  BY DEF Init
  <2> QED BY <2>1, FS_EmptySet DEF Submitted
<1>2. Boundary(how.size, block) \in Int /\ (Bounded => Boundary(how.size, block) >= 0)
  <2> DEFINE n == how.size
             x == (0 + 1) * n
             b == Min({N, x})
  <2>1. n \in Nat /\ N \in Nat  BY Setup, RulesAssumption DEF Init
  <2>2. Boundary(how.size, block) = b  BY DEF Init, Boundary
  <2> HIDE DEF n
  <2>3. x = n  BY <2>1
  <2> HIDE DEF x
  <2>4. N \in Int /\ x \in Int  BY <2>1, <2>3
  <2>5. b \in {N, x} /\ b <= N /\ b <= x  BY <2>4, OfTwo
  <2> HIDE DEF b
  <2> QED BY <2>1, <2>2, <2>3, <2>5
<1>3. ASSUME NEW w \in Walks PROVE Unstopped(rows, cell, w, Submitted(w))
  <2>1. Len(rows[w]) = 0  BY DEF Init
  <2>2. (Len(rows[w]) + 1)..(Submitted(w) - 2) = {}  BY <1>1, <2>1
  <2> QED BY <2>2 DEF Unstopped
<1>4. \A w \in Walks : WithinBlock(Submitted(w))  BY <1>1, <1>2 DEF WithinBlock
<1>5. Guarded  BY <1>3, <1>4 DEF Guarded, Live, Undecided
<1>6. BlocksDone
  <2>1. \A w \in Walks : ~(w < turn)  BY RulesAssumption DEF Init, Walks
  <2> QED BY <2>1 DEF BlocksDone, Live, Undecided
<1>7. FillGuarded  BY DEF Init, FillGuarded
<1> QED BY <1>5, <1>6, <1>7 DEF CutInv

LEMMA CutStep == PhaseInv /\ CutInv /\ [Next]_vars => CutInv' /\ Wastes
<1> SUFFICES ASSUME PhaseInv, CutInv, [Next]_vars PROVE CutInv' /\ Wastes  OBVIOUS
<1>1. CASE UNCHANGED vars
  <2>1. UNCHANGED <<how, rows, verdict, turn, block, cell, stage, filler, upto>>
    BY <1>1 DEF vars, turnVars, callVars, launchVars
  <2>2. CutInv'
    BY <2>1 DEF CutInv, Guarded, BlocksDone, FillGuarded, WithinBlock, Bounded, Live, Undecided,
                Submitted
  <2> QED BY <2>1, <2>2, NoNewRow
<1>2. CASE HonourStop \/ TakeFails \/ BeginLaunch \/ StartOwed \/ Wait \/ Wake \/ Ends \/ Presses
  <2>1. UNCHANGED <<how, rows, verdict, turn, block, cell>> /\ stage' # "filling"
    BY <1>2 DEF HonourStop, TakeFails, BeginLaunch, StartOwed, Wait, Wake, Ends, Finish, Land, Bank,
                Presses, Awake, Stops, turnVars, callVars
  <2> QED BY <2>1, QuietCuts
<1>3. CASE SomeReturns
  <2>1. CASE \E p \in Priors, i \in Cells : CatchUpReturns(p, i)
    <3>1. UNCHANGED <<how, rows, verdict, turn, block, cell>> /\ stage' # "filling"
      BY <2>1 DEF CatchUpReturns, CallReturns, turnVars
    <3> QED BY <3>1, QuietCuts
  <2> QED BY <1>3, <2>1, ReturnsCut DEF SomeReturns
<1> QED BY <1>1, <1>2, <1>3, HonourSkipCuts, SettleCuts, TakeHeadCuts, FillCuts, LaunchCellCuts
        DEF Next, Phase, Takes, Launches

(* Where a walk takes the row that its rate stops it on, and where the close *)
(* of a block stops it, one cell at most is launched that it does not take  *)
(* (query_loop.py Walk.launch_horizon, _ScoringPhase.fill).                 *)
THEOREM CutsWasteOne == Spec => CutWastesOne
<1>1. PhaseInv /\ CutInv /\ [Next]_vars => [\A w \in Walks : CutWastes(w)]_vars
  BY CutStep DEF Wastes
<1> QED BY <1>1, InitCuts, CutStep, PhaseInvariant, PTL DEF Spec, CutWastesOne
=============================================================================
