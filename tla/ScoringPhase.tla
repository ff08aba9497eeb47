----------------------------- MODULE ScoringPhase -----------------------------
(***************************************************************************)
(* A scoring phase (run_walks, _ScoringPhase and Walk of                   *)
(* application/scoring/query_loop, the rate of scoring/classification, the *)
(* catch-ups of application/optimizers/potter/race).                       *)
(*                                                                         *)
(* The walks of a phase measure cells ahead, as many at once as the        *)
(* operator armed and the spend book fits, none so far ahead that a cut    *)
(* would waste more than one.  One walk at a time has the turn: it takes   *)
(* its cells in order, and each row is judged before the next.  A walk     *)
(* that is complete becomes a prior; a prior that lacks the cell just      *)
(* taken is caught up on it before the row is judged.                      *)
(*                                                                         *)
(* The phase is one task: between two waits nothing else of it runs, and   *)
(* calls return while it waits.  The operator's presses are read from a    *)
(* file, so they may be seen at any step.                                  *)
(***************************************************************************)
EXTENDS WalkRules

CONSTANTS
    Settings,       \* ways a phase may be set up
    Depths,         \* depths the operator may arm
    MaxUpsets       \* bound: presses, and calls that come back other than good or degraded

VARIABLES
    how,        \* [size: rows of a block of the race, 0 outside one;
                \*  catching: a race that catches its priors up;
                \*  parent: the cells its parent answered;
                \*  cancels: cancelling a call stops its bill;
                \*  bound, budget: the spend book binds the phase, and the cells it
                \*  could pay;
                \*  rereads: of each walk, the cells that replay unpaid;
                \*  answers: what its calls may come back as, beside good]
    rows, verdict, turn, block,
    cell,       \* cell[w][i]: not launched, out, returned with a result, taken, gone
    settling,   \* the row last taken waits for its catch-ups
    pool, has,  \* the priors, and the cells each has been read on
    unread,     \* history: the priors a row was judged without, asked in vain for its cell
    catch,      \* catch[p][i]: the catch-up of a prior on a cell
    stage,      \* what the phase does next
    filler, room, upto, \* while it launches: the walk, calls it may launch, the last cell
    armed, depth,   \* the depth armed now, and as the phase began to wait
    pause, skip,    \* the operator's presses, until taken
    left,       \* cells the book can still pay at their bound
    stop,       \* why the phase was stopped
    banked,     \* banked[w]: cells kept when it was
    upsets

turnVars == <<rows, verdict, turn, block>>
callVars == <<cell, catch, left, upsets>>
launchVars == <<filler, room, upto, depth>>
pressVars == <<armed, pause, skip>>
endVars == <<stop, banked>>
vars == <<how, turnVars, callVars, settling, pool, has, unread, stage, launchVars,
          pressVars, endVars>>

Cells == 1..N
Outcomes == Says \cup {"raised", "cancelled"}
Stages == {"awake", "owing", "filling", "asks", "waits", "wakes", "landing", "banking",
           "over"}

ASSUME PhaseAssumption ==
    /\ Settings \subseteq [size : Nat, catching : BOOLEAN, parent : SUBSET Cells,
                           cancels : BOOLEAN, bound : BOOLEAN, budget : Nat,
                           rereads : [Walks -> SUBSET Cells],
                           answers : SUBSET Outcomes]
    /\ Depths \subseteq Nat \ {0} /\ MaxUpsets \in Nat

Init ==
    /\ how \in Settings
    /\ rows = [w \in Walks |-> <<>>]
    /\ verdict = [w \in Walks |-> "none"]
    /\ turn = 1 /\ block = 0
    /\ cell = [w \in Walks |-> [i \in Cells |-> "no"]]
    /\ settling = FALSE
    /\ pool = IF how.catching THEN {Parent} ELSE {}
    /\ has = [p \in Priors |-> IF p = Parent THEN how.parent ELSE {}]
    /\ unread = {}
    /\ catch = [p \in Priors |-> [i \in Cells |-> "no"]]
    /\ stage = "awake"
    /\ filler = 0 /\ room = 0 /\ upto = 0
    /\ armed \in Depths /\ depth = 0
    /\ pause = FALSE /\ skip = FALSE
    /\ left = IF how.bound THEN how.budget ELSE 0
    /\ stop = "none" /\ banked = [w \in Walks |-> {}]
    /\ upsets = 0

-----------------------------------------------------------------------------
(* What is out, and what a walk may launch.                                *)

Live == Undecided(verdict)
Taken(w) == Len(rows[w])
Submitted(w) == Cardinality({i \in Cells : cell[w][i] # "no"})
Returned(w) == {i \in Cells : cell[w][i] \in Outcomes}

\* A call still out of a walk that was decided drains.
Calls == {c \in Walks \X Cells : cell[c[1]][c[2]] \in {"out", "drains"}}
Catching == {c \in Priors \X Cells : catch[c[1]][c[2]] = "out"}

Out == Cardinality(Calls) + Cardinality(Catching)

Unlimited == 2 * NW * N + NW

\* mutant: the calls out are not counted, as the book does not hold them yet.
MutAffordable == IF how.bound THEN left ELSE Unlimited

Affordable == IF how.bound THEN left - Out ELSE Unlimited

\* Cells from the next one on that replay unpaid.
RereadsAhead(w, i) ==
    Max({k \in 0..(N - i + 1) : i..(i + k - 1) \subseteq how.rereads[w]})

Bounded == how.size > 0

\* The fewest rows, up to those of the first l cells, at which a rule could
\* stop the walk: a cell not back yet is taken for a degraded one.
Horizon(w, l) ==
    LET ahead == (Taken(w) + 1)..l
        worst(m) == {i \in (Taken(w) + 1)..m : cell[w][i] \notin Says \ Deprecated}
        rate == {m \in ahead : TooDegraded(Degraded(rows[w]) + Cardinality(worst(m)), m)}
        close == IF Bounded THEN {Boundary(how.size, block)} \cap 1..l ELSE {}
    IN  IF ahead = {} THEN {} ELSE rate \cup close

\* mutant: one cell too far past a possible cut.
MutLaunchHorizon(w, l) ==
    LET h == Horizon(w, l - 2) IN IF h = {} THEN l ELSE Min({l, Min(h) + 2})

\* The last cell that may be launched with room for k calls: the first after
\* a possible cut, and none after that.
LaunchHorizon(w, l) ==
    LET h == Horizon(w, l - 2) IN IF h = {} THEN l ELSE Min({l, Min(h) + 1})

Last(w, k) ==
    LET l == Min({N, Submitted(w) + k} \cup
                 IF Bounded THEN {Boundary(how.size, block) + 1} ELSE {})
    IN  LaunchHorizon(w, l)

-----------------------------------------------------------------------------
(* The turn.                                                               *)

\* The last row taken is the one that settles.
Settles == rows[turn][Taken(turn)].at

\* mutant: a walk that became a prior during the phase is never caught up.
MutOwed(i) == {p \in pool \cap {Parent} : i \notin has[p] /\ catch[p][i] = "no"}

Owed(i) == {p \in pool : i \notin has[p] /\ catch[p][i] = "no"}
Started(i) == {p \in Priors : catch[p][i] # "no"}

HeadIs(o) == Taken(turn) < N /\ cell[turn][Taken(turn) + 1] = o
HeadBack == ~settling /\ \E o \in Outcomes : HeadIs(o)

Cut ==
    \/ ~settling /\ HeadIs("cancelled")
    \/ settling /\ \E p \in Started(Settles) : catch[p][Settles] = "cancelled"

Pausing == pause \/ Cut
Tripped == how.bound /\ left = 0 /\ RereadsAhead(turn, Taken(turn) + 1) = 0
Stopping == skip \/ Pausing \/ Tripped

\* mutant: what is owed but was not started is kept too.
MutKeeping == settling \/ HeadBack

\* What is back or started is paid for, so it is kept before a stop is honoured.
Keeping == (settling /\ Owed(Settles) = {}) \/ HeadBack

Honoured == Stopping /\ (Cut \/ ~Keeping)

Settled ==
    /\ settling /\ Owed(Settles) = {}
    /\ \A p \in Started(Settles) : catch[p][Settles] # "out"

Awake == stage = "awake" /\ turn \in Walks

\* mutant: what came back for a walk that is decided is left to it.
MutDropped(c, v) ==
    [w \in Walks |-> [i \in Cells |->
        IF w \in Live /\ v[w] # "none" /\ c[w][i] = "out" THEN "drains" ELSE c[w][i]]]

\* A walk that is decided discards what came back and drains what is out.
Dropped(c, v) ==
    [w \in Walks |-> [i \in Cells |->
        CASE w \in Live /\ v[w] # "none" /\ c[w][i] = "out" -> "drains"
          [] w \in Live /\ v[w] # "none" /\ c[w][i] \in Outcomes -> "gone"
          [] OTHER -> c[w][i]]]

\* A walk that is complete becomes a prior.
Goes(v, r, c, h) ==
    \E to \in After(v, r, turn, block, how.size) :
        LET joins == Admits(verdict, to.verdict, how.catching)
        IN  /\ verdict' = to.verdict /\ turn' = to.turn /\ block' = to.block
            /\ cell' = Dropped(c, to.verdict)
            /\ pool' = pool \cup joins
            /\ has' = [p \in Priors |-> IF p \in joins THEN Scored(r[p]) ELSE h[p]]

\* Walk.judge and what follows, once rows r stand.
Judged(r, c, h) ==
    LET v == Judgement(r[turn], how.size)
        ends == v # "none" \/ (Bounded /\ Len(r[turn]) = Boundary(how.size, block))
    IN  \/ ends /\ Goes([verdict EXCEPT ![turn] = v], r, c, h)
        \/ ~ends /\ cell' = c /\ has' = h /\ UNCHANGED <<verdict, turn, block, pool>>

\* A pause or a spent ceiling lands the calls out, unless cancelling stops
\* their bills.
Stops(reason) ==
    /\ stop' = reason
    /\ stage' = IF reason \in {"pause", "budget"} /\ ~how.cancels
                THEN "landing" ELSE "banking"

HonourSkip ==
    /\ Awake /\ Honoured /\ skip
    /\ skip' = FALSE /\ settling' = FALSE
    /\ Goes([verdict EXCEPT ![turn] = "skip"], rows, cell, has)
    /\ UNCHANGED <<how, rows, catch, left, upsets, unread, stage, launchVars, armed,
                   pause, endVars>>

HonourStop ==
    /\ Awake /\ Honoured /\ ~skip
    /\ Stops(IF Pausing THEN "pause" ELSE "budget")
    /\ UNCHANGED <<how, turnVars, callVars, settling, pool, has, unread, launchVars,
                   pressVars, banked>>

\* The catch-ups of the settling row are committed in the priors' order; one
\* that raised or was refused stops the phase where it stands.  An errored one is
\* a row like another, but nothing is read off it: the row is judged without that
\* prior, which stays owed on the cell.
FailedCatch == {p \in Started(Settles) : catch[p][Settles] \in {"raised", "refused"}}

Settle ==
    /\ Awake /\ ~Honoured /\ Settled
    /\ settling' = FALSE
    /\ LET i == Settles
           ok == {p \in Started(i) : \A q \in FailedCatch : p < q}
           mute == {p \in ok : catch[p][i] = "error"}
           read == [p \in Priors |->
                       IF p \in ok \ mute THEN has[p] \cup {i} ELSE has[p]]
           done == {p \in Started(i) : \A q \in FailedCatch : p <= q}
       IN  /\ catch' = [p \in Priors |->
                           IF p \in done THEN [catch[p] EXCEPT ![i] = "no"] ELSE catch[p]]
           /\ \/ /\ FailedCatch = {}
                 /\ unread' = unread \cup {<<turn, p, i>> : p \in mute}
                 /\ Judged(rows, cell, read) /\ UNCHANGED <<stage, stop>>
              \/ /\ FailedCatch # {}
                 /\ has' = read
                 /\ \/ Stops("failure")
                    \/ /\ how.bound /\ \E p \in done : catch[p][i] = "refused"
                       /\ Stops("budget")
                 /\ UNCHANGED <<verdict, turn, block, cell, pool, unread>>
    /\ UNCHANGED <<how, rows, left, upsets, launchVars, pressVars, banked>>

\* Walk.take of the next cell.  A row that a ceiling or the provider refused
\* is a row, and stops the phase; a call that raised raises here, in its turn.
TakeHead ==
    /\ Awake /\ ~Honoured /\ ~settling
    /\ \E o \in Says :
        /\ HeadIs(o)
        /\ LET i == Taken(turn) + 1
               r == [rows EXCEPT ![turn] = Append(@, Row(i, o))]
               c == [cell EXCEPT ![turn][i] = "taken"]
               settles == how.catching /\ Owed(i) \cup Started(i) # {}
           IN  /\ rows' = r
               /\ \/ /\ o = "refused"
                     /\ Stops("failure") \/ (how.bound /\ Stops("budget"))
                     /\ cell' = c
                     /\ UNCHANGED <<verdict, turn, block, pool, has, settling>>
                  \/ /\ o # "refused" /\ Aborts(r[turn], how.rereads[turn])
                     /\ Goes([verdict EXCEPT ![turn] = "abort"], r, c, has)
                     /\ UNCHANGED <<settling, stage, stop>>
                  \/ /\ o # "refused" /\ ~Aborts(r[turn], how.rereads[turn]) /\ settles
                     /\ settling' = TRUE /\ cell' = c
                     /\ UNCHANGED <<verdict, turn, block, pool, has, stage, stop>>
                  \/ /\ o # "refused" /\ ~Aborts(r[turn], how.rereads[turn]) /\ ~settles
                     /\ Judged(r, c, has)
                     /\ UNCHANGED <<settling, stage, stop>>
    /\ UNCHANGED <<how, catch, left, upsets, unread, launchVars, pressVars, banked>>

TakeFails ==
    /\ Awake /\ ~Honoured /\ ~settling /\ HeadIs("raised")
    /\ Stops("failure")
    /\ UNCHANGED <<how, turnVars, callVars, settling, pool, has, unread, launchVars,
                   pressVars, banked>>

-----------------------------------------------------------------------------
(* Launching, and waiting.                                                 *)

Least(s, k) == {p \in s : Cardinality({q \in s : q < p}) < k}

\* Nothing to take: launch, unless a stop waits for what it keeps.
BeginLaunch ==
    /\ Awake /\ ~Honoured /\ ~Settled /\ ~HeadBack
    /\ \/ Stopping /\ stage' = "asks" /\ UNCHANGED room
       \/ /\ ~Stopping
          /\ stage' = "owing" /\ room' = Min({armed - Out, Affordable})
    /\ UNCHANGED <<how, turnVars, callVars, settling, pool, has, unread, filler, upto,
                   depth, pressVars, endVars>>

\* First the catch-ups of the settling row and of the cells that are back.
Owing == {i \in (IF settling THEN {Settles} ELSE {}) \cup Returned(turn) : Owed(i) # {}}

StartOwed ==
    /\ stage = "owing" /\ how.catching /\ room > 0 /\ Owing # {}
    /\ catch' = [catch EXCEPT ![Min(Owed(Min(Owing)))][Min(Owing)] = "out"]
    /\ room' = room - 1
    /\ UNCHANGED <<how, turnVars, cell, left, upsets, settling, pool, has, unread, stage,
                   filler, upto, depth, pressVars, endVars>>

\* Then the walk whose turn it is, and the others in their order, which leave
\* the last call to it.
Fills(w) ==
    LET cap == IF w = turn THEN armed ELSE armed - 1
        k == Min({cap - Out, Max({Affordable, RereadsAhead(w, Submitted(w) + 1)})})
    IN  filler' = w /\ room' = k /\ upto' = Last(w, k)

BeginFilling ==
    /\ stage = "owing" /\ (how.catching /\ room > 0 => Owing = {})
    /\ stage' = "filling" /\ Fills(turn)
    /\ UNCHANGED <<how, turnVars, callVars, settling, pool, has, unread, depth, pressVars,
                   endVars>>

MayLaunch == room > 0 /\ Submitted(filler) < upto

\* A cell, and its catch-ups beside it as far as there is room.
LaunchCell ==
    /\ stage = "filling" /\ MayLaunch
    /\ LET i == Submitted(filler) + 1
           k == Min({room - 1, IF how.bound THEN Affordable - 1 ELSE Unlimited})
           started == Least(Owed(i), k)
       IN  /\ cell' = [cell EXCEPT ![filler][i] = "out"]
           /\ catch' = [p \in Priors |->
                           IF p \in started THEN [catch[p] EXCEPT ![i] = "out"] ELSE catch[p]]
           /\ room' = room - 1 - Cardinality(started)
    /\ UNCHANGED <<how, turnVars, left, upsets, settling, pool, has, unread, stage, filler,
                   upto, depth, pressVars, endVars>>

Turns(w) == IF w = turn THEN 0 ELSE w
Unfilled == {w \in Live : Turns(w) > Turns(filler)}

FillNext ==
    /\ stage = "filling" /\ ~MayLaunch
    /\ \/ Unfilled # {} /\ Fills(Min(Unfilled)) /\ UNCHANGED stage
       \/ /\ Unfilled = {} /\ stage' = "asks"
          /\ filler' = 0 /\ room' = 0 /\ upto' = 0
    /\ UNCHANGED <<how, turnVars, callVars, settling, pool, has, unread, depth, pressVars,
                   endVars>>

\* With nothing out it is the ceiling that lets no cell start; anything else
\* is a stall, which has no step here: the code raises.
Wait ==
    /\ stage = "asks"
    /\ \/ /\ Out > 0
          /\ stage' = "waits" /\ depth' = armed /\ UNCHANGED stop
       \/ /\ Out = 0 /\ how.bound /\ Affordable = 0
          /\ Stops("budget") /\ UNCHANGED depth
    /\ UNCHANGED <<how, turnVars, callVars, settling, pool, has, unread, filler, room, upto,
                   pressVars, banked>>

\* A call is back, or the operator armed more.
Wake ==
    /\ stage = "wakes" \/ (stage = "waits" /\ armed > depth)
    /\ stage' = "awake" /\ depth' = 0
    /\ UNCHANGED <<how, turnVars, callVars, settling, pool, has, unread, filler, room, upto,
                   pressVars, endVars>>

-----------------------------------------------------------------------------
(* The calls, and the operator.                                            *)

Upset == upsets < MaxUpsets /\ upsets' = upsets + 1
Fault(o) == IF o \in {"good", "degraded", "cancelled"} THEN UNCHANGED upsets ELSE Upset

\* A call waiting for its claim or for a throttle to ease is cancelled by a
\* pause, and has sent nothing; one that replays unpaid is always good.
MayBe(o) == o = "cancelled" => pause \/ stage = "landing"
Bills(o, free) ==
    left' \in IF ~how.bound \/ free \/ o = "cancelled" THEN {left} ELSE {left, left - 1}

CallReturns(o) ==
    /\ stage \in {"waits", "wakes", "landing"}
    /\ MayBe(o) /\ Fault(o)
    /\ stage' = IF stage = "landing" THEN stage ELSE "wakes"
    /\ UNCHANGED <<how, turnVars, settling, pool, has, unread, launchVars, pressVars, endVars>>

Returns(w, i) ==
    /\ <<w, i>> \in Calls
    /\ \E o \in how.answers \cup {"good"} :
        /\ i \in how.rereads[w] => o = "good"
        /\ CallReturns(o) /\ Bills(o, i \in how.rereads[w])
        /\ cell' = [cell EXCEPT ![w][i] = IF @ = "out" THEN o ELSE "gone"]
    /\ UNCHANGED catch

\* What a catch-up may come back as that its prior is not read on; an errored
\* row of any kind is one that nothing else tells apart.
Unscored == {"error", "refused", "raised", "cancelled"}

CatchUpReturns(p, i) ==
    /\ <<p, i>> \in Catching
    /\ \E o \in (how.answers \cap Unscored) \cup {"good"} :
        /\ CallReturns(o) /\ Bills(o, FALSE)
        /\ catch' = [catch EXCEPT ![p][i] = o]
    /\ UNCHANGED cell

Presses ==
    /\ stage \in {"awake", "waits"} /\ turn \in Walks /\ Upset
    /\ \/ ~pause /\ pause' = TRUE /\ UNCHANGED <<skip, armed>>
       \/ ~skip /\ skip' = TRUE /\ UNCHANGED <<pause, armed>>
       \/ armed' \in Depths \ {armed} /\ UNCHANGED <<pause, skip>>
    /\ UNCHANGED <<how, turnVars, cell, catch, left, settling, pool, has, unread, stage, launchVars,
                   endVars>>

-----------------------------------------------------------------------------
(* The end.                                                                *)

\* Every walk is decided; the calls that drain are waited for where
\* cancelling them would not stop their bill.
Finish ==
    /\ stage = "awake" /\ turn = Over
    /\ stage' = IF how.cancels THEN "over" ELSE "landing"
    /\ UNCHANGED <<how, turnVars, callVars, settling, pool, has, unread, launchVars,
                   pressVars, endVars>>

Land ==
    /\ stage = "landing" /\ Out = 0
    /\ stage' = IF stop = "none" THEN "over" ELSE "banking"
    /\ UNCHANGED <<how, turnVars, callVars, settling, pool, has, unread, launchVars,
                   pressVars, endVars>>

\* mutant: whatever came back is kept.
MutSure(w) ==
    {i \in Cells \ how.rereads[w] :
        /\ cell[w][i] \in {"good", "degraded", "fatal"}
        /\ \A j \in 1..(i - 1) : ~Errored(cell[w][j])}

\* The cells a stopped walk was sure to take: below its horizon, before its
\* first error.  Replays are on disk already.
Sure(w) ==
    {i \in Cells \ how.rereads[w] :
        /\ cell[w][i] \in {"good", "degraded", "fatal"}
        /\ \A m \in Horizon(w, N) : i <= m
        /\ \A j \in 1..(i - 1) : ~Errored(cell[w][j])}

\* Keeping the cells of one walk may fail, and the others' are still kept.
Bank ==
    /\ stage = "banking" /\ stage' = "over"
    /\ \E kept \in SUBSET Live :
        /\ \/ kept = Live /\ UNCHANGED upsets
           \/ kept # Live /\ Upset
        /\ banked' = [w \in Walks |-> IF w \in kept THEN Sure(w) ELSE {}]
    /\ UNCHANGED <<how, turnVars, cell, catch, left, settling, pool, has, unread, launchVars,
                   pressVars, stop>>

-----------------------------------------------------------------------------
Takes == HonourSkip \/ HonourStop \/ Settle \/ TakeHead \/ TakeFails
Launches == BeginLaunch \/ StartOwed \/ BeginFilling \/ LaunchCell \/ FillNext
Ends == Finish \/ Land \/ Bank

Phase == Takes \/ Launches \/ Wait \/ Wake \/ Ends

SomeReturns ==
    \/ \E w \in Walks, i \in Cells : Returns(w, i)
    \/ \E p \in Priors, i \in Cells : CatchUpReturns(p, i)

Next == Phase \/ SomeReturns \/ Presses

Spec == Init /\ [][Next]_vars

\* The phase runs, and while it waits some call that was sent returns.
FairSpec == Spec /\ WF_vars(Phase) /\ WF_vars(SomeReturns)

-----------------------------------------------------------------------------
(* Properties.                                                             *)

\* Types; rows are a walk's first cells in order, cells are launched in order,
\* and a decided walk has none out or back that it has not let go (Walk.end).
TypeOK ==
    /\ how \in Settings
    /\ verdict \in [Walks -> {"none", "complete", "rule", "abort", "skip"}]
    /\ turn \in Walks \cup {Over} /\ block \in Nat
    /\ cell \in [Walks -> [Cells -> Outcomes \cup {"no", "out", "drains", "taken", "gone"}]]
    /\ \A w \in Walks :
        /\ \A k \in DOMAIN rows[w] : rows[w][k].at = k /\ rows[w][k].is \in Says
        /\ \A i, j \in Cells : i < j /\ cell[w][j] # "no" => cell[w][i] # "no"
        /\ verdict[w] # "none" =>
            \A i \in Cells : cell[w][i] \in {"no", "drains", "taken", "gone"}
    /\ settling \in BOOLEAN
    /\ pool \subseteq Priors /\ has \in [Priors -> SUBSET Cells]
    /\ catch \in [Priors -> [Cells -> {"no", "out", "good", "raised", "cancelled",
                                   "error", "refused"}]]
    /\ unread \subseteq Walks \X Priors \X Cells
    /\ stage \in Stages
    /\ filler \in Walks \cup {0} /\ room \in Int /\ upto \in Int
    /\ armed \in Depths /\ depth \in Depths \cup {0}
    /\ pause \in BOOLEAN /\ skip \in BOOLEAN
    /\ left \in Int /\ upsets \in 0..MaxUpsets
    /\ stop \in {"none", "pause", "budget", "failure"}
    /\ banked \in [Walks -> SUBSET Cells]

\* What the cells up to i answer: as they came back, good or degraded else.
Answers(w, i) ==
    {f \in [(Taken(w) + 1)..i -> Says] :
        \A j \in (Taken(w) + 1)..i :
            IF cell[w][j] \in Says THEN f[j] = cell[w][j] ELSE f[j] \in {"good", "degraded"}}

\* The walk's rows, had it gone on to m of them.
Onward(w, f, m) ==
    [k \in 1..m |-> IF k <= Taken(w) THEN rows[w][k] ELSE Row(k, f[k])]

\* The fast path ends a walk on one row and the horizon asks the rate alone
\* (earliest_stop): what came back past a fatal row is kept, although the walk
\* would not have taken it.
KeptPastFatal(w, m) == cell[w][m] \in Fatal

\* Whatever the calls that are not back would have answered, be it good or
\* degraded, no error, no rule and no close of a block could end the walk between
\* its rows and a cell that was kept (Walk.bank: cells it was sure to take), but
\* for a row that is fatal, and then the rate still lets it go on.  The last row
\* itself may be one that was not judged yet; the horizon does not ask it either.
BankedAreSure ==
    \A w \in Walks : \A i \in banked[w] :
        /\ \A f \in Answers(w, i) : \A m \in (Taken(w) + 1)..(i - 1) :
            /\ ~Errored(f[m])
            /\ RuleStops(Onward(w, f, m)) =>
                KeptPastFatal(w, m) /\ ~TooDegraded(Degraded(Onward(w, f, m)), m)
        /\ Bounded => i <= Boundary(how.size, block)

\* The calls that may bill.
Paid == {c \in Calls : c[2] \notin how.rereads[c[1]]}

\* However many walks, catch-ups and draining calls there are, no call is out
\* that the book could not pay at its bound: none is launched to be refused
\* (_ScoringPhase.affordable counts what it launched in this very step).
LaunchesFitTheBook == how.bound => Cardinality(Paid) + Cardinality(Catching) <= left

\* A row is taken that the rate stops its walk on, now or once it has settled.
RateStops(w) ==
    LET r == rows'[w] IN Len(r) > Taken(w) /\ TooDegraded(Degraded(r), Len(r))

\* A rule, or the race, stops a walk that has all the rows of its block.
StoppedAtClose(w) ==
    /\ Bounded /\ Len(rows'[w]) = Boundary(how.size, block)
    /\ verdict[w] = "none" /\ verdict'[w] = "rule"

CutWastes(w) ==
    RateStops(w) \/ StoppedAtClose(w) => Submitted(w) <= Len(rows'[w]) + 1

\* Where a walk takes the row that its rate stops it on, and where the close of a
\* block stops it, one cell at most is launched that it does not take, whatever
\* came back in what order (Walk.launch_horizon: a cut wastes one cell at most).
\* Two cuts may waste more.  The fast path ends a walk on a row the horizon did not
\* ask about; and while a row settles the phase launches on, its horizon asking
\* only the rows after it.
CutWastesOne == [][\A w \in Walks : CutWastes(w)]_vars

\* The rows, but for one that still settles: the serial phase has not taken it.
Judgeable ==
    [w \in Walks |->
        IF settling /\ w = turn /\ stop = "none" THEN SubSeq(rows[w], 1, Taken(w) - 1)
        ELSE rows[w]]

Serial == INSTANCE SerialPhase WITH
    rows <- Judgeable, turn <- IF stop = "none" THEN turn ELSE Over

\* Rows, cuts, turns and what each prior was read on when a row was judged are
\* a serial phase's, whatever was measured ahead (run_walks).
LandsAsSerial == Serial!Spec

\* Every phase ends: it never waits with nothing out and nothing to take, and
\* a stop that waits for what is paid for is honoured.
PhaseEnds == <>(stage = "over")
=============================================================================
