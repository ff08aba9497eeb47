--------------------------- MODULE AccountCeiling ---------------------------
(***************************************************************************)
(* What the launches of one account may spend: the host's coupon, which    *)
(* every run's reserve draws, and each campaign's ceiling, which its live   *)
(* cycles share.  Admission, a fork's landing and the write of a changed    *)
(* ceiling each run under the registry's gate and are one step.  What a     *)
(* launch declares is composed BEFORE the gate is taken, and a changed      *)
(* ceiling is clamped to the account before: their reads and their writes   *)
(* are two steps.                                                           *)
(*                                                                          *)
(* One money axis.  Every send is on the box's key, costs one unit and is   *)
(* billed as it is made.                                                    *)
(***************************************************************************)
EXTENDS Integers, FiniteSets, FiniteSetsExt

CONSTANTS
    Campaigns, Cycles,
    CampaignOf,     \* the campaign of each cycle
    Parent,         \* the cycle a fork was cut from, NoRecord for a root
    Config,         \* the ceiling each campaign's configuration declares
    Jobs,           \* the registry's jobs, numbered as they are created
    Changes,        \* the set-limits commands that may be open at once
    Requests,       \* the ceilings a launch may ask for, NoRecord for none
    Caps,           \* the ceilings set-limits may ask for, NoCap to lift it
    Face,           \* the face of the account's coupon
    NoCap,          \* a ceiling that bounds nothing
    NoRecord        \* where nothing was ever written

NoJob == 0

ASSUME MoneyAssumption ==
    /\ Face \in Nat
    /\ NoCap \notin Nat /\ NoRecord \notin Nat /\ NoCap # NoRecord
    /\ Caps \subseteq Nat \cup {NoCap}
    /\ Requests \subseteq Nat \cup {NoCap, NoRecord}
    /\ Config \in [Campaigns -> Nat \cup {NoCap}]
    /\ Jobs \subseteq Nat \ {NoJob} /\ IsFiniteSet(Jobs)

\* A fork stays in its parent's campaign.
ASSUME CyclesAssumption ==
    /\ IsFiniteSet(Cycles) /\ NoRecord \notin Cycles
    /\ CampaignOf \in [Cycles -> Campaigns]
    /\ Parent \in [Cycles -> Cycles \cup {NoRecord}]
    /\ \A k \in Cycles : Parent[k] # NoRecord => CampaignOf[Parent[k]] = CampaignOf[k]

VARIABLES
    phase,          \* each job: unmade, waiting for its stamp (its budget composed
                    \* or not), live, ended
    on,             \* the cycle each job spends on
    request,        \* the ceiling its launch asks for; once composed, all that was named
    reserve,        \* what the coupon holds for it
    ceiling,        \* each campaign's ceiling record
    share,          \* each cycle's share record
    spent,          \* what each cycle has metered
    change,         \* each set-limits command between its read and its write
    late            \* history: jobs admitted beside a ceiling they were not composed of

vars == <<phase, on, request, reserve, ceiling, share, spent, change, late>>

Money == Nat \cup {NoCap}
Bounded(amount) == amount # NoCap
AtLeastZero(n) == IF n < 0 THEN 0 ELSE n
Lower(m, n) == IF m < n THEN m ELSE n

----------------------------------------------------------------------------
(* What is spent and what is held *)

Waiting == {j \in Jobs : phase[j] \in {"waiting", "composed"}}
Live == {j \in Jobs : phase[j] = "live"}
LiveOn(c) == {j \in Live : CampaignOf[on[j]] = c}

SpentOn(c) == SumFunctionOnSet(spent, {k \in Cycles : CampaignOf[k] = c})
Left == AtLeastZero(Face - SumFunctionOnSet(spent, Cycles))

(* What a cycle may still meter of its share. *)
Held(sh, k) == IF Bounded(sh) THEN AtLeastZero(sh - spent[k]) ELSE 0

HeldBy(shares, jobs) == [o \in jobs |-> Held(shares[on[o]], on[o])]
Beside(shares, jobs) == SumFunctionOnSet(HeldBy(shares, jobs), jobs)

HeldBack(j) == SumFunctionOnSet(reserve, Live \ {j})

(* An earlier launch not yet stamped blocks the read: what it will hold is  *)
(* not known.  A command with no job of its own is blocked by any.          *)
Contended(j) == \E o \in Waiting : o # j /\ (j = NoJob \/ o < j)

\* Mutant: what the account's other runs reserve is offered again.
MutHeadroom(j, c) == Left + SpentOn(c)

(* The campaign's own spend is given back: its ceiling counts it. *)
Headroom(j, c) == AtLeastZero(Left - HeldBack(j)) + SpentOn(c)

ReserveOf(cap, room) == IF Bounded(cap) THEN Lower(room, 2 * cap) ELSE room

LeftOf(cap, c, shares, siblings) == cap - SpentOn(c) - Beside(shares, siblings)

\* Mutant: a share running short goes below what its cycle spent.
MutAllotment(cap, k, shares, siblings) ==
    IF Bounded(cap) THEN spent[k] + LeftOf(cap, CampaignOf[k], shares, siblings) ELSE NoCap

Allotment(cap, k, shares, siblings) ==
    IF Bounded(cap)
    THEN spent[k] + AtLeastZero(LeftOf(cap, CampaignOf[k], shares, siblings))
    ELSE NoCap

(* Each live cycle of a campaign from what the rest held going in. *)
Reshared(cap, shares, jobs) ==
    [k \in Cycles |->
        IF \E j \in jobs : on[j] = k
        THEN Allotment(cap, k, shares, {j \in jobs : on[j] # k})
        ELSE shares[k]]

----------------------------------------------------------------------------
(* Admission *)

Ask(j, k, cap) ==
    /\ phase[j] = "unmade"
    /\ \A o \in Jobs : o < j => phase[o] # "unmade"
    /\ \A o \in Waiting \cup Live : on[o] # k
    /\ Parent[k] # NoRecord => share[k] # NoRecord
    /\ phase' = [phase EXCEPT ![j] = "waiting"]
    /\ on' = [on EXCEPT ![j] = k]
    /\ request' = [request EXCEPT ![j] = cap]
    /\ UNCHANGED <<reserve, ceiling, share, spent, change, late>>

(* The ceiling a person named, for the launch or else for its campaign: read *)
(* with no gate held.                                                       *)
Asked(j) == IF request[j] = NoRecord THEN ceiling[CampaignOf[on[j]]] ELSE request[j]

Compose(j) ==
    /\ phase[j] = "waiting"
    /\ phase' = [phase EXCEPT ![j] = "composed"]
    /\ request' = [request EXCEPT ![j] = Asked(j)]
    /\ UNCHANGED <<on, reserve, ceiling, share, spent, change, late>>

(* What was named lies over what the configuration declares. *)
Declared(j) == IF request[j] = NoRecord THEN Config[CampaignOf[on[j]]] ELSE request[j]

\* Mutant: nothing is refused for holding a ceiling its siblings do not.
MutShareable(j) == TRUE

(* A campaign's ceiling binds every live cycle of it or none. *)
Shareable(j) ==
    \A o \in LiveOn(CampaignOf[on[j]]) : Bounded(share[on[o]]) <=> Bounded(Declared(j))

AdmitsOnCoupon(j) ==
    LET c == CampaignOf[on[j]]  room == Headroom(j, c)
    IN  /\ ~Contended(j)
        /\ room > SpentOn(c)
        /\ Bounded(Declared(j)) => Declared(j) <= room

AdmitsOnCeiling(j) ==
    LET c == CampaignOf[on[j]]
    IN  /\ Shareable(j)
        /\ Bounded(Declared(j)) => LeftOf(Declared(j), c, share, LiveOn(c)) > 0

(* Nobody named a ceiling when the launch was composed; by now one is set. *)
Overtaken(j) == request[j] = NoRecord /\ ceiling[CampaignOf[on[j]]] # NoRecord

(* The ceiling moves to what was named, and only then are shares moved.    *)
Admit(j) ==
    LET k == on[j]
        c == CampaignOf[k]
        taken == [share EXCEPT ![k] = Allotment(Declared(j), k, share, LiveOn(c))]
        moves == request[j] \notin {NoRecord, ceiling[c]}
    IN  /\ phase[j] = "composed"
        /\ AdmitsOnCoupon(j)
        /\ AdmitsOnCeiling(j)
        /\ phase' = [phase EXCEPT ![j] = "live"]
        /\ reserve' = [reserve EXCEPT ![j] = ReserveOf(Declared(j), Headroom(j, c))]
        /\ ceiling' = [ceiling EXCEPT ![c] = IF moves THEN request[j] ELSE @]
        /\ share' = IF moves THEN Reshared(request[j], taken, LiveOn(c) \cup {j}) ELSE taken
        /\ late' = IF Overtaken(j) THEN late \cup {j} ELSE late
        /\ request' = [request EXCEPT ![j] = NoRecord]
        /\ UNCHANGED <<on, spent, change>>

(* The record of an ended job stays; no read below looks at it. *)
Ended(j) ==
    /\ phase' = [phase EXCEPT ![j] = "ended"]
    /\ on' = [on EXCEPT ![j] = NoRecord]
    /\ request' = [request EXCEPT ![j] = NoRecord]
    /\ reserve' = [reserve EXCEPT ![j] = 0]

Refuse(j) ==
    /\ phase[j] = "composed"
    /\ ~(AdmitsOnCoupon(j) /\ AdmitsOnCeiling(j))
    /\ Ended(j)
    /\ UNCHANGED <<ceiling, share, spent, change, late>>

----------------------------------------------------------------------------
(* A run *)

(* The share admits while any of it is left; the reserve admits only what  *)
(* fits it.  Both count what the run's own cycle metered.                   *)
Bill(j) ==
    LET k == on[j]
    IN  /\ phase[j] = "live"
        /\ Bounded(share[k]) => spent[k] < share[k]
        /\ spent[k] + 1 <= reserve[j]
        /\ spent' = [spent EXCEPT ![k] = @ + 1]
        /\ UNCHANGED <<phase, on, request, reserve, ceiling, share, change, late>>

\* Mutant: the fork carries the share its parent spent from.
MutRemainder(k) == share[k]

(* What is left of a share once its cycle's spend is the campaign's. *)
Remainder(k) == IF Bounded(share[k]) THEN AtLeastZero(share[k] - spent[k]) ELSE NoCap

(* A run rebases onto a fork of its cycle: the share loses the parent's    *)
(* spend, the reserve stays.                                                *)
Fork(j, k) ==
    /\ phase[j] = "live"
    /\ Parent[k] = on[j]
    /\ share[k] = NoRecord
    /\ share' = [share EXCEPT ![k] = Remainder(on[j])]
    /\ on' = [on EXCEPT ![j] = k]
    /\ UNCHANGED <<phase, request, reserve, ceiling, spent, change, late>>

End(j) ==
    /\ phase[j] = "live"
    /\ Ended(j)
    /\ UNCHANGED <<ceiling, share, spent, change, late>>

----------------------------------------------------------------------------
(* set-limits *)

(* A command: not yet made, between its read and its write, or written. *)
NoChange == [step |-> "unmade", cycle |-> NoRecord, cap |-> NoCap, reserve |-> 0, room |-> 0]
Change == [step : {"unmade", "read", "written"}, cycle : Cycles \cup {NoRecord},
           cap : Money, reserve : Nat, room : Nat]
Written == [NoChange EXCEPT !.step = "written"]
Reading(i) == change[i].step = "read"

RunOn(k) == {j \in Waiting \cup Live : on[j] = k}
OwnJob(k) == IF RunOn(k) = {} THEN NoJob ELSE CHOOSE j \in RunOn(k) : TRUE

Clamped(cap, room) == IF Bounded(cap) THEN Lower(cap, room) ELSE NoCap

(* The account is read with no gate held; a contended one refuses. *)
ReadLimits(i, k, cap) ==
    LET room == Headroom(OwnJob(k), CampaignOf[k])
        taken == Clamped(cap, room)
    IN  /\ change[i] = NoChange
        /\ share[k] # NoRecord
        /\ ~Contended(OwnJob(k))
        /\ change' = [change EXCEPT ![i] =
               [step |-> "read", cycle |-> k, cap |-> taken,
                reserve |-> ReserveOf(taken, room), room |-> room]]
        /\ UNCHANGED <<phase, on, request, reserve, ceiling, share, spent, late>>

ApplyLimits(i) ==
    LET k == change[i].cycle
        c == CampaignOf[k]
        cap == change[i].cap
    IN  /\ Reading(i)
        /\ reserve' = [j \in Jobs |-> IF j \in RunOn(k) THEN change[i].reserve ELSE reserve[j]]
        /\ ceiling' = [ceiling EXCEPT ![c] = cap]
        /\ share' = IF cap = ceiling[c] THEN share ELSE Reshared(cap, share, LiveOn(c))
        /\ change' = [change EXCEPT ![i] = Written]
        /\ UNCHANGED <<phase, on, request, spent, late>>

----------------------------------------------------------------------------
Init ==
    /\ phase = [j \in Jobs |-> "unmade"]
    /\ on = [j \in Jobs |-> NoRecord]
    /\ request = [j \in Jobs |-> NoRecord]
    /\ reserve = [j \in Jobs |-> 0]
    /\ ceiling = [c \in Campaigns |-> NoRecord]
    /\ share = [k \in Cycles |-> NoRecord]
    /\ spent = [k \in Cycles |-> 0]
    /\ change = [i \in Changes |-> NoChange]
    /\ late = {}

Next ==
    \/ \E j \in Jobs, k \in Cycles, cap \in Requests : Ask(j, k, cap)
    \/ \E j \in Jobs : Compose(j) \/ Admit(j) \/ Refuse(j) \/ Bill(j) \/ End(j)
    \/ \E j \in Jobs, k \in Cycles : Fork(j, k)
    \/ \E i \in Changes, k \in Cycles, cap \in Caps : ReadLimits(i, k, cap)
    \/ \E i \in Changes : ApplyLimits(i)

Spec == Init /\ [][Next]_vars

----------------------------------------------------------------------------
(* Every job, record and open change is well formed; no share or reserve   *)
(* is negative, however short a moved ceiling leaves it                     *)
(* (quota.py _allotment, _reserve).                                         *)
TypeOK ==
    /\ phase \in [Jobs -> {"unmade", "waiting", "composed", "live", "ended"}]
    /\ on \in [Jobs -> Cycles \cup {NoRecord}]
    /\ request \in [Jobs -> Money \cup {NoRecord}]
    /\ reserve \in [Jobs -> Nat]
    /\ ceiling \in [Campaigns -> Money \cup {NoRecord}]
    /\ share \in [Cycles -> Money \cup {NoRecord}]
    /\ spent \in [Cycles -> Nat]
    /\ change \in [Changes -> Change]
    /\ late \subseteq Jobs
    /\ \A j \in Waiting \cup Live : on[j] \in Cycles
    /\ \A j \in Live : share[on[j]] # NoRecord
    /\ \A i \in Changes : Reading(i) => change[i].cycle \in Cycles

(* The ceiling a campaign's live cycles share. *)
Ceiling(c) == IF ceiling[c] = NoRecord THEN Config[c] ELSE ceiling[c]

(* The live cycles of a campaign hold no more, together, than its ceiling  *)
(* has left over what the campaign spent.                                   *)
Shared(c) ==
    Bounded(Ceiling(c)) =>
        Beside(share, LiveOn(c)) <= AtLeastZero(Ceiling(c) - SpentOn(c))

SharesWithinCeiling == \A c \in Campaigns : Shared(c)

(* The one step that is known to break it: a ceiling moved under two or     *)
(* more live cycles (quota.py _reshare_campaign_ceiling).                   *)
MovedUnderSeveral(c) ==
    \E i \in Changes : /\ Reading(i) /\ ~Reading(i)'
                       /\ CampaignOf[change[i].cycle] = c
                       /\ Cardinality(LiveOn(c)) >= 2

(* A live run of the campaign took its share of the configuration, composed *)
(* before anyone set the campaign's ceiling and admitted after              *)
(* (quota.py declare_run_budget): that ceiling binds neither its share nor  *)
(* what is left for the others.                                             *)
HasOvertaken(c) == LiveOn(c) \cap late # {}

(* Admissions, bills, forks, ends and a ceiling moved under one live cycle *)
(* never hand out more of a campaign's ceiling than it has left, also where *)
(* the ceiling moved between what a launch read of it and its admission     *)
(* (quota.py share_campaign_ceiling, run_prep.py rebase_held).              *)
SharesStayWithin ==
    [][\A c \in Campaigns :
          Shared(c) => Shared(c)' \/ MovedUnderSeveral(c) \/ HasOvertaken(c)']_vars

(* A launch takes its share of what nobody holds: no live sibling finds    *)
(* its own room changed or its ceiling lifted by it                         *)
(* (quota.py share_campaign_ceiling, _refuse_unshared).                     *)
Room(k) == IF Bounded(share[k]) THEN Held(share[k], k) ELSE NoCap

LaunchLeavesSiblingsRoom ==
    [][\A j \in Jobs : phase[j] = "composed" /\ phase'[j] = "live" =>
          \A o \in Live : Room(on[o])' = Room(on[o])]_vars

(* What a run may still send on the box's key. *)
MaySend(j) ==
    LET byReserve == AtLeastZero(reserve[j] - spent[on[j]])
    IN  IF Bounded(share[on[j]]) THEN Lower(Held(share[on[j]], on[j]), byReserve) ELSE byReserve

(* The coupon covers whatever the live runs may still send. *)
CouponCovers == SumFunctionOnSet([j \in Live |-> MaySend(j)], Live) <= Left

(* What may leave it uncovered: a ceiling moved under several live cycles, *)
(* or on a clamp read before the account changed, or lifted by a command on *)
(* another cycle than the live one, whose reserve it then leaves alone, or  *)
(* moved under a run it did not bind; and a run that is uncapped or a fork, *)
(* whose reserve counts only its own cycle's spend where its campaign spent *)
(* on another.                                                              *)
StaleClamp ==
    \E i \in Changes :
        LET k == change[i].cycle
        IN  /\ Reading(i) /\ ~Reading(i)'
            /\ Headroom(OwnJob(k), CampaignOf[k]) < change[i].room

LiftedElsewhere ==
    \E i \in Changes :
        /\ Reading(i) /\ ~Reading(i)' /\ change[i].cap = NoCap
        /\ LiveOn(CampaignOf[change[i].cycle]) \ RunOn(change[i].cycle) # {}

MovedUnderLate ==
    \E i \in Changes :
        Reading(i) /\ ~Reading(i)' /\ HasOvertaken(CampaignOf[change[i].cycle])

SpentElsewhere ==
    \E j \in Live : /\ share[on[j]] = NoCap \/ Parent[on[j]] # NoRecord
                    /\ SpentOn(CampaignOf[on[j]]) > spent[on[j]]

(* What the live runs may still send stays covered by the coupon: no       *)
(* admission, bill, fork, end or freshly clamped ceiling promises the same  *)
(* money twice (quota.py read_account_wallet, _reserve, launch_refusal).    *)
CouponStaysCovered ==
    [][CouponCovers /\ SharesWithinCeiling =>
          CouponCovers' \/ StaleClamp \/ LiftedElsewhere \/ MovedUnderLate \/ SpentElsewhere'
                       \/ \E c \in Campaigns : MovedUnderSeveral(c)]_vars

----------------------------------------------------------------------------
(* The inductive invariant behind the properties. *)

(* No two runs spend on one cycle, and a cycle that never had a share, as  *)
(* a fork nobody launched has none, never metered anything.                 *)
AloneInv ==
    /\ \A j, o \in Waiting \cup Live : on[j] = on[o] => j = o
    /\ \A k \in Cycles : share[k] = NoRecord => spent[k] = 0
    /\ \A j \in Waiting : Parent[on[j]] # NoRecord => share[on[j]] # NoRecord

(* A campaign's ceiling binds each of its live cycles or none, but a run it *)
(* was set too late for.                                                    *)
BoundInv ==
    \A j \in Live \ late :
        Bounded(share[on[j]]) <=> Bounded(Ceiling(CampaignOf[on[j]]))

AccountInv == TypeOK /\ AloneInv /\ BoundInv

(* What an open command would write fits the room it read. *)
ClampInv ==
    \A i \in Changes : Reading(i) =>
        /\ change[i].reserve <= change[i].room
        /\ Bounded(change[i].cap) => change[i].cap <= change[i].room
=============================================================================
