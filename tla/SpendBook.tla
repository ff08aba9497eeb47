------------------------------ MODULE SpendBook ------------------------------
(***************************************************************************)
(* A run's spend book (infrastructure/llm/spend_book.py): every paid send  *)
(* is admitted against it before it goes out, and closed with its bill.     *)
(*                                                                          *)
(* A nested run has a book of its own, enclosed by the root's: its sends    *)
(* are held and counted in both.  A cell may reserve its cost beforehand,   *)
(* and the sends inside it draw on what it reserved.  A send's hold lands   *)
(* on the root's ledger and on the account's charges; its bill, which may   *)
(* come in parts, lands on the charges, then on its own run's ledger, and   *)
(* a nested one is copied onto the root's.  The books are memory: a run     *)
(* that dies leaves the files, and the next starts from them.               *)
(*                                                                          *)
(* One money axis, every send on the box's key and priced.  A handler has   *)
(* no await in it, so a send being placed or settled is alone; only a       *)
(* crash, or a write that raises, comes between two of its writes.          *)
(***************************************************************************)
EXTENDS Integers, FiniteSets, FiniteSetsExt

CONSTANTS
    Sends,
    Nested,         \* the sends of the nested run
    InCell,         \* the sends made inside a reserved cell
    Parts,          \* the answered parts a bill may consist of
    SendOf,         \* the send each part is a bill of
    Price,          \* what each part costs
    Zero,           \* Zero[s]: the part that bills nothing, by which a send unsent is closed
    Bound,          \* the most each send may cost
    CellBound,      \* what a cell reserves
    Share, Reserve  \* what the books' runs may meter, and what the coupon holds

Root == "root"
Inner == "inner"
Books == {Root, Inner}

ASSUME BookAssumption ==
    /\ IsFiniteSet(Sends) /\ IsFiniteSet(Parts)
    /\ Nested \subseteq Sends /\ InCell \subseteq Sends
    /\ SendOf \in [Parts -> Sends]
    /\ Price \in [Parts -> Nat]
    /\ Zero \in [Sends -> Parts] /\ \A s \in Sends : SendOf[Zero[s]] = s /\ Price[Zero[s]] = 0
    /\ Bound \in [Sends -> Nat] /\ CellBound \in Nat
    /\ Share \in [Books -> Nat] /\ Reserve \in Nat

VARIABLES
    up,             \* a process runs and holds the books
    at,             \* at[s]: how far a send has come
    past,           \* the sends of processes that died
    bill,           \* bill[s]: the parts the provider bills for it
    wrote,          \* wrote[p]: how far a part's writes have come
    unseen,         \* parts landed that their book did not see land
    cell,           \* what a cell's reservation still holds, or Closed
    holding,        \* holding[b][s]: how often a book holds a send's bound
    counted,        \* counted[b][p]: how often it counted a part
    keeping,        \* keeping[b][s]: how often it keeps a bound unreported
    chargeHeld, chargeBilled,       \* the account's charges: holds and parts
    holds,                          \* the root ledger's holds
    usage, copied                   \* parts on their run's ledger, and on the root's

memory == <<holding, counted, keeping>>
files == <<chargeHeld, chargeBilled, holds, usage, copied>>
vars == <<up, at, past, bill, wrote, unseen, cell, memory, files>>

Closed == -1
PartsOf(s) == {p \in Parts : SendOf[p] = s}

(* The book of a send, and every book enclosing it. *)
Own(s) == IF s \in Nested THEN Inner ELSE Root
Levels(s) == {Root, Own(s)}

----------------------------------------------------------------------------
(* Room *)

Metered(b) == SumFunctionOnSet([p \in Parts |-> Price[p] * counted[b][p]], Parts)
Unreported(b) == SumFunctionOnSet([s \in Sends |-> Bound[s] * keeping[b][s]], Sends)
Reserved(b) == IF b = Root /\ cell # Closed THEN cell ELSE 0
Out(b) == SumFunctionOnSet([s \in Sends |-> Bound[s] * holding[b][s]], Sends) + Reserved(b)

\* Mutant: what a dead send may have cost is not counted against the room.
MutUsed(b) == Metered(b)

Used(b) == Metered(b) + Unreported(b)

(* The share admits while any of it is left; the reserve, which the root   *)
(* alone has, only what fits.                                               *)
Room(b, amount) ==
    /\ Share[b] - Used(b) - Out(b) > 0
    /\ b = Root => amount <= Reserve - Used(b) - Out(b)

(* What of a send's bound its cell reserved, and what is then to be admitted. *)
Drawn(s) == IF s \notin InCell \/ cell = Closed THEN 0
            ELSE IF cell < Bound[s] THEN cell ELSE Bound[s]
Draws(s) == s \in InCell /\ cell # Closed

----------------------------------------------------------------------------
(* Sends *)

Handling == {s \in Sends : at[s] \in {"held", "charged", "settling"}}
Open == {"held", "charged", "out", "settling"}

OpenCell ==
    /\ up /\ Handling = {} /\ cell = Closed
    /\ Room(Root, CellBound)
    /\ cell' = CellBound
    /\ UNCHANGED <<up, at, past, bill, wrote, unseen, memory, files>>

(* What no send inside drew goes back. *)
CloseCell ==
    /\ up /\ cell # Closed
    /\ \A s \in InCell : at[s] \notin Open
    /\ cell' = Closed
    /\ UNCHANGED <<up, at, past, bill, wrote, unseen, memory, files>>

Holds(s, n) == [b \in Books |->
    IF b \in Levels(s) THEN [holding[b] EXCEPT ![s] = @ + n] ELSE holding[b]]

\* Mutant: a send drawing its cell's reservation leaves it whole.
MutRest(s) == cell

(* The reservation, once a send has drawn on it. *)
Rest(s) == IF cell = Closed THEN cell ELSE cell - Drawn(s)

(* The books make room at every level, or the send is refused; where a     *)
(* cell reserved some of it, only the shortfall is admitted at its level.   *)
Place(s) ==
    /\ up /\ Handling = {} /\ at[s] = "idle"
    /\ \A b \in Levels(s) \ {Root} : Room(b, Bound[s])
    /\ IF Draws(s)
       THEN Drawn(s) < Bound[s] => Room(Root, Bound[s] - Drawn(s))
       ELSE Room(Root, Bound[s])
    /\ at' = [at EXCEPT ![s] = "held"]
    /\ cell' = Rest(s)
    /\ holding' = Holds(s, 1)
    /\ UNCHANGED <<up, past, bill, wrote, unseen, counted, keeping, files>>

\* Mutant: a nested send charges its account no hold.
MutHeldCharges(s) == IF s \in Nested THEN chargeHeld ELSE chargeHeld \cup {s}

HeldCharges(s) == chargeHeld \cup {s}

ChargeHold(s) ==
    /\ up /\ at[s] = "held"
    /\ at' = [at EXCEPT ![s] = "charged"]
    /\ chargeHeld' = HeldCharges(s)
    /\ UNCHANGED <<up, past, bill, wrote, unseen, cell, memory, chargeBilled, holds, usage, copied>>

(* The hold is on the ledger before the send goes out; what the provider   *)
(* bills is from then on a fact, which the run may never learn.             *)
WriteHold(s, parts) ==
    /\ up /\ at[s] = "charged"
    /\ at' = [at EXCEPT ![s] = "out"]
    /\ bill' = [bill EXCEPT ![s] = parts]
    /\ holds' = holds \cup {s}
    /\ UNCHANGED <<up, past, wrote, unseen, cell, memory, chargeHeld, chargeBilled, usage, copied>>

\* Mutant: a send whose hold could not be written stays held.
MutGivenBack(s) == holding

GivenBack(s) == Holds(s, -1)

(* A write of the hold raises, the ledger's perhaps once it landed: nothing *)
(* was sent, and the charge is closed at zero.                              *)
HoldFails(s, landed) ==
    /\ up /\ at[s] \in {"held", "charged"}
    /\ landed => at[s] = "charged"
    /\ holds' = IF landed THEN holds \cup {s} ELSE holds
    /\ at' = [at EXCEPT ![s] = "unsent"]
    /\ holding' = GivenBack(s)
    /\ chargeBilled' = chargeBilled \cup {Zero[s]}
    /\ UNCHANGED <<up, past, bill, wrote, unseen, cell, counted, keeping,
                   chargeHeld, usage, copied>>

----------------------------------------------------------------------------
(* Closing a send *)

(* Every part it reported is to be written. *)
Settles(s, parts) ==
    /\ at' = [at EXCEPT ![s] = "settling"]
    /\ wrote' = [p \in Parts |-> IF p \in parts THEN "priced" ELSE wrote[p]]

Answer(s) ==
    /\ up /\ Handling = {} /\ at[s] = "out"
    /\ Settles(s, bill[s])
    /\ UNCHANGED <<up, past, bill, unseen, cell, memory, files>>

(* The provider ran nothing, and is billed as nothing. *)
NotRun(s) ==
    /\ up /\ Handling = {} /\ at[s] = "out" /\ bill[s] = {Zero[s]}
    /\ Settles(s, {Zero[s]})
    /\ UNCHANGED <<up, past, bill, unseen, cell, memory, files>>

(* No answer says what it cost: its bound stays held, and its hold open. *)
GoesUnreported(s) ==
    /\ up /\ Handling = {} /\ at[s] = "out"
    /\ at' = [at EXCEPT ![s] = "unreported"]
    /\ holding' = GivenBack(s)
    /\ keeping' = [b \in Books |->
           IF b \in Levels(s) THEN [keeping[b] EXCEPT ![s] = @ + 1] ELSE keeping[b]]
    /\ UNCHANGED <<up, past, bill, wrote, unseen, cell, counted, files>>

(* Parts are written one after the other. *)
Begun(s) == {p \in PartsOf(s) : wrote[p] \in {"charged", "landed", "raised"}}

ChargePart(p) ==
    /\ up /\ at[SendOf[p]] = "settling" /\ wrote[p] = "priced" /\ Begun(SendOf[p]) = {}
    /\ wrote' = [wrote EXCEPT ![p] = "charged"]
    /\ chargeBilled' = chargeBilled \cup {p}
    /\ UNCHANGED <<up, at, past, bill, unseen, cell, memory, chargeHeld, holds, usage, copied>>

CountIn(b, p, parts) == counted[b][p] + (IF b \in Levels(SendOf[p]) /\ p \in parts THEN 1 ELSE 0)
Counts(parts) == [b \in Books |-> [p \in Parts |-> CountIn(b, p, parts)]]

(* The record lands on its run's ledger, whose book counts it, in itself   *)
(* and in the books enclosing it, unless it does not follow that ledger.    *)
LandPart(p, sees) ==
    /\ up /\ at[SendOf[p]] = "settling" /\ wrote[p] = "charged"
    /\ wrote' = [wrote EXCEPT ![p] = IF SendOf[p] \in Nested THEN "landed" ELSE "written"]
    /\ usage' = usage \cup {p}
    /\ counted' = IF sees THEN Counts({p}) ELSE counted
    /\ unseen' = IF sees THEN unseen ELSE unseen \cup {p}
    /\ UNCHANGED <<up, at, past, bill, cell, holding, keeping, chargeHeld, chargeBilled, holds, copied>>

(* A projection bound before the book refuses the record that landed: the  *)
(* book does not see it, and no more is written of the send.                *)
LandUnheard(p) ==
    /\ up /\ at[SendOf[p]] = "settling" /\ wrote[p] = "charged"
    /\ wrote' = [wrote EXCEPT ![p] = "raised"]
    /\ usage' = usage \cup {p}
    /\ UNCHANGED <<up, at, past, bill, unseen, cell, memory, chargeHeld, chargeBilled, holds, copied>>

(* A muted ledger takes no record. *)
MutePart(p) ==
    /\ up /\ at[SendOf[p]] = "settling" /\ wrote[p] = "charged"
    /\ wrote' = [wrote EXCEPT ![p] = "muted"]
    /\ UNCHANGED <<up, at, past, bill, unseen, cell, memory, files>>

MirrorPart(p) ==
    /\ up /\ at[SendOf[p]] = "settling" /\ wrote[p] = "landed"
    /\ wrote' = [wrote EXCEPT ![p] = "written"]
    /\ copied' = copied \cup {p}
    /\ UNCHANGED <<up, at, past, bill, unseen, cell, memory, chargeHeld, chargeBilled, holds, usage>>

Unlanded(s) == {p \in PartsOf(s) : wrote[p] \in {"priced", "charged", "muted", "raised"}}

\* Mutant: parts whose writes raised are counted nowhere.
MutUncounted(s) == unseen \cap PartsOf(s)

(* What the books have not counted by themselves when the send closes. *)
Uncounted(s) == (unseen \cap PartsOf(s)) \cup Unlanded(s)

(* The books close whatever the writes did: all done, or one of them raised. *)
CloseBook(s) ==
    /\ up /\ at[s] = "settling"
    /\ at' = [at EXCEPT ![s] = "settled"]
    /\ holding' = GivenBack(s)
    /\ counted' = Counts(Uncounted(s))
    /\ unseen' = unseen \ PartsOf(s)
    /\ UNCHANGED <<up, past, bill, wrote, cell, keeping, files>>

----------------------------------------------------------------------------
(* Death and relaunch *)

Nothing(S) == [b \in Books |-> [x \in S |-> 0]]

Crash ==
    /\ up
    /\ up' = FALSE
    /\ at' = [s \in Sends |-> IF at[s] \in Open THEN "lost" ELSE at[s]]
    /\ past' = past \cup {s \in Sends : at[s] # "idle"}
    /\ unseen' = {}
    /\ cell' = Closed
    /\ holding' = Nothing(Sends) /\ counted' = Nothing(Parts) /\ keeping' = Nothing(Sends)
    /\ UNCHANGED <<bill, wrote, files>>

(* What each run's own ledger carries: the root's, its nested runs' copies too. *)
OnLedger(b) == {p \in usage : Own(SendOf[p]) = b} \cup (IF b = Root THEN copied ELSE {})

\* Mutant: a bill on the nested run's own ledger closes the root's hold.
MutStillOpen(s) == s \in holds /\ PartsOf(s) \cap usage = {}

(* A hold on the root's ledger that no bill on it has closed. *)
StillOpen(s) == s \in holds /\ PartsOf(s) \cap OnLedger(Root) = {}

(* The next run's books start from their ledgers: what these metered, and  *)
(* what they hold open.                                                     *)
Relaunch ==
    /\ ~up
    /\ up' = TRUE
    /\ counted' = [b \in Books |-> [p \in Parts |-> IF p \in OnLedger(b) THEN 1 ELSE 0]]
    /\ keeping' = [b \in Books |-> [s \in Sends |-> IF b = Root /\ StillOpen(s) THEN 1 ELSE 0]]
    /\ UNCHANGED <<at, past, bill, wrote, unseen, cell, holding, files>>

----------------------------------------------------------------------------
Init ==
    /\ up = TRUE
    /\ at = [s \in Sends |-> "idle"]
    /\ past = {}
    /\ bill = [s \in Sends |-> {Zero[s]}]
    /\ wrote = [p \in Parts |-> "none"]
    /\ unseen = {}
    /\ cell = Closed
    /\ holding = Nothing(Sends) /\ counted = Nothing(Parts) /\ keeping = Nothing(Sends)
    /\ chargeHeld = {} /\ chargeBilled = {} /\ holds = {} /\ usage = {} /\ copied = {}

(* What a provider may bill for a send: nothing, or parts within its bound. *)
Bills(s) == {{Zero[s]}} \cup
    {parts \in SUBSET (PartsOf(s) \ {Zero[s]}) :
        parts # {} /\ SumFunctionOnSet(Price, parts) <= Bound[s]}

Placing(s) == \/ Place(s) \/ ChargeHold(s)
              \/ \E landed \in BOOLEAN : HoldFails(s, landed)
              \/ \E parts \in Bills(s) : WriteHold(s, parts)
Ending(s) == Answer(s) \/ NotRun(s) \/ GoesUnreported(s) \/ CloseBook(s)
Writing(p) == \/ ChargePart(p) \/ MutePart(p) \/ MirrorPart(p) \/ LandUnheard(p)
              \/ \E sees \in BOOLEAN : LandPart(p, sees)

Next == \/ \E s \in Sends : Placing(s) \/ Ending(s)
        \/ \E p \in Parts : Writing(p)
        \/ OpenCell \/ CloseCell \/ Crash \/ Relaunch

Spec == Init /\ [][Next]_vars

----------------------------------------------------------------------------
At == {"idle", "held", "charged", "out", "unsent", "settling", "settled", "unreported", "lost"}
Wrote == {"none", "priced", "charged", "landed", "muted", "raised", "written"}

(* Every send, part, book and file entry is well formed; a book never      *)
(* holds a send less than not at all, and counts in naturals                *)
(* (spend_book.py SpendBook._move, count, keep_held).                       *)
TypeOK ==
    /\ up \in BOOLEAN
    /\ at \in [Sends -> At]
    /\ past \subseteq Sends
    /\ bill \in [Sends -> SUBSET Parts]
    /\ wrote \in [Parts -> Wrote]
    /\ unseen \subseteq Parts
    /\ cell \in Nat \cup {Closed}
    /\ holding \in [Books -> [Sends -> Nat]]
    /\ counted \in [Books -> [Parts -> Nat]]
    /\ keeping \in [Books -> [Sends -> Nat]]
    /\ chargeHeld \subseteq Sends /\ holds \subseteq Sends
    /\ chargeBilled \subseteq Parts /\ usage \subseteq Parts /\ copied \subseteq Parts

(* A book holds the bound of exactly the sends that are out under it, each *)
(* once: none is left held when it has ended, however it ended              *)
(* (spend_book.py Admission.__init__, _close_book, unreported).             *)
HoldsWhatIsOut ==
    \A b \in Books, s \in Sends :
        holding[b][s] = IF up /\ at[s] \in Open /\ b \in Levels(s) THEN 1 ELSE 0

(* A send settled in this process is counted once, every part of it, in    *)
(* every book of its chain, whichever of its writes raised and whether or   *)
(* not its book follows the ledger it landed on                             *)
(* (spend_book.py Admission.settle, _write, _close_book).                   *)
CountedOnce ==
    \A s \in Sends \ past : at[s] = "settled" =>
        \A p \in bill[s], b \in Levels(s) : counted[b][p] = 1

(* A bill whose parts reached the files in some of them only: the run died *)
(* between two writes, or one of them raised.  The first part to land closes *)
(* the send's hold for every later reader (read_model.py HeldSends.close), so *)
(* the rest of it is lost to them.                                          *)
InPart(s, landed) ==
    /\ bill[s] \cap landed # {} /\ ~(bill[s] \subseteq landed)
    /\ at[s] \in {"settling", "lost"} \/ \E p \in bill[s] : wrote[p] # "written"

Sent(s) == at[s] \in {"out", "settling", "settled", "unreported"} \/ (at[s] = "lost" /\ s \in holds)

(* What was sent is never forgotten: the root's book, also the one a       *)
(* relaunch opens after a crash, has counted every part billed for it, or   *)
(* still holds or keeps its bound                                           *)
(* (spend_book.py Admission._hold, SpendBook.take_up, unreported_on).       *)
RootForgetsNothing ==
    up => \A s \in Sends : Sent(s) =>
        \/ \A p \in bill[s] : counted[Root][p] >= 1
        \/ holding[Root][s] >= 1 \/ keeping[Root][s] >= 1
        \/ s \in past /\ InPart(s, OnLedger(Root))

(* Nor does the account: once its run has stopped, a send is billed whole  *)
(* or its hold stands open among the charges                                *)
(* (wallet_store.py ChargeBook, account_spend.py _Charges).                 *)
AccountForgetsNothing ==
    \A s \in Sends : Sent(s) =>
        \/ bill[s] \subseteq chargeBilled
        \/ s \in chargeHeld /\ PartsOf(s) \cap chargeBilled = {}
        \/ InPart(s, chargeBilled)

(* Sends closed in a process that died, none of whose bills reached the     *)
(* root's ledger: their room had gone to others, and the next run holds     *)
(* their bound again.                                                       *)
Reopened == {s \in past : at[s] \in {"settled", "unsent"} /\ StillOpen(s)}

(* While no send is being settled, what the root's book counts, keeps and  *)
(* holds out never passes the coupon's reserve, over crashes and relaunches, *)
(* by more than the bounds of sends held again                              *)
(* (spend_book.py SpendBook._room, _Reservation.draw).                      *)
ReserveNeverPassed ==
    up /\ Handling = {} =>
        Metered(Root) + Unreported(Root) + Out(Root) <=
            Reserve + SumFunctionOnSet(Bound, Reopened)
=============================================================================
