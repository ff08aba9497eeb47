--------------------------- MODULE SpendBook_proof ---------------------------
(***************************************************************************)
(* Proofs about SpendBook, for every set of sends and parts, every price,  *)
(* bound and share: first what concerns single sends and parts, then the   *)
(* sums over them that make a book's room.                                  *)
(***************************************************************************)
EXTENDS SpendBook, SetFacts, TLAPS

USE DEF Root, Inner, Books

(* Where sends stand while the process lives and when it is down.          *)
Standing ==
    /\ ~up => \A s \in Sends : at[s] \notin Open /\ (at[s] # "idle" => s \in past)
    /\ \A s \in past : at[s] \notin Open /\ at[s] # "idle"
    /\ \A s \in Sends : at[s] = "lost" => s \in past

Settling(s) == at[s] = "settling"

(* What a part's writes have left behind, and the bill it belongs to.      *)
WritesOf(p) ==
    /\ wrote[p] # "none" => at[SendOf[p]] \in {"settling", "settled", "lost"}
    /\ wrote[p] # "none" => p \in bill[SendOf[p]]
    /\ at[SendOf[p]] \in {"settling", "settled"} /\ p \in bill[SendOf[p]] => wrote[p] # "none"
    /\ p \in usage => wrote[p] \in {"landed", "raised", "written"}
    /\ wrote[p] = "landed" => SendOf[p] \in Nested
    /\ p \in copied => wrote[p] = "written"
    /\ wrote[p] = "written" => IF SendOf[p] \in Nested THEN p \in copied ELSE p \in usage
    /\ p \in unseen => at[SendOf[p]] = "settling" /\ wrote[p] \in {"landed", "written"}

Writes ==
    /\ \A s \in Sends : bill[s] \subseteq PartsOf(s)
    /\ \A p \in Parts : WritesOf(p)

(* How often a part of this process's send is counted, at every level.     *)
CountOf(p) ==
    IF \/ Settling(SendOf[p]) /\ wrote[p] \in {"landed", "written"} /\ p \notin unseen
       \/ at[SendOf[p]] = "settled" /\ p \in bill[SendOf[p]]
    THEN 1 ELSE 0

Counting ==
    \A p \in Parts : SendOf[p] \notin past =>
        \A b \in Levels(SendOf[p]) : counted[b][p] = CountOf(p)

(* What the account's charges and the root's ledger have of a send.        *)
HeldOf(s) ==
    /\ at[s] \in {"idle", "held", "charged"} => s \notin holds /\ PartsOf(s) \cap chargeBilled = {}
    /\ at[s] = "charged" => s \in chargeHeld
    /\ Sent(s) => s \in holds /\ s \in chargeHeld /\ chargeBilled \cap PartsOf(s) \subseteq bill[s]
    /\ \A p \in PartsOf(s) : wrote[p] \notin {"none", "priced"} => p \in chargeBilled

(* What the root's book keeps of a send gone unreported, and takes up of   *)
(* the sends of processes that died.                                        *)
KeptOf(s) ==
    /\ s \notin past => keeping[Root][s] = IF at[s] = "unreported" THEN 1 ELSE 0
    /\ up /\ s \in past /\ Sent(s) =>
           IF StillOpen(s) THEN keeping[Root][s] = 1
           ELSE \A p \in PartsOf(s) \cap OnLedger(Root) : counted[Root][p] = 1

Keeping == \A s \in Sends : HeldOf(s) /\ KeptOf(s)

BookInv == TypeOK /\ Standing /\ HoldsWhatIsOut /\ Writes /\ Counting /\ Keeping

-----------------------------------------------------------------------------
(* A bound held once more, or once less, is so at the send's levels alone. *)
LEMMA HoldsAre ==
    ASSUME holding \in [Books -> [Sends -> Nat]], NEW s \in Sends, NEW n \in Int
    PROVE  /\ Holds(s, n) \in [Books -> [Sends -> Int]]
           /\ \A b \in Books, t \in Sends : Holds(s, n)[b][t] =
                IF b \in Levels(s) /\ t = s THEN holding[b][t] + n ELSE holding[b][t]
<1> DEFINE H(b) == [holding[b] EXCEPT ![s] = @ + n]
<1>1. \A b \in Books : H(b) \in [Sends -> Int]
  <2> TAKE b \in Books
  <2>1. holding[b] \in [Sends -> Nat]  OBVIOUS
  <2> QED BY <2>1
<1>2. \A b \in Books, t \in Sends : H(b)[t] = IF t = s THEN holding[b][t] + n ELSE holding[b][t]
  <2> TAKE b \in Books, t \in Sends
  <2>1. holding[b] \in [Sends -> Nat]  OBVIOUS
  <2> QED BY <2>1
<1>3. Holds(s, n) = [b \in Books |-> IF b \in Levels(s) THEN H(b) ELSE holding[b]]
  BY DEF Holds
<1>4. \A b \in Books : holding[b] \in [Sends -> Int]
  <2> TAKE b \in Books
  <2>1. holding[b] \in [Sends -> Nat]  OBVIOUS
  <2> QED BY <2>1
<1> HIDE DEF H
<1>5. \A b \in Books : Holds(s, n)[b] = IF b \in Levels(s) THEN H(b) ELSE holding[b]  BY <1>3
<1>6. Holds(s, n) \in [Books -> [Sends -> Int]]  BY <1>1, <1>3, <1>4
<1>7. ASSUME NEW b \in Books, NEW t \in Sends
      PROVE  Holds(s, n)[b][t] =
                IF b \in Levels(s) /\ t = s THEN holding[b][t] + n ELSE holding[b][t]
  <2>1. CASE b \in Levels(s)  BY <2>1, <1>2, <1>5
  <2>2. CASE b \notin Levels(s)  BY <2>2, <1>5
  <2> QED BY <2>1, <2>2
<1> QED BY <1>6, <1>7

(* Counting parts once more counts them at their send's levels alone.      *)
LEMMA CountsAre ==
    ASSUME counted \in [Books -> [Parts -> Nat]], NEW parts
    PROVE  /\ Counts(parts) \in [Books -> [Parts -> Nat]]
           /\ \A b \in Books, p \in Parts : Counts(parts)[b][p] =
                IF b \in Levels(SendOf[p]) /\ p \in parts THEN counted[b][p] + 1 ELSE counted[b][p]
<1>1. \A b \in Books, p \in Parts : counted[b][p] \in Nat
  <2> TAKE b \in Books, p \in Parts
  <2>1. counted[b] \in [Parts -> Nat]  OBVIOUS
  <2> QED BY <2>1
<1>2. \A b \in Books, p \in Parts : CountIn(b, p, parts) =
          IF b \in Levels(SendOf[p]) /\ p \in parts THEN counted[b][p] + 1 ELSE counted[b][p]
  BY <1>1 DEF CountIn
<1>3. \A b \in Books, p \in Parts : CountIn(b, p, parts) \in Nat  BY <1>1, <1>2
<1> QED BY <1>2, <1>3 DEF Counts

-----------------------------------------------------------------------------
LEMMA InitHolds == Init => BookInv
<1> SUFFICES ASSUME Init PROVE BookInv  OBVIOUS
<1>1. /\ up = TRUE /\ past = {} /\ unseen = {} /\ cell = Closed
      /\ \A s \in Sends : at[s] = "idle" /\ bill[s] = {Zero[s]}
      /\ \A p \in Parts : wrote[p] = "none"
      /\ chargeHeld = {} /\ chargeBilled = {} /\ holds = {} /\ usage = {} /\ copied = {}
  BY DEF Init
<1>2. /\ \A b \in Books, s \in Sends : holding[b][s] = 0
      /\ \A b \in Books, p \in Parts : counted[b][p] = 0
  BY DEF Init, Nothing
<1>3. TypeOK
  <2>1. bill \in [Sends -> SUBSET Parts]  BY BookAssumption DEF Init
  <2>2. /\ holding \in [Books -> [Sends -> Nat]]
        /\ counted \in [Books -> [Parts -> Nat]]
        /\ keeping \in [Books -> [Sends -> Nat]]
    BY DEF Init, Nothing
  <2> QED BY <2>1, <2>2 DEF Init, TypeOK, At, Wrote
<1>4. Standing  BY <1>1 DEF Standing, Open
<1>5. HoldsWhatIsOut  BY <1>1, <1>2 DEF HoldsWhatIsOut, Open
<1>6. Writes  BY <1>1, BookAssumption DEF Writes, WritesOf, PartsOf
<1>7. Counting
  <2> SUFFICES ASSUME NEW p \in Parts, NEW b \in Levels(SendOf[p]) PROVE counted[b][p] = CountOf(p)
    BY DEF Counting
  <2>1. b \in Books /\ SendOf[p] \in Sends  BY BookAssumption DEF Levels, Own
  <2> QED BY <1>1, <1>2, <2>1 DEF CountOf, Settling
<1>8. Keeping
  <2>1. \A s \in Sends : keeping[Root][s] = 0  BY DEF Init, Nothing
  <2> QED BY <1>1, <2>1 DEF Keeping, HeldOf, KeptOf, Sent, PartsOf
<1> QED BY <1>3, <1>4, <1>5, <1>6, <1>7, <1>8 DEF BookInv

-----------------------------------------------------------------------------
(* Steps that touch no send. *)
LEMMA CellSteps == BookInv /\ (OpenCell \/ CloseCell) => BookInv'
<1> SUFFICES ASSUME BookInv, OpenCell \/ CloseCell PROVE BookInv'  OBVIOUS
<1>1. /\ UNCHANGED <<up, at, past, bill, wrote, unseen, memory, files>>
      /\ cell' \in Nat \cup {Closed}
  BY BookAssumption DEF OpenCell, CloseCell
<1>2. UNCHANGED <<holding, counted, keeping, chargeHeld, chargeBilled, holds, usage, copied>>
  BY <1>1 DEF memory, files
<1> QED BY <1>1, <1>2 DEF BookInv, TypeOK, Standing, HoldsWhatIsOut, Writes, WritesOf, Counting,
           CountOf, Settling, Keeping, HeldOf, KeptOf, Sent, StillOpen, OnLedger, PartsOf

LEMMA PlaceKeeps == ASSUME NEW s \in Sends PROVE BookInv /\ Place(s) => BookInv'
<1> SUFFICES ASSUME BookInv, Place(s) PROVE BookInv'  OBVIOUS
<1> USE DEF BookInv
<1>1. /\ up /\ at[s] = "idle"
      /\ at' = [at EXCEPT ![s] = "held"] /\ holding' = Holds(s, 1) /\ cell' = Rest(s)
      /\ UNCHANGED <<up, past, bill, wrote, unseen, counted, keeping>>
      /\ UNCHANGED <<chargeHeld, chargeBilled, holds, usage, copied>>
  BY DEF Place, files
<1>2. at \in [Sends -> At] /\ \A t \in Sends : at'[t] = IF t = s THEN "held" ELSE at[t]
  BY <1>1 DEF TypeOK
<1>3. HoldsWhatIsOut'
  <2>1. \A b \in Books, t \in Sends : holding'[b][t] =
            IF b \in Levels(s) /\ t = s THEN holding[b][t] + 1 ELSE holding[b][t]
    <3>1. holding \in [Books -> [Sends -> Nat]] /\ 1 \in Int  BY DEF TypeOK
    <3>2. \A b \in Books, t \in Sends : Holds(s, 1)[b][t] =
              IF b \in Levels(s) /\ t = s THEN holding[b][t] + 1 ELSE holding[b][t]
      BY <3>1, HoldsAre
    <3> QED BY <1>1, <3>2
  <2> QED BY <1>1, <1>2, <2>1 DEF HoldsWhatIsOut, Open, Levels
<1>4. TypeOK'
  <2>1. holding' \in [Books -> [Sends -> Nat]]
    <3>1. holding' \in [Books -> [Sends -> Int]]  BY <1>1, HoldsAre DEF TypeOK
    <3>2. \A b \in Books, t \in Sends : holding'[b][t] \in Nat  BY <1>3 DEF HoldsWhatIsOut
    <3> QED BY <3>1, <3>2
  <2>2. cell' \in Nat \cup {Closed}
    <3>1. Bound[s] \in Nat /\ cell \in Nat \cup {-1}  BY BookAssumption DEF TypeOK, Closed
    <3>2. cell # -1 => Drawn(s) \in Nat /\ Drawn(s) <= cell  BY <3>1 DEF Drawn, Closed
    <3> QED BY <1>1, <3>1, <3>2 DEF Rest, Closed
  <2> QED BY <1>1, <2>1, <2>2 DEF TypeOK, At
<1>5. Standing'  BY <1>1, <1>2 DEF Standing, Open
<1>6. Writes'  BY <1>1, <1>2, BookAssumption DEF Writes, WritesOf, PartsOf
<1>7. Counting'  BY <1>1, <1>2, BookAssumption DEF Counting, CountOf, Settling, Levels
<1>8. Keeping'  BY <1>1, <1>2 DEF Keeping, HeldOf, KeptOf, Sent, StillOpen, OnLedger, PartsOf, Standing
<1> QED BY <1>3, <1>4, <1>5, <1>6, <1>7, <1>8

LEMMA ChargeHoldKeeps == ASSUME NEW s \in Sends PROVE BookInv /\ ChargeHold(s) => BookInv'
<1> SUFFICES ASSUME BookInv, ChargeHold(s) PROVE BookInv'  OBVIOUS
<1> USE DEF BookInv
<1>1. /\ up /\ at[s] = "held"
      /\ at' = [at EXCEPT ![s] = "charged"] /\ chargeHeld' = chargeHeld \cup {s}
      /\ UNCHANGED <<up, past, bill, wrote, unseen, cell, holding, counted, keeping>>
      /\ UNCHANGED <<chargeBilled, holds, usage, copied>>
  BY DEF ChargeHold, memory, HeldCharges
<1>2. at \in [Sends -> At] /\ \A t \in Sends : at'[t] = IF t = s THEN "charged" ELSE at[t]
  BY <1>1 DEF TypeOK
<1>3. HoldsWhatIsOut'  BY <1>1, <1>2 DEF HoldsWhatIsOut, Open
<1>4. TypeOK'  BY <1>1 DEF TypeOK, At
<1>5. Standing'  BY <1>1, <1>2 DEF Standing, Open
<1>6. Writes'  BY <1>1, <1>2, BookAssumption DEF Writes, WritesOf, PartsOf
<1>7. Counting'  BY <1>1, <1>2, BookAssumption DEF Counting, CountOf, Settling, Levels
<1>8. Keeping'  BY <1>1, <1>2 DEF Keeping, HeldOf, KeptOf, Sent, StillOpen, OnLedger, PartsOf, Standing
<1> QED BY <1>3, <1>4, <1>5, <1>6, <1>7, <1>8

LEMMA WriteHoldKeeps ==
    ASSUME NEW s \in Sends, NEW parts \in Bills(s)
    PROVE  BookInv /\ WriteHold(s, parts) => BookInv'
<1> SUFFICES ASSUME BookInv, WriteHold(s, parts) PROVE BookInv'  OBVIOUS
<1> USE DEF BookInv
<1>1. /\ up /\ at[s] = "charged"
      /\ at' = [at EXCEPT ![s] = "out"] /\ bill' = [bill EXCEPT ![s] = parts]
      /\ holds' = holds \cup {s}
      /\ UNCHANGED <<up, past, wrote, unseen, cell, holding, counted, keeping>>
      /\ UNCHANGED <<chargeHeld, chargeBilled, usage, copied>>
  BY DEF WriteHold, memory
<1>2. parts \subseteq PartsOf(s) /\ PartsOf(s) \subseteq Parts
  BY BookAssumption DEF Bills, PartsOf
<1>3. /\ at \in [Sends -> At] /\ \A t \in Sends : at'[t] = IF t = s THEN "out" ELSE at[t]
      /\ bill \in [Sends -> SUBSET Parts]
      /\ \A t \in Sends : bill'[t] = IF t = s THEN parts ELSE bill[t]
  BY <1>1 DEF TypeOK
<1>4. HoldsWhatIsOut'  BY <1>1, <1>3 DEF HoldsWhatIsOut, Open
<1>5. TypeOK'  BY <1>1, <1>2 DEF TypeOK, At
<1>6. Standing'  BY <1>1, <1>3 DEF Standing, Open
<1>7. Writes'  BY <1>1, <1>2, <1>3, BookAssumption DEF Writes, WritesOf, PartsOf
<1>8. Counting'  BY <1>1, <1>3, BookAssumption DEF Counting, CountOf, Settling, Levels
<1>9. Keeping'
  <2> SUFFICES ASSUME NEW t \in Sends PROVE HeldOf(t)' /\ KeptOf(t)'  BY DEF Keeping
  <2>1. HeldOf(t) /\ KeptOf(t)  BY DEF Keeping
  <2>2. s \notin past  BY <1>1 DEF Standing, Open
  <2>3. HeldOf(t)'  BY <1>1, <1>3, <2>1 DEF HeldOf, Sent, PartsOf
  <2>4. KeptOf(t)'  BY <1>1, <1>3, <2>1, <2>2 DEF KeptOf, Sent, StillOpen, OnLedger, PartsOf
  <2> QED BY <2>3, <2>4
<1> QED BY <1>4, <1>5, <1>6, <1>7, <1>8, <1>9

LEMMA HoldFailsKeeps ==
    ASSUME NEW s \in Sends, NEW landed \in BOOLEAN
    PROVE  BookInv /\ HoldFails(s, landed) => BookInv'
<1> SUFFICES ASSUME BookInv, HoldFails(s, landed) PROVE BookInv'  OBVIOUS
<1> USE DEF BookInv
<1>1. /\ up /\ at[s] \in {"held", "charged"}
      /\ at' = [at EXCEPT ![s] = "unsent"] /\ holding' = Holds(s, -1)
      /\ holds' = (IF landed THEN holds \cup {s} ELSE holds)
      /\ chargeBilled' = chargeBilled \cup {Zero[s]}
      /\ UNCHANGED <<up, past, bill, wrote, unseen, cell, counted, keeping>>
      /\ UNCHANGED <<chargeHeld, usage, copied>>
  BY DEF HoldFails, GivenBack
<1>2. at \in [Sends -> At] /\ \A t \in Sends : at'[t] = IF t = s THEN "unsent" ELSE at[t]
  BY <1>1 DEF TypeOK
<1>3. HoldsWhatIsOut'
  <2>1. \A b \in Books, t \in Sends : holding'[b][t] =
            IF b \in Levels(s) /\ t = s THEN holding[b][t] + -1 ELSE holding[b][t]
    <3>1. holding \in [Books -> [Sends -> Nat]] /\ -1 \in Int  BY DEF TypeOK
    <3>2. \A b \in Books, t \in Sends : Holds(s, -1)[b][t] =
              IF b \in Levels(s) /\ t = s THEN holding[b][t] + -1 ELSE holding[b][t]
      BY <3>1, HoldsAre
    <3> QED BY <1>1, <3>2
  <2> QED BY <1>1, <1>2, <2>1 DEF HoldsWhatIsOut, Open, Levels
<1>4. TypeOK'
  <2>1. holding' \in [Books -> [Sends -> Nat]]
    <3>1. holding' \in [Books -> [Sends -> Int]]  BY <1>1, HoldsAre DEF TypeOK
    <3>2. \A b \in Books, t \in Sends : holding'[b][t] \in Nat  BY <1>3 DEF HoldsWhatIsOut
    <3> QED BY <3>1, <3>2
  <2>2. Zero[s] \in Parts  BY BookAssumption
  <2> QED BY <1>1, <2>1, <2>2 DEF TypeOK, At
<1>5. Standing'  BY <1>1, <1>2 DEF Standing, Open
<1>6. Writes'  BY <1>1, <1>2, BookAssumption DEF Writes, WritesOf, PartsOf
<1>7. Counting'  BY <1>1, <1>2, BookAssumption DEF Counting, CountOf, Settling, Levels
<1>8. Keeping'
  <2> SUFFICES ASSUME NEW t \in Sends PROVE HeldOf(t)' /\ KeptOf(t)'  BY DEF Keeping
  <2>1. t # s => Zero[s] \notin PartsOf(t)  BY BookAssumption DEF PartsOf
  <2>2. HeldOf(t) /\ KeptOf(t)  BY DEF Keeping
  <2>3. HeldOf(t)'  BY <1>1, <1>2, <2>1, <2>2 DEF HeldOf, Sent, PartsOf
  <2>4. s \notin past  BY <1>1 DEF Standing, Open
  <2>5. KeptOf(t)'
    BY <1>1, <1>2, <2>2, <2>4 DEF KeptOf, Sent, StillOpen, OnLedger, PartsOf
  <2> QED BY <2>3, <2>5
<1> QED BY <1>3, <1>4, <1>5, <1>6, <1>7, <1>8

-----------------------------------------------------------------------------
(* Closing a send. *)
LEMMA SettlesKeeps ==
    ASSUME NEW s \in Sends, BookInv, up, at[s] = "out", Settles(s, bill[s]),
           UNCHANGED <<up, past, bill, unseen, cell, memory, files>>
    PROVE  BookInv'
<1> USE DEF BookInv
<1>1. /\ at' = [at EXCEPT ![s] = "settling"]
      /\ wrote' = [p \in Parts |-> IF p \in bill[s] THEN "priced" ELSE wrote[p]]
      /\ UNCHANGED <<up, past, bill, unseen, cell, holding, counted, keeping>>
      /\ UNCHANGED <<chargeHeld, chargeBilled, holds, usage, copied>>
  BY DEF Settles, memory, files
<1>2. /\ at \in [Sends -> At]
      /\ \A t \in Sends : at'[t] = IF t = s THEN "settling" ELSE at[t]
      /\ \A p \in Parts : wrote'[p] = IF p \in bill[s] THEN "priced" ELSE wrote[p]
  BY <1>1 DEF TypeOK
<1>3. \A p \in Parts : SendOf[p] \in Sends /\ (p \in bill[s] => SendOf[p] = s)
  BY BookAssumption DEF Writes, PartsOf
<1>4. HoldsWhatIsOut'  BY <1>1, <1>2 DEF HoldsWhatIsOut, Open
<1>5. TypeOK'  BY <1>1 DEF TypeOK, At, Wrote
<1>6. Standing'  BY <1>1, <1>2 DEF Standing, Open
<1>7. Writes'
  <2>1. \A t \in Sends : bill'[t] \subseteq PartsOf(t)  BY <1>1 DEF Writes
  <2>2. ASSUME NEW p \in Parts PROVE WritesOf(p)'
    <3>1. WritesOf(p)  BY DEF Writes
    <3> QED BY <1>1, <1>2, <1>3, <3>1 DEF WritesOf
  <2> QED BY <2>1, <2>2 DEF Writes, PartsOf
<1>8. Counting'
  <2> SUFFICES ASSUME NEW p \in Parts, SendOf[p] \notin past', NEW b \in Levels(SendOf[p])
               PROVE  (counted[b][p])' = CountOf(p)'
    BY DEF Counting, Levels
  <2>1. counted[b][p] = CountOf(p) /\ WritesOf(p)  BY <1>1 DEF Counting, Writes
  <2> QED BY <1>1, <1>2, <1>3, <2>1 DEF CountOf, Settling, WritesOf
<1>9. Keeping'
  <2> SUFFICES ASSUME NEW t \in Sends PROVE HeldOf(t)' /\ KeptOf(t)'  BY DEF Keeping
  <2>1. HeldOf(t) /\ KeptOf(t)  BY DEF Keeping
  <2>2. s \notin past  BY DEF Standing, Open
  <2>3. HeldOf(t)'  BY <1>1, <1>2, <2>1 DEF HeldOf, Sent, PartsOf
  <2>4. KeptOf(t)'  BY <1>1, <1>2, <2>1, <2>2 DEF KeptOf, Sent, StillOpen, OnLedger, PartsOf
  <2> QED BY <2>3, <2>4
<1> QED BY <1>4, <1>5, <1>6, <1>7, <1>8, <1>9

LEMMA UnreportedKeeps == ASSUME NEW s \in Sends PROVE BookInv /\ GoesUnreported(s) => BookInv'
<1> SUFFICES ASSUME BookInv, GoesUnreported(s) PROVE BookInv'  OBVIOUS
<1> USE DEF BookInv
<1> DEFINE K(b) == [keeping[b] EXCEPT ![s] = @ + 1]
<1>1. /\ up /\ at[s] = "out"
      /\ at' = [at EXCEPT ![s] = "unreported"] /\ holding' = Holds(s, -1)
      /\ keeping' = [b \in Books |-> IF b \in Levels(s) THEN K(b) ELSE keeping[b]]
      /\ UNCHANGED <<up, past, bill, wrote, unseen, cell, counted>>
      /\ UNCHANGED <<chargeHeld, chargeBilled, holds, usage, copied>>
  BY DEF GoesUnreported, GivenBack, files
<1>2. at \in [Sends -> At] /\ \A t \in Sends : at'[t] = IF t = s THEN "unreported" ELSE at[t]
  BY <1>1 DEF TypeOK
<1>3. \A b \in Books : keeping[b] \in [Sends -> Nat]  BY DEF TypeOK
<1>4. \A b \in Books, t \in Sends :
          K(b) \in [Sends -> Nat] /\ K(b)[t] = IF t = s THEN keeping[b][t] + 1 ELSE keeping[b][t]
  BY <1>3
<1> HIDE DEF K
<1>5. HoldsWhatIsOut'
  <2>1. \A b \in Books, t \in Sends : holding'[b][t] =
            IF b \in Levels(s) /\ t = s THEN holding[b][t] + -1 ELSE holding[b][t]
    <3>1. holding \in [Books -> [Sends -> Nat]] /\ -1 \in Int  BY DEF TypeOK
    <3>2. \A b \in Books, t \in Sends : Holds(s, -1)[b][t] =
              IF b \in Levels(s) /\ t = s THEN holding[b][t] + -1 ELSE holding[b][t]
      BY <3>1, HoldsAre
    <3> QED BY <1>1, <3>2
  <2> QED BY <1>1, <1>2, <2>1 DEF HoldsWhatIsOut, Open, Levels
<1>6. TypeOK'
  <2>1. holding' \in [Books -> [Sends -> Nat]]
    <3>1. holding' \in [Books -> [Sends -> Int]]  BY <1>1, HoldsAre DEF TypeOK
    <3>2. \A b \in Books, t \in Sends : holding'[b][t] \in Nat  BY <1>5 DEF HoldsWhatIsOut
    <3> QED BY <3>1, <3>2
  <2>2. keeping' \in [Books -> [Sends -> Nat]]  BY <1>1, <1>3, <1>4
  <2> QED BY <1>1, <2>1, <2>2 DEF TypeOK, At
<1>7. Standing'  BY <1>1, <1>2 DEF Standing, Open
<1>8. Writes'  BY <1>1, <1>2, BookAssumption DEF Writes, WritesOf, PartsOf
<1>9. Counting'  BY <1>1, <1>2, BookAssumption DEF Counting, CountOf, Settling, Levels
<1>10. Keeping'
  <2> SUFFICES ASSUME NEW t \in Sends PROVE HeldOf(t)' /\ KeptOf(t)'  BY DEF Keeping
  <2>1. HeldOf(t) /\ KeptOf(t)  BY DEF Keeping
  <2>2. s \notin past  BY <1>1 DEF Standing, Open
  <2>3. HeldOf(t)'  BY <1>1, <1>2, <2>1 DEF HeldOf, Sent, PartsOf
  <2>4. Root \in Levels(s) /\ keeping'[Root][t] = K(Root)[t]  BY <1>1 DEF Levels
  <2>5. keeping'[Root][t] = IF t = s THEN keeping[Root][t] + 1 ELSE keeping[Root][t]
    BY <1>4, <2>4
  <2>6. KeptOf(t)'
    BY <1>1, <1>2, <2>1, <2>2, <2>5 DEF KeptOf, Sent, StillOpen, OnLedger, PartsOf
  <2> QED BY <2>3, <2>6
<1> QED BY <1>5, <1>6, <1>7, <1>8, <1>9, <1>10

-----------------------------------------------------------------------------
(* A step that writes one part of a send being settled need only leave that *)
(* part in order: no other part is touched.                                  *)
LEMMA OnePart ==
    ASSUME NEW p \in Parts, NEW w \in Wrote, BookInv, up, at[SendOf[p]] = "settling",
           wrote' = [wrote EXCEPT ![p] = w], w # "none",
           UNCHANGED <<up, at, past, bill, cell, holding, keeping, chargeHeld, holds>>,
           unseen' \subseteq Parts, usage' \subseteq Parts, copied' \subseteq Parts,
           chargeBilled' \subseteq Parts, counted' \in [Books -> [Parts -> Nat]],
           \A q \in Parts : q # p =>
               /\ q \in unseen' <=> q \in unseen
               /\ q \in usage' <=> q \in usage
               /\ q \in copied' <=> q \in copied
               /\ q \in chargeBilled' <=> q \in chargeBilled
               /\ \A b \in Books : counted'[b][q] = counted[b][q],
           WritesOf(p)', p \in chargeBilled',
           \A b \in Levels(SendOf[p]) : counted'[b][p] = CountOf(p)'
    PROVE  BookInv'
<1> USE DEF BookInv
<1> DEFINE s == SendOf[p]
<1>1. s \in Sends /\ s \notin past  BY BookAssumption DEF Standing, Open
<1>2. /\ wrote \in [Parts -> Wrote]
      /\ \A q \in Parts : wrote'[q] = IF q = p THEN w ELSE wrote[q]
  BY DEF TypeOK
<1>3. HoldsWhatIsOut' /\ Standing'  BY DEF HoldsWhatIsOut, Standing
<1>4. TypeOK'  BY DEF TypeOK
<1>5. Writes'
  <2>1. \A q \in Parts : q # p => WritesOf(q)'  BY <1>2 DEF Writes, WritesOf
  <2> QED BY <2>1 DEF Writes, PartsOf
<1>6. Counting'
  <2> SUFFICES ASSUME NEW q \in Parts, SendOf[q] \notin past, q # p,
                      NEW b \in Levels(SendOf[q])
               PROVE  counted'[b][q] = CountOf(q)'
    BY DEF Counting, Levels
  <2>1. counted[b][q] = CountOf(q)  BY DEF Counting
  <2>2. b \in Books  BY DEF Levels, Own
  <2> QED BY <1>2, <2>1, <2>2 DEF CountOf, Settling
<1>7. Keeping'
  <2> SUFFICES ASSUME NEW t \in Sends PROVE HeldOf(t)' /\ KeptOf(t)'  BY DEF Keeping
  <2>1. HeldOf(t) /\ KeptOf(t)  BY DEF Keeping
  <2>2. p \in bill[s]  BY <1>2 DEF WritesOf
  <2>3. \A q \in PartsOf(t) : q \in Parts /\ (t # s => q # p)  BY DEF PartsOf
  <2>4. HeldOf(t)'
    <3>1. CASE t = s
      <4>1. chargeBilled' \cap PartsOf(s) \subseteq bill[s]
        BY <1>1, <2>1, <2>2, <2>3, <3>1 DEF HeldOf, Sent
      <4>2. \A q \in PartsOf(s) : wrote'[q] \notin {"none", "priced"} => q \in chargeBilled'
        BY <1>2, <2>1, <2>3, <3>1 DEF HeldOf
      <4> QED BY <2>1, <3>1, <4>1, <4>2 DEF HeldOf, Sent, PartsOf
    <3>2. CASE t # s
      BY <1>2, <2>1, <2>3, <3>2 DEF HeldOf, Sent, PartsOf
    <3> QED BY <3>1, <3>2
  <2>5. KeptOf(t)'
    <3>1. CASE t = s  BY <1>1, <2>1, <3>1 DEF KeptOf
    <3>2. CASE t # s
      <4>1. \A q \in PartsOf(t) : (q \in OnLedger(Root))' <=> q \in OnLedger(Root)
        BY <2>3, <3>2 DEF OnLedger
      <4>2. StillOpen(t)' <=> StillOpen(t)  BY <4>1 DEF StillOpen, PartsOf
      <4>3. \A q \in PartsOf(t) : counted'[Root][q] = counted[Root][q]  BY <2>3, <3>2
      <4> QED BY <2>1, <4>1, <4>2, <4>3 DEF KeptOf, Sent, PartsOf
    <3> QED BY <3>1, <3>2
  <2> QED BY <2>4, <2>5
<1> QED BY <1>3, <1>4, <1>5, <1>6, <1>7

LEMMA ChargePartKeeps == ASSUME NEW p \in Parts PROVE BookInv /\ ChargePart(p) => BookInv'
<1> SUFFICES ASSUME BookInv, ChargePart(p) PROVE BookInv'  OBVIOUS
<1> USE DEF BookInv
<1>1. /\ up /\ at[SendOf[p]] = "settling" /\ wrote[p] = "priced"
      /\ wrote' = [wrote EXCEPT ![p] = "charged"] /\ chargeBilled' = chargeBilled \cup {p}
      /\ UNCHANGED <<up, at, past, bill, unseen, cell, holding, counted, keeping>>
      /\ UNCHANGED <<chargeHeld, holds, usage, copied>>
  BY DEF ChargePart, memory
<1>2. wrote'[p] = "charged" /\ SendOf[p] \in Sends  BY <1>1, BookAssumption DEF TypeOK
<1>3. WritesOf(p)'  BY <1>1, <1>2 DEF Writes, WritesOf
<1>4. \A b \in Levels(SendOf[p]) : counted'[b][p] = CountOf(p)'
  BY <1>1, <1>2 DEF Counting, CountOf, Settling, Standing, Open
<1>5. "charged" \in Wrote  BY DEF Wrote
<1>6. /\ unseen \subseteq Parts /\ usage \subseteq Parts /\ copied \subseteq Parts
      /\ chargeBilled \subseteq Parts /\ counted \in [Books -> [Parts -> Nat]]
  BY DEF TypeOK
<1> QED BY <1>1, <1>3, <1>4, <1>5, <1>6, OnePart

LEMMA MutePartKeeps == ASSUME NEW p \in Parts PROVE BookInv /\ MutePart(p) => BookInv'
<1> SUFFICES ASSUME BookInv, MutePart(p) PROVE BookInv'  OBVIOUS
<1> USE DEF BookInv
<1>1. /\ up /\ at[SendOf[p]] = "settling" /\ wrote[p] = "charged"
      /\ wrote' = [wrote EXCEPT ![p] = "muted"]
      /\ UNCHANGED <<up, at, past, bill, unseen, cell, holding, counted, keeping>>
      /\ UNCHANGED <<chargeHeld, chargeBilled, holds, usage, copied>>
  BY DEF MutePart, memory, files
<1>2. wrote'[p] = "muted" /\ SendOf[p] \in Sends  BY <1>1, BookAssumption DEF TypeOK
<1>3. WritesOf(p)'  BY <1>1, <1>2 DEF Writes, WritesOf
<1>4. \A b \in Levels(SendOf[p]) : counted'[b][p] = CountOf(p)'
  BY <1>1, <1>2 DEF Counting, CountOf, Settling, Standing, Open
<1>5. "muted" \in Wrote /\ p \in chargeBilled
  BY <1>1, <1>2 DEF Wrote, Keeping, HeldOf, PartsOf
<1>6. /\ unseen \subseteq Parts /\ usage \subseteq Parts /\ copied \subseteq Parts
      /\ chargeBilled \subseteq Parts /\ counted \in [Books -> [Parts -> Nat]]
  BY DEF TypeOK
<1> QED BY <1>1, <1>3, <1>4, <1>5, <1>6, OnePart

LEMMA MirrorPartKeeps == ASSUME NEW p \in Parts PROVE BookInv /\ MirrorPart(p) => BookInv'
<1> SUFFICES ASSUME BookInv, MirrorPart(p) PROVE BookInv'  OBVIOUS
<1> USE DEF BookInv
<1>1. /\ up /\ at[SendOf[p]] = "settling" /\ wrote[p] = "landed"
      /\ wrote' = [wrote EXCEPT ![p] = "written"] /\ copied' = copied \cup {p}
      /\ UNCHANGED <<up, at, past, bill, unseen, cell, holding, counted, keeping>>
      /\ UNCHANGED <<chargeHeld, chargeBilled, holds, usage>>
  BY DEF MirrorPart, memory
<1>2. wrote'[p] = "written" /\ SendOf[p] \in Sends  BY <1>1, BookAssumption DEF TypeOK
<1>3. WritesOf(p)'  BY <1>1, <1>2 DEF Writes, WritesOf
<1>4. \A b \in Levels(SendOf[p]) : counted'[b][p] = CountOf(p)'
  BY <1>1, <1>2 DEF Counting, CountOf, Settling, Standing, Open
<1>5. "written" \in Wrote /\ p \in chargeBilled
  BY <1>1, <1>2 DEF Wrote, Keeping, HeldOf, PartsOf
<1>6. /\ unseen \subseteq Parts /\ usage \subseteq Parts /\ copied \cup {p} \subseteq Parts
      /\ chargeBilled \subseteq Parts /\ counted \in [Books -> [Parts -> Nat]]
  BY DEF TypeOK
<1> QED BY <1>1, <1>3, <1>4, <1>5, <1>6, OnePart

LEMMA UnheardKeeps == ASSUME NEW p \in Parts PROVE BookInv /\ LandUnheard(p) => BookInv'
<1> SUFFICES ASSUME BookInv, LandUnheard(p) PROVE BookInv'  OBVIOUS
<1> USE DEF BookInv
<1>1. /\ up /\ at[SendOf[p]] = "settling" /\ wrote[p] = "charged"
      /\ wrote' = [wrote EXCEPT ![p] = "raised"] /\ usage' = usage \cup {p}
      /\ UNCHANGED <<up, at, past, bill, unseen, cell, holding, counted, keeping>>
      /\ UNCHANGED <<chargeHeld, chargeBilled, holds, copied>>
  BY DEF LandUnheard, memory
<1>2. wrote'[p] = "raised" /\ SendOf[p] \in Sends  BY <1>1, BookAssumption DEF TypeOK
<1>3. WritesOf(p)'  BY <1>1, <1>2 DEF Writes, WritesOf
<1>4. \A b \in Levels(SendOf[p]) : counted'[b][p] = CountOf(p)'
  BY <1>1, <1>2 DEF Counting, CountOf, Settling, Standing, Open
<1>5. "raised" \in Wrote /\ p \in chargeBilled
  BY <1>1, <1>2 DEF Wrote, Keeping, HeldOf, PartsOf
<1>6. /\ unseen \subseteq Parts /\ usage \cup {p} \subseteq Parts /\ copied \subseteq Parts
      /\ chargeBilled \subseteq Parts /\ counted \in [Books -> [Parts -> Nat]]
  BY DEF TypeOK
<1> QED BY <1>1, <1>3, <1>4, <1>5, <1>6, OnePart

LEMMA LandPartKeeps ==
    ASSUME NEW p \in Parts, NEW sees \in BOOLEAN
    PROVE  BookInv /\ LandPart(p, sees) => BookInv'
<1> SUFFICES ASSUME BookInv, LandPart(p, sees) PROVE BookInv'  OBVIOUS
<1> USE DEF BookInv
<1> DEFINE w == IF SendOf[p] \in Nested THEN "landed" ELSE "written"
<1>1. /\ up /\ at[SendOf[p]] = "settling" /\ wrote[p] = "charged"
      /\ wrote' = [wrote EXCEPT ![p] = w] /\ usage' = usage \cup {p}
      /\ counted' = (IF sees THEN Counts({p}) ELSE counted)
      /\ unseen' = (IF sees THEN unseen ELSE unseen \cup {p})
      /\ UNCHANGED <<up, at, past, bill, cell, holding, keeping>>
      /\ UNCHANGED <<chargeHeld, chargeBilled, holds, copied>>
  BY DEF LandPart
<1>2. wrote'[p] = w /\ SendOf[p] \in Sends  BY <1>1, BookAssumption DEF TypeOK
<1>3. counted \in [Books -> [Parts -> Nat]]  BY DEF TypeOK
<1>4. /\ counted' \in [Books -> [Parts -> Nat]]
      /\ \A b \in Books, q \in Parts : counted'[b][q] =
            IF sees /\ b \in Levels(SendOf[q]) /\ q = p THEN counted[b][q] + 1 ELSE counted[b][q]
  <2>1. CASE sees
    <3>1. /\ Counts({p}) \in [Books -> [Parts -> Nat]]
          /\ \A b \in Books, q \in Parts : Counts({p})[b][q] =
                IF b \in Levels(SendOf[q]) /\ q \in {p} THEN counted[b][q] + 1 ELSE counted[b][q]
      BY <1>3, CountsAre
    <3> QED BY <1>1, <2>1, <3>1
  <2>2. CASE ~sees  BY <1>1, <1>3, <2>2
  <2> QED BY <2>1, <2>2
<1>5. w \in {"landed", "written"} /\ w \in Wrote  BY DEF Wrote
<1>6. WritesOf(p)'  BY <1>1, <1>2, <1>5 DEF Writes, WritesOf
<1>7. \A b \in Levels(SendOf[p]) : b \in Books  BY DEF Levels, Own
<1>8. \A b \in Levels(SendOf[p]) : counted'[b][p] = CountOf(p)'
  <2> TAKE b \in Levels(SendOf[p])
  <2>1. counted[b][p] = 0 /\ p \notin unseen
    BY <1>1, <1>2 DEF Counting, CountOf, Settling, Standing, Open, Writes, WritesOf
  <2>2. counted'[b][p] = IF sees THEN 1 ELSE 0  BY <1>4, <1>7, <2>1
  <2>3. CountOf(p)' = IF sees THEN 1 ELSE 0
    BY <1>1, <1>2, <1>5, <2>1 DEF CountOf, Settling
  <2> QED BY <2>2, <2>3
<1>9. p \in chargeBilled  BY <1>1, <1>2 DEF Keeping, HeldOf, PartsOf
<1>10. /\ unseen' \subseteq Parts /\ usage' \subseteq Parts /\ copied \subseteq Parts
       /\ chargeBilled \subseteq Parts
  BY <1>1 DEF TypeOK
<1>11. \A q \in Parts : q # p =>
           /\ q \in unseen' <=> q \in unseen
           /\ q \in usage' <=> q \in usage
           /\ q \in copied' <=> q \in copied
           /\ q \in chargeBilled' <=> q \in chargeBilled
           /\ \A b \in Books : counted'[b][q] = counted[b][q]
  BY <1>1, <1>4
<1> HIDE DEF w
<1> QED BY <1>1, <1>4, <1>5, <1>6, <1>8, <1>9, <1>10, <1>11, OnePart

LEMMA CloseBookKeeps == ASSUME NEW s \in Sends PROVE BookInv /\ CloseBook(s) => BookInv'
<1> SUFFICES ASSUME BookInv, CloseBook(s) PROVE BookInv'  OBVIOUS
<1> USE DEF BookInv
<1>1. /\ up /\ at[s] = "settling"
      /\ at' = [at EXCEPT ![s] = "settled"] /\ holding' = Holds(s, -1)
      /\ counted' = Counts(Uncounted(s)) /\ unseen' = unseen \ PartsOf(s)
      /\ UNCHANGED <<up, past, bill, wrote, cell, keeping>>
      /\ UNCHANGED <<chargeHeld, chargeBilled, holds, usage, copied>>
  BY DEF CloseBook, GivenBack, files
<1>2. /\ at \in [Sends -> At]
      /\ \A t \in Sends : at'[t] = IF t = s THEN "settled" ELSE at[t]
  BY <1>1 DEF TypeOK
<1>3. counted \in [Books -> [Parts -> Nat]]  BY DEF TypeOK
<1>4. /\ counted' \in [Books -> [Parts -> Nat]]
      /\ \A b \in Books, p \in Parts : counted'[b][p] =
            IF b \in Levels(SendOf[p]) /\ p \in Uncounted(s)
            THEN counted[b][p] + 1 ELSE counted[b][p]
  BY <1>1, <1>3, CountsAre
<1>5. s \notin past  BY <1>1 DEF Standing, Open
<1>6. HoldsWhatIsOut'
  <2>1. \A b \in Books, t \in Sends : holding'[b][t] =
            IF b \in Levels(s) /\ t = s THEN holding[b][t] + -1 ELSE holding[b][t]
    <3>1. holding \in [Books -> [Sends -> Nat]] /\ -1 \in Int  BY DEF TypeOK
    <3>2. \A b \in Books, t \in Sends : Holds(s, -1)[b][t] =
              IF b \in Levels(s) /\ t = s THEN holding[b][t] + -1 ELSE holding[b][t]
      BY <3>1, HoldsAre
    <3> QED BY <1>1, <3>2
  <2> QED BY <1>1, <1>2, <2>1 DEF HoldsWhatIsOut, Open, Levels
<1>7. TypeOK'
  <2>1. holding' \in [Books -> [Sends -> Nat]]
    <3>1. holding' \in [Books -> [Sends -> Int]]  BY <1>1, HoldsAre DEF TypeOK
    <3>2. \A b \in Books, t \in Sends : holding'[b][t] \in Nat  BY <1>6 DEF HoldsWhatIsOut
    <3> QED BY <3>1, <3>2
  <2> QED BY <1>1, <1>4, <2>1 DEF TypeOK, At
<1>8. Standing'  BY <1>1, <1>2 DEF Standing, Open
<1>9. Writes'
  <2>1. ASSUME NEW p \in Parts PROVE WritesOf(p)'
    <3>1. WritesOf(p) /\ SendOf[p] \in Sends  BY BookAssumption DEF Writes
    <3> QED BY <1>1, <1>2, <3>1 DEF WritesOf, PartsOf
  <2> QED BY <1>1, <2>1 DEF Writes, PartsOf
<1>10. Counting'
  <2> SUFFICES ASSUME NEW p \in Parts, SendOf[p] \notin past, NEW b \in Levels(SendOf[p])
               PROVE  counted'[b][p] = CountOf(p)'
    BY <1>1 DEF Counting, Levels
  <2>1. counted[b][p] = CountOf(p) /\ WritesOf(p)  BY DEF Counting, Writes
  <2>2. b \in Books /\ SendOf[p] \in Sends  BY BookAssumption DEF Levels, Own
  <2>3. counted'[b][p] = IF p \in Uncounted(s) THEN counted[b][p] + 1 ELSE counted[b][p]
    BY <1>4, <2>2
  <2>4. CASE SendOf[p] # s
    <3>1. p \notin Uncounted(s)  BY <2>4 DEF Uncounted, Unlanded, PartsOf
    <3> QED BY <1>1, <1>2, <2>1, <2>2, <2>3, <2>4, <3>1 DEF CountOf, Settling, PartsOf
  <2>5. CASE SendOf[p] = s
    <3>1. CountOf(p)' = IF p \in bill[s] THEN 1 ELSE 0
      BY <1>1, <1>2, <2>5 DEF CountOf, Settling
    <3>2. p \in Uncounted(s) <=>
              p \in unseen \/ wrote[p] \in {"priced", "charged", "muted", "raised"}
      BY <2>5 DEF Uncounted, Unlanded, PartsOf
    <3>3. wrote[p] \in Wrote  BY DEF TypeOK
    <3> QED BY <1>1, <2>1, <2>3, <2>5, <3>1, <3>2, <3>3 DEF CountOf, Settling, WritesOf, Wrote
  <2> QED BY <2>4, <2>5
<1>11. Keeping'
  <2> SUFFICES ASSUME NEW t \in Sends PROVE HeldOf(t)' /\ KeptOf(t)'  BY DEF Keeping
  <2>1. HeldOf(t) /\ KeptOf(t)  BY DEF Keeping
  <2>2. HeldOf(t)'  BY <1>1, <1>2, <2>1 DEF HeldOf, Sent, PartsOf
  <2>3. KeptOf(t)'
    <3>1. CASE t = s  BY <1>1, <1>2, <1>5, <2>1, <3>1 DEF KeptOf
    <3>2. CASE t # s
      <4>1. \A p \in PartsOf(t) : counted'[Root][p] = counted[Root][p]
        BY <1>4, <3>2 DEF Uncounted, Unlanded, PartsOf
      <4>2. StillOpen(t)' <=> StillOpen(t)  BY <1>1 DEF StillOpen, OnLedger, PartsOf
      <4> QED BY <1>1, <1>2, <2>1, <3>2, <4>1, <4>2 DEF KeptOf, Sent, OnLedger, PartsOf
    <3> QED BY <3>1, <3>2
  <2> QED BY <2>2, <2>3
<1> QED BY <1>6, <1>7, <1>8, <1>9, <1>10, <1>11

-----------------------------------------------------------------------------
LEMMA CrashKeeps == BookInv /\ Crash => BookInv'
<1> SUFFICES ASSUME BookInv, Crash PROVE BookInv'  OBVIOUS
<1> USE DEF BookInv
<1>1. /\ up /\ up' = FALSE /\ unseen' = {} /\ cell' = Closed
      /\ at' = [s \in Sends |-> IF at[s] \in Open THEN "lost" ELSE at[s]]
      /\ past' = past \cup {s \in Sends : at[s] # "idle"}
      /\ holding' = Nothing(Sends) /\ counted' = Nothing(Parts) /\ keeping' = Nothing(Sends)
      /\ UNCHANGED <<bill, wrote>> /\ UNCHANGED <<chargeHeld, chargeBilled, holds, usage, copied>>
  BY DEF Crash, files
<1>2. \A s \in Sends : at'[s] = IF at[s] \in Open THEN "lost" ELSE at[s]  BY <1>1
<1>3. /\ holding' \in [Books -> [Sends -> Nat]] /\ keeping' \in [Books -> [Sends -> Nat]]
      /\ counted' \in [Books -> [Parts -> Nat]]
      /\ \A b \in Books, s \in Sends : holding'[b][s] = 0 /\ keeping'[b][s] = 0
      /\ \A b \in Books, p \in Parts : counted'[b][p] = 0
  BY <1>1 DEF Nothing
<1>4. HoldsWhatIsOut'  BY <1>1, <1>3 DEF HoldsWhatIsOut
<1>5. TypeOK'
  <2>1. at' \in [Sends -> At] /\ past' \subseteq Sends  BY <1>1 DEF TypeOK, At
  <2> QED BY <1>1, <1>3, <2>1 DEF TypeOK
<1>6. Standing'
  <2>1. \A s \in Sends :
            /\ at'[s] \notin Open /\ (at'[s] # "idle" <=> at[s] # "idle")
            /\ at'[s] = "lost" => at[s] # "idle"
    BY <1>2 DEF Open
  <2> QED BY <1>1, <2>1 DEF Standing, TypeOK
<1>7. Writes'
  <2>1. ASSUME NEW p \in Parts PROVE WritesOf(p)'
    <3>1. WritesOf(p) /\ SendOf[p] \in Sends  BY BookAssumption DEF Writes
    <3> QED BY <1>1, <1>2, <3>1 DEF WritesOf, Open
  <2> QED BY <1>1, <2>1 DEF Writes, PartsOf
<1>8. Counting'
  <2> SUFFICES ASSUME NEW p \in Parts, SendOf[p] \notin past', NEW b \in Levels(SendOf[p])
               PROVE  counted'[b][p] = CountOf(p)'
    BY DEF Counting, Levels
  <2>1. SendOf[p] \in Sends /\ b \in Books  BY BookAssumption DEF Levels, Own
  <2>2. at'[SendOf[p]] = "idle"  BY <1>1, <1>2, <2>1 DEF Open
  <2> QED BY <1>3, <2>1, <2>2 DEF CountOf, Settling
<1>9. Keeping'
  <2> SUFFICES ASSUME NEW t \in Sends PROVE HeldOf(t)' /\ KeptOf(t)'  BY DEF Keeping
  <2>1. HeldOf(t)  BY DEF Keeping
  <2>2. HeldOf(t)'  BY <1>1, <1>2, <2>1 DEF HeldOf, Sent, PartsOf, Open
  <2>3. KeptOf(t)'  BY <1>1, <1>2, <1>3 DEF KeptOf, Open
  <2> QED BY <2>2, <2>3
<1> QED BY <1>4, <1>5, <1>6, <1>7, <1>8, <1>9

LEMMA RelaunchKeeps == BookInv /\ Relaunch => BookInv'
<1> SUFFICES ASSUME BookInv, Relaunch PROVE BookInv'  OBVIOUS
<1> USE DEF BookInv
<1>1. /\ ~up /\ up' = TRUE
      /\ counted' = [b \in Books |-> [p \in Parts |-> IF p \in OnLedger(b) THEN 1 ELSE 0]]
      /\ keeping' = [b \in Books |->
                        [s \in Sends |-> IF b = Root /\ StillOpen(s) THEN 1 ELSE 0]]
      /\ UNCHANGED <<at, past, bill, wrote, unseen, cell, holding>>
      /\ UNCHANGED <<chargeHeld, chargeBilled, holds, usage, copied>>
  BY DEF Relaunch, files
<1>2. /\ counted' \in [Books -> [Parts -> Nat]] /\ keeping' \in [Books -> [Sends -> Nat]]
      /\ \A b \in Books, p \in Parts : counted'[b][p] = IF p \in OnLedger(b) THEN 1 ELSE 0
      /\ \A s \in Sends : keeping'[Root][s] = IF StillOpen(s) THEN 1 ELSE 0
  BY <1>1
<1>3. \A s \in Sends : s \notin past => at[s] = "idle"  BY <1>1 DEF Standing
<1>4. HoldsWhatIsOut'  BY <1>1 DEF HoldsWhatIsOut, Standing
<1>5. TypeOK'  BY <1>1, <1>2 DEF TypeOK
<1>6. Standing'  BY <1>1 DEF Standing
<1>7. Writes'  BY <1>1 DEF Writes, WritesOf, PartsOf
<1>8. Counting'
  <2> SUFFICES ASSUME NEW p \in Parts, SendOf[p] \notin past, NEW b \in Levels(SendOf[p])
               PROVE  counted'[b][p] = CountOf(p)'
    BY <1>1 DEF Counting, Levels
  <2>1. SendOf[p] \in Sends /\ b \in Books  BY BookAssumption DEF Levels, Own
  <2>2. at[SendOf[p]] = "idle" /\ WritesOf(p)  BY <1>3, <2>1 DEF Writes
  <2>3. p \notin OnLedger(b)  BY <2>2 DEF WritesOf, OnLedger
  <2> QED BY <1>1, <1>2, <2>1, <2>2, <2>3 DEF CountOf, Settling
<1>9. Keeping'
  <2> SUFFICES ASSUME NEW t \in Sends PROVE HeldOf(t)' /\ KeptOf(t)'  BY DEF Keeping
  <2>1. HeldOf(t)  BY DEF Keeping
  <2>2. HeldOf(t)'  BY <1>1, <2>1 DEF HeldOf, Sent, PartsOf
  <2>3. (StillOpen(t))' <=> StillOpen(t)  BY <1>1 DEF StillOpen, OnLedger, PartsOf
  <2>4. OnLedger(Root)' = OnLedger(Root)  BY <1>1 DEF OnLedger
  <2>5. t \notin past => at[t] = "idle" /\ ~StillOpen(t)
    BY <1>3, <2>1 DEF HeldOf, StillOpen
  <2>6. \A p \in PartsOf(t) \cap OnLedger(Root) : counted'[Root][p] = 1  BY <1>2 DEF PartsOf
  <2>7. KeptOf(t)'  BY <1>1, <1>2, <2>3, <2>4, <2>5, <2>6 DEF KeptOf, PartsOf
  <2> QED BY <2>2, <2>7
<1> QED BY <1>4, <1>5, <1>6, <1>7, <1>8, <1>9

-----------------------------------------------------------------------------
LEMMA StepHolds == BookInv /\ [Next]_vars => BookInv'
<1> SUFFICES ASSUME BookInv, [Next]_vars PROVE BookInv'  OBVIOUS
<1>1. CASE UNCHANGED vars
  <2>1. /\ UNCHANGED <<up, at, past, bill, wrote, unseen, cell, holding, counted, keeping>>
        /\ UNCHANGED <<chargeHeld, chargeBilled, holds, usage, copied>>
    BY <1>1 DEF vars, memory, files
  <2> QED BY <2>1 DEF BookInv, TypeOK, Standing, HoldsWhatIsOut, Writes, WritesOf, Counting,
             CountOf, Settling, Keeping, HeldOf, KeptOf, Sent, StillOpen, OnLedger, PartsOf
<1>2. ASSUME NEW s \in Sends, Placing(s) PROVE BookInv'
  BY <1>2, PlaceKeeps, ChargeHoldKeeps, WriteHoldKeeps, HoldFailsKeeps DEF Placing
<1>3. ASSUME NEW s \in Sends, Ending(s) PROVE BookInv'
  <2>1. CASE Answer(s)  BY <2>1, SettlesKeeps DEF Answer
  <2>2. CASE NotRun(s)
    <3>1. Settles(s, bill[s])  BY <2>2 DEF NotRun
    <3> QED BY <2>2, <3>1, SettlesKeeps DEF NotRun
  <2> QED BY <1>3, <2>1, <2>2, UnreportedKeeps, CloseBookKeeps DEF Ending
<1>4. ASSUME NEW p \in Parts, Writing(p) PROVE BookInv'
  BY <1>4, ChargePartKeeps, MutePartKeeps, MirrorPartKeeps, UnheardKeeps, LandPartKeeps DEF Writing
<1>5. CASE OpenCell \/ CloseCell  BY <1>5, CellSteps
<1> QED BY <1>1, <1>2, <1>3, <1>4, <1>5, CrashKeeps, RelaunchKeeps DEF Next

THEOREM BookInvariant == Spec => []BookInv
<1> QED BY InitHolds, StepHolds, PTL DEF Spec

(* Every send, part, book and file entry stays well formed                 *)
(* (spend_book.py SpendBook._move, count, keep_held).                       *)
THEOREM BookTypeCorrect == Spec => []TypeOK
<1>1. BookInv => TypeOK  BY DEF BookInv
<1> QED BY <1>1, BookInvariant, PTL

(* A book holds the bound of exactly the sends out under it, each once,    *)
(* however sends end and whenever the process dies                          *)
(* (spend_book.py Admission.__init__, _close_book, unreported).             *)
THEOREM OnlyWhatIsOutIsHeld == Spec => []HoldsWhatIsOut
<1>1. BookInv => HoldsWhatIsOut  BY DEF BookInv
<1> QED BY <1>1, BookInvariant, PTL

(* A settled send is counted once in every book of its chain, whichever of *)
(* its writes raised (spend_book.py Admission.settle, _write, _close_book). *)
THEOREM EachPartCountedOnce == Spec => []CountedOnce
<1>1. ASSUME BookInv, NEW s \in Sends \ past, at[s] = "settled", NEW p \in bill[s],
             NEW b \in Levels(s)
      PROVE  counted[b][p] = 1
  <2>1. p \in Parts /\ SendOf[p] = s  BY <1>1 DEF BookInv, Writes, PartsOf
  <2>2. counted[b][p] = CountOf(p)  BY <1>1, <2>1 DEF BookInv, Counting
  <2> QED BY <1>1, <2>1, <2>2 DEF CountOf
<1>2. BookInv => CountedOnce  BY <1>1 DEF CountedOnce
<1> QED BY <1>2, BookInvariant, PTL

(* A part written is a part found on the ledger of the root.               *)
LEMMA WrittenIsOnLedger ==
    ASSUME NEW p \in Parts, WritesOf(p), wrote[p] = "written"
    PROVE  p \in OnLedger(Root)
BY DEF WritesOf, OnLedger, Own

(* The root's book never forgets what was sent, over any number of crashes *)
(* and relaunches (spend_book.py Admission._hold, SpendBook.take_up,        *)
(* unreported_on).                                                          *)
THEOREM RootRemembers == Spec => []RootForgetsNothing
<1>1. ASSUME BookInv, up, NEW s \in Sends, Sent(s)
      PROVE  \/ \A p \in bill[s] : counted[Root][p] >= 1
             \/ holding[Root][s] >= 1 \/ keeping[Root][s] >= 1
             \/ s \in past /\ InPart(s, OnLedger(Root))
  <2> USE DEF BookInv
  <2>1. /\ HeldOf(s) /\ KeptOf(s) /\ bill[s] \subseteq PartsOf(s) /\ bill[s] \subseteq Parts
        /\ Root \in Levels(s)
    BY <1>1 DEF Keeping, Writes, PartsOf, Levels
  <2>2. CASE s \notin past
    <3>1. CASE at[s] \in {"out", "settling"}
      BY <1>1, <2>1, <3>1 DEF HoldsWhatIsOut, Open
    <3>2. CASE at[s] = "unreported"  BY <2>1, <2>2, <3>2 DEF KeptOf
    <3>3. CASE at[s] = "settled"
      <4>1. ASSUME NEW p \in bill[s] PROVE counted[Root][p] >= 1
        <5>1. p \in Parts /\ SendOf[p] = s  BY <2>1 DEF PartsOf
        <5>2. counted[Root][p] = CountOf(p)  BY <1>1, <2>1, <2>2, <5>1 DEF Counting
        <5> QED BY <3>3, <5>1, <5>2 DEF CountOf
      <4> QED BY <4>1
    <3>4. at[s] # "lost"  BY <1>1, <2>2 DEF Standing
    <3> QED BY <1>1, <3>1, <3>2, <3>3, <3>4 DEF Sent
  <2>3. CASE s \in past /\ StillOpen(s)  BY <1>1, <2>1, <2>3 DEF KeptOf
  <2>4. CASE s \in past /\ ~StillOpen(s)
    <3>1. \A p \in PartsOf(s) \cap OnLedger(Root) : counted[Root][p] = 1
      BY <1>1, <2>1, <2>4 DEF KeptOf
    <3>2. CASE bill[s] \subseteq OnLedger(Root)  BY <2>1, <3>1, <3>2
    <3>3. CASE ~(bill[s] \subseteq OnLedger(Root))
      <4>1. PICK q \in PartsOf(s) : q \in OnLedger(Root)
        BY <1>1, <2>1, <2>4 DEF StillOpen, HeldOf
      <4>2. q \in bill[s]
        BY <1>1, <4>1 DEF Writes, WritesOf, OnLedger, PartsOf
      <4>3. PICK p \in bill[s] : p \notin OnLedger(Root)  BY <3>3
      <4>4. wrote[p] # "written"  BY <1>1, <2>1, <4>3, WrittenIsOnLedger DEF Writes
      <4> QED BY <2>4, <3>3, <4>1, <4>2, <4>3, <4>4 DEF InPart
    <3> QED BY <3>2, <3>3
  <2> QED BY <2>2, <2>3, <2>4
<1>2. BookInv => RootForgetsNothing  BY <1>1 DEF RootForgetsNothing
<1> QED BY <1>2, BookInvariant, PTL

(* The account's charges bill a send whole, or hold it open, unless its    *)
(* writes were cut short (wallet_store.py ChargeBook, account_spend.py).    *)
THEOREM AccountRemembers == Spec => []AccountForgetsNothing
<1>1. ASSUME BookInv, NEW s \in Sends, Sent(s), ~(bill[s] \subseteq chargeBilled),
             PartsOf(s) \cap chargeBilled # {}
      PROVE  InPart(s, chargeBilled)
  <2> USE DEF BookInv
  <2>1. HeldOf(s) /\ bill[s] \subseteq PartsOf(s)  BY <1>1 DEF Keeping, Writes
  <2>2. chargeBilled \cap bill[s] # {}  BY <1>1, <2>1 DEF HeldOf
  <2>3. PICK p \in bill[s] : p \notin chargeBilled  BY <1>1
  <2>4. wrote[p] # "written"  BY <2>1, <2>3 DEF HeldOf
  <2> QED BY <1>1, <2>2, <2>3, <2>4 DEF InPart
<1>2. BookInv => AccountForgetsNothing
  BY <1>1 DEF AccountForgetsNothing, BookInv, Keeping, HeldOf
<1> QED BY <1>2, BookInvariant, PTL

-----------------------------------------------------------------------------
(* The coupon's reserve. *)

Billed(s) == SumFunctionOnSet(Price, bill[s])
OnRoot(s) == PartsOf(s) \cap OnLedger(Root)

(* What the root's book has to find room for on account of a send, in this *)
(* process or in the next that is launched.                                 *)
Weight(s) ==
    IF s \in past THEN
        IF s \in Reopened THEN 0
        ELSE IF StillOpen(s) THEN Bound[s] ELSE SumFunctionOnSet(Price, OnRoot(s))
    ELSE IF at[s] \in Open \cup {"unreported"} THEN Bound[s]
    ELSE IF at[s] = "settled" THEN Billed(s) ELSE 0

Weights == [s \in Sends |-> Weight(s)]

(* A bill stays within the bound of its send.                               *)
Within == \A s \in Sends : Billed(s) <= Bound[s]

(* A running process has of past sends what it took up when it started.    *)
TakenUp ==
    up => \A s \in past :
        /\ keeping[Root][s] = IF StillOpen(s) THEN 1 ELSE 0
        /\ \A p \in PartsOf(s) : counted[Root][p] = IF p \in OnLedger(Root) THEN 1 ELSE 0

RoomInv ==
    /\ Within
    /\ TakenUp
    /\ SumFunctionOnSet(Weights, Sends) + Reserved(Root) <= Reserve

LEMMA PartSums ==
    ASSUME NEW parts \in SUBSET Parts, NEW some \in SUBSET parts
    PROVE  /\ SumFunctionOnSet(Price, parts) \in Nat
           /\ SumFunctionOnSet(Price, some) <= SumFunctionOnSet(Price, parts)
<1>1. \A p \in parts : Price[p] \in Nat  BY BookAssumption
<1>2. IsFiniteSet(parts)  BY BookAssumption, FS_Subset
<1> QED BY <1>1, <1>2, SumType, SumOfPart

(* A send weighs no more than its bound.                                    *)
LEMMA WeightType ==
    ASSUME BookInv, Within, NEW s \in Sends
    PROVE  /\ Weight(s) \in Nat /\ Weight(s) <= Bound[s] /\ Billed(s) \in Nat
           /\ SumFunctionOnSet(Price, OnRoot(s)) \in Nat
           /\ SumFunctionOnSet(Price, OnRoot(s)) <= Billed(s)
<1>1. bill[s] \in SUBSET Parts /\ Bound[s] \in Nat  BY BookAssumption DEF BookInv, TypeOK
<1>2. OnRoot(s) \subseteq bill[s]
  BY <1>1 DEF OnRoot, OnLedger, PartsOf, BookInv, TypeOK, Writes, WritesOf
<1>3. /\ Billed(s) \in Nat /\ SumFunctionOnSet(Price, OnRoot(s)) \in Nat
      /\ SumFunctionOnSet(Price, OnRoot(s)) <= Billed(s)
  <2>1. OnRoot(s) \in SUBSET OnRoot(s) /\ OnRoot(s) \in SUBSET Parts  BY <1>1, <1>2
  <2> QED BY <1>1, <1>2, <2>1, PartSums DEF Billed
<1>4. Billed(s) <= Bound[s]  BY DEF Within
<1> QED BY <1>1, <1>3, <1>4 DEF Weight

(* What the root's book counts, keeps and holds out are integers.           *)
LEMMA BookSums ==
    ASSUME BookInv
    PROVE  Metered(Root) \in Int /\ Unreported(Root) \in Int /\ Out(Root) \in Int
<1> DEFINE cost == [p \in Parts |-> Price[p] * counted[Root][p]]
           kept == [s \in Sends |-> Bound[s] * keeping[Root][s]]
           out == [s \in Sends |-> Bound[s] * holding[Root][s]]
<1>1. /\ counted[Root] \in [Parts -> Nat] /\ keeping[Root] \in [Sends -> Nat]
      /\ holding[Root] \in [Sends -> Nat] /\ Reserved(Root) \in Int
  BY DEF BookInv, TypeOK, Reserved, Closed
<1>2. \A p \in Parts : cost[p] \in Int
  <2> TAKE p \in Parts
  <2>1. Price[p] \in Int /\ counted[Root][p] \in Int  BY <1>1, BookAssumption
  <2> QED BY <2>1
<1>3. \A s \in Sends : kept[s] \in Int /\ out[s] \in Int
  <2> TAKE s \in Sends
  <2>1. Bound[s] \in Int /\ keeping[Root][s] \in Int /\ holding[Root][s] \in Int
    BY <1>1, BookAssumption
  <2> QED BY <2>1
<1>4. IsFiniteSet(Sends) /\ IsFiniteSet(Parts)  BY BookAssumption
<1>5. /\ Metered(Root) = SumFunctionOnSet(cost, Parts)
      /\ Unreported(Root) = SumFunctionOnSet(kept, Sends)
      /\ Out(Root) = SumFunctionOnSet(out, Sends) + Reserved(Root)
  BY DEF Metered, Unreported, Out
<1> HIDE DEF cost, kept, out
<1>6. /\ SumFunctionOnSet(cost, Parts) \in Int /\ SumFunctionOnSet(kept, Sends) \in Int
      /\ SumFunctionOnSet(out, Sends) \in Int
  BY <1>2, <1>3, <1>4, SumType
<1> QED BY <1>1, <1>5, <1>6

(* While nothing is being settled, the book's three sums are the weights,  *)
(* and the bounds of the sends held again.                                  *)
LEMMA UsedIsWeights ==
    ASSUME BookInv, RoomInv, up, Handling = {}
    PROVE  /\ Metered(Root) + Unreported(Root) + Out(Root) =
                SumFunctionOnSet(Weights, Sends) + SumFunctionOnSet(Bound, Reopened)
                + Reserved(Root)
           /\ SumFunctionOnSet(Bound, Reopened) \in Nat
           /\ SumFunctionOnSet(Weights, Sends) \in Nat
<1>1. IsFiniteSet(Sends) /\ IsFiniteSet(Parts) /\ SendOf \in [Parts -> Sends]
      /\ Price \in [Parts -> Nat] /\ Bound \in [Sends -> Nat]
  BY BookAssumption
<1> DEFINE cost == [p \in Parts |-> Price[p] * counted[Root][p]]
           metered == [s \in Sends |-> SumFunctionOnSet(cost, Fibre(SendOf, Parts, s))]
           kept == [s \in Sends |-> Bound[s] * keeping[Root][s]]
           out == [s \in Sends |-> Bound[s] * holding[Root][s]]
           both == [s \in Sends |-> metered[s] + kept[s]]
           all == [s \in Sends |-> both[s] + out[s]]
           again == [s \in Sends |-> IF s \in Reopened THEN Bound[s] ELSE 0]
<1>2. \A p \in Parts : counted[Root][p] \in {0, 1}
  <2> TAKE p \in Parts
  <2>1. SendOf[p] \in Sends /\ Root \in Levels(SendOf[p])  BY <1>1 DEF Levels
  <2>2. CASE SendOf[p] \notin past  BY <2>1, <2>2 DEF BookInv, Counting, CountOf
  <2>3. CASE SendOf[p] \in past  BY <2>1, <2>3 DEF RoomInv, TakenUp, PartsOf
  <2> QED BY <2>2, <2>3
<1>3. \A p \in Parts : cost[p] \in Int /\ cost[p] = IF counted[Root][p] = 1 THEN Price[p] ELSE 0
  BY <1>1, <1>2
<1>4. \A s \in Sends : metered[s] = SumFunctionOnSet(Price, {p \in PartsOf(s) : counted[Root][p] = 1})
                       /\ metered[s] \in Int
  <2> TAKE s \in Sends
  <2> DEFINE S == Fibre(SendOf, Parts, s)
             T == {p \in PartsOf(s) : counted[Root][p] = 1}
  <2>1. IsFiniteSet(S) /\ T \in SUBSET S  BY <1>1, FS_Subset DEF PartsOf, Fibre
  <2>2. /\ \A p \in T : Price[p] \in Int /\ cost[p] = Price[p]
        /\ \A p \in S \ T : cost[p] = 0
        /\ \A p \in S : cost[p] \in Int
    BY <1>1, <1>3 DEF PartsOf, Fibre
  <2>3. metered[s] = SumFunctionOnSet(cost, S)  OBVIOUS
  <2> HIDE DEF S, T, cost, metered
  <2>4. SumFunctionOnSet(cost, S) = SumFunctionOnSet(Price, T)  BY <2>1, <2>2, SumOnly
  <2>5. SumFunctionOnSet(cost, S) \in Int  BY <2>1, <2>2, SumType
  <2> QED BY <2>3, <2>4, <2>5 DEF T
<1>5. \A s \in Sends : keeping[Root][s] \in {0, 1} /\ holding[Root][s] \in {0, 1}
  <2> TAKE s \in Sends
  <2>1. CASE s \in past  BY <2>1 DEF BookInv, RoomInv, TakenUp, HoldsWhatIsOut
  <2>2. CASE s \notin past  BY <2>2 DEF BookInv, Keeping, KeptOf, HoldsWhatIsOut
  <2> QED BY <2>1, <2>2
<1>6. \A s \in Sends :
          /\ kept[s] = IF keeping[Root][s] = 1 THEN Bound[s] ELSE 0
          /\ out[s] = IF holding[Root][s] = 1 THEN Bound[s] ELSE 0
          /\ kept[s] \in Int /\ out[s] \in Int
  BY <1>1, <1>5
<1>7. SumFunctionOnSet(cost, Parts) = SumFunctionOnSet(metered, Sends)
  <2>1. (\A p \in Parts : cost[p] \in Int) /\ (\A p \in Parts : SendOf[p] \in Sends)
    BY <1>1, <1>3
  <2>2. \A s \in Sends : metered[s] = SumFunctionOnSet(cost, Fibre(SendOf, Parts, s))
    OBVIOUS
  <2> HIDE DEF cost, metered
  <2>3. IsFiniteSet(Sends) /\ IsFiniteSet(Parts)  BY <1>1
  <2> QED BY <2>1, <2>2, <2>3, SumGrouped
<1>8. \A s \in Sends : both[s] = metered[s] + kept[s] /\ all[s] = both[s] + out[s]
  OBVIOUS
<1>9. \A s \in Sends : all[s] = Weights[s] + again[s]
                       /\ Weights[s] \in Nat /\ again[s] \in Nat
  <2> TAKE s \in Sends
  <2> DEFINE M == SumFunctionOnSet(Price, {p \in PartsOf(s) : counted[Root][p] = 1})
  <2>1. all[s] = M + kept[s] + out[s] /\ M \in Int  BY <1>4, <1>6, <1>8
  <2>2. Weight(s) \in Nat /\ Billed(s) \in Nat /\ Bound[s] \in Nat  BY <1>1, WeightType DEF RoomInv
  <2>3. Weights[s] = Weight(s) /\ again[s] = IF s \in Reopened THEN Bound[s] ELSE 0
    BY DEF Weights
  <2>4. out[s] = IF at[s] \in Open THEN Bound[s] ELSE 0
    BY <1>6 DEF BookInv, HoldsWhatIsOut, Levels
  <2>5. at[s] \in At /\ at[s] \notin {"held", "charged", "settling"}
    BY DEF BookInv, TypeOK, Handling
  <2> HIDE DEF kept, out, all, again
  <2>6. CASE s \in past
    <3>1. at[s] \notin Open  BY <2>6 DEF BookInv, Standing
    <3>2. kept[s] = IF StillOpen(s) THEN Bound[s] ELSE 0  BY <1>6, <2>6 DEF RoomInv, TakenUp
    <3>3. {p \in PartsOf(s) : counted[Root][p] = 1} = OnRoot(s)
      BY <2>6 DEF RoomInv, TakenUp, OnRoot
    <3>4. StillOpen(s) => OnRoot(s) = {}  BY DEF StillOpen, OnRoot
    <3>5. StillOpen(s) => M = 0  BY <3>3, <3>4, SumEmpty
    <3>6. s \in Reopened => StillOpen(s)  BY DEF Reopened
    <3>7. ~StillOpen(s) => M = Weight(s)  BY <2>6, <3>3, <3>6 DEF Weight
    <3>8. StillOpen(s) => Weight(s) = IF s \in Reopened THEN 0 ELSE Bound[s]
      BY <2>6 DEF Weight
    <3> HIDE DEF M
    <3> QED BY <2>1, <2>2, <2>3, <2>4, <3>1, <3>2, <3>5, <3>6, <3>7, <3>8
  <2>7. CASE s \notin past
    <3>1. s \notin Reopened  BY <2>7 DEF Reopened
    <3>2. kept[s] = IF at[s] = "unreported" THEN Bound[s] ELSE 0
      BY <1>6, <2>7 DEF BookInv, Keeping, KeptOf
    <3>3. \A p \in PartsOf(s) : counted[Root][p] = CountOf(p)
      BY <2>7 DEF BookInv, Counting, PartsOf, Levels
    <3>4. {p \in PartsOf(s) : counted[Root][p] = 1} = IF at[s] = "settled" THEN bill[s] ELSE {}
      BY <2>5, <3>3 DEF BookInv, CountOf, Settling, PartsOf, Writes
    <3>5. M = IF at[s] = "settled" THEN Billed(s) ELSE 0
      BY <3>4, SumEmpty DEF Billed
    <3>6. Weight(s) = IF at[s] \in Open \cup {"unreported"} THEN Bound[s]
                      ELSE IF at[s] = "settled" THEN Billed(s) ELSE 0
      BY <2>7 DEF Weight
    <3> HIDE DEF M
    <3> QED BY <2>1, <2>2, <2>3, <2>4, <3>1, <3>2, <3>5, <3>6 DEF Open
  <2> QED BY <2>6, <2>7
<1>10. /\ Metered(Root) = SumFunctionOnSet(cost, Parts)
       /\ Unreported(Root) = SumFunctionOnSet(kept, Sends)
       /\ Out(Root) = SumFunctionOnSet(out, Sends) + Reserved(Root)
  BY DEF Metered, Unreported, Out
<1>11. /\ SumFunctionOnSet(again, Sends) = SumFunctionOnSet(Bound, Reopened)
       /\ SumFunctionOnSet(Bound, Reopened) \in Nat
  <2>1. Reopened \in SUBSET Sends  BY DEF BookInv, Reopened, TypeOK
  <2>2. /\ \A s \in Reopened : Bound[s] \in Int /\ again[s] = Bound[s]
        /\ \A s \in Sends \ Reopened : again[s] = 0
        /\ \A s \in Reopened : Bound[s] \in Nat
    BY <1>1, <2>1
  <2>3. IsFiniteSet(Reopened) /\ IsFiniteSet(Sends)  BY <1>1, <2>1, FS_Subset
  <2> HIDE DEF again
  <2>4. SumFunctionOnSet(again, Sends) = SumFunctionOnSet(Bound, Reopened)
    BY <2>1, <2>2, <2>3, SumOnly
  <2>5. SumFunctionOnSet(Bound, Reopened) \in Nat  BY <2>2, <2>3, SumType
  <2> QED BY <2>4, <2>5
<1> HIDE DEF cost, metered, kept, out, both, all, again
<1>12. \A s \in Sends : both[s] \in Int
  <2> TAKE s \in Sends
  <2>1. metered[s] \in Int /\ kept[s] \in Int /\ both[s] = metered[s] + kept[s]
    BY <1>4, <1>6, <1>8
  <2> QED BY <2>1
<1>13. SumFunctionOnSet(both, Sends) =
           SumFunctionOnSet(metered, Sends) + SumFunctionOnSet(kept, Sends)
  <2>1. \A s \in Sends : metered[s] \in Int /\ kept[s] \in Int /\ both[s] = metered[s] + kept[s]
    BY <1>4, <1>6, <1>8
  <2> QED BY <1>1, <2>1, SumOfSums
<1>14. SumFunctionOnSet(all, Sends) =
           SumFunctionOnSet(both, Sends) + SumFunctionOnSet(out, Sends)
  BY <1>1, <1>6, <1>8, <1>12, SumOfSums
<1>15. SumFunctionOnSet(all, Sends) =
           SumFunctionOnSet(Weights, Sends) + SumFunctionOnSet(again, Sends)
  BY <1>1, <1>9, SumOfSums
<1>16. SumFunctionOnSet(Weights, Sends) \in Nat  BY <1>1, <1>9, SumType
<1>17. /\ SumFunctionOnSet(metered, Sends) \in Int /\ SumFunctionOnSet(kept, Sends) \in Int
       /\ SumFunctionOnSet(out, Sends) \in Int
  BY <1>1, <1>4, <1>6, SumType
<1>18. Reserved(Root) \in Int  BY DEF BookInv, Reserved, TypeOK, Closed
<1> QED BY <1>7, <1>10, <1>11, <1>13, <1>14, <1>15, <1>16, <1>17, <1>18

(* What a step on one send leaves alone of another.                         *)
Untouched(t) ==
    /\ at'[t] = at[t] /\ bill'[t] = bill[t]
    /\ t \in holds' <=> t \in holds
    /\ OnRoot(t)' = OnRoot(t)
    /\ keeping'[Root][t] = keeping[Root][t]
    /\ \A p \in PartsOf(t) : counted'[Root][p] = counted[Root][p]

LEMMA UntouchedWeighsTheSame ==
    ASSUME past' = past, NEW t \in Sends, Untouched(t)
    PROVE  Weight(t)' = Weight(t) /\ (StillOpen(t)' <=> StillOpen(t))
<1>1. StillOpen(t)' <=> StillOpen(t)  BY DEF Untouched, StillOpen, OnRoot
<1>2. t \in Reopened' <=> t \in Reopened  BY <1>1 DEF Untouched, Reopened
<1>3. OnRoot(t)' = OnRoot(t) /\ Billed(t)' = Billed(t) /\ at'[t] = at[t]
  BY DEF Untouched, Billed
<1>4. SumFunctionOnSet(Price, OnRoot(t))' = SumFunctionOnSet(Price, OnRoot(t))  BY <1>3
<1>5. t \in past' <=> t \in past  OBVIOUS
<1> DEFINE paid == SumFunctionOnSet(Price, OnRoot(t))
<1>6. Weight(t) = IF t \in past THEN IF t \in Reopened THEN 0
                                    ELSE IF StillOpen(t) THEN Bound[t] ELSE paid
                  ELSE IF at[t] \in Open \cup {"unreported"} THEN Bound[t]
                  ELSE IF at[t] = "settled" THEN Billed(t) ELSE 0
  BY DEF Weight
<1>7. Weight(t)' = IF t \in past' THEN IF t \in Reopened' THEN 0
                                    ELSE IF StillOpen(t)' THEN Bound[t] ELSE paid'
                  ELSE IF at'[t] \in Open \cup {"unreported"} THEN Bound[t]
                  ELSE IF at'[t] = "settled" THEN Billed(t)' ELSE 0
  BY DEF Weight, Open
<1>8. paid' = paid  BY <1>4
<1> HIDE DEF paid
<1> QED BY <1>1, <1>2, <1>3, <1>5, <1>6, <1>7, <1>8

(* A step on one send of this process moves the sum by what its weight     *)
(* moves.                                                                   *)
LEMMA OneSend ==
    ASSUME BookInv, RoomInv, up, past' = past, NEW s \in Sends, s \notin past,
           \A t \in Sends \ {s} : Untouched(t), Weight(s)' \in Int
    PROVE  /\ TakenUp'
           /\ SumFunctionOnSet(Weights, Sends)' =
                SumFunctionOnSet(Weights, Sends) + Weight(s)' - Weight(s)
           /\ SumFunctionOnSet(Weights, Sends) \in Int
<1>1. TakenUp'
  <2> SUFFICES ASSUME NEW t \in past
               PROVE  /\ keeping'[Root][t] = IF StillOpen(t)' THEN 1 ELSE 0
                      /\ \A p \in PartsOf(t) :
                            counted'[Root][p] = IF p \in OnLedger(Root)' THEN 1 ELSE 0
    BY DEF TakenUp, PartsOf
  <2>1. t \in Sends \ {s}  BY DEF BookInv, TypeOK
  <2>2. Untouched(t) /\ (StillOpen(t)' <=> StillOpen(t))  BY <2>1, UntouchedWeighsTheSame
  <2>3. \A p \in PartsOf(t) : p \in OnLedger(Root)' <=> p \in OnLedger(Root)
    BY <2>2 DEF Untouched, OnRoot, PartsOf
  <2> QED BY <2>2, <2>3 DEF RoomInv, TakenUp, Untouched
<1>2. \A t \in Sends : Weight(t) \in Nat  BY WeightType DEF RoomInv
<1>3. \A t \in Sends \ {s} : Weight(t)' = Weight(t)  BY UntouchedWeighsTheSame
<1> DEFINE after == [t \in Sends |-> Weight(t)']
<1>4. Weights' = after  BY DEF Weights
<1>5. \A t \in Sends : Weights[t] = Weight(t) /\ after[t] = Weight(t)'  BY DEF Weights
<1>6. IsFiniteSet(Sends)  BY BookAssumption
<1> HIDE DEF after
<1>7. /\ \A t \in Sends : Weights[t] \in Int /\ after[t] \in Int
      /\ \A t \in Sends \ {s} : Weights[t] = after[t]
  BY <1>2, <1>3, <1>5
<1>8. SumFunctionOnSet(after, Sends) = SumFunctionOnSet(Weights, Sends) + after[s] - Weights[s]
  BY <1>6, <1>7, SumChange
<1>9. SumFunctionOnSet(Weights, Sends) \in Int  BY <1>6, <1>7, SumType
<1>10. SumFunctionOnSet(Weights, Sends)' = SumFunctionOnSet(after, Sends)  BY <1>4
<1> QED BY <1>1, <1>5, <1>8, <1>9, <1>10

(* ... and where it weighs no more than before, with what the cell         *)
(* reserves, the reserve still holds.                                       *)
LEMMA NoHeavier ==
    ASSUME BookInv, RoomInv, up, past' = past, NEW s \in Sends, s \notin past,
           \A t \in Sends \ {s} : Untouched(t), Weight(s)' \in Int,
           Within', cell' = cell, Weight(s)' <= Weight(s)
    PROVE  RoomInv'
<1>1. Weight(s) \in Int  BY WeightType DEF RoomInv
<1>2. Reserved(Root)' = Reserved(Root) /\ Reserved(Root) \in Int
  BY DEF Reserved, Closed, BookInv, TypeOK
<1>3. Reserve \in Int  BY BookAssumption
<1> QED BY <1>1, <1>2, <1>3, OneSend DEF RoomInv


LEMMA InitRoom == Init => RoomInv
<1> SUFFICES ASSUME Init PROVE RoomInv  OBVIOUS
<1>1. /\ past = {} /\ cell = Closed
      /\ \A s \in Sends : at[s] = "idle" /\ bill[s] = {Zero[s]}
  BY DEF Init
<1>2. Within
  <2> SUFFICES ASSUME NEW s \in Sends PROVE Billed(s) <= Bound[s]  BY DEF Within
  <2>1. Price[Zero[s]] = 0 /\ Bound[s] \in Nat  BY BookAssumption
  <2>2. SumFunctionOnSet(Price, {Zero[s]}) = 0  BY <2>1, SumOne
  <2> QED BY <1>1, <2>1, <2>2 DEF Billed
<1>3. \A s \in Sends : Weights[s] = 0  BY <1>1 DEF Weights, Weight, Open
<1>4. SumFunctionOnSet(Weights, Sends) = 0  BY <1>3, BookAssumption, SumZero
<1>5. Reserved(Root) = 0 /\ Reserve \in Nat  BY <1>1, BookAssumption DEF Reserved
<1> QED BY <1>1, <1>2, <1>4, <1>5 DEF RoomInv, TakenUp

(* The weights are of the sends' states, bills and files alone.            *)
LEMMA SameWeights ==
    ASSUME UNCHANGED <<at, past, bill, holds, usage, copied>>
    PROVE  /\ SumFunctionOnSet(Weights, Sends)' = SumFunctionOnSet(Weights, Sends)
           /\ Within' <=> Within
           /\ \A s \in Sends : StillOpen(s)' <=> StillOpen(s)
           /\ OnLedger(Root)' = OnLedger(Root)
<1>1. OnLedger(Root)' = OnLedger(Root)  BY DEF OnLedger
<1>2. \A s \in Sends : StillOpen(s)' <=> StillOpen(s)  BY <1>1 DEF StillOpen
<1>3. \A s : Billed(s)' = Billed(s) /\ OnRoot(s)' = OnRoot(s)  BY <1>1 DEF Billed, OnRoot
<1>4. \A s \in Sends : Weight(s)' = Weight(s)
  <2> TAKE s \in Sends
  <2>1. s \in Reopened' <=> s \in Reopened  BY <1>2 DEF Reopened
  <2>2. SumFunctionOnSet(Price, OnRoot(s))' = SumFunctionOnSet(Price, OnRoot(s))  BY <1>3
  <2> QED BY <1>2, <1>3, <2>1, <2>2 DEF Weight, Open
<1>5. Weights' = Weights  BY <1>4 DEF Weights
<1> QED BY <1>1, <1>2, <1>3, <1>5 DEF Within

LEMMA CellRoom == BookInv /\ RoomInv /\ (OpenCell \/ CloseCell) => RoomInv'
<1> SUFFICES ASSUME BookInv, RoomInv, OpenCell \/ CloseCell PROVE RoomInv'  OBVIOUS
<1>1. /\ UNCHANGED <<at, past, bill, holds, usage, copied, up>>
      /\ keeping' = keeping /\ counted' = counted
  BY DEF OpenCell, CloseCell, memory, files
<1>2. TakenUp'
  <2>1. \A s \in past : s \in Sends  BY DEF BookInv, TypeOK
  <2> QED BY <1>1, <2>1, SameWeights DEF RoomInv, TakenUp, PartsOf
<1> DEFINE W == SumFunctionOnSet(Weights, Sends)
<1>3. W' = W /\ Within' /\ W + Reserved(Root) <= Reserve  BY <1>1, SameWeights DEF RoomInv
<1>4. W \in Int
  <2>1. \A s \in Sends : Weights[s] \in Int  BY WeightType DEF RoomInv, Weights
  <2> QED BY <2>1, BookAssumption, SumType
<1>5. Reserve \in Int /\ CellBound \in Nat /\ cell \in Nat \cup {Closed}
  BY BookAssumption DEF BookInv, TypeOK
<1>6. CASE CloseCell
  <2>1. Reserved(Root)' = 0 /\ Reserved(Root) \in Nat  BY <1>5, <1>6 DEF CloseCell, Reserved, Closed
  <2> HIDE DEF W
  <2> QED BY <1>2, <1>3, <1>4, <1>5, <2>1 DEF RoomInv, W
<1>7. CASE OpenCell
  <2>1. Reserved(Root)' = CellBound /\ Reserved(Root) = 0
    BY <1>5, <1>7 DEF OpenCell, Reserved, Closed
  <2> DEFINE again == SumFunctionOnSet(Bound, Reopened)
             M == Metered(Root)
             U == Unreported(Root)
             O == Out(Root)
  <2>2. up /\ Handling = {} /\ CellBound <= Reserve - (M + U) - O
    BY <1>7 DEF OpenCell, Room, Used
  <2>3. M + U + O = W + again + Reserved(Root) /\ again \in Nat  BY <2>2, UsedIsWeights
  <2>4. M \in Int /\ U \in Int /\ O \in Int  BY BookSums
  <2> HIDE DEF W, again, M, U, O
  <2>5. W + CellBound <= Reserve  BY <1>4, <1>5, <2>1, <2>2, <2>3, <2>4
  <2> QED BY <1>2, <1>3, <1>4, <1>5, <2>1, <2>5 DEF RoomInv, W
<1> QED BY <1>6, <1>7

LEMMA PlaceRoom == ASSUME NEW s \in Sends PROVE BookInv /\ RoomInv /\ Place(s) => RoomInv'
<1> SUFFICES ASSUME BookInv, RoomInv, Place(s) PROVE RoomInv'  OBVIOUS
<1>1. s \notin past  BY DEF Place, BookInv, Standing
<1>2. /\ up /\ Handling = {} /\ at[s] = "idle" /\ at'[s] = "held"
      /\ past' = past /\ bill' = bill /\ cell' = Rest(s)
      /\ \A t \in Sends \ {s} : at'[t] = at[t]
      /\ UNCHANGED <<holds, usage, copied, keeping, counted>>
  BY DEF Place, files, BookInv, TypeOK
<1>3. \A t \in Sends \ {s} : Untouched(t)  BY <1>2 DEF Untouched, OnRoot, OnLedger
<1>4. Weight(s) = 0 /\ Weight(s)' = Bound[s]  BY <1>1, <1>2 DEF Weight, Open
<1>5. /\ Bound[s] \in Nat /\ Reserve \in Nat /\ cell \in Nat \cup {Closed}
  BY BookAssumption DEF BookInv, TypeOK
<1>6. Within'  BY <1>2 DEF RoomInv, Within, Billed
<1> DEFINE W == SumFunctionOnSet(Weights, Sends)
           again == SumFunctionOnSet(Bound, Reopened)
           M == Metered(Root)
           U == Unreported(Root)
           O == Out(Root)
<1>7. TakenUp' /\ W' = W + Weight(s)' - Weight(s) /\ W \in Int
  BY <1>1, <1>2, <1>3, <1>4, <1>5, OneSend
<1>8. M + U + O = W + again + Reserved(Root) /\ again \in Nat  BY <1>2, UsedIsWeights
<1>9. M \in Int /\ U \in Int /\ O \in Int  BY BookSums
<1>10. W + Reserved(Root) <= Reserve  BY DEF RoomInv
<1>11. \A n \in Nat : Room(Root, n) => n <= Reserve - (M + U) - O  BY DEF Room, Used
<1>12. IF Draws(s) THEN Drawn(s) < Bound[s] => Room(Root, Bound[s] - Drawn(s))
                   ELSE Room(Root, Bound[s])
  BY DEF Place
<1> HIDE DEF W, again, M, U, O
<1>13. W' + Reserved(Root)' <= Reserve
  <2>1. CASE ~Draws(s)
    <3>1. cell' = cell  BY <1>2, <1>5, <2>1 DEF Draws, Rest, Drawn, Closed
    <3>2. Reserved(Root)' = Reserved(Root) /\ Reserved(Root) \in Nat
      BY <1>5, <3>1 DEF Reserved, Closed
    <3>3. Bound[s] <= Reserve - (M + U) - O  BY <1>5, <1>11, <1>12, <2>1
    <3> QED BY <1>4, <1>5, <1>7, <1>8, <1>9, <3>2, <3>3
  <2>2. CASE Draws(s) /\ Drawn(s) = Bound[s]
    <3>1. cell' = cell - Bound[s] /\ cell \in Nat /\ Bound[s] <= cell
      BY <1>2, <1>5, <2>2 DEF Draws, Rest, Drawn, Closed
    <3>2. Reserved(Root)' = cell - Bound[s] /\ Reserved(Root) = cell
      BY <1>5, <3>1 DEF Reserved, Closed
    <3> QED BY <1>4, <1>5, <1>7, <1>10, <3>1, <3>2
  <2>3. CASE Draws(s) /\ Drawn(s) # Bound[s]
    <3>1. cell' = 0 /\ cell \in Nat /\ Drawn(s) = cell /\ cell < Bound[s]
      BY <1>2, <1>5, <2>3 DEF Draws, Rest, Drawn, Closed
    <3>2. Reserved(Root)' = 0 /\ Reserved(Root) = cell
      BY <1>5, <3>1 DEF Reserved, Closed
    <3>3. Bound[s] - cell \in Nat /\ Room(Root, Bound[s] - cell)  BY <1>5, <1>12, <2>3, <3>1
    <3>4. Bound[s] - cell <= Reserve - (M + U) - O  BY <1>11, <3>3
    <3> QED BY <1>4, <1>5, <1>7, <1>8, <1>9, <3>1, <3>2, <3>4
  <2> QED BY <2>1, <2>2, <2>3
<1> QED BY <1>6, <1>7, <1>13 DEF RoomInv, W


LEMMA ChargeHoldRoom == ASSUME NEW s \in Sends PROVE BookInv /\ RoomInv /\ ChargeHold(s) => RoomInv'
<1> SUFFICES ASSUME BookInv, RoomInv, ChargeHold(s) PROVE RoomInv'  OBVIOUS
<1>1. /\ up /\ at[s] = "held" /\ at'[s] = "charged" /\ past' = past /\ bill' = bill /\ cell' = cell
      /\ \A t \in Sends \ {s} : at'[t] = at[t]
      /\ UNCHANGED <<holds, usage, copied, keeping, counted>>
  BY DEF ChargeHold, memory, BookInv, TypeOK
<1>2. s \notin past  BY <1>1 DEF BookInv, Standing, Open
<1>3. \A t \in Sends \ {s} : Untouched(t)  BY <1>1 DEF Untouched, OnRoot, OnLedger
<1>4. Weight(s) = Bound[s] /\ Weight(s)' = Bound[s]  BY <1>1, <1>2 DEF Weight, Open
<1>5. Bound[s] \in Nat  BY BookAssumption
<1>6. Within'  BY <1>1 DEF RoomInv, Within, Billed
<1> QED BY <1>1, <1>2, <1>3, <1>4, <1>5, <1>6, NoHeavier

(* Any bill a provider may send is within its send's bound.                *)
LEMMA BillsAreWithin ==
    ASSUME NEW s \in Sends, NEW parts \in Bills(s)
    PROVE  SumFunctionOnSet(Price, parts) <= Bound[s]
<1>1. CASE parts = {Zero[s]}
  <2>1. Price[Zero[s]] = 0 /\ Bound[s] \in Nat  BY BookAssumption
  <2>2. SumFunctionOnSet(Price, {Zero[s]}) = 0  BY <2>1, SumOne
  <2> QED BY <1>1, <2>1, <2>2
<1> QED BY <1>1 DEF Bills

LEMMA WriteHoldRoom ==
    ASSUME NEW s \in Sends, NEW parts \in Bills(s)
    PROVE  BookInv /\ RoomInv /\ WriteHold(s, parts) => RoomInv'
<1> SUFFICES ASSUME BookInv, RoomInv, WriteHold(s, parts) PROVE RoomInv'  OBVIOUS
<1>1. /\ up /\ at[s] = "charged" /\ at'[s] = "out" /\ past' = past /\ cell' = cell
      /\ holds' = holds \cup {s} /\ bill'[s] = parts
      /\ \A t \in Sends \ {s} : at'[t] = at[t] /\ bill'[t] = bill[t]
      /\ UNCHANGED <<usage, copied, keeping, counted>>
  BY DEF WriteHold, memory, BookInv, TypeOK
<1>2. s \notin past  BY <1>1 DEF BookInv, Standing, Open
<1>3. \A t \in Sends \ {s} : Untouched(t)  BY <1>1 DEF Untouched, OnRoot, OnLedger
<1>4. Weight(s) = Bound[s] /\ Weight(s)' = Bound[s]  BY <1>1, <1>2 DEF Weight, Open
<1>5. Bound[s] \in Nat  BY BookAssumption
<1>6. Within'
  <2> SUFFICES ASSUME NEW t \in Sends PROVE Billed(t)' <= Bound[t]  BY DEF Within
  <2>1. CASE t = s  BY <1>1, <2>1, BillsAreWithin DEF Billed
  <2>2. CASE t # s  BY <1>1, <2>2 DEF Billed, RoomInv, Within
  <2> QED BY <2>1, <2>2
<1> QED BY <1>1, <1>2, <1>3, <1>4, <1>5, <1>6, NoHeavier

LEMMA HoldFailsRoom ==
    ASSUME NEW s \in Sends, NEW landed \in BOOLEAN
    PROVE  BookInv /\ RoomInv /\ HoldFails(s, landed) => RoomInv'
<1> SUFFICES ASSUME BookInv, RoomInv, HoldFails(s, landed) PROVE RoomInv'  OBVIOUS
<1>1. /\ up /\ at[s] \in {"held", "charged"} /\ at'[s] = "unsent"
      /\ past' = past /\ bill' = bill /\ cell' = cell /\ holds' \in {holds, holds \cup {s}}
      /\ \A t \in Sends \ {s} : at'[t] = at[t]
      /\ UNCHANGED <<usage, copied, keeping, counted>>
  BY DEF HoldFails, BookInv, TypeOK
<1>2. s \notin past  BY <1>1 DEF BookInv, Standing, Open
<1>3. \A t \in Sends \ {s} : Untouched(t)  BY <1>1 DEF Untouched, OnRoot, OnLedger
<1>4. Weight(s) = Bound[s] /\ Weight(s)' = 0  BY <1>1, <1>2 DEF Weight, Open
<1>5. Bound[s] \in Nat  BY BookAssumption
<1>6. Within'  BY <1>1 DEF RoomInv, Within, Billed
<1> QED BY <1>1, <1>2, <1>3, <1>4, <1>5, <1>6, NoHeavier

LEMMA AnswerRoom ==
    ASSUME NEW s \in Sends
    PROVE  BookInv /\ RoomInv /\ (Answer(s) \/ NotRun(s) \/ GoesUnreported(s)) => RoomInv'
<1> SUFFICES ASSUME BookInv, RoomInv, Answer(s) \/ NotRun(s) \/ GoesUnreported(s) PROVE RoomInv'
  OBVIOUS
<1>1. /\ up /\ at[s] = "out" /\ at'[s] \in {"settling", "unreported"}
      /\ past' = past /\ bill' = bill /\ cell' = cell
      /\ \A t \in Sends \ {s} : at'[t] = at[t]
      /\ UNCHANGED <<holds, usage, copied, counted>>
  BY DEF Answer, NotRun, GoesUnreported, Settles, memory, files, BookInv, TypeOK
<1>2. \A t \in Sends \ {s} : keeping'[Root][t] = keeping[Root][t]
  <2>1. CASE keeping' = keeping  BY <2>1
  <2>2. CASE GoesUnreported(s)
    <3>1. keeping'[Root] = [keeping[Root] EXCEPT ![s] = @ + 1]
      BY <2>2 DEF GoesUnreported, Levels
    <3>2. keeping[Root] \in [Sends -> Nat]  BY DEF BookInv, TypeOK
    <3> QED BY <3>1, <3>2
  <2> QED BY <2>1, <2>2 DEF Answer, NotRun, memory
<1>3. s \notin past  BY <1>1 DEF BookInv, Standing, Open
<1>4. \A t \in Sends \ {s} : Untouched(t)  BY <1>1, <1>2 DEF Untouched, OnRoot, OnLedger
<1>5. Weight(s) = Bound[s] /\ Weight(s)' = Bound[s]  BY <1>1, <1>3 DEF Weight, Open
<1>6. Bound[s] \in Nat  BY BookAssumption
<1>7. Within'  BY <1>1 DEF RoomInv, Within, Billed
<1> QED BY <1>1, <1>3, <1>4, <1>5, <1>6, <1>7, NoHeavier

(* Writing a part moves no weight: its send weighs its bound until closed. *)
LEMMA WritingRoom ==
    ASSUME NEW p \in Parts
    PROVE  BookInv /\ RoomInv /\ Writing(p) => RoomInv'
<1> SUFFICES ASSUME BookInv, RoomInv, Writing(p) PROVE RoomInv'  OBVIOUS
<1> DEFINE s == SendOf[p]
<1>1. /\ up /\ at[s] = "settling" /\ at' = at
      /\ past' = past /\ bill' = bill /\ cell' = cell
      /\ usage' \in {usage, usage \cup {p}} /\ copied' \in {copied, copied \cup {p}}
      /\ holds' = holds /\ keeping' = keeping /\ counted' \in {counted, Counts({p})}
  BY DEF Writing, ChargePart, MutePart, MirrorPart, LandUnheard, LandPart, memory, files
<1>2. s \in Sends /\ Bound[s] \in Nat  BY BookAssumption
<1>3. s \notin past  BY <1>1, <1>2 DEF BookInv, Standing, Open
<1>4. \A q \in Parts : q # p => counted'[Root][q] = counted[Root][q]
  BY <1>1, CountsAre DEF BookInv, TypeOK
<1>5. ASSUME NEW t \in Sends \ {s} PROVE Untouched(t)
  <2>1. p \notin PartsOf(t)  BY <1>5 DEF PartsOf
  <2>2. OnRoot(t)' = OnRoot(t)  BY <1>1, <2>1 DEF OnRoot, OnLedger
  <2>3. \A q \in PartsOf(t) : counted'[Root][q] = counted[Root][q]
    BY <1>4, <2>1 DEF PartsOf
  <2> QED BY <1>1, <2>2, <2>3 DEF Untouched
<1>6. Weight(s) = Bound[s] /\ Weight(s)' = Bound[s]  BY <1>1, <1>3 DEF Weight, Open
<1>7. Within'  BY <1>1 DEF RoomInv, Within, Billed
<1> HIDE DEF s
<1> QED BY <1>1, <1>2, <1>3, <1>5, <1>6, <1>7, NoHeavier

LEMMA CloseBookRoom == ASSUME NEW s \in Sends PROVE BookInv /\ RoomInv /\ CloseBook(s) => RoomInv'
<1> SUFFICES ASSUME BookInv, RoomInv, CloseBook(s) PROVE RoomInv'  OBVIOUS
<1>1. /\ up /\ at[s] = "settling" /\ at'[s] = "settled"
      /\ past' = past /\ bill' = bill /\ cell' = cell
      /\ \A t \in Sends \ {s} : at'[t] = at[t]
      /\ UNCHANGED <<holds, usage, copied, keeping>> /\ counted' = Counts(Uncounted(s))
  BY DEF CloseBook, files, BookInv, TypeOK
<1>2. s \notin past  BY <1>1 DEF BookInv, Standing, Open
<1>3. ASSUME NEW t \in Sends \ {s} PROVE Untouched(t)
  <2>1. \A q \in PartsOf(t) : q \in Parts /\ q \notin Uncounted(s)
    BY <1>3 DEF PartsOf, Uncounted, Unlanded
  <2>2. \A q \in PartsOf(t) : counted'[Root][q] = counted[Root][q]
    BY <1>1, <2>1, CountsAre DEF BookInv, TypeOK
  <2> QED BY <1>1, <1>3, <2>2 DEF Untouched, OnRoot, OnLedger
<1>4. Weight(s) = Bound[s] /\ Weight(s)' = Billed(s)
  BY <1>1, <1>2 DEF Weight, Open, Billed
<1>5. Billed(s) <= Bound[s] /\ Billed(s) \in Nat  BY WeightType DEF RoomInv, Within
<1>6. Within'  BY <1>1 DEF RoomInv, Within, Billed
<1> QED BY <1>1, <1>2, <1>3, <1>4, <1>5, <1>6, NoHeavier

(* No send weighs more for the process that follows than it did for the    *)
(* one that died.                                                           *)
LEMMA CrashRoom == BookInv /\ RoomInv /\ Crash => RoomInv'
<1> SUFFICES ASSUME BookInv, RoomInv, Crash PROVE RoomInv'  OBVIOUS
<1>1. /\ ~up' /\ cell' = Closed /\ bill' = bill
      /\ \A s \in Sends : at'[s] = IF at[s] \in Open THEN "lost" ELSE at[s]
      /\ past' = past \cup {s \in Sends : at[s] # "idle"}
      /\ UNCHANGED <<holds, usage, copied>>
  BY DEF Crash, files
<1>2. Within' /\ TakenUp'  BY <1>1 DEF RoomInv, Within, Billed, TakenUp
<1>3. ASSUME NEW s \in Sends PROVE Weight(s)' \in Int /\ Weight(s)' <= Weight(s) /\ Weight(s) \in Int
  <2>1. /\ Weight(s) \in Nat /\ Weight(s) <= Bound[s] /\ Billed(s) \in Nat /\ Bound[s] \in Nat
        /\ SumFunctionOnSet(Price, OnRoot(s)) \in Nat
        /\ SumFunctionOnSet(Price, OnRoot(s)) <= Billed(s) /\ Billed(s) <= Bound[s]
    BY WeightType, BookAssumption DEF RoomInv, Within
  <2> DEFINE paid == SumFunctionOnSet(Price, OnRoot(s))
  <2>2. (StillOpen(s)' <=> StillOpen(s)) /\ OnRoot(s)' = OnRoot(s)
    BY <1>1 DEF StillOpen, OnRoot, OnLedger
  <2>3. paid' = paid  BY <2>2
  <2>4. Weight(s) = IF s \in past THEN IF s \in Reopened THEN 0
                                       ELSE IF StillOpen(s) THEN Bound[s] ELSE paid
                    ELSE IF at[s] \in Open \cup {"unreported"} THEN Bound[s]
                    ELSE IF at[s] = "settled" THEN Billed(s) ELSE 0
    BY DEF Weight
  <2>5. Weight(s)' = IF s \in past' THEN IF s \in Reopened' THEN 0
                                         ELSE IF StillOpen(s)' THEN Bound[s] ELSE paid'
                     ELSE IF at'[s] \in Open \cup {"unreported"} THEN Bound[s]
                     ELSE IF at'[s] = "settled" THEN Billed(s)' ELSE 0
    BY DEF Weight, Open
  <2>6. s \in Reopened' <=> s \in past' /\ at'[s] \in {"settled", "unsent"} /\ StillOpen(s)'
    BY DEF Reopened
  <2>7. s \in Reopened <=> s \in past /\ at[s] \in {"settled", "unsent"} /\ StillOpen(s)
    BY DEF Reopened
  <2>8. at[s] = "unsent" => OnRoot(s) = {}
    BY DEF BookInv, TypeOK, Writes, WritesOf, OnRoot, OnLedger, PartsOf
  <2>9. at[s] = "unsent" => paid = 0  BY <2>8, SumEmpty
  <2>10. at[s] \in At  BY DEF BookInv, TypeOK
  <2>11. /\ at[s] \in Open => s \notin past
         /\ at[s] = "idle" => s \notin past
         /\ at[s] = "lost" => s \in past
    BY DEF BookInv, Standing
  <2>12. s \in past' <=> s \in past \/ at[s] # "idle"  BY <1>1
  <2>13. at'[s] = IF at[s] \in Open THEN "lost" ELSE at[s]  BY <1>1
  <2> HIDE DEF paid
  <2>14. CASE s \in past
    BY <2>1, <2>2, <2>3, <2>4, <2>5, <2>6, <2>7, <2>11, <2>12, <2>13, <2>14
  <2>15. CASE s \notin past /\ at[s] = "idle"
    <3>1. Weight(s) = 0 /\ Weight(s)' = 0
      BY <2>4, <2>5, <2>12, <2>13, <2>15 DEF Open
    <3> QED BY <3>1
  <2>16. CASE s \notin past /\ at[s] \in Open \cup {"unreported"}
    <3>1. Weight(s) = Bound[s] /\ s \notin Reopened' /\ s \in past'
      BY <2>4, <2>6, <2>12, <2>13, <2>16 DEF Open
    <3>2. Weight(s)' = Bound[s] \/ Weight(s)' = paid  BY <2>3, <2>5, <3>1
    <3> QED BY <2>1, <3>1, <3>2 DEF paid
  <2>17. CASE s \notin past /\ at[s] = "settled"
    <3>1. Weight(s) = Billed(s) /\ s \in past' /\ (s \in Reopened' <=> StillOpen(s))
      BY <2>2, <2>4, <2>6, <2>12, <2>13, <2>17 DEF Open
    <3>2. Weight(s)' = 0 \/ Weight(s)' = paid  BY <2>2, <2>3, <2>5, <3>1
    <3> QED BY <2>1, <3>1, <3>2 DEF paid
  <2>18. CASE s \notin past /\ at[s] = "unsent"
    <3>1. Weight(s) = 0 /\ s \in past' /\ (s \in Reopened' <=> StillOpen(s))
      BY <2>2, <2>4, <2>6, <2>12, <2>13, <2>18 DEF Open
    <3>2. Weight(s)' = 0  BY <2>2, <2>3, <2>5, <2>9, <2>18, <3>1
    <3> QED BY <3>1, <3>2
  <2> QED BY <2>10, <2>11, <2>14, <2>15, <2>16, <2>17, <2>18 DEF At, Open
<1> DEFINE after == [s \in Sends |-> Weight(s)']
<1>4. Weights' = after  BY DEF Weights
<1>5. \A s \in Sends : after[s] = Weight(s)' /\ Weights[s] = Weight(s)  BY DEF Weights
<1> HIDE DEF after
<1>6. \A s \in Sends : after[s] \in Int /\ Weights[s] \in Int /\ after[s] <= Weights[s]
  BY <1>3, <1>5
<1>7. IsFiniteSet(Sends) /\ Reserve \in Nat  BY BookAssumption
<1>8. SumFunctionOnSet(after, Sends) <= SumFunctionOnSet(Weights, Sends)
  BY <1>6, <1>7, SumAtMost
<1>9. SumFunctionOnSet(after, Sends) \in Int /\ SumFunctionOnSet(Weights, Sends) \in Int
  BY <1>6, <1>7, SumType
<1>10. Reserved(Root)' = 0 /\ Reserved(Root) \in Nat
  BY <1>1 DEF Reserved, Closed, BookInv, TypeOK
<1>11. SumFunctionOnSet(Weights, Sends) + Reserved(Root) <= Reserve  BY DEF RoomInv
<1>12. SumFunctionOnSet(Weights, Sends)' = SumFunctionOnSet(after, Sends)  BY <1>4
<1> QED BY <1>2, <1>7, <1>8, <1>9, <1>10, <1>11, <1>12 DEF RoomInv

LEMMA RelaunchRoom == BookInv /\ RoomInv /\ Relaunch => RoomInv'
<1> SUFFICES ASSUME BookInv, RoomInv, Relaunch PROVE RoomInv'  OBVIOUS
<1>1. UNCHANGED <<at, past, bill, holds, usage, copied>> /\ cell' = cell
  BY DEF Relaunch, files
<1>2. /\ \A p \in Parts : counted'[Root][p] = IF p \in OnLedger(Root) THEN 1 ELSE 0
      /\ \A s \in Sends : keeping'[Root][s] = IF StillOpen(s) THEN 1 ELSE 0
  BY DEF Relaunch
<1>3. /\ SumFunctionOnSet(Weights, Sends)' = SumFunctionOnSet(Weights, Sends) /\ Within'
      /\ \A s \in Sends : StillOpen(s)' <=> StillOpen(s)
      /\ OnLedger(Root)' = OnLedger(Root)
  BY <1>1, SameWeights DEF RoomInv
<1>4. TakenUp'
  <2> SUFFICES ASSUME NEW s \in past
               PROVE  /\ keeping'[Root][s] = IF StillOpen(s)' THEN 1 ELSE 0
                      /\ \A p \in PartsOf(s) :
                            counted'[Root][p] = IF p \in OnLedger(Root)' THEN 1 ELSE 0
    BY <1>1 DEF TakenUp, PartsOf
  <2>1. s \in Sends  BY DEF BookInv, TypeOK
  <2> QED BY <1>2, <1>3, <2>1 DEF PartsOf
<1>5. Reserved(Root)' = Reserved(Root)  BY <1>1 DEF Reserved
<1> QED BY <1>3, <1>4, <1>5 DEF RoomInv

LEMMA RoomStep == BookInv /\ RoomInv /\ [Next]_vars => RoomInv'
<1> SUFFICES ASSUME BookInv, RoomInv, [Next]_vars PROVE RoomInv'  OBVIOUS
<1>1. CASE UNCHANGED vars
  <2>1. /\ UNCHANGED <<at, past, bill, holds, usage, copied>>
        /\ up' = up /\ cell' = cell /\ keeping' = keeping /\ counted' = counted
    BY <1>1 DEF vars, memory, files
  <2>2. Reserved(Root)' = Reserved(Root)  BY <2>1 DEF Reserved
  <2>3. TakenUp'
    <3>1. \A s \in past : s \in Sends  BY DEF BookInv, TypeOK
    <3> QED BY <2>1, <3>1, SameWeights DEF RoomInv, TakenUp, PartsOf
  <2> QED BY <2>1, <2>2, <2>3, SameWeights DEF RoomInv
<1>2. ASSUME NEW s \in Sends, Placing(s) PROVE RoomInv'
  BY <1>2, PlaceRoom, ChargeHoldRoom, WriteHoldRoom, HoldFailsRoom DEF Placing
<1>3. ASSUME NEW s \in Sends, Ending(s) PROVE RoomInv'
  BY <1>3, AnswerRoom, CloseBookRoom DEF Ending
<1> QED BY <1>1, <1>2, <1>3, WritingRoom, CellRoom, CrashRoom, RelaunchRoom DEF Next

(* Over any number of crashes and relaunches, what the root's book counts, *)
(* keeps and holds out passes the coupon's reserve by no more than the      *)
(* bounds of the sends that a relaunch holds again                          *)
(* (spend_book.py SpendBook._room, _Reservation.draw).                      *)
THEOREM ReserveHolds == Spec => []ReserveNeverPassed
<1>1. BookInv /\ RoomInv => ReserveNeverPassed
  <2> SUFFICES ASSUME BookInv, RoomInv, up, Handling = {}
               PROVE  Metered(Root) + Unreported(Root) + Out(Root) <=
                        Reserve + SumFunctionOnSet(Bound, Reopened)
    BY DEF ReserveNeverPassed
  <2> DEFINE again == SumFunctionOnSet(Bound, Reopened)
             W == SumFunctionOnSet(Weights, Sends)
             T == Metered(Root) + Unreported(Root) + Out(Root)
  <2>1. T = W + again + Reserved(Root) /\ again \in Nat /\ W \in Nat  BY UsedIsWeights
  <2>2. W + Reserved(Root) <= Reserve  BY DEF RoomInv
  <2>3. Reserved(Root) \in Int /\ Reserve \in Int
    BY BookAssumption DEF Reserved, BookInv, TypeOK, Closed
  <2> HIDE DEF again, W, T
  <2>4. T <= Reserve + again  BY <2>1, <2>2, <2>3
  <2> QED BY <2>4 DEF T, again
<1>2. Spec => []RoomInv
  <2>1. Spec => []BookInv  BY BookInvariant
  <2>2. Init => RoomInv  BY InitRoom
  <2>3. BookInv /\ RoomInv /\ [Next]_vars => RoomInv'  BY RoomStep
  <2> QED BY <2>1, <2>2, <2>3, PTL DEF Spec
<1> QED BY <1>1, <1>2, BookInvariant, PTL

=============================================================================
