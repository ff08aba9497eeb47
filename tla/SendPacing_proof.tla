-------------------------- MODULE SendPacing_proof --------------------------
(* What SendPacing promises for any number of sends, ledgers and accounts, and *)
(* any caps, cooldowns and windows.                                            *)
EXTENDS SendPacing, SetFacts

\* Being told of a hold keeps both records of a ledger numbers.
LEMMA AnnounceType ==
  ASSUME TypeOK, strikes' \in Nat, NEW s \in Sends, Announce(s)
  PROVE  heard' \in [Ledgers -> Nat] /\ told' \in [Ledgers -> Nat]
BY DEF TypeOK, Announce

\* The sends out are finitely many.
LEMMA OutFinite == IsFiniteSet(Out) /\ Cardinality(Out) \in Nat
<1>1. IsFiniteSet(Out)
  BY PacingAssumption, FS_Subset DEF Out
<1> QED
  BY <1>1, FS_CardinalityType

\* Taking one out of a queue leaves a queue.
LEMMA WithoutType ==
  ASSUME NEW q \in Seq(Sends), NEW i \in DOMAIN q
  PROVE  WithoutAt(q, i) \in Seq(Sends)
<1>1. Len(q) \in Nat /\ i \in 1 .. Len(q)
  OBVIOUS
<1>2. ASSUME NEW k \in 1 .. Len(q) - 1 PROVE (IF k < i THEN q[k] ELSE q[k + 1]) \in Sends
  BY <1>1
<1> QED
  BY <1>1, <1>2 DEF WithoutAt

\* The entries that leave the window are no more than it has.
LEMMA ExpiredWithin ==
  ASSUME TypeOK
  PROVE  Len(window) \in Nat /\ DOMAIN window = 1 .. Len(window) /\ Expired \in 0 .. Len(window)
<1> DEFINE gone == {i \in DOMAIN window : window[i].age + 1 >= Window}
<1>1. Len(window) \in Nat /\ DOMAIN window = 1 .. Len(window)
  BY DEF TypeOK
<1>2. IsFiniteSet(1 .. Len(window)) /\ Cardinality(1 .. Len(window)) = Len(window)
  <2>1. 1 \in Int /\ Len(window) \in Int
    BY <1>1
  <2>2. /\ IsFiniteSet(1 .. Len(window))
        /\ Cardinality(1 .. Len(window)) =
             IF 1 > Len(window) THEN 0 ELSE Len(window) - 1 + 1
    <3> DEFINE n == Len(window)
    <3>1. n \in Int
      BY <2>1
    <3> HIDE DEF n
    <3>2. IsFiniteSet(1 .. n) /\ Cardinality(1 .. n) = IF 1 > n THEN 0 ELSE n - 1 + 1
      BY <3>1, FS_Interval
    <3> QED
      BY <3>2 DEF n
  <2> QED
    BY <2>2, <1>1
<1>3. Expired \in 0 .. Len(window)
  <2>1. gone \subseteq 1 .. Len(window)
    BY <1>1
  <2>2. IsFiniteSet(gone) /\ Cardinality(gone) <= Len(window)
    BY <2>1, <1>2, FS_Subset
  <2>3. Cardinality(gone) \in Nat
    BY <2>2, FS_CardinalityType
  <2> QED
    BY <1>1, <2>2, <2>3 DEF Expired
<1> QED
  BY <1>1, <1>3

\* A tick shifts the window by the entries that leave it.
LEMMA TickWindow ==
  ASSUME TypeOK, Tick
  PROVE  window' \in Seq(Entry)
<1>1. Len(window) \in Nat /\ DOMAIN window = 1 .. Len(window) /\ Expired \in 0 .. Len(window)
  BY ExpiredWithin
<1>2. ASSUME NEW i \in 1 .. Len(window) - Expired
      PROVE  [window[i + Expired] EXCEPT !.age = @ + 1] \in Entry
  <2>1. i + Expired \in 1 .. Len(window)
    BY <1>1
  <2>2. window[i + Expired] \in Entry
    BY <2>1, <1>1 DEF TypeOK
  <2> QED
    BY <2>2 DEF Entry
<1> QED
  BY <1>1, <1>2 DEF Tick

\* A bill keeps the window a sequence of entries.
LEMMA BilledType ==
  ASSUME TypeOK, NEW s \in Sends, NEW used \in Nat
  PROVE  Billed(s, used) \in Seq(Entry)
<1>1. Len(window) \in Nat /\ DOMAIN window = 1 .. Len(window)
  BY DEF TypeOK
<1>2. ASSUME NEW i \in DOMAIN window
      PROVE  window[i] \in Entry /\ [window[i] EXCEPT !.tokens = used] \in Entry
  <2>1. window[i] \in Entry
    BY <1>1 DEF TypeOK
  <2> QED
    BY <2>1 DEF Entry
<1> QED
  BY <1>1, <1>2 DEF Billed

\* So does joining it.
LEMMA AppendType ==
  ASSUME NEW q \in Seq(Sends), NEW s \in Sends
  PROVE  Append(q, s) \in Seq(Sends)
OBVIOUS

\* A step keeps every variable in its domain.
LEMMA TypeStep ==
  ASSUME TypeOK, [Next]_vars
  PROVE  TypeOK'
<1> USE PacingAssumption DEF Moves, Places, Caps, None
<1>1. ASSUME NEW s \in Sends, Ask(s) PROVE TypeOK'
  BY <1>1, AnnounceType DEF Ask, TypeOK, limiter
<1>2. ASSUME NEW s \in Sends, Poll(s) PROVE TypeOK'
  BY <1>2, AnnounceType DEF Poll, TypeOK, limiter
<1>3. ASSUME NEW s \in Sends, Enter(s) PROVE TypeOK'
  <2>1. heard' \in [Ledgers -> Nat] /\ told' \in [Ledgers -> Nat]
    BY <1>3, AnnounceType DEF Enter, TypeOK
  <2>2. waiting' \in Seq(Sends)
    <3>1. waiting' = waiting \/ waiting' = Append(waiting, s)
      BY <1>3 DEF Enter
    <3>2. waiting \in Seq(Sends)
      BY DEF TypeOK
    <3> QED
      BY <3>1, <3>2, AppendType
  <2>3. at' \in [Sends -> Places] /\ ticket' \in [Sends -> Nat] /\ resent' \in [Sends -> Nat]
    <3>1. CASE TooLarge(s)
      <4>1. Moves(s, "ended")
        BY <1>3, <3>1 DEF Enter
      <4> QED
        BY <4>1 DEF TypeOK
    <3>2. CASE ~TooLarge(s)
      <4>1. /\ at' = [at EXCEPT ![s] = "window"]
            /\ ticket' = [ticket EXCEPT ![s] = opened]
            /\ UNCHANGED resent
        BY <1>3, <3>2 DEF Enter
      <4> QED
        BY <4>1 DEF TypeOK
    <3> QED
      BY <3>1, <3>2
  <2>4. UNCHANGED <<opened, strikes, atOnce, resumes, since, window, rpm, tpm, over>>
    BY <1>3 DEF Enter
  <2> QED
    BY <2>1, <2>2, <2>3, <2>4 DEF TypeOK
<1>4. ASSUME NEW s \in Sends, Post(s) PROVE TypeOK'
  <2>1. waiting' \in Seq(Sends)
    BY <1>4, WithoutType DEF Post, TypeOK
  <2>2. window' \in Seq(Entry)
    BY <1>4 DEF Post, TypeOK, Entry
  <2>3. over' \in BOOLEAN
    BY <1>4 DEF Post, TypeOK
  <2> QED
    BY <1>4, <2>1, <2>2, <2>3 DEF Post, TypeOK, pressure
<1>5. ASSUME NEW s \in Sends, NotAdmitted(s) PROVE TypeOK'
  <2>1. waiting' \in Seq(Sends)
    BY <1>5, WithoutType DEF NotAdmitted, TypeOK
  <2> QED
    BY <1>5, <2>1 DEF NotAdmitted, TypeOK, pressure
<1>6. ASSUME NEW s \in Sends, Answered(s) PROVE TypeOK'
  <2>1. /\ opened' \in Nat /\ strikes' \in Nat /\ resumes' \in Nat
        /\ atOnce' \in (Nat \ {0}) \cup {Uncapped}
        /\ since' \in 0 .. GiveUpAfter \cup {None}
        /\ heard' \in [Ledgers -> Nat] /\ told' \in [Ledgers -> Nat]
    <3>1. CASE Speaks(s)
      BY <1>6, <3>1 DEF Answered, Eased, TypeOK
    <3>2. CASE ~Speaks(s)
      BY <1>6, <3>2, AnnounceType DEF Answered, TypeOK
    <3> QED
      BY <3>1, <3>2
  <2>2. PICK caps \in Learned \cup {<<rpm, tpm>>}, used \in Bills :
           /\ rpm' = caps[1] /\ tpm' = caps[2]
           /\ window' = Billed(s, used)
           /\ over' = Overfull(window', rpm', tpm')
    BY <1>6 DEF Answered
  <2>3. rpm' \in Caps /\ tpm' \in Caps
    BY <2>2 DEF TypeOK
  <2>4. window' \in Seq(Entry)
    BY <2>2, BilledType
  <2>5. over' \in BOOLEAN
    BY <2>2 DEF Overfull
  <2> QED
    BY <1>6, <2>1, <2>3, <2>4, <2>5 DEF Answered, TypeOK
<1>7. ASSUME NEW s \in Sends, Throttled(s) PROVE TypeOK'
  <2>1. /\ opened' \in Nat /\ strikes' \in Nat /\ resumes' \in Nat
        /\ atOnce' \in (Nat \ {0}) \cup {Uncapped}
        /\ since' \in 0 .. GiveUpAfter \cup {None}
    <3>1. CASE ~Speaks(s) /\ UNCHANGED <<opened, strikes, atOnce, resumes, since>>
      BY <3>1 DEF TypeOK
    <3>2. CASE Speaks(s) /\ since < GiveUpAfter /\ OpenCooldown
      <4>1. resumes' \in Nat
        BY <3>2 DEF OpenCooldown, Cooldown, TypeOK
      <4>2. atOnce' \in Nat \ {0}
        BY <3>2, OutFinite DEF OpenCooldown
      <4> QED
        BY <3>2, <4>1, <4>2 DEF OpenCooldown, TypeOK
    <3> QED
      BY <1>7, <3>1, <3>2 DEF Throttled
  <2>2. heard' \in [Ledgers -> Nat] /\ told' \in [Ledgers -> Nat]
    BY <1>7, <2>1, AnnounceType DEF Throttled
  <2> QED
    BY <1>7, <2>1, <2>2 DEF Throttled, TypeOK, limiter
<1>8. ASSUME NEW s \in Sends, GivenUp(s) \/ Rejected(s) \/ Fails(s) PROVE TypeOK'
  <2>1. UNCHANGED <<opened, strikes, atOnce, resumes, since, heard, told>>
    BY <1>8 DEF GivenUp, Rejected, Fails, pressure
  <2>2. UNCHANGED <<waiting, window, rpm, tpm, over>>
    BY <1>8 DEF GivenUp, Rejected, Fails, limiter
  <2>3. at' \in [Sends -> Places] /\ ticket' \in [Sends -> Nat] /\ resent' \in [Sends -> Nat]
    <3>1. CASE Fails(s) /\ resent[s] + 1 < Attempts[s]
      <4>1. /\ at' = [at EXCEPT ![s] = "resting"]
            /\ ticket' = [ticket EXCEPT ![s] = 0]
            /\ resent' = [resent EXCEPT ![s] = resent[s] + 1]
        BY <3>1 DEF Fails
      <4>2. resent[s] + 1 \in Nat
        BY DEF TypeOK
      <4> QED
        BY <4>1, <4>2 DEF TypeOK
    <3>2. CASE Moves(s, "ended")
      BY <3>2 DEF TypeOK
    <3> QED
      BY <1>8, <3>1, <3>2 DEF GivenUp, Rejected, Fails
  <2> QED
    BY <2>1, <2>2, <2>3 DEF TypeOK
<1>9. ASSUME NEW s \in Sends, Rested(s) PROVE TypeOK'
  BY <1>9, AnnounceType DEF Rested, TypeOK, limiter
<1>10. ASSUME NEW s \in Sends, Abort(s) PROVE TypeOK'
  <2>1. waiting' \in Seq(Sends)
    BY <1>10, WithoutType DEF Abort, TypeOK
  <2> QED
    BY <1>10, <2>1 DEF Abort, TypeOK, pressure
<1>11. CASE Tick
  <2>1. window' \in Seq(Entry)
    BY <1>11, TickWindow
  <2>2. over' \in BOOLEAN
    BY <1>11 DEF Tick, TypeOK
  <2> QED
    BY <1>11, <2>1, <2>2 DEF Tick, TypeOK
<1>12. CASE UNCHANGED vars
  BY <1>12 DEF vars, pressure, limiter, TypeOK
<1> QED
  BY <1>1, <1>2, <1>3, <1>4, <1>5, <1>6, <1>7, <1>8, <1>9, <1>10, <1>11, <1>12
     DEF Next, Step, Returns

\* Every variable of the pacing stays in its domain.
THEOREM PacingTypeCorrect == Spec => []TypeOK
<1>1. ASSUME Init PROVE TypeOK
  <2>1. at \in [Sends -> Places] /\ ticket \in [Sends -> Nat] /\ resent \in [Sends -> Nat]
    BY <1>1 DEF Init, Places
  <2>2. waiting \in Seq(Sends) /\ window \in Seq(Entry)
    BY <1>1 DEF Init
  <2>3. heard \in [Ledgers -> Nat] /\ told \in [Ledgers -> Nat]
    BY <1>1 DEF Init
  <2>4. rpm \in Caps /\ tpm \in Caps /\ over \in BOOLEAN
    BY <1>1, PacingAssumption DEF Init
  <2>5. opened \in Nat /\ strikes \in Nat /\ resumes \in Nat /\ atOnce = Uncapped /\ since = None
    BY <1>1 DEF Init
  <2> QED
    BY <2>1, <2>2, <2>3, <2>4, <2>5 DEF TypeOK
<1> QED
  BY <1>1, TypeStep, PTL DEF Spec

-----------------------------------------------------------------------------
(* No answer disturbs a cooldown that runs.                                *)

\* A send that is not out before and after a step, or is out with its ticket
\* kept, is all a step can leave out: only Enter adds one, with a fresh ticket.
LEMMA WhoIsOut ==
  ASSUME TypeOK, NEW s \in Sends, Step(s), ~Enter(s)
  PROVE  Out' \subseteq Out /\ \A q \in Out' : ticket'[q] = ticket[q]
<1> USE DEF Moves, Out
<1>1. CASE Ask(s)
  BY <1>1 DEF Ask, TypeOK
<1>2. CASE Poll(s)
  BY <1>2 DEF Poll, TypeOK
<1>3. CASE Post(s)
  BY <1>3 DEF Post, TypeOK
<1>4. CASE NotAdmitted(s)
  BY <1>4 DEF NotAdmitted, TypeOK
<1>5. CASE Answered(s)
  BY <1>5 DEF Answered, TypeOK
<1>6. CASE Throttled(s)
  BY <1>6 DEF Throttled, TypeOK
<1>7. CASE GivenUp(s) \/ Rejected(s)
  BY <1>7 DEF GivenUp, Rejected, TypeOK
<1>8. CASE Fails(s)
  BY <1>8 DEF Fails, TypeOK
<1>9. CASE Rested(s)
  BY <1>9 DEF Rested, TypeOK
<1>10. CASE Abort(s)
  BY <1>10 DEF Abort, TypeOK
<1> QED
  BY <1>1, <1>2, <1>3, <1>4, <1>5, <1>6, <1>7, <1>8, <1>9, <1>10 DEF Step, Returns

\* Enter lets in one send, with the ticket of now.
LEMMA WhoEnters ==
  ASSUME TypeOK, NEW s \in Sends, Enter(s)
  PROVE  /\ Out' \subseteq Out \cup {s}
         /\ \A q \in Out' :
                (q = s /\ ticket'[q] = opened) \/ (q \in Out /\ ticket'[q] = ticket[q])
         /\ ~Held /\ opened' = opened /\ resumes' = resumes /\ atOnce' = atOnce
<1>1. ~Held /\ opened' = opened /\ resumes' = resumes /\ atOnce' = atOnce /\ s \notin Out
  BY DEF Enter, Out
<1>2. CASE TooLarge(s)
  <2>1. Moves(s, "ended")
    BY <1>2 DEF Enter
  <2> QED
    BY <1>1, <2>1 DEF Moves, Out, TypeOK
<1>3. CASE ~TooLarge(s)
  <2>1. at' = [at EXCEPT ![s] = "window"] /\ ticket' = [ticket EXCEPT ![s] = opened]
    BY <1>3 DEF Enter
  <2>2. \A q \in Sends : q # s => at'[q] = at[q] /\ ticket'[q] = ticket[q]
    BY <2>1 DEF TypeOK
  <2>3. ticket'[s] = opened
    BY <2>1 DEF TypeOK
  <2>4. ASSUME NEW q \in Out', q # s PROVE q \in Out /\ ticket'[q] = ticket[q]
    BY <2>2, <2>4 DEF Out
  <2>5. Out' \subseteq Out \cup {s}
    BY <2>4
  <2>6. \A q \in Out' :
                (q = s /\ ticket'[q] = opened) \/ (q \in Out /\ ticket'[q] = ticket[q])
    BY <2>3, <2>4
  <2> QED
    BY <1>1, <2>5, <2>6
<1> QED
  BY <1>2, <1>3

\* What a step by any other send than one that enters does to the cooldown:
\* nothing, unless its answer speaks for the provider.
LEMMA WhatCools ==
  ASSUME TypeOK, NEW s \in Sends, Step(s)
  PROVE  \/ UNCHANGED <<opened, strikes, atOnce, resumes, since>>
         \/ s \in Out /\ Speaks(s) /\ (OpenCooldown \/ Eased(s))
<1>1. CASE Answered(s)
  BY <1>1 DEF Answered, Out
<1>2. CASE Throttled(s)
  BY <1>2 DEF Throttled, Out
<1>3. CASE Ask(s) \/ Poll(s) \/ Enter(s) \/ Rested(s)
  BY <1>3 DEF Ask, Poll, Enter, Rested
<1>4. CASE Post(s) \/ NotAdmitted(s) \/ Abort(s)
  BY <1>4 DEF Post, NotAdmitted, Abort, pressure
<1>5. CASE GivenUp(s) \/ Rejected(s) \/ Fails(s)
  BY <1>5 DEF GivenUp, Rejected, Fails, pressure
<1> QED
  BY <1>1, <1>2, <1>3, <1>4, <1>5 DEF Step, Returns

\* Tickets stay behind, and while a cooldown runs strictly so.
LEMMA CoolingStep ==
  ASSUME TypeOK, TypeOK', TicketsPast, CoolingIsFinal, [Next]_vars
  PROVE  TicketsPast' /\ CoolingIsFinal'
<1>1. ASSUME NEW s \in Sends, Step(s), ~Enter(s) PROVE TicketsPast' /\ CoolingIsFinal'
  <2>1. Out' \subseteq Out /\ \A q \in Out' : ticket'[q] = ticket[q]
    BY <1>1, WhoIsOut
  <2>2. CASE UNCHANGED <<opened, strikes, atOnce, resumes, since>>
    BY <2>1, <2>2 DEF TicketsPast, CoolingIsFinal, Speaks
  <2>3. CASE OpenCooldown
    <3>1. opened' = opened + 1
      BY <2>3 DEF OpenCooldown
    <3>2. \A q \in Out' : ticket'[q] \in Nat /\ ticket'[q] <= opened
      BY <2>1 DEF TicketsPast, TypeOK, Out
    <3> QED
      BY <3>1, <3>2 DEF TicketsPast, CoolingIsFinal, Speaks, TypeOK
  <2>4. CASE Eased(s)
    BY <2>1, <2>4 DEF Eased, TicketsPast, CoolingIsFinal
  <2> QED
    BY <1>1, <2>2, <2>3, <2>4, WhatCools
<1>2. ASSUME NEW s \in Sends, Enter(s) PROVE TicketsPast' /\ CoolingIsFinal'
  <2>1. resumes = 0
    BY <1>2, WhoEnters DEF Held, TypeOK
  <2> QED
    <3>1. opened' = opened /\ resumes' = resumes /\ opened \in Nat
      BY <1>2, WhoEnters DEF TypeOK
    <3>2. \A q \in Out' : ticket'[q] = opened \/ (q \in Out /\ ticket'[q] = ticket[q])
      BY <1>2, WhoEnters
    <3>3. TicketsPast'
      BY <3>1, <3>2 DEF TicketsPast
    <3>4. CoolingIsFinal'
      BY <2>1, <3>1 DEF CoolingIsFinal
    <3> QED
      BY <3>3, <3>4
<1>3. CASE Tick
  BY <1>3 DEF Tick, TicketsPast, CoolingIsFinal, Speaks, Out, TypeOK
<1>4. CASE UNCHANGED vars
  BY <1>4 DEF vars, pressure, TicketsPast, CoolingIsFinal, Speaks, Out
<1> QED
  BY <1>1, <1>2, <1>3, <1>4 DEF Next

\* What the sender remembers of a ledger and what the ledger says move together,
\* and neither outlives the hold.
LEMMA HeardStep ==
  ASSUME TypeOK, TypeOK', HeardIsTold, NoLedgerLeftHeld, [Next]_vars
  PROVE  HeardIsTold' /\ NoLedgerLeftHeld'
<1>1. ASSUME NEW s \in Sends, Announce(s), strikes' >= strikes, since # None => since' # None
      PROVE  HeardIsTold' /\ NoLedgerLeftHeld'
  <2>1. CASE since' = None
    BY <1>1, <2>1 DEF Announce, HeardIsTold, NoLedgerLeftHeld, TypeOK
  <2>2. CASE since' # None
    <3>1. \A l \in Ledgers :
             /\ heard'[l] = IF l \in Hears[s] THEN strikes' ELSE heard[l]
             /\ told'[l] = IF l \in Hears[s] /\ heard[l] # strikes' THEN strikes' ELSE told[l]
      BY <1>1, <2>2 DEF Announce
    <3>2. \A l \in Ledgers : told[l] \in Nat /\ told[l] <= strikes
      BY DEF NoLedgerLeftHeld, TypeOK
    <3>3. HeardIsTold'
      BY <3>1 DEF HeardIsTold
    <3> QED
      BY <1>1, <2>2, <3>1, <3>2, <3>3 DEF HeardIsTold, NoLedgerLeftHeld, TypeOK
  <2> QED
    BY <2>1, <2>2
<1>2. ASSUME NEW s \in Sends, Eased(s) PROVE HeardIsTold' /\ NoLedgerLeftHeld'
  <2>1. \A l \in Ledgers : heard'[l] = 0 /\ told'[l] = 0
    BY <1>2 DEF Eased, HeardIsTold, NoLedgerLeftHeld
  <2> QED
    BY <2>1 DEF HeardIsTold, NoLedgerLeftHeld
<1>3. ASSUME UNCHANGED <<heard, told>>, strikes' = strikes, since # None => since' # None
      PROVE  HeardIsTold' /\ NoLedgerLeftHeld'
  BY <1>3 DEF HeardIsTold, NoLedgerLeftHeld
<1>4. ASSUME NEW s \in Sends, Step(s) PROVE HeardIsTold' /\ NoLedgerLeftHeld'
  <2>1. CASE Ask(s) \/ Poll(s) \/ Enter(s) \/ Rested(s)
    <3>1. Announce(s) /\ strikes' = strikes /\ since' = since
      BY <2>1 DEF Ask, Poll, Enter, Rested
    <3> QED
      BY <3>1, <1>1 DEF TypeOK
  <2>2. CASE Throttled(s)
    <3>1. strikes' >= strikes /\ (since # None => since' # None)
      <4>1. CASE UNCHANGED <<opened, strikes, atOnce, resumes, since>>
        BY <4>1 DEF TypeOK
      <4>2. CASE OpenCooldown
        BY <4>2 DEF OpenCooldown, TypeOK
      <4> QED
        BY <2>2, <4>1, <4>2 DEF Throttled
    <3> QED
      BY <2>2, <3>1, <1>1 DEF Throttled
  <2>3. CASE Answered(s) /\ Speaks(s)
    BY <2>3, <1>2 DEF Answered
  <2>4. CASE Answered(s) /\ ~Speaks(s)
    <3>1. Announce(s) /\ strikes' = strikes /\ since' = since
      BY <2>4 DEF Answered
    <3> QED
      BY <3>1, <1>1 DEF TypeOK
  <2>5. CASE Post(s) \/ NotAdmitted(s) \/ Abort(s) \/ GivenUp(s) \/ Rejected(s) \/ Fails(s)
    <3>1. UNCHANGED pressure
      BY <2>5 DEF Post, NotAdmitted, Abort, GivenUp, Rejected, Fails
    <3> QED
      BY <3>1, <1>3 DEF pressure
  <2> QED
    BY <1>4, <2>1, <2>2, <2>3, <2>4, <2>5 DEF Step, Returns
<1>5. CASE Tick
  <2>1. since # None => since' # None
    BY <1>5, PacingAssumption DEF Tick, None, TypeOK
  <2> QED
    BY <1>5, <2>1, <1>3 DEF Tick
<1>6. CASE UNCHANGED vars
  BY <1>6, <1>3 DEF vars, pressure
<1> QED
  BY <1>4, <1>5, <1>6 DEF Next

\* No answer may open a second cooldown or end the one that runs, because every
\* send out was let through before it; and no ledger's hold outlives the hold.
THEOREM PacingInvariant == Spec => [](PacingInv /\ NoLedgerLeftHeld)
<1>1. Init => PacingInv /\ NoLedgerLeftHeld
  BY DEF Init, PacingInv, TicketsPast, CoolingIsFinal, HeardIsTold, NoLedgerLeftHeld, Out
<1>2. TypeOK /\ TypeOK' /\ PacingInv /\ NoLedgerLeftHeld /\ [Next]_vars
        => PacingInv' /\ NoLedgerLeftHeld'
  BY CoolingStep, HeardStep DEF PacingInv
<1> QED
  BY <1>1, <1>2, PacingTypeCorrect, PTL DEF Spec

\* A cooldown runs its course, whatever comes back while it does.
THEOREM CourseHolds == Spec => CooldownRunsItsCourse
<1>1. ASSUME TypeOK, PacingInv, [Next]_vars, resumes > 0
      PROVE  opened' = opened /\ resumes' \in {resumes, resumes - 1}
  <2>1. ASSUME NEW s \in Sends, Step(s) PROVE opened' = opened /\ resumes' = resumes
    BY <1>1, <2>1, WhatCools DEF PacingInv, CoolingIsFinal
  <2>2. CASE Tick
    BY <1>1, <2>2 DEF Tick
  <2>3. CASE UNCHANGED vars
    BY <2>3 DEF vars, pressure
  <2> QED
    BY <1>1, <2>1, <2>2, <2>3 DEF Next
<1>2. TypeOK /\ PacingInv /\ [Next]_vars =>
        [resumes > 0 => opened' = opened /\ resumes' \in {resumes, resumes - 1}]_vars
  BY <1>1
<1> QED
  BY <1>2, PacingTypeCorrect, PacingInvariant, PTL DEF Spec, CooldownRunsItsCourse

-----------------------------------------------------------------------------
(* The cap on the sends at once.                                           *)

\* The sends out that were let through since the latest cooldown.
Newest == {s \in Out : Speaks(s)}

\* A step that lets nobody in leaves no more of them, or opens a cooldown, which
\* leaves none.
LEMMA AtOnceStep ==
  ASSUME TypeOK, TypeOK', TicketsPast, WithinAtOnce, [Next]_vars
  PROVE  WithinAtOnce'
<1>1. IsFiniteSet(Newest) /\ Cardinality(Newest) \in Nat
  <2>1. Newest \subseteq Out
    BY DEF Newest
  <2> QED
    BY <2>1, OutFinite, FS_Subset, FS_CardinalityType
<1>2. atOnce # Uncapped => Cardinality(Newest) <= atOnce
  BY DEF WithinAtOnce, Newest
<1>3. (atOnce' # Uncapped => Cardinality(Newest') <= atOnce') => WithinAtOnce'
  BY DEF WithinAtOnce, Newest
<1>4. ASSUME Newest' \subseteq Newest, atOnce' = atOnce PROVE WithinAtOnce'
  <2>1. Cardinality(Newest') <= Cardinality(Newest) /\ Cardinality(Newest') \in Nat
    BY <1>1, <1>4, FS_Subset, FS_CardinalityType
  <2> QED
    BY <1>1, <1>2, <1>3, <1>4, <2>1 DEF TypeOK
<1>5. ASSUME NEW s \in Sends, Step(s), ~Enter(s) PROVE WithinAtOnce'
  <2>1. Out' \subseteq Out /\ \A q \in Out' : ticket'[q] = ticket[q]
    BY <1>5, WhoIsOut
  <2>2. CASE UNCHANGED <<opened, strikes, atOnce, resumes, since>>
    <3>1. Newest' \subseteq Newest
      BY <2>1, <2>2 DEF Newest, Speaks
    <3> QED
      BY <3>1, <2>2, <1>4
  <2>3. CASE OpenCooldown
    <3>1. Newest' = {}
      <4>1. \A q \in Out' : ticket'[q] \in Nat /\ ticket'[q] <= opened
        BY <2>1 DEF TicketsPast, TypeOK, Out
      <4>2. opened' = opened + 1 /\ opened \in Nat
        BY <2>3 DEF OpenCooldown, TypeOK
      <4> QED
        BY <4>1, <4>2 DEF Newest, Speaks
    <3>2. Cardinality(Newest') = 0
      BY <3>1, FS_EmptySet
    <3> QED
      BY <3>2, <1>3 DEF TypeOK
  <2>4. CASE Eased(s)
    <3>1. Newest' \subseteq Newest
      BY <2>1, <2>4 DEF Newest, Speaks, Eased
    <3>2. Cardinality(Newest') <= Cardinality(Newest) /\ Cardinality(Newest') \in Nat
      BY <1>1, <3>1, FS_Subset, FS_CardinalityType
    <3>3. CASE atOnce = Uncapped
      BY <2>4, <3>3, <1>3 DEF Eased
    <3>4. CASE atOnce # Uncapped
      <4>1. atOnce \in Nat /\ atOnce' \in Nat /\ atOnce' >= atOnce
        BY <2>4, <3>4 DEF Eased, TypeOK
      <4> QED
        BY <4>1, <3>2, <3>4, <1>1, <1>2, <1>3
    <3> QED
      BY <3>3, <3>4
  <2> QED
    BY <1>5, <2>2, <2>3, <2>4, WhatCools
<1>6. ASSUME NEW s \in Sends, Enter(s) PROVE WithinAtOnce'
  <2>1. /\ Out' \subseteq Out \cup {s}
        /\ ~Held /\ atOnce' = atOnce
    BY <1>6, WhoEnters
  <2>2. CASE atOnce = Uncapped
    BY <2>1, <2>2, <1>3
  <2>3. CASE atOnce # Uncapped
    <3>1. Cardinality(Out) < atOnce /\ atOnce \in Nat
      BY <2>1, <2>3, OutFinite DEF Held, TypeOK
    <3>2. IsFiniteSet(Out \cup {s}) /\ Cardinality(Out \cup {s}) <= Cardinality(Out) + 1
      BY OutFinite, FS_AddElement
    <3>3. Newest' \subseteq Out \cup {s}
      BY <2>1 DEF Newest
    <3>4. Cardinality(Newest') <= Cardinality(Out \cup {s}) /\ Cardinality(Newest') \in Nat
          /\ Cardinality(Out \cup {s}) \in Nat
      BY <3>2, <3>3, FS_Subset, FS_CardinalityType
    <3> QED
      BY <2>1, <3>1, <3>2, <3>4, OutFinite, <1>3
  <2> QED
    BY <2>2, <2>3
<1>7. CASE Tick
  BY <1>7, <1>4 DEF Tick, Newest, Speaks, Out
<1>8. CASE UNCHANGED vars
  BY <1>8, <1>4 DEF vars, pressure, Newest, Speaks, Out
<1> QED
  BY <1>5, <1>6, <1>7, <1>8 DEF Next

\* However the cap falls and climbs back, the sends let through since the latest
\* cooldown stay within it.
THEOREM AtOnceHolds == Spec => []WithinAtOnce
<1>1. Init => WithinAtOnce
  BY DEF Init, WithinAtOnce
<1>2. TypeOK /\ TypeOK' /\ PacingInv /\ WithinAtOnce /\ [Next]_vars => WithinAtOnce'
  BY AtOnceStep DEF PacingInv
<1> QED
  BY <1>1, <1>2, PacingTypeCorrect, PacingInvariant, PTL DEF Spec

\* No ledger is left on a hold that is over.
THEOREM LedgersHear == Spec => []NoLedgerLeftHeld
BY PacingInvariant, PTL

-----------------------------------------------------------------------------
(* The window and its caps.                                                *)

\* The sum of a window's tokens, a value for each place in it.
TokensAt(W) == [i \in DOMAIN W |-> W[i].tokens]

LEMMA TokensSum ==
  ASSUME NEW W \in Seq(Entry)
  PROVE  /\ Tokens(W) = SumFunctionOnSet(TokensAt(W), 1 .. Len(W))
         /\ Len(W) \in Nat /\ DOMAIN W = 1 .. Len(W) /\ IsFiniteSet(1 .. Len(W))
         /\ \A i \in 1 .. Len(W) : TokensAt(W)[i] = W[i].tokens /\ TokensAt(W)[i] \in Nat
         /\ Tokens(W) \in Nat
<1>1. Len(W) \in Nat /\ DOMAIN W = 1 .. Len(W)
  OBVIOUS
<1>2. IsFiniteSet(1 .. Len(W))
  <2> DEFINE n == Len(W)
  <2>1. 1 \in Int /\ n \in Int
    BY <1>1
  <2> HIDE DEF n
  <2>2. IsFiniteSet(1 .. n)
    BY <2>1, FS_Interval
  <2> QED
    BY <2>2 DEF n
<1>3. \A i \in 1 .. Len(W) : TokensAt(W)[i] = W[i].tokens /\ TokensAt(W)[i] \in Nat
  <2>1. \A i \in 1 .. Len(W) : W[i] \in Entry
    BY <1>1
  <2>2. \A i \in 1 .. Len(W) : W[i].tokens \in Nat
    BY <2>1 DEF Entry
  <2>3. \A i \in 1 .. Len(W) : TokensAt(W)[i] = W[i].tokens
    BY <1>1 DEF TokensAt
  <2> QED
    BY <2>2, <2>3
<1>4. Tokens(W) = SumFunctionOnSet(TokensAt(W), 1 .. Len(W))
  BY <1>1 DEF Tokens, SumFunction, TokensAt
<1>5. SumFunctionOnSet(TokensAt(W), 1 .. Len(W)) \in Nat
  <2> DEFINE f == TokensAt(W)  S == 1 .. Len(W)
  <2>1. IsFiniteSet(S) /\ \A x \in S : f[x] \in Nat
    BY <1>2, <1>3
  <2> HIDE DEF f, S
  <2>2. SumFunctionOnSet(f, S) \in Nat
    BY <2>1, SumType
  <2> QED
    BY <2>2 DEF f, S
<1> QED
  BY <1>1, <1>2, <1>3, <1>4, <1>5

\* A send at the end of a window adds its need.
LEMMA TokensAppend ==
  ASSUME NEW W \in Seq(Entry), NEW e \in Entry
  PROVE  Tokens(Append(W, e)) = Tokens(W) + e.tokens
<1> DEFINE n == Len(W)  V == Append(W, e)  f == TokensAt(V)  g == TokensAt(W)  S == 1 .. n
<1>1. /\ V \in Seq(Entry) /\ Len(V) = n + 1 /\ n \in Nat
      /\ \A i \in S : V[i] = W[i]
      /\ V[n + 1] = e
  OBVIOUS
<1>2. /\ Tokens(V) = SumFunctionOnSet(f, 1 .. Len(V))
      /\ \A i \in 1 .. Len(V) : f[i] = V[i].tokens /\ f[i] \in Nat
  BY <1>1, TokensSum
<1>3. /\ Tokens(W) = SumFunctionOnSet(g, S) /\ IsFiniteSet(S)
      /\ \A i \in S : g[i] = W[i].tokens /\ g[i] \in Nat
  BY TokensSum
<1>4. 1 .. Len(V) = S \cup {n + 1} /\ n + 1 \notin S
  BY <1>1
<1> HIDE DEF V, f, g, S
<1>5. \A i \in S \cup {n + 1} : f[i] \in Int
  BY <1>2, <1>4
<1>6. SumFunctionOnSet(f, S \cup {n + 1}) = SumFunctionOnSet(f, S) + f[n + 1]
  BY <1>3, <1>4, <1>5, SumAdd
<1>7. SumFunctionOnSet(f, S) = SumFunctionOnSet(g, S)
  <2>1. \A i \in S : f[i] \in Int /\ f[i] = g[i]
    BY <1>1, <1>2, <1>3, <1>4
  <2> QED
    BY <1>3, <2>1, SumSame
<1>8. f[n + 1] = e.tokens
  BY <1>1, <1>2, <1>4
<1> QED
  BY <1>2, <1>3, <1>4, <1>6, <1>7, <1>8 DEF V

\* A window that lost its oldest entries, the others with their tokens, holds no more.
LEMMA TokensLeft ==
  ASSUME NEW W \in Seq(Entry), NEW V \in Seq(Entry), NEW e \in Nat,
         e + Len(V) = Len(W), \A i \in 1 .. Len(V) : V[i].tokens = W[i + e].tokens
  PROVE  Tokens(V) <= Tokens(W)
<1> DEFINE f == TokensAt(W)  g == TokensAt(V)
           n == Len(V)  D == 1 .. n  S == (e + 1) .. (e + n)  T == 1 .. Len(W)
           of == [x \in S |-> x - e]
<1>1. /\ n \in Nat /\ S \subseteq T /\ \A x \in S : of[x] \in D
      /\ \A d \in D : d + e \in S
  OBVIOUS
<1>2. /\ Tokens(W) = SumFunctionOnSet(f, T) /\ IsFiniteSet(T)
      /\ \A i \in T : f[i] = W[i].tokens /\ f[i] \in Nat
  BY TokensSum
<1>3. /\ Tokens(V) = SumFunctionOnSet(g, D) /\ IsFiniteSet(D)
      /\ \A i \in D : g[i] = V[i].tokens /\ g[i] \in Nat
  BY TokensSum
<1>4. IsFiniteSet(S)
  BY <1>1, <1>2, FS_Subset
<1>5. ASSUME NEW d \in D PROVE g[d] = SumFunctionOnSet(f, Fibre(of, S, d))
  <2>1. Fibre(of, S, d) = {d + e}
    BY <1>1 DEF Fibre
  <2>2. f[d + e] = g[d] /\ f[d + e] \in Int
    BY <1>1, <1>2, <1>3
  <2> HIDE DEF f, g, D, S, of
  <2>3. SumFunctionOnSet(f, {d + e}) = f[d + e]
    BY <2>2, SumOne
  <2> QED
    BY <2>1, <2>2, <2>3
<1>6. (\A x \in S : of[x] \in D) /\ \A x \in S : f[x] \in Int
  BY <1>1, <1>2
<1> HIDE DEF f, g, D, S, T, of
<1>7. SumFunctionOnSet(f, S) = SumFunctionOnSet(g, D)
  BY <1>3, <1>4, <1>5, <1>6, SumGrouped
<1>8. SumFunctionOnSet(f, S) <= SumFunctionOnSet(f, T)
  BY <1>1, <1>2, SumOfPart
<1> QED
  BY <1>2, <1>3, <1>7, <1>8

\* What leaves a window leaves it no fuller.
LEMMA OverfullLess ==
  ASSUME NEW W \in Seq(Entry), NEW V \in Seq(Entry), NEW r \in Caps, NEW t \in Caps,
         Len(V) <= Len(W), Tokens(V) <= Tokens(W), Overfull(V, r, t)
  PROVE  Overfull(W, r, t)
<1>1. Len(V) \in Nat /\ Len(W) \in Nat /\ Tokens(V) \in Nat /\ Tokens(W) \in Nat
  BY TokensSum
<1>2. (r # Uncapped => r \in Nat) /\ (t # Uncapped => t \in Nat)
  BY DEF Caps
<1> QED
  BY <1>1, <1>2 DEF Overfull

\* A send takes a slot only where its need fits, or where it never would.
LEMMA PostFits ==
  ASSUME TypeOK, NEW s \in Sends, Post(s), WindowHoldsCaps
  PROVE  WindowHoldsCaps'
<1> DEFINE e == [of |-> s, age |-> 0, tokens |-> Need[s]]
<1>1. window' = Append(window, e) /\ UNCHANGED <<rpm, tpm>>
      /\ over' = (over \/ (tpm # Uncapped /\ Need[s] > tpm))
  BY DEF Post
<1>2. window \in Seq(Entry) /\ e \in Entry /\ rpm \in Caps /\ tpm \in Caps /\ over \in BOOLEAN
      /\ Need[s] \in Nat
  BY PacingAssumption DEF TypeOK, Entry
<1>3. Len(window') = Len(window) + 1 /\ Len(window) \in Nat
  BY <1>1, <1>2
<1>4. Tokens(window') = Tokens(window) + Need[s] /\ Tokens(window) \in Nat
  BY <1>1, <1>2, TokensAppend, TokensSum
<1>5. Ready(s)
  BY DEF Post, NextUp
<1>6. ~over' => ~(rpm # Uncapped /\ Len(window') > rpm)
  BY <1>2, <1>3, <1>5 DEF Ready, Caps
<1>7. ~over' => ~(tpm # Uncapped /\ Tokens(window') > tpm)
  <2>1. ~over' => ~(tpm # Uncapped /\ Need[s] > tpm)
    BY <1>1
  <2>2. tpm # Uncapped => tpm \in Nat
    BY <1>2 DEF Caps
  <2>3. tpm # Uncapped /\ Need[s] <= tpm => Tokens(window) + Need[s] <= tpm
    BY <1>5 DEF Ready
  <2> QED
    BY <1>2, <1>4, <2>1, <2>2, <2>3
<1> QED
  BY <1>1, <1>6, <1>7 DEF WindowHoldsCaps, Overfull

\* A tick lets the oldest entries go.
LEMMA TickLeaves ==
  ASSUME TypeOK, TypeOK', Tick
  PROVE  Overfull(window', rpm, tpm) => Overfull(window, rpm, tpm)
<1> DEFINE n == Len(window) - Expired
<1>1. Len(window) \in Nat /\ Expired \in 0 .. Len(window)
  BY ExpiredWithin
<1>2. /\ window \in Seq(Entry) /\ window' \in Seq(Entry)
      /\ rpm \in Caps /\ tpm \in Caps
  BY DEF TypeOK
<1>3. window' = [i \in 1 .. n |-> [window[i + Expired] EXCEPT !.age = @ + 1]]
  BY DEF Tick
<1>4. n \in Nat /\ Len(window') = n
  <2>1. n \in Nat
    BY <1>1
  <2> HIDE DEF n
  <2>2. DOMAIN window' = 1 .. n
    BY <1>3
  <2> QED
    BY <1>2, <2>1, <2>2
<1>5. ASSUME NEW i \in 1 .. Len(window') PROVE window'[i].tokens = window[i + Expired].tokens
  <2>1. i + Expired \in 1 .. Len(window) /\ i \in 1 .. n
    BY <1>1, <1>4
  <2>2. window[i + Expired] \in Entry
    BY <1>2, <2>1
  <2>3. window'[i] = [window[i + Expired] EXCEPT !.age = @ + 1]
    BY <1>3, <2>1
  <2> QED
    BY <2>2, <2>3 DEF Entry
<1>6. Expired \in Nat /\ Expired + Len(window') = Len(window) /\ Len(window') <= Len(window)
  BY <1>1, <1>4
<1>7. Tokens(window') <= Tokens(window)
  BY <1>2, <1>5, <1>6, TokensLeft
<1> QED
  BY <1>2, <1>6, <1>7, OverfullLess

LEMMA CapsStep ==
  ASSUME TypeOK, TypeOK', WindowHoldsCaps, [Next]_vars
  PROVE  WindowHoldsCaps'
<1>1. ASSUME UNCHANGED <<window, rpm, tpm, over>> PROVE WindowHoldsCaps'
  BY <1>1 DEF WindowHoldsCaps, Overfull
<1>2. ASSUME NEW s \in Sends, Step(s) PROVE WindowHoldsCaps'
  <2>1. CASE Post(s)
    BY <2>1, PostFits
  <2>2. CASE Answered(s)
    BY <2>2 DEF Answered, WindowHoldsCaps
  <2>3. CASE Ask(s) \/ Poll(s) \/ Enter(s) \/ Rested(s)
    BY <1>1, <2>3 DEF Ask, Poll, Enter, Rested, limiter
  <2>4. CASE NotAdmitted(s) \/ Abort(s)
    BY <1>1, <2>4 DEF NotAdmitted, Abort
  <2>5. CASE Throttled(s) \/ GivenUp(s) \/ Rejected(s) \/ Fails(s)
    BY <1>1, <2>5 DEF Throttled, GivenUp, Rejected, Fails, limiter
  <2> QED
    BY <1>2, <2>1, <2>2, <2>3, <2>4, <2>5 DEF Step, Returns
<1>3. CASE Tick
  <2>1. over' = (over /\ Overfull(window', rpm, tpm)) /\ UNCHANGED <<rpm, tpm>>
    BY <1>3 DEF Tick
  <2>2. Overfull(window', rpm, tpm) => over
    BY <1>3, TickLeaves DEF WindowHoldsCaps
  <2>3. Overfull(window, rpm, tpm)' => Overfull(window', rpm, tpm)
    BY <2>1
  <2> QED
    BY <2>1, <2>2, <2>3 DEF WindowHoldsCaps
<1>4. CASE UNCHANGED vars
  BY <1>1, <1>4 DEF vars, limiter
<1> QED
  BY <1>2, <1>3, <1>4 DEF Next

\* The window passes a cap only by what a response said, or by one send larger
\* than the cap: no turn taken in it, and no tick, overfills it.
THEOREM CapsHeld == Spec => []WindowHoldsCaps
<1>1. Init => WindowHoldsCaps
  <2> SUFFICES ASSUME Init PROVE ~Overfull(window, rpm, tpm)
    BY DEF WindowHoldsCaps
  <2>1. window = <<>> /\ rpm \in Caps /\ tpm \in Caps
    BY PacingAssumption DEF Init
  <2>2. Tokens(<<>>) = 0
    BY SumEmpty DEF Tokens, SumFunction
  <2> QED
    BY <2>1, <2>2 DEF Overfull, Caps
<1> QED
  BY <1>1, CapsStep, PacingTypeCorrect, PTL DEF Spec
=============================================================================
