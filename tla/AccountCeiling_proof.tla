------------------------ MODULE AccountCeiling_proof ------------------------
(***************************************************************************)
(* What holds of an account's money for every set of campaigns, cycles,    *)
(* launches and set-limits commands, proved of AccountCeiling.             *)
(***************************************************************************)
EXTENDS AccountCeiling, SetFacts

----------------------------------------------------------------------------
(* The amounts *)

LEMMA JobsFinite == \A S \in SUBSET Jobs : IsFiniteSet(S)
BY MoneyAssumption, FS_Subset

LEMMA CyclesFinite == \A S \in SUBSET Cycles : IsFiniteSet(S)
BY CyclesAssumption, FS_Subset

LEMMA ArithmeticTypes ==
    /\ \A n \in Int : AtLeastZero(n) \in Nat /\ n <= AtLeastZero(n)
    /\ \A m, n \in Nat : Lower(m, n) \in Nat /\ Lower(m, n) <= m /\ Lower(m, n) <= n
BY DEF AtLeastZero, Lower

LEMMA SumNat ==
    ASSUME NEW f, NEW S, IsFiniteSet(S), \A x \in S : f[x] \in Nat
    PROVE  SumFunctionOnSet(f, S) \in Nat
<1> DEFINE R == Nat
<1>1. (R = Int \/ R = Nat) /\ \A x \in S : f[x] \in R
  OBVIOUS
<1> HIDE DEF R
<1>2. SumFunctionOnSet(f, S) \in R
  BY <1>1, SumType
<1> QED
  BY <1>2 DEF R

(* What was spent and what is left are amounts. *)
LEMMA SpentTypes ==
    ASSUME TypeOK
    PROVE  /\ \A c : SpentOn(c) \in Nat
           /\ Left \in Nat
<1>1. \A S \in SUBSET Cycles : SumFunctionOnSet(spent, S) \in Nat
  <2> SUFFICES ASSUME NEW S \in SUBSET Cycles PROVE SumFunctionOnSet(spent, S) \in Nat
    OBVIOUS
  <2>1. IsFiniteSet(S) /\ \A k \in S : spent[k] \in Nat
    BY CyclesFinite DEF TypeOK
  <2> QED
    BY <2>1, SumNat
<1>2. \A c : SpentOn(c) \in Nat
  <2> SUFFICES ASSUME NEW c PROVE SpentOn(c) \in Nat
    OBVIOUS
  <2>1. {k \in Cycles : CampaignOf[k] = c} \in SUBSET Cycles
    OBVIOUS
  <2> QED
    BY <1>1, <2>1 DEF SpentOn
<1>3. SumFunctionOnSet(spent, Cycles) \in Nat
  BY <1>1
<1>4. Face - SumFunctionOnSet(spent, Cycles) \in Int
  BY <1>3, MoneyAssumption
<1> QED
  BY <1>2, <1>4, ArithmeticTypes DEF Left

(* So are what is held back for the other runs and the room a run has. *)
LEMMA HeadroomTypes ==
    ASSUME TypeOK
    PROVE  /\ \A j : HeldBack(j) \in Nat
           /\ \A j, c : Headroom(j, c) \in Nat
<1>1. \A j : HeldBack(j) \in Nat
  <2> SUFFICES ASSUME NEW j PROVE HeldBack(j) \in Nat
    OBVIOUS
  <2>1. IsFiniteSet(Live \ {j}) /\ \A o \in Live \ {j} : reserve[o] \in Nat
    BY JobsFinite DEF Live, TypeOK
  <2> QED
    BY <2>1, SumNat DEF HeldBack
<1>2. \A j, c : Headroom(j, c) \in Nat
  <2> SUFFICES ASSUME NEW j, NEW c PROVE Headroom(j, c) \in Nat
    OBVIOUS
  <2>1. Left \in Nat /\ HeldBack(j) \in Nat /\ SpentOn(c) \in Nat
    BY <1>1, SpentTypes
  <2> QED
    BY <2>1 DEF Headroom, AtLeastZero
<1> QED
  BY <1>1, <1>2

(* What a run still holds of a share is an amount, and so is any sum of it. *)
LEMMA BesideTypes ==
    ASSUME TypeOK, NEW shares, NEW T \in SUBSET Jobs,
           \A o \in T : on[o] \in Cycles /\ shares[on[o]] \in Money
    PROVE  /\ IsFiniteSet(T)
           /\ \A o \in T : /\ HeldBy(shares, T)[o] = Held(shares[on[o]], on[o])
                           /\ Held(shares[on[o]], on[o]) \in Nat
           /\ Beside(shares, T) \in Nat
<1>1. \A o \in T : Held(shares[on[o]], on[o]) \in Nat
  <2> SUFFICES ASSUME NEW o \in T PROVE Held(shares[on[o]], on[o]) \in Nat
    OBVIOUS
  <2>1. spent[on[o]] \in Nat /\ (shares[on[o]] \in Nat \/ shares[on[o]] = NoCap)
    BY DEF Money, TypeOK
  <2>2. CASE shares[on[o]] = NoCap
    BY <2>2 DEF Held, Bounded
  <2>3. CASE shares[on[o]] \in Nat
    <3>1. shares[on[o]] - spent[on[o]] \in Int
      BY <2>1, <2>3
    <3> QED
      BY <3>1, ArithmeticTypes DEF Held
  <2> QED
    BY <2>1, <2>2, <2>3
<1>2. \A o \in T : HeldBy(shares, T)[o] = Held(shares[on[o]], on[o])
  BY DEF HeldBy
<1>3. IsFiniteSet(T)
  BY JobsFinite
<1>4. Beside(shares, T) \in Nat
  BY <1>1, <1>2, <1>3, SumNat DEF Beside
<1> QED
  BY <1>1, <1>2, <1>3, <1>4

(* An allotment is an amount, no less than the cycle spent, or no ceiling. *)
LEMMA AllotmentTypes ==
    ASSUME TypeOK, NEW shares, NEW T \in SUBSET Jobs,
           \A o \in T : on[o] \in Cycles /\ shares[on[o]] \in Money,
           NEW cap \in Money, NEW k \in Cycles
    PROVE  /\ Allotment(cap, k, shares, T) \in Money
           /\ Bounded(Allotment(cap, k, shares, T)) <=> Bounded(cap)
           /\ Bounded(cap) => LeftOf(cap, CampaignOf[k], shares, T) \in Int
           /\ Bounded(cap) => Held(Allotment(cap, k, shares, T), k) =
                                AtLeastZero(LeftOf(cap, CampaignOf[k], shares, T))
<1>1. Beside(shares, T) \in Nat
  BY BesideTypes
<1>2. Bounded(cap) => LeftOf(cap, CampaignOf[k], shares, T) \in Int
  BY <1>1, SpentTypes DEF LeftOf, Money, Bounded
<1>3. spent[k] \in Nat
  BY DEF TypeOK
<1>4. CASE cap = NoCap
  BY <1>4 DEF Allotment, Money, Bounded
<1>5. CASE cap # NoCap
  <2>1. PICK n \in Nat : n = AtLeastZero(LeftOf(cap, CampaignOf[k], shares, T))
    BY <1>2, <1>5, ArithmeticTypes DEF Bounded
  <2>2. Allotment(cap, k, shares, T) = spent[k] + n
    BY <1>5, <2>1 DEF Allotment, Bounded
  <2>3. spent[k] + n \in Nat /\ (spent[k] + n) - spent[k] = n /\ spent[k] + n # NoCap
    BY <1>3, <2>1, MoneyAssumption
  <2>4. Held(spent[k] + n, k) = n
    BY <2>1, <2>3 DEF Held, Bounded, AtLeastZero
  <2> QED
    BY <1>2, <1>5, <2>1, <2>2, <2>3, <2>4 DEF Money, Bounded
<1> QED
  BY <1>4, <1>5

(* What a person asked for, and what a launch declares, are ceilings. *)
LEMMA DeclaredTypes ==
    ASSUME TypeOK, NEW j \in Jobs, on[j] \in Cycles
    PROVE  /\ CampaignOf[on[j]] \in Campaigns
           /\ Asked(j) \in Money \cup {NoRecord}
           /\ request[j] \in Money \cup {NoRecord}
           /\ Declared(j) \in Money
           /\ request[j] # NoRecord => Declared(j) = request[j]
<1>1. CampaignOf[on[j]] \in Campaigns
  BY CyclesAssumption
<1> QED
  BY <1>1, MoneyAssumption DEF TypeOK, Asked, Declared, Money

LEMMA ReserveTypes ==
    \A cap \in Money, room \in Nat : ReserveOf(cap, room) \in Nat /\ ReserveOf(cap, room) <= room
BY DEF ReserveOf, Money, Bounded, Lower

(* A live cycle re-shared has a share, bounded as the ceiling is; any other *)
(* keeps its own.                                                           *)
LEMMA ResharedTypes ==
    ASSUME TypeOK, NEW shares \in [Cycles -> Money \cup {NoRecord}], NEW T \in SUBSET Jobs,
           \A o \in T : on[o] \in Cycles /\ shares[on[o]] # NoRecord, NEW cap \in Money
    PROVE  /\ Reshared(cap, shares, T) \in [Cycles -> Money \cup {NoRecord}]
           /\ \A o \in T : /\ Reshared(cap, shares, T)[on[o]] =
                                Allotment(cap, on[o], shares, {p \in T : on[p] # on[o]})
                           /\ Reshared(cap, shares, T)[on[o]] \in Money
                           /\ Bounded(Reshared(cap, shares, T)[on[o]]) <=> Bounded(cap)
           /\ \A k \in Cycles : (\A o \in T : on[o] # k) => Reshared(cap, shares, T)[k] = shares[k]
<1>1. \A k \in Cycles : /\ Allotment(cap, k, shares, {p \in T : on[p] # k}) \in Money
                        /\ Bounded(Allotment(cap, k, shares, {p \in T : on[p] # k})) <=> Bounded(cap)
  <2> SUFFICES ASSUME NEW k \in Cycles
               PROVE  /\ Allotment(cap, k, shares, {p \in T : on[p] # k}) \in Money
                      /\ Bounded(Allotment(cap, k, shares, {p \in T : on[p] # k})) <=> Bounded(cap)
    OBVIOUS
  <2> DEFINE U == {p \in T : on[p] # k}
  <2>1. U \in SUBSET Jobs /\ \A o \in U : on[o] \in Cycles /\ shares[on[o]] \in Money
    OBVIOUS
  <2> HIDE DEF U
  <2>2. Allotment(cap, k, shares, U) \in Money
        /\ (Bounded(Allotment(cap, k, shares, U)) <=> Bounded(cap))
    BY <2>1, AllotmentTypes
  <2> QED
    BY <2>2 DEF U
<1> QED
  BY <1>1 DEF Reshared

----------------------------------------------------------------------------
(* What the live cycles of a campaign hold *)

(* Every job of T runs on a cycle that has a share. *)
HaveShares(shares, T) == \A o \in T : on[o] \in Cycles /\ shares[on[o]] \in Money

(* One run's part of what several hold. *)
LEMMA BesideTakeOut ==
    ASSUME TypeOK, NEW shares, NEW T \in SUBSET Jobs, HaveShares(shares, T), NEW p \in T
    PROVE  /\ Beside(shares, T) = Held(shares[on[p]], on[p]) + Beside(shares, T \ {p})
           /\ Held(shares[on[p]], on[p]) \in Nat /\ Beside(shares, T \ {p}) \in Nat
<1> DEFINE U == T \ {p}  f == HeldBy(shares, T)  g == HeldBy(shares, U)
<1>1. /\ U \in SUBSET Jobs /\ p \notin U /\ U \subseteq T
      /\ \A o \in T : on[o] \in Cycles /\ shares[on[o]] \in Money
      /\ \A o \in U : on[o] \in Cycles /\ shares[on[o]] \in Money
  BY DEF HaveShares
<1>2. /\ IsFiniteSet(T) /\ f[p] = Held(shares[on[p]], on[p])
      /\ \A o \in T : f[o] \in Nat
  BY <1>1, BesideTypes
<1> HIDE DEF U
<1>3. /\ IsFiniteSet(U) /\ Beside(shares, U) \in Nat
      /\ \A o \in U : g[o] = Held(shares[on[o]], on[o]) /\ g[o] \in Nat
  BY <1>1, BesideTypes
<1>4. \A o \in U : f[o] = g[o]
  BY <1>1, <1>3 DEF HeldBy
<1>5. Beside(shares, T) = SumFunctionOnSet(f, T) /\ Beside(shares, U) = SumFunctionOnSet(g, U)
  BY DEF Beside
<1> HIDE DEF f, g
<1>6. SumFunctionOnSet(f, T) = f[p] + SumFunctionOnSet(f, T \ {p})
  <2>1. \A x \in T : f[x] \in Int
    BY <1>2
  <2> QED
    BY <1>2, <2>1, SumTakeOut
<1>7. SumFunctionOnSet(f, U) = SumFunctionOnSet(g, U)
  <2>1. \A x \in U : f[x] \in Int /\ f[x] = g[x]
    BY <1>1, <1>2, <1>4
  <2> QED
    BY <1>3, <2>1, SumSame
<1> QED
  BY <1>1, <1>2, <1>3, <1>5, <1>6, <1>7 DEF U

(* What is held depends on what each run holds, not on the shares' form. *)
LEMMA BesideSame ==
    ASSUME TypeOK, NEW shares, NEW others, NEW T \in SUBSET Jobs, HaveShares(shares, T),
           \A o \in T : Held(others[on[o]], on[o]) = Held(shares[on[o]], on[o])
    PROVE  Beside(others, T) = Beside(shares, T)
<1> DEFINE f == HeldBy(shares, T)  g == HeldBy(others, T)
<1>1. IsFiniteSet(T) /\ \A o \in T : f[o] \in Nat /\ f[o] = g[o]
  <2>1. \A o \in T : on[o] \in Cycles /\ shares[on[o]] \in Money
    BY DEF HaveShares
  <2>2. /\ IsFiniteSet(T)
        /\ \A o \in T : f[o] = Held(shares[on[o]], on[o]) /\ Held(shares[on[o]], on[o]) \in Nat
    BY <2>1, BesideTypes
  <2> QED
    BY <2>2 DEF HeldBy
<1> HIDE DEF f, g
<1>2. \A o \in T : f[o] \in Int /\ f[o] = g[o]
  BY <1>1
<1>3. SumFunctionOnSet(f, T) = SumFunctionOnSet(g, T)
  BY <1>1, <1>2, SumSame
<1> QED
  BY <1>3 DEF Beside, f, g

(* The live jobs of a campaign run on different cycles of it. *)
LEMMA LiveOnCampaign ==
    ASSUME AccountInv, NEW c
    PROVE  /\ LiveOn(c) \subseteq Live /\ Live \subseteq Jobs /\ LiveOn(c) \subseteq Jobs
           /\ HaveShares(share, LiveOn(c)) /\ HaveShares(share, Live)
           /\ \A o \in LiveOn(c) : CampaignOf[on[o]] = c
           /\ \A o, p \in Live : on[o] = on[p] => o = p
BY DEF LiveOn, Live, AccountInv, TypeOK, AloneInv, HaveShares, Money

----------------------------------------------------------------------------
(* What an admission does to the shares of its campaign *)

(* The cycle gets what nobody holds of the ceiling; every other live cycle *)
(* of the campaign may still meter what it could, moved ceiling or not.     *)
AdmitLeaves(j) ==
    LET k == on[j]
        c == CampaignOf[k]
        d == Declared(j)
    IN  /\ share' \in [Cycles -> Money \cup {NoRecord}]
        /\ \A o \in LiveOn(c) \cup {j} :
              share'[on[o]] \in Money /\ (Bounded(share'[on[o]]) <=> Bounded(d))
        /\ \A o \in LiveOn(c) : Held(share'[on[o]], on[o]) = Held(share[on[o]], on[o])
        /\ \A q \in Cycles : (\A o \in LiveOn(c) \cup {j} : on[o] # q) => share'[q] = share[q]
        /\ Bounded(d) => /\ d \in Nat /\ LeftOf(d, c, share, LiveOn(c)) \in Nat
                         /\ LeftOf(d, c, share, LiveOn(c)) > 0
                         /\ Held(share'[k], k) = LeftOf(d, c, share, LiveOn(c))

LEMMA AdmitShares ==
    ASSUME AccountInv, NEW j \in Jobs, Admit(j)
    PROVE  AdmitLeaves(j)
<1> DEFINE k == on[j]
           c == CampaignOf[k]
           d == Declared(j)
           L == LiveOn(c)
           a == Allotment(d, k, share, L)
           taken == [share EXCEPT ![k] = a]
           T == L \cup {j}
<1>1. /\ k \in Cycles /\ j \in Waiting /\ j \notin Live /\ TypeOK
      /\ \A o \in Live : on[o] # k
  <2>1. j \in Waiting /\ j \notin Live
    BY DEF Admit, Waiting, Live
  <2> QED
    BY <2>1 DEF AccountInv, TypeOK, AloneInv
<1>2. /\ c \in Campaigns /\ d \in Money
      /\ request[j] # NoRecord => d = request[j]
  BY <1>1, DeclaredTypes
<1>3. /\ L \in SUBSET Jobs /\ L \subseteq Live /\ HaveShares(share, L)
      /\ \A o \in L : on[o] \in Cycles /\ share[on[o]] \in Money
      /\ \A o \in L : CampaignOf[on[o]] = c
      /\ \A o, p \in L : on[o] = on[p] => o = p
  BY LiveOnCampaign DEF HaveShares
<1>4. /\ a \in Money /\ (Bounded(a) <=> Bounded(d))
      /\ Bounded(d) => /\ LeftOf(d, c, share, L) \in Int
                       /\ Held(a, k) = AtLeastZero(LeftOf(d, c, share, L))
  BY <1>1, <1>2, <1>3, AllotmentTypes
<1>5. Bounded(d) => /\ LeftOf(d, c, share, L) > 0 /\ d \in Nat
                    /\ LeftOf(d, c, share, L) \in Nat
                    /\ Held(a, k) = LeftOf(d, c, share, L)
  <2>1. Bounded(d) => LeftOf(d, c, share, L) > 0
    BY DEF Admit, AdmitsOnCeiling
  <2> QED
    BY <1>2, <1>4, <2>1 DEF Money, Bounded, AtLeastZero
<1>6. \A o \in L : Bounded(share[on[o]]) <=> Bounded(d)
  BY DEF Admit, AdmitsOnCeiling, Shareable
<1>7. /\ taken \in [Cycles -> Money \cup {NoRecord}] /\ taken[k] = a
      /\ \A q \in Cycles \ {k} : taken[q] = share[q]
  <2>1. share \in [Cycles -> Money \cup {NoRecord}]
    BY <1>1 DEF TypeOK
  <2> QED
    BY <1>1, <1>4, <2>1
<1>8. \A o \in L : taken[on[o]] = share[on[o]] /\ on[o] # k
  BY <1>1, <1>3, <1>7
<1>9. /\ T \in SUBSET Jobs /\ HaveShares(taken, T) /\ j \notin L
      /\ \A o, p \in T : on[o] = on[p] => o = p
      /\ \A o \in T : CampaignOf[on[o]] = c /\ on[o] \in Cycles
  BY <1>1, <1>3, <1>4, <1>7, <1>8 DEF HaveShares
<1>10. share' = taken \/ (request[j] # NoRecord /\ share' = Reshared(request[j], taken, T))
  BY DEF Admit
<1> HIDE DEF k, c, d, L, a, taken, T
<1>11. CASE share' = taken
  <2>1. Bounded(d) => Held(share'[k], k) = LeftOf(d, c, share, L)
    BY <1>5, <1>7, <1>11
  <2>2. \A o \in L : Held(share'[on[o]], on[o]) = Held(share[on[o]], on[o])
    BY <1>8, <1>11
  <2>3. \A o \in L \cup {j} : share'[on[o]] \in Money /\ (Bounded(share'[on[o]]) <=> Bounded(d))
    BY <1>3, <1>4, <1>6, <1>7, <1>8, <1>11 DEF k
  <2>4. \A q \in Cycles : (\A o \in L \cup {j} : on[o] # q) => share'[q] = share[q]
    BY <1>7, <1>11 DEF k
  <2> QED
    BY <1>5, <1>7, <1>11, <2>1, <2>2, <2>3, <2>4 DEF AdmitLeaves, k, c, d, L
<1>12. CASE request[j] # NoRecord /\ share' = Reshared(request[j], taken, T)
  <2>1. request[j] = d
    BY <1>2, <1>12
  <2>2. /\ TypeOK /\ T \in SUBSET Jobs /\ d \in Money
        /\ taken \in [Cycles -> Money \cup {NoRecord}] /\ share' = Reshared(d, taken, T)
        /\ \A o \in T : on[o] \in Cycles /\ taken[on[o]] # NoRecord
    BY <1>1, <1>2, <1>7, <1>9, <1>12, <2>1, MoneyAssumption DEF HaveShares, Money
  <2>3. /\ share' \in [Cycles -> Money \cup {NoRecord}]
        /\ \A o \in T : /\ share'[on[o]] = Allotment(d, on[o], taken, {p \in T : on[p] # on[o]})
                        /\ share'[on[o]] \in Money
                        /\ Bounded(share'[on[o]]) <=> Bounded(d)
        /\ \A q \in Cycles : (\A o \in T : on[o] # q) => share'[q] = taken[q]
    <3> DEFINE next == Reshared(d, taken, T)
    <3>1. /\ next \in [Cycles -> Money \cup {NoRecord}]
          /\ \A o \in T : /\ next[on[o]] = Allotment(d, on[o], taken, {p \in T : on[p] # on[o]})
                          /\ next[on[o]] \in Money
                          /\ Bounded(next[on[o]]) <=> Bounded(d)
          /\ \A q \in Cycles : (\A o \in T : on[o] # q) => next[q] = taken[q]
      BY <2>2, ResharedTypes
    <3>2. share' = next
      BY <2>2
    <3> HIDE DEF next
    <3> QED
      BY <3>1, <3>2
  <2>4. \A q \in Cycles : (\A o \in L \cup {j} : on[o] # q) => share'[q] = share[q]
    BY <1>7, <2>3 DEF k, T
  <2>5. ASSUME Bounded(d), NEW o \in T
        PROVE  Held(share'[on[o]], on[o]) = Held(taken[on[o]], on[o])
    <3> DEFINE U == T \ {o}
    <3>1. {p \in T : on[p] # on[o]} = U
      BY <1>9
    <3>2. /\ Beside(taken, T) = Held(taken[on[o]], on[o]) + Beside(taken, U)
          /\ Held(taken[on[o]], on[o]) \in Nat /\ Beside(taken, U) \in Nat
      BY <1>1, <1>9, BesideTakeOut
    <3>3. /\ Beside(taken, T) = Held(taken[k], k) + Beside(taken, L)
      <4>1. j \in T /\ T \ {j} = L /\ on[j] = k
        BY <1>9 DEF T, k
      <4> QED
        BY <1>1, <1>9, <4>1, BesideTakeOut
    <3>4. Beside(taken, L) = Beside(share, L)
      BY <1>1, <1>3, <1>8, BesideSame
    <3>5. Held(taken[k], k) = LeftOf(d, c, share, L) /\ d \in Nat
      BY <1>5, <1>7, <2>5
    <3>6. SpentOn(c) \in Nat /\ Beside(share, L) \in Nat
      BY <1>1, <1>3, SpentTypes, BesideTypes
    <3>7. LeftOf(d, c, taken, U) = Held(taken[on[o]], on[o])
      BY <3>2, <3>3, <3>4, <3>5, <3>6 DEF LeftOf
    <3>8. /\ U \in SUBSET Jobs /\ \A p \in U : on[p] \in Cycles /\ taken[on[p]] \in Money
          /\ on[o] \in Cycles /\ CampaignOf[on[o]] = c
      BY <1>9 DEF HaveShares
    <3>9. share'[on[o]] = Allotment(d, on[o], taken, U)
      BY <2>3, <3>1
    <3> HIDE DEF U
    <3>10. Held(share'[on[o]], on[o]) = AtLeastZero(LeftOf(d, c, taken, U))
      BY <1>1, <1>2, <2>5, <3>8, <3>9, AllotmentTypes
    <3> QED
      BY <3>2, <3>7, <3>10 DEF AtLeastZero
  <2>6. \A o \in L : Held(share'[on[o]], on[o]) = Held(share[on[o]], on[o])
    <3>1. CASE Bounded(d)
      BY <1>8, <2>5, <3>1 DEF T
    <3>2. CASE ~Bounded(d)
      BY <1>6, <2>3, <3>2 DEF T, Held
    <3> QED
      BY <3>1, <3>2
  <2>7. Bounded(d) => Held(share'[k], k) = LeftOf(d, c, share, L)
    BY <1>5, <1>7, <2>5 DEF T, k
  <2> QED
    BY <1>5, <2>3, <2>4, <2>6, <2>7 DEF AdmitLeaves, k, c, d, L, T
<1> QED
  BY <1>10, <1>11, <1>12

----------------------------------------------------------------------------
(* What a changed ceiling does to the shares of its campaign *)

(* Every live cycle of it is bounded as the ceiling is, but a run it was   *)
(* set too late for, and the only one holds no more than what is left.      *)
LimitsLeave(i) ==
    LET c == CampaignOf[change[i].cycle]
        cap == change[i].cap
    IN  /\ change[i].cycle \in Cycles /\ c \in Campaigns /\ cap \in Money
        /\ share' \in [Cycles -> Money \cup {NoRecord}]
        /\ \A o \in LiveOn(c) :
              /\ share'[on[o]] \in Money
              /\ o \notin late => (Bounded(share'[on[o]]) <=> Bounded(cap))
        /\ \A q \in Cycles : (\A o \in LiveOn(c) : on[o] # q) => share'[q] = share[q]
        /\ (\A o, p \in LiveOn(c) : o = p) /\ Bounded(cap) /\ Shared(c) =>
              \A o \in LiveOn(c) : Held(share'[on[o]], on[o]) <= AtLeastZero(cap - SpentOn(c))

LEMMA LimitsShares ==
    ASSUME AccountInv, NEW i \in Changes, ApplyLimits(i)
    PROVE  LimitsLeave(i)
<1> DEFINE k == change[i].cycle
           c == CampaignOf[k]
           cap == change[i].cap
           L == LiveOn(c)
<1>1. TypeOK /\ k \in Cycles /\ c \in Campaigns /\ cap \in Money
  <2>1. TypeOK /\ change[i] \in Change /\ k \in Cycles
    BY DEF AccountInv, TypeOK, ApplyLimits
  <2> QED
    BY <2>1, CyclesAssumption DEF Change
<1>2. /\ L \in SUBSET Jobs /\ L \subseteq Live /\ HaveShares(share, L)
      /\ \A o \in L : on[o] \in Cycles /\ share[on[o]] \in Money /\ share[on[o]] # NoRecord
      /\ \A o \in L : CampaignOf[on[o]] = c
      /\ share \in [Cycles -> Money \cup {NoRecord}]
  <2>1. /\ L \in SUBSET Jobs /\ L \subseteq Live /\ HaveShares(share, L)
        /\ \A o \in L : CampaignOf[on[o]] = c
    BY LiveOnCampaign
  <2> QED
    BY <1>1, <2>1, MoneyAssumption DEF HaveShares, Money, TypeOK
<1>3. SpentOn(c) \in Nat
  BY <1>1, SpentTypes
<1>4. \/ cap = ceiling[c] /\ share' = share
      \/ share' = Reshared(cap, share, L)
  BY DEF ApplyLimits
<1>5. \A o \in L \ late : Bounded(share[on[o]]) <=> Bounded(Ceiling(c))
  BY <1>2 DEF AccountInv, BoundInv
<1> HIDE DEF k, c, cap, L
<1>6. CASE cap = ceiling[c] /\ share' = share
  <2>1. Ceiling(c) = cap
    BY <1>1, <1>6, MoneyAssumption DEF Ceiling, Money
  <2>2. ASSUME Bounded(cap), Shared(c), NEW o \in L
        PROVE  Held(share[on[o]], on[o]) <= AtLeastZero(cap - SpentOn(c))
    <3>1. Beside(share, L) <= AtLeastZero(cap - SpentOn(c))
      BY <2>1, <2>2 DEF Shared, L
    <3>2. /\ Beside(share, L) = Held(share[on[o]], on[o]) + Beside(share, L \ {o})
          /\ Held(share[on[o]], on[o]) \in Nat /\ Beside(share, L \ {o}) \in Nat
      BY <1>1, <1>2, BesideTakeOut
    <3>3. AtLeastZero(cap - SpentOn(c)) \in Nat
      BY <1>1, <1>3, <2>2 DEF Money, Bounded, AtLeastZero
    <3> QED
      BY <3>1, <3>2, <3>3
  <2> QED
    BY <1>1, <1>2, <1>5, <1>6, <2>1, <2>2 DEF LimitsLeave, k, c, cap, L
<1>7. CASE share' = Reshared(cap, share, L)
  <2> DEFINE next == Reshared(cap, share, L)
  <2>1. /\ next \in [Cycles -> Money \cup {NoRecord}]
        /\ \A o \in L : /\ next[on[o]] = Allotment(cap, on[o], share, {p \in L : on[p] # on[o]})
                        /\ next[on[o]] \in Money
                        /\ Bounded(next[on[o]]) <=> Bounded(cap)
        /\ \A q \in Cycles : (\A o \in L : on[o] # q) => next[q] = share[q]
    BY <1>1, <1>2, ResharedTypes
  <2>2. share' = next
    BY <1>7
  <2> HIDE DEF next
  <2>3. ASSUME \A o, p \in L : o = p, Bounded(cap), NEW o \in L
        PROVE  Held(next[on[o]], on[o]) <= AtLeastZero(cap - SpentOn(c))
    <3> DEFINE U == {p \in L : on[p] # on[o]}
    <3>1. /\ U \in SUBSET Jobs /\ on[o] \in Cycles /\ CampaignOf[on[o]] = c
          /\ \A p \in U : on[p] \in Cycles /\ share[on[p]] \in Money
      BY <1>2
    <3>2. next[on[o]] = Allotment(cap, on[o], share, U)
      BY <2>1
    <3> HIDE DEF U
    <3>3. Held(next[on[o]], on[o]) = AtLeastZero(LeftOf(cap, c, share, U))
      BY <1>1, <2>3, <3>1, <3>2, AllotmentTypes
    <3>4. Beside(share, U) \in Nat
      BY <1>1, <3>1, BesideTypes
    <3>5. cap \in Nat
      BY <1>1, <2>3 DEF Money, Bounded
    <3> QED
      BY <1>3, <3>3, <3>4, <3>5 DEF LeftOf, AtLeastZero
  <2>4. share' \in [Cycles -> Money \cup {NoRecord}]
        /\ \A o \in L : share'[on[o]] \in Money /\ (Bounded(share'[on[o]]) <=> Bounded(cap))
    BY <2>1, <2>2
  <2>5. \A q \in Cycles : (\A o \in L : on[o] # q) => share'[q] = share[q]
    BY <2>1, <2>2
  <2>6. (\A o, p \in L : o = p) /\ Bounded(cap) =>
           \A o \in L : Held(share'[on[o]], on[o]) <= AtLeastZero(cap - SpentOn(c))
    BY <2>2, <2>3
  <2> QED
    BY <1>1, <2>4, <2>5, <2>6 DEF LimitsLeave, k, c, cap, L
<1> QED
  BY <1>4, <1>6, <1>7

----------------------------------------------------------------------------
(* The invariant *)

LEMMA InitInv == Init => AccountInv
<1> SUFFICES ASSUME Init PROVE AccountInv
  OBVIOUS
<1>1. Waiting = {} /\ Live = {} /\ \A i \in Changes : ~Reading(i)
  BY DEF Init, Waiting, Live, Reading, NoChange
<1>2. NoChange \in Change
  BY DEF NoChange, Change, Money
<1>3. TypeOK
  BY <1>1, <1>2 DEF Init, TypeOK
<1> QED
  BY <1>1, <1>3 DEF Init, AccountInv, AloneInv, BoundInv

LEMMA AskInv ==
    ASSUME AccountInv, NEW j \in Jobs, NEW k \in Cycles, NEW cap \in Requests, Ask(j, k, cap)
    PROVE  AccountInv'
<1>0. cap \in Money \cup {NoRecord}
  BY MoneyAssumption DEF Money
<1>1. /\ j \notin Waiting /\ j \notin Live
      /\ Waiting' = Waiting \cup {j} /\ Live' = Live
      /\ on'[j] = k /\ \A o \in Waiting \cup Live : on'[o] = on[o] /\ on[o] # k
      /\ on' \in [Jobs -> Cycles \cup {NoRecord}]
  BY DEF Ask, Waiting, Live, AccountInv, TypeOK
<1>2. phase' \in [Jobs -> {"unmade", "waiting", "composed", "live", "ended"}] /\ request' \in [Jobs -> Money \cup {NoRecord}]
  BY <1>0 DEF Ask, AccountInv, TypeOK
<1>3. TypeOK'
  BY <1>1, <1>2 DEF Ask, AccountInv, TypeOK, Reading
<1>4. AloneInv'
  BY <1>1 DEF Ask, AccountInv, AloneInv
<1>5. BoundInv'
  BY <1>1 DEF Ask, AccountInv, BoundInv, Ceiling
<1> QED
  BY <1>3, <1>4, <1>5 DEF AccountInv

(* Composing a launch names its ceiling and moves no money. *)
LEMMA ComposeInv ==
    ASSUME AccountInv, NEW j \in Jobs, Compose(j)
    PROVE  AccountInv'
<1>1. /\ Waiting' = Waiting /\ Live' = Live
      /\ UNCHANGED <<on, reserve, ceiling, share, spent, change, late>>
      /\ phase' \in [Jobs -> {"unmade", "waiting", "composed", "live", "ended"}]
  BY DEF Compose, Waiting, Live, AccountInv, TypeOK
<1>2. on[j] \in Cycles
  BY DEF Compose, Waiting, AccountInv, TypeOK
<1>3. request' \in [Jobs -> Money \cup {NoRecord}]
  <2>1. Asked(j) \in Money \cup {NoRecord}
    BY <1>2, DeclaredTypes DEF AccountInv
  <2> QED
    BY <2>1 DEF Compose, AccountInv, TypeOK
<1>4. TypeOK'
  BY <1>1, <1>3 DEF AccountInv, TypeOK, Reading
<1>5. AloneInv' /\ BoundInv'
  BY <1>1 DEF AccountInv, AloneInv, BoundInv, Ceiling
<1> QED
  BY <1>4, <1>5 DEF AccountInv

LEMMA EndedInv ==
    ASSUME AccountInv, NEW j \in Jobs, Ended(j), UNCHANGED <<ceiling, share, spent, change, late>>
    PROVE  AccountInv'
<1>1. /\ Waiting' = Waiting \ {j} /\ Live' = Live \ {j}
      /\ \A o \in Waiting' \cup Live' : on'[o] = on[o]
  BY DEF Ended, Waiting, Live, AccountInv, TypeOK
<1>2. /\ phase' \in [Jobs -> {"unmade", "waiting", "composed", "live", "ended"}]
      /\ request' \in [Jobs -> Money \cup {NoRecord}]
      /\ on' \in [Jobs -> Cycles \cup {NoRecord}]
      /\ reserve' \in [Jobs -> Nat]
  BY DEF Ended, AccountInv, TypeOK
<1>3. TypeOK'
  BY <1>1, <1>2 DEF AccountInv, TypeOK, Reading
<1>4. AloneInv' /\ BoundInv'
  BY <1>1 DEF AccountInv, AloneInv, BoundInv, Ceiling
<1> QED
  BY <1>3, <1>4 DEF AccountInv

LEMMA BillInv ==
    ASSUME AccountInv, NEW j \in Jobs, Bill(j)
    PROVE  AccountInv'
<1>1. /\ j \in Live /\ on[j] \in Cycles /\ share[on[j]] # NoRecord
      /\ spent' \in [Cycles -> Nat] /\ \A q \in Cycles \ {on[j]} : spent'[q] = spent[q]
      /\ UNCHANGED <<phase, on, request, reserve, ceiling, share, change, late>>
  BY DEF Bill, Live, AccountInv, TypeOK
<1>2. TypeOK'
  BY <1>1 DEF AccountInv, TypeOK, Waiting, Live, Reading
<1>3. AloneInv' /\ BoundInv'
  BY <1>1 DEF AccountInv, AloneInv, BoundInv, Ceiling, Waiting, Live
<1> QED
  BY <1>2, <1>3 DEF AccountInv

LEMMA ReadLimitsInv ==
    ASSUME AccountInv, NEW i \in Changes, NEW k \in Cycles, NEW cap \in Caps, ReadLimits(i, k, cap)
    PROVE  AccountInv'
<1> DEFINE room == Headroom(OwnJob(k), CampaignOf[k])
           taken == Clamped(cap, room)
           made == [step |-> "read", cycle |-> k, cap |-> taken,
                    reserve |-> ReserveOf(taken, room), room |-> room]
<1>1. change' = [change EXCEPT ![i] = made]
      /\ UNCHANGED <<phase, on, request, reserve, ceiling, share, spent, late>>
  BY DEF ReadLimits
<1>2. room \in Nat
  BY HeadroomTypes DEF AccountInv
<1> HIDE DEF room
<1>3. taken \in Money
  BY <1>2, MoneyAssumption DEF Clamped, Money, Bounded, Lower
<1> HIDE DEF taken
<1>4. made \in Change /\ made.cycle = k
  BY <1>2, <1>3, ReserveTypes DEF Change
<1> HIDE DEF made
<1>5. TypeOK'
  BY <1>1, <1>4 DEF AccountInv, TypeOK, Waiting, Live, Reading
<1>6. AloneInv' /\ BoundInv'
  BY <1>1 DEF AccountInv, AloneInv, BoundInv, Ceiling, Waiting, Live
<1> QED
  BY <1>5, <1>6 DEF AccountInv

LEMMA AdmitInv ==
    ASSUME AccountInv, NEW j \in Jobs, Admit(j)
    PROVE  AccountInv'
<1> DEFINE k == on[j]
           c == CampaignOf[k]
           d == Declared(j)
           T == LiveOn(c) \cup {j}
           After(b) == IF ceiling'[b] = NoRecord THEN Config[b] ELSE ceiling'[b]
<1>1. /\ TypeOK /\ j \in Waiting /\ j \notin Live /\ k \in Cycles /\ c \in Campaigns
      /\ Waiting' = Waiting \ {j} /\ Live' = Live \cup {j}
      /\ UNCHANGED <<on, spent, change>>
      /\ d \in Money /\ request[j] \in Money \cup {NoRecord}
  <2>1. j \in Waiting /\ j \notin Live /\ Waiting' = Waiting \ {j} /\ Live' = Live \cup {j}
        /\ UNCHANGED <<on, spent, change>> /\ TypeOK
    BY DEF Admit, Waiting, Live, AccountInv, TypeOK
  <2> QED
    BY <2>1, DeclaredTypes DEF TypeOK
<1>2. AdmitLeaves(j)
  BY AdmitShares
<1>3. /\ share' \in [Cycles -> Money \cup {NoRecord}]
      /\ \A o \in T : share'[on[o]] \in Money /\ (Bounded(share'[on[o]]) <=> Bounded(d))
      /\ \A q \in Cycles : (\A o \in T : on[o] # q) => share'[q] = share[q]
  BY <1>2 DEF AdmitLeaves
<1>4. /\ ceiling' = [ceiling EXCEPT ![c] = IF request[j] \in {NoRecord, ceiling[c]}
                                              THEN ceiling[c] ELSE request[j]]
      /\ late' = IF Overtaken(j) THEN late \cup {j} ELSE late
      /\ reserve' = [reserve EXCEPT ![j] = ReserveOf(d, Headroom(j, c))]
      /\ phase' = [phase EXCEPT ![j] = "live"]
      /\ request' = [request EXCEPT ![j] = NoRecord]
  BY DEF Admit
<1>5. /\ Overtaken(j) => After(c) = Ceiling(c)
      /\ ~Overtaken(j) => After(c) = d
      /\ \A b \in Campaigns \ {c} : After(b) = Ceiling(b)
  BY <1>1, <1>4 DEF TypeOK, Ceiling, Declared, Overtaken
<1>6. \A q \in Cycles : share'[q] = share[q] \/ share'[q] \in Money
  BY <1>3
<1>7. NoRecord \notin Money
  BY MoneyAssumption DEF Money
<1>8. ReserveOf(d, Headroom(j, c)) \in Nat
  BY <1>1, HeadroomTypes, ReserveTypes
<1>9. \A o \in Live \ LiveOn(c) : share'[on[o]] = share[on[o]] /\ CampaignOf[on[o]] # c
  BY <1>1, <1>3 DEF LiveOn, AccountInv, AloneInv, TypeOK
<1> HIDE DEF d, T, After
<1>10. TypeOK'
  <2>1. /\ phase' \in [Jobs -> {"unmade", "waiting", "composed", "live", "ended"}]
        /\ request' \in [Jobs -> Money \cup {NoRecord}]
        /\ reserve' \in [Jobs -> Nat]
        /\ ceiling' \in [Campaigns -> Money \cup {NoRecord}]
        /\ late' \subseteq Jobs
    BY <1>1, <1>4, <1>8 DEF TypeOK
  <2>2. \A o \in Live' : share'[on'[o]] # NoRecord
    BY <1>1, <1>3, <1>7, <1>9 DEF TypeOK, T
  <2>3. \A o \in (Waiting \cup Live)' : on'[o] \in Cycles
    BY <1>1 DEF TypeOK
  <2> QED
    BY <1>1, <1>3, <2>1, <2>2, <2>3 DEF TypeOK, Reading
<1>11. AloneInv'
  BY <1>1, <1>6, <1>7 DEF AccountInv, AloneInv, TypeOK
<1>12. \A o \in LiveOn(c) : Bounded(share[on[o]]) <=> Bounded(d)
  BY DEF Admit, AdmitsOnCeiling, Shareable, d
<1>13. BoundInv'
  <2> SUFFICES ASSUME NEW o \in Live' \ late'
               PROVE  Bounded(share'[on[o]]) <=> Bounded(After(CampaignOf[on[o]]))
    BY <1>1 DEF BoundInv, Ceiling, After
  <2>0. o \notin late /\ (Overtaken(j) => o # j)
    BY <1>4
  <2>1. CASE o \in T
    <3>1. (Bounded(share'[on[o]]) <=> Bounded(d)) /\ CampaignOf[on[o]] = c
      BY <1>3, <2>1 DEF T, LiveOn
    <3>2. CASE Overtaken(j)
      <4>1. o \in LiveOn(c) /\ o \in Live
        BY <2>0, <2>1, <3>2 DEF T, LiveOn
      <4>2. Bounded(share[on[o]]) <=> Bounded(Ceiling(c))
        BY <2>0, <3>1, <4>1 DEF AccountInv, BoundInv
      <4> QED
        BY <1>5, <1>12, <3>1, <3>2, <4>1, <4>2
    <3>3. CASE ~Overtaken(j)
      BY <1>5, <3>1, <3>3
    <3> QED
      BY <3>2, <3>3
  <2>2. CASE o \notin T
    <3>1. o \in Live \ LiveOn(c) /\ CampaignOf[on[o]] \in Campaigns \ {c}
      BY <1>1, <1>9, <2>2, CyclesAssumption DEF T, TypeOK
    <3> QED
      BY <1>5, <1>9, <2>0, <3>1 DEF AccountInv, BoundInv
  <2> QED
    BY <2>1, <2>2
<1> QED
  BY <1>10, <1>11, <1>13 DEF AccountInv

LEMMA ApplyLimitsInv ==
    ASSUME AccountInv, NEW i \in Changes, ApplyLimits(i)
    PROVE  AccountInv'
<1> DEFINE k == change[i].cycle
           c == CampaignOf[k]
           cap == change[i].cap
           After(b) == IF ceiling'[b] = NoRecord THEN Config[b] ELSE ceiling'[b]
<1>1. LimitsLeave(i)
  BY LimitsShares
<1>2. /\ k \in Cycles /\ c \in Campaigns /\ cap \in Money
      /\ share' \in [Cycles -> Money \cup {NoRecord}]
      /\ \A o \in LiveOn(c) : share'[on[o]] \in Money
      /\ \A o \in LiveOn(c) \ late : Bounded(share'[on[o]]) <=> Bounded(cap)
      /\ \A q \in Cycles : (\A o \in LiveOn(c) : on[o] # q) => share'[q] = share[q]
  BY <1>1 DEF LimitsLeave
<1>3. /\ reserve' = [j \in Jobs |-> IF j \in RunOn(k) THEN change[i].reserve ELSE reserve[j]]
      /\ ceiling' = [ceiling EXCEPT ![c] = cap]
      /\ change' = [change EXCEPT ![i] = Written]
      /\ UNCHANGED <<phase, on, request, spent, late>>
  BY DEF ApplyLimits
<1>4. Waiting' = Waiting /\ Live' = Live /\ change[i] \in Change /\ Written \in Change
  <2>1. Written \in Change
    BY DEF Written, NoChange, Change, Money
  <2> QED
    BY <1>3, <2>1 DEF Waiting, Live, AccountInv, TypeOK
<1>5. NoRecord \notin Money
  BY MoneyAssumption DEF Money
<1>6. After(c) = cap /\ \A b \in Campaigns \ {c} : After(b) = Ceiling(b)
  BY <1>2, <1>3, <1>5 DEF AccountInv, TypeOK, Ceiling
<1>7. \A q \in Cycles : share'[q] = share[q] \/ share'[q] \in Money
  BY <1>2
<1>8. \A o \in Live \ LiveOn(c) : share'[on[o]] = share[on[o]] /\ CampaignOf[on[o]] # c
  BY <1>2 DEF LiveOn, AccountInv, TypeOK
<1> HIDE DEF c, cap, After
<1>9. TypeOK'
  <2>1. ceiling' \in [Campaigns -> Money \cup {NoRecord}] /\ change' \in [Changes -> Change]
    BY <1>2, <1>3, <1>4 DEF AccountInv, TypeOK
  <2>2. reserve' \in [Jobs -> Nat]
    BY <1>3, <1>4 DEF AccountInv, TypeOK, Change
  <2>3. \A n \in Changes : Reading(n)' => change'[n].cycle \in Cycles
    BY <1>3 DEF AccountInv, TypeOK, Reading, Written, NoChange
  <2>4. \A o \in Live' : share'[on'[o]] # NoRecord
    BY <1>2, <1>3, <1>4, <1>5, <1>7 DEF AccountInv, TypeOK
  <2> QED
    BY <1>2, <1>3, <1>4, <2>1, <2>2, <2>3, <2>4 DEF AccountInv, TypeOK
<1>10. AloneInv'
  BY <1>3, <1>4, <1>5, <1>7 DEF AccountInv, AloneInv, TypeOK
<1>11. BoundInv'
  <2> SUFFICES ASSUME NEW o \in Live \ late
               PROVE  Bounded(share'[on[o]]) <=> Bounded(After(CampaignOf[on[o]]))
    BY <1>3, <1>4 DEF BoundInv, Ceiling, After
  <2>1. CASE o \in LiveOn(c)
    BY <1>2, <1>6, <2>1 DEF LiveOn
  <2>2. CASE o \notin LiveOn(c)
    <3>1. CampaignOf[on[o]] \in Campaigns \ {c}
      BY <1>8, <2>2, CyclesAssumption DEF AccountInv, TypeOK
    <3> QED
      BY <1>6, <1>8, <2>2, <3>1 DEF AccountInv, BoundInv
  <2> QED
    BY <2>1, <2>2
<1> QED
  BY <1>9, <1>10, <1>11 DEF AccountInv

(* A fork keeps its run in the campaign, and takes what its parent left. *)
LEMMA ForkLeaves ==
    ASSUME AccountInv, NEW j \in Jobs, NEW k \in Cycles, Fork(j, k)
    PROVE  /\ j \in Live /\ on[j] \in Cycles /\ CampaignOf[k] = CampaignOf[on[j]]
           /\ Parent[k] # NoRecord /\ spent[k] = 0 /\ on[j] # k
           /\ on'[j] = k /\ \A o \in Jobs \ {j} : on'[o] = on[o]
           /\ on' \in [Jobs -> Cycles \cup {NoRecord}]
           /\ share' \in [Cycles -> Money \cup {NoRecord}] /\ share'[k] \in Money
           /\ \A q \in Cycles \ {k} : share'[q] = share[q]
           /\ Bounded(share'[k]) <=> Bounded(share[on[j]])
           /\ Held(share'[k], k) = Held(share[on[j]], on[j])
           /\ \A o \in Waiting \cup Live : on[o] # k
<1>1. /\ j \in Live /\ on[j] \in Cycles /\ share[on[j]] \in Money
      /\ Parent[k] = on[j] /\ share[k] = NoRecord /\ spent[k] = 0 /\ spent[on[j]] \in Nat
      /\ share' = [share EXCEPT ![k] = Remainder(on[j])]
      /\ on' = [on EXCEPT ![j] = k]
      /\ NoRecord \notin Cycles
  BY CyclesAssumption DEF Fork, Live, AccountInv, TypeOK, AloneInv
<1>2. \A o \in Waiting \cup Live : on[o] # k
  BY <1>1 DEF Fork, AccountInv, TypeOK, AloneInv
<1>3. CASE share[on[j]] = NoCap
  <2>1. Remainder(on[j]) = NoCap
    BY <1>3 DEF Remainder, Bounded
  <2> QED
    BY <1>1, <1>2, <1>3, <2>1, CyclesAssumption DEF AccountInv, TypeOK, Money, Bounded, Held
<1>4. CASE share[on[j]] # NoCap
  <2>1. PICK n \in Nat : n = AtLeastZero(share[on[j]] - spent[on[j]])
    BY <1>1, <1>4 DEF Money, AtLeastZero
  <2>2. Remainder(on[j]) = n /\ n # NoCap /\ n \in Money
    BY <1>4, <2>1, MoneyAssumption DEF Remainder, Bounded, Money
  <2>3. Held(share[on[j]], on[j]) = n /\ Held(n, k) = n
    BY <1>1, <1>4, <2>1, <2>2 DEF Held, Bounded, AtLeastZero
  <2> QED
    BY <1>1, <1>2, <1>4, <2>2, <2>3, CyclesAssumption DEF AccountInv, TypeOK, Bounded
<1> QED
  BY <1>3, <1>4

LEMMA ForkInv ==
    ASSUME AccountInv, NEW j \in Jobs, NEW k \in Cycles, Fork(j, k)
    PROVE  AccountInv'
<1>1. /\ j \in Live /\ on[j] \in Cycles /\ CampaignOf[k] = CampaignOf[on[j]]
      /\ on'[j] = k /\ \A o \in Jobs \ {j} : on'[o] = on[o]
      /\ on' \in [Jobs -> Cycles \cup {NoRecord}]
      /\ share' \in [Cycles -> Money \cup {NoRecord}] /\ share'[k] \in Money
      /\ \A q \in Cycles \ {k} : share'[q] = share[q]
      /\ Bounded(share'[k]) <=> Bounded(share[on[j]])
      /\ \A o \in Waiting \cup Live : on[o] # k
  BY ForkLeaves
<1>2. UNCHANGED <<phase, request, reserve, ceiling, spent, change, late>>
      /\ Waiting' = Waiting /\ Live' = Live /\ j \notin Waiting /\ NoRecord \notin Money
  BY <1>1, MoneyAssumption DEF Fork, Waiting, Live, Money
<1>3. \A o \in (Waiting \cup Live) \ {j} : on'[o] = on[o] /\ share'[on[o]] = share[on[o]]
  BY <1>1 DEF AccountInv, TypeOK, Waiting, Live
<1>4. TypeOK'
  BY <1>1, <1>2, <1>3 DEF AccountInv, TypeOK, Reading
<1>5. AloneInv'
  BY <1>1, <1>2, <1>3 DEF AccountInv, AloneInv, TypeOK
<1>6. BoundInv'
  BY <1>1, <1>2, <1>3 DEF AccountInv, BoundInv, Ceiling
<1> QED
  BY <1>4, <1>5, <1>6 DEF AccountInv

LEMMA StepInv == AccountInv /\ [Next]_vars => AccountInv'
<1> SUFFICES ASSUME AccountInv, [Next]_vars PROVE AccountInv'
  OBVIOUS
<1>1. ASSUME NEW j \in Jobs, NEW k \in Cycles, NEW cap \in Requests, Ask(j, k, cap) PROVE AccountInv'
  BY <1>1, AskInv
<1>9. ASSUME NEW j \in Jobs, Compose(j) PROVE AccountInv'
  BY <1>9, ComposeInv
<1>2. ASSUME NEW j \in Jobs, Admit(j) PROVE AccountInv'
  BY <1>2, AdmitInv
<1>3. ASSUME NEW j \in Jobs, Refuse(j) \/ End(j) PROVE AccountInv'
  BY <1>3, EndedInv DEF Refuse, End
<1>4. ASSUME NEW j \in Jobs, Bill(j) PROVE AccountInv'
  BY <1>4, BillInv
<1>5. ASSUME NEW j \in Jobs, NEW k \in Cycles, Fork(j, k) PROVE AccountInv'
  BY <1>5, ForkInv
<1>6. ASSUME NEW i \in Changes, NEW k \in Cycles, NEW cap \in Caps, ReadLimits(i, k, cap) PROVE AccountInv'
  BY <1>6, ReadLimitsInv
<1>7. ASSUME NEW i \in Changes, ApplyLimits(i) PROVE AccountInv'
  BY <1>7, ApplyLimitsInv
<1>8. CASE UNCHANGED vars
  BY <1>8 DEF vars, AccountInv, TypeOK, AloneInv, BoundInv, Waiting, Live, Reading, Ceiling
<1> QED
  BY <1>1, <1>2, <1>3, <1>4, <1>5, <1>6, <1>7, <1>8, <1>9 DEF Next

(* Jobs, records and open changes stay well formed, no two runs spend on   *)
(* one cycle, and a campaign's ceiling binds each of its live cycles or     *)
(* none, but a run it was set too late for.                                 *)
THEOREM AccountInvariant == Spec => []AccountInv
<1>1. Init => AccountInv
  BY InitInv
<1>2. AccountInv /\ [Next]_vars => AccountInv'
  BY StepInv
<1> QED
  BY <1>1, <1>2, PTL DEF Spec

(* No share and no reserve is ever negative, however short a moved ceiling *)
(* leaves it, and every live cycle has a share.                             *)
THEOREM AccountTypeCorrect == Spec => []TypeOK
<1>1. AccountInv => TypeOK
  BY DEF AccountInv
<1> QED
  BY <1>1, AccountInvariant, PTL

----------------------------------------------------------------------------
(* The ceiling a campaign's live cycles share *)

LiveHolds == \A o \in Live : Held(share[on[o]], on[o]) \in Nat

LEMMA LiveHeld == AccountInv => LiveHolds
<1> SUFFICES ASSUME AccountInv PROVE LiveHolds
  OBVIOUS
<1>1. \A o \in Live : on[o] \in Cycles /\ share[on[o]] \in Money
  BY LiveOnCampaign DEF HaveShares
<1> QED
  BY <1>1, BesideTypes, LiveOnCampaign DEF AccountInv, LiveHolds

LEMMA LiveHeldNext == AccountInv' => LiveHolds'
BY LiveHeld, PTL

AmountsOK == (\A c : SpentOn(c) \in Nat) /\ (\A c \in Campaigns : Ceiling(c) \in Money) /\ Left \in Nat

LEMMA Amounts == AccountInv => AmountsOK
<1> SUFFICES ASSUME AccountInv PROVE AmountsOK
  OBVIOUS
<1>1. \A c \in Campaigns : Ceiling(c) \in Money
  BY MoneyAssumption DEF AccountInv, TypeOK, Ceiling, Money
<1> QED
  BY <1>1, SpentTypes DEF AccountInv, AmountsOK

LEMMA AmountsNext == AccountInv' => AmountsOK'
BY Amounts, PTL

(* Fewer live cycles, each holding no more than it did. *)
LEMMA HeldFewer ==
    ASSUME AccountInv, AccountInv', NEW c, LiveOn(c)' \subseteq LiveOn(c),
           \A o \in LiveOn(c)' : Held(share[on[o]], on[o])' <= Held(share[on[o]], on[o])
    PROVE  /\ Beside(share, LiveOn(c))' <= Beside(share, LiveOn(c))
           /\ Beside(share, LiveOn(c))' \in Nat /\ Beside(share, LiveOn(c)) \in Nat
<1> DEFINE T == LiveOn(c)  S == LiveOn(c)'
           f == HeldBy(share, LiveOn(c))  g == HeldBy(share, LiveOn(c))'
<1>1. T \in SUBSET Jobs /\ S \in SUBSET T /\ T \subseteq Live /\ S \subseteq Live'
  BY LiveOnCampaign DEF LiveOn
<1>2. \A o \in T : f[o] = Held(share[on[o]], on[o]) /\ f[o] \in Nat
  BY <1>1, LiveHeld DEF HeldBy, LiveHolds
<1>3. \A o \in S : g[o] = Held(share[on[o]], on[o])'
  BY DEF HeldBy
<1>4. \A o \in S : Held(share[on[o]], on[o])' \in Nat
  BY <1>1, LiveHeldNext DEF LiveHolds
<1>5. IsFiniteSet(T) /\ IsFiniteSet(S)
  BY <1>1, JobsFinite
<1>6. \A o \in S : Held(share[on[o]], on[o])' <= Held(share[on[o]], on[o])
  OBVIOUS
<1>7. Beside(share, LiveOn(c)) = SumFunctionOnSet(f, T) /\ Beside(share, LiveOn(c))' = SumFunctionOnSet(g, S)
  BY DEF Beside
<1> HIDE DEF T, S, f, g
<1>8. \A o \in S : g[o] \in Int /\ f[o] \in Int /\ g[o] <= f[o]
  BY <1>1, <1>2, <1>3, <1>4, <1>6
<1>9. SumFunctionOnSet(g, S) <= SumFunctionOnSet(f, S)
  BY <1>5, <1>8, SumAtMost
<1>10. SumFunctionOnSet(f, S) <= SumFunctionOnSet(f, T)
  BY <1>1, <1>2, <1>5, SumOfPart
<1>11. /\ SumFunctionOnSet(g, S) \in Nat /\ SumFunctionOnSet(f, S) \in Nat
       /\ SumFunctionOnSet(f, T) \in Nat
  BY <1>1, <1>2, <1>3, <1>4, <1>5, SumNat
<1> QED
  BY <1>7, <1>9, <1>10, <1>11

(* Nothing moved for the campaign but, perhaps, that its live cycles hold   *)
(* less.                                                                    *)
LEMMA SharedKept ==
    ASSUME AccountInv, AccountInv', NEW c \in Campaigns, Shared(c),
           Ceiling(c)' = Ceiling(c), SpentOn(c)' = SpentOn(c), LiveOn(c)' \subseteq LiveOn(c),
           \A o \in LiveOn(c)' : Held(share[on[o]], on[o])' <= Held(share[on[o]], on[o])
    PROVE  Shared(c)'
<1> DEFINE b == Beside(share, LiveOn(c))  n == Beside(share, LiveOn(c))'
           left == AtLeastZero(Ceiling(c) - SpentOn(c))
<1>1. n <= b /\ n \in Nat /\ b \in Nat
  BY HeldFewer
<1>2. Bounded(Ceiling(c)) => left \in Nat
  BY Amounts DEF AmountsOK, Money, Bounded, AtLeastZero
<1>3. Bounded(Ceiling(c)) => b <= left
  BY DEF Shared
<1>4. Shared(c)' <=> (Bounded(Ceiling(c)) => n <= left)
  BY DEF Shared, Bounded, AtLeastZero
<1> HIDE DEF b, n, left
<1> QED
  BY <1>1, <1>2, <1>3, <1>4

(* A bill is one unit more for its cycle, its campaign and the account. *)
LEMMA BillSpends ==
    ASSUME AccountInv, NEW j \in Jobs, Bill(j)
    PROVE  /\ j \in Live /\ on[j] \in Cycles /\ share[on[j]] \in Money /\ spent[on[j]] \in Nat
           /\ spent'[on[j]] = spent[on[j]] + 1
           /\ \A q \in Cycles \ {on[j]} : spent'[q] = spent[q]
           /\ UNCHANGED <<phase, on, request, reserve, ceiling, share, change, late>>
           /\ SpentOn(CampaignOf[on[j]])' = SpentOn(CampaignOf[on[j]]) + 1
           /\ \A c : c # CampaignOf[on[j]] => SpentOn(c)' = SpentOn(c)
           /\ SumFunctionOnSet(spent', Cycles) = SumFunctionOnSet(spent, Cycles) + 1
<1> DEFINE k == on[j]
<1>1. /\ j \in Live /\ k \in Cycles /\ share[k] \in Money
      /\ spent' = [spent EXCEPT ![k] = @ + 1]
      /\ UNCHANGED <<phase, on, request, reserve, ceiling, share, change, late>>
  BY LiveOnCampaign DEF Bill, Live, HaveShares
<1>2. spent \in [Cycles -> Nat]
  BY DEF AccountInv, TypeOK
<1>3. /\ spent'[k] = spent[k] + 1 /\ spent[k] \in Nat
      /\ \A q \in Cycles \ {k} : spent'[q] = spent[q]
      /\ \A q \in Cycles : spent[q] \in Int /\ spent'[q] \in Int
  BY <1>1, <1>2
<1>4. ASSUME NEW S \in SUBSET Cycles
      PROVE  SumFunctionOnSet(spent', S) =
                IF k \in S THEN SumFunctionOnSet(spent, S) + 1 ELSE SumFunctionOnSet(spent, S)
  <2>1. IsFiniteSet(S) /\ \A q \in S : spent[q] \in Int /\ spent'[q] \in Int
    BY <1>3, CyclesFinite
  <2>2. CASE k \in S
    <3>1. \A q \in S \ {k} : spent[q] = spent'[q]
      BY <1>3
    <3>2. SumFunctionOnSet(spent', S) = SumFunctionOnSet(spent, S) + spent'[k] - spent[k]
      BY <2>1, <2>2, <3>1, SumChange
    <3>3. SumFunctionOnSet(spent, S) \in Nat
      <4>1. \A q \in S : spent[q] \in Nat
        BY <1>2
      <4> QED
        BY <2>1, <4>1, SumNat
    <3> QED
      BY <1>3, <2>2, <3>2, <3>3
  <2>3. CASE k \notin S
    <3>1. \A q \in S : spent[q] \in Int /\ spent[q] = spent'[q]
      BY <1>3, <2>3
    <3> QED
      BY <2>1, <2>3, <3>1, SumSame
  <2> QED
    BY <2>2, <2>3
<1>5. SumFunctionOnSet(spent', Cycles) = SumFunctionOnSet(spent, Cycles) + 1
  BY <1>1, <1>4
<1>6. ASSUME NEW c
      PROVE  SpentOn(c)' = IF CampaignOf[k] = c THEN SpentOn(c) + 1 ELSE SpentOn(c)
  <2> DEFINE S == {q \in Cycles : CampaignOf[q] = c}
  <2>1. S \in SUBSET Cycles /\ (k \in S <=> CampaignOf[k] = c)
    BY <1>1
  <2>2. SpentOn(c)' = SumFunctionOnSet(spent', S) /\ SpentOn(c) = SumFunctionOnSet(spent, S)
    BY DEF SpentOn
  <2> HIDE DEF S
  <2> QED
    BY <1>4, <2>1, <2>2
<1>7. SumFunctionOnSet(spent', {q \in Cycles : CampaignOf[q] = CampaignOf[k]}) =
        SumFunctionOnSet(spent, {q \in Cycles : CampaignOf[q] = CampaignOf[k]}) + 1
  BY <1>1, <1>4
<1>8. SpentOn(CampaignOf[on[j]])' = SpentOn(CampaignOf[on[j]]) + 1
  BY <1>1, <1>7 DEF SpentOn
<1>9. \A c : c # CampaignOf[k] => SpentOn(c)' = SpentOn(c)
  BY <1>6
<1> QED
  BY <1>1, <1>3, <1>5, <1>8, <1>9

(* It comes off what the run holds of its share, and off no other's. *)
LEMMA BillHeld ==
    ASSUME AccountInv, NEW j \in Jobs, Bill(j)
    PROVE  /\ Bounded(share[on[j]]) =>
                 /\ Held(share[on[j]], on[j]) >= 1
                 /\ Held(share[on[j]], on[j])' = Held(share[on[j]], on[j]) - 1
           /\ ~Bounded(share[on[j]]) => Held(share[on[j]], on[j])' = Held(share[on[j]], on[j])
           /\ \A o \in Live \ {j} : Held(share[on[o]], on[o])' = Held(share[on[o]], on[o])
<1>1. /\ j \in Live /\ on[j] \in Cycles /\ share[on[j]] \in Money /\ spent[on[j]] \in Nat
      /\ spent'[on[j]] = spent[on[j]] + 1
      /\ \A q \in Cycles \ {on[j]} : spent'[q] = spent[q]
      /\ on' = on /\ share' = share
  BY BillSpends
<1>2. \A o \in Live \ {j} : on[o] \in Cycles \ {on[j]}
  BY <1>1, LiveOnCampaign DEF HaveShares
<1>3. Bounded(share[on[j]]) => share[on[j]] \in Nat /\ spent[on[j]] < share[on[j]]
  BY <1>1 DEF Bill, Money, Bounded
<1> QED
  BY <1>1, <1>2, <1>3 DEF Held, Bounded, AtLeastZero

LEMMA BillShares ==
    ASSUME AccountInv, AccountInv', NEW j \in Jobs, Bill(j), NEW c \in Campaigns, Shared(c),
           ~HasOvertaken(c)'
    PROVE  Shared(c)'
<1>1. /\ j \in Live /\ share[on[j]] \in Money
      /\ UNCHANGED <<phase, on, request, reserve, ceiling, share, change, late>>
      /\ SpentOn(CampaignOf[on[j]])' = SpentOn(CampaignOf[on[j]]) + 1
      /\ \A b : b # CampaignOf[on[j]] => SpentOn(b)' = SpentOn(b)
  BY BillSpends
<1>2. LiveOn(c)' = LiveOn(c) /\ Ceiling(c)' = Ceiling(c)
  BY <1>1 DEF LiveOn, Live, Ceiling
<1>3. \A o \in Live \ {j} : Held(share[on[o]], on[o])' = Held(share[on[o]], on[o])
  BY BillHeld
<1>4. CASE c # CampaignOf[on[j]]
  <2>1. \A o \in LiveOn(c)' : Held(share[on[o]], on[o])' <= Held(share[on[o]], on[o])
    BY <1>2, <1>3, <1>4, LiveHeld DEF LiveOn, LiveHolds
  <2> QED
    BY <1>1, <1>2, <1>4, <2>1, SharedKept
<1>5. CASE c = CampaignOf[on[j]] /\ ~Bounded(Ceiling(c))
  BY <1>2, <1>5 DEF Shared
<1>6. CASE c = CampaignOf[on[j]] /\ Bounded(Ceiling(c))
  <2> DEFINE T == LiveOn(c)  f == HeldBy(share, LiveOn(c))  g == HeldBy(share, LiveOn(c))'
             b == Beside(share, LiveOn(c))  n == Beside(share, LiveOn(c))'
  <2>1. /\ T \in SUBSET Jobs /\ T \subseteq Live /\ IsFiniteSet(T) /\ j \in T
    BY <1>1, <1>6, LiveOnCampaign, JobsFinite DEF LiveOn
  <2>2. Bounded(share[on[j]])
    <3>1. j \notin late
      BY <1>1, <1>2, <2>1 DEF HasOvertaken
    <3> QED
      BY <1>1, <1>6, <3>1 DEF AccountInv, BoundInv
  <2>3. \A o \in T : f[o] = Held(share[on[o]], on[o]) /\ f[o] \in Nat
    BY <2>1, LiveHeld DEF HeldBy, LiveHolds
  <2>4. \A o \in T : g[o] = Held(share[on[o]], on[o])'
    BY <1>2 DEF HeldBy
  <2>5. f[j] >= 1 /\ g[j] = f[j] - 1
    BY <2>1, <2>2, <2>3, <2>4, BillHeld
  <2>6. \A o \in T \ {j} : f[o] = g[o]
    BY <1>3, <2>1, <2>3, <2>4
  <2>7. n = SumFunctionOnSet(g, T) /\ b = SumFunctionOnSet(f, T)
    BY <1>2 DEF Beside
  <2>8. SpentOn(c)' = SpentOn(c) + 1 /\ SpentOn(c) \in Nat /\ Ceiling(c) \in Nat
    BY <1>1, <1>6, Amounts DEF AmountsOK, Money, Bounded
  <2>9. b <= AtLeastZero(Ceiling(c) - SpentOn(c))
    BY <1>6 DEF Shared
  <2>10. Shared(c)' <=> n <= AtLeastZero(Ceiling(c) - (SpentOn(c) + 1))
    BY <1>2, <1>6, <2>8 DEF Shared
  <2> HIDE DEF T, f, g, b, n
  <2>11. \A o \in T : f[o] \in Int /\ g[o] \in Int
    BY <2>3, <2>5, <2>6
  <2>12. n = b + g[j] - f[j]
    BY <2>1, <2>6, <2>7, <2>11, SumChange
  <2>13. b \in Nat /\ b >= f[j] /\ f[j] \in Nat
    <3>1. b = f[j] + SumFunctionOnSet(f, T \ {j})
      BY <2>1, <2>7, <2>11, SumTakeOut
    <3>2. IsFiniteSet(T \ {j}) /\ \A o \in T \ {j} : f[o] \in Nat
      BY <2>1, <2>3, JobsFinite
    <3>3. SumFunctionOnSet(f, T \ {j}) \in Nat
      BY <3>2, SumNat
    <3> QED
      BY <2>1, <2>3, <3>1, <3>3
  <2> QED
    BY <2>5, <2>8, <2>9, <2>10, <2>12, <2>13 DEF AtLeastZero
<1> QED
  BY <1>4, <1>5, <1>6

(* No ceiling, share or spend moved, and no run became live. *)
LEMMA QuietShares ==
    ASSUME AccountInv, AccountInv', NEW c \in Campaigns, Shared(c),
           UNCHANGED <<ceiling, share, spent>>, Live' \subseteq Live,
           \A o \in Live' : on'[o] = on[o]
    PROVE  Shared(c)'
<1>1. /\ Ceiling(c)' = Ceiling(c) /\ SpentOn(c)' = SpentOn(c)
      /\ LiveOn(c)' \subseteq LiveOn(c) /\ LiveOn(c)' \subseteq Live'
  BY DEF Ceiling, SpentOn, LiveOn
<1>2. \A o \in LiveOn(c)' : /\ Held(share[on[o]], on[o])' = Held(share[on[o]], on[o])
                            /\ Held(share[on[o]], on[o])' \in Nat
  BY <1>1, LiveHeldNext DEF Held, LiveHolds
<1>3. \A o \in LiveOn(c)' : Held(share[on[o]], on[o])' <= Held(share[on[o]], on[o])
  BY <1>2
<1> QED
  BY <1>1, <1>3, SharedKept

(* A fork holds what its parent held, in the same campaign. *)
LEMMA ForkShares ==
    ASSUME AccountInv, AccountInv', NEW j \in Jobs, NEW k \in Cycles, Fork(j, k),
           NEW c \in Campaigns, Shared(c)
    PROVE  Shared(c)'
<1>1. /\ j \in Live /\ on[j] \in Cycles /\ CampaignOf[k] = CampaignOf[on[j]]
      /\ on'[j] = k /\ \A o \in Jobs \ {j} : on'[o] = on[o]
      /\ \A q \in Cycles \ {k} : share'[q] = share[q]
      /\ Held(share'[k], k) = Held(share[on[j]], on[j])
      /\ \A o \in Waiting \cup Live : on[o] # k
  BY ForkLeaves
<1>2. UNCHANGED <<phase, ceiling, spent>> /\ Live' = Live /\ Live \subseteq Jobs
      /\ \A o \in Live : on[o] \in Cycles
  BY LiveOnCampaign DEF Fork, Live, HaveShares
<1>3. Ceiling(c)' = Ceiling(c) /\ SpentOn(c)' = SpentOn(c) /\ LiveOn(c)' = LiveOn(c)
  <2>1. \A o \in Live : CampaignOf[on'[o]] = CampaignOf[on[o]]
    BY <1>1, <1>2
  <2> QED
    BY <1>2, <2>1 DEF Ceiling, SpentOn, LiveOn
<1>4. \A o \in Live : Held(share[on[o]], on[o])' = Held(share[on[o]], on[o])
  <2> SUFFICES ASSUME NEW o \in Live
               PROVE  Held(share'[on'[o]], on'[o]) = Held(share[on[o]], on[o])
    BY <1>2 DEF Held
  <2>1. CASE o = j
    BY <1>1, <2>1
  <2>2. CASE o # j
    BY <1>1, <1>2, <2>2
  <2> QED
    BY <2>1, <2>2
<1>5. \A o \in LiveOn(c)' : Held(share[on[o]], on[o])' <= Held(share[on[o]], on[o])
  BY <1>3, <1>4, LiveHeld DEF LiveOn, LiveHolds
<1> QED
  BY <1>3, <1>5, SharedKept

(* A launch leaves the other campaigns alone, and takes for its cycle what *)
(* the campaign's live ones leave of the ceiling, which they then hold in   *)
(* full.                                                                    *)
LEMMA AdmitMoves ==
    ASSUME AccountInv, NEW j \in Jobs, Admit(j)
    PROVE  /\ j \in Waiting /\ j \notin Live /\ on[j] \in Cycles
           /\ CampaignOf[on[j]] \in Campaigns
           /\ Live' = Live \cup {j} /\ UNCHANGED <<on, spent, change>>
           /\ LiveOn(CampaignOf[on[j]])' = LiveOn(CampaignOf[on[j]]) \cup {j}
           /\ \A b \in Campaigns \ {CampaignOf[on[j]]} :
                 LiveOn(b)' = LiveOn(b) /\ Ceiling(b)' = Ceiling(b)
           /\ ~Overtaken(j) => Ceiling(CampaignOf[on[j]])' = Declared(j)
           /\ Declared(j) \in Money
           /\ \A o \in Live : Held(share[on[o]], on[o])' = Held(share[on[o]], on[o])
           /\ \A o \in Live : Bounded(share[on[o]])' <=> Bounded(share[on[o]])
<1> DEFINE k == on[j]
           c == CampaignOf[k]
           d == Declared(j)
           L == LiveOn(c)
           After(b) == IF ceiling'[b] = NoRecord THEN Config[b] ELSE ceiling'[b]
<1>1. /\ TypeOK /\ j \in Waiting /\ j \notin Live /\ k \in Cycles /\ c \in Campaigns
      /\ Live' = Live \cup {j} /\ UNCHANGED <<on, spent, change>> /\ d \in Money
  <2>1. j \in Waiting /\ j \notin Live /\ Live' = Live \cup {j}
        /\ UNCHANGED <<on, spent, change>> /\ TypeOK
    BY DEF Admit, Waiting, Live, AccountInv, TypeOK
  <2> QED
    BY <2>1, DeclaredTypes DEF TypeOK
<1>2. AdmitLeaves(j)
  BY AdmitShares
<1>3. /\ \A o \in L : (Bounded(share'[on[o]]) <=> Bounded(d))
      /\ \A o \in L : Held(share'[on[o]], on[o]) = Held(share[on[o]], on[o])
      /\ \A q \in Cycles : (\A o \in L \cup {j} : on[o] # q) => share'[q] = share[q]
  BY <1>2 DEF AdmitLeaves
<1>4. ceiling' = [ceiling EXCEPT ![c] = IF request[j] \in {NoRecord, ceiling[c]}
                                           THEN ceiling[c] ELSE request[j]]
  BY DEF Admit
<1>5. /\ ~Overtaken(j) => After(c) = d
      /\ \A b \in Campaigns \ {c} : After(b) = Ceiling(b)
  BY <1>1, <1>4 DEF TypeOK, Ceiling, Declared, Overtaken
<1>6. \A b : LiveOn(b)' = {o \in Live \cup {j} : CampaignOf[on[o]] = b}
  BY <1>1 DEF LiveOn
<1>7. LiveOn(c)' = L \cup {j} /\ \A b : b # c => LiveOn(b)' = LiveOn(b)
  <2>1. LiveOn(c)' = {o \in Live \cup {j} : CampaignOf[on[o]] = c}
    BY <1>1 DEF LiveOn
  <2> QED
    BY <1>6, <2>1 DEF LiveOn
<1>8. \A o \in Live : o \notin L => share'[on[o]] = share[on[o]]
  BY <1>1, <1>3 DEF LiveOn, AccountInv, AloneInv, TypeOK
<1>9. \A o \in L : Bounded(share[on[o]]) <=> Bounded(d)
  BY DEF Admit, AdmitsOnCeiling, Shareable
<1> HIDE DEF k, c, d, L, After
<1>10. \A o \in Live : Held(share'[on[o]], on[o]) = Held(share[on[o]], on[o])
  BY <1>3, <1>8
<1>11. \A o \in Live : Bounded(share'[on[o]]) <=> Bounded(share[on[o]])
  BY <1>3, <1>8, <1>9
<1>12. \A o \in Live : Held(share[on[o]], on[o])' = Held(share[on[o]], on[o])
  BY <1>1, <1>10 DEF Held
<1>13. \A o \in Live : Bounded(share[on[o]])' <=> Bounded(share[on[o]])
  BY <1>1, <1>11 DEF Bounded
<1>14. \A b \in Campaigns \ {c} : Ceiling(b)' = Ceiling(b)
  <2>1. Ceiling(CampaignOf[on[j]])' = After(c)
    BY <1>1 DEF Ceiling, After, c, k
  <2> QED
    BY <1>1, <1>5, <2>1 DEF Ceiling, After, c, k
<1>15. ~Overtaken(j) => Ceiling(CampaignOf[on[j]])' = Declared(j)
  BY <1>1, <1>5 DEF Ceiling, After, c, k, d
<1>16. LiveOn(CampaignOf[on[j]])' = LiveOn(CampaignOf[on[j]]) \cup {j}
  BY <1>1, <1>7 DEF LiveOn, c, k, L
<1> QED
  BY <1>1, <1>7, <1>12, <1>13, <1>14, <1>15, <1>16 DEF c, k, d

LEMMA AdmitFills ==
    ASSUME AccountInv, NEW j \in Jobs, Admit(j), Bounded(Declared(j))
    PROVE  /\ Beside(share, LiveOn(CampaignOf[on[j]]))' = Declared(j) - SpentOn(CampaignOf[on[j]])
           /\ Declared(j) - SpentOn(CampaignOf[on[j]]) \in Nat /\ Declared(j) \in Nat
           /\ SpentOn(CampaignOf[on[j]]) \in Nat
<1> DEFINE k == on[j]
           c == CampaignOf[k]
           d == Declared(j)
           L == LiveOn(c)
           T == L \cup {j}
           b == Beside(share, L)
<1>1. /\ TypeOK /\ j \in Waiting /\ j \notin Live /\ k \in Cycles
      /\ UNCHANGED <<on, spent>> /\ LiveOn(c)' = T
  <2>1. UNCHANGED <<on, spent, change>> /\ LiveOn(CampaignOf[on[j]])' = LiveOn(CampaignOf[on[j]]) \cup {j}
    BY AdmitMoves
  <2>2. LiveOn(c)' = T
    BY <2>1 DEF LiveOn
  <2> QED
    BY <2>1, <2>2, AdmitMoves DEF AccountInv
<1>2. AdmitLeaves(j)
  BY AdmitShares
<1>3. /\ \A o \in T : share'[on[o]] \in Money
      /\ \A o \in L : Held(share'[on[o]], on[o]) = Held(share[on[o]], on[o])
      /\ d \in Nat /\ LeftOf(d, c, share, L) > 0
      /\ Held(share'[k], k) = LeftOf(d, c, share, L)
  BY <1>2 DEF AdmitLeaves
<1>4. /\ L \in SUBSET Jobs /\ HaveShares(share, L) /\ L \subseteq Live
      /\ \A o \in L : on[o] \in Cycles /\ share[on[o]] \in Money
  BY LiveOnCampaign DEF HaveShares
<1>5. T \in SUBSET Jobs /\ HaveShares(share', T) /\ j \in T /\ T \ {j} = L
  BY <1>1, <1>3, <1>4 DEF HaveShares
<1>6. b \in Nat /\ SpentOn(c) \in Nat
  BY <1>1, <1>4, BesideTypes, SpentTypes
<1>7. Beside(share, LiveOn(c))' = Beside(share', T)
  BY <1>1 DEF Beside, HeldBy, Held
<1>8. Beside(share, LiveOn(CampaignOf[on[j]]))' = Beside(share', T)
  BY <1>1, <1>7 DEF Beside, HeldBy, Held, LiveOn
<1>9. LeftOf(d, c, share, L) = d - SpentOn(c) - b
  BY DEF LeftOf
<1> HIDE DEF k, c, d, L, T, b
<1>10. Beside(share', T) = Held(share'[on[j]], on[j]) + Beside(share', T \ {j})
  BY <1>1, <1>5, BesideTakeOut
<1>11. Beside(share', L) = b
  <2>1. Beside(share', L) = Beside(share, L)
    BY <1>1, <1>3, <1>4, BesideSame
  <2> QED
    BY <2>1 DEF b
<1>12. Beside(share', T) = d - SpentOn(c) /\ d - SpentOn(c) \in Nat
  <2>1. Held(share'[on[j]], on[j]) = d - SpentOn(c) - b /\ d - SpentOn(c) - b > 0
    BY <1>3, <1>9 DEF k
  <2>2. Beside(share', T) = (d - SpentOn(c) - b) + b
    BY <1>5, <1>10, <1>11, <2>1
  <2>3. d \in Nat
    BY <1>3
  <2> QED
    BY <1>6, <2>1, <2>2, <2>3
<1> QED
  BY <1>3, <1>6, <1>8, <1>12 DEF c, d, k

LEMMA LaunchShares ==
    ASSUME AccountInv, AccountInv', NEW j \in Jobs, Admit(j), NEW c \in Campaigns, Shared(c),
           ~HasOvertaken(c)'
    PROVE  Shared(c)'
<1>1. /\ UNCHANGED <<on, spent, change>> /\ SpentOn(c)' = SpentOn(c)
      /\ \A o \in Live : Held(share[on[o]], on[o])' = Held(share[on[o]], on[o])
  BY AdmitMoves DEF SpentOn
<1>2. CASE c # CampaignOf[on[j]]
  <2>1. LiveOn(c)' = LiveOn(c) /\ Ceiling(c)' = Ceiling(c)
    BY <1>2, AdmitMoves
  <2>2. \A o \in LiveOn(c)' : Held(share[on[o]], on[o])' <= Held(share[on[o]], on[o])
    BY <1>1, <2>1, LiveHeld DEF LiveOn, LiveHolds
  <2> QED
    BY <1>1, <2>1, <2>2, SharedKept
<1>3. CASE c = CampaignOf[on[j]]
  <2>1. Ceiling(c)' = Declared(j)
    <3>0. ~Overtaken(j)
      <4>1. j \in LiveOn(c)' /\ (Overtaken(j) => j \in late')
        BY <1>1, <1>3, AdmitMoves DEF Admit, LiveOn
      <4> QED
        BY <4>1 DEF HasOvertaken
    <3>1. Ceiling(CampaignOf[on[j]])' = Declared(j)
      BY <3>0, AdmitMoves
    <3> QED
      BY <1>1, <1>3, <3>1 DEF Ceiling
  <2>2. CASE Bounded(Declared(j))
    <3>1. /\ Beside(share, LiveOn(CampaignOf[on[j]]))' = Declared(j) - SpentOn(CampaignOf[on[j]])
          /\ Declared(j) - SpentOn(CampaignOf[on[j]]) \in Nat
      BY <2>2, AdmitFills
    <3>2. Beside(share, LiveOn(c))' = Beside(share, LiveOn(CampaignOf[on[j]]))'
      BY <1>1, <1>3 DEF LiveOn
    <3>3. Beside(share, LiveOn(c))' = Declared(j) - SpentOn(c) /\ Declared(j) - SpentOn(c) \in Nat
      BY <1>3, <3>1, <3>2
    <3> QED
      BY <1>1, <2>1, <3>3 DEF Shared, AtLeastZero
  <2>3. CASE ~Bounded(Declared(j))
    BY <2>1, <2>3 DEF Shared, Bounded
  <2> QED
    BY <2>2, <2>3
<1> QED
  BY <1>2, <1>3

(* A changed ceiling leaves the other campaigns alone. *)
LEMMA LimitsMove ==
    ASSUME AccountInv, NEW i \in Changes, ApplyLimits(i)
    PROVE  /\ Reading(i) /\ ~Reading(i)'
           /\ change[i].cycle \in Cycles /\ CampaignOf[change[i].cycle] \in Campaigns
           /\ change[i].cap \in Money
           /\ UNCHANGED <<phase, on, spent, late>> /\ Live' = Live /\ Waiting' = Waiting
           /\ \A b : LiveOn(b)' = LiveOn(b) /\ SpentOn(b)' = SpentOn(b)
           /\ \A b \in Campaigns : Ceiling(b)' = IF b = CampaignOf[change[i].cycle]
                                                 THEN change[i].cap ELSE Ceiling(b)
           /\ \A o \in Live \ LiveOn(CampaignOf[change[i].cycle]) : share'[on[o]] = share[on[o]]
           /\ \A o \in LiveOn(CampaignOf[change[i].cycle]) :
                 /\ share'[on[o]] \in Money
                 /\ o \notin late => (Bounded(share'[on[o]]) <=> Bounded(change[i].cap))
<1> DEFINE k == change[i].cycle
           c == CampaignOf[k]
           cap == change[i].cap
<1>1. LimitsLeave(i)
  BY LimitsShares
<1>2. /\ k \in Cycles /\ c \in Campaigns /\ cap \in Money
      /\ \A q \in Cycles : (\A o \in LiveOn(c) : on[o] # q) => share'[q] = share[q]
      /\ \A o \in LiveOn(c) :
            /\ share'[on[o]] \in Money
            /\ o \notin late => (Bounded(share'[on[o]]) <=> Bounded(cap))
  BY <1>1 DEF LimitsLeave
<1>3. /\ Reading(i) /\ ~Reading(i)' /\ UNCHANGED <<phase, on, spent, late>>
      /\ Live' = Live /\ Waiting' = Waiting /\ ceiling' = [ceiling EXCEPT ![c] = cap]
  BY DEF ApplyLimits, Reading, Written, NoChange, AccountInv, TypeOK, Live, Waiting
<1>4. \A b : LiveOn(b)' = LiveOn(b) /\ SpentOn(b)' = SpentOn(b)
  BY <1>3 DEF LiveOn, SpentOn
<1>5. \A o \in Live \ LiveOn(c) : share'[on[o]] = share[on[o]]
  BY <1>2, LiveOnCampaign DEF LiveOn, HaveShares
<1>6. \A b \in Campaigns : Ceiling(b)' = IF b = c THEN cap ELSE Ceiling(b)
  <2>1. ceiling \in [Campaigns -> Money \cup {NoRecord}] /\ NoRecord \notin Money
    BY MoneyAssumption DEF AccountInv, TypeOK, Money
  <2> HIDE DEF c, cap
  <2> QED
    BY <1>2, <1>3, <2>1 DEF Ceiling
<1> QED
  BY <1>2, <1>3, <1>4, <1>5, <1>6

LEMMA TwoElements == ASSUME NEW o, NEW p, o # p PROVE Cardinality({o, p}) = 2
<1>1. IsFiniteSet({o}) /\ Cardinality({o}) = 1 /\ {o} \cup {p} = {o, p} /\ p \notin {o}
  BY FS_Singleton
<1>2. Cardinality({o} \cup {p}) = Cardinality({o}) + 1
  BY <1>1, FS_AddElement
<1> QED
  BY <1>1, <1>2

(* It keeps what a campaign's live cycles hold within the ceiling, unless  *)
(* it is moved under several of them.                                       *)
LEMMA LimitsKeep ==
    ASSUME AccountInv, AccountInv', NEW i \in Changes, ApplyLimits(i),
           NEW c \in Campaigns, Shared(c)
    PROVE  Shared(c)' \/ MovedUnderSeveral(c)
<1> DEFINE m == CampaignOf[change[i].cycle]
           cap == change[i].cap
           L == LiveOn(c)
<1>1. /\ Reading(i) /\ ~Reading(i)' /\ cap \in Money
      /\ UNCHANGED <<phase, on, spent>> /\ Live' = Live
      /\ LiveOn(c)' = LiveOn(c) /\ SpentOn(c)' = SpentOn(c)
      /\ Ceiling(c)' = IF c = m THEN cap ELSE Ceiling(c)
      /\ \A o \in Live \ LiveOn(m) : share'[on[o]] = share[on[o]]
  BY LimitsMove
<1>2. L \in SUBSET Jobs /\ L \subseteq Live /\ \A o \in L : on[o] \in Cycles
  BY LiveOnCampaign DEF HaveShares
<1>3. CASE c # m
  <2>1. \A o \in L : o \in Live \ LiveOn(m)
    BY <1>2, <1>3 DEF LiveOn
  <2>2. \A o \in L : Held(share[on[o]], on[o])' = Held(share[on[o]], on[o])
    BY <1>1, <2>1 DEF Held
  <2>3. \A o \in LiveOn(c)' : Held(share[on[o]], on[o])' <= Held(share[on[o]], on[o])
    BY <1>1, <1>2, <2>2, LiveHeld DEF LiveHolds
  <2> QED
    BY <1>1, <1>3, <2>3, SharedKept
<1>4. CASE c = m /\ ~Bounded(cap)
  BY <1>1, <1>4 DEF Shared, Bounded
<1>5. CASE c = m /\ ~(\A o, p \in L : o = p)
  <2>1. PICK o \in L, p \in L : o # p
    BY <1>5
  <2>2. IsFiniteSet(L)
    BY <1>2, JobsFinite
  <2>3. Cardinality({o, p}) = 2 /\ {o, p} \subseteq L
    BY <2>1, TwoElements
  <2>4. Cardinality(L) >= 2
    <3>1. Cardinality({o, p}) <= Cardinality(L)
      BY <2>2, <2>3, FS_Subset
    <3>2. Cardinality(L) \in Nat
      BY <2>2, FS_CardinalityType
    <3> QED
      BY <2>3, <3>1, <3>2
  <2> QED
    BY <1>1, <1>5, <2>4 DEF MovedUnderSeveral
<1>6. CASE c = m /\ Bounded(cap) /\ \A o, p \in L : o = p
  <2>1. LimitsLeave(i)
    BY LimitsShares
  <2>2. /\ \A o \in L : share'[on[o]] \in Money
        /\ \A o \in L : Held(share'[on[o]], on[o]) <= AtLeastZero(cap - SpentOn(c))
    BY <1>6, <2>1 DEF LimitsLeave
  <2>3. Shared(c)' <=> Beside(share', L) <= AtLeastZero(cap - SpentOn(c))
    <3>1. Beside(share, LiveOn(c))' = Beside(share', L)
      BY <1>1 DEF Beside, HeldBy, Held
    <3> QED
      BY <1>1, <1>6, <3>1 DEF Shared, Bounded, AtLeastZero
  <2>4. cap \in Nat /\ SpentOn(c) \in Nat
    BY <1>1, <1>6, Amounts DEF AmountsOK, Money, Bounded
  <2>5. CASE L = {}
    <3>1. Beside(share', L) = 0
      BY <2>5, SumEmpty DEF Beside
    <3> QED
      BY <2>3, <2>4, <3>1 DEF AtLeastZero
  <2>6. CASE L # {}
    <3>1. PICK o \in L : L = {o}
      BY <1>6, <2>6
    <3>2. HaveShares(share', L) /\ L \ {o} = {} /\ TypeOK
      BY <1>2, <2>2, <3>1 DEF HaveShares, AccountInv
    <3> HIDE DEF L
    <3>3. /\ Beside(share', L) = Held(share'[on[o]], on[o]) + Beside(share', L \ {o})
          /\ Held(share'[on[o]], on[o]) \in Nat
      BY <1>2, <3>2, BesideTakeOut
    <3>4. Beside(share', L \ {o}) = 0
      BY <3>2, SumEmpty DEF Beside
    <3>5. Held(share'[on[o]], on[o]) <= AtLeastZero(cap - SpentOn(c))
      BY <2>2
    <3> QED
      BY <2>3, <3>3, <3>4, <3>5
  <2> QED
    BY <2>5, <2>6
<1> QED
  BY <1>3, <1>4, <1>5, <1>6

LEMMA SharedOrMoved ==
    ASSUME AccountInv, AccountInv', [Next]_vars, NEW c \in Campaigns, Shared(c),
           ~HasOvertaken(c)'
    PROVE  Shared(c)' \/ MovedUnderSeveral(c)
<1>9. ASSUME NEW j \in Jobs, Compose(j) PROVE Shared(c)'
  <2>1. UNCHANGED <<ceiling, share, spent>> /\ Live' = Live /\ \A o \in Live : on'[o] = on[o]
    BY <1>9 DEF Compose, Live, AccountInv, TypeOK
  <2> QED
    BY <2>1, QuietShares
<1>1. ASSUME NEW j \in Jobs, NEW k \in Cycles, NEW cap \in Requests, Ask(j, k, cap) PROVE Shared(c)'
  <2>1. UNCHANGED <<ceiling, share, spent>> /\ Live' = Live /\ \A o \in Live : on'[o] = on[o]
    BY <1>1 DEF Ask, Live, AccountInv, TypeOK
  <2> QED
    BY <2>1, QuietShares
<1>2. ASSUME NEW j \in Jobs, Admit(j) PROVE Shared(c)'
  BY <1>2, LaunchShares
<1>3. ASSUME NEW j \in Jobs, Refuse(j) \/ End(j) PROVE Shared(c)'
  <2>1. UNCHANGED <<ceiling, share, spent>> /\ Live' \subseteq Live /\ \A o \in Live' : on'[o] = on[o]
    BY <1>3 DEF Refuse, End, Ended, Live, AccountInv, TypeOK
  <2> QED
    BY <2>1, QuietShares
<1>4. ASSUME NEW j \in Jobs, Bill(j) PROVE Shared(c)'
  BY <1>4, BillShares
<1>5. ASSUME NEW j \in Jobs, NEW k \in Cycles, Fork(j, k) PROVE Shared(c)'
  BY <1>5, ForkShares
<1>6. ASSUME NEW i \in Changes, NEW k \in Cycles, NEW cap \in Caps, ReadLimits(i, k, cap) PROVE Shared(c)'
  <2>1. UNCHANGED <<ceiling, share, spent>> /\ Live' = Live /\ \A o \in Live : on'[o] = on[o]
    BY <1>6 DEF ReadLimits, Live
  <2> QED
    BY <2>1, QuietShares
<1>7. ASSUME NEW i \in Changes, ApplyLimits(i) PROVE Shared(c)' \/ MovedUnderSeveral(c)
  BY <1>7, LimitsKeep
<1>8. CASE UNCHANGED vars
  <2>1. UNCHANGED <<ceiling, share, spent>> /\ Live' = Live /\ \A o \in Live : on'[o] = on[o]
    BY <1>8 DEF vars, Live
  <2> QED
    BY <2>1, QuietShares
<1> QED
  BY <1>1, <1>2, <1>3, <1>4, <1>5, <1>6, <1>7, <1>8, <1>9 DEF Next

(* No admission, bill, fork or end, and no ceiling moved under one live    *)
(* cycle, hands out more of a campaign's ceiling than it has left, for as   *)
(* long as no live run of the campaign was admitted beside a ceiling set    *)
(* after its launch was composed.                                           *)
THEOREM SharesStay == Spec => SharesStayWithin
<1>1. AccountInv /\ AccountInv' /\ [Next]_vars =>
        \A c \in Campaigns :
            Shared(c) => Shared(c)' \/ MovedUnderSeveral(c) \/ HasOvertaken(c)'
  BY SharedOrMoved
<1> QED
  BY <1>1, AccountInvariant, PTL DEF Spec, SharesStayWithin

(* A launch changes no live sibling's room and lifts no ceiling of its. *)
THEOREM SiblingsKeepRoom == Spec => LaunchLeavesSiblingsRoom
<1>1. ASSUME AccountInv, [Next]_vars, NEW j \in Jobs, phase[j] = "composed", phase'[j] = "live"
      PROVE  Admit(j)
  <2>1. ASSUME NEW o \in Jobs, Ended(o) PROVE FALSE
    BY <1>1, <2>1 DEF Ended, AccountInv, TypeOK
  <2>2. ASSUME NEW o \in Jobs, NEW k \in Cycles, NEW cap \in Requests, Ask(o, k, cap) PROVE FALSE
    BY <1>1, <2>2 DEF Ask, AccountInv, TypeOK
  <2>3. ASSUME UNCHANGED phase PROVE FALSE
    BY <1>1, <2>3
  <2>11. ASSUME NEW o \in Jobs, Compose(o) PROVE FALSE
    BY <1>1, <2>11 DEF Compose, AccountInv, TypeOK
  <2>4. ASSUME NEW o \in Jobs, Admit(o) PROVE o = j
    BY <1>1, <2>4 DEF Admit, AccountInv, TypeOK
  <2>5. ASSUME NEW o \in Jobs, Bill(o) PROVE FALSE
    BY <2>3, <2>5 DEF Bill
  <2>6. ASSUME NEW o \in Jobs, NEW k \in Cycles, Fork(o, k) PROVE FALSE
    BY <2>3, <2>6 DEF Fork
  <2>7. ASSUME NEW i \in Changes, NEW k \in Cycles, NEW cap \in Caps, ReadLimits(i, k, cap) PROVE FALSE
    BY <2>3, <2>7 DEF ReadLimits
  <2>8. ASSUME NEW i \in Changes, ApplyLimits(i) PROVE FALSE
    BY <2>3, <2>8 DEF ApplyLimits
  <2>9. ASSUME NEW o \in Jobs, Refuse(o) \/ End(o) PROVE FALSE
    BY <2>1, <2>9 DEF Refuse, End
  <2>10. ~UNCHANGED vars
    BY <2>3 DEF vars
  <2> QED
    BY <1>1, <2>2, <2>4, <2>5, <2>6, <2>7, <2>8, <2>9, <2>10, <2>11 DEF Next
<1>2. ASSUME AccountInv, NEW j \in Jobs, Admit(j), NEW o \in Live
      PROVE  Room(on[o])' = Room(on[o])
  <2>1. /\ UNCHANGED <<on, spent>>
        /\ Held(share[on[o]], on[o])' = Held(share[on[o]], on[o])
        /\ Bounded(share[on[o]])' <=> Bounded(share[on[o]])
    BY <1>2, AdmitMoves
  <2> QED
    BY <2>1 DEF Room
<1>3. AccountInv /\ [Next]_vars =>
        \A j \in Jobs : phase[j] = "composed" /\ phase'[j] = "live" =>
            \A o \in Live : Room(on[o])' = Room(on[o])
  BY <1>1, <1>2
<1> QED
  BY <1>3, AccountInvariant, PTL DEF Spec, LaunchLeavesSiblingsRoom

----------------------------------------------------------------------------
(* What the coupon covers *)

(* What an open command would write always fits the room it read. *)
THEOREM ClampFits == Spec => []ClampInv
<1>1. Init => ClampInv
  BY DEF Init, ClampInv, Reading, NoChange
<1>2. AccountInv /\ ClampInv /\ [Next]_vars => ClampInv'
  <2> SUFFICES ASSUME AccountInv, ClampInv, [Next]_vars PROVE ClampInv'
    OBVIOUS
  <2>1. ASSUME UNCHANGED change PROVE ClampInv'
    BY <2>1 DEF ClampInv, Reading, Bounded
  <2>2. ASSUME NEW i \in Changes, NEW k \in Cycles, NEW cap \in Caps, ReadLimits(i, k, cap)
        PROVE  ClampInv'
    <3> DEFINE room == Headroom(OwnJob(k), CampaignOf[k])
               taken == Clamped(cap, room)
               made == [step |-> "read", cycle |-> k, cap |-> taken,
                        reserve |-> ReserveOf(taken, room), room |-> room]
    <3>1. change' = [change EXCEPT ![i] = made]
      BY <2>2 DEF ReadLimits
    <3>2. room \in Nat /\ cap \in Money
      BY HeadroomTypes, MoneyAssumption DEF AccountInv, Money
    <3> HIDE DEF room
    <3>3. taken \in Money /\ (Bounded(taken) => taken <= room)
      BY <3>2 DEF Clamped, Money, Bounded, Lower
    <3> HIDE DEF taken
    <3>4. ReserveOf(taken, room) <= room
      BY <3>2, <3>3, ReserveTypes
    <3>5. made.reserve <= made.room /\ (Bounded(made.cap) => made.cap <= made.room)
      BY <3>3, <3>4
    <3> HIDE DEF made
    <3>6. \A n \in Changes : change'[n] = IF n = i THEN made ELSE change[n]
      BY <3>1 DEF AccountInv, TypeOK
    <3> QED
      BY <3>5, <3>6 DEF ClampInv, Reading, Bounded
  <2>3. ASSUME NEW i \in Changes, ApplyLimits(i) PROVE ClampInv'
    <3>1. change' = [change EXCEPT ![i] = Written]
      BY <2>3 DEF ApplyLimits
    <3>2. \A n \in Changes : change'[n] = IF n = i THEN Written ELSE change[n]
      BY <3>1 DEF AccountInv, TypeOK
    <3>3. Written.step # "read"
      BY DEF Written, NoChange
    <3> QED
      BY <3>2, <3>3 DEF ClampInv, Reading, Bounded
  <2>4. ASSUME NEW j \in Jobs, NEW k \in Cycles, NEW cap \in Requests, Ask(j, k, cap) PROVE ClampInv'
    BY <2>1, <2>4 DEF Ask
  <2>5. ASSUME NEW j \in Jobs, Compose(j) \/ Admit(j) PROVE ClampInv'
    BY <2>1, <2>5 DEF Compose, Admit
  <2>6. ASSUME NEW j \in Jobs, Refuse(j) \/ Bill(j) \/ End(j) PROVE ClampInv'
    BY <2>1, <2>6 DEF Refuse, Bill, End
  <2>7. ASSUME NEW j \in Jobs, NEW k \in Cycles, Fork(j, k) PROVE ClampInv'
    BY <2>1, <2>7 DEF Fork
  <2>8. CASE UNCHANGED vars
    BY <2>1, <2>8 DEF vars
  <2> QED
    BY <2>2, <2>3, <2>4, <2>5, <2>6, <2>7, <2>8 DEF Next
<1> QED
  BY <1>1, <1>2, AccountInvariant, PTL DEF Spec

(* What a live run may still send is an amount: no more than is left of    *)
(* its reserve, or of its share.                                            *)
SendsOK ==
    \A o \in Live :
        /\ MaySend(o) \in Nat /\ MaySend(o) <= reserve[o] /\ reserve[o] \in Nat
        /\ MaySend(o) <= AtLeastZero(reserve[o] - spent[on[o]])
        /\ Bounded(share[on[o]]) => MaySend(o) <= Held(share[on[o]], on[o])

LEMMA Sends == AccountInv => SendsOK
<1> SUFFICES ASSUME AccountInv, NEW o \in Live
             PROVE  /\ MaySend(o) \in Nat /\ MaySend(o) <= reserve[o] /\ reserve[o] \in Nat
                    /\ MaySend(o) <= AtLeastZero(reserve[o] - spent[on[o]])
                    /\ Bounded(share[on[o]]) => MaySend(o) <= Held(share[on[o]], on[o])
  BY DEF SendsOK
<1>1. reserve[o] \in Nat /\ spent[on[o]] \in Nat
  BY LiveOnCampaign DEF HaveShares, AccountInv, TypeOK
<1>2. Held(share[on[o]], on[o]) \in Nat
  BY LiveHeld DEF LiveHolds
<1>3. PICK n \in Nat : n = AtLeastZero(reserve[o] - spent[on[o]])
  BY <1>1 DEF AtLeastZero
<1>4. n <= reserve[o]
  BY <1>1, <1>3 DEF AtLeastZero
<1>5. CASE Bounded(share[on[o]])
  <2>1. MaySend(o) = Lower(Held(share[on[o]], on[o]), n)
    BY <1>3, <1>5 DEF MaySend
  <2> QED
    BY <1>1, <1>2, <1>3, <1>4, <2>1 DEF Lower
<1>6. CASE ~Bounded(share[on[o]])
  <2>1. MaySend(o) = n
    BY <1>3, <1>6 DEF MaySend
  <2> QED
    BY <1>1, <1>3, <1>4, <1>6, <2>1
<1> QED
  BY <1>5, <1>6

LEMMA SendsNext == AccountInv' => SendsOK'
BY Sends, PTL

Sending == [j \in Live |-> MaySend(j)]

(* The live runs may send no more, together, than they might. *)
LEMMA SendLess ==
    ASSUME AccountInv, AccountInv', CouponCovers, Left' = Left, Live' \subseteq Live,
           \A o \in Live' : MaySend(o)' <= MaySend(o)
    PROVE  CouponCovers'
<1> DEFINE f == Sending  g == Sending'  S == Live'
<1>1. IsFiniteSet(Live) /\ IsFiniteSet(S) /\ S \in SUBSET Live
  BY JobsFinite DEF Live
<1>2. \A o \in Live : f[o] = MaySend(o) /\ f[o] \in Nat
  BY Sends DEF SendsOK, Sending
<1>3. \A o \in S : g[o] = MaySend(o)' /\ g[o] \in Nat
  BY SendsNext DEF SendsOK, Sending
<1>4. CouponCovers' <=> SumFunctionOnSet(g, S) <= Left
  BY DEF CouponCovers, Sending
<1>5. SumFunctionOnSet(f, Live) <= Left
  BY DEF CouponCovers, Sending
<1>6. \A o \in S : MaySend(o)' <= MaySend(o)
  OBVIOUS
<1> HIDE DEF f, g, S
<1>7. \A o \in S : g[o] \in Int /\ f[o] \in Int /\ g[o] <= f[o]
  BY <1>1, <1>2, <1>3, <1>6
<1>8. SumFunctionOnSet(g, S) <= SumFunctionOnSet(f, S)
  BY <1>1, <1>7, SumAtMost
<1>9. SumFunctionOnSet(f, S) <= SumFunctionOnSet(f, Live)
  BY <1>1, <1>2, SumOfPart
<1>10. /\ SumFunctionOnSet(g, S) \in Nat /\ SumFunctionOnSet(f, S) \in Nat
       /\ SumFunctionOnSet(f, Live) \in Nat
  BY <1>1, <1>2, <1>3, SumNat
<1>11. Left \in Nat
  BY Amounts DEF AmountsOK
<1> QED
  BY <1>4, <1>5, <1>8, <1>9, <1>10, <1>11

(* One run takes no more than what is left beside the others' reserves. *)
LEMMA OneTakes ==
    ASSUME AccountInv, AccountInv', CouponCovers, Left' = Left,
           NEW j \in Jobs, Live' = Live \cup {j},
           \A o \in Live \ {j} : MaySend(o)' = MaySend(o),
           MaySend(j)' <= AtLeastZero(Left - HeldBack(j))
    PROVE  CouponCovers'
<1> DEFINE f == Sending  g == Sending'  S == Live \ {j}  T == Live'
           m == SumFunctionOnSet(f, S)  r == SumFunctionOnSet(reserve, S)
<1>1. /\ IsFiniteSet(Live) /\ IsFiniteSet(S) /\ S \in SUBSET Live
      /\ T = S \cup {j} /\ j \notin S /\ j \in Live' /\ S \subseteq Live'
  BY JobsFinite DEF Live
<1>2. \A o \in Live : f[o] = MaySend(o) /\ f[o] \in Nat /\ f[o] <= reserve[o] /\ reserve[o] \in Nat
  BY Sends DEF SendsOK, Sending
<1>3. \A o \in Live' : g[o] = MaySend(o)' /\ g[o] \in Nat
  BY SendsNext DEF SendsOK, Sending
<1>4. CouponCovers' <=> SumFunctionOnSet(g, T) <= Left
  BY DEF CouponCovers, Sending
<1>5. SumFunctionOnSet(f, Live) <= Left
  BY DEF CouponCovers, Sending
<1>6. g[j] <= AtLeastZero(Left - r) /\ g[j] \in Nat
  BY <1>1, <1>3 DEF HeldBack
<1>7. \A o \in S : MaySend(o)' = MaySend(o)
  OBVIOUS
<1> HIDE DEF f, g, S, T
<1>8. \A o \in S : f[o] \in Int /\ f[o] = g[o]
  BY <1>1, <1>2, <1>3, <1>7
<1>9. SumFunctionOnSet(g, S) = m
  <2>1. SumFunctionOnSet(f, S) = SumFunctionOnSet(g, S)
    BY <1>1, <1>8, SumSame
  <2> QED
    BY <2>1
<1>10. SumFunctionOnSet(g, T) = SumFunctionOnSet(g, S) + g[j]
  <2>1. \A o \in S \cup {j} : g[o] \in Int
    BY <1>1, <1>2, <1>6, <1>8
  <2>2. SumFunctionOnSet(g, S \cup {j}) = SumFunctionOnSet(g, S) + g[j]
    BY <1>1, <2>1, SumAdd
  <2> QED
    BY <1>1, <2>2
<1>11. m <= r
  <2>1. \A o \in S : f[o] \in Int /\ reserve[o] \in Int /\ f[o] <= reserve[o]
    BY <1>1, <1>2
  <2> QED
    BY <1>1, <2>1, SumAtMost
<1>12. m <= SumFunctionOnSet(f, Live)
  BY <1>1, <1>2, SumOfPart
<1>13. m \in Nat /\ SumFunctionOnSet(f, Live) \in Nat
  BY <1>1, <1>2, SumNat
<1>14. r \in Nat
  <2>1. \A o \in S : reserve[o] \in Nat
    BY <1>1, <1>2
  <2> QED
    BY <1>1, <2>1, SumNat
<1>15. Left \in Nat
  BY Amounts DEF AmountsOK
<1> HIDE DEF m, r
<1> QED
  BY <1>4, <1>5, <1>6, <1>9, <1>10, <1>11, <1>12, <1>13, <1>14, <1>15 DEF AtLeastZero

(* No reserve, ceiling, share or spend of a live run moved, and none       *)
(* became live.                                                             *)
LEMMA QuietCovers ==
    ASSUME AccountInv, AccountInv', CouponCovers, UNCHANGED <<share, spent>>, Live' \subseteq Live,
           \A o \in Live' : on'[o] = on[o] /\ reserve'[o] = reserve[o]
    PROVE  CouponCovers'
<1>1. Left' = Left
  BY DEF Left
<1>2. \A o \in Live' : MaySend(o)' = MaySend(o)
  BY DEF MaySend, Held
<1>3. \A o \in Live' : MaySend(o)' <= MaySend(o)
  BY <1>2, Sends DEF SendsOK
<1> QED
  BY <1>1, <1>3, SendLess

(* A bill takes one unit off what is left and off what its run may send. *)
LEMMA BillCovers ==
    ASSUME AccountInv, AccountInv', NEW j \in Jobs, Bill(j), CouponCovers
    PROVE  CouponCovers'
<1> DEFINE f == Sending  g == Sending'
<1>1. /\ j \in Live /\ on[j] \in Cycles /\ spent[on[j]] \in Nat
      /\ spent'[on[j]] = spent[on[j]] + 1
      /\ \A q \in Cycles \ {on[j]} : spent'[q] = spent[q]
      /\ UNCHANGED <<phase, on, request, reserve, ceiling, share, change, late>>
      /\ SumFunctionOnSet(spent', Cycles) = SumFunctionOnSet(spent, Cycles) + 1
  BY BillSpends
<1>2. Live' = Live /\ IsFiniteSet(Live)
  BY <1>1, JobsFinite DEF Live
<1>3. \A o \in Live : f[o] = MaySend(o) /\ f[o] \in Nat
  BY Sends DEF SendsOK, Sending
<1>4. \A o \in Live : g[o] = MaySend(o)' /\ g[o] \in Nat
  BY <1>2, SendsNext DEF SendsOK, Sending
<1>5. \A o \in Live \ {j} : f[o] = g[o]
  <2>1. \A o \in Live \ {j} : on[o] \in Cycles \ {on[j]}
    BY <1>1, LiveOnCampaign DEF HaveShares
  <2>2. \A o \in Live \ {j} : MaySend(o)' = MaySend(o)
    BY <1>1, <2>1 DEF MaySend, Held
  <2> QED
    BY <1>3, <1>4, <2>2
<1>6. f[j] >= 1 /\ g[j] = f[j] - 1
  <2>1. /\ Bounded(share[on[j]]) => /\ Held(share[on[j]], on[j]) >= 1
                                    /\ Held(share[on[j]], on[j])' = Held(share[on[j]], on[j]) - 1
        /\ Held(share[on[j]], on[j]) \in Nat
    BY <1>1, BillHeld, LiveHeld DEF LiveHolds
  <2>2. reserve[j] \in Nat /\ spent[on[j]] + 1 <= reserve[j]
    BY <1>1, Sends DEF SendsOK, Bill
  <2>3. PICK n \in Nat : n = AtLeastZero(reserve[j] - spent[on[j]])
    BY <1>1, <2>2 DEF AtLeastZero
  <2>4. n >= 1 /\ AtLeastZero(reserve[j] - (spent[on[j]] + 1)) = n - 1
    BY <1>1, <2>2, <2>3 DEF AtLeastZero
  <2>5. AtLeastZero(reserve'[j] - spent'[on'[j]]) = n - 1
    BY <1>1, <2>4
  <2>6. CASE Bounded(share[on[j]])
    <3> DEFINE h == Held(share[on[j]], on[j])
    <3>1. MaySend(j) = Lower(h, n) /\ MaySend(j)' = Lower(h - 1, n - 1)
      <4>1. MaySend(j)' = Lower(Held(share[on[j]], on[j])', n - 1)
        BY <1>1, <2>5, <2>6 DEF MaySend, Bounded
      <4> QED
        BY <2>1, <2>3, <2>6, <4>1 DEF MaySend
    <3>2. h \in Nat /\ h >= 1
      BY <2>1, <2>6
    <3>3. f[j] = MaySend(j) /\ g[j] = MaySend(j)'
      BY <1>1, <1>3, <1>4
    <3> HIDE DEF h, f, g
    <3>4. f[j] = Lower(h, n) /\ g[j] = Lower(h - 1, n - 1)
      BY <3>1, <3>3
    <3>5. Lower(h, n) >= 1 /\ Lower(h - 1, n - 1) = Lower(h, n) - 1
      BY <2>3, <2>4, <3>2 DEF Lower
    <3> QED
      BY <3>4, <3>5
  <2>7. CASE ~Bounded(share[on[j]])
    <3>1. MaySend(j) = n
      BY <2>3, <2>7 DEF MaySend
    <3>2. MaySend(j)' = n - 1
      BY <1>1, <2>5, <2>7 DEF MaySend, Bounded
    <3> QED
      BY <1>1, <1>3, <1>4, <2>4, <3>1, <3>2
  <2> QED
    BY <2>6, <2>7
<1>7. CouponCovers' <=> SumFunctionOnSet(g, Live) <= Left'
  BY <1>2 DEF CouponCovers, Sending
<1>8. SumFunctionOnSet(f, Live) <= Left
  BY DEF CouponCovers, Sending
<1> DEFINE s == SumFunctionOnSet(spent, Cycles)
<1>9. /\ Left = AtLeastZero(Face - s) /\ Left' = AtLeastZero(Face - (s + 1))
      /\ Face \in Nat
  BY <1>1, MoneyAssumption DEF Left
<1>10. s \in Nat
  <2>1. IsFiniteSet(Cycles) /\ \A q \in Cycles : spent[q] \in Nat
    BY CyclesFinite DEF AccountInv, TypeOK
  <2> QED
    BY <2>1, SumNat
<1> HIDE DEF f, g, s
<1>11. SumFunctionOnSet(g, Live) = SumFunctionOnSet(f, Live) + g[j] - f[j]
  <2>1. \A o \in Live : f[o] \in Int /\ g[o] \in Int
    BY <1>3, <1>4
  <2> QED
    BY <1>1, <1>2, <1>5, <2>1, SumChange
<1>12. SumFunctionOnSet(f, Live) = f[j] + SumFunctionOnSet(f, Live \ {j})
  <2>1. \A o \in Live : f[o] \in Int
    BY <1>3
  <2> QED
    BY <1>1, <1>2, <2>1, SumTakeOut
<1>13. SumFunctionOnSet(f, Live \ {j}) \in Nat
  <2>1. IsFiniteSet(Live \ {j}) /\ \A o \in Live \ {j} : f[o] \in Nat
    BY <1>2, <1>3, FS_Subset
  <2> QED
    BY <2>1, SumNat
<1>14. f[j] \in Nat
  BY <1>1, <1>3
<1> QED
  BY <1>6, <1>7, <1>8, <1>9, <1>10, <1>11, <1>12, <1>13, <1>14 DEF AtLeastZero

(* What a cycle spent is part of what its campaign spent. *)
LEMMA SpentInCampaign ==
    ASSUME TypeOK, NEW k \in Cycles
    PROVE  spent[k] <= SpentOn(CampaignOf[k]) /\ spent[k] \in Nat
<1> DEFINE S == {q \in Cycles : CampaignOf[q] = CampaignOf[k]}
<1>1. IsFiniteSet(S) /\ k \in S /\ \A q \in S : spent[q] \in Nat /\ spent[q] \in Int
  <2>1. S \in SUBSET Cycles
    OBVIOUS
  <2> QED
    BY <2>1, CyclesFinite DEF TypeOK
<1> HIDE DEF S
<1>2. SumFunctionOnSet(spent, S) = spent[k] + SumFunctionOnSet(spent, S \ {k})
  BY <1>1, SumTakeOut
<1>3. IsFiniteSet(S \ {k})
  BY <1>1, FS_Subset
<1>4. SumFunctionOnSet(spent, S \ {k}) \in Nat
  BY <1>1, <1>3, SumNat
<1>5. SpentOn(CampaignOf[k]) = SumFunctionOnSet(spent, S)
  BY DEF SpentOn, S
<1> QED
  BY <1>1, <1>2, <1>4, <1>5

(* A fork may send what its parent might, or its parent's spend is the     *)
(* campaign's and not its own.                                              *)
LEMMA ForkCovers ==
    ASSUME AccountInv, AccountInv', NEW j \in Jobs, NEW k \in Cycles, Fork(j, k), CouponCovers
    PROVE  CouponCovers' \/ SpentElsewhere'
<1> DEFINE p == on[j]
<1>1. /\ j \in Live /\ p \in Cycles /\ CampaignOf[k] = CampaignOf[p]
      /\ Parent[k] # NoRecord /\ spent[k] = 0 /\ p # k
      /\ on'[j] = k /\ \A o \in Jobs \ {j} : on'[o] = on[o]
      /\ \A q \in Cycles \ {k} : share'[q] = share[q]
      /\ Bounded(share'[k]) <=> Bounded(share[p])
      /\ Held(share'[k], k) = Held(share[p], p)
      /\ \A o \in Waiting \cup Live : on[o] # k
  BY ForkLeaves
<1>2. UNCHANGED <<phase, reserve, spent>> /\ Live' = Live /\ Live \subseteq Jobs
      /\ \A o \in Live : on[o] \in Cycles
  BY LiveOnCampaign DEF Fork, Live, HaveShares
<1>3. CASE spent[p] = 0
  <2>1. ASSUME NEW o \in Live PROVE MaySend(o)' = MaySend(o)
    <3>1. CASE o = j
      <4>1. (Held(share[on[o]], on[o]))' = Held(share[on[o]], on[o])
        BY <1>1, <1>2, <3>1 DEF Held
      <4>2. Bounded(share[on[o]])' <=> Bounded(share[on[o]])
        BY <1>1, <3>1 DEF Bounded
      <4>3. reserve'[o] - spent'[on'[o]] = reserve[o] - spent[on[o]]
        BY <1>1, <1>2, <1>3, <3>1
      <4> QED
        BY <4>1, <4>2, <4>3 DEF MaySend
    <3>2. CASE o # j
      <4>1. on'[o] = on[o] /\ on[o] \in Cycles \ {k}
        BY <1>1, <1>2, <3>2
      <4> QED
        BY <1>1, <1>2, <4>1 DEF MaySend, Held
    <3> QED
      BY <3>1, <3>2
  <2>2. Left' = Left
    BY <1>2 DEF Left
  <2>3. \A o \in Live' : MaySend(o)' <= MaySend(o)
    BY <1>2, <2>1, Sends DEF SendsOK
  <2> QED
    BY <1>2, <2>2, <2>3, SendLess
<1>4. CASE spent[p] # 0
  <2>1. spent[p] \in Nat /\ spent[p] <= SpentOn(CampaignOf[p]) /\ SpentOn(CampaignOf[p]) \in Nat
    BY <1>1, SpentInCampaign, SpentTypes DEF AccountInv
  <2>2. SpentOn(CampaignOf[k]) > spent[k]
    BY <1>1, <1>4, <2>1
  <2>3. SpentOn(CampaignOf[on[j]])' = SpentOn(CampaignOf[k])
    BY <1>1, <1>2 DEF SpentOn
  <2>4. SpentOn(CampaignOf[on[j]])' > spent'[on'[j]]
    BY <1>1, <1>2, <2>2, <2>3
  <2>5. Parent[on'[j]] # NoRecord /\ j \in Live'
    BY <1>1, <1>2
  <2> QED
    BY <2>4, <2>5 DEF SpentElsewhere
<1> QED
  BY <1>3, <1>4

(* A launch may send no more than what is left beside the reserves of the  *)
(* runs it found, unless it is uncapped in a campaign that spent on another *)
(* cycle.                                                                   *)
LEMMA AdmitCovers ==
    ASSUME AccountInv, AccountInv', NEW j \in Jobs, Admit(j), CouponCovers
    PROVE  CouponCovers' \/ SpentElsewhere'
<1> SUFFICES ASSUME ~SpentElsewhere' PROVE CouponCovers'
  OBVIOUS
<1> DEFINE k == on[j]
           c == CampaignOf[k]
           d == Declared(j)
           room == Headroom(j, c)
           left == AtLeastZero(Left - HeldBack(j))
<1>1. /\ j \notin Live /\ k \in Cycles /\ c \in Campaigns
      /\ Live' = Live \cup {j} /\ UNCHANGED <<on, spent, change>> /\ d \in Money
      /\ \A o \in Live : Held(share[on[o]], on[o])' = Held(share[on[o]], on[o])
      /\ \A o \in Live : Bounded(share[on[o]])' <=> Bounded(share[on[o]])
  BY AdmitMoves
<1>2. /\ Left \in Nat /\ HeldBack(j) \in Nat /\ SpentOn(c) \in Nat /\ spent[k] \in Nat
      /\ spent[k] <= SpentOn(c)
  BY <1>1, SpentTypes, HeadroomTypes, SpentInCampaign DEF AccountInv
<1>3. left \in Nat /\ room = left + SpentOn(c)
  BY <1>2 DEF Headroom, AtLeastZero
<1>4. /\ reserve'[j] = ReserveOf(d, room) /\ \A o \in Live : reserve'[o] = reserve[o]
      /\ room > SpentOn(c) /\ (Bounded(d) => d <= room)
  <2>1. reserve \in [Jobs -> Nat] /\ Live \subseteq Jobs
    BY DEF AccountInv, TypeOK, Live
  <2> QED
    BY <1>1, <2>1 DEF Admit, AdmitsOnCoupon
<1>5. Left' = Left
  BY <1>1 DEF Left
<1>6. \A o \in Live \ {j} : MaySend(o)' = MaySend(o)
  BY <1>1, <1>4 DEF MaySend
<1>7. AdmitLeaves(j) /\ SendsOK'
  BY AdmitShares, SendsNext
<1>8. MaySend(j)' <= left
  <2>1. /\ j \in Live' /\ MaySend(j)' \in Nat
        /\ MaySend(j)' <= AtLeastZero(reserve'[j] - spent[k])
        /\ Bounded(share'[k]) => MaySend(j)' <= Held(share'[k], k)
    <3>1. /\ MaySend(j)' \in Nat
          /\ MaySend(j)' <= AtLeastZero(reserve'[j] - spent'[on'[j]])
          /\ Bounded(share[on[j]])' => MaySend(j)' <= Held(share[on[j]], on[j])'
      BY <1>1, <1>7 DEF SendsOK
    <3>2. Held(share[on[j]], on[j])' = Held(share'[k], k)
      BY <1>1 DEF Held
    <3>3. Bounded(share[on[j]])' <=> Bounded(share'[k])
      BY <1>1 DEF Bounded
    <3> QED
      BY <1>1, <3>1, <3>2, <3>3
  <2>2. CASE Bounded(d)
    <3>1. /\ Bounded(share'[k]) /\ d \in Nat
          /\ Held(share'[k], k) = LeftOf(d, c, share, LiveOn(c))
      BY <1>7, <2>2 DEF AdmitLeaves
    <3>2. LeftOf(d, c, share, LiveOn(c)) = d - SpentOn(c) - Beside(share, LiveOn(c))
      BY DEF LeftOf
    <3>3. Beside(share, LiveOn(c)) \in Nat
      BY LiveOnCampaign, BesideTypes DEF AccountInv, HaveShares
    <3>4. d <= left + SpentOn(c)
      BY <1>3, <1>4, <2>2
    <3>5. MaySend(j)' <= Held(share'[k], k)
      BY <2>1, <3>1
    <3> HIDE DEF left, d, c, k
    <3> QED
      BY <1>2, <1>3, <2>1, <3>1, <3>2, <3>3, <3>4, <3>5
  <2>3. CASE ~Bounded(d)
    <3>1. reserve'[j] = room
      BY <1>4, <2>3 DEF ReserveOf
    <3>2. share'[k] = NoCap
      <4>1. share'[k] \in Money /\ ~Bounded(share'[k])
        BY <1>7, <2>3 DEF AdmitLeaves
      <4> QED
        BY <4>1 DEF Bounded
    <3>3. SpentOn(CampaignOf[on[j]])' = SpentOn(c)
      BY <1>1 DEF SpentOn
    <3>4. ~(SpentOn(c) > spent[k])
      BY <1>1, <2>1, <3>2, <3>3 DEF SpentElsewhere
    <3> HIDE DEF left, room, c, k
    <3>5. reserve'[j] - spent[k] <= left /\ reserve'[j] \in Nat
      BY <1>2, <1>3, <3>1, <3>4
    <3> QED
      BY <1>2, <1>3, <2>1, <3>5 DEF AtLeastZero
  <2> QED
    BY <2>2, <2>3
<1> QED
  BY <1>1, <1>5, <1>6, <1>8, OneTakes

(* A fresh clamp leaves the one live run of the campaign no more than what *)
(* is left beside the others' reserves.                                     *)
LEMMA LimitsCover ==
    ASSUME AccountInv, AccountInv', ClampInv, NEW i \in Changes, ApplyLimits(i),
           CouponCovers, SharesWithinCeiling
    PROVE  \/ CouponCovers' \/ StaleClamp \/ LiftedElsewhere \/ MovedUnderLate \/ SpentElsewhere'
           \/ \E c \in Campaigns : MovedUnderSeveral(c)
<1> SUFFICES ASSUME ~StaleClamp, ~LiftedElsewhere, ~MovedUnderLate, ~SpentElsewhere',
                    \A c \in Campaigns : ~MovedUnderSeveral(c)
             PROVE  CouponCovers'
  OBVIOUS
<1> DEFINE k == change[i].cycle
           c == CampaignOf[k]
           cap == change[i].cap
           room == change[i].room
           own == OwnJob(k)
           L == LiveOn(c)
<1>1. /\ Reading(i) /\ ~Reading(i)' /\ k \in Cycles /\ c \in Campaigns /\ cap \in Money
      /\ UNCHANGED <<phase, on, spent>> /\ Live' = Live
      /\ \A o \in Live \ L : share'[on[o]] = share[on[o]]
      /\ \A o \in L : share'[on[o]] \in Money /\ (Bounded(share'[on[o]]) <=> Bounded(cap))
  <2>1. LiveOn(CampaignOf[change[i].cycle]) \cap late = {}
    BY LimitsMove DEF MovedUnderLate, HasOvertaken
  <2> QED
    BY <2>1, LimitsMove
<1>2. /\ L \in SUBSET Jobs /\ L \subseteq Live /\ Live \subseteq Jobs
      /\ \A o \in L : CampaignOf[on[o]] = c
      /\ \A o \in Live : on[o] \in Cycles
  BY LiveOnCampaign DEF HaveShares
<1>3. \A o \in Jobs : reserve'[o] = IF o \in RunOn(k) THEN change[i].reserve ELSE reserve[o]
  BY DEF ApplyLimits
<1>4. \A o \in Live \ L : o \notin RunOn(k)
  BY <1>2 DEF RunOn, LiveOn
<1>5. \A o \in Live \ L : MaySend(o)' = MaySend(o)
  BY <1>1, <1>2, <1>3, <1>4 DEF MaySend, Held
<1>6. Left' = Left
  BY <1>1 DEF Left
<1>7. CASE L = {}
  <2>1. \A o \in Live' : MaySend(o)' <= MaySend(o)
    BY <1>1, <1>5, <1>7, Sends DEF SendsOK
  <2> QED
    BY <1>1, <1>6, <2>1, SendLess
<1>8. CASE L # {}
  <2>1. \A o, p \in L : o = p
    <3> SUFFICES ASSUME NEW o \in L, NEW p \in L, o # p PROVE FALSE
      OBVIOUS
    <3>1. Cardinality({o, p}) = 2 /\ {o, p} \in SUBSET L /\ IsFiniteSet(L)
      BY <1>2, TwoElements, JobsFinite
    <3>2. Cardinality({o, p}) <= Cardinality(L) /\ Cardinality(L) \in Nat
      BY <3>1, FS_Subset, FS_CardinalityType
    <3>3. Cardinality(L) >= 2
      BY <3>1, <3>2
    <3>4. MovedUnderSeveral(c)
      BY <1>1, <3>3 DEF MovedUnderSeveral
    <3> QED
      BY <1>1, <3>4
  <2>2. PICK o \in L : L = {o}
    BY <1>8, <2>1
  <2>3. o \in Live /\ o \in Jobs /\ on[o] \in Cycles /\ CampaignOf[on[o]] = c
    BY <1>2
  <2> DEFINE left == AtLeastZero(Left - HeldBack(o))
  <2>4. /\ Left \in Nat /\ HeldBack(o) \in Nat /\ HeldBack(own) \in Nat
        /\ SpentOn(c) \in Nat /\ spent[on[o]] \in Nat /\ room \in Nat
        /\ spent[on[o]] <= SpentOn(c) /\ Headroom(own, c) \in Nat
    <3>1. change[i] \in Change
      BY DEF AccountInv, TypeOK
    <3> QED
      BY <2>3, <3>1, SpentTypes, HeadroomTypes, SpentInCampaign DEF AccountInv, Change
  <2>5. on[o] = k => own = o
    <3>1. ASSUME on[o] = k PROVE RunOn(k) = {o}
      BY <2>3, <3>1 DEF RunOn, AccountInv, AloneInv
    <3> QED
      BY <3>1 DEF OwnJob
  <2>6. on[o] # k => own \notin Live
    <3> SUFFICES ASSUME on[o] # k, own \in Live PROVE FALSE
      OBVIOUS
    <3>1. own # NoJob
      BY <1>2, MoneyAssumption
    <3>2. own \in RunOn(k)
      BY <3>1 DEF OwnJob
    <3>3. own \in L
      BY <3>2 DEF RunOn, LiveOn
    <3> QED
      BY <2>2, <3>2, <3>3 DEF RunOn
  <2>7. HeldBack(o) <= HeldBack(own)
    <3>1. CASE on[o] = k
      BY <2>4, <2>5, <3>1
    <3>2. CASE on[o] # k
      <4> DEFINE S == Live \ {o}
      <4>1. Live \ {own} = Live /\ S \in SUBSET Live /\ IsFiniteSet(Live)
        BY <2>6, <3>2, JobsFinite DEF Live
      <4>2. \A p \in Live : reserve[p] \in Nat
        BY Sends DEF SendsOK
      <4>3. SumFunctionOnSet(reserve, S) <= SumFunctionOnSet(reserve, Live)
        BY <4>1, <4>2, SumOfPart
      <4> QED
        BY <4>1, <4>3 DEF HeldBack
    <3> QED
      BY <3>1, <3>2
  <2>8. room <= left + SpentOn(c) /\ left \in Nat
    <3>1. ~(Headroom(own, c) < room)
      BY <1>1 DEF StaleClamp
    <3>2. Headroom(own, c) = AtLeastZero(Left - HeldBack(own)) + SpentOn(c)
      BY DEF Headroom
    <3> HIDE DEF c, own, room
    <3> QED
      BY <2>4, <2>7, <3>1, <3>2 DEF AtLeastZero
  <2>9. /\ MaySend(o)' \in Nat
        /\ MaySend(o)' <= AtLeastZero(reserve'[o] - spent[on[o]])
        /\ Bounded(share'[on[o]]) => MaySend(o)' <= Held(share'[on[o]], on[o])
    <3>1. SendsOK' /\ o \in Live'
      BY <1>1, <2>3, SendsNext
    <3>2. /\ MaySend(o)' \in Nat
          /\ MaySend(o)' <= AtLeastZero(reserve'[o] - spent'[on'[o]])
          /\ Bounded(share[on[o]])' => MaySend(o)' <= Held(share[on[o]], on[o])'
      BY <3>1 DEF SendsOK
    <3>3. Held(share[on[o]], on[o])' = Held(share'[on[o]], on[o])
      BY <1>1 DEF Held
    <3>4. Bounded(share[on[o]])' <=> Bounded(share'[on[o]])
      BY <1>1 DEF Bounded
    <3> QED
      BY <1>1, <3>2, <3>3, <3>4
  <2>10. MaySend(o)' <= left
    <3>1. CASE Bounded(cap)
      <4>1. LimitsLeave(i) /\ Shared(c)
        BY <1>1, LimitsShares DEF SharesWithinCeiling
      <4>2. Held(share'[on[o]], on[o]) <= AtLeastZero(cap - SpentOn(c)) /\ o \in L
        BY <2>1, <3>1, <4>1 DEF LimitsLeave
      <4>3. cap <= room /\ cap \in Nat
        BY <1>1, <3>1 DEF ClampInv, Money, Bounded
      <4>4. AtLeastZero(cap - SpentOn(c)) <= left /\ AtLeastZero(cap - SpentOn(c)) \in Nat
        <5> HIDE DEF cap, room, c, left
        <5> QED
          BY <2>4, <2>8, <4>3 DEF AtLeastZero
      <4>5. MaySend(o)' <= Held(share'[on[o]], on[o]) /\ Held(share'[on[o]], on[o]) \in Nat
        <5>1. Bounded(share'[on[o]]) /\ share'[on[o]] \in Nat
          BY <1>1, <3>1, <4>2 DEF Money, Bounded
        <5>2. Held(share'[on[o]], on[o]) \in Nat
          BY <2>4, <5>1 DEF Held, AtLeastZero
        <5> QED
          BY <2>9, <5>1, <5>2
      <4> HIDE DEF left, cap, c
      <4> QED
        BY <2>8, <2>9, <4>2, <4>4, <4>5
    <3>2. CASE ~Bounded(cap)
      <4>1. cap = NoCap /\ share'[on[o]] = NoCap
        BY <1>1, <3>2 DEF Bounded
      <4>2. on[o] = k
        <5>1. L \ RunOn(k) = {}
          BY <1>1, <4>1 DEF LiftedElsewhere
        <5> QED
          BY <2>3, <5>1 DEF RunOn
      <4>3. reserve'[o] = change[i].reserve /\ change[i].reserve <= room /\ change[i].reserve \in Nat
        <5>1. o \in RunOn(k)
          BY <2>3, <4>2 DEF RunOn
        <5> QED
          BY <1>1, <1>3, <2>3, <5>1 DEF ClampInv, AccountInv, TypeOK, Change
      <4>4. ~(SpentOn(c) > spent[on[o]])
        <5>1. SpentOn(CampaignOf[on[o]])' = SpentOn(c)
          BY <1>1, <2>3 DEF SpentOn
        <5> QED
          BY <1>1, <2>3, <4>1, <5>1 DEF SpentElsewhere
      <4> HIDE DEF left, cap, c, room
      <4>5. AtLeastZero(reserve'[o] - spent[on[o]]) <= left
            /\ AtLeastZero(reserve'[o] - spent[on[o]]) \in Nat
        BY <2>4, <2>8, <4>3, <4>4 DEF AtLeastZero
      <4> QED
        BY <2>8, <2>9, <4>5
    <3> QED
      BY <3>1, <3>2
  <2>11. Live' = Live \cup {o} /\ \A p \in Live \ {o} : MaySend(p)' = MaySend(p)
    BY <1>1, <1>5, <2>2, <2>3
  <2> QED
    BY <1>6, <2>3, <2>10, <2>11, OneTakes
<1> QED
  BY <1>7, <1>8

(* The coupon covers what the live runs may still send, together, for as   *)
(* long as none of the known exceptions is met: the wallet, the reserves    *)
(* and the shares never promise the same money twice.                       *)
THEOREM CouponStays == Spec => CouponStaysCovered
<1> DEFINE Excused == \/ StaleClamp \/ LiftedElsewhere \/ MovedUnderLate \/ SpentElsewhere'
                      \/ \E c \in Campaigns : MovedUnderSeveral(c)
<1>1. ASSUME AccountInv, AccountInv', ClampInv, [Next]_vars, CouponCovers, SharesWithinCeiling
      PROVE  CouponCovers' \/ Excused
  <2>1. ASSUME UNCHANGED <<on, reserve, share, spent>>, Live' = Live PROVE CouponCovers'
    BY <1>1, <2>1, QuietCovers
  <2>2. ASSUME NEW j \in Jobs, NEW k \in Cycles, NEW cap \in Requests, Ask(j, k, cap)
        PROVE  CouponCovers'
    <3>1. /\ UNCHANGED <<share, spent, reserve>> /\ Live' = Live
          /\ \A o \in Live : on'[o] = on[o]
      BY <1>1, <2>2 DEF Ask, Live, AccountInv, TypeOK
    <3> QED
      BY <1>1, <3>1, QuietCovers
  <2>10. ASSUME NEW j \in Jobs, Compose(j) PROVE CouponCovers'
    <3>1. UNCHANGED <<on, reserve, share, spent>> /\ Live' = Live
      BY <1>1, <2>10 DEF Compose, Live, AccountInv, TypeOK
    <3> QED
      BY <2>1, <3>1
  <2>3. ASSUME NEW j \in Jobs, Admit(j) PROVE CouponCovers' \/ Excused
    BY <1>1, <2>3, AdmitCovers
  <2>4. ASSUME NEW j \in Jobs, Refuse(j) \/ End(j) PROVE CouponCovers'
    <3>1. /\ UNCHANGED <<share, spent>> /\ Live' \subseteq Live
          /\ \A o \in Live' : on'[o] = on[o] /\ reserve'[o] = reserve[o]
      BY <1>1, <2>4 DEF Refuse, End, Ended, Live, AccountInv, TypeOK
    <3> QED
      BY <1>1, <3>1, QuietCovers
  <2>5. ASSUME NEW j \in Jobs, Bill(j) PROVE CouponCovers'
    BY <1>1, <2>5, BillCovers
  <2>6. ASSUME NEW j \in Jobs, NEW k \in Cycles, Fork(j, k) PROVE CouponCovers' \/ Excused
    BY <1>1, <2>6, ForkCovers
  <2>7. ASSUME NEW i \in Changes, NEW k \in Cycles, NEW cap \in Caps, ReadLimits(i, k, cap)
        PROVE  CouponCovers'
    BY <2>1, <2>7 DEF ReadLimits, Live
  <2>8. ASSUME NEW i \in Changes, ApplyLimits(i) PROVE CouponCovers' \/ Excused
    BY <1>1, <2>8, LimitsCover
  <2>9. CASE UNCHANGED vars
    BY <2>1, <2>9 DEF vars, Live
  <2> QED
    BY <1>1, <2>2, <2>3, <2>4, <2>5, <2>6, <2>7, <2>8, <2>9, <2>10 DEF Next
<1>2. AccountInv /\ AccountInv' /\ ClampInv /\ [Next]_vars =>
        (CouponCovers /\ SharesWithinCeiling => CouponCovers' \/ Excused)
  BY <1>1
<1> QED
  BY <1>2, AccountInvariant, ClampFits, PTL DEF Spec, CouponStaysCovered
=============================================================================
