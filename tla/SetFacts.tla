------------------------------ MODULE SetFacts ------------------------------
(***************************************************************************)
(* What the proofs need of the community modules' operators on sets: sums   *)
(* of a function over a finite set (SumFunctionOnSet), least and greatest    *)
(* elements, and how many there are.  The sum is defined by recursion over   *)
(* the set; induction over the subsets of a finite set gives its laws.       *)
(***************************************************************************)
EXTENDS Integers, FiniteSetsExt, FiniteSetTheorems, TLAPS

(* Induction over the subsets of a finite set: a family that has every     *)
(* subset all of whose proper parts it has, has them all.                   *)
LEMMA SubsetInduction ==
    ASSUME NEW D, IsFiniteSet(D), NEW Q,
           \A T \in SUBSET D : (\A U \in SUBSET T : U # T => U \in Q) => T \in Q
    PROVE  \A T \in SUBSET D : T \in Q
<1> DEFINE Bad == {T \in SUBSET D : T \notin Q}
<1> SUFFICES ASSUME Bad # {} PROVE FALSE  OBVIOUS
<1>1. FiniteSubsetsOf(D) = SUBSET D  BY FS_FiniteSubsetsOfFinite
<1>2. IsWellFoundedOn(StrictSubsetOrdering(D), SUBSET D)
  <2>1. IsWellFoundedOn(StrictSubsetOrdering(D), FiniteSubsetsOf(D))
    BY FS_StrictSubsetOrderingWellFounded
  <2> QED BY <1>1, <2>1
<1> HIDE DEF Bad
<1>3. Bad \subseteq SUBSET D  BY DEF Bad
<1>4. PICK T \in Bad : \A U \in Bad : <<U, T>> \notin StrictSubsetOrdering(D)
  BY <1>2, <1>3, WFMin
<1>5. ASSUME NEW U \in SUBSET T, U # T PROVE U \in Q
  <2>1. U \in SUBSET D  BY <1>3
  <2>2. <<U, T>> \in StrictSubsetOrdering(D)  BY <2>1, <1>3, <1>5 DEF StrictSubsetOrdering
  <2> QED BY <2>1, <2>2, <1>4 DEF Bad
<1> QED BY <1>3, <1>5 DEF Bad

-----------------------------------------------------------------------------
(* Sums. *)

(* What the library folds with: one step, and the function that is its own  *)
(* step at every subset of D.                                               *)
SumStep(f, s, g) == IF s = {} THEN 0 ELSE LET x == CHOOSE x \in s : TRUE IN f[x] + g[s \ {x}]
SumIteration(f, D, g) == g = [s \in SUBSET D |-> SumStep(f, s, g)]

(* The sum is the library's iteration at the whole set.                     *)
LEMMA SumIterates ==
    ASSUME NEW f, NEW S
    PROVE  SumFunctionOnSet(f, S) = (CHOOSE g : SumIteration(f, S, g))[S]
BY DEF SumFunctionOnSet, FoldFunctionOnSet, MapThenFoldSet, SumIteration, SumStep

(* Two iterations agree where both are defined.                             *)
LEMMA IteratesAgree ==
    ASSUME NEW f, NEW D, NEW E, NEW g, NEW h, SumIteration(f, D, g), SumIteration(f, E, h),
           NEW T, IsFiniteSet(T), T \subseteq D, T \subseteq E
    PROVE  g[T] = h[T]
<1> DEFINE Q == {U \in SUBSET T : g[U] = h[U]}
<1>1. ASSUME NEW U \in SUBSET T, \A V \in SUBSET U : V # U => V \in Q PROVE U \in Q
  <2>1. g[U] = SumStep(f, U, g) /\ h[U] = SumStep(f, U, h)  BY DEF SumIteration
  <2>2. CASE U = {}  BY <2>1, <2>2 DEF SumStep
  <2>3. CASE U # {}
    <3> DEFINE x == CHOOSE x \in U : TRUE
    <3>1. x \in U  BY <2>3
    <3>2. U \ {x} \in Q  BY <3>1, <1>1
    <3>3. g[U] = f[x] + g[U \ {x}] /\ h[U] = f[x] + h[U \ {x}]  BY <2>1, <2>3 DEF SumStep
    <3> QED BY <3>2, <3>3
  <2> QED BY <2>2, <2>3
<1> HIDE DEF Q
<1>2. T \in Q  BY <1>1, SubsetInduction
<1> QED BY <1>2 DEF Q

(* The sum of a set with elements is that of one of them and the rest.      *)
LEMMA SumUnfolds ==
    ASSUME NEW f, NEW S, IsFiniteSet(S)
    PROVE  /\ SumIteration(f, S, CHOOSE g : SumIteration(f, S, g))
           /\ SumFunctionOnSet(f, S) =
                IF S = {} THEN 0
                ELSE LET x == CHOOSE x \in S : TRUE IN f[x] + SumFunctionOnSet(f, S \ {x})
<1> DEFINE It(T) == CHOOSE g : SumIteration(f, T, g)
<1> DEFINE Q == {T \in SUBSET S : SumIteration(f, T, It(T))}
<1>0. \A T : SumFunctionOnSet(f, T) = It(T)[T]  BY SumIterates
<1>1. ASSUME NEW T \in SUBSET S, \A U \in SUBSET T : U # T => U \in Q PROVE T \in Q
  <2> DEFINE V == [s \in SUBSET T |-> IF s = T THEN SumStep(f, T, [u \in SUBSET T |-> It(u)[u]])
                                    ELSE It(s)[s]]
  <2>1. ASSUME NEW s \in SUBSET T PROVE V[s] = SumStep(f, s, V)
    <3>1. CASE s = {}
      <4>1. CASE s = T  BY <4>1, <3>1 DEF SumStep
      <4>2. CASE s # T
        <5>1. SumIteration(f, s, It(s))  BY <4>2, <1>1
        <5>2. It(s)[s] = SumStep(f, s, It(s))  BY <5>1 DEF SumIteration
        <5> QED BY <5>2, <4>2, <3>1 DEF SumStep
      <4> QED BY <4>1, <4>2
    <3>2. CASE s # {}
      <4> DEFINE x == CHOOSE x \in s : TRUE
      <4>1. x \in s  BY <3>2
      <4>2. s \ {x} \in SUBSET T /\ s \ {x} # T  BY <4>1
      <4>3. V[s \ {x}] = It(s \ {x})[s \ {x}]  BY <4>2
      <4>4. CASE s = T  BY <4>4, <4>2, <4>3, <3>2 DEF SumStep
      <4>5. CASE s # T
        <5>1. SumIteration(f, s, It(s))  BY <4>5, <1>1
        <5>2. It(s)[s] = f[x] + It(s)[s \ {x}]  BY <5>1, <3>2 DEF SumIteration, SumStep
        <5>3. SumIteration(f, s \ {x}, It(s \ {x}))  BY <4>2, <1>1
        <5>4. IsFiniteSet(s \ {x})  BY <4>2, FS_Subset
        <5> HIDE DEF It
        <5>5. It(s)[s \ {x}] = It(s \ {x})[s \ {x}]
          BY <5>1, <5>3, <5>4, IteratesAgree
        <5>6. V[s] = It(s)[s]  BY <4>5
        <5>7. SumStep(f, s, V) = f[x] + V[s \ {x}]  BY <3>2 DEF SumStep
        <5> HIDE DEF V, x
        <5> QED BY <5>2, <5>5, <5>6, <5>7, <4>3
      <4> QED BY <4>4, <4>5
    <3> QED BY <3>1, <3>2
  <2>2. V = [s \in SUBSET T |-> V[s]]  OBVIOUS
  <2> HIDE DEF V
  <2>3. SumIteration(f, T, V)  BY <2>1, <2>2 DEF SumIteration
  <2> QED BY <2>3
<1> HIDE DEF Q
<1>2. \A T \in SUBSET S : T \in Q  BY <1>1, SubsetInduction
<1>3. \A T \in SUBSET S : SumIteration(f, T, It(T))  BY <1>2 DEF Q
<1>4. It(S)[S] = SumStep(f, S, It(S))
  <2>1. SumIteration(f, S, It(S))  BY <1>3
  <2> HIDE DEF It
  <2> QED BY <2>1 DEF SumIteration
<1>5. CASE S = {}  BY <1>5, <1>4, <1>3, <1>0 DEF SumStep
<1>6. CASE S # {}
  <2> DEFINE x == CHOOSE x \in S : TRUE
  <2>1. x \in S  BY <1>6
  <2>2. It(S)[S] = f[x] + It(S)[S \ {x}]  BY <1>4, <1>6 DEF SumStep
  <2>3. IsFiniteSet(S \ {x})  BY FS_Subset
  <2>4. SumIteration(f, S, It(S)) /\ SumIteration(f, S \ {x}, It(S \ {x}))  BY <1>3
  <2> HIDE DEF It, x
  <2>5. It(S)[S \ {x}] = It(S \ {x})[S \ {x}]  BY <2>3, <2>4, IteratesAgree
  <2>6. SumFunctionOnSet(f, S) = f[x] + SumFunctionOnSet(f, S \ {x})
    BY <1>0, <2>2, <2>5
  <2> QED BY <2>4, <2>6, <1>6 DEF It, x
<1> QED BY <1>5, <1>6

(* The sum over no elements. *)
LEMMA SumEmpty == ASSUME NEW f PROVE SumFunctionOnSet(f, {}) = 0
BY SumUnfolds, FS_EmptySet

(* A sum of integers, or of naturals, is one. *)
LEMMA SumType ==
    ASSUME NEW f, NEW S, IsFiniteSet(S), NEW R, R = Int \/ R = Nat, \A x \in S : f[x] \in R
    PROVE  SumFunctionOnSet(f, S) \in R
<1> DEFINE Q == {T \in SUBSET S : SumFunctionOnSet(f, T) \in R}
<1>1. ASSUME NEW T \in SUBSET S, \A U \in SUBSET T : U # T => U \in Q PROVE T \in Q
  <2>1. IsFiniteSet(T)  BY FS_Subset
  <2>2. CASE T = {}  BY <2>2, SumEmpty
  <2>3. CASE T # {}
    <3> DEFINE x == CHOOSE x \in T : TRUE
    <3>1. x \in T  BY <2>3
    <3>2. SumFunctionOnSet(f, T \ {x}) \in R  BY <3>1, <1>1
    <3>3. SumFunctionOnSet(f, T) = f[x] + SumFunctionOnSet(f, T \ {x})
      BY <2>1, <2>3, SumUnfolds
    <3> QED BY <3>1, <3>2, <3>3
  <2> QED BY <2>2, <2>3
<1> HIDE DEF Q
<1>2. S \in Q  BY <1>1, SubsetInduction
<1> QED BY <1>2 DEF Q

(* Any element may be summed first. *)
LEMMA SumTakeOut ==
    ASSUME NEW f, NEW S, IsFiniteSet(S), \A x \in S : f[x] \in Int, NEW y \in S
    PROVE  SumFunctionOnSet(f, S) = f[y] + SumFunctionOnSet(f, S \ {y})
<1> DEFINE Q == {T \in SUBSET S : \A z \in T :
                    SumFunctionOnSet(f, T) = f[z] + SumFunctionOnSet(f, T \ {z})}
<1>1. ASSUME NEW T \in SUBSET S, \A U \in SUBSET T : U # T => U \in Q PROVE T \in Q
  <2> SUFFICES ASSUME NEW z \in T
               PROVE  SumFunctionOnSet(f, T) = f[z] + SumFunctionOnSet(f, T \ {z})
    OBVIOUS
  <2>1. \A U \in SUBSET S : IsFiniteSet(U)  BY FS_Subset
  <2> DEFINE x == CHOOSE x \in T : TRUE
  <2>2. x \in T  OBVIOUS
  <2>3. SumFunctionOnSet(f, T) = f[x] + SumFunctionOnSet(f, T \ {x})
    BY <2>1, SumUnfolds
  <2> HIDE DEF x
  <2>4. CASE x = z  BY <2>3, <2>4
  <2>5. CASE x # z
    <3>1. T \ {x} \in Q /\ T \ {z} \in Q  BY <2>2, <1>1
    <3>2. SumFunctionOnSet(f, T \ {x}) = f[z] + SumFunctionOnSet(f, (T \ {x}) \ {z})
      BY <3>1, <2>5
    <3>3. SumFunctionOnSet(f, T \ {z}) = f[x] + SumFunctionOnSet(f, (T \ {z}) \ {x})
      BY <3>1, <2>5, <2>2
    <3>4. (T \ {x}) \ {z} = (T \ {z}) \ {x}  OBVIOUS
    <3>5. SumFunctionOnSet(f, (T \ {x}) \ {z}) \in Int  BY <2>1, SumType
    <3>6. f[x] \in Int /\ f[z] \in Int  BY <2>2
    <3> DEFINE rest == SumFunctionOnSet(f, (T \ {x}) \ {z})
    <3>7. SumFunctionOnSet(f, T) = f[x] + (f[z] + rest)  BY <2>3, <3>2
    <3>8. SumFunctionOnSet(f, T \ {z}) = f[x] + rest  BY <3>3, <3>4
    <3> HIDE DEF rest
    <3> QED BY <3>5, <3>6, <3>7, <3>8 DEF rest
  <2> QED BY <2>4, <2>5
<1> HIDE DEF Q
<1>2. S \in Q  BY <1>1, SubsetInduction
<1> QED BY <1>2 DEF Q

(* One element more.                                                        *)
LEMMA SumAdd ==
    ASSUME NEW f, NEW S, IsFiniteSet(S), NEW y, y \notin S, \A x \in S \cup {y} : f[x] \in Int
    PROVE  SumFunctionOnSet(f, S \cup {y}) = SumFunctionOnSet(f, S) + f[y]
<1>1. IsFiniteSet(S \cup {y})  BY FS_AddElement
<1>2. (S \cup {y}) \ {y} = S  OBVIOUS
<1>3. SumFunctionOnSet(f, S \cup {y}) = f[y] + SumFunctionOnSet(f, S)
  BY <1>1, <1>2, SumTakeOut
<1>4. SumFunctionOnSet(f, S) \in Int  BY SumType
<1> QED BY <1>3, <1>4

(* A sum of no greater values is no greater.                                *)
LEMMA SumAtMost ==
    ASSUME NEW f, NEW g, NEW S, IsFiniteSet(S),
           \A x \in S : f[x] \in Int /\ g[x] \in Int /\ f[x] <= g[x]
    PROVE  SumFunctionOnSet(f, S) <= SumFunctionOnSet(g, S)
<1> DEFINE Q == {T \in SUBSET S : SumFunctionOnSet(f, T) <= SumFunctionOnSet(g, T)}
<1>1. ASSUME NEW T \in SUBSET S, \A U \in SUBSET T : U # T => U \in Q PROVE T \in Q
  <2>1. IsFiniteSet(T)  BY FS_Subset
  <2>2. CASE T = {}  BY <2>2, SumEmpty
  <2>3. CASE T # {}
    <3>1. PICK x \in T : TRUE  BY <2>3
    <3> DEFINE F == SumFunctionOnSet(f, T \ {x})
               G == SumFunctionOnSet(g, T \ {x})
    <3>2. F <= G  BY <3>1, <1>1
    <3>3. F \in Int /\ G \in Int
      <4>1. IsFiniteSet(T \ {x})  BY <2>1, FS_Subset
      <4> QED BY <4>1, SumType
    <3>4. SumFunctionOnSet(f, T) = f[x] + F  BY <2>1, SumTakeOut
    <3>5. SumFunctionOnSet(g, T) = g[x] + G  BY <2>1, SumTakeOut
    <3> HIDE DEF F, G
    <3>6. f[x] \in Int /\ g[x] \in Int /\ f[x] <= g[x]  OBVIOUS
    <3>7. f[x] + F <= g[x] + G  BY <3>2, <3>3, <3>6
    <3> QED BY <3>4, <3>5, <3>7
  <2> QED BY <2>2, <2>3
<1> HIDE DEF Q
<1>2. S \in Q  BY <1>1, SubsetInduction
<1> QED BY <1>2 DEF Q

(* A sum is of the values its set has.                                      *)
LEMMA SumSame ==
    ASSUME NEW f, NEW g, NEW S, IsFiniteSet(S), \A x \in S : f[x] \in Int /\ f[x] = g[x]
    PROVE  SumFunctionOnSet(f, S) = SumFunctionOnSet(g, S)
<1>1. \A x \in S : f[x] \in Int /\ g[x] \in Int /\ f[x] <= g[x] /\ g[x] <= f[x]  OBVIOUS
<1>2. SumFunctionOnSet(f, S) <= SumFunctionOnSet(g, S)  BY <1>1, SumAtMost
<1>3. SumFunctionOnSet(g, S) <= SumFunctionOnSet(f, S)  BY <1>1, SumAtMost
<1>4. SumFunctionOnSet(f, S) \in Int /\ SumFunctionOnSet(g, S) \in Int  BY <1>1, SumType
<1> QED BY <1>2, <1>3, <1>4

(* Where one value changes, the sum changes by as much.                     *)
LEMMA SumChange ==
    ASSUME NEW f, NEW g, NEW S, IsFiniteSet(S), NEW y \in S,
           \A x \in S : f[x] \in Int /\ g[x] \in Int, \A x \in S \ {y} : f[x] = g[x]
    PROVE  SumFunctionOnSet(g, S) = SumFunctionOnSet(f, S) + g[y] - f[y]
<1>1. IsFiniteSet(S \ {y})  BY FS_Subset
<1> DEFINE F == SumFunctionOnSet(f, S \ {y})
<1>2. F = SumFunctionOnSet(g, S \ {y})  BY <1>1, SumSame
<1>3. F \in Int  BY <1>1, SumType
<1>4. SumFunctionOnSet(f, S) = f[y] + F  BY SumTakeOut
<1>5. SumFunctionOnSet(g, S) = g[y] + F  BY <1>2, SumTakeOut
<1> HIDE DEF F
<1>6. g[y] \in Int /\ f[y] \in Int  OBVIOUS
<1>7. g[y] + F = (f[y] + F) + g[y] - f[y]  BY <1>3, <1>6
<1> QED BY <1>4, <1>5, <1>7

(* A part of a set of naturals has no greater sum.                          *)
LEMMA SumOfPart ==
    ASSUME NEW f, NEW S, IsFiniteSet(S), NEW T \in SUBSET S, \A x \in S : f[x] \in Nat
    PROVE  SumFunctionOnSet(f, T) <= SumFunctionOnSet(f, S)
<1> DEFINE Q == {U \in SUBSET S : T \subseteq U => SumFunctionOnSet(f, T) <= SumFunctionOnSet(f, U)}
<1>1. ASSUME NEW U \in SUBSET S, \A V \in SUBSET U : V # U => V \in Q PROVE U \in Q
  <2> SUFFICES ASSUME T \subseteq U PROVE SumFunctionOnSet(f, T) <= SumFunctionOnSet(f, U)
    OBVIOUS
  <2>1. IsFiniteSet(U) /\ IsFiniteSet(T)  BY FS_Subset
  <2>2. CASE U = T
    <3>1. SumFunctionOnSet(f, T) \in Nat  BY <2>1, SumType
    <3> QED BY <3>1, <2>2
  <2>3. CASE U # T
    <3>1. PICK x \in U : x \notin T  BY <2>3
    <3> DEFINE F == SumFunctionOnSet(f, U \ {x})
    <3>2. SumFunctionOnSet(f, T) <= F  BY <3>1, <1>1
    <3>3. F \in Nat /\ SumFunctionOnSet(f, T) \in Nat
      <4>1. IsFiniteSet(U \ {x})  BY <2>1, FS_Subset
      <4> QED BY <4>1, <2>1, SumType
    <3>4. SumFunctionOnSet(f, U) = f[x] + F  BY <2>1, SumTakeOut
    <3>5. f[x] \in Nat  OBVIOUS
    <3> HIDE DEF F
    <3>6. F <= f[x] + F  BY <3>3, <3>5
    <3> QED BY <3>2, <3>3, <3>4, <3>5, <3>6
  <2> QED BY <2>2, <2>3
<1> HIDE DEF Q
<1>2. S \in Q  BY <1>1, SubsetInduction
<1> QED BY <1>2 DEF Q

(* The sum of sums, element by element.                                     *)
LEMMA SumOfSums ==
    ASSUME NEW f, NEW g, NEW h, NEW S, IsFiniteSet(S),
           \A x \in S : f[x] \in Int /\ g[x] \in Int /\ h[x] = f[x] + g[x]
    PROVE  SumFunctionOnSet(h, S) = SumFunctionOnSet(f, S) + SumFunctionOnSet(g, S)
<1> DEFINE Q == {T \in SUBSET S :
                    SumFunctionOnSet(h, T) = SumFunctionOnSet(f, T) + SumFunctionOnSet(g, T)}
<1>1. ASSUME NEW T \in SUBSET S, \A U \in SUBSET T : U # T => U \in Q PROVE T \in Q
  <2>1. IsFiniteSet(T)  BY FS_Subset
  <2>2. CASE T = {}  BY <2>2, SumEmpty
  <2>3. CASE T # {}
    <3>1. PICK x \in T : TRUE  BY <2>3
    <3> DEFINE F == SumFunctionOnSet(f, T \ {x})
               G == SumFunctionOnSet(g, T \ {x})
    <3>2. SumFunctionOnSet(h, T \ {x}) = F + G  BY <3>1, <1>1
    <3>3. F \in Int /\ G \in Int
      <4>1. IsFiniteSet(T \ {x})  BY <2>1, FS_Subset
      <4> QED BY <4>1, SumType
    <3>4. SumFunctionOnSet(f, T) = f[x] + F  BY <2>1, SumTakeOut
    <3>5. SumFunctionOnSet(g, T) = g[x] + G  BY <2>1, SumTakeOut
    <3>6. \A y \in T : h[y] \in Int  OBVIOUS
    <3>7. SumFunctionOnSet(h, T) = (f[x] + g[x]) + (F + G)  BY <2>1, <3>2, <3>6, SumTakeOut
    <3>8. f[x] \in Int /\ g[x] \in Int  OBVIOUS
    <3> HIDE DEF F, G
    <3>9. (f[x] + g[x]) + (F + G) = (f[x] + F) + (g[x] + G)  BY <3>3, <3>8
    <3> QED BY <3>4, <3>5, <3>7, <3>9
  <2> QED BY <2>2, <2>3
<1> HIDE DEF Q
<1>2. S \in Q  BY <1>1, SubsetInduction
<1> QED BY <1>2 DEF Q

(* The sum over two sets with nothing in common.                            *)
LEMMA SumDisjoint ==
    ASSUME NEW f, NEW S, NEW T, IsFiniteSet(S), IsFiniteSet(T), S \cap T = {},
           \A x \in S \cup T : f[x] \in Int
    PROVE  SumFunctionOnSet(f, S \cup T) = SumFunctionOnSet(f, S) + SumFunctionOnSet(f, T)
<1> DEFINE Q == {U \in SUBSET T :
                    SumFunctionOnSet(f, S \cup U) = SumFunctionOnSet(f, S) + SumFunctionOnSet(f, U)}
<1>0. SumFunctionOnSet(f, S) \in Int  BY SumType
<1>1. ASSUME NEW U \in SUBSET T, \A V \in SUBSET U : V # U => V \in Q PROVE U \in Q
  <2>1. IsFiniteSet(U) /\ IsFiniteSet(S \cup U)  BY FS_Subset, FS_Union
  <2>2. CASE U = {}
    <3>1. S \cup U = S  BY <2>2
    <3> QED BY <3>1, <2>2, <1>0, SumEmpty
  <2>3. CASE U # {}
    <3>1. PICK x \in U : TRUE  BY <2>3
    <3> DEFINE F == SumFunctionOnSet(f, S)
               G == SumFunctionOnSet(f, U \ {x})
    <3>2. U \ {x} \in Q  BY <3>1, <1>1
    <3>3. (S \cup U) \ {x} = S \cup (U \ {x})  BY <3>1
    <3>4. SumFunctionOnSet(f, (S \cup U) \ {x}) = F + G  BY <3>2, <3>3
    <3>5. G \in Int
      <4>1. IsFiniteSet(U \ {x})  BY <2>1, FS_Subset
      <4> QED BY <4>1, SumType
    <3>6. SumFunctionOnSet(f, U) = f[x] + G  BY <2>1, SumTakeOut
    <3>7. SumFunctionOnSet(f, S \cup U) = f[x] + (F + G)  BY <2>1, <3>1, <3>4, SumTakeOut
    <3>8. f[x] \in Int  BY <3>1
    <3>9. F \in Int  BY <1>0
    <3> HIDE DEF F, G
    <3>10. f[x] + (F + G) = F + (f[x] + G)  BY <3>5, <3>8, <3>9
    <3>11. SumFunctionOnSet(f, S \cup U) = F + SumFunctionOnSet(f, U)  BY <3>6, <3>7, <3>10
    <3> QED BY <3>11 DEF F
  <2> QED BY <2>2, <2>3
<1> HIDE DEF Q
<1>2. T \in Q  BY <1>1, SubsetInduction
<1> QED BY <1>2 DEF Q

(* The elements of S that are of d.                                         *)
Fibre(of, S, d) == {x \in S : of[x] = d}

(* A sum may be taken group by group.                                       *)
LEMMA SumGrouped ==
    ASSUME NEW f, NEW S, NEW D, IsFiniteSet(S), IsFiniteSet(D), \A x \in S : f[x] \in Int,
           NEW of, \A x \in S : of[x] \in D,
           NEW g, \A d \in D : g[d] = SumFunctionOnSet(f, Fibre(of, S, d))
    PROVE  SumFunctionOnSet(f, S) = SumFunctionOnSet(g, D)
<1> DEFINE Group(E) == {x \in S : of[x] \in E}
<1> DEFINE Q == {E \in SUBSET D : SumFunctionOnSet(f, Group(E)) = SumFunctionOnSet(g, E)}
<1>0. \A d \in D : g[d] \in Int
  <2> TAKE d \in D
  <2>1. IsFiniteSet(Fibre(of, S, d))  BY FS_Subset DEF Fibre
  <2>2. \A x \in Fibre(of, S, d) : f[x] \in Int  BY DEF Fibre
  <2> QED BY <2>1, <2>2, SumType
<1>1. ASSUME NEW E \in SUBSET D, \A V \in SUBSET E : V # E => V \in Q PROVE E \in Q
  <2>1. IsFiniteSet(E)  BY FS_Subset
  <2>2. CASE E = {}
    <3>1. Group(E) = {}  BY <2>2
    <3> QED BY <3>1, <2>2, SumEmpty
  <2>3. CASE E # {}
    <3>1. PICK d \in E : TRUE  BY <2>3
    <3> DEFINE A == Group(E \ {d})
               B == Fibre(of, S, d)
    <3>2. SumFunctionOnSet(f, A) = SumFunctionOnSet(g, E \ {d})  BY <3>1, <1>1
    <3>3. IsFiniteSet(A) /\ IsFiniteSet(B)  BY FS_Subset DEF Fibre
    <3>4. Group(E) = A \cup B /\ A \cap B = {}  BY <3>1 DEF Fibre
    <3>5. \A x \in A \cup B : f[x] \in Int  BY DEF Fibre
    <3>6. g[d] = SumFunctionOnSet(f, B)  BY <3>1
    <3> HIDE DEF A, B, Group
    <3>7. SumFunctionOnSet(f, Group(E)) = SumFunctionOnSet(f, A) + SumFunctionOnSet(f, B)
      BY <3>3, <3>4, <3>5, SumDisjoint
    <3>8. SumFunctionOnSet(g, E) = g[d] + SumFunctionOnSet(g, E \ {d})
      BY <2>1, <1>0, <3>1, SumTakeOut
    <3>9. SumFunctionOnSet(g, E \ {d}) \in Int /\ g[d] \in Int
      <4>1. IsFiniteSet(E \ {d})  BY <2>1, FS_Subset
      <4> QED BY <4>1, <1>0, <3>1, SumType
    <3>10. SumFunctionOnSet(f, Group(E)) = SumFunctionOnSet(g, E \ {d}) + g[d]
      BY <3>2, <3>6, <3>7
    <3>11. SumFunctionOnSet(f, Group(E)) = SumFunctionOnSet(g, E)
      BY <3>8, <3>9, <3>10
    <3> QED BY <3>11
  <2> QED BY <2>2, <2>3
<1>2. D \in Q
  <2> HIDE DEF Q
  <2> QED BY <1>1, SubsetInduction
<1>3. Group(D) = S  OBVIOUS
<1> QED BY <1>2, <1>3

(* Nothing adds up to nothing.                                              *)
LEMMA SumZero ==
    ASSUME NEW g, NEW S, IsFiniteSet(S), \A x \in S : g[x] = 0
    PROVE  SumFunctionOnSet(g, S) = 0
<1> DEFINE Q == {U \in SUBSET S : SumFunctionOnSet(g, U) = 0}
<1>1. ASSUME NEW U \in SUBSET S, \A V \in SUBSET U : V # U => V \in Q PROVE U \in Q
  <2>1. IsFiniteSet(U)  BY FS_Subset
  <2>2. CASE U = {}  BY <2>2, SumEmpty
  <2>3. CASE U # {}
    <3>1. PICK x \in U : TRUE  BY <2>3
    <3>2. SumFunctionOnSet(g, U \ {x}) = 0  BY <3>1, <1>1
    <3>3. \A y \in U : g[y] \in Int  OBVIOUS
    <3>4. SumFunctionOnSet(g, U) = g[x] + SumFunctionOnSet(g, U \ {x})  BY <2>1, <3>3, SumTakeOut
    <3>5. g[x] = 0  BY <3>1
    <3> QED BY <3>2, <3>4, <3>5
  <2> QED BY <2>2, <2>3
<1> HIDE DEF Q
<1>2. S \in Q  BY <1>1, SubsetInduction
<1> QED BY <1>2 DEF Q

(* Elements that count for nothing may be left out.                         *)
LEMMA SumOnly ==
    ASSUME NEW f, NEW g, NEW S, IsFiniteSet(S), NEW T \in SUBSET S,
           \A x \in T : f[x] \in Int /\ g[x] = f[x], \A x \in S \ T : g[x] = 0
    PROVE  SumFunctionOnSet(g, S) = SumFunctionOnSet(f, T)
<1> DEFINE U == S \ T
<1>1. IsFiniteSet(T) /\ IsFiniteSet(U)  BY FS_Subset
<1>2. SumFunctionOnSet(g, T) = SumFunctionOnSet(f, T)  BY <1>1, SumSame
<1>3. S = T \cup U /\ T \cap U = {}  OBVIOUS
<1>4. \A x \in T \cup U : g[x] \in Int  OBVIOUS
<1>5. \A x \in U : g[x] = 0  OBVIOUS
<1> HIDE DEF U
<1>6. SumFunctionOnSet(g, U) = 0  BY <1>1, <1>5, SumZero
<1>7. SumFunctionOnSet(g, T \cup U) = SumFunctionOnSet(g, T) + SumFunctionOnSet(g, U)
  BY <1>1, <1>3, <1>4, SumDisjoint
<1>8. SumFunctionOnSet(f, T) \in Int  BY <1>1, SumType
<1> QED BY <1>2, <1>3, <1>6, <1>7, <1>8

(* The sum over a single element is its value.                              *)
LEMMA SumOne ==
    ASSUME NEW f, NEW x, f[x] \in Int
    PROVE  SumFunctionOnSet(f, {x}) = f[x]
<1> DEFINE S == {x}
<1>1. IsFiniteSet(S) /\ x \in S /\ S \ {x} = {} /\ \A y \in S : f[y] \in Int
  BY FS_Singleton
<1> HIDE DEF S
<1>2. SumFunctionOnSet(f, S) = f[x] + SumFunctionOnSet(f, S \ {x})  BY <1>1, SumTakeOut
<1>3. SumFunctionOnSet(f, S \ {x}) = 0  BY <1>1, SumEmpty
<1> QED BY <1>2, <1>3 DEF S

-----------------------------------------------------------------------------
(* Least and greatest elements. *)

(* A finite set of integers has a least element, and Min is it.            *)
LEMMA MinIsLeast ==
    ASSUME NEW S, IsFiniteSet(S), S # {}, \A x \in S : x \in Int
    PROVE  Min(S) \in S /\ \A y \in S : Min(S) <= y
<1> DEFINE Q == {T \in SUBSET S : T = {} \/ \E x \in T : \A y \in T : x <= y}
<1>1. ASSUME NEW T \in SUBSET S, \A U \in SUBSET T : U # T => U \in Q PROVE T \in Q
  <2>1. CASE T = {}  BY <2>1
  <2>2. CASE T # {}
    <3>1. PICK z \in T : TRUE  BY <2>2
    <3>2. T \ {z} \in Q  BY <1>1, <3>1
    <3>3. CASE T \ {z} = {}
      <4>1. \A y \in T : y = z  BY <3>3
      <4> QED BY <3>1, <4>1
    <3>4. CASE T \ {z} # {}
      <4>1. PICK x \in T \ {z} : \A y \in T \ {z} : x <= y  BY <3>2, <3>4
      <4>2. CASE x <= z
        <5>1. \A y \in T : x <= y  BY <4>1, <4>2
        <5> QED BY <4>1, <5>1
      <4>3. CASE ~(x <= z)
        <5>1. \A y \in T : z <= y
          <6> TAKE y \in T
          <6>1. x \in Int /\ z \in Int /\ y \in Int  BY <3>1, <4>1
          <6> QED BY <4>1, <4>3, <6>1
        <5> QED BY <3>1, <5>1
      <4> QED BY <4>2, <4>3
    <3> QED BY <3>3, <3>4
  <2> QED BY <2>1, <2>2
<1> HIDE DEF Q
<1>2. S \in Q  BY <1>1, SubsetInduction
<1>3. \E x \in S : \A y \in S : x <= y  BY <1>2 DEF Q
<1> QED BY <1>3 DEF Min

(* ... and a greatest, and Max is it.                                       *)
LEMMA MaxIsGreatest ==
    ASSUME NEW S, IsFiniteSet(S), S # {}, \A x \in S : x \in Int
    PROVE  Max(S) \in S /\ \A y \in S : y <= Max(S)
<1> DEFINE Q == {T \in SUBSET S : T = {} \/ \E x \in T : \A y \in T : y <= x}
<1>1. ASSUME NEW T \in SUBSET S, \A U \in SUBSET T : U # T => U \in Q PROVE T \in Q
  <2>1. CASE T = {}  BY <2>1
  <2>2. CASE T # {}
    <3>1. PICK z \in T : TRUE  BY <2>2
    <3>2. T \ {z} \in Q  BY <1>1, <3>1
    <3>3. CASE T \ {z} = {}
      <4>1. \A y \in T : y = z  BY <3>3
      <4> QED BY <3>1, <4>1
    <3>4. CASE T \ {z} # {}
      <4>1. PICK x \in T \ {z} : \A y \in T \ {z} : y <= x  BY <3>2, <3>4
      <4>2. CASE z <= x
        <5>1. \A y \in T : y <= x  BY <4>1, <4>2
        <5> QED BY <4>1, <5>1
      <4>3. CASE ~(z <= x)
        <5>1. \A y \in T : y <= z
          <6> TAKE y \in T
          <6>1. x \in Int /\ z \in Int /\ y \in Int  BY <3>1, <4>1
          <6> QED BY <4>1, <4>3, <6>1
        <5> QED BY <3>1, <5>1
      <4> QED BY <4>2, <4>3
    <3> QED BY <3>3, <3>4
  <2> QED BY <2>1, <2>2
<1> HIDE DEF Q
<1>2. S \in Q  BY <1>1, SubsetInduction
<1>3. \E x \in S : \A y \in S : y <= x  BY <1>2 DEF Q
<1>4. PICK x \in S : \A y \in S : x >= y
  <2>1. PICK x \in S : \A y \in S : y <= x  BY <1>3
  <2>2. \A y \in S : x >= y  BY <2>1
  <2> QED BY <2>2
<1>5. Max(S) \in S /\ \A y \in S : Max(S) >= y  BY <1>4 DEF Max
<1>6. \A y \in S : y <= Max(S)
  <2> TAKE y \in S
  <2>1. y \in Int /\ Max(S) \in Int /\ Max(S) >= y  BY <1>5
  <2> QED BY <2>1
<1> QED BY <1>5, <1>6

(* Of two numbers the least and the greatest.                               *)
LEMMA OfTwo ==
    ASSUME NEW a \in Int, NEW b \in Int
    PROVE  /\ Min({a, b}) \in {a, b} /\ Min({a, b}) <= a /\ Min({a, b}) <= b
           /\ Max({a, b}) \in {a, b} /\ a <= Max({a, b}) /\ b <= Max({a, b})
<1> DEFINE S == {a, b}
<1>1. IsFiniteSet(S)
  <2>1. S = {a} \cup {b}  OBVIOUS
  <2>2. IsFiniteSet({a})  BY FS_Singleton
  <2>3. IsFiniteSet({a} \cup {b})  BY <2>2, FS_AddElement
  <2> QED BY <2>1, <2>3
<1>2. S # {} /\ (\A x \in S : x \in Int) /\ a \in S /\ b \in S  OBVIOUS
<1> HIDE DEF S
<1>3. Min(S) \in S /\ \A y \in S : Min(S) <= y  BY <1>1, <1>2, MinIsLeast
<1>4. Max(S) \in S /\ \A y \in S : y <= Max(S)  BY <1>1, <1>2, MaxIsGreatest
<1> QED BY <1>2, <1>3, <1>4 DEF S

(* Numbers from 1 on without a gap are the first as many.                  *)
LEMMA NoGap ==
    ASSUME NEW n \in Nat, NEW S \in SUBSET (1..n),
           \A i, j \in 1..n : i < j /\ j \in S => i \in S
    PROVE  Cardinality(S) \in 0..n /\ S = 1..Cardinality(S)
<1>1. IsFiniteSet(1..n) /\ Cardinality(1..n) = n  BY FS_Interval
<1>2. IsFiniteSet(S) /\ Cardinality(S) \in Nat /\ Cardinality(S) <= n
  BY <1>1, FS_Subset, FS_CardinalityType
<1>3. CASE S = {}
  <2>1. Cardinality(S) = 0  BY <1>3, FS_EmptySet
  <2> QED BY <1>3, <2>1
<1>4. CASE S # {}
  <2>0. \A x \in S : x \in Int  OBVIOUS
  <2>1. Max(S) \in S /\ \A y \in S : y <= Max(S)  BY <1>2, <1>4, <2>0, MaxIsGreatest
  <2> DEFINE m == Max(S)
  <2>3. m \in 1..n /\ m \in S  BY <2>1
  <2> HIDE DEF m
  <2>2. S = 1..m
    <3>1. ASSUME NEW i \in 1..m PROVE i \in S
      <4>1. i \in 1..n  BY <2>3
      <4>2. i = m \/ i < m  BY <2>3
      <4> QED BY <2>3, <4>1, <4>2
    <3>2. ASSUME NEW i \in S PROVE i \in 1..m
      <4>1. i \in 1..n /\ i <= m  BY <2>1 DEF m
      <4> QED BY <2>3, <4>1
    <3> QED BY <3>1, <3>2
  <2>4. Cardinality(1..m) = m  BY <2>3, FS_Interval
  <2> QED BY <2>2, <2>3, <2>4
<1> QED BY <1>2, <1>3, <1>4

=============================================================================
