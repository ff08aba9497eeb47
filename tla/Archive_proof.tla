--------------------------- MODULE Archive_proof ---------------------------
(***************************************************************************)
(* Proofs about the measurement archive: its line files (LineFile, and     *)
(* that they implement LineLog) and the claims on its cells (CellClaims),  *)
(* for any lines, readers, editors, inodes, walks, cells and panels.       *)
(*                                                                         *)
(* Line files. The lemmas go from sequences to files: the lines of bytes,  *)
(* the bytes of lines, what an append, a cut, a read and a rewrite leave   *)
(* of a file that is whole lines and at most one torn head. Then types,    *)
(* files and marks are kept by each step, and each step is one of the log. *)
(***************************************************************************)
EXTENDS LineFile, CellClaims, SetFacts, SequenceTheorems, TLAPS

(* Induction on the naturals and on sequences, over a set.                 *)
LEMMA CountUp ==
    ASSUME NEW Q, 0 \in Q, \A n \in Nat : n \in Q => n + 1 \in Q
    PROVE  \A n \in Nat : n \in Q
<1> SUFFICES ASSUME NEW m \in Nat, m \notin Q PROVE FALSE  OBVIOUS
<1> DEFINE S == {n \in 0..m : n \notin Q}
<1>1. IsFiniteSet(0..m) /\ S \in SUBSET (0..m)  BY FS_Interval
<1>2. IsFiniteSet(S) /\ m \in S /\ \A n \in S : n \in Int  BY <1>1, FS_Subset
<1>3. S # {}  BY <1>2
<1>4. PICK k \in S : \A n \in S : k <= n
  <2> HIDE DEF S
  <2> QED BY <1>2, <1>3, MinIsLeast
<1>5. k \in 0..m /\ k # 0  BY <1>4
<1>6. k - 1 \in Nat /\ k - 1 \notin S  BY <1>4, <1>5
<1>7. k - 1 \in Q  BY <1>5, <1>6
<1>8. (k - 1) + 1 \in Q  BY <1>6, <1>7
<1> QED BY <1>4, <1>5, <1>8

(* ... and on sequences, one element after another.                        *)
LEMMA GrowSeq ==
    ASSUME NEW S, NEW Q, <<>> \in Q,
           \A s \in Seq(S), e \in S : s \in Q => Append(s, e) \in Q
    PROVE  \A s \in Seq(S) : s \in Q
<1> DEFINE P == {n \in Nat : \A s \in Seq(S) : Len(s) = n => s \in Q}
<1>1. 0 \in P
  <2> SUFFICES ASSUME NEW s \in Seq(S), Len(s) = 0 PROVE s \in Q  OBVIOUS
  <2>1. s = <<>>  BY EmptySeq
  <2> QED BY <2>1
<1>2. ASSUME NEW n \in Nat, n \in P PROVE n + 1 \in P
  <2> SUFFICES ASSUME NEW s \in Seq(S), Len(s) = n + 1 PROVE s \in Q  OBVIOUS
  <2>1. s # <<>>  BY <1>2, EmptySeq
  <2>2. PICK t \in Seq(S), e \in S : s = Append(t, e)  BY <2>1, SequenceEmptyOrAppend
  <2>3. Len(t) = n  BY <2>2, AppendProperties, LenProperties
  <2> QED BY <1>2, <2>2, <2>3
<1> HIDE DEF P
<1>3. \A n \in Nat : n \in P  BY <1>1, <1>2, CountUp
<1> QED BY <1>3, LenProperties DEF P

(* A function that is defined from one number to the next: each step stays *)
(* in V, and the function g begins with a.                                 *)
GoesInto(G, N, V) == \A n \in 1..N, v \in V : G[<<n, v>>] \in V
ByStep(g, a, G, N, V) ==
    g \in [0..N -> V] /\ g[0] = a /\ \A n \in 1..N : g[n] = G[<<n, g[n - 1]>>]

(* Such a function exists.                                                 *)
LEMMA StepsDefine ==
    ASSUME NEW V, NEW a \in V, NEW N \in Nat, NEW G, GoesInto(G, N, V)
    PROVE  \E g : ByStep(g, a, G, N, V)
<1>0. \A n \in 1..N, v \in V : G[<<n, v>>] \in V  BY DEF GoesInto
<1> DEFINE Fits(g, k) == g[0] = a /\ \A n \in 1..k : g[n] = G[<<n, g[n - 1]>>]
           P == {k \in Nat : k <= N => \E g \in [0..k -> V] : Fits(g, k)}
<1>1. 0 \in P
  <2> DEFINE g == [n \in 0..0 |-> a]
  <2>1. g \in [0..0 -> V] /\ g[0] = a  OBVIOUS
  <2>2. Fits(g, 0)  BY <2>1
  <2> QED BY <2>1, <2>2
<1>2. ASSUME NEW k \in Nat, k \in P PROVE k + 1 \in P
  <2> SUFFICES ASSUME k + 1 <= N PROVE \E g \in [0..(k + 1) -> V] : Fits(g, k + 1)  OBVIOUS
  <2>1. PICK g \in [0..k -> V] : Fits(g, k)  BY <1>2
  <2> DEFINE h == [n \in 0..(k + 1) |-> IF n = k + 1 THEN G[<<k + 1, g[k]>>] ELSE g[n]]
  <2>2. h \in [0..(k + 1) -> V]
    <3>1. G[<<k + 1, g[k]>>] \in V  BY <1>0
    <3> QED BY <3>1
  <2>3. h[0] = a  BY <2>1
  <2>4. ASSUME NEW n \in 1..(k + 1) PROVE h[n] = G[<<n, h[n - 1]>>]
    <3>1. h[n - 1] = g[n - 1]  BY <2>4
    <3>2. CASE n = k + 1
      <4>1. h[n] = G[<<k + 1, g[k]>>]  BY <3>2
      <4>2. n = k + 1 /\ n - 1 = k  BY <3>2
      <4>3. h[n - 1] = g[k]  BY <3>1, <4>2
      <4> HIDE DEF h
      <4> QED BY <4>1, <4>2, <4>3
    <3>3. CASE n # k + 1
      <4>1. n \in 1..k  BY <3>3
      <4>2. h[n] = g[n]  BY <3>3
      <4>3. g[n] = G[<<n, g[n - 1]>>]  BY <2>1, <4>1
      <4> HIDE DEF h
      <4> QED BY <3>1, <4>2, <4>3
    <3> QED BY <3>2, <3>3
  <2> HIDE DEF h
  <2> QED BY <2>2, <2>3, <2>4
<1>3. \A n \in Nat : n \in P
  <2> HIDE DEF P
  <2> QED BY <1>1, <1>2, CountUp
<1>4. PICK g \in [0..N -> V] : Fits(g, N)  BY <1>3
<1> QED BY <1>4 DEF ByStep

(* What a torn append leaves: nothing, or the head of its line.            *)
Fragments == {<<>>} \cup {<<HeadOf(l)>> : l \in Lines}

(* A line as bytes: it begins with its head, ends in its newline, and has  *)
(* no other newline.                                                       *)
LEMMA BytesAre ==
    ASSUME NEW x \in Line
    PROVE  /\ x[1] \in Lines /\ x[2] \in Forms /\ x = <<x[1], x[2]>>
           /\ Bytes(x) \in Seq(Pieces) /\ Len(Bytes(x)) \in {2, 3}
           /\ \A i \in 1..Len(Bytes(x)) : (Bytes(x)[i][1] = "tail") <=> (i = Len(Bytes(x)))
           /\ Bytes(x)[Len(Bytes(x))] = <<"tail", x>>
           /\ Bytes(x)[1] = HeadOf(x[1])
           /\ x[2] = "full" => Bytes(x) = <<HeadOf(x[1]), <<"body", x[1]>>, TailOf(x)>>
           /\ x[2] # "full" => Bytes(x) = <<HeadOf(x[1]), TailOf(x)>>
<1>1. x[1] \in Lines /\ x[2] \in Forms /\ x = <<x[1], x[2]>>  BY DEF Line
<1>2. ToSet(Bytes(x)) \subseteq Pieces  BY DEF Pieces
<1>3. \A i \in DOMAIN Bytes(x) : Bytes(x)[i] \in Pieces  BY <1>2 DEF ToSet
<1>4. CASE x[2] = "full"
  <2>1. Bytes(x) = <<HeadOf(x[1]), <<"body", x[1]>>, TailOf(x)>>  BY <1>4 DEF Bytes
  <2>2. Len(Bytes(x)) = 3 /\ DOMAIN Bytes(x) = 1..3  BY <2>1
  <2>3. Bytes(x)[1] = HeadOf(x[1]) /\ Bytes(x)[2] = <<"body", x[1]>> /\ Bytes(x)[3] = TailOf(x)
    BY <2>1
  <2>4. Bytes(x) \in Seq(Pieces)  BY <2>1, <2>2, <1>3
  <2>5. \A i \in 1..3 : (Bytes(x)[i][1] = "tail") <=> (i = 3)
    BY <2>3 DEF HeadOf, TailOf
  <2> QED BY <1>1, <1>4, <2>1, <2>2, <2>3, <2>4, <2>5 DEF TailOf
<1>5. CASE x[2] # "full"
  <2>1. Bytes(x) = <<HeadOf(x[1]), TailOf(x)>>  BY <1>5 DEF Bytes
  <2>2. Len(Bytes(x)) = 2 /\ DOMAIN Bytes(x) = 1..2  BY <2>1
  <2>3. Bytes(x)[1] = HeadOf(x[1]) /\ Bytes(x)[2] = TailOf(x)  BY <2>1
  <2>4. Bytes(x) \in Seq(Pieces)  BY <2>1, <2>2, <1>3
  <2>5. \A i \in 1..2 : (Bytes(x)[i][1] = "tail") <=> (i = 2)
    BY <2>3 DEF HeadOf, TailOf
  <2> QED BY <1>1, <1>5, <2>1, <2>2, <2>3, <2>4, <2>5 DEF TailOf
<1> QED BY <1>4, <1>5

(* A piece that is a newline belongs to a line, and ends it.               *)
LEMMA TailPiece ==
    ASSUME NEW p \in Pieces, p[1] = "tail"
    PROVE  p[2] \in Line /\ p = <<"tail", p[2]>>
<1>1. PICK x \in Line : p \in ToSet(Bytes(x))  BY DEF Pieces
<1>2. PICK i \in DOMAIN Bytes(x) : p = Bytes(x)[i]  BY <1>1 DEF ToSet
<1>3. i \in 1..Len(Bytes(x))  BY <1>2, BytesAre, LenProperties
<1>4. i = Len(Bytes(x))  BY <1>2, <1>3, BytesAre
<1>5. p = <<"tail", x>>  BY <1>2, <1>4, BytesAre
<1> QED BY <1>5

(* The head of a line is no newline.                                       *)
LEMMA HeadPiece ==
    ASSUME NEW l \in Lines
    PROVE  HeadOf(l) \in Pieces /\ HeadOf(l)[1] # "tail" /\ <<HeadOf(l)>> \in Seq(Pieces)
<1>1. Full(l) \in Line /\ Full(l)[1] = l  BY DEF Full, Line, Forms
<1>2. Bytes(Full(l)) \in Seq(Pieces) /\ Len(Bytes(Full(l))) \in {2, 3}
      /\ Bytes(Full(l))[1] = HeadOf(l)
  BY <1>1, BytesAre
<1>3. HeadOf(l) \in Pieces  BY <1>2
<1> QED BY <1>3 DEF HeadOf

-----------------------------------------------------------------------------
(* Lines and files.                                                        *)

(* The function by which CompleteLines is defined.                         *)
LinesIter(f, g) ==
    g = [n \in 0..Len(f) |->
            IF n = 0 THEN <<>>
            ELSE IF f[n][1] = "tail" THEN Append(g[n - 1], f[n][2]) ELSE g[n - 1]]

(* CompleteLines takes its last value ...                                  *)
LEMMA LinesIterate ==
    ASSUME NEW f
    PROVE  CompleteLines(f) = (CHOOSE g : LinesIter(f, g))[Len(f)]
BY DEF CompleteLines, LinesIter

(* ... and it exists for every file.                                       *)
LEMMA LinesIterExists ==
    ASSUME NEW f \in Seq(Pieces)
    PROVE  \E g : LinesIter(f, g) /\ g \in [0..Len(f) -> Seq(Line)]
<1> DEFINE N == Len(f)
           V == Seq(Line)
           G == [p \in (1..N) \X V |-> IF f[p[1]][1] = "tail" THEN Append(p[2], f[p[1]][2]) ELSE p[2]]
<1>1. N \in Nat  BY LenProperties
<1>2. ASSUME NEW n \in 1..N, NEW v \in V
      PROVE  G[<<n, v>>] = (IF f[n][1] = "tail" THEN Append(v, f[n][2]) ELSE v) /\ G[<<n, v>>] \in V
  <2>1. <<n, v>> \in (1..N) \X V  OBVIOUS
  <2>2. G[<<n, v>>] = (IF f[n][1] = "tail" THEN Append(v, f[n][2]) ELSE v)  BY <2>1
  <2>3. f[n] \in Pieces  BY <1>1
  <2>4. CASE f[n][1] = "tail"
    <3>1. f[n][2] \in Line  BY <2>3, <2>4, TailPiece
    <3> QED BY <2>2, <2>4, <3>1, AppendProperties
  <2>5. CASE f[n][1] # "tail"  BY <2>2, <2>5
  <2> QED BY <2>2, <2>4, <2>5
<1> HIDE DEF G
<1>3. <<>> \in V /\ \A n \in 1..N, v \in V : G[<<n, v>>] \in V
  <2>1. <<>> \in V  OBVIOUS
  <2>2. \A n \in 1..N, v \in V : G[<<n, v>>] \in V  BY <1>2
  <2> QED BY <2>1, <2>2
<1> HIDE DEF V
<1>4. PICK g : g \in [0..N -> V] /\ g[0] = <<>> /\ \A n \in 1..N : g[n] = G[<<n, g[n - 1]>>]
  <2> HIDE DEF N
  <2>1. GoesInto(G, N, V)  BY <1>3 DEF GoesInto
  <2>2. \E g : ByStep(g, <<>>, G, N, V)  BY <1>1, <1>3, <2>1, StepsDefine
  <2> QED BY <2>2 DEF ByStep
<1>5. \A n \in 1..N : g[n - 1] \in V  BY <1>1, <1>4
<1>6. \A n \in 1..N : g[n] = IF f[n][1] = "tail" THEN Append(g[n - 1], f[n][2]) ELSE g[n - 1]
  BY <1>2, <1>4, <1>5
<1>7. \A n \in 0..N : g[n] = IF n = 0 THEN <<>>
                           ELSE IF f[n][1] = "tail" THEN Append(g[n - 1], f[n][2]) ELSE g[n - 1]
  <2> TAKE n \in 0..N
  <2>1. n = 0 \/ n \in 1..N  BY <1>1
  <2>2. n \in 1..N => n # 0  OBVIOUS
  <2> QED BY <1>4, <1>6, <2>1, <2>2
<1>8. g = [n \in 0..N |-> g[n]]  BY <1>4
<1>9. LinesIter(f, g)  BY <1>7, <1>8 DEF LinesIter
<1> QED BY <1>4, <1>9 DEF V

(* Two iterations agree as far as their files do.                          *)
LEMMA LinesIterAgree ==
    ASSUME NEW f \in Seq(Pieces), NEW e \in Seq(Pieces), NEW g, NEW h, LinesIter(f, g), LinesIter(e, h),
           NEW m \in Nat, m <= Len(f), m <= Len(e), \A i \in 1..m : f[i] = e[i]
    PROVE  g[m] = h[m]
<1> DEFINE Q == {n \in Nat : n <= m => g[n] = h[n]}
<1>0. Len(f) \in Nat /\ Len(e) \in Nat  BY LenProperties
<1>1. \A n \in 0..Len(f) : g[n] = IF n = 0 THEN <<>>
                    ELSE IF f[n][1] = "tail" THEN Append(g[n - 1], f[n][2]) ELSE g[n - 1]
  BY DEF LinesIter
<1>2. \A n \in 0..Len(e) : h[n] = IF n = 0 THEN <<>>
                    ELSE IF e[n][1] = "tail" THEN Append(h[n - 1], e[n][2]) ELSE h[n - 1]
  BY DEF LinesIter
<1>3. 0 \in Q  BY <1>0, <1>1, <1>2
<1>4. ASSUME NEW n \in Nat, n \in Q PROVE n + 1 \in Q
  <2> SUFFICES ASSUME n + 1 <= m PROVE g[n + 1] = h[n + 1]  OBVIOUS
  <2>1. g[n] = h[n]  BY <1>4
  <2>2. n + 1 \in 0..Len(f) /\ n + 1 \in 0..Len(e) /\ n + 1 \in 1..m /\ (n + 1) - 1 = n /\ n + 1 # 0
    BY <1>0
  <2>3. f[n + 1] = e[n + 1]  BY <2>2
  <2>4. g[n + 1] = IF f[n + 1][1] = "tail" THEN Append(g[n], f[n + 1][2]) ELSE g[n]  BY <1>1, <2>2
  <2>5. h[n + 1] = IF e[n + 1][1] = "tail" THEN Append(h[n], e[n + 1][2]) ELSE h[n]  BY <1>2, <2>2
  <2> QED BY <2>1, <2>3, <2>4, <2>5
<1> HIDE DEF Q
<1>5. m \in Q  BY <1>3, <1>4, CountUp
<1> QED BY <1>5 DEF Q

(* No bytes have no lines; a piece more is a line more where it is a       *)
(* newline.                                                                *)
LEMMA LinesOfNone == CompleteLines(<<>>) = <<>>
<1>1. <<>> \in Seq(Pieces) /\ Len(<<>>) = 0  BY EmptySeq
<1>2. \E g : LinesIter(<<>>, g)  BY <1>1, LinesIterExists
<1> DEFINE g == CHOOSE g : LinesIter(<<>>, g)
<1>3. LinesIter(<<>>, g)  BY <1>2
<1>4. CompleteLines(<<>>) = g[0]  BY <1>1, LinesIterate
<1> HIDE DEF g
<1>5. g[0] = <<>>  BY <1>1, <1>3 DEF LinesIter
<1> QED BY <1>4, <1>5

(* ... a piece more is a line more where it is a newline.                  *)
LEMMA LinesOfOneMore ==
    ASSUME NEW f \in Seq(Pieces), NEW p \in Pieces
    PROVE  /\ CompleteLines(f) \in Seq(Line)
           /\ CompleteLines(Append(f, p)) =
                IF p[1] = "tail" THEN Append(CompleteLines(f), p[2]) ELSE CompleteLines(f)
<1> DEFINE e == Append(f, p)
           g == CHOOSE g : LinesIter(f, g)
           h == CHOOSE h : LinesIter(e, h)
           n == Len(f)
<1>1. /\ e \in Seq(Pieces) /\ Len(e) = n + 1 /\ n \in Nat
      /\ (\A i \in 1..n : e[i] = f[i]) /\ e[n + 1] = p
  BY AppendProperties, LenProperties
<1>2. LinesIter(f, g) /\ LinesIter(e, h)  BY <1>1, LinesIterExists
<1>3. CompleteLines(f) = g[n] /\ CompleteLines(e) = h[n + 1]  BY <1>1, LinesIterate
<1>4. PICK k : LinesIter(f, k) /\ k \in [0..n -> Seq(Line)]  BY LinesIterExists
<1> HIDE DEF g, h, e
<1>5. \A i \in 1..n : f[i] = f[i]  OBVIOUS
<1>6. g[n] = k[n]  BY <1>1, <1>2, <1>4, LinesIterAgree
<1>7. g[n] = h[n]  BY <1>1, <1>2, LinesIterAgree
<1>8. h[n + 1] = IF e[n + 1][1] = "tail" THEN Append(h[n], e[n + 1][2]) ELSE h[n]
  <2>1. n + 1 \in 0..Len(e) /\ n + 1 # 0 /\ (n + 1) - 1 = n  BY <1>1
  <2> QED BY <1>2, <2>1 DEF LinesIter
<1>9. k[n] \in Seq(Line)  BY <1>1, <1>4
<1> QED BY <1>1, <1>3, <1>6, <1>7, <1>8, <1>9, SMTT(20) DEF e

(* Appending and concatenating change places.                              *)
LEMMA AppendAfter ==
    ASSUME NEW S, NEW s \in Seq(S), NEW t \in Seq(S), NEW e \in S
    PROVE  s \o Append(t, e) = Append(s \o t, e)
BY AppendIsConcat, ConcatAssociative, ConcatProperties, EmptySeq

(* What is complete in a file is a sequence of lines.                      *)
LEMMA LinesType ==
    ASSUME NEW f \in Seq(Pieces)
    PROVE  CompleteLines(f) \in Seq(Line)
<1>1. CASE f = <<>>
  <2>1. <<>> \in Seq(Line)  OBVIOUS
  <2> QED BY <1>1, <2>1, LinesOfNone
<1>2. CASE f # <<>>
  <2>1. f[1] \in Pieces  BY <1>2
  <2> QED BY <2>1, LinesOfOneMore
<1> QED BY <1>1, <1>2

(* The lines of two stretches of bytes, where the one follows the other.   *)
LEMMA LinesOfBoth ==
    ASSUME NEW f \in Seq(Pieces), NEW e \in Seq(Pieces)
    PROVE  CompleteLines(f \o e) = CompleteLines(f) \o CompleteLines(e)
<1> DEFINE Q == {s \in Seq(Pieces) : CompleteLines(f \o s) = CompleteLines(f) \o CompleteLines(s)}
<1>0. \A s \in Seq(Pieces) : CompleteLines(s) \in Seq(Line)  BY LinesType
<1>1. <<>> \in Q
  <2>1. f \o <<>> = f  BY ConcatEmptySeq
  <2>2. CompleteLines(f) \o <<>> = CompleteLines(f)  BY <1>0, ConcatEmptySeq
  <2>3. <<>> \in Seq(Pieces)  OBVIOUS
  <2> QED BY <2>1, <2>2, <2>3, LinesOfNone
<1>2. ASSUME NEW s \in Seq(Pieces), NEW p \in Pieces, s \in Q PROVE Append(s, p) \in Q
  <2>1. Append(s, p) \in Seq(Pieces) /\ f \o s \in Seq(Pieces)  BY AppendProperties, ConcatProperties
  <2>2. f \o Append(s, p) = Append(f \o s, p)  OBVIOUS
  <2>3. CompleteLines(f \o Append(s, p)) =
            IF p[1] = "tail" THEN Append(CompleteLines(f \o s), p[2]) ELSE CompleteLines(f \o s)
    BY <2>1, <2>2, LinesOfOneMore
  <2>4. CompleteLines(Append(s, p)) =
            IF p[1] = "tail" THEN Append(CompleteLines(s), p[2]) ELSE CompleteLines(s)
    BY LinesOfOneMore
  <2>5. CompleteLines(f \o s) = CompleteLines(f) \o CompleteLines(s)  BY <1>2
  <2>6. p[1] = "tail" => p[2] \in Line  BY TailPiece
  <2>7. p[1] = "tail" => CompleteLines(f) \o Append(CompleteLines(s), p[2]) =
                           Append(CompleteLines(f) \o CompleteLines(s), p[2])
    <3>1. CompleteLines(f) \in Seq(Line) /\ CompleteLines(s) \in Seq(Line)  BY LinesType
    <3> QED BY <3>1, <2>6, AppendAfter
  <2>8. CompleteLines(f \o Append(s, p)) = CompleteLines(f) \o CompleteLines(Append(s, p))
    <3>1. CASE p[1] = "tail"  BY <3>1, <2>3, <2>4, <2>5, <2>7
    <3>2. CASE p[1] # "tail"  BY <3>2, <2>3, <2>4, <2>5
    <3> QED BY <3>1, <3>2
  <2> DEFINE t == Append(s, p)
  <2>9. t \in Seq(Pieces) /\ CompleteLines(f \o t) = CompleteLines(f) \o CompleteLines(t)
    BY <2>1, <2>8
  <2> HIDE DEF t
  <2>10. t \in Q  BY <2>9
  <2> QED BY <2>10 DEF t
<1> HIDE DEF Q
<1>3. e \in Q  BY <1>1, <1>2, GrowSeq
<1> QED BY <1>3 DEF Q

(* What the first lines are as bytes, for one number of lines after        *)
(* another.                                                                *)
BytesUpTo(ls, g) ==
    /\ g \in [0..Len(ls) -> Seq(Pieces)]
    /\ g[0] = <<>>
    /\ \A n \in 1..Len(ls) : g[n] = g[n - 1] \o Bytes(ls[n])

(* It exists for every sequence of lines ...                               *)
LEMMA BytesUpToExists ==
    ASSUME NEW ls \in Seq(Line)
    PROVE  \E g : BytesUpTo(ls, g)
<1> DEFINE N == Len(ls)
           V == Seq(Pieces)
           G == [p \in (1..N) \X V |-> p[2] \o Bytes(ls[p[1]])]
<1>1. N \in Nat  BY LenProperties
<1>2. ASSUME NEW n \in 1..N, NEW v \in V
      PROVE  G[<<n, v>>] = v \o Bytes(ls[n]) /\ G[<<n, v>>] \in V
  <2>1. <<n, v>> \in (1..N) \X V  OBVIOUS
  <2>2. G[<<n, v>>] = v \o Bytes(ls[n])  BY <2>1
  <2>3. ls[n] \in Line  BY <1>1
  <2>4. Bytes(ls[n]) \in Seq(Pieces)  BY <2>3, BytesAre
  <2> QED BY <2>2, <2>4, ConcatProperties
<1> HIDE DEF G
<1>3. <<>> \in V  OBVIOUS
<1>4. PICK g : g \in [0..N -> V] /\ g[0] = <<>> /\ \A n \in 1..N : g[n] = G[<<n, g[n - 1]>>]
  <2>1. \A n \in 1..N, v \in V : G[<<n, v>>] \in V  BY <1>2
  <2> HIDE DEF N, V
  <2>2. GoesInto(G, N, V)  BY <2>1 DEF GoesInto
  <2>3. \E g : ByStep(g, <<>>, G, N, V)  BY <1>1, <1>3, <2>2, StepsDefine
  <2> QED BY <2>3 DEF ByStep
<1>5. \A n \in 1..N : g[n - 1] \in V  BY <1>1, <1>4
<1>6. \A n \in 1..N : g[n] = g[n - 1] \o Bytes(ls[n])  BY <1>2, <1>4, <1>5
<1> QED BY <1>4, <1>6 DEF BytesUpTo

(* ... and two of them agree as far as their lines do.                     *)
LEMMA BytesAgree ==
    ASSUME NEW ls \in Seq(Line), NEW ks \in Seq(Line), NEW g, NEW h, BytesUpTo(ls, g), BytesUpTo(ks, h),
           NEW m \in Nat, m <= Len(ls), m <= Len(ks), \A i \in 1..m : ls[i] = ks[i]
    PROVE  g[m] = h[m]
<1> DEFINE Q == {n \in Nat : n <= m => g[n] = h[n]}
<1>0. Len(ls) \in Nat /\ Len(ks) \in Nat  BY LenProperties
<1>1. 0 \in Q  BY DEF BytesUpTo
<1>2. ASSUME NEW n \in Nat, n \in Q PROVE n + 1 \in Q
  <2> SUFFICES ASSUME n + 1 <= m PROVE g[n + 1] = h[n + 1]  OBVIOUS
  <2>1. g[n] = h[n]  BY <1>2
  <2>2. n + 1 \in 1..Len(ls) /\ n + 1 \in 1..Len(ks) /\ n + 1 \in 1..m /\ (n + 1) - 1 = n  BY <1>0
  <2>3. g[n + 1] = g[n] \o Bytes(ls[n + 1])  BY <2>2 DEF BytesUpTo
  <2>4. h[n + 1] = h[n] \o Bytes(ks[n + 1])  BY <2>2 DEF BytesUpTo
  <2> QED BY <2>1, <2>2, <2>3, <2>4
<1> HIDE DEF Q
<1>3. m \in Q  BY <1>1, <1>2, CountUp
<1> QED BY <1>3 DEF Q

(* One stretch of bytes after another, as FlattenSeq goes on.              *)
Flattens(ss, h) ==
    h = [i \in 1..Len(ss) |-> IF i = 1 THEN ss[i] ELSE h[i - 1] \o ss[i]]

(* FlattenSeq is what it comes to.                                         *)
LEMMA Flattened ==
    ASSUME NEW ss, Len(ss) # 0
    PROVE  FlattenSeq(ss) = (CHOOSE h : Flattens(ss, h))[Len(ss)]
BY DEF FlattenSeq, Flattens

(* FileOf is what BytesUpTo comes to.                                      *)
LEMMA FileIs ==
    ASSUME NEW ls \in Seq(Line), NEW g, BytesUpTo(ls, g)
    PROVE  FileOf(ls) = g[Len(ls)]
<1> DEFINE N == Len(ls)
           ss == [k \in DOMAIN ls |-> Bytes(ls[k])]
<1>1. N \in Nat /\ DOMAIN ls = 1..N  BY LenProperties
<1>2. /\ Len(ss) = N /\ \A n \in 1..N : ss[n] = Bytes(ls[n])
      /\ ss \in Seq(Seq(Pieces))
  <2>1. ss = [k \in 1..N |-> Bytes(ls[k])]  BY <1>1
  <2>2. \A k \in 1..N : Bytes(ls[k]) \in Seq(Pieces)
    <3> TAKE k \in 1..N
    <3>1. ls[k] \in Line  BY <1>1
    <3> QED BY <3>1, BytesAre
  <2>3. ss \in [1..N -> Seq(Pieces)]  BY <2>1, <2>2
  <2>4. ss \in Seq(Seq(Pieces))  BY <1>1, <2>3
  <2> QED BY <1>1, <2>1, <2>4, <2>3
<1>3. FileOf(ls) = FlattenSeq(ss)  BY DEF FileOf
<1> HIDE DEF ss
<1>4. CASE N = 0
  <2>1. FlattenSeq(ss) = ss  BY <1>2, <1>4 DEF FlattenSeq
  <2>2. ss = <<>>  BY <1>2, <1>4, EmptySeq
  <2>3. g[N] = <<>>  BY <1>4 DEF BytesUpTo
  <2> QED BY <1>3, <2>1, <2>2, <2>3
<1>5. CASE N # 0
  <2> DEFINE f == [i \in 1..Len(ss) |-> g[i]]
  <2>1. f = [i \in 1..Len(ss) |-> IF i = 1 THEN ss[i] ELSE f[i - 1] \o ss[i]]
    <3>1. ASSUME NEW i \in 1..Len(ss)
          PROVE  g[i] = IF i = 1 THEN ss[i] ELSE f[i - 1] \o ss[i]
      <4>1. i \in 1..N /\ ss[i] = Bytes(ls[i]) /\ g[i] = g[i - 1] \o Bytes(ls[i])
        BY <1>2 DEF BytesUpTo
      <4>2. CASE i = 1
        <5>1. g[i - 1] = <<>>  BY <4>2 DEF BytesUpTo
        <5>2. ss[i] \in Seq(Pieces)  BY <1>2, <4>1
        <5>3. <<>> \o ss[i] = ss[i]  BY <5>2, ConcatEmptySeq
        <5> QED BY <4>1, <4>2, <5>1, <5>3
      <4>3. CASE i # 1
        <5>1. i - 1 \in 1..Len(ss)  BY <1>1, <1>2, <4>1, <4>3
        <5>2. f[i - 1] = g[i - 1]  BY <5>1
        <5> QED BY <4>1, <4>3, <5>2
      <4> QED BY <4>2, <4>3
    <3> QED BY <3>1
  <2> HIDE DEF f
  <2>2. \E h : Flattens(ss, h)  BY <2>1 DEF Flattens
  <2> DEFINE h == CHOOSE h : Flattens(ss, h)
  <2>3. Flattens(ss, h)  BY <2>2
  <2>4. FlattenSeq(ss) = h[N]  BY <1>2, <1>5, Flattened
  <2> HIDE DEF h
  <2>5. \A i \in 1..N : h[i] = IF i = 1 THEN ss[i] ELSE h[i - 1] \o ss[i]
    BY <1>2, <2>3 DEF Flattens
  <2> DEFINE Q == {n \in Nat : n \in 1..N => h[n] = g[n]}
  <2>6. 0 \in Q  OBVIOUS
  <2>7. ASSUME NEW n \in Nat, n \in Q PROVE n + 1 \in Q
    <3> SUFFICES ASSUME n + 1 \in 1..N PROVE h[n + 1] = g[n + 1]  OBVIOUS
    <3>1. g[n + 1] = g[n] \o ss[n + 1]
      <4>1. (n + 1) - 1 = n  OBVIOUS
      <4> QED BY <1>2, <4>1 DEF BytesUpTo
    <3>2. CASE n = 0
      <4>1. g[n] = <<>>  BY <3>2 DEF BytesUpTo
      <4>2. ss[n + 1] \in Seq(Pieces)  BY <1>2
      <4>3. <<>> \o ss[n + 1] = ss[n + 1]  BY <4>2, ConcatEmptySeq
      <4>4. h[n + 1] = ss[n + 1]  BY <2>5, <3>2
      <4> QED BY <3>1, <4>1, <4>3, <4>4
    <3>3. CASE n # 0
      <4>1. n \in 1..N /\ n + 1 # 1 /\ (n + 1) - 1 = n  BY <3>3, <1>1
      <4>2. h[n] = g[n]  BY <2>7, <4>1
      <4>3. h[n + 1] = h[n] \o ss[n + 1]  BY <2>5, <4>1
      <4> QED BY <3>1, <4>2, <4>3
    <3> QED BY <3>2, <3>3
  <2> HIDE DEF Q
  <2>8. N \in Q  BY <1>1, <2>6, <2>7, CountUp
  <2>9. h[N] = g[N]  BY <1>1, <1>5, <2>8 DEF Q
  <2> QED BY <1>3, <2>4, <2>9
<1> QED BY <1>4, <1>5

(* No lines are no bytes.                                                  *)
LEMMA FileOfNone == FileOf(<<>>) = <<>>
<1>1. <<>> \in Seq(Line) /\ Len(<<>>) = 0  OBVIOUS
<1>2. PICK g : BytesUpTo(<<>>, g)  BY <1>1, BytesUpToExists
<1>3. FileOf(<<>>) = g[0]  BY <1>1, <1>2, FileIs
<1> QED BY <1>2, <1>3 DEF BytesUpTo

(* The bytes of lines are pieces.                                          *)
LEMMA FileOfType ==
    ASSUME NEW ls \in Seq(Line)
    PROVE  FileOf(ls) \in Seq(Pieces) /\ Len(FileOf(ls)) \in Nat
<1>1. PICK g : BytesUpTo(ls, g)  BY BytesUpToExists
<1>2. FileOf(ls) = g[Len(ls)]  BY <1>1, FileIs
<1>3. Len(ls) \in 0..Len(ls)  BY LenProperties
<1>4. FileOf(ls) \in Seq(Pieces)  BY <1>1, <1>2, <1>3 DEF BytesUpTo
<1> QED BY <1>4, LenProperties

(* A line more is its bytes more.                                          *)
LEMMA FileOfOneMore ==
    ASSUME NEW ls \in Seq(Line), NEW x \in Line
    PROVE  FileOf(Append(ls, x)) = FileOf(ls) \o Bytes(x)
<1> DEFINE ks == Append(ls, x)
           n == Len(ls)
<1>1. /\ ks \in Seq(Line) /\ Len(ks) = n + 1 /\ n \in Nat
      /\ (\A i \in 1..n : ls[i] = ks[i]) /\ ks[n + 1] = x
  BY AppendProperties, LenProperties
<1> HIDE DEF ks
<1>2. PICK g : BytesUpTo(ls, g)  BY BytesUpToExists
<1>3. PICK h : BytesUpTo(ks, h)  BY <1>1, BytesUpToExists
<1>4. g[n] = h[n]  BY <1>1, <1>2, <1>3, BytesAgree
<1>5. FileOf(ls) = g[n] /\ FileOf(ks) = h[n + 1]  BY <1>1, <1>2, <1>3, FileIs
<1>6. h[n + 1] = h[n] \o Bytes(ks[n + 1])
  <2>1. n + 1 \in 1..Len(ks) /\ (n + 1) - 1 = n  BY <1>1
  <2> QED BY <1>3, <2>1 DEF BytesUpTo
<1> QED BY <1>1, <1>4, <1>5, <1>6 DEF ks

(* The bytes of lines one after another are their bytes one after another. *)
LEMMA FileOfBoth ==
    ASSUME NEW ls \in Seq(Line), NEW ks \in Seq(Line)
    PROVE  FileOf(ls \o ks) = FileOf(ls) \o FileOf(ks)
<1> DEFINE Q == {s \in Seq(Line) : FileOf(ls \o s) = FileOf(ls) \o FileOf(s)}
<1>1. <<>> \in Q
  <2>1. ls \o <<>> = ls  BY ConcatEmptySeq
  <2>2. FileOf(ls) \o <<>> = FileOf(ls)  BY FileOfType, ConcatEmptySeq
  <2>3. <<>> \in Seq(Line)  OBVIOUS
  <2> QED BY <2>1, <2>2, <2>3, FileOfNone
<1>2. ASSUME NEW s \in Seq(Line), NEW x \in Line, s \in Q PROVE Append(s, x) \in Q
  <2>1. Append(s, x) \in Seq(Line) /\ ls \o s \in Seq(Line)  BY AppendProperties, ConcatProperties
  <2>2. ls \o Append(s, x) = Append(ls \o s, x)  BY AppendAfter
  <2>3. FileOf(ls \o Append(s, x)) = FileOf(ls \o s) \o Bytes(x)  BY <2>1, <2>2, FileOfOneMore
  <2>4. FileOf(Append(s, x)) = FileOf(s) \o Bytes(x)  BY FileOfOneMore
  <2>5. FileOf(ls \o s) = FileOf(ls) \o FileOf(s)  BY <1>2
  <2>6. FileOf(ls) \in Seq(Pieces) /\ FileOf(s) \in Seq(Pieces) /\ Bytes(x) \in Seq(Pieces)
    BY FileOfType, BytesAre
  <2>7. (FileOf(ls) \o FileOf(s)) \o Bytes(x) = FileOf(ls) \o (FileOf(s) \o Bytes(x))
    <3> DEFINE a == FileOf(ls)
               b == FileOf(s)
               c == Bytes(x)
    <3>1. a \in Seq(Pieces) /\ b \in Seq(Pieces) /\ c \in Seq(Pieces)  BY <2>6
    <3> HIDE DEF a, b, c
    <3>2. (a \o b) \o c = a \o (b \o c)  BY <3>1, ConcatAssociative, SMTT(30)
    <3> QED BY <3>2 DEF a, b, c
  <2> DEFINE t == Append(s, x)
  <2>8. t \in Seq(Line) /\ FileOf(ls \o t) = FileOf(ls) \o FileOf(t)
    BY <2>1, <2>3, <2>4, <2>5, <2>7
  <2> HIDE DEF t
  <2>9. t \in Q  BY <2>8
  <2> QED BY <2>9 DEF t
<1> HIDE DEF Q
<1>3. ks \in Q  BY <1>1, <1>2, GrowSeq
<1> QED BY <1>3 DEF Q

(* What two sequences are together, taken apart again.                     *)
LEMMA PartsOf ==
    ASSUME NEW S, NEW s \in Seq(S), NEW t \in Seq(S)
    PROVE  /\ s \o t \in Seq(S)
           /\ Len(s) \in Nat /\ Len(t) \in Nat /\ Len(s \o t) = Len(s) + Len(t)
           /\ SubSeq(s \o t, 1, Len(s)) = s
           /\ \A k \in Nat : SubSeq(s \o t, Len(s) + k + 1, Len(s \o t)) = SubSeq(t, k + 1, Len(t))
           /\ SubSeq(s \o t, Len(s) + 1, Len(s \o t)) = t
<1> DEFINE u == s \o t
<1>1. /\ u \in Seq(S) /\ Len(s) \in Nat /\ Len(t) \in Nat /\ Len(u) = Len(s) + Len(t)
      /\ \A i \in 1..(Len(s) + Len(t)) : u[i] = IF i <= Len(s) THEN s[i] ELSE t[i - Len(s)]
  BY ConcatProperties, LenProperties
<1> HIDE DEF u
<1>2. SubSeq(u, 1, Len(s)) = s
  <2>1. \A i \in 1..Len(s) : u[i] \in S  BY <1>1, ElementOfSeq
  <2>2. /\ SubSeq(u, 1, Len(s)) \in Seq(S) /\ Len(SubSeq(u, 1, Len(s))) = Len(s)
        /\ \A i \in 1..Len(s) : SubSeq(u, 1, Len(s))[i] = u[i]
    BY <1>1, <2>1
  <2>3. \A i \in 1..Len(s) : SubSeq(u, 1, Len(s))[i] = s[i]  BY <1>1, <2>2
  <2> QED BY <2>2, <2>3, SeqEqual
<1>3. ASSUME NEW k \in Nat
      PROVE  SubSeq(u, Len(s) + k + 1, Len(u)) = SubSeq(t, k + 1, Len(t))
  <2> DEFINE a == SubSeq(u, Len(s) + k + 1, Len(u))
             b == SubSeq(t, k + 1, Len(t))
             n == IF k + 1 <= Len(t) THEN Len(t) - k ELSE 0
  <2>1. \A i \in (Len(s) + k + 1)..Len(u) : u[i] \in S  BY <1>1, ElementOfSeq
  <2>2. \A i \in (k + 1)..Len(t) : t[i] \in S  BY <1>1, ElementOfSeq
  <2>3. /\ a \in Seq(S) /\ Len(a) = n
        /\ \A i \in 1..(Len(u) - (Len(s) + k + 1) + 1) : a[i] = u[Len(s) + k + 1 + i - 1]
    BY <1>1, <2>1, SubSeqProperties
  <2>4. /\ b \in Seq(S) /\ Len(b) = n
        /\ \A i \in 1..(Len(t) - (k + 1) + 1) : b[i] = t[k + 1 + i - 1]
    BY <1>1, <2>2, SubSeqProperties
  <2>5. ASSUME NEW i \in 1..n PROVE a[i] = b[i]
    <3>1. k + 1 <= Len(t) /\ i \in 1..(Len(t) - k)  BY <1>1, <2>5
    <3>2. a[i] = u[Len(s) + k + i]
      <4>1. i \in 1..(Len(u) - (Len(s) + k + 1) + 1) /\ Len(s) + k + 1 + i - 1 = Len(s) + k + i
        BY <1>1, <3>1
      <4> QED BY <2>3, <4>1
    <3>3. b[i] = t[k + i]
      <4>1. i \in 1..(Len(t) - (k + 1) + 1) /\ k + 1 + i - 1 = k + i  BY <1>1, <3>1
      <4> QED BY <2>4, <4>1
    <3>4. Len(s) + k + i \in 1..(Len(s) + Len(t)) /\ ~(Len(s) + k + i <= Len(s))
          /\ Len(s) + k + i - Len(s) = k + i
      BY <1>1, <3>1
    <3> QED BY <1>1, <3>2, <3>3, <3>4
  <2> HIDE DEF a, b, n
  <2>6. a = b  BY <2>3, <2>4, <2>5, SeqEqual
  <2> QED BY <2>6 DEF a, b
<1>4. SubSeq(u, Len(s) + 1, Len(u)) = t
  <2>1. SubSeq(u, Len(s) + 0 + 1, Len(u)) = SubSeq(t, 0 + 1, Len(t))  BY <1>3
  <2>2. SubSeq(t, 1, Len(t)) = t  BY SubSeqFull
  <2>3. Len(s) + 0 + 1 = Len(s) + 1 /\ 0 + 1 = 1  BY <1>1
  <2> QED BY <2>1, <2>2, <2>3
<1> QED BY <1>1, <1>2, <1>3, <1>4 DEF u

(* A sequence cut in two is its two parts.                                 *)
LEMMA CutInTwo ==
    ASSUME NEW S, NEW s \in Seq(S), NEW n \in 0..Len(s)
    PROVE  /\ SubSeq(s, 1, n) \in Seq(S) /\ Len(SubSeq(s, 1, n)) = n
           /\ \A i \in 1..n : SubSeq(s, 1, n)[i] = s[i]
           /\ SubSeq(s, n + 1, Len(s)) \in Seq(S) /\ Len(SubSeq(s, n + 1, Len(s))) = Len(s) - n
           /\ \A i \in 1..(Len(s) - n) : SubSeq(s, n + 1, Len(s))[i] = s[n + i]
           /\ SubSeq(s, 1, n) \o SubSeq(s, n + 1, Len(s)) = s
<1>1. Len(s) \in Nat /\ \A i \in 1..Len(s) : s[i] \in S  BY LenProperties, ElementOfSeq
<1>2. \A i \in 1..n : s[i] \in S  BY <1>1
<1>3. \A i \in (n + 1)..Len(s) : s[i] \in S  BY <1>1
<1>4. /\ SubSeq(s, 1, n) \in Seq(S) /\ Len(SubSeq(s, 1, n)) = n
      /\ \A i \in 1..n : SubSeq(s, 1, n)[i] = s[i]
  BY <1>1, <1>2
<1>5. /\ SubSeq(s, n + 1, Len(s)) \in Seq(S) /\ Len(SubSeq(s, n + 1, Len(s))) = Len(s) - n
      /\ \A i \in 1..(Len(s) - n) : SubSeq(s, n + 1, Len(s))[i] = s[n + i]
  BY <1>1, <1>3
<1>6. SubSeq(s, 1, n) \o SubSeq(s, n + 1, Len(s)) = s
  <2> DEFINE a == SubSeq(s, 1, n)
             b == SubSeq(s, n + 1, Len(s))
             c == a \o b
  <2>1. n \in Nat /\ n + (Len(s) - n) = Len(s)  BY <1>1
  <2> HIDE DEF a, b
  <2>2. /\ a \in Seq(S) /\ Len(a) = n /\ \A i \in 1..n : a[i] = s[i]
        /\ b \in Seq(S) /\ Len(b) = Len(s) - n /\ \A i \in 1..(Len(s) - n) : b[i] = s[n + i]
    BY <1>4, <1>5 DEF a, b
  <2>3. /\ c \in Seq(S) /\ Len(c) = Len(a) + Len(b)
        /\ \A i \in 1..(Len(a) + Len(b)) : c[i] = IF i <= Len(a) THEN a[i] ELSE b[i - Len(a)]
    BY <2>2, ConcatProperties
  <2>4. ASSUME NEW i \in 1..Len(s) PROVE c[i] = s[i]
    <3>1. c[i] = IF i <= n THEN a[i] ELSE b[i - n]  BY <2>1, <2>2, <2>3
    <3>2. CASE i <= n
      <4>1. i \in 1..n  BY <3>2, <2>1
      <4> QED BY <3>1, <3>2, <2>2, <4>1
    <3>3. CASE ~(i <= n)
      <4>1. i - n \in 1..(Len(s) - n) /\ n + (i - n) = i  BY <3>3, <1>1, <2>1
      <4> QED BY <3>1, <3>3, <2>2, <4>1
    <3> QED BY <3>2, <3>3
  <2> HIDE DEF c
  <2>5. c = s  BY <2>1, <2>2, <2>3, <2>4, SeqEqual
  <2> QED BY <2>5 DEF a, b, c
<1> QED BY <1>4, <1>5, <1>6

(* What follows the same beginning in the same sequence is the same.       *)
LEMMA Cancels ==
    ASSUME NEW S, NEW s \in Seq(S), NEW t \in Seq(S), NEW u \in Seq(S), s \o t = s \o u
    PROVE  t = u
<1>1. SubSeq(s \o t, Len(s) + 1, Len(s \o t)) = t  BY PartsOf
<1>2. SubSeq(s \o u, Len(s) + 1, Len(s \o u)) = u  BY PartsOf
<1> QED BY <1>1, <1>2

-----------------------------------------------------------------------------
(* What has no newline has no line.                                        *)
LEMMA NoLineIn ==
    ASSUME NEW f \in Seq(Pieces), \A i \in 1..Len(f) : f[i][1] # "tail"
    PROVE  CompleteLines(f) = <<>>
<1> DEFINE Q == {s \in Seq(Pieces) : (\A i \in 1..Len(s) : s[i][1] # "tail") => CompleteLines(s) = <<>>}
<1>1. <<>> \in Q
  <2>1. <<>> \in Seq(Pieces)  OBVIOUS
  <2> QED BY <2>1, LinesOfNone
<1>2. ASSUME NEW s \in Seq(Pieces), NEW p \in Pieces, s \in Q PROVE Append(s, p) \in Q
  <2> DEFINE t == Append(s, p)
  <2>1. /\ t \in Seq(Pieces) /\ Len(t) = Len(s) + 1 /\ Len(s) \in Nat
        /\ (\A i \in 1..Len(s) : t[i] = s[i]) /\ t[Len(s) + 1] = p
    BY AppendProperties, LenProperties
  <2>2. CompleteLines(t) = IF p[1] = "tail" THEN Append(CompleteLines(s), p[2]) ELSE CompleteLines(s)
    BY LinesOfOneMore
  <2> HIDE DEF t
  <2>3. ASSUME \A i \in 1..Len(t) : t[i][1] # "tail" PROVE CompleteLines(t) = <<>>
    <3>1. p[1] # "tail"
      <4>1. Len(s) + 1 \in 1..Len(t)  BY <2>1
      <4> QED BY <2>1, <2>3, <4>1
    <3>2. \A i \in 1..Len(s) : s[i][1] # "tail"
      <4> TAKE i \in 1..Len(s)
      <4>1. i \in 1..Len(t) /\ t[i] = s[i]  BY <2>1
      <4> QED BY <2>3, <4>1
    <3>3. CompleteLines(s) = <<>>  BY <1>2, <3>2
    <3> QED BY <2>2, <3>1, <3>3
  <2>4. t \in Q  BY <2>1, <2>3
  <2> QED BY <2>4 DEF t
<1> HIDE DEF Q
<1>3. f \in Q  BY <1>1, <1>2, GrowSeq
<1> QED BY <1>3 DEF Q

(* A fragment is at most one piece and has no newline, so no line.         *)
LEMMA FragmentIs ==
    ASSUME NEW r \in Fragments
    PROVE  /\ r \in Seq(Pieces) /\ Len(r) \in {0, 1} /\ CompleteLines(r) = <<>>
           /\ \A i \in 1..Len(r) : r[i][1] # "tail"
           /\ r # <<>> => \E l \in Lines : r = <<HeadOf(l)>>
<1>1. CASE r = <<>>
  <2>1. <<>> \in Seq(Pieces) /\ Len(<<>>) = 0  OBVIOUS
  <2> QED BY <1>1, <2>1, LinesOfNone
<1>2. CASE r # <<>>
  <2>1. PICK l \in Lines : r = <<HeadOf(l)>>  BY <1>2 DEF Fragments
  <2>2. r \in Seq(Pieces) /\ HeadOf(l)[1] # "tail"  BY <2>1, HeadPiece
  <2>3. Len(r) = 1 /\ r[1] = HeadOf(l)  BY <2>1
  <2>4. \A i \in 1..Len(r) : r[i][1] # "tail"  BY <2>2, <2>3
  <2>5. CompleteLines(r) = <<>>  BY <2>2, <2>4, NoLineIn
  <2> QED BY <2>1, <2>2, <2>3, <2>4, <2>5
<1> QED BY <1>1, <1>2

(* The bytes of a line read back as that line.                             *)
LEMMA LinesOfOneLine ==
    ASSUME NEW x \in Line
    PROVE  CompleteLines(Bytes(x)) = <<x>>
<1> DEFINE b == Bytes(x)
           n == Len(b)
<1>1. /\ b \in Seq(Pieces) /\ n \in {2, 3}
      /\ \A i \in 1..n : (b[i][1] = "tail") <=> (i = n)
      /\ b[n] = <<"tail", x>>
  BY BytesAre
<1> HIDE DEF b
<1>2. b # <<>>  BY <1>1
<1>3. PICK s \in Seq(Pieces), p \in Pieces : b = Append(s, p)  BY <1>1, <1>2, SequenceEmptyOrAppend
<1>4. n = Len(s) + 1 /\ Len(s) \in Nat /\ (\A i \in 1..Len(s) : b[i] = s[i]) /\ b[Len(s) + 1] = p
  BY <1>3, AppendProperties, LenProperties
<1>5. p = <<"tail", x>>  BY <1>1, <1>4
<1>6. \A i \in 1..Len(s) : s[i][1] # "tail"
  <2> TAKE i \in 1..Len(s)
  <2>1. i \in 1..n /\ i # n /\ b[i] = s[i]  BY <1>4
  <2> QED BY <1>1, <2>1
<1>7. CompleteLines(s) = <<>>  BY <1>6, NoLineIn
<1>8. p[1] = "tail" /\ p[2] = x  BY <1>5
<1>9. CompleteLines(b) = Append(<<>>, x)  BY <1>3, <1>7, <1>8, LinesOfOneMore
<1>10. Append(<<>>, x) = <<x>>  OBVIOUS
<1> QED BY <1>9, <1>10 DEF b

(* A file of whole lines reads back as those lines.                        *)
LEMMA LinesOfFile ==
    ASSUME NEW ls \in Seq(Line)
    PROVE  CompleteLines(FileOf(ls)) = ls
<1> DEFINE Q == {s \in Seq(Line) : CompleteLines(FileOf(s)) = s}
<1>1. <<>> \in Q
  <2>1. <<>> \in Seq(Line)  OBVIOUS
  <2> QED BY <2>1, LinesOfNone, FileOfNone
<1>2. ASSUME NEW s \in Seq(Line), NEW x \in Line, s \in Q PROVE Append(s, x) \in Q
  <2>1. FileOf(Append(s, x)) = FileOf(s) \o Bytes(x)  BY FileOfOneMore
  <2>2. FileOf(s) \in Seq(Pieces) /\ Bytes(x) \in Seq(Pieces)  BY FileOfType, BytesAre
  <2>3. CompleteLines(FileOf(s) \o Bytes(x)) = CompleteLines(FileOf(s)) \o CompleteLines(Bytes(x))
    BY <2>2, LinesOfBoth
  <2>4. CompleteLines(FileOf(s)) = s /\ CompleteLines(Bytes(x)) = <<x>>  BY <1>2, LinesOfOneLine
  <2>5. s \o <<x>> = Append(s, x)  BY AppendIsConcat
  <2> DEFINE t == Append(s, x)
  <2>6. t \in Seq(Line) /\ CompleteLines(FileOf(t)) = t
    BY <2>1, <2>3, <2>4, <2>5, AppendProperties
  <2> HIDE DEF t
  <2>7. t \in Q  BY <2>6
  <2> QED BY <2>7 DEF t
<1> HIDE DEF Q
<1>3. ls \in Q  BY <1>1, <1>2, GrowSeq
<1> QED BY <1>3 DEF Q

(* A file of whole lines begins with a head and ends in a newline.         *)
LEMMA FileEnds ==
    ASSUME NEW ls \in Seq(Line), ls # <<>>
    PROVE  /\ Len(FileOf(ls)) >= 2
           /\ FileOf(ls)[Len(FileOf(ls))][1] = "tail"
           /\ FileOf(ls)[1][1] # "tail"
<1>1. PICK s \in Seq(Line), x \in Line : ls = Append(s, x)  BY SequenceEmptyOrAppend
<1>2. FileOf(ls) = FileOf(s) \o Bytes(x)  BY <1>1, FileOfOneMore
<1>3. FileOf(s) \in Seq(Pieces) /\ Bytes(x) \in Seq(Pieces)  BY FileOfType, BytesAre
<1>4. /\ Len(FileOf(s)) \in Nat /\ Len(Bytes(x)) \in {2, 3}
      /\ Len(FileOf(ls)) = Len(FileOf(s)) + Len(Bytes(x))
      /\ \A i \in 1..(Len(FileOf(s)) + Len(Bytes(x))) : FileOf(ls)[i] =
            IF i <= Len(FileOf(s)) THEN FileOf(s)[i] ELSE Bytes(x)[i - Len(FileOf(s))]
  BY <1>2, <1>3, FileOfType, BytesAre, ConcatProperties
<1>5. FileOf(ls)[Len(FileOf(ls))] = Bytes(x)[Len(Bytes(x))]
  <2> DEFINE n == Len(Bytes(x))
             m == Len(FileOf(s))
  <2>0. n \in Nat /\ n >= 2 /\ m \in Nat /\ m + n \in 1..(m + n) /\ ~(m + n <= m) /\ (m + n) - m = n
    <3>1. n \in {2, 3} /\ m \in Nat  BY <1>4
    <3> HIDE DEF n, m
    <3> QED BY <3>1
  <2>1. Len(FileOf(ls)) \in 1..(Len(FileOf(s)) + Len(Bytes(x))) /\ ~(Len(FileOf(ls)) <= Len(FileOf(s)))
        /\ Len(FileOf(ls)) - Len(FileOf(s)) = Len(Bytes(x))
    BY <1>4, <2>0
  <2> QED BY <1>4, <2>1
<1>6. Bytes(x)[Len(Bytes(x))][1] = "tail"
  <2>1. Bytes(x)[Len(Bytes(x))] = <<"tail", x>>  BY BytesAre
  <2> QED BY <2>1
<1>7. FileOf(ls)[1][1] # "tail"
  <2> DEFINE Q == {k \in Seq(Line) : k # <<>> => Len(FileOf(k)) >= 1 /\ FileOf(k)[1][1] # "tail"}
  <2>1. <<>> \in Q
    <3>1. <<>> \in Seq(Line)  OBVIOUS
    <3> QED BY <3>1
  <2>2. ASSUME NEW k \in Seq(Line), NEW y \in Line, k \in Q PROVE Append(k, y) \in Q
    <3> DEFINE t == Append(k, y)
    <3>1. t \in Seq(Line) /\ FileOf(t) = FileOf(k) \o Bytes(y)  BY FileOfOneMore, AppendProperties
    <3>2. FileOf(k) \in Seq(Pieces) /\ Bytes(y) \in Seq(Pieces)  BY FileOfType, BytesAre
    <3>3. /\ Len(FileOf(k)) \in Nat /\ Len(Bytes(y)) \in {2, 3}
          /\ Len(FileOf(t)) = Len(FileOf(k)) + Len(Bytes(y))
          /\ \A i \in 1..(Len(FileOf(k)) + Len(Bytes(y))) : FileOf(t)[i] =
                IF i <= Len(FileOf(k)) THEN FileOf(k)[i] ELSE Bytes(y)[i - Len(FileOf(k))]
      BY <3>1, <3>2, FileOfType, BytesAre, ConcatProperties
    <3> HIDE DEF t
    <3>4. CASE k = <<>>
      <4>1. Len(FileOf(k)) = 0  BY <3>4, FileOfNone
      <4>2. FileOf(t)[1] = Bytes(y)[1]  BY <3>3, <4>1
      <4>3. Bytes(y)[1][1] # "tail"
        <5>1. y[1] \in Lines /\ Bytes(y)[1] = HeadOf(y[1])  BY BytesAre
        <5> QED BY <5>1, HeadPiece
      <4>4. t \in Q  BY <3>1, <3>3, <4>2, <4>3
      <4> QED BY <4>4 DEF t
    <3>5. CASE k # <<>>
      <4>1. Len(FileOf(k)) >= 1 /\ FileOf(k)[1][1] # "tail"  BY <2>2, <3>5
      <4>2. FileOf(t)[1] = FileOf(k)[1]  BY <3>3, <4>1
      <4>3. t \in Q  BY <3>1, <3>3, <4>1, <4>2
      <4> QED BY <4>3 DEF t
    <3> QED BY <3>4, <3>5
  <2> HIDE DEF Q
  <2>3. ls \in Q  BY <2>1, <2>2, GrowSeq
  <2> QED BY <2>3 DEF Q
<1>8. Len(FileOf(ls)) >= 2
  <2> DEFINE n == Len(Bytes(x))
             m == Len(FileOf(s))
  <2>1. n \in {2, 3} /\ m \in Nat /\ Len(FileOf(ls)) = m + n  BY <1>4
  <2> HIDE DEF n, m
  <2> QED BY <2>1
<1> QED BY <1>5, <1>6, <1>7, <1>8

(* Where the last newline is.                                              *)
LEMMA EndsIn ==
    ASSUME NEW f \in Seq(Pieces)
    PROVE  /\ WholeEnd(f) \in 0..Len(f)
           /\ WholeEnd(f) > 0 => f[WholeEnd(f)][1] = "tail"
           /\ \A i \in 1..Len(f) : f[i][1] = "tail" => i <= WholeEnd(f)
<1>1. Len(f) \in Nat /\ DOMAIN f = 1..Len(f)  BY LenProperties
<1> DEFINE E == LineEnds(f)
<1>2. E = {i \in 1..Len(f) : f[i][1] = "tail"}  BY <1>1 DEF LineEnds
<1>3. IsFiniteSet(E)
  <2>1. IsFiniteSet(1..Len(f))  BY <1>1, FS_Interval
  <2>2. E \in SUBSET (1..Len(f))  BY <1>2
  <2> QED BY <2>1, <2>2, FS_Subset
<1> HIDE DEF E
<1>4. WholeEnd(f) = LastOf(E)  BY DEF WholeEnd, E
<1>5. CASE E = {}
  <2>1. WholeEnd(f) = 0  BY <1>4, <1>5 DEF LastOf
  <2> QED BY <1>1, <1>2, <1>5, <2>1
<1>6. CASE E # {}
  <2>1. WholeEnd(f) = Max(E)  BY <1>4, <1>6 DEF LastOf
  <2>2. Max(E) \in E /\ \A y \in E : y <= Max(E)
    <3>1. \A y \in E : y \in Int  BY <1>2
    <3> QED BY <1>3, <1>6, <3>1, MaxIsGreatest
  <2> QED BY <1>1, <1>2, <2>1, <2>2
<1> QED BY <1>5, <1>6

(* The place that no newline is past is where the last one is.             *)
LEMMA EndIs ==
    ASSUME NEW f \in Seq(Pieces), NEW e \in 0..Len(f), e > 0 => f[e][1] = "tail",
           \A i \in 1..Len(f) : f[i][1] = "tail" => i <= e
    PROVE  WholeEnd(f) = e
<1> DEFINE w == WholeEnd(f)
<1>1. /\ w \in 0..Len(f) /\ (w > 0 => f[w][1] = "tail")
      /\ \A i \in 1..Len(f) : f[i][1] = "tail" => i <= w
  BY EndsIn
<1>2. Len(f) \in Nat  BY LenProperties
<1> HIDE DEF w
<1>3. e <= w
  <2>1. CASE e = 0  BY <1>1, <2>1
  <2>2. CASE e > 0
    <3>1. e \in 1..Len(f)  BY <1>2, <2>2
    <3> QED BY <1>1, <2>2, <3>1
  <2> QED BY <1>2, <2>1, <2>2
<1>4. w <= e
  <2>1. CASE w = 0  BY <2>1
  <2>2. CASE w > 0
    <3>1. w \in 1..Len(f)  BY <1>1, <1>2, <2>2
    <3> QED BY <1>1, <2>2, <3>1
  <2> QED BY <1>1, <1>2, <2>1, <2>2
<1>5. w = e  BY <1>1, <1>2, <1>3, <1>4
<1> QED BY <1>5 DEF w

-----------------------------------------------------------------------------
(* A file as an append leaves it: whole lines, and at most one head.       *)
Shaped(f) == \E ls \in Seq(Line), r \in Fragments : f = FileOf(ls) \o r

(* Its lines are those it was made of, and it is torn where it has the     *)
(* head.                                                                   *)
LEMMA ShapeOf ==
    ASSUME NEW ls \in Seq(Line), NEW r \in Fragments
    PROVE  LET f == FileOf(ls) \o r
           IN  /\ f \in Seq(Pieces)
               /\ CompleteLines(f) = ls
               /\ WholeEnd(f) = Len(FileOf(ls))
               /\ SubSeq(f, 1, WholeEnd(f)) = FileOf(ls)
               /\ ~Garbled(f)
               /\ Torn(f) <=> r # <<>>
<1> DEFINE b == FileOf(ls)
           f == b \o r
<1>1. b \in Seq(Pieces) /\ Len(b) \in Nat /\ CompleteLines(b) = ls  BY FileOfType, LinesOfFile
<1>2. /\ r \in Seq(Pieces) /\ Len(r) \in {0, 1} /\ CompleteLines(r) = <<>>
      /\ \A i \in 1..Len(r) : r[i][1] # "tail"
  BY FragmentIs
<1>3. /\ f \in Seq(Pieces) /\ Len(f) = Len(b) + Len(r) /\ SubSeq(f, 1, Len(b)) = b
      /\ \A i \in 1..(Len(b) + Len(r)) : f[i] = IF i <= Len(b) THEN b[i] ELSE r[i - Len(b)]
  BY <1>1, <1>2, ConcatProperties, PartsOf
<1>4. CompleteLines(f) = ls
  <2>1. CompleteLines(f) = CompleteLines(b) \o CompleteLines(r)  BY <1>1, <1>2, LinesOfBoth
  <2>2. ls \o <<>> = ls  BY ConcatEmptySeq
  <2> QED BY <1>1, <1>2, <2>1, <2>2
<1>5. WholeEnd(f) = Len(b)
  <2>1. Len(b) \in 0..Len(f)  BY <1>1, <1>2, <1>3
  <2>2. Len(b) > 0 => f[Len(b)][1] = "tail"
    <3> SUFFICES ASSUME Len(b) > 0 PROVE f[Len(b)][1] = "tail"  OBVIOUS
    <3>1. ls # <<>>
      <4>1. FileOf(<<>>) = <<>> /\ Len(<<>>) = 0  BY FileOfNone
      <4> QED BY <4>1
    <3>2. b[Len(b)][1] = "tail"  BY <3>1, FileEnds
    <3>3. f[Len(b)] = b[Len(b)]  BY <1>1, <1>2, <1>3
    <3> QED BY <3>2, <3>3
  <2>3. ASSUME NEW i \in 1..Len(f), f[i][1] = "tail" PROVE i <= Len(b)
    <3> SUFFICES ASSUME ~(i <= Len(b)) PROVE FALSE  OBVIOUS
    <3>1. f[i] = r[i - Len(b)] /\ i - Len(b) \in 1..Len(r)  BY <1>1, <1>2, <1>3
    <3> QED BY <1>2, <2>3, <3>1
  <2> HIDE DEF f, b
  <2> QED BY <1>3, <2>1, <2>2, <2>3, EndIs
<1>6. SubSeq(f, 1, WholeEnd(f)) = b  BY <1>3, <1>5
<1>7. ~Garbled(f)  BY <1>4, <1>6 DEF Garbled
<1>8. Torn(f) <=> r # <<>>
  <2>1. r # <<>> <=> Len(r) > 0
    <3>1. Len(r) = 0 => r = <<>>  BY <1>2, EmptySeq
    <3>2. r = <<>> => Len(r) = 0  OBVIOUS
    <3> QED BY <1>2, <3>1, <3>2
  <2>2. Torn(f) <=> Len(b) < Len(b) + Len(r)  BY <1>3, <1>5 DEF Torn
  <2> QED BY <1>1, <1>2, <2>1, <2>2
<1> QED BY <1>3, <1>4, <1>5, <1>6, <1>7, <1>8

(* ... as it is recognised: not garbled, and past the last newline at most *)
(* one piece, a head.                                                      *)
LEMMA ShapedWhen ==
    ASSUME NEW f \in Seq(Pieces), ~Garbled(f), Len(f) <= WholeEnd(f) + 1,
           Torn(f) => \E l \in Lines : f[Len(f)] = HeadOf(l)
    PROVE  Shaped(f)
<1> DEFINE w == WholeEnd(f)
           r == SubSeq(f, w + 1, Len(f))
<1>1. w \in 0..Len(f) /\ Len(f) \in Nat  BY EndsIn, LenProperties
<1>2. /\ SubSeq(f, 1, w) \o r = f /\ r \in Seq(Pieces) /\ Len(r) = Len(f) - w
      /\ \A i \in 1..(Len(f) - w) : r[i] = f[w + i]
  BY <1>1, CutInTwo
<1>3. SubSeq(f, 1, w) = FileOf(CompleteLines(f))  BY DEF Garbled
<1>4. CompleteLines(f) \in Seq(Line)  BY LinesType
<1>6. (w = Len(f)) \/ (Torn(f) /\ Len(f) = w + 1)  BY <1>1 DEF Torn
<1> HIDE DEF r, w
<1>5. r \in Fragments
  <2>1. CASE w = Len(f)
    <3>1. Len(r) = 0  BY <1>1, <1>2, <2>1
    <3>2. r = <<>>  BY <1>2, <3>1, EmptySeq
    <3> QED BY <3>2 DEF Fragments
  <2>2. CASE w # Len(f)
    <3>1. Torn(f) /\ Len(f) = w + 1  BY <1>6, <2>2
    <3>2. PICK l \in Lines : f[Len(f)] = HeadOf(l)  BY <3>1
    <3>3. Len(r) = 1 /\ r[1] = HeadOf(l)
      <4>1. w \in Nat /\ Len(f) - w = 1 /\ w + 1 = Len(f)  BY <1>1, <3>1
      <4>2. 1 \in 1..(Len(f) - w)  BY <4>1
      <4>3. r[1] = f[w + 1]  BY <1>2, <4>2
      <4>4. Len(r) = 1  BY <1>2, <4>1
      <4>5. f[w + 1] = f[Len(f)]  BY <4>1
      <4> QED BY <3>2, <4>3, <4>4, <4>5
    <3>4. <<HeadOf(l)>> \in Seq(Pieces) /\ Len(<<HeadOf(l)>>) = 1 /\ <<HeadOf(l)>>[1] = HeadOf(l)
      BY HeadPiece
    <3>5. r = <<HeadOf(l)>>
      <4>1. \A i \in 1..Len(r) : r[i] = <<HeadOf(l)>>[i]  BY <3>3, <3>4
      <4> QED BY <1>2, <3>3, <3>4, <4>1, SeqEqual
    <3> QED BY <3>5 DEF Fragments
  <2> QED BY <2>1, <2>2
<1> QED BY <1>2, <1>3, <1>4, <1>5 DEF Shaped

(* A shaped file, taken apart by its own lines.                            *)
LEMMA ShapedIs ==
    ASSUME NEW f, Shaped(f)
    PROVE  /\ f \in Seq(Pieces)
           /\ CompleteLines(f) \in Seq(Line)
           /\ \E r \in Fragments : f = FileOf(CompleteLines(f)) \o r
           /\ ~Garbled(f)
           /\ Len(f) <= WholeEnd(f) + 1
           /\ Torn(f) => \E l \in Lines : f[Len(f)] = HeadOf(l)
<1>1. PICK ls \in Seq(Line), r \in Fragments : f = FileOf(ls) \o r  BY DEF Shaped
<1>2. /\ f \in Seq(Pieces) /\ CompleteLines(f) = ls /\ WholeEnd(f) = Len(FileOf(ls))
      /\ ~Garbled(f) /\ (Torn(f) <=> r # <<>>)
  BY <1>1, ShapeOf
<1>3. r \in Seq(Pieces) /\ Len(r) \in {0, 1} /\ (r # <<>> => \E l \in Lines : r = <<HeadOf(l)>>)
  BY FragmentIs
<1>4. /\ FileOf(ls) \in Seq(Pieces) /\ Len(FileOf(ls)) \in Nat /\ Len(f) = Len(FileOf(ls)) + Len(r)
      /\ \A i \in 1..(Len(FileOf(ls)) + Len(r)) : f[i] =
            IF i <= Len(FileOf(ls)) THEN FileOf(ls)[i] ELSE r[i - Len(FileOf(ls))]
  BY <1>1, <1>3, FileOfType, ConcatProperties
<1>5. Len(f) <= WholeEnd(f) + 1
  <2> DEFINE n == Len(FileOf(ls))
             k == Len(r)
  <2>1. n \in Nat /\ k \in {0, 1} /\ Len(f) = n + k /\ WholeEnd(f) = n  BY <1>2, <1>3, <1>4
  <2> HIDE DEF n, k
  <2> QED BY <2>1
<1>6. ASSUME Torn(f) PROVE \E l \in Lines : f[Len(f)] = HeadOf(l)
  <2>1. PICK l \in Lines : r = <<HeadOf(l)>>  BY <1>2, <1>3, <1>6
  <2>2. Len(r) = 1 /\ r[1] = HeadOf(l)
    <3>1. Len(<<HeadOf(l)>>) = 1 /\ <<HeadOf(l)>>[1] = HeadOf(l)  OBVIOUS
    <3> QED BY <2>1, <3>1
  <2>3. f[Len(f)] = r[1]
    <3> DEFINE n == Len(FileOf(ls))
    <3>1. n \in Nat /\ Len(f) = n + 1  BY <1>4, <2>2
    <3>2. n + 1 \in 1..(n + 1) /\ ~(n + 1 <= n) /\ (n + 1) - n = 1
      <4>1. n \in Nat  BY <3>1
      <4> HIDE DEF n
      <4> QED BY <4>1
    <3> QED BY <1>4, <2>2, <3>1, <3>2
  <2> QED BY <2>2, <2>3
<1> QED BY <1>1, <1>2, <1>5, <1>6

(* Lines and a fragment make a shaped file ...                             *)
LEMMA ShapedBy ==
    ASSUME NEW ls \in Seq(Line), NEW r \in Fragments
    PROVE  Shaped(FileOf(ls) \o r)
BY DEF Shaped

(* ... and so does nothing at all.                                         *)
LEMMA ShapedNone == Shaped(<<>>)
<1>1. <<>> \in Seq(Line) /\ <<>> \in Seq(Pieces)  OBVIOUS
<1>2. <<>> \in Fragments  BY DEF Fragments
<1>3. FileOf(<<>>) \o <<>> = <<>>  BY <1>1, FileOfNone, ConcatEmptySeq
<1> QED BY <1>1, <1>2, <1>3, ShapedBy

(* What follows whole lines in a shaped file is shaped itself.             *)
LEMMA ShapedRest ==
    ASSUME NEW ls \in Seq(Line), NEW u \in Seq(Pieces), Shaped(FileOf(ls) \o u)
    PROVE  /\ CompleteLines(u) \in Seq(Line)
           /\ CompleteLines(FileOf(ls) \o u) = ls \o CompleteLines(u)
           /\ \E r \in Fragments : u = FileOf(CompleteLines(u)) \o r
                                   /\ FileOf(ls) \o u = FileOf(ls \o CompleteLines(u)) \o r
<1> DEFINE b == FileOf(ls)
           us == CompleteLines(u)
           f == b \o u
<1>1. b \in Seq(Pieces) /\ CompleteLines(b) = ls /\ us \in Seq(Line)
  BY FileOfType, LinesOfFile, LinesType
<1>2. CompleteLines(f) = ls \o us  BY <1>1, LinesOfBoth
<1>3. PICK r \in Fragments : f = FileOf(ls \o us) \o r  BY <1>2, ShapedIs
<1>4. FileOf(ls \o us) = b \o FileOf(us)  BY <1>1, FileOfBoth
<1>5. r \in Seq(Pieces) /\ FileOf(us) \in Seq(Pieces)  BY <1>1, FragmentIs, FileOfType
<1>6. f = b \o (FileOf(us) \o r)
  <2> DEFINE c == FileOf(us)
  <2>1. f = (b \o c) \o r /\ b \in Seq(Pieces) /\ c \in Seq(Pieces) /\ r \in Seq(Pieces)
    BY <1>1, <1>3, <1>4, <1>5
  <2> HIDE DEF b, c, f
  <2>2. (b \o c) \o r = b \o (c \o r)  BY <2>1, ConcatAssociative, SMTT(30)
  <2> QED BY <2>1, <2>2 DEF c
<1>7. FileOf(us) \o r \in Seq(Pieces)  BY <1>5, ConcatProperties
<1>8. u = FileOf(us) \o r
  <2> DEFINE v == FileOf(us) \o r
  <2>1. v \in Seq(Pieces) /\ b \o u = b \o v  BY <1>6, <1>7
  <2> HIDE DEF v, b
  <2> QED BY <1>1, <2>1, Cancels DEF v
<1> QED BY <1>1, <1>2, <1>3, <1>8

(* The first piece of a shaped file is no newline.                         *)
LEMMA ShapedFirst ==
    ASSUME NEW u, Shaped(u), u # <<>>
    PROVE  /\ u[1][1] # "tail" /\ Len(u) >= 1
           /\ SubSeq(u, 2, Len(u)) \in Seq(Pieces)
           /\ CompleteLines(SubSeq(u, 2, Len(u))) = CompleteLines(u)
<1>1. u \in Seq(Pieces) /\ CompleteLines(u) \in Seq(Line)  BY ShapedIs
<1>2. Len(u) \in Nat /\ Len(u) >= 1  BY <1>1, EmptySeq, LenProperties
<1>3. PICK r \in Fragments : u = FileOf(CompleteLines(u)) \o r  BY ShapedIs
<1>4. r \in Seq(Pieces) /\ (\A i \in 1..Len(r) : r[i][1] # "tail")  BY FragmentIs
<1>5. u[1][1] # "tail"
  <2> DEFINE us == CompleteLines(u)
             b == FileOf(us)
  <2>0. u = b \o r /\ b \in Seq(Pieces) /\ Len(b) \in Nat  BY <1>1, <1>3, FileOfType
  <2>1. CASE us = <<>>
    <3>1. b = <<>>  BY <2>1, FileOfNone
    <3>2. u = r  BY <2>0, <3>1, <1>4, ConcatEmptySeq
    <3> QED BY <1>2, <1>4, <3>2
  <2>2. CASE us # <<>>
    <3>1. Len(b) >= 2 /\ b[1][1] # "tail"  BY <1>1, <2>2, FileEnds
    <3>2. u[1] = b[1]
      <4>1. \A i \in 1..(Len(b) + Len(r)) : (b \o r)[i] = IF i <= Len(b) THEN b[i] ELSE r[i - Len(b)]
        BY <2>0, <1>4, ConcatProperties
      <4>2. Len(r) \in Nat  BY <1>4, LenProperties
      <4>3. 1 \in 1..(Len(b) + Len(r)) /\ 1 <= Len(b)  BY <2>0, <3>1, <4>2
      <4> QED BY <2>0, <4>1, <4>3
    <3> QED BY <3>1, <3>2
  <2> QED BY <2>1, <2>2
<1>6. /\ SubSeq(u, 1, 1) \in Seq(Pieces) /\ Len(SubSeq(u, 1, 1)) = 1
      /\ SubSeq(u, 1, 1)[1] = u[1]
      /\ SubSeq(u, 1 + 1, Len(u)) \in Seq(Pieces)
      /\ SubSeq(u, 1, 1) \o SubSeq(u, 1 + 1, Len(u)) = u
  <2>1. 1 \in 0..Len(u)  BY <1>2
  <2> QED BY <1>1, <2>1, CutInTwo
<1>7. CompleteLines(SubSeq(u, 1, 1)) = <<>>
  <2>1. \A i \in 1..Len(SubSeq(u, 1, 1)) : SubSeq(u, 1, 1)[i][1] # "tail"  BY <1>5, <1>6
  <2> QED BY <1>6, <2>1, NoLineIn
<1>8. CompleteLines(u) = CompleteLines(SubSeq(u, 1, 1)) \o CompleteLines(SubSeq(u, 1 + 1, Len(u)))
  <2> DEFINE a == SubSeq(u, 1, 1)
             b == SubSeq(u, 1 + 1, Len(u))
  <2>1. a \in Seq(Pieces) /\ b \in Seq(Pieces) /\ a \o b = u  BY <1>6
  <2> HIDE DEF a, b
  <2>2. CompleteLines(a \o b) = CompleteLines(a) \o CompleteLines(b)  BY <2>1, LinesOfBoth
  <2> QED BY <2>1, <2>2 DEF a, b
<1>9. CompleteLines(SubSeq(u, 1 + 1, Len(u))) \in Seq(Line)  BY <1>6, LinesType
<1>10. CompleteLines(u) = CompleteLines(SubSeq(u, 1 + 1, Len(u)))
  BY <1>7, <1>8, <1>9, ConcatEmptySeq
<1>11. 1 + 1 = 2  OBVIOUS
<1> QED BY <1>2, <1>5, <1>6, <1>10, <1>11

(* The file f begins with b.                                               *)
FollowsOn(f, b) == \E u \in Seq(Pieces) : f = b \o u

(* Three pieces, written as one and two.                                   *)
LEMMA SplicedThree ==
    ASSUME NEW a, NEW b, NEW c
    PROVE  <<a>> \o <<b, c>> = <<a, b, c>>
<1> DEFINE S == {a, b, c}
           x == <<a>>
           y == <<b, c>>
           z == <<a, b, c>>
<1>1. x \in Seq(S) /\ Len(x) = 1 /\ x[1] = a  OBVIOUS
<1>2. y \in Seq(S) /\ Len(y) = 2 /\ y[1] = b /\ y[2] = c  OBVIOUS
<1>3. z \in Seq(S) /\ Len(z) = 3 /\ z[1] = a /\ z[2] = b /\ z[3] = c  OBVIOUS
<1> HIDE DEF S, x, y, z
<1>4. /\ x \o y \in Seq(S) /\ Len(x \o y) = 3
      /\ \A i \in 1..3 : (x \o y)[i] = IF i <= 1 THEN x[i] ELSE y[i - 1]
  <2>1. 1 + 2 = 3  OBVIOUS
  <2> QED BY <1>1, <1>2, <2>1, ConcatProperties
<1>5. (x \o y)[1] = a /\ (x \o y)[2] = b /\ (x \o y)[3] = c
  <2>1. (x \o y)[1] = x[1] /\ (x \o y)[2] = y[2 - 1] /\ (x \o y)[3] = y[3 - 1]  BY <1>4
  <2>2. 2 - 1 = 1 /\ 3 - 1 = 2  OBVIOUS
  <2> QED BY <1>1, <1>2, <2>1, <2>2
<1>6. \A i \in 1..3 : (x \o y)[i] = z[i]
  <2>1. \A i \in 1..3 : i = 1 \/ i = 2 \/ i = 3  OBVIOUS
  <2> QED BY <1>3, <1>5, <2>1
<1>7. x \o y = z  BY <1>3, <1>4, <1>6, SeqEqual
<1> QED BY <1>7 DEF x, y, z

(* The rest of a sequence from some place on.                              *)
LEMMA SequenceFrom ==
    ASSUME NEW S, NEW s \in Seq(S), NEW k \in Nat
    PROVE  /\ SubSeq(s, k + 1, Len(s)) \in Seq(S)
           /\ Len(SubSeq(s, k + 1, Len(s))) = (IF k + 1 <= Len(s) THEN Len(s) - k ELSE 0)
           /\ \A i \in 1..(Len(s) - k) : SubSeq(s, k + 1, Len(s))[i] = s[k + i]
<1>1. Len(s) \in Nat /\ \A i \in 1..Len(s) : s[i] \in S  BY LenProperties, ElementOfSeq
<1>2. CASE k + 1 <= Len(s)
  <2>1. k \in 0..Len(s)  BY <1>1, <1>2
  <2> QED BY <1>2, <2>1, CutInTwo
<1>3. CASE ~(k + 1 <= Len(s))
  <2>1. SubSeq(s, k + 1, Len(s)) = <<>>  BY <1>1, <1>3, SubSeqEmpty
  <2>2. 1..(Len(s) - k) = {}  BY <1>1, <1>3
  <2> QED BY <1>3, <2>1, <2>2, EmptySeq
<1> QED BY <1>2, <1>3

(* What an append leaves: its head at the end of whole lines ...           *)
LEMMA AddHead ==
    ASSUME NEW f, Shaped(f), ~Torn(f), NEW l \in Lines
    PROVE  /\ f = FileOf(CompleteLines(f))
           /\ Append(f, HeadOf(l)) = FileOf(CompleteLines(f)) \o <<HeadOf(l)>>
           /\ Append(f, HeadOf(l)) = f \o <<HeadOf(l)>>
           /\ Shaped(Append(f, HeadOf(l)))
           /\ CompleteLines(Append(f, HeadOf(l))) = CompleteLines(f)
<1> DEFINE ls == CompleteLines(f)
<1>1. f \in Seq(Pieces) /\ ls \in Seq(Line)  BY ShapedIs
<1>2. PICK r \in Fragments : f = FileOf(ls) \o r  BY ShapedIs
<1>3. Torn(f) <=> r # <<>>  BY <1>1, <1>2, ShapeOf
<1>4. r = <<>>  BY <1>3
<1>5. f = FileOf(ls)  BY <1>1, <1>2, <1>4, FileOfType, ConcatEmptySeq
<1>6. HeadOf(l) \in Pieces /\ <<HeadOf(l)>> \in Fragments  BY HeadPiece DEF Fragments
<1>7. Append(f, HeadOf(l)) = f \o <<HeadOf(l)>>  BY <1>1, <1>6, AppendIsConcat
<1>8. Append(f, HeadOf(l)) = FileOf(ls) \o <<HeadOf(l)>>  BY <1>5, <1>7
<1>9. Shaped(FileOf(ls) \o <<HeadOf(l)>>) /\ CompleteLines(FileOf(ls) \o <<HeadOf(l)>>) = ls
  BY <1>1, <1>6, ShapedBy, ShapeOf
<1> QED BY <1>5, <1>7, <1>8, <1>9

(* ... and the whole line.                                                 *)
LEMMA AddTail ==
    ASSUME NEW ls \in Seq(Line), NEW l \in Lines
    PROVE  LET f == FileOf(ls) \o <<HeadOf(l)>>
               s == Tail(Bytes(Full(l)))
           IN  /\ s \in Seq(Pieces)
               /\ f \o s = FileOf(Append(ls, Full(l))) \o <<>>
               /\ Full(l) \in Line
               /\ Shaped(f \o s)
               /\ CompleteLines(f \o s) = Append(ls, Full(l))
<1> DEFINE b == FileOf(ls)
           h == <<HeadOf(l)>>
           s == Tail(Bytes(Full(l)))
           ks == Append(ls, Full(l))
<1>1. Full(l) \in Line /\ Full(l)[1] = l /\ Full(l)[2] = "full"  BY DEF Full, Line, Forms
<1>2. Bytes(Full(l)) = <<HeadOf(l), <<"body", l>>, TailOf(Full(l))>> /\ Bytes(Full(l)) \in Seq(Pieces)
  BY <1>1, BytesAre
<1>3. s = <<<<"body", l>>, TailOf(Full(l))>> /\ s \in Seq(Pieces)
  <2>1. Bytes(Full(l)) # <<>>  BY <1>2
  <2>2. s = <<<<"body", l>>, TailOf(Full(l))>>  BY <1>2
  <2> QED BY <1>2, <2>1, <2>2, HeadTailProperties
<1>4. h \o s = Bytes(Full(l))  BY <1>2, <1>3, SplicedThree
<1>5. h \in Seq(Pieces) /\ b \in Seq(Pieces)  BY HeadPiece, FileOfType
<1>6. (b \o h) \o s = b \o (h \o s)  BY <1>3, <1>5, ConcatAssociative, SMTT(30)
<1>7. ks \in Seq(Line) /\ FileOf(ks) = b \o Bytes(Full(l))  BY <1>1, FileOfOneMore, AppendProperties
<1>8. (b \o h) \o s = FileOf(ks) \o <<>>
  <2>1. FileOf(ks) \o <<>> = FileOf(ks)  BY <1>7, FileOfType, ConcatEmptySeq
  <2> QED BY <1>4, <1>6, <1>7, <2>1
<1>9. <<>> \in Fragments  BY DEF Fragments
<1>10. Shaped(FileOf(ks) \o <<>>) /\ CompleteLines(FileOf(ks) \o <<>>) = ks
  BY <1>7, <1>9, ShapedBy, ShapeOf
<1> QED BY <1>1, <1>3, <1>8, <1>10

(* What _cut_unterminated leaves is the whole lines.                       *)
LEMMA CutOff ==
    ASSUME NEW f, Shaped(f)
    PROVE  /\ SubSeq(f, 1, WholeEnd(f)) = FileOf(CompleteLines(f))
           /\ Shaped(SubSeq(f, 1, WholeEnd(f)))
           /\ CompleteLines(SubSeq(f, 1, WholeEnd(f))) = CompleteLines(f)
<1>1. f \in Seq(Pieces) /\ CompleteLines(f) \in Seq(Line)  BY ShapedIs
<1>2. PICK r \in Fragments : f = FileOf(CompleteLines(f)) \o r  BY ShapedIs
<1>3. SubSeq(f, 1, WholeEnd(f)) = FileOf(CompleteLines(f))  BY <1>1, <1>2, ShapeOf
<1>4. FileOf(CompleteLines(f)) \o <<>> = FileOf(CompleteLines(f))  BY <1>1, FileOfType, ConcatEmptySeq
<1>5. <<>> \in Fragments  BY DEF Fragments
<1> QED BY <1>1, <1>3, <1>4, <1>5, ShapedBy, LinesOfFile

(* Lines a file begins with stay where it is appended to, or cut.          *)
LEMMA KeptByAppend ==
    ASSUME NEW f, NEW b \in Seq(Pieces), NEW s \in Seq(Pieces), FollowsOn(f, b)
    PROVE  FollowsOn(f \o s, b)
<1>1. PICK u \in Seq(Pieces) : f = b \o u  BY DEF FollowsOn
<1>2. f \o s = b \o (u \o s)  BY <1>1, ConcatAssociative, SMTT(30)
<1>3. u \o s \in Seq(Pieces)  BY ConcatProperties
<1> QED BY <1>2, <1>3 DEF FollowsOn

(* ... since a cut takes no whole line.                                    *)
LEMMA KeptByCut ==
    ASSUME NEW f, Shaped(f), NEW ls \in Seq(Line), FollowsOn(f, FileOf(ls))
    PROVE  FollowsOn(SubSeq(f, 1, WholeEnd(f)), FileOf(ls))
<1>1. PICK u \in Seq(Pieces) : f = FileOf(ls) \o u  BY DEF FollowsOn
<1>2. CompleteLines(u) \in Seq(Line) /\ CompleteLines(f) = ls \o CompleteLines(u)
  BY <1>1, ShapedRest
<1>3. SubSeq(f, 1, WholeEnd(f)) = FileOf(ls \o CompleteLines(u))  BY <1>2, CutOff
<1>4. FileOf(ls \o CompleteLines(u)) = FileOf(ls) \o FileOf(CompleteLines(u))  BY <1>2, FileOfBoth
<1>5. FileOf(CompleteLines(u)) \in Seq(Pieces)  BY <1>2, FileOfType
<1> QED BY <1>3, <1>4, <1>5 DEF FollowsOn

(* A shaped file begins with its whole lines, and with nothing.            *)
LEMMA FollowsWhole ==
    ASSUME NEW f, Shaped(f)
    PROVE  FollowsOn(f, FileOf(CompleteLines(f))) /\ FollowsOn(f, <<>>)
<1>1. f \in Seq(Pieces) /\ CompleteLines(f) \in Seq(Line)  BY ShapedIs
<1>2. PICK r \in Fragments : f = FileOf(CompleteLines(f)) \o r  BY ShapedIs
<1>3. r \in Seq(Pieces)  BY FragmentIs
<1>4. f = <<>> \o f  BY <1>1, ConcatEmptySeq
<1> QED BY <1>1, <1>2, <1>3, <1>4 DEF FollowsOn

ReadsOn(f, bl, ls, r, start, got, all) ==
    /\ start = Len(FileOf(bl)) /\ got = FileOf(ls) \o r
    /\ all = got \o SubSeq(f, start + Len(got) + 1, Len(f))

(* A read that began after the lines bl, has got the lines ls and a        *)
(* fragment, and reads once more: what it took are the lines the file has  *)
(* past those it began after.                                              *)
LEMMA ReadEnds ==
    ASSUME NEW f, Shaped(f), NEW bl \in Seq(Line), NEW ls \in Seq(Line), NEW r \in Fragments,
           FollowsOn(f, FileOf(bl \o ls)),
           NEW start, NEW got, NEW all, ReadsOn(f, bl, ls, r, start, got, all)
    PROVE  /\ all \in Seq(Pieces)
           /\ CompleteLines(all) \in Seq(Line)
           /\ CompleteLines(f) = bl \o CompleteLines(all)
           /\ FollowsOn(f, FileOf(bl \o CompleteLines(all)))
           /\ ~Garbled(all) => start + WholeEnd(all) = Len(FileOf(bl \o CompleteLines(all)))
<1> USE DEF ReadsOn
<1>1. PICK u \in Seq(Pieces) : f = FileOf(bl \o ls) \o u  BY DEF FollowsOn
<1> DEFINE us == CompleteLines(u)
           rest == SubSeq(u, Len(r) + 1, Len(u))
<1>2. bl \o ls \in Seq(Line)  BY ConcatProperties
<1>3. us \in Seq(Line) /\ CompleteLines(f) = (bl \o ls) \o us  BY <1>1, <1>2, ShapedRest
<1>4. PICK fr \in Fragments : u = FileOf(us) \o fr /\ f = FileOf((bl \o ls) \o us) \o fr
  BY <1>1, <1>2, ShapedRest
<1>5. Shaped(u)  BY <1>3, <1>4, ShapedBy
<1>6. r \in Seq(Pieces) /\ Len(r) \in {0, 1} /\ CompleteLines(r) = <<>>  BY FragmentIs
<1>7. /\ FileOf(bl) \in Seq(Pieces) /\ FileOf(ls) \in Seq(Pieces)
      /\ FileOf(bl \o ls) = FileOf(bl) \o FileOf(ls)
      /\ FileOf(bl \o ls) \in Seq(Pieces)
  BY <1>2, FileOfType, FileOfBoth
<1>8. SubSeq(f, start + Len(got) + 1, Len(f)) = rest
  <2>1. Len(got) = Len(FileOf(ls)) + Len(r) /\ Len(FileOf(ls)) \in Nat  BY <1>6, <1>7, PartsOf
  <2>2. Len(FileOf(bl \o ls)) = Len(FileOf(bl)) + Len(FileOf(ls)) /\ Len(FileOf(bl)) \in Nat
    BY <1>7, PartsOf
  <2>3. Len(r) \in Nat  BY <1>6
  <2>4. start + Len(got) + 1 = Len(FileOf(bl \o ls)) + Len(r) + 1
    <3> DEFINE x == Len(FileOf(bl))
               y == Len(FileOf(ls))
               z == Len(r)
    <3>1. start = x /\ Len(got) = y + z /\ Len(FileOf(bl \o ls)) = x + y /\ x \in Nat /\ y \in Nat /\ z \in Nat
      BY <2>1, <2>2, <2>3
    <3> HIDE DEF x, y, z
    <3> QED BY <3>1 DEF z
  <2>5. SubSeq(f, Len(FileOf(bl \o ls)) + Len(r) + 1, Len(f)) = rest
    <3> DEFINE b == FileOf(bl \o ls)
               k == Len(r)
    <3>1. b \in Seq(Pieces) /\ k \in Nat /\ f = b \o u  BY <1>1, <1>7, <2>3
    <3> HIDE DEF b, k
    <3>2. SubSeq(b \o u, Len(b) + k + 1, Len(b \o u)) = SubSeq(u, k + 1, Len(u))  BY <3>1, PartsOf
    <3> QED BY <3>1, <3>2 DEF b, k
  <2> QED BY <2>4, <2>5
<1>9. rest \in Seq(Pieces) /\ CompleteLines(rest) = us
  <2>1. CASE Len(r) = 0
    <3>1. rest = SubSeq(u, 1, Len(u))  BY <2>1
    <3>2. rest = u  BY <3>1, SubSeqFull
    <3> QED BY <3>2
  <2>2. CASE Len(r) = 1
    <3>1. rest = SubSeq(u, 2, Len(u))  BY <2>2
    <3>2. CASE u = <<>>
      <4>1. Len(u) = 0 /\ <<>> \in Seq(Pieces)  BY <3>2
      <4>2. rest = <<>>  BY <3>1, <4>1, SubSeqEmpty
      <4> QED BY <3>2, <4>1, <4>2
    <3>3. CASE u # <<>>  BY <1>5, <3>1, <3>3, ShapedFirst
    <3> QED BY <3>2, <3>3
  <2> QED BY <1>6, <2>1, <2>2
<1> HIDE DEF rest
<1>10. all = (FileOf(ls) \o r) \o rest  BY <1>8
<1>11. got \in Seq(Pieces) /\ CompleteLines(got) = ls  BY ShapeOf
<1>12. all \in Seq(Pieces)  BY <1>9, <1>10, <1>11, ConcatProperties
<1>13. CompleteLines(all) = ls \o us
  <2>1. CompleteLines(got \o rest) = CompleteLines(got) \o CompleteLines(rest)  BY <1>9, <1>11, LinesOfBoth
  <2> QED BY <1>9, <1>10, <1>11, <2>1
<1> HIDE DEF us
<1>14. ls \o us \in Seq(Line) /\ bl \o (ls \o us) = (bl \o ls) \o us
  <2>1. us \in Seq(Line)  BY <1>3
  <2>2. (bl \o ls) \o us = bl \o (ls \o us)  BY <2>1, ConcatAssociative, SMTT(30)
  <2> QED BY <2>1, <2>2, ConcatProperties
<1>15. FollowsOn(f, FileOf(bl \o (ls \o us)))
  <2>1. fr \in Seq(Pieces)  BY FragmentIs
  <2> QED BY <1>4, <1>14, <2>1 DEF FollowsOn
<1>16. ASSUME ~Garbled(all) PROVE start + WholeEnd(all) = Len(FileOf(bl \o (ls \o us)))
  <2>1. SubSeq(all, 1, WholeEnd(all)) = FileOf(ls \o us)  BY <1>13, <1>16 DEF Garbled
  <2>2. WholeEnd(all) \in 0..Len(all)  BY <1>12, EndsIn
  <2>3. Len(SubSeq(all, 1, WholeEnd(all))) = WholeEnd(all)  BY <1>12, <2>2, CutInTwo
  <2>4. FileOf(bl \o (ls \o us)) = FileOf(bl) \o FileOf(ls \o us)  BY <1>14, FileOfBoth
  <2>5. FileOf(ls \o us) \in Seq(Pieces)  BY <1>14, FileOfType
  <2>6. Len(FileOf(bl) \o FileOf(ls \o us)) = Len(FileOf(bl)) + Len(FileOf(ls \o us))
    BY <1>7, <2>5, PartsOf
  <2> QED BY <2>1, <2>3, <2>4, <2>6
<1> QED BY <1>3, <1>12, <1>13, <1>14, <1>15, <1>16

(* The mark of a rewrite stands d pieces past the lines hl, and within the *)
(* file; the file a rewrite makes; and what the two have in common: the    *)
(* lines since.                                                            *)
EndsPast(end, hl, d, f) == end = Len(FileOf(hl)) + d /\ Len(f) >= end
RewrittenTo(f, end, nl) == FileOf(nl) \o SubSeq(f, end + 1, Len(f))
Rewrites(f, hl, end, nl) ==
    \E since \in Seq(Line) : /\ CompleteLines(f) = hl \o since
                             /\ CompleteLines(RewrittenTo(f, end, nl)) = nl \o since
EndsAt(end, hl, f) == \E d \in {0, 1} : EndsPast(end, hl, d, f)

(* A rewrite: lines take the place of those up to the mark, also where the *)
(* mark counts a torn head.                                                *)
LEMMA Rewritten ==
    ASSUME NEW f, Shaped(f), NEW hl \in Seq(Line), FollowsOn(f, FileOf(hl)),
           NEW end, EndsAt(end, hl, f), NEW nl \in Seq(Line)
    PROVE  Rewrites(f, hl, end, nl)
<1>0. PICK d \in {0, 1} : EndsPast(end, hl, d, f)  BY DEF EndsAt
<1>1. PICK u \in Seq(Pieces) : f = FileOf(hl) \o u  BY DEF FollowsOn
<1> DEFINE us == CompleteLines(u)
           rest == SubSeq(u, d + 1, Len(u))
<1>9. Shaped(FileOf(hl) \o u)  BY <1>1
<1>2. us \in Seq(Line) /\ CompleteLines(f) = hl \o us  BY <1>1, <1>9, ShapedRest
<1>3. PICK fr \in Fragments : u = FileOf(us) \o fr
  <2>1. \E fr \in Fragments : u = FileOf(CompleteLines(u)) \o fr
                            /\ FileOf(hl) \o u = FileOf(hl \o CompleteLines(u)) \o fr
    BY <1>9, ShapedRest
  <2> QED BY <2>1
<1> USE <1>0 DEF EndsPast, RewrittenTo, Rewrites
<1>4. Shaped(u)  BY <1>2, <1>3, ShapedBy
<1>5. FileOf(hl) \in Seq(Pieces) /\ FileOf(nl) \in Seq(Pieces) /\ CompleteLines(FileOf(nl)) = nl
  BY FileOfType, LinesOfFile
<1>6. SubSeq(f, end + 1, Len(f)) = rest
  <2> DEFINE b == FileOf(hl)
  <2>1. b \in Seq(Pieces) /\ d \in Nat /\ f = b \o u /\ end = Len(b) + d  BY <1>1, <1>5
  <2> HIDE DEF b
  <2>2. SubSeq(b \o u, Len(b) + d + 1, Len(b \o u)) = SubSeq(u, d + 1, Len(u))  BY <2>1, PartsOf, SMTT(20)
  <2> QED BY <2>1, <2>2
<1>7. rest \in Seq(Pieces) /\ CompleteLines(rest) = us
  <2>1. CASE d = 0
    <3>1. rest = SubSeq(u, 1, Len(u))  BY <2>1
    <3>2. rest = u  BY <3>1, SubSeqFull
    <3> QED BY <3>2
  <2>2. CASE d = 1
    <3>1. rest = SubSeq(u, 2, Len(u))  BY <2>2
    <3>2. u # <<>>
      <4> SUFFICES ASSUME u = <<>> PROVE FALSE  OBVIOUS
      <4>1. f = FileOf(hl)  BY <1>1, <1>5, ConcatEmptySeq
      <4>2. Len(FileOf(hl)) \in Nat  BY FileOfType
      <4> QED BY <2>2, <4>1, <4>2
    <3> QED BY <1>4, <3>1, <3>2, ShapedFirst
  <2> QED BY <2>1, <2>2
<1> HIDE DEF rest
<1>8. CompleteLines(FileOf(nl) \o rest) = nl \o us  BY <1>5, <1>7, LinesOfBoth
<1> HIDE DEF us
<1> QED BY <1>2, <1>6, <1>8

(* ... and the file it makes is whole lines and at most one head, unless   *)
(* it is garbled.                                                          *)
LEMMA JoinedShape ==
    ASSUME NEW f, Shaped(f), NEW k \in Nat, NEW nl \in Seq(Line), NEW g \in Seq(Pieces), ~Garbled(g),
           NEW s, s = SubSeq(f, k + 1, Len(f)), Len(g) = Len(FileOf(nl)) + Len(s),
           \A i \in 1..(Len(FileOf(nl)) + Len(s)) :
              g[i] = IF i <= Len(FileOf(nl)) THEN FileOf(nl)[i] ELSE s[i - Len(FileOf(nl))]
    PROVE  Shaped(g)
<1> DEFINE b == FileOf(nl)
           m == Len(b)
           n == Len(f)
           w == WholeEnd(f)
<1>1. /\ f \in Seq(Pieces) /\ n <= w + 1
      /\ Torn(f) => \E l \in Lines : f[n] = HeadOf(l)
  BY ShapedIs
<1>2. n \in Nat /\ w \in 0..n /\ (w > 0 => f[w][1] = "tail")  BY <1>1, EndsIn, LenProperties
<1>3. b \in Seq(Pieces) /\ m \in Nat  BY FileOfType
<1>5. /\ s \in Seq(Pieces) /\ Len(s) = (IF k + 1 <= n THEN n - k ELSE 0)
      /\ \A i \in 1..(n - k) : s[i] = f[k + i]
  BY <1>1, SequenceFrom
<1>6. /\ g \in Seq(Pieces) /\ Len(g) = m + Len(s)
      /\ \A i \in 1..(m + Len(s)) : g[i] = IF i <= m THEN b[i] ELSE s[i - m]
  OBVIOUS
<1>7. nl # <<>> => m >= 2 /\ b[m][1] = "tail"  BY FileEnds
<1>8. nl = <<>> => m = 0
  <2>1. FileOf(<<>>) = <<>> /\ Len(<<>>) = 0  BY FileOfNone
  <2> QED BY <2>1
<1>9. w < n => Torn(f)  BY DEF Torn
<1> HIDE DEF b, m, n, w
<1>10. Shaped(g)
  <2> DEFINE v == WholeEnd(g)
  <2>1. v \in 0..Len(g) /\ \A i \in 1..Len(g) : g[i][1] = "tail" => i <= v  BY <1>6, EndsIn
  <2>2. Torn(g) => v # Len(g)  BY <2>1 DEF Torn
  <2> HIDE DEF v
  <2>3. CASE k + 1 <= n
    <3>1. Len(s) = n - k /\ Len(g) = m + (n - k) /\ \A i \in 1..(n - k) : s[i] = f[k + i]
      BY <1>5, <1>6, <2>3
    <3>2. \A i \in 1..(n - k) : g[m + i] = f[k + i]
      <4> TAKE i \in 1..(n - k)
      <4>1. m + i \in 1..(m + Len(s)) /\ ~(m + i <= m) /\ (m + i) - m = i  BY <1>2, <1>3, <3>1, SMTT(20)
      <4>2. g[m + i] = s[(m + i) - m]  BY <1>6, <4>1
      <4>3. s[i] = f[k + i]  BY <3>1
      <4> QED BY <4>1, <4>2, <4>3
    <3>3. CASE w > k
      <4>1. w - k \in 1..(n - k) /\ k + (w - k) = w  BY <1>2, <3>3
      <4>2. g[m + (w - k)] = f[w]  BY <3>2, <4>1
      <4>3. m + (w - k) \in 1..Len(g)  BY <1>2, <1>3, <3>1, <4>1
      <4>4. f[w][1] = "tail"  BY <1>2, <3>3
      <4>5. m + (w - k) <= v  BY <2>1, <4>2, <4>3, <4>4
      <4>6. Len(g) <= v + 1
        <5> DEFINE q == Len(g)
        <5>1. q = m + (n - k) /\ v \in 0..q /\ m + (w - k) <= v  BY <2>1, <3>1, <4>5
        <5>2. n \in Nat /\ w \in 0..n /\ m \in Nat /\ n <= w + 1  BY <1>1, <1>2, <1>3
        <5> HIDE DEF q
        <5>3. q <= v + 1  BY <5>1, <5>2
        <5> QED BY <5>3 DEF q
      <4>7. ASSUME Torn(g) PROVE \E l \in Lines : g[Len(g)] = HeadOf(l)
        <5>0. v # Len(g) /\ v \in 0..Len(g)  BY <2>1, <2>2, <4>7
        <5>a. Len(g) = m + (n - k)  BY <3>1
        <5> DEFINE q == Len(g)
        <5>b. q = m + (n - k) /\ v # q /\ v \in 0..q  BY <5>0, <5>a
        <5> HIDE DEF q
        <5>1. w < n
          <6>1. q \in Nat  BY <1>2, <1>3, <2>3, <5>b
          <6>2. v < q  BY <5>b, <6>1
          <6> QED BY <1>2, <1>3, <5>b, <4>5, <6>1, <6>2
        <5>2. g[m + (n - k)] = f[k + (n - k)]
          <6>1. n - k \in 1..(n - k)  BY <1>2, <2>3
          <6> QED BY <3>2, <6>1
        <5>3. k + (n - k) = n  BY <1>2
        <5> QED BY <1>1, <1>9, <3>1, <5>1, <5>2, <5>3
      <4> QED BY <1>6, <4>6, <4>7, ShapedWhen DEF v
    <3>4. CASE ~(w > k)
      <4>1. n = k + 1 /\ w = k  BY <1>1, <1>2, <2>3, <3>4
      <4>2. Len(g) = m + 1  BY <1>3, <3>1, <4>1
      <4>3. m <= v
        <5>1. CASE nl = <<>>  BY <1>8, <2>1, <5>1
        <5>2. CASE nl # <<>>
          <6>1. m \in 1..Len(g) /\ g[m] = b[m]  BY <1>3, <1>6, <1>7, <3>1, <4>1, <4>2, <5>2
          <6> QED BY <1>7, <2>1, <5>2, <6>1
        <5> QED BY <5>1, <5>2
      <4>4. Len(g) <= v + 1  BY <1>3, <2>1, <4>2, <4>3
      <4>5. \E l \in Lines : f[n] = HeadOf(l)  BY <1>1, <1>2, <1>9, <4>1
      <4>6. g[m + 1] = f[k + 1]
        <5>1. 1 \in 1..(n - k)  BY <4>1
        <5> QED BY <3>2, <5>1
      <4>7. \E l \in Lines : g[Len(g)] = HeadOf(l)  BY <4>1, <4>2, <4>5, <4>6
      <4> QED BY <1>6, <4>4, <4>7, ShapedWhen DEF v
    <3> QED BY <3>3, <3>4
  <2>4. CASE ~(k + 1 <= n)
    <3>1. Len(s) = 0 /\ Len(g) = m  BY <1>3, <1>5, <1>6, <2>4
    <3>2. m <= v
      <4>1. CASE nl = <<>>  BY <1>8, <2>1, <4>1
      <4>2. CASE nl # <<>>
        <5>1. m \in 1..(m + Len(s)) /\ m <= m /\ m \in 1..Len(g)  BY <1>3, <1>7, <3>1, <4>2
        <5>2. g[m] = b[m]  BY <1>6, <5>1
        <5>3. g[m][1] = "tail"  BY <1>7, <4>2, <5>2
        <5> QED BY <2>1, <5>1, <5>3
      <4> QED BY <4>1, <4>2
    <3>3. Len(g) <= v + 1 /\ ~Torn(g)
      <4>1. v \in 0..Len(g)  BY <2>1
      <4>2. v = Len(g)  BY <1>3, <3>1, <3>2, <4>1
      <4> QED BY <1>3, <2>2, <3>1, <4>2
    <3> QED BY <1>6, <3>3, ShapedWhen DEF v
  <2> QED BY <2>3, <2>4
<1> QED BY <1>10

(* The file a rewrite makes of a shaped one.                               *)
LEMMA RewrittenShape ==
    ASSUME NEW f, Shaped(f), NEW k \in Nat, NEW nl \in Seq(Line)
    PROVE  LET g == FileOf(nl) \o SubSeq(f, k + 1, Len(f))
           IN  g \in Seq(Pieces) /\ (~Garbled(g) => Shaped(g))
<1> DEFINE s == SubSeq(f, k + 1, Len(f))
           b == FileOf(nl)
           g == b \o s
<1>1. f \in Seq(Pieces)  BY ShapedIs
<1>2. s \in Seq(Pieces) /\ b \in Seq(Pieces)  BY <1>1, SequenceFrom, FileOfType
<1>3. s = SubSeq(f, k + 1, Len(f))  OBVIOUS
<1> HIDE DEF s
<1>4. /\ g \in Seq(Pieces) /\ Len(g) = Len(b) + Len(s)
      /\ \A i \in 1..(Len(b) + Len(s)) : g[i] = IF i <= Len(b) THEN b[i] ELSE s[i - Len(b)]
  BY <1>2, ConcatProperties
<1> HIDE DEF g
<1>5. ~Garbled(g) => Shaped(g)  BY <1>3, <1>4, JoinedShape
<1> QED BY <1>4, <1>5 DEF g, s

(* Which lines they are, whatever their forms.                             *)
LEMMA IdsIs ==
    ASSUME NEW ls \in Seq(Line)
    PROVE  /\ Ids(ls) \in Seq(Lines) /\ Len(Ids(ls)) = Len(ls) /\ Len(ls) \in Nat
           /\ DOMAIN Ids(ls) = 1..Len(ls)
           /\ \A i \in 1..Len(ls) : Ids(ls)[i] = ls[i][1] /\ Ids(ls)[i] \in Lines
<1>1. Len(ls) \in Nat /\ DOMAIN ls = 1..Len(ls) /\ \A i \in 1..Len(ls) : ls[i] \in Line
  BY LenProperties, ElementOfSeq
<1>2. Ids(ls) = [i \in 1..Len(ls) |-> ls[i][1]]  BY <1>1 DEF Ids
<1>3. \A i \in 1..Len(ls) : ls[i][1] \in Lines  BY <1>1, BytesAre
<1>4. Ids(ls) \in [1..Len(ls) -> Lines]  BY <1>2, <1>3
<1>5. Ids(ls) \in Seq(Lines)  BY <1>1, <1>4
<1>6. Len(Ids(ls)) = Len(ls)  BY <1>1, <1>4, <1>5
<1> QED BY <1>1, <1>2, <1>3, <1>5, <1>6

(* Ids goes over concatenation ...                                         *)
LEMMA IdsOfBoth ==
    ASSUME NEW ls \in Seq(Line), NEW ks \in Seq(Line)
    PROVE  Ids(ls \o ks) = Ids(ls) \o Ids(ks)
<1> DEFINE both == ls \o ks
           a == Ids(ls)
           b == Ids(ks)
<1>1. /\ both \in Seq(Line) /\ Len(both) = Len(ls) + Len(ks)
      /\ \A i \in 1..(Len(ls) + Len(ks)) : both[i] = IF i <= Len(ls) THEN ls[i] ELSE ks[i - Len(ls)]
  BY ConcatProperties
<1> HIDE DEF both
<1>2. /\ a \in Seq(Lines) /\ Len(a) = Len(ls) /\ Len(ls) \in Nat
      /\ \A i \in 1..Len(ls) : a[i] = ls[i][1]
  BY IdsIs
<1>3. /\ b \in Seq(Lines) /\ Len(b) = Len(ks) /\ Len(ks) \in Nat
      /\ \A i \in 1..Len(ks) : b[i] = ks[i][1]
  BY IdsIs
<1>4. Ids(both) \in Seq(Lines) /\ Len(Ids(both)) = Len(both) /\ \A i \in 1..Len(both) : Ids(both)[i] = both[i][1]
  BY <1>1, IdsIs
<1> HIDE DEF a, b
<1>5. /\ a \o b \in Seq(Lines) /\ Len(a \o b) = Len(ls) + Len(ks)
      /\ \A i \in 1..(Len(ls) + Len(ks)) : (a \o b)[i] = IF i <= Len(ls) THEN a[i] ELSE b[i - Len(ls)]
  <2>1. /\ a \o b \in Seq(Lines) /\ Len(a \o b) = Len(a) + Len(b)
        /\ \A i \in 1..(Len(a) + Len(b)) : (a \o b)[i] = IF i <= Len(a) THEN a[i] ELSE b[i - Len(a)]
    <3>1. a \in Seq(Lines) /\ b \in Seq(Lines)  BY <1>2, <1>3
    <3> QED BY <3>1, ConcatProperties
  <2> QED BY <1>2, <1>3, <2>1
<1>6. ASSUME NEW i \in 1..Len(both) PROVE Ids(both)[i] = (a \o b)[i]
  <2>1. i \in 1..(Len(ls) + Len(ks))  BY <1>1
  <2>2. CASE i <= Len(ls)
    <3>1. i \in 1..Len(ls)  BY <1>2, <2>1, <2>2
    <3> QED BY <1>1, <1>2, <1>4, <1>5, <1>6, <2>1, <2>2, <3>1
  <2>3. CASE ~(i <= Len(ls))
    <3>1. i - Len(ls) \in 1..Len(ks)  BY <1>2, <1>3, <2>1, <2>3
    <3> QED BY <1>1, <1>3, <1>4, <1>5, <1>6, <2>1, <2>3, <3>1
  <2> QED BY <2>2, <2>3
<1> DEFINE c == Ids(both)
           d == a \o b
<1>7. c \in Seq(Lines) /\ d \in Seq(Lines) /\ Len(c) = Len(d) /\ \A i \in 1..Len(c) : c[i] = d[i]
  BY <1>1, <1>4, <1>5, <1>6
<1> HIDE DEF c, d
<1>8. c = d  BY <1>7, SeqEqual
<1> QED BY <1>8 DEF c, d, both, a, b

(* ... over appending ...                                                  *)
LEMMA IdsOfOneMore ==
    ASSUME NEW ls \in Seq(Line), NEW x \in Line
    PROVE  Ids(Append(ls, x)) = Append(Ids(ls), x[1])
<1>1. <<x>> \in Seq(Line) /\ Len(<<x>>) = 1 /\ <<x>>[1] = x  OBVIOUS
<1>2. Append(ls, x) = ls \o <<x>>  BY AppendIsConcat
<1>3. Ids(ls \o <<x>>) = Ids(ls) \o Ids(<<x>>)  BY <1>1, IdsOfBoth
<1>4. x[1] \in Lines /\ Ids(ls) \in Seq(Lines)  BY BytesAre, IdsIs
<1>5. Ids(<<x>>) = <<x[1]>>
  <2>1. /\ Ids(<<x>>) \in Seq(Lines) /\ Len(Ids(<<x>>)) = 1 /\ Ids(<<x>>)[1] = x[1]
    <3>1. /\ Ids(<<x>>) \in Seq(Lines) /\ Len(Ids(<<x>>)) = Len(<<x>>)
          /\ \A i \in 1..Len(<<x>>) : Ids(<<x>>)[i] = <<x>>[i][1]
      BY <1>1, IdsIs
    <3> QED BY <1>1, <3>1
  <2> DEFINE y == <<x[1]>>
             z == Ids(<<x>>)
  <2>2. y \in Seq(Lines) /\ Len(y) = 1 /\ y[1] = x[1]  BY <1>4
  <2>3. \A i \in 1..Len(z) : z[i] = y[i]  BY <2>1, <2>2
  <2> HIDE DEF y, z
  <2>4. z = y  BY <2>1, <2>2, <2>3, SeqEqual DEF z
  <2> QED BY <2>4 DEF y, z
<1>6. Ids(ls) \o <<x[1]>> = Append(Ids(ls), x[1])  BY <1>4, AppendIsConcat
<1> QED BY <1>2, <1>3, <1>5, <1>6

(* ... and over nothing.                                                   *)
LEMMA NoIds == Ids(<<>>) = <<>>
<1>1. <<>> \in Seq(Line) /\ Len(<<>>) = 0  OBVIOUS
<1>2. Ids(<<>>) \in Seq(Lines) /\ Len(Ids(<<>>)) = 0  BY <1>1, IdsIs
<1> QED BY <1>2, EmptySeq

(* What is appended to a sequence is a suffix of it.                       *)
LEMMA SuffixOf ==
    ASSUME NEW S, NEW s \in Seq(S), NEW t \in Seq(S)
    PROVE  IsSuffix(t, s \o t)
<1> DEFINE u == s \o t
           a == Reverse(t)
           b == Reverse(u)
           n == Len(t)
           m == Len(s)
<1>1. /\ u \in Seq(S) /\ Len(u) = m + n /\ m \in Nat /\ n \in Nat
      /\ \A i \in 1..(m + n) : u[i] = IF i <= m THEN s[i] ELSE t[i - m]
  BY ConcatProperties, LenProperties
<1>2. \A i \in 1..n : t[i] \in S  BY ElementOfSeq
<1> HIDE DEF u
<1>3. \A i \in 1..(m + n) : u[i] \in S  BY <1>1, ElementOfSeq
<1> HIDE DEF n, m
<1>4. a \in Seq(S) /\ Len(a) = n /\ \A i \in 1..n : a[i] = t[(n - i) + 1]
  <2>1. a = [i \in 1..n |-> t[(n - i) + 1]]  BY DEF Reverse, n
  <2>2. \A i \in 1..n : (n - i) + 1 \in 1..n  BY <1>1
  <2>3. a \in [1..n -> S]  BY <1>2, <2>1, <2>2
  <2> HIDE DEF a
  <2>4. a \in Seq(S)  BY <1>1, <2>3
  <2> QED BY <1>1, <2>1, <2>3, <2>4
<1>5. b \in Seq(S) /\ Len(b) = m + n /\ \A i \in 1..(m + n) : b[i] = u[((m + n) - i) + 1]
  <2> DEFINE k == m + n
  <2>0. k \in Nat /\ Len(u) = k /\ \A i \in 1..k : u[i] \in S  BY <1>1, <1>3
  <2> HIDE DEF k
  <2>1. b = [i \in 1..k |-> u[(k - i) + 1]]  BY <2>0 DEF Reverse
  <2>2. \A i \in 1..k : (k - i) + 1 \in 1..k  BY <2>0
  <2>3. b \in [1..k -> S]  BY <2>0, <2>1, <2>2
  <2> HIDE DEF b
  <2>4. b \in Seq(S)  BY <2>0, <2>3
  <2>5. Len(b) = k /\ \A i \in 1..k : b[i] = u[(k - i) + 1]  BY <2>0, <2>1, <2>3, <2>4
  <2> QED BY <2>4, <2>5 DEF k
<1> HIDE DEF a, b
<1>6. ASSUME NEW i \in 1..n PROVE a[i] = b[i]
  <2>1. i \in 1..(m + n) /\ ((m + n) - i) + 1 \in 1..(m + n) /\ ~(((m + n) - i) + 1 <= m)
        /\ (((m + n) - i) + 1) - m = (n - i) + 1
    BY <1>1
  <2>2. b[i] = u[((m + n) - i) + 1]  BY <1>5, <2>1
  <2>3. u[((m + n) - i) + 1] = t[(((m + n) - i) + 1) - m]  BY <1>1, <2>1
  <2> QED BY <1>4, <2>1, <2>2, <2>3
<1>7. n \in 0..Len(b)  BY <1>1, <1>5
<1>8. /\ SubSeq(b, 1, n) \in Seq(S) /\ Len(SubSeq(b, 1, n)) = n
      /\ \A i \in 1..n : SubSeq(b, 1, n)[i] = b[i]
  BY <1>5, <1>7, CutInTwo
<1>9. SubSeq(a, 1, n) = a  BY <1>4, SubSeqFull
<1>10. SubSeq(b, 1, n) = a
  <2> DEFINE c == SubSeq(b, 1, n)
  <2>1. c \in Seq(S) /\ Len(c) = Len(a) /\ \A i \in 1..Len(c) : c[i] = a[i]  BY <1>4, <1>6, <1>8
  <2> HIDE DEF c
  <2>2. c = a  BY <1>4, <2>1, SeqEqual
  <2> QED BY <2>2 DEF c
<1>11. Len(a) <= Len(b)  BY <1>1, <1>4, <1>5
<1>12. IsPrefix(a, b)  BY <1>4, <1>9, <1>10, <1>11 DEF IsPrefix
<1> QED BY <1>12 DEF IsSuffix, a, b, u

(* A rewrite as the log sees it.                                           *)
LEMMA LogRewritten ==
    ASSUME NEW hl \in Seq(Line), NEW since \in Seq(Line), NEW nl \in Seq(Line),
           ToSet(Ids(nl)) \subseteq ToSet(Ids(hl \o since))
    PROVE  /\ IsPrefix(Ids(hl), Ids(hl \o since))
           /\ IsSuffix(SubSeq(Ids(hl \o since), Len(Ids(hl)) + 1, Len(Ids(hl \o since))), Ids(nl \o since))
           /\ ToSet(Ids(nl \o since)) \subseteq ToSet(Ids(hl \o since))
<1> DEFINE h == Ids(hl)
           s == Ids(since)
           w == Ids(nl)
<1>1. h \in Seq(Lines) /\ s \in Seq(Lines) /\ w \in Seq(Lines)  BY IdsIs
<1>2. Ids(hl \o since) = h \o s /\ Ids(nl \o since) = w \o s  BY IdsOfBoth
<1> HIDE DEF h, s, w
<1>3. /\ SubSeq(h \o s, 1, Len(h)) = h /\ Len(h \o s) = Len(h) + Len(s)
      /\ Len(h) \in Nat /\ Len(s) \in Nat
      /\ SubSeq(h \o s, Len(h) + 1, Len(h \o s)) = s
  BY <1>1, PartsOf
<1>4. SubSeq(h, 1, Len(h)) = h  BY <1>1, SubSeqFull
<1>5. Len(h) <= Len(h \o s)  BY <1>3
<1>6. IsPrefix(h, h \o s)  BY <1>3, <1>4, <1>5 DEF IsPrefix
<1>7. IsSuffix(s, w \o s)  BY <1>1, SuffixOf
<1>8. ToSet(w \o s) \subseteq ToSet(h \o s)
  <2> SUFFICES ASSUME NEW y \in ToSet(w \o s) PROVE y \in ToSet(h \o s)  OBVIOUS
  <2>1. /\ w \o s \in Seq(Lines) /\ Len(w \o s) = Len(w) + Len(s) /\ Len(w) \in Nat
        /\ \A i \in 1..(Len(w) + Len(s)) : (w \o s)[i] = IF i <= Len(w) THEN w[i] ELSE s[i - Len(w)]
    BY <1>1, ConcatProperties, LenProperties
  <2>2. /\ h \o s \in Seq(Lines)
        /\ \A i \in 1..(Len(h) + Len(s)) : (h \o s)[i] = IF i <= Len(h) THEN h[i] ELSE s[i - Len(h)]
    BY <1>1, ConcatProperties
  <2>3. DOMAIN (w \o s) = 1..(Len(w) + Len(s)) /\ DOMAIN (h \o s) = 1..(Len(h) + Len(s)) /\ DOMAIN w = 1..Len(w)
    BY <1>1, <1>3, <2>1, <2>2, LenProperties
  <2>4. PICK i \in 1..(Len(w) + Len(s)) : y = (w \o s)[i]  BY <2>3 DEF ToSet
  <2>5. CASE i <= Len(w)
    <3>1. i \in 1..Len(w) /\ y = w[i]  BY <2>1, <2>4, <2>5
    <3>2. y \in ToSet(w)  BY <2>3, <3>1 DEF ToSet
    <3> QED BY <1>2, <3>2 DEF w
  <2>6. CASE ~(i <= Len(w))
    <3>1. y = s[i - Len(w)] /\ i - Len(w) \in 1..Len(s)  BY <1>3, <2>1, <2>4, <2>6
    <3> DEFINE j == Len(h) + (i - Len(w))
    <3>2. j \in 1..(Len(h) + Len(s)) /\ ~(j <= Len(h)) /\ j - Len(h) = i - Len(w)  BY <1>3, <2>1, <3>1
    <3> HIDE DEF j
    <3>3. y = (h \o s)[j]  BY <2>2, <3>1, <3>2
    <3> QED BY <2>3, <3>2, <3>3 DEF ToSet
  <2> QED BY <2>5, <2>6
<1> QED BY <1>2, <1>3, <1>6, <1>7, <1>8 DEF h

(* What is in a sequence is a finite set.                                  *)
LEMMA SeqIsFinite ==
    ASSUME NEW S, NEW s \in Seq(S)
    PROVE  IsFiniteSet(ToSet(s)) /\ ToSet(s) \subseteq S
<1>1. Len(s) \in Nat /\ DOMAIN s = 1..Len(s) /\ \A i \in 1..Len(s) : s[i] \in S
  BY LenProperties, ElementOfSeq
<1>2. IsFiniteSet(1..Len(s))  BY <1>1, FS_Interval
<1>3. ToSet(s) = {s[i] : i \in 1..Len(s)}  BY <1>1 DEF ToSet
<1>4. s \in Surjection(1..Len(s), ToSet(s))
  <2>1. s \in [1..Len(s) -> ToSet(s)]  BY <1>1, <1>3, LenProperties
  <2>2. \A y \in ToSet(s) : \E i \in 1..Len(s) : s[i] = y  BY <1>3
  <2> QED BY <2>1, <2>2 DEF Surjection
<1>5. IsFiniteSet(ToSet(s))  BY <1>2, <1>4, FS_Surjection
<1> QED BY <1>1, <1>3, <1>5

(* A listing of a set is a sequence of its elements.                       *)
LEMMA ListedIs ==
    ASSUME NEW K, IsFiniteSet(K), NEW s \in SetToSeqs(K)
    PROVE  s \in Seq(K) /\ ToSet(s) \subseteq K
<1> DEFINE n == Cardinality(K)
<1>1. n \in Nat  BY FS_CardinalityType
<1>2. s \in [1..n -> K]  BY DEF SetToSeqs
<1> HIDE DEF n
<1>3. s \in Seq(K)  BY <1>1, <1>2
<1> QED BY <1>3, SeqIsFinite

(* The last line of a file is pieces.                                      *)
LEMMA LastLineType ==
    ASSUME NEW f \in Seq(Pieces)
    PROVE  LastLine(f) \in Seq(Pieces)
<1> DEFINE E == {i \in LineEnds(f) : i < Len(f)}
           k == LastOf(E)
<1>1. Len(f) \in Nat /\ DOMAIN f = 1..Len(f)  BY LenProperties
<1>2. E \in SUBSET (1..Len(f))  BY <1>1 DEF LineEnds
<1>3. IsFiniteSet(1..Len(f))  BY <1>1, FS_Interval
<1>4. IsFiniteSet(E)  BY <1>2, <1>3, FS_Subset
<1>5. LastLine(f) = SubSeq(f, k + 1, Len(f))  BY DEF LastLine
<1> HIDE DEF E
<1>6. k \in Nat
  <2>1. CASE E = {}  BY <2>1 DEF LastOf
  <2>2. CASE E # {}
    <3> DEFINE m == Max(E)
    <3>1. \A y \in E : y \in Int  BY <1>1, <1>2
    <3>2. m \in E  BY <1>4, <2>2, <3>1, MaxIsGreatest
    <3>3. k = m  BY <2>2 DEF LastOf
    <3> HIDE DEF m, k
    <3>4. m \in 1..Len(f)  BY <1>2, <3>2
    <3> QED BY <1>1, <3>3, <3>4
  <2> QED BY <2>1, <2>2
<1> HIDE DEF k
<1> QED BY <1>5, <1>6, SequenceFrom

-----------------------------------------------------------------------------
(* The places of appends, readers and editors; and TypeOK with their       *)
(* types, and that a file is there while an append is between its two      *)
(* writes.                                                                 *)
Places == {"idle", "locked", "half", "landed", "done", "dead", "reading", "read"}

TypeInv ==
    /\ TypeOK
    /\ lock \in Lines \cup {None}
    /\ at \in [Lines \cup Readers \cup Editors -> Places]
    /\ \A l \in Lines : at[l] \in {"half", "landed"} => name # None

(* The file by its name.                                                   *)
LEMMA FileType ==
    ASSUME TypeInv
    PROVE  /\ File \in Seq(Pieces) /\ Len(File) \in Nat
           /\ CompleteLines(File) \in Seq(Line)
           /\ Torn(File) => name \in Inodes
           /\ name # None => name \in Inodes /\ File = disk[name]
<1>1. File \in Seq(Pieces) /\ (name = None => File = <<>>) /\ (name # None => name \in Inodes /\ File = disk[name])
  <2>1. <<>> \in Seq(Pieces)  OBVIOUS
  <2> QED BY <2>1 DEF TypeInv, TypeOK, File
<1>2. Torn(File) => File # <<>>
  <2> SUFFICES ASSUME Torn(File), File = <<>> PROVE FALSE  OBVIOUS
  <2>1. WholeEnd(File) \in 0..Len(File)  BY <1>1, EndsIn
  <2>2. Len(File) = 0  OBVIOUS
  <2> QED BY <2>1, <2>2 DEF Torn
<1> QED BY <1>1, <1>2, LinesType, LenProperties

(* A pass of the maintenance: the same lines, whatever forms they are in.  *)
Recasts(ls, new) ==
    new \in Seq(Line) /\ Len(new) = Len(ls) /\ \A k \in 1..Len(ls) : new[k][1] = ls[k][1]

(* A line in another form is still that line.                              *)
LEMMA RecastIs ==
    ASSUME NEW line \in Line, NEW scope, NEW pass \in Passes
    PROVE  Recast(line, scope, pass) \in Line /\ Recast(line, scope, pass)[1] = line[1]
<1>1. line[1] \in Lines  BY BytesAre
<1>2. pass[2] \in Forms  BY DEF Passes, Forms
<1>3. <<line[1], pass[2]>> \in Line /\ <<line[1], pass[2]>>[1] = line[1]  BY <1>1, <1>2 DEF Line
<1> QED BY <1>3 DEF Recast

(* What a compactor puts in place of the lines it read.                    *)
LEMMA RecastLines ==
    ASSUME TypeInv, NEW e \in Compactors, held[e] \in Seq(Line), NEW lines \in NewLines(e)
    PROVE  Recasts(held[e], lines)
<1> DEFINE n == Len(held[e])
<1>1. e \notin Droppers  BY LineFileAssumption
<1>2. NewLines(e) = {[k \in DOMAIN held[e] |-> Recast(held[e][k], scope, pass)] :
                         scope \in Scopes, pass \in Passes} \ {held[e]}
  BY <1>1 DEF NewLines
<1>3. PICK scope \in Scopes, pass \in Passes :
          lines = [k \in DOMAIN held[e] |-> Recast(held[e][k], scope, pass)]
  BY <1>2
<1>4. n \in Nat /\ DOMAIN held[e] = 1..n /\ \A k \in 1..n : held[e][k] \in Line
  BY LenProperties, ElementOfSeq
<1>5. \A k \in 1..n : /\ Recast(held[e][k], scope, pass) \in Line
                      /\ Recast(held[e][k], scope, pass)[1] = held[e][k][1]
  BY <1>4, RecastIs
<1> HIDE DEF n
<1>6. lines \in [1..n -> Line] /\ \A k \in 1..n : lines[k] = Recast(held[e][k], scope, pass)
  BY <1>3, <1>4, <1>5
<1>7. lines \in Seq(Line) /\ Len(lines) = n  BY <1>4, <1>6
<1> QED BY <1>5, <1>6, <1>7 DEF Recasts, n

(* What a rewrite puts in place of lines: lines, and none that was not     *)
(* there.                                                                  *)
LEMMA NewLinesType ==
    ASSUME TypeInv, NEW e \in Editors, NEW lines \in NewLines(e)
    PROVE  /\ lines \in Seq(Line)
           /\ e \in Rewriters => ToSet(Ids(lines)) \subseteq ToSet(Ids(held[e]))
           /\ e \notin Rewriters => ToSet(Ids(lines)) \subseteq ToSet(Ids(CompleteLines(File)))
<1>1. held[e] \in Seq(Line)  BY DEF TypeInv, TypeOK
<1>2. ASSUME NEW ls \in Seq(Line), NEW K \in SUBSET ToSet(ls), lines \in SetToSeqs(K)
      PROVE  lines \in Seq(Line) /\ ToSet(Ids(lines)) \subseteq ToSet(Ids(ls))
  <2>1. IsFiniteSet(ToSet(ls)) /\ ToSet(ls) \subseteq Line  BY SeqIsFinite
  <2>2. IsFiniteSet(K) /\ K \subseteq Line  BY <2>1, FS_Subset
  <2>3. lines \in Seq(K) /\ ToSet(lines) \subseteq K  BY <1>2, <2>2, ListedIs
  <2>4. lines \in Seq(Line)  BY <2>2, <2>3, SeqMonotonic
  <2>5. ASSUME NEW y \in ToSet(Ids(lines)) PROVE y \in ToSet(Ids(ls))
    <3>1. DOMAIN lines = 1..Len(lines) /\ DOMAIN ls = 1..Len(ls)  BY <2>4, LenProperties
    <3>2. /\ DOMAIN Ids(lines) = 1..Len(lines) /\ \A i \in 1..Len(lines) : Ids(lines)[i] = lines[i][1]
          /\ DOMAIN Ids(ls) = 1..Len(ls) /\ \A i \in 1..Len(ls) : Ids(ls)[i] = ls[i][1]
      BY <2>4, IdsIs
    <3>3. PICK i \in 1..Len(lines) : y = lines[i][1]  BY <3>2 DEF ToSet
    <3>4. lines[i] \in ToSet(ls)  BY <2>3, <3>1 DEF ToSet
    <3>5. PICK j \in 1..Len(ls) : lines[i] = ls[j]  BY <3>1, <3>4 DEF ToSet
    <3>6. y = Ids(ls)[j]  BY <3>2, <3>3, <3>5
    <3> QED BY <3>2, <3>6 DEF ToSet
  <2> QED BY <2>4, <2>5
<1>3. CASE e \in Droppers
  <2>1. NewLines(e) = UNION {SetToSeqs(K) : K \in SUBSET ToSet(held[e]) \ {ToSet(held[e])}}
    BY <1>3 DEF NewLines
  <2>2. PICK K \in SUBSET ToSet(held[e]) : lines \in SetToSeqs(K)  BY <2>1
  <2>3. e \in Rewriters  BY <1>3 DEF Rewriters
  <2> QED BY <1>1, <1>2, <2>2, <2>3
<1>4. CASE e \in Compactors
  <2>1. e \in Rewriters  BY <1>4 DEF Rewriters
  <2> DEFINE n == Len(held[e])
  <2>2. Recasts(held[e], lines)  BY <1>1, <1>4, RecastLines
  <2>3. lines \in Seq(Line) /\ Len(lines) = n  BY <2>2 DEF Recasts
  <2>4. \A k \in 1..n : lines[k][1] = held[e][k][1]  BY <2>2 DEF Recasts
  <2> HIDE DEF n
  <2>5. ToSet(Ids(lines)) \subseteq ToSet(Ids(held[e]))
    <3>1. DOMAIN Ids(lines) = 1..n /\ \A i \in 1..n : Ids(lines)[i] = lines[i][1]
      BY <2>3, IdsIs
    <3>2. DOMAIN Ids(held[e]) = 1..n /\ \A i \in 1..n : Ids(held[e])[i] = held[e][i][1]
      BY <1>1, IdsIs DEF n
    <3>3. \A i \in 1..n : Ids(lines)[i] = Ids(held[e])[i]  BY <2>4, <3>1, <3>2
    <3> QED BY <3>1, <3>2, <3>3 DEF ToSet
  <2> QED BY <2>1, <2>3, <2>5
<1>5. CASE e \notin Rewriters
  <2>1. e \notin Droppers /\ e \notin Compactors  BY <1>5 DEF Rewriters
  <2>2. NewLines(e) = LET there == CompleteLines(File)
                      IN {some \in UNION {SetToSeqs(K) : K \in SUBSET ToSet(there)} : InOrderOf(there, some)}
    BY <2>1 DEF NewLines
  <2>3. PICK K \in SUBSET ToSet(CompleteLines(File)) : lines \in SetToSeqs(K)  BY <2>2
  <2>4. CompleteLines(File) \in Seq(Line)  BY FileType
  <2> QED BY <1>2, <1>5, <2>3, <2>4
<1> QED BY <1>3, <1>4, <1>5 DEF Rewriters

(* The conjuncts of TypeInv by name.                                       *)
Types ==
    /\ kind \in Kinds
    /\ disk \in [Inodes -> Seq(Pieces)]
    /\ name \in Inodes \cup {None}
    /\ lock \in Lines \cup {None}
    /\ at \in [Lines \cup Readers \cup Editors -> Places]
    /\ open \in [Readers -> Handles \cup {None}]
    /\ mark \in [Readers \cup Editors -> Marks]
    /\ held \in [Readers \cup Editors -> Seq(Line)]
    /\ likened \subseteq Readers \cup Editors
Locks == \A l \in Lines : lock = l <=> at[l] \in {"locked", "half", "landed"}
Opens == \A x \in Readers : open[x] # None <=> at[x] = "reading"
Freed == \A i \in Inodes : i # name /\ ~HeldOpen(i, Readers) => disk[i] = <<>>
Based == \A l \in Lines : at[l] \in {"half", "landed"} => name # None

(* TypeInv is these.                                                       *)
LEMMA TypeParts == TypeInv <=> Types /\ Locks /\ Opens /\ Freed /\ Based
BY DEF TypeInv, TypeOK, Types, Locks, Opens, Freed, Based

(* Who is who.                                                             *)
LEMMA Roles ==
    /\ None \notin Lines /\ None \notin Inodes /\ None \notin Handles
    /\ Rewriters \subseteq Readers /\ Rewriters \subseteq Editors /\ Indexers \subseteq Editors
    /\ Tails \subseteq Readers
    /\ Readers \subseteq Tails \cup Editors
    /\ \A l \in Lines : l \notin Readers /\ l \notin Editors
    /\ \A t \in Tails : t \notin Editors
    /\ \A p \in Indexers : p \notin Readers
    /\ \A e \in Editors : e \in Rewriters \/ e \in Indexers
BY LineFileAssumption DEF Readers, Editors, Rewriters

AppendOnly ==
    /\ open' = open /\ mark' = mark /\ held' = held /\ kind' = kind
    /\ spliced' = spliced /\ likened' = likened
    /\ \A x \in Readers \cup Editors : at'[x] = at[x]

(* An append changes nothing a reader or editor has.                       *)
LEMMA AppendSteps ==
    ASSUME TypeInv, NEW l \in Lines,
           \/ TakeLock(l) \/ Cut(l) \/ WriteHead(l) \/ WriteTail(l) \/ Return(l) \/ Die(l)
    PROVE  AppendOnly
<1>1. at \in [Lines \cup Readers \cup Editors -> Places]  BY DEF TypeInv
<1>2. \A x \in Readers \cup Editors : x # l  BY Roles
<1> QED BY <1>1, <1>2 DEF AppendOnly, TakeLock, Cut, WriteHead, WriteTail, Return, Die, Goes

OthersOnly ==
    /\ lock' = lock /\ kind' = kind
    /\ likened' \subseteq Readers \cup Editors
    /\ \A l \in Lines : at'[l] = at[l]

(* ... and others change nothing of an append.                             *)
LEMMA OtherSteps ==
    ASSUME TypeInv, NEW x \in Readers \cup Editors,
           \/ ReadAbsent(x) \/ OpenRead(x) \/ CloseRead(x) \/ EndMark(x)
           \/ Swap(x) \/ LoseRace(x) \/ LeaveAsIs(x)
    PROVE  OthersOnly
<1>1. at \in [Lines \cup Readers \cup Editors -> Places]  BY DEF TypeInv
<1>2. \A l \in Lines : x # l  BY Roles
<1>3. \A from, to : Goes(x, from, to) => \A l \in Lines : at'[l] = at[l]  BY <1>1, <1>2 DEF Goes
<1>4. lock' = lock /\ kind' = kind
  BY DEF ReadAbsent, OpenRead, CloseRead, EndMark, Swap, LoseRace, LeaveAsIs
<1>5. \E from, to : Goes(x, from, to)
  BY DEF ReadAbsent, OpenRead, CloseRead, EndMark, Swap, LoseRace, LeaveAsIs
<1>6. likened' \subseteq Readers \cup Editors
  <2>1. likened \subseteq Readers \cup Editors  BY DEF TypeInv, TypeOK
  <2>2. ASSUME ReadAbsent(x) \/ EndMark(x) \/ LoseRace(x) \/ LeaveAsIs(x) PROVE likened' = likened \ {x}
    BY <2>2 DEF ReadAbsent, EndMark, LoseRace, LeaveAsIs
  <2>3. ASSUME OpenRead(x) PROVE likened' = likened  BY <2>3 DEF OpenRead
  <2>4. ASSUME CloseRead(x) PROVE likened' \in {likened, likened \ {x}}  BY <2>4 DEF CloseRead
  <2>5. ASSUME Swap(x) PROVE \E made, i : likened' = (likened \ {x}) \cup Likened(made, i)
    BY <2>5 DEF Swap
  <2>6. \A made, i : Likened(made, i) \subseteq Readers \cup Editors  BY DEF Likened
  <2> QED BY <2>1, <2>2, <2>3, <2>4, <2>5, <2>6
<1> QED BY <1>3, <1>4, <1>5, <1>6 DEF OthersOnly

(* The types hold at first.                                                *)
LEMMA InitTypes ==
    ASSUME Init PROVE TypeInv
<1> USE DEF Init
<1>0. <<>> \in Seq(Pieces) /\ <<>> \in Seq(Line)  OBVIOUS
<1>1. Absent \in Marks  BY <1>0 DEF Absent, Marks
<1>2. Types  BY <1>0, <1>1 DEF Types, Places
<1>3. Locks
  <2> SUFFICES ASSUME NEW l \in Lines PROVE lock = l <=> at[l] \in {"locked", "half", "landed"}  BY DEF Locks
  <2> QED BY Roles
<1>4. Opens
  <2> SUFFICES ASSUME NEW x \in Readers PROVE open[x] # None <=> at[x] = "reading"  BY DEF Opens
  <2> QED OBVIOUS
<1>5. Freed  BY DEF Freed
<1>6. Based  BY DEF Based
<1> QED BY <1>2, <1>3, <1>4, <1>5, <1>6, TypeParts

(* A step of an append keeps the types.                                    *)
LEMMA AppendTypes ==
    ASSUME TypeInv, NEW l \in Lines,
           \/ TakeLock(l) \/ Cut(l) \/ WriteHead(l) \/ WriteTail(l) \/ Return(l) \/ Die(l)
    PROVE  TypeInv'
<1>0. Types /\ Locks /\ Opens /\ Freed /\ Based  BY TypeParts
<1>1. AppendOnly  BY AppendSteps
<1>2. Opens'
  BY <1>0, <1>1 DEF Opens, AppendOnly
<1>3. \A i : HeldOpen(i, Readers)' = HeldOpen(i, Readers)  BY <1>1 DEF AppendOnly, HeldOpen
<1>4. /\ l \in Lines \cup Readers \cup Editors
      /\ at \in [Lines \cup Readers \cup Editors -> Places]
      /\ {"idle", "locked", "half", "landed", "done", "dead"} \subseteq Places
  BY <1>0 DEF Types, Places
<1>5. ASSUME NEW from, NEW to, to \in Places, Goes(l, from, to)
      PROVE  /\ at' \in [Lines \cup Readers \cup Editors -> Places]
             /\ at[l] = from /\ at'[l] = to /\ \A m \in Lines : m # l => at'[m] = at[m]
  BY <1>4, <1>5 DEF Goes
<1>6. ASSUME disk' = disk, name' = name PROVE Freed'
  BY <1>0, <1>3, <1>6 DEF Freed
<1>7. ASSUME disk' \in [Inodes -> Seq(Pieces)], name' \in Inodes \cup {None}, lock' \in Lines \cup {None},
             at' \in [Lines \cup Readers \cup Editors -> Places], Locks', Freed', Based'
      PROVE  TypeInv'
  <2>1. Types'  BY <1>0, <1>1, <1>7 DEF Types, AppendOnly
  <2> QED BY <1>2, <1>7, <2>1, TypeParts, PTL
<1>8. CASE TakeLock(l)
  <2>1. lock = None /\ Goes(l, "idle", "locked") /\ lock' = l /\ disk' = disk /\ name' = name
    BY <1>8 DEF TakeLock
  <2>2. /\ at' \in [Lines \cup Readers \cup Editors -> Places]
        /\ at[l] = "idle" /\ at'[l] = "locked" /\ \A m \in Lines : m # l => at'[m] = at[m]
    BY <1>4, <1>5, <2>1
  <2>3. Locks'  BY <1>0, <2>1, <2>2, Roles DEF Locks
  <2>4. Based'  BY <1>0, <2>1, <2>2 DEF Based
  <2> QED BY <1>0, <1>6, <1>7, <2>1, <2>2, <2>3, <2>4 DEF Types
<1>9. CASE Cut(l)
  <2>1. Torn(File) /\ lock' = lock /\ name' = name /\ at' = at
        /\ disk' = [disk EXCEPT ![name] = SubSeq(@, 1, WholeEnd(@))]
    BY <1>9 DEF Cut
  <2>2. name \in Inodes /\ disk[name] \in Seq(Pieces)  BY <1>0, <2>1, FileType DEF Types
  <2>3. SubSeq(disk[name], 1, WholeEnd(disk[name])) \in Seq(Pieces)  BY <2>2, EndsIn, CutInTwo
  <2>4. disk' \in [Inodes -> Seq(Pieces)] /\ \A i \in Inodes : i # name => disk'[i] = disk[i]
    BY <1>0, <2>1, <2>2, <2>3 DEF Types
  <2>5. Freed'  BY <1>0, <1>3, <2>1, <2>4 DEF Freed
  <2>6. Locks' /\ Based'  BY <1>0, <2>1 DEF Locks, Based
  <2> QED BY <1>0, <1>7, <2>1, <2>4, <2>5, <2>6 DEF Types
<1>10. CASE WriteHead(l)
  <2>1. /\ Goes(l, "locked", "half") /\ lock' = lock
        /\ name' \in IF name = None THEN NewInode ELSE {name}
        /\ disk' = [disk EXCEPT ![name'] = Append(File, HeadOf(l))]
    BY <1>10 DEF WriteHead
  <2>2. name' \in Inodes /\ (name = None \/ name' = name)  BY <1>0, <2>1 DEF Types, NewInode
  <2>3. Append(File, HeadOf(l)) \in Seq(Pieces)  BY FileType, HeadPiece, AppendProperties
  <2>4. disk' \in [Inodes -> Seq(Pieces)] /\ \A i \in Inodes : i # name' => disk'[i] = disk[i]
    BY <1>0, <2>1, <2>2, <2>3 DEF Types
  <2>5. Freed'
    <3> SUFFICES ASSUME NEW i \in Inodes, i # name', ~HeldOpen(i, Readers)' PROVE disk'[i] = <<>>
      BY DEF Freed
    <3>1. i # name  BY <2>2, Roles
    <3> QED BY <1>0, <1>3, <2>4, <3>1 DEF Freed
  <2>6. /\ at' \in [Lines \cup Readers \cup Editors -> Places]
        /\ at[l] = "locked" /\ at'[l] = "half" /\ \A m \in Lines : m # l => at'[m] = at[m]
    BY <1>4, <1>5, <2>1
  <2>7. Locks'  BY <1>0, <2>1, <2>6 DEF Locks
  <2>8. Based'  BY <2>2, Roles DEF Based
  <2> QED BY <1>0, <1>7, <2>1, <2>2, <2>4, <2>5, <2>6, <2>7, <2>8 DEF Types
<1>11. CASE WriteTail(l)
  <2>1. /\ Goes(l, "half", "landed") /\ lock' = lock /\ name' = name
        /\ disk' = [disk EXCEPT ![name] = @ \o Tail(Bytes(Full(l)))]
    BY <1>11 DEF WriteTail
  <2>2. /\ at' \in [Lines \cup Readers \cup Editors -> Places]
        /\ at[l] = "half" /\ at'[l] = "landed" /\ \A m \in Lines : m # l => at'[m] = at[m]
    BY <1>4, <1>5, <2>1
  <2>3. name \in Inodes  BY <1>0, <2>2 DEF Based, Types
  <2>4. Tail(Bytes(Full(l))) \in Seq(Pieces)  BY AddTail, EmptySeq
  <2>5. disk[name] \o Tail(Bytes(Full(l))) \in Seq(Pieces)  BY <1>0, <2>3, <2>4, ConcatProperties DEF Types
  <2>6. disk' \in [Inodes -> Seq(Pieces)] /\ \A i \in Inodes : i # name => disk'[i] = disk[i]
    BY <1>0, <2>1, <2>3, <2>5 DEF Types
  <2>7. Freed'  BY <1>0, <1>3, <2>1, <2>6 DEF Freed
  <2>8. Locks' /\ Based'  BY <1>0, <2>1, <2>2 DEF Locks, Based
  <2> QED BY <1>0, <1>7, <2>1, <2>2, <2>6, <2>7, <2>8 DEF Types
<1>12. CASE Return(l) \/ Die(l)
  <2>1. PICK to \in {"done", "dead"} :
          lock' = None /\ disk' = disk /\ name' = name /\ at' = [at EXCEPT ![l] = to]
          /\ at[l] \in {"locked", "half", "landed"}
    BY <1>12 DEF Return, Die, Goes
  <2>2. /\ at' \in [Lines \cup Readers \cup Editors -> Places]
        /\ at'[l] = to /\ \A m \in Lines : m # l => at'[m] = at[m]
    BY <1>4, <2>1
  <2>3. lock = l  BY <1>0, <2>1 DEF Locks
  <2>4. Locks'  BY <1>0, <2>1, <2>2, <2>3, Roles DEF Locks
  <2>5. Based'  BY <1>0, <2>1, <2>2 DEF Based
  <2> QED BY <1>0, <1>6, <1>7, <2>1, <2>2, <2>4, <2>5 DEF Types
<1> QED BY <1>8, <1>9, <1>10, <1>11, <1>12

(* What a mark was made of, and what it says.                              *)
LEMMA MarkIs ==
    ASSUME TypeInv, NEW x \in Readers \cup Editors
    PROVE  /\ mark[x] \in Marks /\ mark[x].end \in Nat /\ mark[x].inode \in Inodes \cup {None}
           /\ mark[x].last \in Seq(Pieces) /\ held[x] \in Seq(Line)
           /\ Absent \in Marks /\ Absent.inode = None /\ Absent.end = 0
           /\ <<>> \in Seq(Line)
<1>0. <<>> \in Seq(Pieces) /\ <<>> \in Seq(Line)  OBVIOUS
<1>1. Absent \in Marks  BY <1>0 DEF Absent, Marks
<1>2. mark[x] \in Marks /\ held[x] \in Seq(Line)  BY DEF TypeInv, TypeOK
<1> QED BY <1>0, <1>1, <1>2 DEF Marks, Absent

(* A handle that is open.                                                  *)
LEMMA HandleIs ==
    ASSUME TypeInv, NEW x \in Readers, open[x] # None
    PROVE  /\ open[x].inode \in Inodes /\ open[x].start \in Nat /\ open[x].whole \in BOOLEAN
           /\ open[x].got \in Seq(Pieces)
           /\ disk[open[x].inode] \in Seq(Pieces)
<1>1. open[x] \in Handles  BY DEF TypeInv, TypeOK
<1>2. open[x].inode \in Inodes /\ open[x].start \in Nat /\ open[x].whole \in BOOLEAN
      /\ open[x].got \in Seq(Pieces)
  BY <1>1 DEF Handles
<1> QED BY <1>2 DEF TypeInv, TypeOK

(* What a reader gets when it reads once more.                             *)
GotAll(x) == open[x].got \o SubSeq(disk[open[x].inode], open[x].start + Len(open[x].got) + 1,
                                   Len(disk[open[x].inode]))

(* ... is pieces, and has lines and a last one.                            *)
LEMMA GotAllType ==
    ASSUME TypeInv, NEW x \in Readers, open[x] # None
    PROVE  /\ GotAll(x) \in Seq(Pieces) /\ CompleteLines(GotAll(x)) \in Seq(Line)
           /\ WholeEnd(GotAll(x)) \in Nat
           /\ LastLine(SubSeq(GotAll(x), 1, WholeEnd(GotAll(x)))) \in Seq(Pieces)
<1> DEFINE f == disk[open[x].inode]
           k == open[x].start + Len(open[x].got)
           g == GotAll(x)
<1>1. f \in Seq(Pieces) /\ k \in Nat /\ open[x].got \in Seq(Pieces)  BY HandleIs, LenProperties
<1>2. g = open[x].got \o SubSeq(f, k + 1, Len(f))  BY DEF GotAll
<1> HIDE DEF f, k, g
<1>3. SubSeq(f, k + 1, Len(f)) \in Seq(Pieces)  BY <1>1, SequenceFrom
<1>4. g \in Seq(Pieces)  BY <1>1, <1>2, <1>3, ConcatProperties
<1>5. WholeEnd(g) \in 0..Len(g) /\ Len(g) \in Nat  BY <1>4, EndsIn, LenProperties
<1>6. SubSeq(g, 1, WholeEnd(g)) \in Seq(Pieces)  BY <1>4, <1>5, CutInTwo
<1>7. LastLine(SubSeq(g, 1, WholeEnd(g))) \in Seq(Pieces)  BY <1>6, LastLineType
<1>8. CompleteLines(g) \in Seq(Line)  BY <1>4, LinesType
<1> QED BY <1>4, <1>5, <1>7, <1>8 DEF g

(* What a step of a reader or editor leaves to be shown.                   *)
LEMMA OtherTypes ==
    ASSUME TypeInv, NEW x \in Readers \cup Editors, OthersOnly,
           at' \in [Lines \cup Readers \cup Editors -> Places],
           disk' \in [Inodes -> Seq(Pieces)], name' \in Inodes \cup {None},
           open' \in [Readers -> Handles \cup {None}],
           mark' \in [Readers \cup Editors -> Marks],
           held' \in [Readers \cup Editors -> Seq(Line)],
           Opens', Freed', name' = name \/ name' \in Inodes
    PROVE  TypeInv'
<1>0. Types /\ Locks /\ Opens /\ Freed /\ Based  BY TypeParts
<1>1. Types'  BY <1>0 DEF Types, OthersOnly
<1>2. Locks'  BY <1>0 DEF Locks, OthersOnly
<1>3. Based'  BY <1>0, Roles DEF Based, OthersOnly
<1> QED BY <1>1, <1>2, <1>3, TypeParts, PTL

(* A step of a reader keeps the types.                                     *)
LEMMA ReadTypes ==
    ASSUME TypeInv, NEW x \in Readers, ReadAbsent(x) \/ OpenRead(x) \/ CloseRead(x)
    PROVE  TypeInv'
<1>0. Types /\ Locks /\ Opens /\ Freed /\ Based  BY TypeParts
<1>1. OthersOnly  BY OtherSteps
<1>2. /\ x \in Readers \cup Editors /\ x \in Lines \cup Readers \cup Editors
      /\ {"idle", "reading", "read"} \subseteq Places
      /\ at \in [Lines \cup Readers \cup Editors -> Places]
  BY <1>0 DEF Types, Places
<1>3. AfterRead(x) \in {"idle", "read"}  BY DEF AfterRead
<1>4. ASSUME NEW from, NEW to, to \in {"idle", "reading", "read"}, Goes(x, from, to)
      PROVE  /\ at' \in [Lines \cup Readers \cup Editors -> Places]
             /\ at[x] = from /\ at'[x] = to /\ \A y \in Readers : y # x => at'[y] = at[y]
  BY <1>2, <1>4 DEF Goes
<1>5. CASE ReadAbsent(x)
  <2>1. /\ Goes(x, "idle", AfterRead(x)) /\ mark' = [mark EXCEPT ![x] = Absent]
        /\ held' = [held EXCEPT ![x] = <<>>] /\ disk' = disk /\ name' = name /\ open' = open
    BY <1>5 DEF ReadAbsent
  <2>2. /\ at' \in [Lines \cup Readers \cup Editors -> Places]
        /\ at[x] = "idle" /\ at'[x] # "reading" /\ \A y \in Readers : y # x => at'[y] = at[y]
    BY <1>3, <1>4, <2>1
  <2>3. Opens'  BY <1>0, <2>1, <2>2 DEF Opens
  <2>4. \A i : HeldOpen(i, Readers)' = HeldOpen(i, Readers)  BY <2>1 DEF HeldOpen
  <2>5. Freed'  BY <1>0, <2>1, <2>4 DEF Freed
  <2>6. mark' \in [Readers \cup Editors -> Marks]  BY <1>0, <1>2, <2>1, MarkIs DEF Types
  <2>7. held' \in [Readers \cup Editors -> Seq(Line)]  BY <1>0, <1>2, <2>1, MarkIs DEF Types
  <2> QED BY <1>0, <1>1, <1>2, <2>1, <2>2, <2>3, <2>5, <2>6, <2>7, OtherTypes DEF Types
<1>6. CASE OpenRead(x)
  <2> DEFINE m == ReadsFrom(x)
             whole == m.inode = None \/ ~HoldsMark(m)
             start == IF whole THEN 0 ELSE m.end
             h == [inode |-> name, start |-> start, whole |-> whole,
                   got |-> SubSeq(File, start + 1, Len(File))]
  <2>1. /\ name # None /\ Goes(x, "idle", "reading") /\ open' = [open EXCEPT ![x] = h]
        /\ disk' = disk /\ name' = name /\ mark' = mark /\ held' = held
    BY <1>6 DEF OpenRead
  <2>2. start \in Nat /\ whole \in BOOLEAN
    <3>1. m.end \in Nat  BY <1>2, MarkIs DEF ReadsFrom
    <3> QED BY <3>1
  <2> HIDE DEF start, whole
  <2>3. SubSeq(File, start + 1, Len(File)) \in Seq(Pieces)  BY <2>2, FileType, SequenceFrom
  <2>4. h \in Handles  BY <2>1, <2>2, <2>3, FileType DEF Handles
  <2>5. h.inode = name /\ h # None  BY <2>4, Roles
  <2> HIDE DEF h
  <2>6. /\ at' \in [Lines \cup Readers \cup Editors -> Places]
        /\ at[x] = "idle" /\ at'[x] = "reading" /\ \A y \in Readers : y # x => at'[y] = at[y]
    BY <1>4, <2>1
  <2>7. open' \in [Readers -> Handles \cup {None}] /\ open'[x] = h
        /\ \A y \in Readers : y # x => open'[y] = open[y]
    BY <1>0, <2>1, <2>4 DEF Types
  <2>8. Opens'  BY <1>0, <2>5, <2>6, <2>7 DEF Opens
  <2>9. open[x] = None  BY <1>0, <2>6 DEF Opens
  <2>10. Freed'
    <3> SUFFICES ASSUME NEW i \in Inodes, i # name', ~HeldOpen(i, Readers)' PROVE disk'[i] = <<>>
      BY DEF Freed
    <3>1. ~HeldOpen(i, Readers)  BY <2>7, <2>9 DEF HeldOpen
    <3> QED BY <1>0, <2>1, <3>1 DEF Freed
  <2> QED BY <1>0, <1>1, <1>2, <2>1, <2>6, <2>7, <2>8, <2>10, OtherTypes DEF Types
<1>7. CASE CloseRead(x)
  <2> DEFINE h == open[x]
             g == GotAll(x)
             lines == CompleteLines(g)
             last == IF lines # <<>> THEN LastLine(SubSeq(g, 1, WholeEnd(g)))
                     ELSE IF h.whole THEN <<>> ELSE mark[x].last
             newMark == [end |-> h.start + WholeEnd(g), inode |-> h.inode, last |-> last]
             newHeld == IF h.whole THEN lines ELSE held[x] \o lines
             there == disk[h.inode]
  <2>1. /\ open[x] # None
        /\ Goes(x, "reading", IF Garbled(g) THEN "idle" ELSE AfterRead(x))
        /\ open' = [open EXCEPT ![x] = None]
        /\ held' = [held EXCEPT ![x] = newHeld]
        /\ mark' = [mark EXCEPT ![x] = newMark]
        /\ disk' = IF h.inode = name \/ HeldOpen(h.inode, Readers \ {x}) THEN disk
                   ELSE [disk EXCEPT ![h.inode] = <<>>]
        /\ name' = name
    BY <1>7 DEF CloseRead, GotAll
  <2>2. /\ h.inode \in Inodes /\ h.start \in Nat /\ g \in Seq(Pieces) /\ lines \in Seq(Line)
        /\ WholeEnd(g) \in Nat /\ LastLine(SubSeq(g, 1, WholeEnd(g))) \in Seq(Pieces)
    BY <2>1, HandleIs, GotAllType
  <2>3. last \in Seq(Pieces)
    <3>1. <<>> \in Seq(Pieces)  OBVIOUS
    <3>2. mark[x].last \in Seq(Pieces)  BY <1>2, MarkIs
    <3> HIDE DEF lines, g, h
    <3> QED BY <2>2, <3>1, <3>2
  <2> HIDE DEF last
  <2>4. newMark \in Marks
    <3>1. h.start + WholeEnd(g) \in Nat  BY <2>2
    <3> HIDE DEF h, g
    <3> QED BY <2>2, <2>3, <3>1 DEF Marks
  <2>5. newHeld \in Seq(Line)
    <3>1. held[x] \in Seq(Line)  BY <1>2, MarkIs
    <3> HIDE DEF lines, h
    <3>2. held[x] \o lines \in Seq(Line)  BY <2>2, <3>1, ConcatProperties
    <3> QED BY <2>2, <3>2
  <2> HIDE DEF newMark, newHeld
  <2>6. mark' \in [Readers \cup Editors -> Marks]  BY <1>0, <1>2, <2>1, <2>4 DEF Types
  <2>7. held' \in [Readers \cup Editors -> Seq(Line)]  BY <1>0, <1>2, <2>1, <2>5 DEF Types
  <2>8. open' \in [Readers -> Handles \cup {None}] /\ open'[x] = None
        /\ \A y \in Readers : y # x => open'[y] = open[y]
    BY <1>0, <2>1 DEF Types
  <2>9. /\ at' \in [Lines \cup Readers \cup Editors -> Places]
        /\ at'[x] # "reading" /\ \A y \in Readers : y # x => at'[y] = at[y]
    BY <1>3, <1>4, <2>1
  <2>10. Opens'  BY <1>0, <2>8, <2>9 DEF Opens
  <2>11. disk' \in [Inodes -> Seq(Pieces)] /\ \A i \in Inodes : disk'[i] = disk[i] \/ disk'[i] = <<>>
    BY <1>0, <2>1, <2>2 DEF Types
  <2>12. Freed'
    <3> SUFFICES ASSUME NEW i \in Inodes, i # name, ~HeldOpen(i, Readers)' PROVE disk'[i] = <<>>
      BY <2>1 DEF Freed
    <3>1. ~HeldOpen(i, Readers \ {x})  BY <2>8 DEF HeldOpen
    <3>2. CASE i = h.inode
      <4>1. disk' = [disk EXCEPT ![h.inode] = <<>>]  BY <2>1, <3>1, <3>2
      <4> QED BY <1>0, <3>2, <4>1 DEF Types
    <3>3. CASE i # h.inode
      <4>1. ~HeldOpen(i, Readers)  BY <3>1, <3>3 DEF HeldOpen
      <4> QED BY <1>0, <2>11, <4>1 DEF Freed
    <3> QED BY <3>2, <3>3
  <2> QED BY <1>0, <1>1, <1>2, <2>1, <2>6, <2>7, <2>8, <2>9, <2>10, <2>11, <2>12, OtherTypes DEF Types
<1> QED BY <1>5, <1>6, <1>7

(* The file a rewrite makes.                                               *)
LEMMA SwapFile ==
    ASSUME TypeInv, NEW e \in Editors, NEW lines \in NewLines(e)
    PROVE  FileOf(lines) \o Carried(mark[e]) \in Seq(Pieces)
<1>1. FileOf(lines) \in Seq(Pieces)  BY NewLinesType, FileOfType
<1>2. mark[e].end \in Nat /\ File \in Seq(Pieces)  BY MarkIs, FileType
<1>3. Carried(mark[e]) \in Seq(Pieces)  BY <1>2, SequenceFrom DEF Carried
<1> QED BY <1>1, <1>3, ConcatProperties

(* An editor forgets its attempt.                                          *)
LEMMA ForgetsTypes ==
    ASSUME TypeInv, NEW e \in Editors, Forgets(e)
    PROVE  /\ mark' \in [Readers \cup Editors -> Marks]
           /\ held' \in [Readers \cup Editors -> Seq(Line)]
           /\ mark'[e] = Absent /\ held'[e] = <<>>
           /\ \A y \in Readers \cup Editors : y # e => mark'[y] = mark[y] /\ held'[y] = held[y]
<1>1. Absent \in Marks /\ <<>> \in Seq(Line)  BY MarkIs
<1>2. mark \in [Readers \cup Editors -> Marks] /\ held \in [Readers \cup Editors -> Seq(Line)]
  BY DEF TypeInv, TypeOK
<1> QED BY <1>1, <1>2 DEF Forgets

(* A step of an editor keeps the types.                                    *)
LEMMA EditTypes ==
    ASSUME TypeInv, NEW e \in Editors,
           \/ e \in Indexers /\ EndMark(e)
           \/ Swap(e)
           \/ LoseRace(e)
           \/ e \in Rewriters /\ LeaveAsIs(e)
    PROVE  TypeInv'
<1>0. Types /\ Locks /\ Opens /\ Freed /\ Based  BY TypeParts
<1>1. OthersOnly  BY OtherSteps
<1>2. /\ e \in Readers \cup Editors /\ e \in Lines \cup Readers \cup Editors
      /\ {"idle", "reading", "read", "done"} \subseteq Places
      /\ at \in [Lines \cup Readers \cup Editors -> Places]
  BY <1>0 DEF Types, Places
<1>3. open' = open  BY DEF EndMark, Swap, LoseRace, LeaveAsIs
<1>4. \A i : HeldOpen(i, Readers)' = HeldOpen(i, Readers)  BY <1>3 DEF HeldOpen
<1>5. ASSUME NEW from, NEW to, from # "reading", to \in {"idle", "read", "done"}, Goes(e, from, to)
      PROVE  at' \in [Lines \cup Readers \cup Editors -> Places] /\ Opens'
  <2>1. /\ at' \in [Lines \cup Readers \cup Editors -> Places]
        /\ at[e] = from /\ at'[e] = to /\ \A y \in Readers : y # e => at'[y] = at[y]
    BY <1>2, <1>5 DEF Goes
  <2>2. Opens'  BY <1>0, <1>3, <1>5, <2>1 DEF Opens
  <2> QED BY <2>1, <2>2
<1>6. CASE e \in Indexers /\ EndMark(e)
  <2> DEFINE newMark == IF name = None THEN Absent
                        ELSE [end |-> Len(File), inode |-> name, last |-> LastLine(File)]
  <2>1. /\ Goes(e, "idle", "read") /\ mark' = [mark EXCEPT ![e] = newMark]
        /\ held' = [held EXCEPT ![e] = CompleteLines(File)] /\ disk' = disk /\ name' = name
    BY <1>6 DEF EndMark
  <2>2. newMark \in Marks
    <3>1. Len(File) \in Nat /\ LastLine(File) \in Seq(Pieces)  BY FileType, LastLineType
    <3>2. Absent \in Marks  BY MarkIs
    <3> QED BY <1>0, <3>1, <3>2 DEF Types, Marks
  <2> HIDE DEF newMark
  <2>3. mark' \in [Readers \cup Editors -> Marks]  BY <1>0, <1>2, <2>1, <2>2 DEF Types
  <2>4. held' \in [Readers \cup Editors -> Seq(Line)]  BY <1>0, <1>2, <2>1, FileType DEF Types
  <2>5. Freed'  BY <1>0, <1>4, <2>1 DEF Freed
  <2> QED BY <1>0, <1>1, <1>2, <1>3, <1>5, <2>1, <2>3, <2>4, <2>5, OtherTypes DEF Types
<1>7. CASE Swap(e)
  <2>1. /\ Goes(e, "read", IF e \in Indexers THEN "done" ELSE "idle") /\ Forgets(e)
    BY <1>7 DEF Swap
  <2>2. PICK lines \in NewLines(e), i \in NewInode :
          /\ name' = i
          /\ disk' = [j \in Inodes |->
                          IF j = i THEN FileOf(lines) \o Carried(mark[e])
                          ELSE IF j = name /\ ~HeldOpen(j, Readers) THEN <<>>
                          ELSE disk[j]]
    BY <1>7 DEF Swap
  <2>3. name' \in Inodes  BY <2>2 DEF NewInode
  <2>4. FileOf(lines) \o Carried(mark[e]) \in Seq(Pieces)  BY SwapFile
  <2> DEFINE made == FileOf(lines) \o Carried(mark[e])
  <2> HIDE DEF made
  <2>5. disk' = [j \in Inodes |-> IF j = i THEN made
                                  ELSE IF j = name /\ ~HeldOpen(j, Readers) THEN <<>> ELSE disk[j]]
    BY <2>2 DEF made
  <2>6. disk' \in [Inodes -> Seq(Pieces)]
    <3>1. <<>> \in Seq(Pieces)  OBVIOUS
    <3>2. made \in Seq(Pieces)  BY <2>4 DEF made
    <3> QED BY <1>0, <2>5, <3>1, <3>2 DEF Types
  <2>7. Freed'
    <3> SUFFICES ASSUME NEW j \in Inodes, j # name', ~HeldOpen(j, Readers)' PROVE disk'[j] = <<>>
      BY DEF Freed
    <3> QED BY <1>0, <1>4, <2>2, <2>5 DEF Freed
  <2> QED BY <1>0, <1>1, <1>2, <1>3, <1>5, <2>1, <2>3, <2>6, <2>7, ForgetsTypes, OtherTypes DEF Types
<1>8. CASE LoseRace(e) \/ (e \in Rewriters /\ LeaveAsIs(e))
  <2>1. Goes(e, "read", "idle") /\ Forgets(e) /\ disk' = disk /\ name' = name
    BY <1>8 DEF LoseRace, LeaveAsIs
  <2>2. Freed'  BY <1>0, <1>4, <2>1 DEF Freed
  <2> QED BY <1>0, <1>1, <1>2, <1>3, <1>5, <2>1, <2>2, ForgetsTypes, OtherTypes DEF Types
<1> QED BY <1>6, <1>7, <1>8

(* Every step keeps the types.                                             *)
LEMMA TypeStep == TypeInv /\ [Next]_vars => TypeInv'
<1> SUFFICES ASSUME TypeInv, [Next]_vars PROVE TypeInv'  OBVIOUS
<1>1. ASSUME NEW l \in Lines,
             TakeLock(l) \/ Cut(l) \/ WriteHead(l) \/ WriteTail(l) \/ Return(l) \/ Die(l)
      PROVE  TypeInv'
  BY <1>1, AppendTypes
<1>2. ASSUME NEW x \in Readers, ReadAbsent(x) \/ OpenRead(x) \/ CloseRead(x) PROVE TypeInv'
  BY <1>2, ReadTypes
<1>3. ASSUME NEW e \in Indexers, EndMark(e) PROVE TypeInv'  BY <1>3, EditTypes, Roles
<1>4. ASSUME NEW e \in Editors, Swap(e) \/ LoseRace(e) PROVE TypeInv'  BY <1>4, EditTypes
<1>5. ASSUME NEW e \in Rewriters, LeaveAsIs(e) PROVE TypeInv'  BY <1>5, EditTypes, Roles
<1>6. CASE UNCHANGED vars
  BY <1>6 DEF vars, TypeInv, TypeOK, HeldOpen
<1> QED BY <1>1, <1>2, <1>3, <1>4, <1>5, <1>6 DEF Next

(* Types hold throughout; the lock is held by exactly the append that is   *)
(* under it, a reader has a handle exactly while it reads, and what no     *)
(* name and no handle refers to is empty.                                  *)
THEOREM LineTypes == Spec => []TypeOK
<1>1. Init => TypeInv  BY InitTypes
<1>2. TypeInv /\ [Next]_vars => TypeInv'  BY TypeStep
<1>3. TypeInv => TypeOK  BY DEF TypeInv
<1> QED BY <1>1, <1>2, <1>3, PTL DEF Spec

(* Every file is whole lines and at most one torn head. The head of an     *)
(* append between its two writes is the end of the file, and what an       *)
(* append has landed is there until it returns.                            *)
WholeFiles ==
    /\ \A i \in Inodes : Shaped(disk[i])
    /\ \A l \in Lines : at[l] = "half" => File = FileOf(CompleteLines(File)) \o <<HeadOf(l)>>
    /\ \A l \in Lines : at[l] = "landed" => l \in ToSet(Ids(CompleteLines(File)))

(* The file by its name is shaped.                                         *)
LEMMA FileShaped ==
    ASSUME TypeInv, WholeFiles
    PROVE  Shaped(File)
<1>1. CASE name = None  BY <1>1, ShapedNone DEF File
<1>2. CASE name # None  BY <1>2, FileType DEF WholeFiles
<1> QED BY <1>1, <1>2

(* The one step that reads bytes of two lines as one is told by spliced.   *)
LEMMA SplicedStays ==
    ASSUME [Next]_vars, spliced PROVE spliced'
BY DEF Next, vars, TakeLock, Cut, WriteHead, WriteTail, Return, Die, ReadAbsent, OpenRead, CloseRead,
       EndMark, Swap, LeaveAsIs, LoseRace

(* What an append does to the file.                                        *)
LEMMA CutFile ==
    ASSUME TypeInv, NEW l \in Lines, Cut(l)
    PROVE  /\ name' = name /\ name \in Inodes /\ File = disk[name]
           /\ disk'[name] = SubSeq(File, 1, WholeEnd(File))
           /\ \A i \in Inodes : i # name => disk'[i] = disk[i]
<1>1. Torn(File) /\ name' = name /\ disk' = [disk EXCEPT ![name] = SubSeq(@, 1, WholeEnd(@))]
  BY DEF Cut
<1>2. name \in Inodes  BY <1>1, FileType
<1>3. name # None  BY <1>2, Roles
<1>4. File = disk[name]  BY <1>3 DEF File
<1>5. disk \in [Inodes -> Seq(Pieces)]  BY DEF TypeInv, TypeOK
<1> QED BY <1>1, <1>2, <1>4, <1>5

(* ... its first bytes ...                                                 *)
LEMMA HeadFile ==
    ASSUME TypeInv, NEW l \in Lines, WriteHead(l)
    PROVE  /\ name' \in Inodes /\ (name' = name \/ (name = None /\ ~HeldOpen(name', Readers)))
           /\ ~Torn(File)
           /\ disk'[name'] = Append(File, HeadOf(l))
           /\ \A i \in Inodes : i # name' => disk'[i] = disk[i]
<1>1. /\ name' \in (IF name = None THEN NewInode ELSE {name})
      /\ disk' = [disk EXCEPT ![name'] = Append(File, HeadOf(l))]
      /\ ~Torn(File)
  BY DEF WriteHead
<1>2. name' \in Inodes /\ (name' = name \/ (name = None /\ ~HeldOpen(name', Readers)))
  BY <1>1, FileType DEF NewInode
<1>3. disk \in [Inodes -> Seq(Pieces)]  BY DEF TypeInv, TypeOK
<1> QED BY <1>1, <1>2, <1>3

(* ... and the rest.                                                       *)
LEMMA TailFile ==
    ASSUME TypeInv, WholeFiles, NEW l \in Lines, WriteTail(l)
    PROVE  /\ name' = name /\ name \in Inodes /\ File = disk[name]
           /\ disk'[name] = File \o Tail(Bytes(Full(l)))
           /\ File = FileOf(CompleteLines(File)) \o <<HeadOf(l)>>
           /\ \A i \in Inodes : i # name => disk'[i] = disk[i]
<1>1. at[l] = "half" /\ name' = name /\ disk' = [disk EXCEPT ![name] = @ \o Tail(Bytes(Full(l)))]
  BY DEF WriteTail, Goes
<1>2. name # None  BY <1>1 DEF TypeInv
<1>3. name \in Inodes /\ File = disk[name]  BY <1>2, FileType
<1>4. disk \in [Inodes -> Seq(Pieces)]  BY DEF TypeInv, TypeOK
<1> QED BY <1>1, <1>3, <1>4 DEF WholeFiles

(* What a reader that is through leaves of the files.                      *)
LEMMA CloseFiles ==
    ASSUME TypeInv, NEW x \in Readers, CloseRead(x)
    PROVE  /\ name' = name /\ open[x] # None
           /\ \A i \in Inodes : i = name \/ HeldOpen(i, Readers \ {x}) => disk'[i] = disk[i]
           /\ \A i \in Inodes : disk'[i] = disk[i] \/ disk'[i] = <<>>
           /\ File' = File
<1>1. /\ name' = name /\ open[x] # None
      /\ disk' = IF open[x].inode = name \/ HeldOpen(open[x].inode, Readers \ {x}) THEN disk
                   ELSE [disk EXCEPT ![open[x].inode] = <<>>]
  BY DEF CloseRead
<1>2. disk \in [Inodes -> Seq(Pieces)]  BY DEF TypeInv, TypeOK
<1>3. \A i \in Inodes : i = name \/ HeldOpen(i, Readers \ {x}) => disk'[i] = disk[i]  BY <1>1, <1>2
<1>4. \A i \in Inodes : disk'[i] = disk[i] \/ disk'[i] = <<>>  BY <1>1, <1>2
<1>5. name \in Inodes \cup {None}  BY DEF TypeInv, TypeOK
<1>6. File' = File  BY <1>1, <1>3, <1>5 DEF File
<1> QED BY <1>1, <1>3, <1>4, <1>6

(* ... and a rewrite.                                                      *)
LEMMA SwapFiles ==
    ASSUME TypeInv, NEW e \in Editors, Swap(e)
    PROVE  \E lines \in NewLines(e) :
              LET made == FileOf(lines) \o Carried(mark[e])
              IN  /\ lock = None /\ HoldsMark(mark[e]) /\ Forgets(e) /\ at[e] = "read"
                  /\ name' \in Inodes /\ name' # name /\ ~HeldOpen(name', Readers)
                  /\ File' = made /\ disk'[name'] = made
                  /\ \A j \in Inodes : j # name' =>
                        disk'[j] = disk[j] \/ (disk'[j] = <<>> /\ ~HeldOpen(j, Readers))
                  /\ spliced' = (spliced \/ Garbled(made))
                  /\ open' = open
<1>1. lock = None /\ HoldsMark(mark[e]) /\ Forgets(e) /\ open' = open /\ at[e] = "read"
  BY DEF Swap, Goes
<1>2. PICK lines \in NewLines(e), i \in NewInode :
        /\ name' = i
        /\ disk' = [j \in Inodes |->
                        IF j = i THEN FileOf(lines) \o Carried(mark[e])
                        ELSE IF j = name /\ ~HeldOpen(j, Readers) THEN <<>>
                        ELSE disk[j]]
        /\ spliced' = (spliced \/ Garbled(FileOf(lines) \o Carried(mark[e])))
  BY DEF Swap
<1> DEFINE made == FileOf(lines) \o Carried(mark[e])
<1> HIDE DEF made
<1>3. /\ name' = i /\ spliced' = (spliced \/ Garbled(made))
      /\ disk' = [j \in Inodes |-> IF j = i THEN made
                                   ELSE IF j = name /\ ~HeldOpen(j, Readers) THEN <<>> ELSE disk[j]]
  BY <1>2 DEF made
<1>4. i \in Inodes /\ i # name /\ ~HeldOpen(i, Readers) /\ i # None  BY Roles DEF NewInode
<1>5. disk'[name'] = made  BY <1>3, <1>4
<1>6. File' = made  BY <1>3, <1>4, <1>5 DEF File
<1>7. \A j \in Inodes : j # name' => disk'[j] = disk[j] \/ (disk'[j] = <<>> /\ ~HeldOpen(j, Readers))
  BY <1>3
<1> QED BY <1>1, <1>3, <1>4, <1>5, <1>6, <1>7 DEF made

-----------------------------------------------------------------------------
(* At first there is no file.                                              *)
LEMMA InitFiles ==
    ASSUME Init PROVE WholeFiles
<1>1. \A i \in Inodes : Shaped(disk[i])  BY ShapedNone DEF Init
<1>2. \A l \in Lines : at[l] = "idle"  BY DEF Init
<1> QED BY <1>1, <1>2 DEF WholeFiles

(* A step that does not splice keeps the files whole.                      *)
LEMMA FilesStep ==
    ASSUME TypeInv, WholeFiles, [Next]_vars, ~spliced'
    PROVE  WholeFiles'
<1>0. /\ Types /\ Locks /\ \A i \in Inodes : Shaped(disk[i])
  BY TypeParts DEF WholeFiles
<1>1. ASSUME \A i \in Inodes : disk'[i] = disk[i] \/ disk'[i] = <<>>, File' = File,
             \A l \in Lines : at'[l] = at[l] \/ at'[l] \notin {"half", "landed"}
      PROVE  WholeFiles'
  BY <1>0, <1>1, ShapedNone DEF WholeFiles
<1>2. ASSUME NEW l \in Lines,
             TakeLock(l) \/ Cut(l) \/ WriteHead(l) \/ WriteTail(l) \/ Return(l) \/ Die(l)
      PROVE  WholeFiles'
  <2>0. at \in [Lines \cup Readers \cup Editors -> Places]  BY <1>0 DEF Types
  <2>1. ASSUME NEW S, Shaped(S), name' \in Inodes, disk'[name'] = S,
               \A i \in Inodes : i # name' => disk'[i] = disk[i],
               \A m \in Lines : at'[m] = "half" => S = FileOf(CompleteLines(S)) \o <<HeadOf(m)>>,
               \A m \in Lines : at'[m] = "landed" => m \in ToSet(Ids(CompleteLines(S)))
        PROVE  WholeFiles'
    <3>1. File' = S  BY <2>1, Roles DEF File
    <3> QED BY <1>0, <2>1, <3>1 DEF WholeFiles
  <2>2. CASE TakeLock(l) \/ Return(l) \/ Die(l)
    <3>1. disk' = disk /\ File' = File  BY <2>2 DEF TakeLock, Return, Die, File
    <3>2. \A m \in Lines : at'[m] = at[m] \/ at'[m] \notin {"half", "landed"}
      BY <2>0, <2>2 DEF TakeLock, Return, Die, Goes
    <3> QED BY <1>1, <3>1, <3>2
  <2>3. ASSUME at[l] \in {"locked", "half", "landed"}
        PROVE  \A m \in Lines : m # l => at[m] \notin {"half", "landed"}
    BY <1>0, <2>3 DEF Locks
  <2>4. CASE Cut(l)
    <3>1. at[l] = "locked" /\ at' = at  BY <2>4 DEF Cut
    <3>2. \A m \in Lines : at'[m] \notin {"half", "landed"}  BY <2>3, <3>1
    <3>3. Shaped(SubSeq(File, 1, WholeEnd(File)))  BY FileShaped, CutOff
    <3>4. /\ name' \in Inodes /\ disk'[name'] = SubSeq(File, 1, WholeEnd(File))
          /\ \A i \in Inodes : i # name' => disk'[i] = disk[i]
      BY <2>4, CutFile
    <3> DEFINE S == SubSeq(File, 1, WholeEnd(File))
    <3> HIDE DEF S
    <3>5. Shaped(S) /\ disk'[name'] = S  BY <3>3, <3>4 DEF S
    <3> QED BY <2>1, <3>2, <3>4, <3>5
  <2>5. CASE WriteHead(l)
    <3>1. at[l] = "locked" /\ at'[l] = "half" /\ \A m \in Lines : m # l => at'[m] = at[m]
      BY <2>0, <2>5 DEF WriteHead, Goes
    <3>2. \A m \in Lines : m # l => at'[m] \notin {"half", "landed"}  BY <2>3, <3>1
    <3> DEFINE S == Append(File, HeadOf(l))
    <3>3. name' \in Inodes /\ disk'[name'] = S /\ ~Torn(File)
          /\ \A i \in Inodes : i # name' => disk'[i] = disk[i]
      BY <2>5, HeadFile
    <3>4. Shaped(S) /\ S = FileOf(CompleteLines(File)) \o <<HeadOf(l)>> /\ CompleteLines(S) = CompleteLines(File)
      BY <3>3, FileShaped, AddHead
    <3> HIDE DEF S
    <3>5. S = FileOf(CompleteLines(S)) \o <<HeadOf(l)>>  BY <3>4
    <3> QED BY <2>1, <3>1, <3>2, <3>3, <3>4, <3>5
  <2>6. CASE WriteTail(l)
    <3>1. at[l] = "half" /\ at'[l] = "landed" /\ \A m \in Lines : m # l => at'[m] = at[m]
      BY <2>0, <2>6 DEF WriteTail, Goes
    <3>2. \A m \in Lines : m # l => at'[m] \notin {"half", "landed"}  BY <2>3, <3>1
    <3> DEFINE ls == CompleteLines(File)
               S == File \o Tail(Bytes(Full(l)))
    <3>3. /\ name' \in Inodes /\ disk'[name'] = S /\ File = FileOf(ls) \o <<HeadOf(l)>>
          /\ \A i \in Inodes : i # name' => disk'[i] = disk[i]
      BY <2>6, TailFile
    <3>4. ls \in Seq(Line)  BY FileType
    <3> HIDE DEF ls
    <3>5. Shaped(S) /\ CompleteLines(S) = Append(ls, Full(l)) /\ Full(l) \in Line
      BY <3>3, <3>4, AddTail
    <3>6. Ids(CompleteLines(S)) = Append(Ids(ls), l)
      BY <3>4, <3>5, IdsOfOneMore DEF Full
    <3> HIDE DEF S
    <3>7. l \in ToSet(Ids(CompleteLines(S)))
      <4> DEFINE a == Ids(ls)
                 b == Append(a, l)
                 n == Len(a)
      <4>1. a \in Seq(Lines)  BY <3>4, IdsIs
      <4> HIDE DEF a
      <4>2. b \in Seq(Lines) /\ Len(b) = n + 1 /\ b[n + 1] = l /\ n \in Nat  BY <4>1, AppendProperties, LenProperties
      <4> HIDE DEF b
      <4>3. DOMAIN b = 1..(n + 1)  BY <4>2, LenProperties
      <4>4. n + 1 \in DOMAIN b  BY <4>2, <4>3
      <4>5. l \in ToSet(b)  BY <4>2, <4>4 DEF ToSet
      <4> QED BY <3>6, <4>5 DEF a, b
    <3> QED BY <2>1, <3>1, <3>2, <3>3, <3>5, <3>7
  <2> QED BY <1>2, <2>2, <2>4, <2>5, <2>6
<1>3. ASSUME NEW x \in Readers, ReadAbsent(x) \/ OpenRead(x) PROVE WholeFiles'
  <2>1. OthersOnly  BY <1>3, OtherSteps
  <2>2. disk' = disk /\ File' = File  BY <1>3 DEF ReadAbsent, OpenRead, File
  <2> QED BY <1>1, <2>1, <2>2 DEF OthersOnly
<1>4. ASSUME NEW x \in Readers, CloseRead(x) PROVE WholeFiles'
  <2>1. OthersOnly  BY <1>4, OtherSteps
  <2> QED BY <1>1, <1>4, <2>1, CloseFiles DEF OthersOnly
<1>5. ASSUME NEW e \in Editors, EndMark(e) \/ LoseRace(e) \/ LeaveAsIs(e) PROVE WholeFiles'
  <2>1. OthersOnly  BY <1>5, OtherSteps
  <2>2. disk' = disk /\ File' = File  BY <1>5 DEF EndMark, LoseRace, LeaveAsIs, File
  <2> QED BY <1>1, <2>1, <2>2 DEF OthersOnly
<1>6. ASSUME NEW e \in Editors, Swap(e) PROVE WholeFiles'
  <2>1. OthersOnly  BY <1>6, OtherSteps
  <2>2. PICK lines \in NewLines(e) :
          LET made == FileOf(lines) \o Carried(mark[e])
          IN  /\ lock = None /\ HoldsMark(mark[e]) /\ Forgets(e) /\ at[e] = "read"
              /\ name' \in Inodes /\ name' # name /\ ~HeldOpen(name', Readers)
              /\ File' = made /\ disk'[name'] = made
              /\ \A j \in Inodes : j # name' =>
                    disk'[j] = disk[j] \/ (disk'[j] = <<>> /\ ~HeldOpen(j, Readers))
              /\ spliced' = (spliced \/ Garbled(made))
              /\ open' = open
    BY <1>6, SwapFiles
  <2>3. \A l \in Lines : at'[l] \notin {"half", "landed"}
    BY <1>0, <2>1, <2>2, Roles DEF OthersOnly, Locks
  <2>4. Shaped(disk'[name'])
    <3> DEFINE made == FileOf(lines) \o Carried(mark[e])
    <3>1. ~Garbled(made)  BY <2>2
    <3>2. lines \in Seq(Line) /\ mark[e].end \in Nat  BY NewLinesType, MarkIs
    <3>3. ~Garbled(made) => Shaped(made)  BY <3>2, FileShaped, RewrittenShape DEF Carried
    <3> QED BY <2>2, <3>1, <3>3
  <2>5. \A j \in Inodes : j # name' => Shaped(disk'[j])
    <3> TAKE j \in Inodes
    <3> SUFFICES ASSUME j # name' PROVE Shaped(disk'[j])  OBVIOUS
    <3>1. disk'[j] = disk[j] \/ disk'[j] = <<>>  BY <2>2
    <3> QED BY <1>0, <3>1, ShapedNone
  <2> QED BY <2>3, <2>4, <2>5 DEF WholeFiles
<1>7. CASE UNCHANGED vars
  <2>1. disk' = disk /\ File' = File /\ at' = at  BY <1>7 DEF vars, File
  <2> QED BY <1>1, <2>1
<1> QED BY <1>2, <1>3, <1>4, <1>5, <1>6, <1>7, Roles DEF Next

(* What a mark of a file says that is still named.                         *)
MarkOK(x) ==
    /\ mark[x].inode = None => mark[x] = Absent /\ held[x] = <<>>
    /\ mark[x].inode # None /\ mark[x].inode = name =>
        /\ FollowsOn(File, FileOf(held[x]))
        /\ \E d \in {0, 1} : mark[x].end = Len(FileOf(held[x])) + d
        /\ x \in Readers => mark[x].end = Len(FileOf(held[x]))

(* What it says that is found to hold.                                     *)
Believed(x) ==
    mark[x].inode # None /\ HoldsMark(mark[x]) =>
        FollowsOn(File, FileOf(held[x])) /\ (x \in Readers => mark[x].end = Len(FileOf(held[x])))

(* A mark that is good of a named file is good where it is found to hold.  *)
LEMMA OKBelieved ==
    ASSUME NEW x, MarkOK(x) PROVE Believed(x)
<1>1. mark[x].inode # None /\ HoldsMark(mark[x]) => mark[x].inode = name  BY DEF HoldsMark
<1> QED BY <1>1 DEF MarkOK, Believed

(* What a reader that reads on had before.                                 *)
Before(x) == IF open[x].whole THEN <<>> ELSE held[x]

(* A read that is on: it began after the lines its reader had, and what it *)
(* got are the lines the file has past those, and a fragment.              *)
ReadOK(x) ==
    /\ open[x].start = Len(FileOf(Before(x)))
    /\ \E ls \in Seq(Line), r \in Fragments :
        /\ FollowsOn(disk[open[x].inode], FileOf(Before(x) \o ls))
        /\ open[x].got = FileOf(ls) \o r

(* Both, for the readers and editors in X.                                 *)
MarksOK(X) == \A x \in X : MarkOK(x) /\ (x \in Readers /\ open[x] # None => ReadOK(x))

(* No file comes to an inode that a mark of X still means another file by. *)
FreshStep(X) == name' # name => \A x \in X : mark[x].inode # name'

(* What a step leaves alone of one reader or editor.                       *)
LEMMA MarkStays ==
    ASSUME TypeInv, WholeFiles, NEW x \in Readers \cup Editors, MarkOK(x),
           mark'[x] = mark[x], held'[x] = held[x],
           name' = name \/ mark[x].inode # name',
           name' = name /\ name # None => \A ls \in Seq(Line) : FollowsOn(File, FileOf(ls)) => FollowsOn(File', FileOf(ls))
    PROVE  MarkOK(x)'
<1>1. held[x] \in Seq(Line)  BY MarkIs
<1>2. ASSUME mark'[x].inode # None, mark'[x].inode = name'
      PROVE  name' = name /\ FollowsOn(File', FileOf(held'[x]))
             /\ (\E d \in {0, 1} : mark'[x].end = Len(FileOf(held'[x])) + d)
             /\ (x \in Readers => mark'[x].end = Len(FileOf(held'[x])))
  <2>1. name' = name /\ mark[x].inode # None /\ mark[x].inode = name  BY <1>2
  <2>2. FollowsOn(File, FileOf(held[x]))  BY <2>1 DEF MarkOK
  <2>3. FollowsOn(File', FileOf(held[x]))  BY <1>1, <2>1, <2>2
  <2> QED BY <2>1, <2>3 DEF MarkOK
<1>3. mark'[x].inode = None => mark'[x] = Absent /\ held'[x] = <<>>  BY DEF MarkOK
<1> QED BY <1>2, <1>3 DEF MarkOK

(* What a step leaves alone of a read that is on.                          *)
LEMMA ReadStays ==
    ASSUME TypeInv, NEW x \in Readers, open[x] # None, ReadOK(x),
           open'[x] = open[x], held'[x] = held[x],
           \A ls \in Seq(Line) : FollowsOn(disk[open[x].inode], FileOf(ls))
                                 => FollowsOn(disk'[open[x].inode], FileOf(ls))
    PROVE  ReadOK(x)'
<1> DEFINE b == Before(x)
<1>1. Before(x)' = b  BY DEF Before
<1>2. b \in Seq(Line)
  <2>1. held[x] \in Seq(Line) /\ <<>> \in Seq(Line)  BY MarkIs
  <2> QED BY <2>1 DEF Before
<1> HIDE DEF b
<1>3. PICK ls \in Seq(Line), r \in Fragments :
        FollowsOn(disk[open[x].inode], FileOf(b \o ls)) /\ open[x].got = FileOf(ls) \o r
  BY DEF ReadOK, b
<1>4. b \o ls \in Seq(Line)  BY <1>2, <1>3, ConcatProperties
<1>5. FollowsOn(disk'[open[x].inode], FileOf(b \o ls))  BY <1>3, <1>4
<1>6. open[x].start = Len(FileOf(b))  BY DEF ReadOK, b
<1> QED BY <1>1, <1>3, <1>5, <1>6 DEF ReadOK

-----------------------------------------------------------------------------
(* Files an append touches still begin as they did.                        *)
LEMMA AppendKeeps ==
    ASSUME TypeInv, WholeFiles, NEW l \in Lines,
           TakeLock(l) \/ Cut(l) \/ WriteHead(l) \/ WriteTail(l) \/ Return(l) \/ Die(l)
    PROVE  /\ \A i \in Inodes : i = name \/ HeldOpen(i, Readers) =>
                \A ls \in Seq(Line) : FollowsOn(disk[i], FileOf(ls)) => FollowsOn(disk'[i], FileOf(ls))
           /\ name' = name \/ (name = None /\ name' # None)
<1>1. CASE TakeLock(l) \/ Return(l) \/ Die(l)
  BY <1>1 DEF TakeLock, Return, Die
<1>2. CASE Cut(l)
  <2>1. /\ name' = name /\ name \in Inodes /\ File = disk[name]
        /\ disk'[name] = SubSeq(File, 1, WholeEnd(File))
        /\ \A i \in Inodes : i # name => disk'[i] = disk[i]
    BY <1>2, CutFile
  <2>2. \A ls \in Seq(Line) : FollowsOn(disk[name], FileOf(ls)) => FollowsOn(disk'[name], FileOf(ls))
    BY <2>1, FileShaped, KeptByCut
  <2> QED BY <2>1, <2>2
<1>3. CASE WriteHead(l)
  <2>1. /\ name' \in Inodes /\ (name' = name \/ (name = None /\ ~HeldOpen(name', Readers)))
        /\ ~Torn(File)
        /\ disk'[name'] = Append(File, HeadOf(l))
        /\ \A i \in Inodes : i # name' => disk'[i] = disk[i]
    BY <1>3, HeadFile
  <2>2. ASSUME name' = name, NEW ls \in Seq(Line), FollowsOn(disk[name], FileOf(ls))
        PROVE  FollowsOn(disk'[name], FileOf(ls))
    <3>1. File = disk[name]  BY <2>1, <2>2, FileType, Roles
    <3>2. disk'[name] = File \o <<HeadOf(l)>>  BY <2>1, <2>2, FileShaped, AddHead
    <3> QED BY <2>2, <3>1, <3>2, FileOfType, HeadPiece, KeptByAppend
  <2>3. CASE name' = name
    <3>1. \A i \in Inodes : i # name => disk'[i] = disk[i]  BY <2>1, <2>3
    <3> QED BY <2>2, <2>3, <3>1
  <2>4. CASE name = None /\ ~HeldOpen(name', Readers)
    <3>1. \A i \in Inodes : i = name \/ HeldOpen(i, Readers) => i # name'  BY <2>4, Roles
    <3>2. name' # None  BY <2>1, Roles
    <3> QED BY <2>1, <2>4, <3>1, <3>2
  <2> QED BY <2>1, <2>3, <2>4
<1>4. CASE WriteTail(l)
  <2>1. /\ name' = name /\ name \in Inodes /\ File = disk[name]
        /\ disk'[name] = File \o Tail(Bytes(Full(l)))
        /\ \A i \in Inodes : i # name => disk'[i] = disk[i]
    BY <1>4, TailFile
  <2>2. ASSUME NEW ls \in Seq(Line), FollowsOn(disk[name], FileOf(ls))
        PROVE  FollowsOn(disk'[name], FileOf(ls))
    <3>1. Tail(Bytes(Full(l))) \in Seq(Pieces)  BY AddTail, EmptySeq
    <3> QED BY <2>1, <2>2, <3>1, FileOfType, KeptByAppend
  <2> QED BY <2>1, <2>2
<1> QED BY <1>1, <1>2, <1>3, <1>4

(* An append leaves the marks of X good.                                   *)
LEMMA AppendMarks ==
    ASSUME TypeInv, WholeFiles, NEW l \in Lines,
           TakeLock(l) \/ Cut(l) \/ WriteHead(l) \/ WriteTail(l) \/ Return(l) \/ Die(l),
           NEW X \in SUBSET (Readers \cup Editors), MarksOK(X), FreshStep(X)
    PROVE  MarksOK(X)'
<1>1. AppendOnly  BY AppendSteps
<1>2. /\ \A i \in Inodes : i = name \/ HeldOpen(i, Readers) =>
            \A ls \in Seq(Line) : FollowsOn(disk[i], FileOf(ls)) => FollowsOn(disk'[i], FileOf(ls))
      /\ name' = name \/ (name = None /\ name' # None)
  BY AppendKeeps
<1>3. ASSUME NEW x \in X PROVE MarkOK(x)'
  <2>1. x \in Readers \cup Editors /\ MarkOK(x)  BY DEF MarksOK
  <2>2. name' = name \/ mark[x].inode # name'  BY DEF FreshStep
  <2>3. ASSUME name' = name, name # None, NEW ls \in Seq(Line), FollowsOn(File, FileOf(ls))
        PROVE FollowsOn(File', FileOf(ls))
    <3>1. name \in Inodes /\ File = disk[name] /\ File' = disk'[name]  BY <2>3, FileType DEF File
    <3> QED BY <1>2, <2>3, <3>1
  <2> QED BY <1>1, <2>1, <2>2, <2>3, MarkStays DEF AppendOnly
<1>4. ASSUME NEW x \in X, x \in Readers, open'[x] # None PROVE ReadOK(x)'
  <2>1. open'[x] = open[x] /\ held'[x] = held[x]  BY <1>1 DEF AppendOnly
  <2>2. ReadOK(x) /\ open[x] # None  BY <1>4, <2>1 DEF MarksOK
  <2>3. open[x].inode \in Inodes /\ HeldOpen(open[x].inode, Readers)  BY <1>4, <2>2, HandleIs DEF HeldOpen
  <2>4. \A ls \in Seq(Line) : FollowsOn(disk[open[x].inode], FileOf(ls))
                                 => FollowsOn(disk'[open[x].inode], FileOf(ls))
    BY <1>2, <2>3
  <2> QED BY <1>4, <2>1, <2>2, <2>4, ReadStays
<1> QED BY <1>3, <1>4 DEF MarksOK

(* What a step of y leaves of the marks of X.                              *)
LEMMA OtherMarks ==
    ASSUME TypeInv, WholeFiles, NEW y \in Readers \cup Editors,
           NEW X \in SUBSET (Readers \cup Editors), MarksOK(X), FreshStep(X),
           name' = name => File' = File,
           \A x \in Readers \cup Editors : x # y => mark'[x] = mark[x] /\ held'[x] = held[x],
           \A x \in Readers : x # y => open'[x] = open[x],
           \A x \in Readers : x # y /\ open[x] # None => disk'[open[x].inode] = disk[open[x].inode],
           y \in X => MarkOK(y)',
           y \in X /\ y \in Readers /\ open'[y] # None => ReadOK(y)'
    PROVE  MarksOK(X)'
<1>1. ASSUME NEW x \in X, x # y PROVE MarkOK(x)'
  <2>1. x \in Readers \cup Editors /\ MarkOK(x)  BY DEF MarksOK
  <2>2. name' = name \/ mark[x].inode # name'  BY DEF FreshStep
  <2> QED BY <1>1, <2>1, <2>2, MarkStays
<1>2. ASSUME NEW x \in X, x # y, x \in Readers, open'[x] # None PROVE ReadOK(x)'
  <2>1. open'[x] = open[x] /\ held'[x] = held[x]  BY <1>2
  <2>2. ReadOK(x) /\ open[x] # None  BY <1>2, <2>1 DEF MarksOK
  <2>3. disk'[open[x].inode] = disk[open[x].inode]  BY <1>2, <2>2
  <2> QED BY <1>2, <2>1, <2>2, <2>3, ReadStays
<1> QED BY <1>1, <1>2 DEF MarksOK

(* A mark that means no file.                                              *)
LEMMA NoMark ==
    ASSUME NEW x, mark'[x] = Absent, held'[x] = <<>> PROVE MarkOK(x)'
BY DEF MarkOK, Absent

(* A read opens where its mark says, or at the start.                      *)
LEMMA OpenedOK ==
    ASSUME TypeInv, WholeFiles, NEW x \in Readers, Believed(x), OpenRead(x)
    PROVE  ReadOK(x)'
<1> DEFINE m == ReadsFrom(x)
           whole == m.inode = None \/ ~HoldsMark(m)
           start == IF whole THEN 0 ELSE m.end
           got == SubSeq(File, start + 1, Len(File))
           h == [inode |-> name, start |-> start, whole |-> whole, got |-> got]
           bl == IF whole THEN <<>> ELSE held[x]
           b == FileOf(bl)
<1>1. name # None /\ open' = [open EXCEPT ![x] = h] /\ disk' = disk /\ held' = held
  BY DEF OpenRead
<1>2. open'[x] = h  BY <1>1 DEF TypeInv, TypeOK
<1>3. File = disk[name] /\ Shaped(File) /\ File \in Seq(Pieces)  BY <1>1, FileType, FileShaped
<1>4. held[x] \in Seq(Line) /\ <<>> \in Seq(Line)  BY MarkIs
<1>5. bl \in Seq(Line)  BY <1>4
<1>6. start = Len(b) /\ FollowsOn(File, b)
  <2>1. CASE whole
    <3>1. bl = <<>> /\ start = 0  BY <2>1
    <3>2. FileOf(<<>>) = <<>> /\ Len(<<>>) = 0  BY FileOfNone
    <3>3. FollowsOn(File, <<>>)  BY <1>3, FollowsWhole
    <3> QED BY <3>1, <3>2, <3>3
  <2>2. CASE ~whole
    <3>1. m.inode # None /\ HoldsMark(m) /\ bl = held[x] /\ start = m.end  BY <2>2
    <3>2. x \in Tails /\ m = mark[x]  BY <3>1 DEF ReadsFrom, Absent
    <3>3. FollowsOn(File, FileOf(held[x])) /\ mark[x].end = Len(FileOf(held[x]))
      BY <3>1, <3>2 DEF Believed
    <3> QED BY <3>1, <3>2, <3>3
  <2> QED BY <2>1, <2>2
<1>7. h.inode = name /\ h.start = start /\ h.whole = whole /\ h.got = got  OBVIOUS
<1>8. Before(x)' = bl  BY <1>1, <1>2, <1>7 DEF Before
<1> HIDE DEF h, bl, whole, start
<1>9. b \in Seq(Pieces)  BY <1>5, FileOfType
<1>10. PICK u \in Seq(Pieces) : File = b \o u  BY <1>6 DEF FollowsOn
<1>11. got = u  BY <1>6, <1>9, <1>10, PartsOf
<1>12. PICK r \in Fragments : /\ CompleteLines(u) \in Seq(Line)
                              /\ u = FileOf(CompleteLines(u)) \o r
                              /\ File = FileOf(bl \o CompleteLines(u)) \o r
  <2>1. File = FileOf(bl) \o u  BY <1>10
  <2>2. Shaped(FileOf(bl) \o u)  BY <1>3, <2>1
  <2>3. /\ CompleteLines(u) \in Seq(Line)
        /\ \E r \in Fragments : /\ u = FileOf(CompleteLines(u)) \o r
                                /\ FileOf(bl) \o u = FileOf(bl \o CompleteLines(u)) \o r
    BY <1>5, <2>2, ShapedRest
  <2> QED BY <2>1, <2>3
<1>13. FollowsOn(File, FileOf(bl \o CompleteLines(u)))  BY <1>12, FragmentIs DEF FollowsOn
<1>14. disk'[h.inode] = File  BY <1>1, <1>3, <1>7
<1> QED BY <1>2, <1>6, <1>7, <1>8, <1>11, <1>12, <1>13, <1>14 DEF ReadOK

(* A read that ends has taken the lines its file has then, and its mark,   *)
(* if nothing was spliced, stands after the last of them.                  *)
LEMMA ClosedLines ==
    ASSUME TypeInv, WholeFiles, NEW x \in Readers, open[x] # None, ReadOK(x), CloseRead(x)
    PROVE  /\ held'[x] = Before(x) \o CompleteLines(GotAll(x))
           /\ held'[x] = CompleteLines(disk[open[x].inode])
           /\ FollowsOn(disk[open[x].inode], FileOf(held'[x]))
           /\ ~spliced' => ~Garbled(GotAll(x)) /\ mark'[x].end = Len(FileOf(held'[x]))
           /\ mark'[x].inode = open[x].inode
<1> DEFINE h == open[x]
           g == GotAll(x)
           lines == CompleteLines(g)
           bl == Before(x)
           f == disk[h.inode]
<1>1. /\ held' = [held EXCEPT ![x] = IF h.whole THEN lines ELSE @ \o lines]
      /\ spliced' = (spliced \/ Garbled(g))
      /\ \E last : mark' = [mark EXCEPT ![x] = [end |-> h.start + WholeEnd(g), inode |-> h.inode, last |-> last]]
  BY DEF CloseRead, GotAll
<1>2. mark'[x].inode = h.inode /\ mark'[x].end = h.start + WholeEnd(g)
  BY <1>1 DEF TypeInv, TypeOK
<1>3. held'[x] = IF h.whole THEN lines ELSE held[x] \o lines  BY <1>1 DEF TypeInv, TypeOK
<1>4. held[x] \in Seq(Line) /\ <<>> \in Seq(Line)  BY MarkIs
<1>5. Shaped(f)  BY HandleIs DEF WholeFiles
<1>6. lines \in Seq(Line)  BY GotAllType
<1>7. bl \in Seq(Line) /\ held'[x] = bl \o lines
  <2> HIDE DEF lines
  <2>1. <<>> \o lines = lines  BY <1>6, ConcatEmptySeq
  <2> QED BY <1>3, <1>4, <2>1 DEF Before
<1>8. g = h.got \o SubSeq(f, h.start + Len(h.got) + 1, Len(f))  BY DEF GotAll
<1>9. h.start = Len(FileOf(bl))
      /\ \E ls \in Seq(Line), r \in Fragments : FollowsOn(f, FileOf(bl \o ls)) /\ h.got = FileOf(ls) \o r
  BY DEF ReadOK
<1> HIDE DEF bl, g, f
<1>10. /\ FollowsOn(f, FileOf(bl \o lines)) /\ CompleteLines(f) = bl \o lines
       /\ ~Garbled(g) => h.start + WholeEnd(g) = Len(FileOf(bl \o lines))
  <2> DEFINE start == h.start
             got == h.got
  <2>1. PICK ls \in Seq(Line), r \in Fragments : FollowsOn(f, FileOf(bl \o ls)) /\ got = FileOf(ls) \o r
    BY <1>9
  <2>2. start = Len(FileOf(bl)) /\ g = got \o SubSeq(f, start + Len(got) + 1, Len(f))  BY <1>8, <1>9
  <2>3. bl \in Seq(Line)  BY <1>7
  <2> HIDE DEF start, got
  <2>4. ReadsOn(f, bl, ls, r, start, got, g)  BY <2>1, <2>2 DEF ReadsOn
  <2>5. /\ FollowsOn(f, FileOf(bl \o CompleteLines(g))) /\ CompleteLines(f) = bl \o CompleteLines(g)
        /\ ~Garbled(g) => start + WholeEnd(g) = Len(FileOf(bl \o CompleteLines(g)))
    BY <1>5, <2>1, <2>3, <2>4, ReadEnds
  <2> QED BY <2>5 DEF start
<1>11. ~spliced' => ~Garbled(g)  BY <1>1
<1>12. FollowsOn(f, FileOf(held'[x])) /\ held'[x] = CompleteLines(f)  BY <1>7, <1>10
<1>13. ~spliced' => mark'[x].end = Len(FileOf(held'[x]))  BY <1>2, <1>7, <1>10, <1>11
<1> QED BY <1>2, <1>7, <1>11, <1>12, <1>13 DEF bl, g, f

(* The mark of a read that ends stands after the lines taken.              *)
LEMMA ClosedOK ==
    ASSUME TypeInv, WholeFiles, NEW x \in Readers, open[x] # None, ReadOK(x), CloseRead(x), ~spliced'
    PROVE  MarkOK(x)'
<1> DEFINE i == open[x].inode
<1>1. i \in Inodes /\ i # None  BY HandleIs, Roles
<1>2. /\ mark'[x].inode = i /\ mark'[x].end = Len(FileOf(held'[x]))
      /\ held'[x] = CompleteLines(disk[i]) /\ FollowsOn(disk[i], FileOf(held'[x]))
  BY ClosedLines
<1>3. name' = name /\ File' = File  BY CloseFiles
<1> HIDE DEF i
<1>4. ASSUME mark'[x].inode = name' PROVE FollowsOn(File', FileOf(held'[x]))
  <2>1. name = i  BY <1>2, <1>3, <1>4
  <2>2. File = disk[i]  BY <1>1, <2>1 DEF File
  <2> QED BY <1>2, <1>3, <2>2
<1>5. \E d \in {0, 1} : mark'[x].end = Len(FileOf(held'[x])) + d
  <2>1. CompleteLines(disk[i]) \in Seq(Line)  BY <1>1, ShapedIs DEF WholeFiles
  <2>2. Len(FileOf(held'[x])) \in Nat  BY <1>2, <2>1, FileOfType
  <2> QED BY <1>2, <2>2
<1> QED BY <1>1, <1>2, <1>4, <1>5 DEF MarkOK

(* The mark of an index rebuild may count a torn head.                     *)
LEMMA EndMarkOK ==
    ASSUME TypeInv, WholeFiles, NEW p \in Indexers, EndMark(p)
    PROVE  MarkOK(p)'
<1> DEFINE ls == CompleteLines(File)
<1>1. /\ mark' = [mark EXCEPT ![p] = IF name = None THEN Absent
                    ELSE [end |-> Len(File), inode |-> name, last |-> LastLine(File)]]
      /\ held' = [held EXCEPT ![p] = ls] /\ name' = name /\ disk' = disk
  BY DEF EndMark
<1>2. p \in Readers \cup Editors /\ p \notin Readers  BY Roles
<1>3. held'[p] = ls  BY <1>1, <1>2 DEF TypeInv, TypeOK
<1>4. CASE name = None
  <2>1. mark'[p] = Absent  BY <1>1, <1>2, <1>4 DEF TypeInv, TypeOK
  <2>2. ls = <<>>  BY <1>4, LinesOfNone DEF File
  <2> QED BY <1>3, <2>1, <2>2, NoMark
<1>5. CASE name # None
  <2>1. mark'[p].inode = name /\ mark'[p].end = Len(File)  BY <1>1, <1>2, <1>5 DEF TypeInv, TypeOK
  <2>2. File' = File  BY <1>1 DEF File
  <2>3. Shaped(File)  BY FileShaped
  <2>4. PICK r \in Fragments : ls \in Seq(Line) /\ File = FileOf(ls) \o r  BY <2>3, ShapedIs
  <2>5. Len(r) \in {0, 1} /\ r \in Seq(Pieces) /\ FileOf(ls) \in Seq(Pieces)  BY <2>4, FragmentIs, FileOfType
  <2> HIDE DEF ls
  <2>6. Len(File) = Len(FileOf(ls)) + Len(r)  BY <2>4, <2>5, PartsOf
  <2>7. FollowsOn(File, FileOf(ls))  BY <2>4, <2>5 DEF FollowsOn
  <2>8. \E d \in {0, 1} : mark'[p].end = Len(FileOf(held'[p])) + d  BY <1>3, <2>1, <2>5, <2>6
  <2> QED BY <1>2, <1>3, <1>5, <2>1, <2>2, <2>7, <2>8 DEF MarkOK
<1> QED BY <1>4, <1>5

(* Every step that does not splice keeps the marks of X good, if no file   *)
(* comes to an inode that one of them means another file by.               *)
LEMMA MarksStep ==
    ASSUME TypeInv, WholeFiles, [Next]_vars, ~spliced',
           NEW X \in SUBSET (Readers \cup Editors), MarksOK(X), FreshStep(X)
    PROVE  MarksOK(X)'
<1>0. Types /\ Opens  BY TypeParts
<1>1. ASSUME NEW l \in Lines,
             TakeLock(l) \/ Cut(l) \/ WriteHead(l) \/ WriteTail(l) \/ Return(l) \/ Die(l)
      PROVE  MarksOK(X)'
  BY <1>1, AppendMarks
<1>2. ASSUME NEW x \in Readers, ReadAbsent(x) PROVE MarksOK(X)'
  <2>1. /\ mark' = [mark EXCEPT ![x] = Absent] /\ held' = [held EXCEPT ![x] = <<>>]
        /\ disk' = disk /\ name' = name /\ open' = open /\ at[x] = "idle"
    BY <1>2 DEF ReadAbsent, Goes
  <2>2. mark'[x] = Absent /\ held'[x] = <<>>
        /\ \A y \in Readers \cup Editors : y # x => mark'[y] = mark[y] /\ held'[y] = held[y]
    BY <1>0, <2>1 DEF Types
  <2>3. MarkOK(x)'  BY <2>2, NoMark
  <2>4. open'[x] = None  BY <1>0, <2>1 DEF Opens
  <2>5. File' = File  BY <2>1 DEF File
  <2> QED BY <2>1, <2>2, <2>3, <2>4, <2>5, OtherMarks
<1>3. ASSUME NEW x \in Readers, OpenRead(x) PROVE MarksOK(X)'
  <2>1. mark' = mark /\ held' = held /\ disk' = disk /\ name' = name /\ \E h : open' = [open EXCEPT ![x] = h]
    BY <1>3 DEF OpenRead
  <2>2. File' = File  BY <2>1 DEF File
  <2>3. \A y \in Readers : y # x => open'[y] = open[y]  BY <1>0, <2>1 DEF Types
  <2>4. ASSUME x \in X PROVE MarkOK(x)' /\ ReadOK(x)'
    <3>1. MarkOK(x)  BY <2>4 DEF MarksOK
    <3>2. MarkOK(x)'  BY <2>1, <2>2, <3>1, MarkStays
    <3> QED BY <1>3, <3>1, <3>2, OKBelieved, OpenedOK
  <2> QED BY <2>1, <2>2, <2>3, <2>4, OtherMarks
<1>4. ASSUME NEW x \in Readers, CloseRead(x) PROVE MarksOK(X)'
  <2>1. \E newMark, newHeld : /\ mark' = [mark EXCEPT ![x] = newMark] /\ held' = [held EXCEPT ![x] = newHeld]
                              /\ open' = [open EXCEPT ![x] = None]
    BY <1>4 DEF CloseRead
  <2>2. /\ name' = name /\ open[x] # None
        /\ \A i \in Inodes : i = name \/ HeldOpen(i, Readers \ {x}) => disk'[i] = disk[i]
        /\ File' = File
    BY <1>4, CloseFiles
  <2>3. \A y \in Readers \cup Editors : y # x => mark'[y] = mark[y] /\ held'[y] = held[y]
    BY <1>0, <2>1 DEF Types
  <2>4. open'[x] = None /\ \A y \in Readers : y # x => open'[y] = open[y]  BY <1>0, <2>1 DEF Types
  <2>5. ASSUME NEW y \in Readers, y # x, open[y] # None PROVE disk'[open[y].inode] = disk[open[y].inode]
    <3>1. open[y].inode \in Inodes  BY <2>5, HandleIs
    <3>2. HeldOpen(open[y].inode, Readers \ {x})  BY <2>5 DEF HeldOpen
    <3> QED BY <2>2, <3>1, <3>2
  <2>6. ASSUME x \in X PROVE MarkOK(x)'
    <3>1. ReadOK(x)  BY <2>2, <2>6 DEF MarksOK
    <3> QED BY <1>4, <2>2, <3>1, ClosedOK
  <2> QED BY <2>2, <2>3, <2>4, <2>5, <2>6, OtherMarks
<1>5. ASSUME NEW p \in Indexers, EndMark(p) PROVE MarksOK(X)'
  <2>1. /\ \E newMark, newHeld : mark' = [mark EXCEPT ![p] = newMark] /\ held' = [held EXCEPT ![p] = newHeld]
        /\ name' = name /\ disk' = disk /\ open' = open
    BY <1>5 DEF EndMark
  <2>2. p \in Readers \cup Editors /\ p \notin Readers  BY Roles
  <2>3. File' = File  BY <2>1 DEF File
  <2>4. MarkOK(p)'  BY <1>5, EndMarkOK
  <2>5. \A y \in Readers \cup Editors : y # p => mark'[y] = mark[y] /\ held'[y] = held[y]
    BY <1>0, <2>1 DEF Types
  <2> QED BY <2>1, <2>2, <2>3, <2>4, <2>5, OtherMarks
<1>6. ASSUME NEW e \in Editors, Swap(e) \/ LoseRace(e) \/ LeaveAsIs(e) PROVE MarksOK(X)'
  <2>1. Forgets(e) /\ at[e] = "read" /\ open' = open
    BY <1>6 DEF Swap, LoseRace, LeaveAsIs, Goes
  <2>2. mark'[e] = Absent /\ held'[e] = <<>>
        /\ \A y \in Readers \cup Editors : y # e => mark'[y] = mark[y] /\ held'[y] = held[y]
    BY <2>1, ForgetsTypes
  <2>3. MarkOK(e)'  BY <2>2, NoMark
  <2>4. e \in Readers => open'[e] = None  BY <1>0, <2>1 DEF Opens
  <2>5. CASE LoseRace(e) \/ LeaveAsIs(e)
    <3>1. disk' = disk /\ name' = name  BY <2>5 DEF LoseRace, LeaveAsIs
    <3>2. File' = File  BY <3>1 DEF File
    <3> QED BY <2>1, <2>2, <2>3, <2>4, <3>1, <3>2, OtherMarks
  <2>6. CASE Swap(e)
    <3>1. /\ name' # name /\ ~HeldOpen(name', Readers)
          /\ \A j \in Inodes : j # name' =>
                disk'[j] = disk[j] \/ (disk'[j] = <<>> /\ ~HeldOpen(j, Readers))
      BY <2>6, SwapFiles
    <3>2. ASSUME NEW y \in Readers, y # e, open[y] # None PROVE disk'[open[y].inode] = disk[open[y].inode]
      <4>1. open[y].inode \in Inodes /\ HeldOpen(open[y].inode, Readers)  BY <3>2, HandleIs DEF HeldOpen
      <4> QED BY <3>1, <4>1
    <3> QED BY <2>1, <2>2, <2>3, <2>4, <3>1, <3>2, OtherMarks
  <2> QED BY <1>6, <2>5, <2>6
<1>7. CASE UNCHANGED vars
  <2>1. mark' = mark /\ held' = held /\ open' = open /\ disk' = disk /\ name' = name  BY <1>7 DEF vars
  <2> QED BY <2>1 DEF MarksOK, MarkOK, ReadOK, Before, File
<1> QED BY <1>1, <1>2, <1>3, <1>4, <1>5, <1>6, <1>7, Roles DEF Next

(* No number an inode had is given to a new file while a mark of X holds   *)
(* it.                                                                     *)
Fresh(X) == [][FreshStep(X)]_vars

(* The inductive invariant.                                                *)
LineInv(X) == TypeInv /\ (spliced \/ (WholeFiles /\ MarksOK(X)))

(* At first nobody has a mark.                                             *)
LEMMA InitMarks ==
    ASSUME Init, NEW X \in SUBSET (Readers \cup Editors)
    PROVE  MarksOK(X)
<1> SUFFICES ASSUME NEW x \in X PROVE MarkOK(x) /\ (x \in Readers => open[x] = None)
  BY DEF MarksOK
<1>1. mark[x] = Absent /\ held[x] = <<>> /\ (x \in Readers => open[x] = None)  BY DEF Init
<1> QED BY <1>1 DEF MarkOK, Absent

(* It is inductive ...                                                     *)
LEMMA LineStep ==
    ASSUME NEW X \in SUBSET (Readers \cup Editors), LineInv(X), [Next]_vars, [FreshStep(X)]_vars
    PROVE  LineInv(X)'
<1>1. TypeInv'  BY TypeStep DEF LineInv
<1>2. CASE spliced'  BY <1>1, <1>2 DEF LineInv
<1>3. CASE ~spliced'
  <2>1. ~spliced  BY <1>3, SplicedStays
  <2>2. TypeInv /\ WholeFiles /\ MarksOK(X)  BY <2>1 DEF LineInv
  <2>3. FreshStep(X)  BY DEF FreshStep, vars
  <2>4. WholeFiles'  BY <1>3, <2>2, FilesStep
  <2>5. MarksOK(X)'  BY <1>3, <2>2, <2>3, MarksStep
  <2> QED BY <1>1, <2>4, <2>5 DEF LineInv
<1> QED BY <1>2, <1>3

(* ... and holds at first.                                                 *)
LEMMA LineInit ==
    ASSUME NEW X \in SUBSET (Readers \cup Editors), Init PROVE LineInv(X)
BY InitTypes, InitFiles, InitMarks DEF LineInv

(* Until bytes of two lines were taken for one, every file is whole lines  *)
(* and at most one torn head, whichever append dies where and whoever      *)
(* rewrites: append_line cuts what a dead one left, and _swap carries      *)
(* whole lines over.                                                       *)
THEOREM WholeLines == Spec => [](spliced \/ WholeFiles)
<1>1. Init => LineInv({})  BY LineInit
<1>2. LineInv({}) /\ [Next]_vars => LineInv({})'
  <2> SUFFICES ASSUME LineInv({}), [Next]_vars PROVE LineInv({})'  OBVIOUS
  <2>1. [FreshStep({})]_vars  BY DEF FreshStep
  <2> QED BY <2>1, LineStep
<1>3. LineInv({}) => spliced \/ WholeFiles  BY DEF LineInv
<1> QED BY <1>1, <1>2, <1>3, PTL DEF Spec

(* Where every tail's mark, if it is found to hold, is after the lines the *)
(* tail has and the file begins with them, TailFaithful holds.             *)
LEMMA BelievedFaithful ==
    ASSUME TypeInv, ~spliced => \A t \in Tails : Believed(t) PROVE TailFaithful
<1> SUFFICES ASSUME NEW t \in Tails, mark[t].inode # None, HoldsMark(mark[t]), ~spliced
             PROVE  held[t] = CompleteLines(SubSeq(File, 1, mark[t].end))
  BY DEF TailFaithful
<1>1. t \in Readers  BY Roles
<1>2. FollowsOn(File, FileOf(held[t])) /\ mark[t].end = Len(FileOf(held[t]))  BY <1>1 DEF Believed
<1>3. held[t] \in Seq(Line)  BY <1>1, MarkIs
<1>4. PICK u \in Seq(Pieces) : File = FileOf(held[t]) \o u  BY <1>2 DEF FollowsOn
<1>5. SubSeq(File, 1, mark[t].end) = FileOf(held[t])  BY <1>2, <1>3, <1>4, FileOfType, PartsOf
<1> QED BY <1>3, <1>5, LinesOfFile

(* A tail whose mark is good has taken exactly the lines up to it, for any *)
(* lines, readers and editors, while no inode is reused under a mark that  *)
(* is kept (FileMark.inode).                                               *)
THEOREM TailsFaithful == Spec /\ Fresh(Tails) => []TailFaithful
<1>0. Tails \in SUBSET (Readers \cup Editors)  BY Roles
<1>1. Init => LineInv(Tails)  BY <1>0, LineInit
<1>2. LineInv(Tails) /\ [Next]_vars /\ [FreshStep(Tails)]_vars => LineInv(Tails)'  BY <1>0, LineStep
<1>3. LineInv(Tails) => TailFaithful  BY OKBelieved, BelievedFaithful DEF LineInv, MarksOK
<1> QED BY <1>1, <1>2, <1>3, PTL DEF Spec, Fresh

-----------------------------------------------------------------------------
(* The log is empty at first.                                              *)
LEMMA LogInit ==
    ASSUME Init PROVE Log!Init
<1>1. File = <<>>  BY DEF Init, File
<1>2. Ids(CompleteLines(File)) = <<>>  BY <1>1, LinesOfNone, NoIds
<1>3. {l \in Lines : at[l] = "done"} = {}  BY DEF Init
<1>4. [e \in Editors |-> Ids(held[e])] = [e \in Editors |-> <<>>]
  <2>1. \A e \in Editors : held[e] = <<>>  BY DEF Init
  <2> QED BY <2>1, NoIds
<1> QED BY <1>2, <1>3, <1>4 DEF Log!Init

(* The variables of the log, by name.                                      *)
LogLines == Ids(CompleteLines(File))
LogTold == {l \in Lines : at[l] = "done"}
LogSeen == [e \in Editors |-> Ids(held[e])]

(* A step that changes no complete line, no return and no mark is none of  *)
(* the log.                                                                *)
LEMMA LogStutters ==
    ASSUME CompleteLines(File)' = CompleteLines(File), \A l \in Lines : at'[l] = "done" <=> at[l] = "done",
           \A e \in Editors : held'[e] = held[e]
    PROVE  UNCHANGED Log!vars
<1>1. LogLines' = LogLines  BY DEF LogLines
<1>2. LogTold' = LogTold  BY DEF LogTold
<1>3. LogSeen' = LogSeen  BY DEF LogSeen
<1> QED BY <1>1, <1>2, <1>3 DEF Log!vars, LogLines, LogTold, LogSeen

(* A read by an editor is a look at the log.                               *)
LEMMA LogLooks ==
    ASSUME NEW e \in Editors, held \in [Readers \cup Editors -> Seq(Line)], held'[e] \in Seq(Line),
           CompleteLines(File)' = CompleteLines(File), \A l \in Lines : at'[l] = "done" <=> at[l] = "done",
           \A d \in Editors : d # e => held'[d] = held[d]
    PROVE  Log!Next
<1>1. LogLines' = LogLines  BY DEF LogLines
<1>2. LogTold' = LogTold  BY DEF LogTold
<1>3. LogSeen' = [LogSeen EXCEPT ![e] = LogSeen'[e]]
  <2>1. \A d \in Editors : d # e => LogSeen'[d] = LogSeen[d]  BY DEF LogSeen
  <2>2. LogSeen' = [d \in Editors |-> LogSeen'[d]] /\ LogSeen = [d \in Editors |-> LogSeen[d]]  BY DEF LogSeen
  <2> QED BY <2>1, <2>2
<1>4. LogSeen'[e] \in Seq(Lines)
  <2>1. Ids(held'[e]) \in Seq(Lines)  BY IdsIs
  <2> QED BY <2>1 DEF LogSeen
<1>5. Log!Look(e)  BY <1>1, <1>2, <1>3, <1>4 DEF Log!Look, LogLines, LogTold, LogSeen
<1> QED BY <1>5 DEF Log!Next

(* What the mark of an editor says when its rewrite goes ahead.            *)
LEMMA EditorHolds ==
    ASSUME TypeInv, WholeFiles, NEW e \in Editors, MarkOK(e), HoldsMark(mark[e])
    PROVE  /\ FollowsOn(File, FileOf(held[e]))
           /\ \E d \in {0, 1} : mark[e].end = Len(FileOf(held[e])) + d
           /\ Len(File) >= mark[e].end
<1>1. CASE mark[e].inode = None
  <2>1. mark[e] = Absent /\ held[e] = <<>>  BY <1>1 DEF MarkOK
  <2>2. mark[e].end = 0 /\ FileOf(held[e]) = <<>>  BY <2>1, FileOfNone DEF Absent
  <2>3. FollowsOn(File, <<>>)  BY FileShaped, FollowsWhole
  <2>4. Len(<<>>) = 0  OBVIOUS
  <2>5. Len(File) \in Nat  BY FileType
  <2> QED BY <2>2, <2>3, <2>4, <2>5
<1>2. CASE mark[e].inode # None
  <2>1. name = mark[e].inode /\ Len(File) >= mark[e].end  BY <1>2 DEF HoldsMark
  <2> QED BY <1>2, <2>1 DEF MarkOK
<1> QED BY <1>1, <1>2

(* What a swap makes of the lines of the file: those its editor had are    *)
(* replaced, those since are kept.                                         *)
LEMMA SwapLines ==
    ASSUME TypeInv, WholeFiles, NEW e \in Editors, MarkOK(e), Swap(e)
    PROVE  \E lines \in NewLines(e), since \in Seq(Line) :
                CompleteLines(File) = held[e] \o since /\ CompleteLines(File)' = lines \o since
<1>1. PICK lines \in NewLines(e) :
        LET made == FileOf(lines) \o Carried(mark[e])
        IN  HoldsMark(mark[e]) /\ File' = made
  BY SwapFiles
<1> DEFINE hl == held[e]
           nl == lines
           end == mark[e].end
           f == File
<1>2. hl \in Seq(Line) /\ end \in Nat  BY MarkIs
<1>3. nl \in Seq(Line)  BY NewLinesType
<1>4. FollowsOn(f, FileOf(hl)) /\ (\E d \in {0, 1} : end = Len(FileOf(hl)) + d) /\ Len(f) >= end
  BY <1>1, EditorHolds
<1>5. Shaped(f)  BY FileShaped
<1>6. File' = RewrittenTo(f, end, nl)  BY <1>1 DEF Carried, RewrittenTo
<1>7. nl \in NewLines(e)  OBVIOUS
<1> HIDE DEF nl, end, f
<1>8. PICK since \in Seq(Line) :
        /\ CompleteLines(f) = hl \o since
        /\ CompleteLines(RewrittenTo(f, end, nl)) = nl \o since
  <2> HIDE DEF hl
  <2>1. EndsAt(end, hl, f)  BY <1>4 DEF EndsAt, EndsPast
  <2>2. Shaped(f) /\ hl \in Seq(Line) /\ FollowsOn(f, FileOf(hl)) /\ nl \in Seq(Line)  BY <1>2, <1>3, <1>4, <1>5
  <2>3. Rewrites(f, hl, end, nl)  BY <2>1, <2>2, Rewritten
  <2> QED BY <2>3 DEF Rewrites
<1> QED BY <1>6, <1>7, <1>8 DEF f

(* A swap is a rewrite of the log: what came since the mark is kept.       *)
LEMMA LogRewrites ==
    ASSUME TypeInv, WholeFiles, NEW e \in Editors, MarkOK(e), Swap(e)
    PROVE  Log!Rewrite(e)
<1>1. Forgets(e)  BY DEF Swap
<1>8. PICK nl \in NewLines(e), since \in Seq(Line) :
        CompleteLines(File) = held[e] \o since /\ CompleteLines(File)' = nl \o since
  BY SwapLines
<1> DEFINE hl == held[e]
<1>2. hl \in Seq(Line)  BY MarkIs
<1>3. /\ nl \in Seq(Line)
      /\ e \in Rewriters => ToSet(Ids(nl)) \subseteq ToSet(Ids(hl))
      /\ e \notin Rewriters => ToSet(Ids(nl)) \subseteq ToSet(Ids(hl \o since))
  BY <1>8, NewLinesType
<1>7. LogLines = Ids(hl \o since) /\ LogSeen[e] = Ids(hl)  BY <1>8 DEF LogLines, LogSeen
<1> HIDE DEF hl
<1>9. ToSet(Ids(nl)) \subseteq ToSet(Ids(hl \o since))
  <2>1. ToSet(Ids(hl)) \subseteq ToSet(Ids(hl \o since))
    <3> SUFFICES ASSUME NEW y \in ToSet(Ids(hl)) PROVE y \in ToSet(Ids(hl \o since))  OBVIOUS
    <3>1. hl \o since \in Seq(Line) /\ Len(hl \o since) = Len(hl) + Len(since)
          /\ \A i \in 1..(Len(hl) + Len(since)) :
                (hl \o since)[i] = IF i <= Len(hl) THEN hl[i] ELSE since[i - Len(hl)]
      BY <1>2, <1>8, ConcatProperties
    <3> DEFINE b == hl \o since
    <3>2. /\ DOMAIN Ids(hl) = 1..Len(hl) /\ \A i \in 1..Len(hl) : Ids(hl)[i] = hl[i][1]
          /\ Len(hl) \in Nat /\ Len(since) \in Nat
      BY <1>2, <1>8, IdsIs
    <3>3. DOMAIN Ids(b) = 1..Len(b) /\ \A i \in 1..Len(b) : Ids(b)[i] = b[i][1]
      BY <3>1, IdsIs
    <3> HIDE DEF b
    <3>4. PICK i \in 1..Len(hl) : y = hl[i][1]  BY <3>2 DEF ToSet
    <3>5. i \in 1..Len(b) /\ b[i] = hl[i]  BY <3>1, <3>2, <3>4 DEF b
    <3>6. y = Ids(b)[i]  BY <3>3, <3>4, <3>5
    <3>7. y \in ToSet(Ids(b))  BY <3>3, <3>5, <3>6 DEF ToSet
    <3> QED BY <3>7 DEF b
  <2> QED BY <1>3, <2>1
<1>10. LogLines' = Ids(nl \o since)  BY <1>8 DEF LogLines
<1>12. /\ IsPrefix(LogSeen[e], LogLines)
       /\ IsSuffix(SubSeq(LogLines, Len(LogSeen[e]) + 1, Len(LogLines)), LogLines')
       /\ ToSet(LogLines') \subseteq ToSet(LogLines)
  BY <1>2, <1>3, <1>7, <1>8, <1>9, <1>10, LogRewritten
<1>13. LogSeen' = [LogSeen EXCEPT ![e] = <<>>]
  <2>1. held'[e] = <<>> /\ \A d \in Editors : d # e => held'[d] = held[d]
    BY <1>1, ForgetsTypes
  <2>2. LogSeen' = [d \in Editors |-> Ids(held'[d])] /\ LogSeen = [d \in Editors |-> Ids(held[d])]
    BY DEF LogSeen
  <2>3. Ids(held'[e]) = <<>>  BY <2>1, NoIds
  <2> QED BY <2>1, <2>2, <2>3
<1>14. LogTold' = LogTold
  <2>1. OthersOnly  BY OtherSteps
  <2> QED BY <2>1 DEF LogTold, OthersOnly
<1> QED BY <1>12, <1>13, <1>14 DEF Log!Rewrite, Log!ToSet, ToSet, Log!IsPrefix, IsPrefix, Log!IsSuffix, IsSuffix, Log!Reverse, Reverse, LogLines, LogSeen, LogTold

(* An append adds no line to the file but by its last write ...            *)
LEMMA AppendSame ==
    ASSUME TypeInv, WholeFiles, NEW l \in Lines, TakeLock(l) \/ Cut(l) \/ WriteHead(l) \/ Return(l) \/ Die(l)
    PROVE  CompleteLines(File)' = CompleteLines(File)
<1>1. CASE TakeLock(l) \/ Return(l) \/ Die(l)  BY <1>1 DEF TakeLock, Return, Die, File
<1>2. CASE Cut(l)
  <2>1. /\ name' = name /\ name \in Inodes
        /\ disk'[name] = SubSeq(File, 1, WholeEnd(File))
    BY <1>2, CutFile
  <2>2. File' = SubSeq(File, 1, WholeEnd(File))  BY <2>1, Roles DEF File
  <2> QED BY <2>2, FileShaped, CutOff
<1>3. CASE WriteHead(l)
  <2>1. name' \in Inodes /\ ~Torn(File) /\ disk'[name'] = Append(File, HeadOf(l))  BY <1>3, HeadFile
  <2>2. File' = Append(File, HeadOf(l))  BY <2>1, Roles DEF File
  <2> QED BY <2>1, <2>2, FileShaped, AddHead
<1> QED BY <1>1, <1>2, <1>3

(* ... which adds its line.                                                *)
LEMMA AppendsOne ==
    ASSUME TypeInv, WholeFiles, NEW l \in Lines, WriteTail(l)
    PROVE  CompleteLines(File)' = Append(CompleteLines(File), Full(l)) /\ Full(l) \in Line
<1> DEFINE ls == CompleteLines(File)
           S == File \o Tail(Bytes(Full(l)))
<1>1. /\ name' = name /\ name \in Inodes /\ disk'[name] = S /\ File = FileOf(ls) \o <<HeadOf(l)>>
  BY TailFile
<1>2. File' = S  BY <1>1, Roles DEF File
<1>3. ls \in Seq(Line)  BY FileType
<1> HIDE DEF ls
<1>4. CompleteLines(S) = Append(ls, Full(l)) /\ Full(l) \in Line  BY <1>1, <1>3, AddTail
<1> HIDE DEF S
<1> QED BY <1>2, <1>4 DEF ls

(* Every step that does not splice is a step of the log or none.           *)
LEMMA LogStep ==
    ASSUME TypeInv, WholeFiles, MarksOK(Editors), [Next]_vars, ~spliced'
    PROVE  Log!Next \/ UNCHANGED Log!vars
<1>0. Types  BY TypeParts
<1>1. held \in [Readers \cup Editors -> Seq(Line)] /\ at \in [Lines \cup Readers \cup Editors -> Places]
  BY <1>0 DEF Types
<1>2. ASSUME NEW l \in Lines, TakeLock(l) \/ Cut(l) \/ WriteHead(l) \/ Die(l) PROVE UNCHANGED Log!vars
  <2>1. \A e \in Editors : held'[e] = held[e]  BY <1>2, AppendSteps DEF AppendOnly
  <2>2. \A m \in Lines : at'[m] = "done" <=> at[m] = "done"
    BY <1>1, <1>2 DEF TakeLock, Cut, WriteHead, Die, Goes
  <2>3. CompleteLines(File)' = CompleteLines(File)  BY <1>2, AppendSame
  <2> QED BY <2>1, <2>2, <2>3, LogStutters
<1>3. ASSUME NEW l \in Lines, WriteTail(l) PROVE Log!Next
  <2>1. \A e \in Editors : held'[e] = held[e]  BY <1>3, AppendSteps DEF AppendOnly
  <2>2. \A m \in Lines : at'[m] = "done" <=> at[m] = "done"
    BY <1>1, <1>3 DEF WriteTail, Goes
  <2> DEFINE ls == CompleteLines(File)
  <2>5. ls \in Seq(Line)  BY FileType
  <2>6. LogLines = Ids(ls)  BY DEF LogLines
  <2>7. CompleteLines(File)' = Append(ls, Full(l)) /\ Full(l) \in Line  BY <1>3, AppendsOne
  <2> HIDE DEF ls
  <2>8. Ids(Append(ls, Full(l))) = Append(Ids(ls), l)  BY <2>5, <2>7, IdsOfOneMore DEF Full
  <2>9. LogLines' = Append(LogLines, l)  BY <2>6, <2>7, <2>8 DEF LogLines
  <2>10. LogTold' = LogTold /\ LogSeen' = LogSeen  BY <2>1, <2>2 DEF LogTold, LogSeen
  <2>11. Log!Land(l)  BY <2>9, <2>10 DEF Log!Land, LogLines, LogTold, LogSeen
  <2> QED BY <2>11 DEF Log!Next
<1>4. ASSUME NEW l \in Lines, Return(l) PROVE Log!Next
  <2>1. \A e \in Editors : held'[e] = held[e]  BY <1>4, AppendSteps DEF AppendOnly
  <2>2. at[l] = "landed" /\ at'[l] = "done" /\ \A m \in Lines : m # l => at'[m] = at[m]
    BY <1>1, <1>4 DEF Return, Goes
  <2>3. File' = File  BY <1>4 DEF Return, File
  <2>4. LogLines' = LogLines /\ LogSeen' = LogSeen  BY <2>1, <2>3 DEF LogLines, LogSeen
  <2>5. LogTold' = LogTold \cup {l}  BY <2>2 DEF LogTold
  <2>6. l \in ToSet(LogLines)  BY <2>2 DEF LogLines, WholeFiles
  <2>7. Log!Tell(l)  BY <2>4, <2>5, <2>6 DEF Log!Tell, Log!ToSet, ToSet, LogLines, LogTold, LogSeen
  <2> QED BY <2>7 DEF Log!Next
<1>5. ASSUME NEW x \in Readers \cup Editors, OthersOnly, TypeInv', File' = File,
             \A y \in Readers \cup Editors : y # x => held'[y] = held[y]
      PROVE  Log!Next \/ UNCHANGED Log!vars
  <2>1. \A m \in Lines : at'[m] = "done" <=> at[m] = "done"  BY <1>5 DEF OthersOnly
  <2>2. CASE x \in Editors
    <3>1. held'[x] \in Seq(Line)  BY <1>5, <2>2 DEF TypeInv, TypeOK
    <3> QED BY <1>1, <1>5, <2>1, <2>2, <3>1, LogLooks
  <2>3. CASE x \notin Editors
    <3>1. \A e \in Editors : held'[e] = held[e]  BY <1>5, <2>3
    <3> QED BY <1>5, <2>1, <3>1, LogStutters
  <2> QED BY <2>2, <2>3
<1>6. TypeInv'  BY TypeStep
<1>7. ASSUME NEW x \in Readers \cup Editors,
             \/ x \in Readers /\ (ReadAbsent(x) \/ OpenRead(x) \/ CloseRead(x))
             \/ x \in Editors /\ (EndMark(x) \/ LoseRace(x) \/ LeaveAsIs(x))
      PROVE  Log!Next \/ UNCHANGED Log!vars
  <2>1. OthersOnly  BY <1>7, OtherSteps
  <2>2. held' = held \/ \E new : held' = [held EXCEPT ![x] = new]
    BY <1>7 DEF ReadAbsent, OpenRead, CloseRead, EndMark, LoseRace, LeaveAsIs, Forgets
  <2>3. \A y \in Readers \cup Editors : y # x => held'[y] = held[y]  BY <1>1, <2>2
  <2>4. File' = File
    <3>1. CASE x \in Readers /\ CloseRead(x)  BY <3>1, CloseFiles
    <3>2. CASE ReadAbsent(x) \/ OpenRead(x) \/ EndMark(x) \/ LoseRace(x) \/ LeaveAsIs(x)
      BY <3>2 DEF ReadAbsent, OpenRead, EndMark, LoseRace, LeaveAsIs, File
    <3> QED BY <1>7, <3>1, <3>2
  <2> QED BY <1>5, <1>6, <2>1, <2>3, <2>4
<1>8. ASSUME NEW e \in Editors, Swap(e) PROVE Log!Next
  <2>1. MarkOK(e)  BY DEF MarksOK
  <2>2. Log!Rewrite(e)  BY <1>8, <2>1, LogRewrites
  <2> QED BY <2>2 DEF Log!Next
<1>9. CASE UNCHANGED vars
  BY <1>9, LogStutters DEF vars, File
<1> QED BY <1>2, <1>3, <1>4, <1>7, <1>8, <1>9, Roles DEF Next

(* The file is the log of LineLog, for any lines, readers and editors,     *)
(* while no inode is reused under the mark of an editor.                   *)
THEOREM LineFileImplements ==
    Spec /\ Fresh(Editors) => Implements /\ [][Log!Next \/ spliced']_(Log!vars)
<1>0. Editors \in SUBSET (Readers \cup Editors)  OBVIOUS
<1>1. Init => LineInv(Editors)  BY <1>0, LineInit
<1>2. LineInv(Editors) /\ [Next]_vars /\ [FreshStep(Editors)]_vars => LineInv(Editors)'  BY <1>0, LineStep
<1>3. Init => Log!Init  BY LogInit
<1>4. LineInv(Editors) /\ [Next]_vars => [Log!Next \/ spliced']_(Log!vars)
  <2> SUFFICES ASSUME LineInv(Editors), [Next]_vars, ~spliced' PROVE Log!Next \/ UNCHANGED Log!vars
    OBVIOUS
  <2>1. ~spliced  BY SplicedStays
  <2> QED BY <2>1, LogStep DEF LineInv
<1> QED BY <1>1, <1>2, <1>3, <1>4, PTL DEF Spec, Fresh, Implements

(* A cell file has one compactor, and the index one that replaces it.      *)
OneEach ==
    /\ \A d, e \in Compactors : d = e
    /\ \A p, q \in Indexers : p = q

(* ... and a record table one that thins it out.                           *)
OneDropper == \A d, e \in Droppers : d = e

(* This file has one editor.                                               *)
Uncontested == kind = "records" => OneDropper

(* Only those a file is for have marks of it, and nobody has before it is  *)
(* there.                                                                  *)
UsersOnly ==
    /\ \A x \in Readers \cup Editors : ~Uses(x) => mark[x] = Absent /\ at[x] = "idle"
    /\ name = None => \A x \in Readers \cup Editors :
            mark[x].inode = None /\ (x \in Readers => open[x] = None)

(* Reads, and has a mark of, no file but the one that is named.            *)
Current(x) ==
    /\ mark[x].inode \in {None, name}
    /\ x \in Readers /\ open[x] # None => open[x].inode = name

AloneInv ==
    /\ UsersOnly
    /\ Uncontested => \A e \in Editors : Current(e)
    /\ kind = "index" => (\A t \in Tails : Current(t)) \/ (\A p \in Indexers : at[p] = "done")

(* What a step does to a reader or editor that is not the one to act.      *)
Untouched(x) ==
    /\ mark'[x] = mark[x] /\ held'[x] = held[x] /\ at'[x] = at[x]
    /\ x \in Readers => open'[x] = open[x]

(* ... and what it does to the one that acts.                              *)
Touched(x) ==
    /\ Uses(x)
    /\ name' = name \/ (x \in Editors /\ Swap(x))
    /\ mark'[x].inode \in {mark[x].inode, None, name}
       \/ (x \in Readers /\ open[x] # None /\ mark'[x].inode = open[x].inode)
    /\ name = None => mark'[x].inode = None
    /\ x \in Readers => \/ open'[x] \in {open[x], None}
                        \/ name # None /\ open'[x] # None /\ open'[x].inode = name
    /\ x \in Editors /\ at[x] = "done" => at'[x] = "done"

(* One reader or editor acts at a time.                                    *)
LEMMA TouchedBy ==
    ASSUME TypeInv, UsersOnly, NEW x \in Readers \cup Editors,
           \/ x \in Readers /\ (ReadAbsent(x) \/ OpenRead(x) \/ CloseRead(x))
           \/ x \in Indexers /\ EndMark(x)
           \/ x \in Editors /\ (Swap(x) \/ LoseRace(x) \/ LeaveAsIs(x))
    PROVE  /\ Touched(x) /\ kind' = kind
           /\ \A y \in Readers \cup Editors : y # x => Untouched(y)
<1>0. Types /\ Opens  BY TypeParts
<1>1. kind' = kind  BY OtherSteps DEF OthersOnly
<1>2. at[x] # "idle" => Uses(x)  BY DEF UsersOnly
<1>3. ASSUME NEW newAt, at' = [at EXCEPT ![x] = newAt],
             \/ mark' = mark \/ \E m : mark' = [mark EXCEPT ![x] = m],
             \/ held' = held \/ \E h : held' = [held EXCEPT ![x] = h],
             \/ open' = open \/ \E h : open' = [open EXCEPT ![x] = h]
      PROVE  \A y \in Readers \cup Editors : y # x => Untouched(y)
  BY <1>0, <1>3 DEF Types, Untouched
<1>4. CASE x \in Readers /\ ReadAbsent(x)
  <2>1. /\ Uses(x) /\ at[x] = "idle" /\ at' = [at EXCEPT ![x] = AfterRead(x)] /\ name' = name /\ name = None
        /\ mark' = [mark EXCEPT ![x] = Absent] /\ held' = [held EXCEPT ![x] = <<>>] /\ open' = open
    BY <1>4 DEF ReadAbsent, Goes
  <2>2. mark'[x].inode = None  BY <1>0, <2>1 DEF Types, Absent
  <2>3. Touched(x)  BY <2>1, <2>2 DEF Touched
  <2> QED BY <1>1, <1>3, <2>1, <2>3
<1>5. CASE x \in Readers /\ OpenRead(x)
  <2>1. /\ Uses(x) /\ at[x] = "idle" /\ at' = [at EXCEPT ![x] = "reading"] /\ name' = name /\ name # None
        /\ mark' = mark /\ held' = held
    BY <1>5 DEF OpenRead, Goes
  <2>2. \E h : open' = [open EXCEPT ![x] = h] /\ h.inode = name
    <3> DEFINE m == ReadsFrom(x)
               whole == m.inode = None \/ ~HoldsMark(m)
               start == IF whole THEN 0 ELSE m.end
               h == [inode |-> name, start |-> start, whole |-> whole, got |-> SubSeq(File, start + 1, Len(File))]
    <3>1. open' = [open EXCEPT ![x] = h]  BY <1>5 DEF OpenRead
    <3>2. h.inode = name  OBVIOUS
    <3> HIDE DEF h
    <3> QED BY <3>1, <3>2
  <2>3. open'[x].inode = name  BY <1>0, <1>5, <2>2 DEF Types
  <2>4. open'[x] # None
    <3>1. x \in Readers /\ TypeInv'  BY <1>5, ReadTypes
    <3>2. Opens'  BY <3>1, TypeParts, PTL
    <3>3. at'[x] = "reading"  BY <1>0, <2>1 DEF Types
    <3> QED BY <3>1, <3>2, <3>3 DEF Opens
  <2>5. Touched(x)  BY <2>1, <2>3, <2>4 DEF Touched
  <2> QED BY <1>1, <1>3, <2>1, <2>2, <2>5
<1>6. CASE x \in Readers /\ CloseRead(x)
  <2>1. /\ at[x] = "reading" /\ (\E a : at' = [at EXCEPT ![x] = a]) /\ name' = name /\ open[x] # None
        /\ \E e, l : mark' = [mark EXCEPT ![x] = [end |-> e, inode |-> open[x].inode, last |-> l]]
        /\ \E h : held' = [held EXCEPT ![x] = h]
        /\ open' = [open EXCEPT ![x] = None]
    BY <1>6 DEF CloseRead, Goes
  <2>2. mark'[x].inode = open[x].inode  BY <1>0, <2>1 DEF Types
  <2>3. open'[x] = None  BY <1>0, <1>6, <2>1 DEF Types
  <2>4. name # None  BY <1>6, <2>1 DEF UsersOnly
  <2>5. Touched(x)  BY <1>2, <1>6, <2>1, <2>2, <2>3, <2>4 DEF Touched
  <2> QED BY <1>1, <1>3, <2>1, <2>5
<1>7. CASE x \in Indexers /\ EndMark(x)
  <2>1. /\ Uses(x) /\ at[x] = "idle" /\ at' = [at EXCEPT ![x] = "read"] /\ name' = name /\ open' = open
        /\ mark' = [mark EXCEPT ![x] = IF name = None THEN Absent
                        ELSE [end |-> Len(File), inode |-> name, last |-> LastLine(File)]]
        /\ \E h : held' = [held EXCEPT ![x] = h]
    BY <1>7 DEF EndMark, Goes
  <2>2. mark'[x].inode \in {None, name} /\ (name = None => mark'[x].inode = None)
    BY <1>0, <2>1 DEF Types, Absent
  <2>3. Touched(x)  BY <2>1, <2>2 DEF Touched
  <2> QED BY <1>1, <1>3, <2>1, <2>3
<1>8. CASE x \in Editors /\ (Swap(x) \/ LoseRace(x) \/ LeaveAsIs(x))
  <2>1. /\ at[x] = "read" /\ (\E a : at' = [at EXCEPT ![x] = a]) /\ open' = open /\ Forgets(x)
        /\ name' = name \/ Swap(x)
    BY <1>8 DEF Swap, LoseRace, LeaveAsIs, Goes
  <2>2. mark'[x].inode = None  BY <1>8, <2>1, ForgetsTypes DEF Absent
  <2>3. Touched(x)  BY <1>2, <1>8, <2>1, <2>2 DEF Touched
  <2> QED BY <1>1, <1>3, <2>1, <2>3 DEF Forgets
<1> QED BY <1>4, <1>5, <1>6, <1>7, <1>8

(* Then no inode is reused under a mark of an editor, nor, unless the file *)
(* is a cell file, under one of a tail.                                    *)
LEMMA AloneFresh ==
    ASSUME TypeInv, AloneInv, [Next]_vars
    PROVE  (Uncontested => FreshStep(Editors)) /\ (kind # "cells" => FreshStep(Tails))
<1>0. Types  BY TypeParts
<1>1. \A x \in Readers \cup Editors : mark[x].inode \in Inodes \cup {None}  BY MarkIs
<1>2. CASE name' = name  BY <1>2 DEF FreshStep
<1>3. ASSUME NEW l \in Lines, WriteHead(l), name' # name PROVE FreshStep(Editors) /\ FreshStep(Tails)
  <2>1. name' \in Inodes /\ name = None  BY <1>3, HeadFile
  <2>2. \A x \in Readers \cup Editors : mark[x].inode = None  BY <2>1 DEF AloneInv, UsersOnly
  <2> QED BY <2>1, <2>2, Roles DEF FreshStep
<1>4. ASSUME NEW e \in Editors, Swap(e)
      PROVE  (Uncontested => FreshStep(Editors)) /\ (kind # "cells" => FreshStep(Tails))
  <2>1. name' \in Inodes /\ name' # name /\ at[e] = "read"  BY <1>4, SwapFiles
  <2>2. name' \notin {None, name}  BY <2>1, Roles
  <2>3. Uncontested => FreshStep(Editors)  BY <2>2 DEF FreshStep, AloneInv, Current
  <2>4. Uses(e)  BY <2>1 DEF AloneInv, UsersOnly
  <2>5. ASSUME kind # "cells", NEW t \in Tails PROVE mark[t].inode # name'
    <3>1. CASE kind = "records"
      <4>1. ~Uses(t)  BY <3>1, Roles DEF Uses, Editors, Rewriters
      <4>2. mark[t] = Absent  BY <4>1, Roles DEF AloneInv, UsersOnly
      <4> QED BY <2>2, <4>2 DEF Absent
    <3>2. CASE kind = "index"
      <4>1. e \in Indexers  BY <2>4, <3>2, Roles DEF Uses
      <4>2. Current(t)  BY <2>1, <3>2, <4>1 DEF AloneInv
      <4> QED BY <2>2, <4>2 DEF Current
    <3>3. kind \in {"records", "cells", "index"}  BY <1>0 DEF Types, Kinds
    <3> QED BY <2>5, <3>1, <3>2, <3>3
  <2> QED BY <2>3, <2>5 DEF FreshStep
<1>5. name' = name \/ (\E l \in Lines : WriteHead(l)) \/ (\E e \in Editors : Swap(e))
  BY DEF Next, vars, TakeLock, Cut, WriteTail, Return, Die, ReadAbsent, OpenRead, CloseRead, EndMark,
         LeaveAsIs, LoseRace
<1> QED BY <1>2, <1>3, <1>4, <1>5

(* AloneInv is inductive with the types ...                                *)
LEMMA AloneStep ==
    ASSUME OneEach, TypeInv, AloneInv, [Next]_vars
    PROVE  AloneInv'
<1>0. Types /\ Opens  BY TypeParts
<1>1. UsersOnly  BY DEF AloneInv
<1>2. ASSUME NEW l \in Lines,
             TakeLock(l) \/ Cut(l) \/ WriteHead(l) \/ WriteTail(l) \/ Return(l) \/ Die(l)
      PROVE  AloneInv'
  <2>1. /\ open' = open /\ mark' = mark /\ kind' = kind
        /\ \A x \in Readers \cup Editors : at'[x] = at[x]
    BY <1>2, AppendSteps DEF AppendOnly
  <2>2. name' = name \/ (name = None /\ name' # None)
    <3>1. CASE WriteHead(l)  BY <3>1, HeadFile, Roles
    <3> QED BY <1>2, <3>1 DEF TakeLock, Cut, WriteTail, Return, Die
  <2>3. \A x : Uses(x)' = Uses(x)  BY <2>1 DEF Uses
  <2>4. UsersOnly'  BY <1>1, <2>1, <2>2, <2>3 DEF UsersOnly
  <2>5. ASSUME NEW x \in Readers \cup Editors, Current(x) PROVE Current(x)'
    BY <1>1, <2>1, <2>2, <2>5 DEF Current, UsersOnly
  <2>6. \A p \in Indexers : at'[p] = at[p]  BY <2>1, Roles
  <2>7. \A x \in Tails \cup Editors : x \in Readers \cup Editors  BY Roles
  <2>8. Uncontested' = Uncontested  BY <2>1 DEF Uncontested
  <2> QED BY <2>1, <2>4, <2>5, <2>6, <2>7, <2>8 DEF AloneInv
<1>3. ASSUME NEW x \in Readers \cup Editors,
             \/ x \in Readers /\ (ReadAbsent(x) \/ OpenRead(x) \/ CloseRead(x))
             \/ x \in Indexers /\ EndMark(x)
             \/ x \in Editors /\ (Swap(x) \/ LoseRace(x) \/ LeaveAsIs(x))
      PROVE  AloneInv'
  <2>1. /\ Touched(x) /\ kind' = kind
        /\ \A y \in Readers \cup Editors : y # x => Untouched(y)
    BY <1>1, <1>3, TouchedBy
  <2>2. \A y : Uses(y)' = Uses(y)  BY <2>1 DEF Uses
  <2>3. x \in Editors /\ Swap(x) => name' \in Inodes /\ name' # name /\ at[x] = "read" /\ open' = open
                                    /\ mark'[x] = Absent
    BY SwapFiles, ForgetsTypes
  <2>4. name' = None => name = None /\ name' = name  BY <2>1, <2>3, Roles DEF Touched
  <2>5. UsersOnly'
    <3>1. ASSUME NEW y \in Readers \cup Editors, ~Uses(y) PROVE mark'[y] = Absent /\ at'[y] = "idle"
      <4>1. y # x  BY <2>1, <3>1 DEF Touched
      <4> QED BY <1>1, <2>1, <3>1, <4>1 DEF Untouched, UsersOnly
    <3>2. ASSUME name' = None, NEW y \in Readers \cup Editors
          PROVE  mark'[y].inode = None /\ (y \in Readers => open'[y] = None)
      <4>1. name = None /\ mark[y].inode = None /\ (y \in Readers => open[y] = None)
        BY <1>1, <2>4, <3>2 DEF UsersOnly
      <4>2. CASE y = x  BY <2>1, <4>1, <4>2 DEF Touched
      <4>3. CASE y # x  BY <2>1, <4>1, <4>3 DEF Untouched
      <4> QED BY <4>2, <4>3
    <3> QED BY <2>2, <3>1, <3>2 DEF UsersOnly
  <2>6. ASSUME NEW y \in Readers \cup Editors, Current(y), name' = name PROVE Current(y)'
    <3>1. CASE y = x  BY <2>1, <2>6, <3>1 DEF Touched, Current
    <3>2. CASE y # x  BY <2>1, <2>6, <3>2 DEF Untouched, Current
    <3> QED BY <3>1, <3>2
  <2>7. Uncontested => \A e \in Editors : Current(e)  BY DEF AloneInv
  <2>10. Uncontested' = Uncontested  BY <2>1 DEF Uncontested
  <2>8. CASE name' = name
    <3>1. Uncontested => \A e \in Editors : Current(e)'  BY <2>6, <2>7, <2>8
    <3>2. ASSUME kind = "index", \A t \in Tails : Current(t) PROVE \A t \in Tails : Current(t)'
      BY <2>6, <2>8, <3>2, Roles
    <3>3. ASSUME \A p \in Indexers : at[p] = "done" PROVE \A p \in Indexers : at'[p] = "done"
      <4> TAKE p \in Indexers
      <4>1. at[p] = "done" /\ p \in Editors  BY <3>3, Roles
      <4>2. CASE p = x  BY <2>1, <4>1, <4>2 DEF Touched
      <4>3. CASE p # x  BY <2>1, <4>1, <4>3 DEF Untouched
      <4> QED BY <4>2, <4>3
    <3> QED BY <2>1, <2>5, <2>10, <3>1, <3>2, <3>3 DEF AloneInv
  <2>9. CASE name' # name
    <3>1. x \in Editors /\ Swap(x) /\ Uses(x)  BY <2>1, <2>9 DEF Touched
    <3>2. mark'[x] = Absent /\ at[x] = "read" /\ open' = open  BY <2>3, <3>1
    <3>3. ASSUME Uncontested, NEW e \in Editors PROVE Current(e)'
      <4>1. CASE e = x
        <5>1. x \in Readers => open[x] = None  BY <1>0, <3>2 DEF Opens
        <5> QED BY <3>2, <4>1, <5>1 DEF Current, Absent
      <4>2. CASE e # x
        <5>1. ~Uses(e)
          <6>1. CASE kind = "records"  BY <3>1, <3>3, <4>2, <6>1, Roles DEF Uses, Uncontested, OneDropper, Editors
          <6>2. CASE kind = "cells"  BY <3>1, <4>2, <6>2, Roles DEF Uses, OneEach
          <6>3. CASE kind = "index"  BY <3>1, <4>2, <6>3, Roles DEF Uses, OneEach
          <6>4. kind \in {"records", "cells", "index"}  BY <1>0 DEF Types, Kinds
          <6> QED BY <6>1, <6>2, <6>3, <6>4
        <5>2. mark[e] = Absent /\ at[e] = "idle"  BY <1>1, <5>1 DEF UsersOnly
        <5>3. e \in Readers => open[e] = None  BY <1>0, <5>2 DEF Opens
        <5> QED BY <2>1, <3>2, <4>2, <5>2, <5>3 DEF Untouched, Current, Absent
      <4> QED BY <4>1, <4>2
    <3>4. ASSUME kind = "index" PROVE \A p \in Indexers : at'[p] = "done"
      <4>1. x \in Indexers  BY <3>1, <3>4, Roles DEF Uses
      <4>2. at'[x] = "done"
        <5>1. at' = [at EXCEPT ![x] = "done"]  BY <3>1, <4>1 DEF Swap, Goes
        <5> QED BY <1>0, <5>1 DEF Types
      <4> QED BY <4>1, <4>2 DEF OneEach
    <3> QED BY <2>1, <2>5, <2>10, <3>3, <3>4 DEF AloneInv
  <2> QED BY <2>8, <2>9
<1>4. CASE UNCHANGED vars
  BY <1>4 DEF vars, AloneInv, UsersOnly, Uncontested, Current, Uses
<1> QED BY <1>2, <1>3, <1>4, Roles DEF Next

(* ... and holds at first.                                                 *)
LEMMA AloneInit == Init => AloneInv
<1> SUFFICES ASSUME Init PROVE AloneInv  OBVIOUS
<1>1. \A x \in Readers \cup Editors :
        mark[x] = Absent /\ at[x] = "idle" /\ (x \in Readers => open[x] = None)
  BY DEF Init
<1>2. Absent.inode = None  BY DEF Absent
<1>3. \A x \in Readers \cup Editors : Current(x)  BY <1>1, <1>2 DEF Current
<1> QED BY <1>1, <1>2, <1>3, Roles DEF AloneInv, UsersOnly

(* Where each file has one process that rewrites it, and any number that   *)
(* append to it and read it, the file is the log of LineLog whatever       *)
(* inodes are reused: the editor rewrites only the file it marked.         *)
THEOREM LoneEditorImplements ==
    ASSUME OneEach, OneDropper
    PROVE  Spec => Implements /\ [][Log!Next \/ spliced']_(Log!vars)
<1>1. Init => TypeInv /\ AloneInv  BY InitTypes, AloneInit
<1>2. TypeInv /\ AloneInv /\ [Next]_vars => (TypeInv /\ AloneInv)'  BY TypeStep, AloneStep
<1>3. TypeInv /\ AloneInv /\ [Next]_vars => [FreshStep(Editors)]_vars  BY AloneFresh DEF Uncontested
<1>4. Spec => Fresh(Editors)  BY <1>1, <1>2, <1>3, PTL DEF Spec, Fresh
<1> QED BY <1>4, LineFileImplements, PTL

-----------------------------------------------------------------------------
(* The claims on cells.                                                    *)

USE DEF lockVars, history

\* The types hold at first ...
LEMMA ClaimsInitTypes == ClaimsInit => ClaimsTypeOK
BY ClaimsAssumption DEF ClaimsInit, ClaimsTypeOK, Stages, Hands

\* ... and so do the locks and what was paid.
LEMMA InitClaims == ClaimsInit => ClaimsInv
<1> SUFFICES ASSUME ClaimsInit PROVE LockInv /\ PaidInv
  BY ClaimsInitTypes DEF ClaimsInv
<1>1. LockInv
  BY DEF ClaimsInit, LockInv
<1>2. PaidInv
  BY DEF ClaimsInit, PaidInv
<1> QED
  BY <1>1, <1>2

\* Every step keeps the types, and leaves no lock with a task that claims nothing.
LEMMA ClaimsTypeStep ==
  ASSUME ClaimsTypeOK, LockInv, [ClaimsNext]_claimVars
  PROVE  ClaimsTypeOK'
<1>1. ASSUME NEW w \in Walks, NEW c \in Cells, Launch(w, c) PROVE ClaimsTypeOK'
  <2>1. CASE task' = Set(task, w, c, "asks") /\ UNCHANGED hand
    BY <1>1, <2>1, ClaimsAssumption DEF ClaimsTypeOK, Stages, Hands, Launch, Set
  <2>2. CASE task' = Set(task, w, c, "back") /\ hand' = Set(hand, w, c, "replay")
    BY <1>1, <2>2, ClaimsAssumption DEF ClaimsTypeOK, Stages, Hands, Launch, Set
  <2> QED
    BY <1>1, <2>1, <2>2 DEF Launch
<1>2. ASSUME NEW w \in Walks, NEW c \in Cells, OpenLock(w, c) PROVE ClaimsTypeOK'
  <2>1. CASE file[c] # NoFile /\ fd' = Set(fd, w, c, file[c]) /\ UNCHANGED file
    BY <1>2, <2>1, ClaimsAssumption DEF ClaimsTypeOK, Stages, Hands, OpenLock, Set, Unopened
  <2>2. CASE file[c] = NoFile /\ \E i \in Unopened(c) : file' = [file EXCEPT ![c] = i] /\ fd' = Set(fd, w, c, i)
    BY <1>2, <2>2, ClaimsAssumption DEF ClaimsTypeOK, Stages, Hands, OpenLock, Set, Unopened
  <2> QED
    BY <1>2, <2>1, <2>2 DEF OpenLock
<1>3. ASSUME NEW w \in Walks, NEW c \in Cells, TryLock(w, c) PROVE ClaimsTypeOK'
  <2>1. CASE Lockable(w, c) /\ locked' = Set(locked, w, c, TRUE) /\ UNCHANGED fd /\ task' = Set(task, w, c, "look")
    BY <1>3, <2>1, ClaimsAssumption DEF ClaimsTypeOK, Stages, Hands, TryLock, Lockable, Set
  <2>2. CASE fd' = Set(fd, w, c, NoFile) /\ UNCHANGED locked /\ task' = Set(task, w, c, "peek")
    BY <1>3, <2>2, ClaimsAssumption DEF ClaimsTypeOK, Stages, Hands, TryLock, Lockable, Set
  <2> QED
    BY <1>3, <2>1, <2>2 DEF TryLock
<1>4. ASSUME NEW w \in Walks, NEW c \in Cells, Look(w, c) PROVE ClaimsTypeOK'
  <2>1. CASE Buys(c) /\ task' = Set(task, w, c, "sent") /\ UNCHANGED hand
    BY <1>4, <2>1, ClaimsAssumption DEF ClaimsTypeOK, Stages, Hands, Look, Buys, Set
  <2>2. CASE task' = Set(task, w, c, "unrow") /\ hand' = Set(hand, w, c, "replay")
    BY <1>4, <2>2, ClaimsAssumption DEF ClaimsTypeOK, Stages, Hands, Look, Buys, Set
  <2> QED
    BY <1>4, <2>1, <2>2 DEF Look
<1>5. ASSUME NEW w \in Walks, NEW c \in Cells, Peek(w, c) PROVE ClaimsTypeOK'
  <2>1. CASE task' = Set(task, w, c, "back") /\ hand' = Set(hand, w, c, "shared")
    BY <1>5, <2>1, ClaimsAssumption DEF ClaimsTypeOK, Stages, Hands, Peek, Set
  <2>2. CASE task' = Set(task, w, c, "asks") /\ UNCHANGED hand
    BY <1>5, <2>2, ClaimsAssumption DEF ClaimsTypeOK, Stages, Hands, Peek, Set
  <2> QED
    BY <1>5, <2>1, <2>2 DEF Peek
<1>6. ASSUME NEW w \in Walks, NEW c \in Cells, ReturnsGood(w, c) PROVE ClaimsTypeOK'
  BY <1>6, ClaimsAssumption DEF ClaimsTypeOK, Stages, Hands, ReturnsGood, Shared, Set
<1>7. ASSUME NEW w \in Walks, NEW c \in Cells, ReturnsBad(w, c) PROVE ClaimsTypeOK'
  BY <1>7, ClaimsAssumption DEF ClaimsTypeOK, Stages, Hands, ReturnsBad, Fault, Set
<1>8. ASSUME NEW w \in Walks, NEW c \in Cells, Raises(w, c) PROVE ClaimsTypeOK'
  BY <1>8, ClaimsAssumption DEF ClaimsTypeOK, Stages, Hands, Raises, Fault, Set
<1>9. ASSUME NEW w \in Walks, NEW c \in Cells, Unrow(w, c) PROVE ClaimsTypeOK'
  BY <1>9, ClaimsAssumption DEF ClaimsTypeOK, Stages, Hands, Unrow, Set
<1>10. ASSUME NEW w \in Walks, NEW c \in Cells, Retire(w, c) PROVE ClaimsTypeOK'
  BY <1>10, ClaimsAssumption DEF ClaimsTypeOK, Stages, Hands, Retire, AfterRetire, Set
<1>11. ASSUME NEW w \in Walks, Take(w) PROVE ClaimsTypeOK'
  <2> DEFINE c == Panel[w][taken[w] + 1]
  <2>1. c \in Cells
    <3>1. Panel[w] \in Seq(Cells) /\ taken[w] \in Nat /\ taken[w] < Len(Panel[w])
      BY <1>11, ClaimsAssumption DEF ClaimsTypeOK, Take
    <3>2. taken[w] + 1 \in 1..Len(Panel[w])
      BY <3>1
    <3> QED
      BY <3>1, <3>2
  <2>2. taken' = [taken EXCEPT ![w] = @ + 1] /\ taken[w] < Len(Panel[w])
    BY <1>11 DEF Take
  <2>3. taken' \in [Walks -> Nat] /\ \A v \in Walks : taken'[v] <= Len(Panel[v])
    BY <2>2, ClaimsAssumption DEF ClaimsTypeOK
  <2>4. task[w][c] = "back"
    BY <1>11 DEF Take
  <2>5. CASE Carries(w, c)
    <3>1. task' = Set(task, w, c, "unrow") /\ hand' = Set(hand, w, c, "nothing")
      BY <1>11, <2>5 DEF Take, Let
    <3> QED
      BY <1>11, <2>1, <2>3, <3>1 DEF ClaimsTypeOK, Stages, Hands, Take, Set
  <2>6. CASE ~Carries(w, c)
    <3>1. task' = Set(task, w, c, "gone") /\ hand' = Set(hand, w, c, "nothing")
      BY <1>11, <2>6 DEF Take, Let
    <3>2. ~locked[w][c]
      BY <2>1, <2>4, <2>6 DEF LockInv, Carries
    <3> QED
      BY <1>11, <2>1, <2>3, <3>1, <3>2 DEF ClaimsTypeOK, Stages, Hands, Take, Set
  <2> QED
    BY <2>5, <2>6
<1>12. ASSUME NEW w \in Walks, Decide(w) PROVE ClaimsTypeOK'
  BY <1>12, ClaimsAssumption DEF ClaimsTypeOK, Stages, Hands, Decide, DropWaits, Waits
<1>13. ASSUME NEW w \in Walks, Stop(w) PROVE ClaimsTypeOK'
  BY <1>13, ClaimsAssumption DEF ClaimsTypeOK, Stages, Hands, Stop, DropWaits, Waits
<1>14. ASSUME NEW w \in Walks, Bank(w) PROVE ClaimsTypeOK'
  BY <1>14, ClaimsAssumption DEF ClaimsTypeOK, Stages, Hands, Bank, Sure
<1>15. ASSUME NEW w \in Walks, NEW c \in Cells, Discard(w, c) PROVE ClaimsTypeOK'
  <2>1. task[w][c] = "back"
    BY <1>15 DEF Discard
  <2>2. lost' \in [Cells -> Nat]
    BY <1>15 DEF ClaimsTypeOK, Discard, Losing
  <2>3. CASE Carries(w, c)
    <3>1. task' = Set(task, w, c, "unrow") /\ hand' = Set(hand, w, c, "nothing")
      BY <1>15, <2>3 DEF Discard, Let
    <3> QED
      BY <1>15, <2>2, <3>1 DEF ClaimsTypeOK, Stages, Hands, Discard, Set
  <2>4. CASE ~Carries(w, c)
    <3>1. task' = Set(task, w, c, "gone") /\ hand' = Set(hand, w, c, "nothing")
      BY <1>15, <2>4 DEF Discard, Let
    <3>2. ~locked[w][c]
      BY <2>1, <2>4 DEF LockInv, Carries
    <3> QED
      BY <1>15, <2>2, <3>1, <3>2 DEF ClaimsTypeOK, Stages, Hands, Discard, Set
  <2> QED
    BY <2>3, <2>4
<1>16. ASSUME NEW w \in Walks, Dies(w) PROVE ClaimsTypeOK'
  BY <1>16, ClaimsAssumption DEF ClaimsTypeOK, Stages, Hands, Dies, Fault, Losing
<1>17. CASE UNCHANGED claimVars
  BY <1>17 DEF claimVars, ClaimsTypeOK
<1> QED
  BY <1>1, <1>2, <1>3, <1>4, <1>5, <1>6, <1>7, <1>8, <1>9, <1>10, <1>11, <1>12, <1>13, <1>14, <1>15, <1>16, <1>17
     DEF ClaimsNext, Walk, Cell, Begins, Polls, Returns, GoesOn

\* A walk that drops its waiting tasks touches no task that has the lock.
LEMMA WaitsDropped ==
  ASSUME NEW w \in Walks, ClaimsTypeOK, LockInv, DropWaits(w)
  PROVE  \A v \in Walks, c \in Cells :
            /\ task'[v][c] # task[v][c] => task'[v][c] = "gone" /\ Waits(v, c)
            /\ locked[v][c] => fd'[v][c] = fd[v][c]
            /\ task'[v][c] # "gone" => fd'[v][c] = fd[v][c]
            /\ hand[v][c] = "fresh" => task'[v][c] = task[v][c]
<1> SUFFICES ASSUME NEW v \in Walks, NEW c \in Cells
             PROVE  /\ task'[v][c] # task[v][c] => task'[v][c] = "gone" /\ Waits(v, c)
                    /\ locked[v][c] => fd'[v][c] = fd[v][c]
                    /\ task'[v][c] # "gone" => fd'[v][c] = fd[v][c]
                    /\ hand[v][c] = "fresh" => task'[v][c] = task[v][c]
  OBVIOUS
<1>1. CASE v # w
  BY <1>1 DEF ClaimsTypeOK, DropWaits
<1>2. CASE v = w
  <2>1. /\ task'[v][c] = IF Waits(w, c) THEN "gone" ELSE task[v][c]
        /\ fd'[v][c] = IF Waits(w, c) THEN NoFile ELSE fd[v][c]
    BY <1>2 DEF ClaimsTypeOK, DropWaits
  <2>2. Waits(w, c) => ~locked[w][c] /\ hand[w][c] # "fresh"
    BY DEF ClaimsTypeOK, LockInv, Waits
  <2>3. Waits(w, c) \/ ~Waits(w, c)
    OBVIOUS
  <2> QED
    BY <1>2, <2>1, <2>2, <2>3
<1> QED
  BY <1>1, <1>2

\* Every step leaves the claims of a cell with one walk at most.
LEMMA LockStep ==
  ASSUME ClaimsTypeOK, LockInv, [ClaimsNext]_claimVars
  PROVE  LockInv'
<1>1. ASSUME NEW w \in Walks, NEW c \in Cells, Launch(w, c) PROVE LockInv'
  <2>1. task[w][c] = "no" /\ ~locked[w][c]
    BY <1>1 DEF ClaimsTypeOK, Launch
  <2>2. UNCHANGED <<file, fd, locked>>
    BY <1>1 DEF Launch
  <2>3. CASE task' = Set(task, w, c, "asks") /\ UNCHANGED hand
    BY <2>1, <2>2, <2>3 DEF ClaimsTypeOK, LockInv, Set
  <2>4. CASE task' = Set(task, w, c, "back") /\ hand' = Set(hand, w, c, "replay")
    BY <2>1, <2>2, <2>4 DEF ClaimsTypeOK, LockInv, Set
  <2> QED
    BY <1>1, <2>3, <2>4 DEF Launch
<1>2. ASSUME NEW w \in Walks, NEW c \in Cells, OpenLock(w, c) PROVE LockInv'
  <2>1. task[w][c] = "asks" /\ ~locked[w][c] /\ task' = Set(task, w, c, "lock")
    BY <1>2 DEF ClaimsTypeOK, OpenLock
  <2>2. UNCHANGED <<locked, hand>>
    BY <1>2 DEF OpenLock
  <2>3. CASE file[c] # NoFile /\ fd' = Set(fd, w, c, file[c]) /\ UNCHANGED file
    BY <2>1, <2>2, <2>3 DEF ClaimsTypeOK, LockInv, Set
  <2>4. CASE /\ file[c] = NoFile
             /\ \E i \in LockInodes : file' = [file EXCEPT ![c] = i] /\ fd' = Set(fd, w, c, i)
    <3>1. PICK i \in LockInodes : file' = [file EXCEPT ![c] = i] /\ fd' = Set(fd, w, c, i)
      BY <2>4
    <3>2. i # NoFile
      BY ClaimsAssumption DEF NoFile
    <3>3. \A v \in Walks : ~locked[v][c]
      BY <2>4 DEF LockInv
    <3> QED
      BY <2>1, <2>2, <3>1, <3>2, <3>3 DEF ClaimsTypeOK, LockInv, Set
  <2> QED
    BY <1>2, <2>3, <2>4 DEF OpenLock, Unopened
<1>3. ASSUME NEW w \in Walks, NEW c \in Cells, TryLock(w, c) PROVE LockInv'
  <2>1. task[w][c] = "lock" /\ ~locked[w][c] /\ fd[w][c] # NoFile /\ UNCHANGED <<file, hand>>
    BY <1>3 DEF ClaimsTypeOK, LockInv, TryLock
  <2>2. CASE /\ Lockable(w, c) /\ locked' = Set(locked, w, c, TRUE) /\ UNCHANGED fd
             /\ task' = Set(task, w, c, "look")
    BY <2>1, <2>2 DEF ClaimsTypeOK, LockInv, Lockable, Set
  <2>3. CASE /\ fd' = Set(fd, w, c, NoFile) /\ UNCHANGED locked
             /\ task' = Set(task, w, c, "peek")
    BY <2>1, <2>3 DEF ClaimsTypeOK, LockInv, Set
  <2> QED
    BY <1>3, <2>2, <2>3 DEF TryLock
<1>4. ASSUME NEW w \in Walks, NEW c \in Cells, Look(w, c) PROVE LockInv'
  <2>1. CASE Buys(c) /\ task' = Set(task, w, c, "sent") /\ UNCHANGED hand
    BY <1>4, <2>1 DEF ClaimsTypeOK, LockInv, Look, Buys, Set
  <2>2. CASE task' = Set(task, w, c, "unrow") /\ hand' = Set(hand, w, c, "replay")
    BY <1>4, <2>2 DEF ClaimsTypeOK, LockInv, Look, Buys, Set
  <2> QED
    BY <1>4, <2>1, <2>2 DEF Look
<1>5. ASSUME NEW w \in Walks, NEW c \in Cells, Peek(w, c) PROVE LockInv'
  <2>1. CASE task' = Set(task, w, c, "back") /\ hand' = Set(hand, w, c, "shared")
    BY <1>5, <2>1 DEF ClaimsTypeOK, LockInv, Peek, Set
  <2>2. CASE task' = Set(task, w, c, "asks") /\ UNCHANGED hand
    BY <1>5, <2>2 DEF ClaimsTypeOK, LockInv, Peek, Set
  <2> QED
    BY <1>5, <2>1, <2>2 DEF Peek
<1>6. ASSUME NEW w \in Walks, NEW c \in Cells, ReturnsGood(w, c) PROVE LockInv'
  BY <1>6 DEF ClaimsTypeOK, LockInv, ReturnsGood, Shared, Set
<1>7. ASSUME NEW w \in Walks, NEW c \in Cells, ReturnsBad(w, c) PROVE LockInv'
  BY <1>7 DEF ClaimsTypeOK, LockInv, ReturnsBad, Fault, Set
<1>8. ASSUME NEW w \in Walks, NEW c \in Cells, Raises(w, c) PROVE LockInv'
  BY <1>8 DEF ClaimsTypeOK, LockInv, Raises, Fault, Set
<1>9. ASSUME NEW w \in Walks, NEW c \in Cells, Unrow(w, c) PROVE LockInv'
  BY <1>9 DEF ClaimsTypeOK, LockInv, Unrow, Set
<1>10. ASSUME NEW w \in Walks, NEW c \in Cells, Retire(w, c) PROVE LockInv'
  <2>1. PICK to \in {"gone", "back"} :
          /\ task[w][c] = "retire" /\ hand' = hand
          /\ file' = IF locked[w][c] THEN [file EXCEPT ![c] = NoFile] ELSE file
          /\ fd' = Set(fd, w, c, NoFile) /\ locked' = Set(locked, w, c, FALSE)
          /\ task' = Set(task, w, c, to)
    BY <1>10 DEF Retire, AfterRetire
  <2>2. /\ fd'[w][c] = NoFile /\ ~locked'[w][c] /\ task'[w][c] = to
        /\ \A v \in Walks, d \in Cells : v # w \/ d # c =>
              fd'[v][d] = fd[v][d] /\ locked'[v][d] = locked[v][d] /\ task'[v][d] = task[v][d]
    BY <2>1 DEF ClaimsTypeOK, Set
  <2>3. \A d \in Cells : d # c \/ ~locked[w][c] => file'[d] = file[d]  BY <2>1 DEF ClaimsTypeOK
  <2>4. hand[w][c] # "fresh"  BY <2>1 DEF LockInv
  <2>5. ASSUME NEW v \in Walks, v # w, locked[v][c] PROVE ~locked[w][c]  BY <2>5 DEF LockInv
  <2>6. ASSUME NEW v \in Walks, NEW d \in Cells
        PROVE  /\ task'[v][d] = "lock" => fd'[v][d] # NoFile
               /\ locked'[v][d] => fd'[v][d] = file'[d] /\ file'[d] # NoFile
               /\ task'[v][d] \in {"look", "sent"} \/ hand'[v][d] = "fresh" => locked'[v][d]
               /\ hand'[v][d] = "fresh" => task'[v][d] = "back"
               /\ locked'[v][d] /\ task'[v][d] = "back" => hand'[v][d] = "fresh"
    <3>1. CASE v = w /\ d = c  BY <2>1, <2>2, <2>4, <3>1
    <3>2. CASE v # w \/ d # c
      <4>1. fd'[v][d] = fd[v][d] /\ locked'[v][d] = locked[v][d] /\ task'[v][d] = task[v][d]
            /\ hand'[v][d] = hand[v][d]
        BY <2>1, <2>2, <3>2
      <4>2. locked[v][d] => file'[d] = file[d]  BY <2>3, <2>5, <3>2
      <4> QED BY <4>1, <4>2 DEF LockInv
    <3> QED BY <3>1, <3>2
  <2>7. ASSUME NEW d \in Cells, NEW v \in Walks, NEW u \in Walks, locked'[v][d], locked'[u][d] PROVE v = u
    <3>1. locked[v][d] /\ locked[u][d]  BY <2>2, <2>7
    <3> QED BY <3>1 DEF LockInv
  <2> QED BY <2>6, <2>7 DEF LockInv
<1>11. ASSUME NEW w \in Walks, Take(w) PROVE LockInv'
  BY <1>11 DEF ClaimsTypeOK, LockInv, Take, Let, Carries, Set
<1>12. ASSUME NEW w \in Walks, Decide(w) PROVE LockInv'
  <2>1. UNCHANGED <<file, locked, hand>> /\ DropWaits(w)
    BY <1>12 DEF Decide
  <2> QED
    BY <2>1, WaitsDropped DEF LockInv
<1>13. ASSUME NEW w \in Walks, Stop(w) PROVE LockInv'
  <2>1. UNCHANGED <<file, locked, hand>> /\ DropWaits(w)
    BY <1>13 DEF Stop
  <2> QED
    BY <2>1, WaitsDropped DEF LockInv
<1>14. ASSUME NEW w \in Walks, Bank(w) PROVE LockInv'
  BY <1>14 DEF ClaimsTypeOK, LockInv, Bank, Sure
<1>15. ASSUME NEW w \in Walks, NEW c \in Cells, Discard(w, c) PROVE LockInv'
  BY <1>15 DEF ClaimsTypeOK, LockInv, Discard, Let, Carries, Set, Losing
<1>16. ASSUME NEW w \in Walks, Dies(w) PROVE LockInv'
  BY <1>16 DEF ClaimsTypeOK, LockInv, Dies, Fault, Losing
<1>17. CASE UNCHANGED claimVars
  BY <1>17 DEF claimVars, LockInv, LockInv
<1> QED
  BY <1>1, <1>2, <1>3, <1>4, <1>5, <1>6, <1>7, <1>8, <1>9, <1>10, <1>11, <1>12, <1>13, <1>14, <1>15, <1>16, <1>17
     DEF ClaimsNext, Walk, Cell, Begins, Polls, Returns, GoesOn

\* Every step keeps what was bought and not lost in hand or on disk.
LEMMA PaidStep ==
  ASSUME ClaimsTypeOK, LockInv, PaidInv, [ClaimsNext]_claimVars
  PROVE  PaidInv'
<1>1. ASSUME NEW w \in Walks, NEW c \in Cells, Launch(w, c) PROVE PaidInv'
  <2>1. CASE task' = Set(task, w, c, "asks") /\ UNCHANGED hand
    BY <1>1, <2>1 DEF ClaimsTypeOK, LockInv, PaidInv, Kept, Launch, Set
  <2>2. CASE task' = Set(task, w, c, "back") /\ hand' = Set(hand, w, c, "replay")
    BY <1>1, <2>2 DEF ClaimsTypeOK, LockInv, PaidInv, Kept, Launch, Set
  <2> QED
    BY <1>1, <2>1, <2>2 DEF Launch
<1>2. ASSUME NEW w \in Walks, NEW c \in Cells, OpenLock(w, c) PROVE PaidInv'
  <2>1. CASE file[c] # NoFile /\ fd' = Set(fd, w, c, file[c]) /\ UNCHANGED file
    BY <1>2, <2>1 DEF ClaimsTypeOK, LockInv, PaidInv, Kept, OpenLock, Set, Unopened
  <2>2. CASE file[c] = NoFile /\ \E i \in Unopened(c) : file' = [file EXCEPT ![c] = i] /\ fd' = Set(fd, w, c, i)
    BY <1>2, <2>2 DEF ClaimsTypeOK, LockInv, PaidInv, Kept, OpenLock, Set, Unopened
  <2> QED
    BY <1>2, <2>1, <2>2 DEF OpenLock
<1>3. ASSUME NEW w \in Walks, NEW c \in Cells, TryLock(w, c) PROVE PaidInv'
  <2>1. CASE Lockable(w, c) /\ locked' = Set(locked, w, c, TRUE) /\ UNCHANGED fd /\ task' = Set(task, w, c, "look")
    BY <1>3, <2>1 DEF ClaimsTypeOK, LockInv, PaidInv, Kept, TryLock, Lockable, Set
  <2>2. CASE fd' = Set(fd, w, c, NoFile) /\ UNCHANGED locked /\ task' = Set(task, w, c, "peek")
    BY <1>3, <2>2 DEF ClaimsTypeOK, LockInv, PaidInv, Kept, TryLock, Lockable, Set
  <2> QED
    BY <1>3, <2>1, <2>2 DEF TryLock
<1>4. ASSUME NEW w \in Walks, NEW c \in Cells, Look(w, c) PROVE PaidInv'
  <2>1. CASE Buys(c) /\ task' = Set(task, w, c, "sent") /\ UNCHANGED hand
    BY <1>4, <2>1 DEF ClaimsTypeOK, LockInv, PaidInv, Kept, Look, Buys, Set
  <2>2. CASE task' = Set(task, w, c, "unrow") /\ hand' = Set(hand, w, c, "replay")
    BY <1>4, <2>2 DEF ClaimsTypeOK, LockInv, PaidInv, Kept, Look, Buys, Set
  <2> QED
    BY <1>4, <2>1, <2>2 DEF Look
<1>5. ASSUME NEW w \in Walks, NEW c \in Cells, Peek(w, c) PROVE PaidInv'
  <2>1. CASE task' = Set(task, w, c, "back") /\ hand' = Set(hand, w, c, "shared")
    BY <1>5, <2>1 DEF ClaimsTypeOK, LockInv, PaidInv, Kept, Peek, Set
  <2>2. CASE task' = Set(task, w, c, "asks") /\ UNCHANGED hand
    BY <1>5, <2>2 DEF ClaimsTypeOK, LockInv, PaidInv, Kept, Peek, Set
  <2> QED
    BY <1>5, <2>1, <2>2 DEF Peek
<1>6. ASSUME NEW w \in Walks, NEW c \in Cells, ReturnsGood(w, c) PROVE PaidInv'
  BY <1>6 DEF ClaimsTypeOK, LockInv, PaidInv, Kept, ReturnsGood, Shared, Set
<1>7. ASSUME NEW w \in Walks, NEW c \in Cells, ReturnsBad(w, c) PROVE PaidInv'
  BY <1>7 DEF ClaimsTypeOK, LockInv, PaidInv, Kept, ReturnsBad, Fault, Set
<1>8. ASSUME NEW w \in Walks, NEW c \in Cells, Raises(w, c) PROVE PaidInv'
  BY <1>8 DEF ClaimsTypeOK, LockInv, PaidInv, Kept, Raises, Fault, Set
<1>9. ASSUME NEW w \in Walks, NEW c \in Cells, Unrow(w, c) PROVE PaidInv'
  BY <1>9 DEF ClaimsTypeOK, LockInv, PaidInv, Kept, Unrow, Set
<1>10. ASSUME NEW w \in Walks, NEW c \in Cells, Retire(w, c) PROVE PaidInv'
  BY <1>10 DEF ClaimsTypeOK, LockInv, PaidInv, Kept, Retire, AfterRetire, Set
<1>11. ASSUME NEW w \in Walks, Take(w) PROVE PaidInv'
  BY <1>11 DEF ClaimsTypeOK, LockInv, PaidInv, Kept, Take, Let, Carries, Set
<1>12. ASSUME NEW w \in Walks, Decide(w) PROVE PaidInv'
  BY <1>12 DEF ClaimsTypeOK, LockInv, PaidInv, Kept, Decide, DropWaits, Waits
<1>13. ASSUME NEW w \in Walks, Stop(w) PROVE PaidInv'
  BY <1>13 DEF ClaimsTypeOK, LockInv, PaidInv, Kept, Stop, DropWaits, Waits
<1>14. ASSUME NEW w \in Walks, Bank(w) PROVE PaidInv'
  BY <1>14 DEF ClaimsTypeOK, LockInv, PaidInv, Kept, Bank, Sure
<1>15. ASSUME NEW w \in Walks, NEW c \in Cells, Discard(w, c) PROVE PaidInv'
  BY <1>15 DEF ClaimsTypeOK, LockInv, PaidInv, Kept, Discard, Let, Carries, Set, Losing
<1>16. ASSUME NEW w \in Walks, Dies(w) PROVE PaidInv'
  BY <1>16 DEF ClaimsTypeOK, LockInv, PaidInv, Kept, Dies, Fault, Losing
<1>17. CASE UNCHANGED claimVars
  BY <1>17 DEF claimVars, PaidInv, PaidInv, Kept
<1> QED
  BY <1>1, <1>2, <1>3, <1>4, <1>5, <1>6, <1>7, <1>8, <1>9, <1>10, <1>11, <1>12, <1>13, <1>14, <1>15, <1>16, <1>17
     DEF ClaimsNext, Walk, Cell, Begins, Polls, Returns, GoesOn

\* For any walks and cells: the types, the locks and what was bought, together.
THEOREM ClaimsInvariant == ClaimsSpec => []ClaimsInv
<1>1. ClaimsInit => ClaimsInv
  BY InitClaims
<1>2. ClaimsInv /\ [ClaimsNext]_claimVars => ClaimsInv'
  BY ClaimsTypeStep, LockStep, PaidStep DEF ClaimsInv
<1> QED
  BY <1>1, <1>2, PTL DEF ClaimsSpec

\* For any walks and cells: the types, and no lock left with a task that is done.
THEOREM ClaimsTypeCorrect == ClaimsSpec => []ClaimsTypeOK
<1>1. ClaimsInv => ClaimsTypeOK
  BY DEF ClaimsInv
<1> QED
  BY <1>1, ClaimsInvariant, PTL

\* For any walks and cells, and any number of faults: a cell is bought once
\* more only after a row of it was lost.
THEOREM CellsBoughtOnce == ClaimsSpec => []BoughtOnce
<1>1. ClaimsInv => BoughtOnce
  <2> SUFFICES ASSUME ClaimsInv, NEW c \in Cells PROVE paid[c] <= lost[c] + 1
    BY DEF BoughtOnce
  <2>1. paid[c] \in Nat /\ lost[c] \in Nat
    BY DEF ClaimsInv, ClaimsTypeOK
  <2>2. paid[c] <= lost[c] \/ paid[c] = lost[c] + 1
    BY DEF ClaimsInv, PaidInv
  <2> QED
    BY <2>1, <2>2
<1> QED
  BY <1>1, ClaimsInvariant, PTL
=============================================================================
