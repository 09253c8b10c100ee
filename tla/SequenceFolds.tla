---------------------------- MODULE SequenceFolds ----------------------------
(***************************************************************************)
(* What FlattenSeq and FoldLeft of the community modules compute for       *)
(* sequences of every length, for the proofs about the codecs.  The step   *)
(* of a fold is a function here, and claims about all sequences are sets.  *)
(***************************************************************************)
EXTENDS SequencesExt, Induction, SequenceTheorems

-----------------------------------------------------------------------------
(* Folds.  MapThenFoldSet, behind FoldLeft, recurses over the subsets of a *)
(* sequence's domain and takes the greatest index off; of these subsets    *)
(* only the prefixes 1..n matter.                                          *)

(* A non-empty set of indices has a greatest member.                       *)
LEMMA MaxIsGreatest ==
  ASSUME NEW L \in Nat, NEW s \in SUBSET (1..L), s # {}
  PROVE  Max(s) \in s /\ \A x \in s : Max(s) >= x
<1> DEFINE Good(n) == \A t \in SUBSET (1..n) : t # {} => \E x \in t : \A y \in t : x >= y
           S == {n \in Nat : Good(n)}
<1>1. 0 \in S
  <2>1. 1..0 = {}
    OBVIOUS
  <2> QED BY <2>1
<1>2. ASSUME NEW n \in Nat, n \in S PROVE n + 1 \in S
  <2> SUFFICES ASSUME NEW t \in SUBSET (1..n + 1), t # {}
               PROVE  \E x \in t : \A y \in t : x >= y
    OBVIOUS
  <2>1. CASE n + 1 \in t
    BY <2>1
  <2>2. CASE n + 1 \notin t
    <3>1. t \in SUBSET (1..n)
      BY <2>2
    <3> QED BY <1>2, <3>1
  <2> QED BY <2>1, <2>2
<1>3. L \in S
  <2> HIDE DEF S
  <2> QED BY <1>1, <1>2, SetInduction
<1>4. \E x \in s : \A y \in s : x >= y
  BY <1>3
<1> QED BY <1>4 DEF Max

(* The greatest index of a prefix is its last one.                         *)
LEMMA PrefixTop ==
  ASSUME NEW L \in Nat, NEW n \in 1..L, NEW P, P = 1..n
  PROVE  P \in SUBSET (1..L) /\ P # {} /\ Max(P) = n /\ P \ {n} = 1..(n - 1)
<1>1. P \in SUBSET (1..L) /\ P # {} /\ n \in P
  OBVIOUS
<1>2. Max(P) \in P /\ Max(P) >= n
  BY <1>1, MaxIsGreatest
<1>3. Max(P) = n
  BY <1>2
<1>4. P \ {n} = 1..(n - 1)
  OBVIOUS
<1> QED BY <1>1, <1>3, <1>4, Zenon

(* g is the fold of F, a function of an accumulator and an index, over     *)
(* the subsets of T.                                                       *)
FoldOf(g, F, base, T) ==
  \A s \in SUBSET T : g[s] = IF s = {} THEN base ELSE F[<<g[s \ {Max(s)}], Max(s)>>]

(* Folds whose accumulators stay within A exist.                           *)
LEMMA FoldsExist ==
  ASSUME NEW A, NEW base \in A, NEW L \in Nat, NEW F \in [A \X (1..L) -> A]
  PROVE  \E g \in [SUBSET (1..L) -> A] : FoldOf(g, F, base, 1..L)
<1> DEFINE T == 1..L
           Small(n) == {s \in SUBSET T : Cardinality(s) <= n}
           Next1(g, s) == F[<<g[s \ {Max(s)}], Max(s)>>]
           Sol(n, g) == /\ g \in [Small(n) -> A]
                        /\ g[{}] = base
                        /\ \A s \in Small(n) : s # {} => g[s] = Next1(g, s)
           S == {n \in Nat : \E g : Sol(n, g)}
<1>0. IsFiniteSet(T)
  BY FS_Interval
<1>1. {} \in SUBSET T /\ Cardinality({}) = 0
  BY FS_EmptySet
<1>2. ASSUME NEW s \in SUBSET T PROVE Cardinality(s) \in Nat /\ (Cardinality(s) = 0 => s = {})
  <2>1. IsFiniteSet(s)
    BY <1>0, FS_Subset
  <2> QED BY <2>1, FS_CardinalityType, FS_EmptySet
<1>3. ASSUME NEW s \in SUBSET T, s # {}
      PROVE  /\ Max(s) \in s /\ Max(s) \in T
             /\ s \ {Max(s)} \in SUBSET T
             /\ Cardinality(s \ {Max(s)}) = Cardinality(s) - 1
  <2>1. Max(s) \in s
    BY <1>3, MaxIsGreatest
  <2> QED BY <1>0, <2>1, OneFewer
<1>4. 0 \in S
  <2> DEFINE g == [s \in Small(0) |-> base]
  <2>1. \A s \in Small(0) : s = {}
    BY <1>2
  <2>2. {} \in Small(0)
    BY <1>1
  <2>3. Sol(0, g)
    BY <2>1, <2>2
  <2> QED BY <2>3
<1>5. ASSUME NEW n \in Nat, n \in S PROVE n + 1 \in S
  <2>1. PICK g : Sol(n, g)
    BY <1>5
  <2> DEFINE h == [s \in Small(n + 1) |->
                     IF Cardinality(s) <= n THEN g[s] ELSE Next1(g, s)]
  <2>2. ASSUME NEW s \in Small(n + 1), s # {}
        PROVE  s \ {Max(s)} \in Small(n)
    BY <1>2, <1>3, <2>2
  <2>3. {} \in Small(n + 1) /\ {} \in Small(n)
    BY <1>1
  <2>4. ASSUME NEW s \in Small(n + 1), ~(Cardinality(s) <= n) PROVE s # {}
    BY <1>1, <2>4
  <2>5. ASSUME NEW s \in Small(n) PROVE s \in Small(n + 1)
    BY <1>2
  <2>6. h \in [Small(n + 1) -> A]
    <3>1. ASSUME NEW s \in Small(n + 1) PROVE h[s] \in A
      <4>1. CASE Cardinality(s) <= n
        BY <2>1, <4>1
      <4>2. CASE ~(Cardinality(s) <= n)
        <5>1. s # {} /\ s \in SUBSET T
          BY <2>4, <4>2
        <5>2. g[s \ {Max(s)}] \in A /\ Max(s) \in T
          BY <1>3, <2>1, <2>2, <5>1
        <5>3. Next1(g, s) \in A
          BY <5>2
        <5> QED BY <4>2, <5>3
      <4> QED BY <4>1, <4>2
    <3> QED BY <3>1
  <2>7. h[{}] = base
    BY <1>1, <2>1, <2>3
  <2>8. ASSUME NEW s \in Small(n + 1), s # {}
        PROVE  h[s] = Next1(h, s)
    <3>1. s \ {Max(s)} \in Small(n) /\ s \ {Max(s)} \in Small(n + 1)
      BY <2>2, <2>5, <2>8
    <3>2. h[s \ {Max(s)}] = g[s \ {Max(s)}]
      BY <3>1
    <3>3. CASE Cardinality(s) <= n
      <4>1. s \in Small(n) /\ h[s] = g[s]
        BY <3>3
      <4> QED BY <2>1, <2>8, <3>2, <4>1
    <3>4. CASE ~(Cardinality(s) <= n)
      BY <3>2, <3>4
    <3> QED BY <3>3, <3>4
  <2>9. Sol(n + 1, h)
    BY <2>6, <2>7, <2>8
  <2> QED
    <3> HIDE DEF Sol, h
    <3> QED BY <2>9
<1> DEFINE N == Cardinality(T)
<1>6. N \in Nat /\ N \in S
  <2>1. Cardinality(T) \in Nat
    BY <1>0, FS_CardinalityType
  <2> HIDE DEF S, T
  <2> QED BY <1>4, <1>5, <2>1, SetInduction
<1>7. PICK g : Sol(N, g)
  <2> HIDE DEF Sol, N
  <2> QED BY <1>6
<1>8. Small(N) = SUBSET T
  BY <1>0, FS_Subset
<1>9. g \in [SUBSET T -> A] /\ FoldOf(g, F, base, T)
  <2> HIDE DEF Small, N, T
  <2>1. /\ g \in [SUBSET T -> A] /\ g[{}] = base
        /\ \A s \in SUBSET T : s # {} => g[s] = Next1(g, s)
    BY <1>7, <1>8
  <2> QED BY <2>1 DEF FoldOf
<1> QED BY <1>9

-----------------------------------------------------------------------------
(* Sequences *)

(* A set that holds the empty sequence and, with a sequence, its            *)
(* extensions by one element, holds every sequence.                        *)
LEMMA SeqInduction ==
  ASSUME NEW X, NEW Q, <<>> \in Q,
         \A r \in Seq(X) : \A e \in X : r \in Q => Append(r, e) \in Q
  PROVE  Seq(X) \subseteq Q
<1> DEFINE N == {n \in Nat : \A s \in Seq(X) : Len(s) = n => s \in Q}
<1>1. 0 \in N
  <2>1. ASSUME NEW s \in Seq(X), Len(s) = 0 PROVE s \in Q
    <3>1. s = <<>>
      BY <2>1, EmptySeq
    <3> QED BY <3>1
  <2> QED BY <2>1
<1>2. ASSUME NEW n \in Nat, n \in N PROVE n + 1 \in N
  <2> SUFFICES ASSUME NEW s \in Seq(X), Len(s) = n + 1 PROVE s \in Q
    OBVIOUS
  <2>1. PICK r \in Seq(X), e \in X : s = Append(r, e)
    <3>1. s # <<>>
      BY EmptySeq
    <3> QED BY <3>1, SequenceEmptyOrAppend
  <2>2. Len(r) = n
    BY <2>1, AppendProperties, LenProperties
  <2>3. r \in Q
    BY <1>2, <2>2
  <2> QED BY <2>1, <2>3
<1>3. Nat \subseteq N
  <2> HIDE DEF N
  <2> QED BY <1>1, <1>2, SetInduction
<1> QED BY <1>3, LenProperties

(* g[i] is the concatenation of the first i members of S.                  *)
Flats(g, S, L) == g = [i \in 1..L |-> IF i = 1 THEN S[i] ELSE g[i - 1] \o S[i]]

(* The recursion of FlattenSeq has a solution.                             *)
LEMMA FlatsExist ==
  ASSUME NEW V, NEW S \in Seq(Seq(V))
  PROVE  \E g : Flats(g, S, Len(S))
<1> DEFINE L == Len(S)
           Sol(n, g) == /\ g \in [1..n -> Seq(V)]
                        /\ \A i \in 1..n : g[i] = IF i = 1 THEN S[i] ELSE g[i - 1] \o S[i]
           N == {n \in Nat : n <= L => \E g : Sol(n, g)}
<1>1. L \in Nat /\ \A i \in 1..L : S[i] \in Seq(V)
  BY LenProperties, ElementOfSeq
<1> HIDE DEF L
<1>2. 0 \in N
  <2>1. Sol(0, [i \in 1..0 |-> <<>>])
    OBVIOUS
  <2> QED BY <2>1
<1>3. ASSUME NEW n \in Nat, n \in N PROVE n + 1 \in N
  <2> HIDE DEF Sol
  <2> SUFFICES ASSUME n + 1 <= L PROVE \E g : Sol(n + 1, g)
    OBVIOUS
  <2>1. PICK g : Sol(n, g)
    BY <1>1, <1>3
  <2> USE DEF Sol
  <2> DEFINE last == IF n + 1 = 1 THEN S[n + 1] ELSE g[n] \o S[n + 1]
             h == [i \in 1..n + 1 |-> IF i = n + 1 THEN last ELSE g[i]]
  <2>2. last \in Seq(V)
    <3>1. S[n + 1] \in Seq(V)
      BY <1>1
    <3>2. CASE n = 0
      BY <3>1, <3>2
    <3>3. CASE n # 0
      <4>1. g[n] \in Seq(V)
        BY <2>1, <3>3
      <4> QED BY <3>1, <3>3, <4>1, ConcatProperties
    <3> QED BY <3>2, <3>3
  <2>3. h \in [1..n + 1 -> Seq(V)]
    <3> HIDE DEF last
    <3>1. \A i \in 1..n + 1 : i # n + 1 => i \in 1..n
      OBVIOUS
    <3> QED BY <2>1, <2>2, <3>1
  <2>4. ASSUME NEW i \in 1..n + 1
        PROVE  h[i] = IF i = 1 THEN S[i] ELSE h[i - 1] \o S[i]
    <3>1. CASE i = n + 1
      <4>1. i # 1 => i - 1 \in 1..n + 1 /\ i - 1 = n /\ h[i - 1] = g[n]
        BY <3>1
      <4> QED BY <3>1, <4>1
    <3>2. CASE i # n + 1
      <4>1. i \in 1..n /\ h[i] = g[i]
        BY <3>2
      <4>2. i # 1 => h[i - 1] = g[i - 1]
        BY <3>2
      <4> QED BY <2>1, <4>1, <4>2
    <3> QED BY <3>1, <3>2
  <2>5. Sol(n + 1, h)
    <3> HIDE DEF h
    <3> QED BY <2>3, <2>4
  <2> HIDE DEF Sol, h
  <2> QED BY <2>5
<1>4. L \in N
  <2> HIDE DEF N
  <2> QED BY <1>1, <1>2, <1>3, SetInduction
<1>5. PICK g : Sol(L, g)
  <2>1. L \in {n \in Nat : n <= L => \E g : Sol(n, g)}
    BY <1>4
  <2> HIDE DEF Sol
  <2> QED BY <1>1, <2>1
<1>6. Flats(g, S, L)
  BY <1>5 DEF Flats
<1> QED BY <1>6 DEF L

(* FlattenSeq of a non-empty sequence is the last of these concatenations. *)
LEMMA FlattenIsLast ==
  ASSUME NEW V, NEW S \in Seq(Seq(V)), Len(S) # 0
  PROVE  \E g : Flats(g, S, Len(S)) /\ FlattenSeq(S) = g[Len(S)]
<1> DEFINE L == Len(S)
           Sol(g) == g = [i \in 1..L |-> IF i = 1 THEN S[i] ELSE g[i - 1] \o S[i]]
           flatten == CHOOSE g : Sol(g)
<1>1. \E g : Sol(g)
  BY FlatsExist, Zenon DEF Flats
<1>2. Sol(flatten)
  <2> HIDE DEF Sol
  <2> QED BY <1>1
<1>3. Flats(flatten, S, L)
  <2> HIDE DEF flatten
  <2> QED BY <1>2, Zenon DEF Flats
<1>4. FlattenSeq(S) = flatten[L]
  BY DEF FlattenSeq
<1> HIDE DEF flatten
<1> QED BY <1>3, <1>4

(* How the concatenations grow.                                            *)
LEMMA FlatsGrow ==
  ASSUME NEW S, NEW L \in Nat, NEW g, Flats(g, S, L)
  PROVE  /\ 1 \in 1..L => g[1] = S[1]
         /\ \A i \in 1..L : i # 1 => g[i] = g[i - 1] \o S[i]
<1>1. \A i \in 1..L : g[i] = IF i = 1 THEN S[i] ELSE g[i - 1] \o S[i]
  BY DEF Flats
<1> QED BY <1>1

(* They depend on the members they concatenate only.                       *)
LEMMA FlatsAgree ==
  ASSUME NEW S, NEW T, NEW L \in Nat, NEW M \in Nat, L <= M, Agree(S, T, L),
         NEW g, Flats(g, S, L), NEW h, Flats(h, T, M)
  PROVE  \A n \in 1..L : g[n] = h[n]
<1> DEFINE N == {n \in Nat : n \in 1..L => g[n] = h[n]}
<1>1. /\ 1 \in 1..L => g[1] = S[1]
      /\ \A i \in 1..L : i # 1 => g[i] = g[i - 1] \o S[i]
  BY FlatsGrow
<1>2. /\ 1 \in 1..M => h[1] = T[1]
      /\ \A i \in 1..M : i # 1 => h[i] = h[i - 1] \o T[i]
  BY FlatsGrow
<1>3. 0 \in N
  OBVIOUS
<1>4. ASSUME NEW n \in Nat, n \in N PROVE n + 1 \in N
  <2> SUFFICES ASSUME n + 1 \in 1..L PROVE g[n + 1] = h[n + 1]
    OBVIOUS
  <2>1. n + 1 \in 1..M /\ S[n + 1] = T[n + 1]
    BY DEF Agree
  <2>2. CASE n = 0
    BY <1>1, <1>2, <2>1, <2>2
  <2>3. CASE n # 0
    <3>1. n \in 1..L /\ (n + 1) - 1 = n /\ n + 1 # 1
      BY <2>3
    <3>2. g[n] = h[n]
      BY <1>4, <3>1
    <3>3. g[n + 1] = g[n] \o S[n + 1] /\ h[n + 1] = h[n] \o T[n + 1]
      BY <1>1, <1>2, <2>1, <3>1
    <3> QED BY <2>1, <3>2, <3>3
  <2> QED BY <2>2, <2>3
<1>5. Nat \subseteq N
  <2> HIDE DEF N
  <2> QED BY <1>3, <1>4, SetInduction
<1> QED BY <1>5

(* Appending to a concatenation appends to its second part.                *)
LEMMA ConcatAppend ==
  ASSUME NEW V, NEW s \in Seq(V), NEW r \in Seq(V), NEW t \in V
  PROVE  s \o Append(r, t) = Append(s \o r, t)
<1>1. <<t>> \in Seq(V)
  OBVIOUS
<1>2. Append(r, t) = r \o <<t>>
  BY AppendIsConcat
<1>3. s \o r \in Seq(V)
  BY ConcatProperties
<1>4. Append(s \o r, t) = (s \o r) \o <<t>>
  BY <1>3, AppendIsConcat
<1>5. (s \o r) \o <<t>> = s \o (r \o <<t>>)
  BY <1>1, ConcatAssociative
<1> QED BY <1>2, <1>4, <1>5, Zenon

(* A sequence with one element more.                                       *)
LEMMA IsAppended ==
  ASSUME NEW X, NEW s \in Seq(X), NEW e \in X, NEW t \in Seq(X),
         Len(t) = Len(s) + 1, t[Len(t)] = e, \A i \in 1..Len(s) : t[i] = s[i]
  PROVE  t = Append(s, e)
<1> DEFINE u == Append(s, e)
<1>1. /\ u \in Seq(X) /\ Len(u) = Len(s) + 1
      /\ \A i \in 1..Len(s) : u[i] = s[i]
      /\ u[Len(s) + 1] = e
  BY AppendProperties
<1>2. Len(s) \in Nat
  BY LenProperties
<1> HIDE DEF u
<1>3. \A i \in 1..Len(t) : t[i] = u[i]
  BY <1>1, <1>2
<1>4. t = u
  BY <1>1, <1>3, SeqEqual
<1> QED BY <1>4 DEF u

(* Flattening a non-empty sequence with one more member.                   *)
LEMMA FlattenMore ==
  ASSUME NEW V, NEW S \in Seq(Seq(V)), NEW t \in Seq(V), Len(S) # 0
  PROVE  FlattenSeq(Append(S, t)) = FlattenSeq(S) \o t
<1>0. PICK T : T = Append(S, t)
  OBVIOUS
<1>1. PICK L, M : L = Len(S) /\ M = Len(T)
  OBVIOUS
<1>a. /\ T \in Seq(Seq(V)) /\ L \in Nat /\ M \in Nat /\ M = L + 1 /\ T[M] = t
      /\ \A i \in 1..L : S[i] = T[i]
  BY <1>0, <1>1, AppendProperties, LenProperties
<1>b. L # 0 /\ M # 0
  BY <1>1, <1>a
<1>2. PICK g : Flats(g, S, L) /\ FlattenSeq(S) = g[L]
  BY <1>1, FlattenIsLast, Zenon
<1>3. PICK h : Flats(h, T, M) /\ FlattenSeq(T) = h[M]
  BY <1>1, <1>a, <1>b, FlattenIsLast, Zenon
<1>4. L \in 1..L /\ L <= M /\ M \in 1..M /\ M # 1 /\ M - 1 = L
  BY <1>a, <1>b
<1>5. g[L] = h[L]
  <2>1. Agree(S, T, L)
    BY <1>a DEF Agree
  <2> QED BY <1>2, <1>3, <1>4, <1>a, <2>1, FlatsAgree
<1>6. h[M] = h[M - 1] \o T[M]
  BY <1>3, <1>4, <1>a, FlatsGrow
<1>7. h[M - 1] = h[L]
  BY <1>4
<1> QED BY <1>0, <1>a, <1>2, <1>3, <1>5, <1>6, <1>7, Zenon

(* An empty sequence flattens to the empty sequence.                       *)
LEMMA FlattenEmpty == FlattenSeq(<<>>) = <<>>
  BY DEF FlattenSeq

(* A single member is the result.                                          *)
LEMMA FlattenOne ==
  ASSUME NEW V, NEW t \in Seq(V)
  PROVE  FlattenSeq(<<t>>) = t
<1>0. PICK T : T = <<t>>
  OBVIOUS
<1>1. T \in Seq(Seq(V)) /\ Len(T) = 1 /\ T[1] = t /\ Len(T) # 0
  BY <1>0
<1>2. PICK h : Flats(h, T, Len(T)) /\ FlattenSeq(T) = h[Len(T)]
  BY <1>1, FlattenIsLast, Zenon
<1>3. h[1] = T[1]
  <2>1. PICK L \in Nat : L = Len(T)
    BY <1>1
  <2>2. 1 \in 1..L
    BY <1>1, <2>1
  <2>3. Flats(h, T, L)
    BY <1>2, <2>1
  <2>4. /\ 1 \in 1..L => h[1] = T[1]
        /\ \A i \in 1..L : i # 1 => h[i] = h[i - 1] \o T[i]
    BY <2>3, FlatsGrow
  <2> QED BY <2>2, <2>4
<1> QED BY <1>0, <1>1, <1>2, <1>3

(* One more member is appended to the result.                              *)
LEMMA FlattenAppend ==
  ASSUME NEW V, NEW S \in Seq(Seq(V)), NEW t \in Seq(V)
  PROVE  FlattenSeq(Append(S, t)) = FlattenSeq(S) \o t
<1>1. CASE S = <<>>
  <2>1. Append(<<>>, t) = <<t>> /\ <<>> \o t = t
    BY ConcatEmptySeq
  <2> QED BY <1>1, <2>1, FlattenEmpty, FlattenOne
<1>2. CASE S # <<>>
  <2>1. Len(S) # 0
    BY <1>2, EmptySeq
  <2> QED BY <2>1, FlattenMore
<1> QED BY <1>1, <1>2

(* The result of flattening is a sequence of the members' elements.        *)
LEMMA FlattenType ==
  ASSUME NEW V
  PROVE  \A S \in Seq(Seq(V)) : FlattenSeq(S) \in Seq(V)
<1> DEFINE Q == {S \in Seq(Seq(V)) : FlattenSeq(S) \in Seq(V)}
<1>1. <<>> \in Q
  <2>1. <<>> \in Seq(Seq(V)) /\ <<>> \in Seq(V)
    BY EmptySeq
  <2> QED BY <2>1, FlattenEmpty, Zenon
<1>2. ASSUME NEW R \in Seq(Seq(V)), NEW t \in Seq(V), R \in Q PROVE Append(R, t) \in Q
  <2>1. FlattenSeq(Append(R, t)) = FlattenSeq(R) \o t
    BY FlattenAppend
  <2>2. FlattenSeq(R) \o t \in Seq(V)
    BY <1>2, ConcatProperties
  <2>3. Append(R, t) \in Seq(Seq(V))
    BY AppendProperties
  <2> QED BY <2>1, <2>2, <2>3, Zenon
<1>3. Seq(Seq(V)) \subseteq Q
  <2> HIDE DEF Q
  <2> QED BY <1>1, <1>2, SeqInduction
<1> QED BY <1>3

(* Flattening commutes with concatenation.                                 *)
LEMMA FlattenConcat ==
  ASSUME NEW V, NEW S \in Seq(Seq(V))
  PROVE  \A T \in Seq(Seq(V)) : FlattenSeq(S \o T) = FlattenSeq(S) \o FlattenSeq(T)
<1> DEFINE Q == {T \in Seq(Seq(V)) : FlattenSeq(S \o T) = FlattenSeq(S) \o FlattenSeq(T)}
<1>0. FlattenSeq(S) \in Seq(V)
  BY FlattenType
<1>1. <<>> \in Q
  <2>1. S \o <<>> = S
    BY ConcatEmptySeq
  <2>2. FlattenSeq(S) \o <<>> = FlattenSeq(S)
    BY <1>0, ConcatEmptySeq
  <2>3. <<>> \in Seq(Seq(V))
    BY EmptySeq
  <2> QED BY <2>1, <2>2, <2>3, FlattenEmpty, Zenon
<1>2. ASSUME NEW R \in Seq(Seq(V)), NEW t \in Seq(V), R \in Q PROVE Append(R, t) \in Q
  <2>1. S \o Append(R, t) = Append(S \o R, t)
    BY ConcatAppend
  <2>2. S \o R \in Seq(Seq(V))
    BY ConcatProperties
  <2>3. FlattenSeq(Append(S \o R, t)) = FlattenSeq(S \o R) \o t
    BY <2>2, FlattenAppend
  <2>4. FlattenSeq(S \o R) = FlattenSeq(S) \o FlattenSeq(R)
    BY <1>2
  <2>5. FlattenSeq(Append(R, t)) = FlattenSeq(R) \o t
    BY FlattenAppend
  <2>6. FlattenSeq(R) \in Seq(V)
    BY FlattenType
  <2>7. (FlattenSeq(S) \o FlattenSeq(R)) \o t = FlattenSeq(S) \o (FlattenSeq(R) \o t)
    BY <1>0, <2>6, ConcatAssociative
  <2>8. FlattenSeq(S \o Append(R, t)) = FlattenSeq(S) \o FlattenSeq(Append(R, t))
    BY <2>1, <2>3, <2>4, <2>5, <2>7, Zenon
  <2>9. Append(R, t) \in Seq(Seq(V))
    BY AppendProperties
  <2> QED BY <2>8, <2>9, Zenon
<1>3. Seq(Seq(V)) \subseteq Q
  <2> HIDE DEF Q
  <2> QED BY <1>1, <1>2, SeqInduction
<1> QED BY <1>3

-----------------------------------------------------------------------------
(* Sequences mapped by a function *)

Image(f, s) == [i \in DOMAIN s |-> f[s[i]]]

(* u is the image of s.                                                    *)
IsImage(u, f, s, Y) ==
  u \in Seq(Y) /\ Len(u) = Len(s) /\ \A i \in 1..Len(s) : u[i] = f[s[i]]

(* The image of a sequence has its length and the images of its elements.  *)
LEMMA ImageType ==
  ASSUME NEW X, NEW Y, NEW f \in [X -> Y], NEW s \in Seq(X)
  PROVE  IsImage(Image(f, s), f, s, Y)
<1>1. PICK L \in Nat : L = Len(s) /\ DOMAIN s = 1..L
  BY LenProperties
<1>2. \A i \in 1..L : s[i] \in X
  BY <1>1, ElementOfSeq
<1>3. Image(f, s) = [i \in 1..L |-> f[s[i]]]
  BY <1>1 DEF Image
<1>4. Image(f, s) \in [1..L -> Y]
  BY <1>2, <1>3
<1>5. Image(f, s) \in Seq(Y) /\ Len(Image(f, s)) = L
  BY <1>4, IsASeq, LenProperties
<1> QED BY <1>1, <1>3, <1>5 DEF IsImage

(* The image of a longer sequence is a longer image.                       *)
LEMMA ImageAppend ==
  ASSUME NEW X, NEW Y, NEW f \in [X -> Y], NEW s \in Seq(X), NEW e \in X
  PROVE  Image(f, Append(s, e)) = Append(Image(f, s), f[e])
<1> DEFINE t == Append(s, e)
           u == Image(f, s)
           w == Image(f, t)
<1>1. /\ t \in Seq(X) /\ Len(t) = Len(s) + 1
      /\ \A i \in 1..Len(s) : t[i] = s[i]
      /\ t[Len(s) + 1] = e
  BY AppendProperties
<1> HIDE DEF t
<1>2. u \in Seq(Y) /\ Len(u) = Len(s) /\ \A i \in 1..Len(s) : u[i] = f[s[i]]
  <2>1. IsImage(u, f, s, Y)
    BY ImageType
  <2> HIDE DEF u
  <2> QED BY <2>1 DEF IsImage
<1> HIDE DEF u
<1>3. w \in Seq(Y) /\ Len(w) = Len(t) /\ \A i \in 1..Len(t) : w[i] = f[t[i]]
  <2>1. IsImage(w, f, t, Y)
    BY <1>1, ImageType
  <2> HIDE DEF w
  <2> QED BY <2>1 DEF IsImage
<1>4. Len(s) \in Nat /\ f[e] \in Y
  BY LenProperties
<1> HIDE DEF w
<1>5. w[Len(w)] = f[e] /\ \A i \in 1..Len(u) : w[i] = u[i]
  BY <1>1, <1>2, <1>3, <1>4
<1>6. w = Append(u, f[e])
  BY <1>1, <1>2, <1>3, <1>4, <1>5, IsAppended
<1> QED BY <1>6 DEF t, u, w

(* The image of the empty sequence is empty.                               *)
LEMMA ImageEmpty == \A f : Image(f, <<>>) = <<>>
<1>1. \A f : Image(f, <<>>) = [i \in 1..0 |-> f[<<>>[i]]]
  BY DEF Image
<1>2. ASSUME NEW f PROVE [i \in 1..0 |-> f[<<>>[i]]] = <<>>
  <2> DEFINE w == [i \in 1..0 |-> f[<<>>[i]]]
  <2>1. w \in [1..0 -> {}]
    OBVIOUS
  <2>2. w \in Seq({}) /\ Len(w) = 0
    <3> HIDE DEF w
    <3> QED BY <2>1, IsASeq, LenProperties
  <2> HIDE DEF w
  <2>3. w = <<>>
    BY <2>2, EmptySeq
  <2> QED BY <2>3 DEF w
<1> QED BY <1>1, <1>2

(* The images of the elements, one behind the other.                       *)
Mapped(f, s) == FlattenSeq(Image(f, s))
Mapper(f, X, V) == f \in [X -> Seq(V)]

(* Nothing is mapped to nothing.                                           *)
LEMMA MappedEmpty == \A f : Mapped(f, <<>>) = <<>>
  BY ImageEmpty, FlattenEmpty, Zenon DEF Mapped

(* The images, joined, are a sequence.                                     *)
LEMMA MappedType ==
  ASSUME NEW X, NEW V, NEW f, Mapper(f, X, V), NEW s \in Seq(X)
  PROVE  Mapped(f, s) \in Seq(V)
<1>m. f \in [X -> Seq(V)]
  BY DEF Mapper
<1>1. Image(f, s) \in Seq(Seq(V))
  BY <1>m, ImageType DEF IsImage
<1> QED BY <1>1, FlattenType DEF Mapped

(* One more element adds its image.                                        *)
LEMMA MappedAppend ==
  ASSUME NEW X, NEW V, NEW f, Mapper(f, X, V), NEW s \in Seq(X), NEW e \in X
  PROVE  Mapped(f, Append(s, e)) = Mapped(f, s) \o f[e]
<1>m. f \in [X -> Seq(V)]
  BY DEF Mapper
<1>1. Image(f, s) \in Seq(Seq(V)) /\ f[e] \in Seq(V)
  BY <1>m, ImageType DEF IsImage
<1>2. Image(f, Append(s, e)) = Append(Image(f, s), f[e])
  BY <1>m, ImageAppend
<1>3. FlattenSeq(Append(Image(f, s), f[e])) = FlattenSeq(Image(f, s)) \o f[e]
  BY <1>1, FlattenAppend
<1> QED BY <1>2, <1>3 DEF Mapped

\* Concatenation is associative, in the shape in which MappedConcat needs it.
LEMMA Regroup ==
  ASSUME NEW V, NEW a, NEW b, NEW c, a \in Seq(V), b \in Seq(V), c \in Seq(V)
  PROVE  (a \o b) \o c = a \o (b \o c)
  BY ConcatAssociative

(* The images of two sequences are those of their concatenation.           *)
LEMMA MappedConcat ==
  ASSUME NEW X, NEW V, NEW f, Mapper(f, X, V), NEW s \in Seq(X), NEW rest \in Seq(X)
  PROVE  Mapped(f, s \o rest) = Mapped(f, s) \o Mapped(f, rest)
<1>m. f \in [X -> Seq(V)]
  BY DEF Mapper
<1> DEFINE Q == {t \in Seq(X) : Mapped(f, s \o t) = Mapped(f, s) \o Mapped(f, t)}
<1>0. Mapped(f, s) \in Seq(V)
  BY MappedType
<1>1. <<>> \in Q
  <2>1. s \o <<>> = s /\ Mapped(f, s) \o <<>> = Mapped(f, s)
    BY <1>0, ConcatEmptySeq
  <2>2. <<>> \in Seq(X)
    BY EmptySeq
  <2> QED BY <2>1, <2>2, MappedEmpty, Zenon
<1>2. ASSUME NEW r \in Seq(X), NEW e \in X, r \in Q PROVE Append(r, e) \in Q
  <2>1. s \o Append(r, e) = Append(s \o r, e)
    BY ConcatAppend
  <2>2. s \o r \in Seq(X)
    BY ConcatProperties
  <2>3. Mapped(f, Append(s \o r, e)) = Mapped(f, s \o r) \o f[e]
    <3>1. PICK u : u = s \o r
      OBVIOUS
    <3>2. u \in Seq(X)
      BY <2>2, <3>1
    <3>3. Mapped(f, Append(u, e)) = Mapped(f, u) \o f[e]
      BY <3>2, MappedAppend
    <3> QED BY <3>1, <3>3
  <2>4. Mapped(f, s \o r) = Mapped(f, s) \o Mapped(f, r)
    BY <1>2
  <2>5. Mapped(f, Append(r, e)) = Mapped(f, r) \o f[e]
    BY MappedAppend
  <2>6. Mapped(f, r) \in Seq(V) /\ f[e] \in Seq(V)
    BY <1>m, MappedType
  <2>7. (Mapped(f, s) \o Mapped(f, r)) \o f[e] = Mapped(f, s) \o (Mapped(f, r) \o f[e])
    <3>1. PICK a, b, c : a = Mapped(f, s) /\ b = Mapped(f, r) /\ c = f[e]
      OBVIOUS
    <3>2. a \in Seq(V)
      BY <1>0, <3>1
    <3>3. b \in Seq(V)
      BY <2>6, <3>1
    <3>4. c \in Seq(V)
      BY <2>6, <3>1
    <3>5. (a \o b) \o c = a \o (b \o c)
      BY <3>2, <3>3, <3>4, Regroup
    <3> QED BY <3>1, <3>5, Zenon
  <2>8. Mapped(f, s \o Append(r, e)) = Mapped(f, s) \o Mapped(f, Append(r, e))
    BY <2>1, <2>3, <2>4, <2>5, <2>7, Zenon
  <2>9. Append(r, e) \in Seq(X)
    BY AppendProperties
  <2> QED BY <2>8, <2>9, Zenon
<1>3. Seq(X) \subseteq Q
  <2> HIDE DEF Q
  <2> QED BY <1>1, <1>2, SeqInduction
<1> QED BY <1>3

-----------------------------------------------------------------------------
(* Folds of sequences.  F is a function of an accumulator and an element.  *)

Steps(g, F, base, s) ==
  g = [t \in SUBSET DOMAIN s |->
         IF t = {} THEN base ELSE F[<<g[t \ {Max(t)}], s[Max(t)]>>]]

(* A step takes an accumulator in A and an element of X to one in A.        *)
Folder(F, A, X, base) == base \in A /\ F \in [A \X X -> A]

Folded(F, base, s) == (CHOOSE g : Steps(g, F, base, s))[DOMAIN s]

(* h[n] is the accumulator after the first n elements.                     *)
Run(h, F, base, s) == h[0] = base /\ \A n \in 1..Len(s) : h[n] = F[<<h[n - 1], s[n]>>]

Reaches(v, A, F, base, s) ==
  \E h \in [0..Len(s) -> A] : Run(h, F, base, s) /\ h[Len(s)] = v

(* The recursion behind a fold has a solution.                             *)
LEMMA StepsExist ==
  ASSUME NEW A, NEW X, NEW F, NEW base, Folder(F, A, X, base), NEW s \in Seq(X)
  PROVE  \E g \in [SUBSET DOMAIN s -> A] : Steps(g, F, base, s)
<1>f. base \in A /\ F \in [A \X X -> A]
  BY DEF Folder
<1>1. PICK L \in Nat : L = Len(s) /\ DOMAIN s = 1..L
  BY LenProperties
<1>2. \A i \in 1..L : s[i] \in X
  BY <1>1, ElementOfSeq
<1> DEFINE G == [p \in A \X (1..L) |-> F[<<p[1], s[p[2]]>>]]
<1>3. G \in [A \X (1..L) -> A]
  <2>1. ASSUME NEW p \in A \X (1..L) PROVE F[<<p[1], s[p[2]]>>] \in A
    <3>1. <<p[1], s[p[2]]>> \in A \X X
      BY <1>2
    <3> QED BY <1>f, <3>1
  <2> QED BY <2>1
<1>4. \A a \in A, i \in 1..L : G[<<a, i>>] = F[<<a, s[i]>>]
  OBVIOUS
<1> HIDE DEF G
<1>5. PICK g \in [SUBSET (1..L) -> A] : FoldOf(g, G, base, 1..L)
  BY <1>f, <1>3, FoldsExist
<1>6. ASSUME NEW t \in SUBSET (1..L), t # {}
      PROVE  g[t] = F[<<g[t \ {Max(t)}], s[Max(t)]>>]
  <2>1. Max(t) \in 1..L
    BY <1>6, MaxIsGreatest
  <2>2. g[t \ {Max(t)}] \in A
    OBVIOUS
  <2>3. g[t] = G[<<g[t \ {Max(t)}], Max(t)>>]
    BY <1>5, <1>6 DEF FoldOf
  <2> QED BY <1>4, <2>1, <2>2, <2>3
<1>7. g[{}] = base
  BY <1>5 DEF FoldOf
<1>8. \A t \in SUBSET (1..L) :
        g[t] = IF t = {} THEN base ELSE F[<<g[t \ {Max(t)}], s[Max(t)]>>]
  BY <1>6, <1>7
<1>9. g = [t \in SUBSET (1..L) |->
             IF t = {} THEN base ELSE F[<<g[t \ {Max(t)}], s[Max(t)]>>]]
  BY <1>8
<1>10. Steps(g, F, base, s)
  BY <1>1, <1>9 DEF Steps
<1> QED BY <1>1, <1>10

(* A function on sets of indices that follows F along the prefixes.        *)
Follows(g, A, F, base, s) ==
  /\ g[{}] = base
  /\ \A n \in 1..Len(s) : g[1..(n - 1)] \in A => g[1..n] = F[<<g[1..(n - 1)], s[n]>>]

(* Its values on the prefixes are a run.                                   *)
LEMMA FollowsRuns ==
  ASSUME NEW A, NEW X, NEW F, NEW base, Folder(F, A, X, base), NEW s \in Seq(X),
         NEW g, Follows(g, A, F, base, s)
  PROVE  Reaches(g[DOMAIN s], A, F, base, s)
<1>f. base \in A /\ F \in [A \X X -> A]
  BY DEF Folder
<1>1. PICK L \in Nat : L = Len(s) /\ DOMAIN s = 1..L
  BY LenProperties
<1>2. \A i \in 1..L : s[i] \in X
  BY <1>1, ElementOfSeq
<1> DEFINE h == [n \in 0..L |-> g[1..n]]
           S == {n \in Nat : n <= L => g[1..n] \in A}
<1>3. g[1..0] = base
  <2>1. 1..0 = {}
    OBVIOUS
  <2> QED BY <2>1 DEF Follows
<1>4. \A n \in 1..L : g[1..(n - 1)] \in A => g[1..n] = F[<<g[1..(n - 1)], s[n]>>]
  BY <1>1 DEF Follows
<1>5. 0 \in S
  BY <1>f, <1>3
<1>6. ASSUME NEW n \in Nat, n \in S PROVE n + 1 \in S
  <2> SUFFICES ASSUME n + 1 <= L PROVE g[1..(n + 1)] \in A
    OBVIOUS
  <2>1. n + 1 \in 1..L /\ (n + 1) - 1 = n /\ g[1..n] \in A
    BY <1>6
  <2>2. g[1..(n + 1)] = F[<<g[1..n], s[n + 1]>>]
    BY <1>4, <2>1
  <2> QED BY <1>f, <1>2, <2>1, <2>2
<1>7. Nat \subseteq S
  <2> HIDE DEF S
  <2> QED BY <1>5, <1>6, SetInduction
<1>8. \A n \in 0..L : g[1..n] \in A
  BY <1>7
<1>9. h \in [0..L -> A]
  BY <1>8
<1>10. h[0] = base
  BY <1>3
<1>11. \A n \in 1..L : h[n] = F[<<h[n - 1], s[n]>>]
  <2>1. ASSUME NEW n \in 1..L PROVE h[n] = F[<<h[n - 1], s[n]>>]
    <3>1. n - 1 \in 0..L /\ n \in 0..L
      OBVIOUS
    <3>2. h[n] = g[1..n] /\ h[n - 1] = g[1..(n - 1)]
      BY <3>1
    <3>3. g[1..(n - 1)] \in A
      BY <1>8, <3>1
    <3> QED BY <1>4, <3>2, <3>3
  <2> QED BY <2>1
<1>12. h[L] = g[DOMAIN s]
  BY <1>1
<1> HIDE DEF h
<1>13. Run(h, F, base, s)
  BY <1>1, <1>10, <1>11 DEF Run
<1> QED BY <1>1, <1>9, <1>12, <1>13 DEF Reaches

(* s is a beginning of t.                                                  *)
Shorter(s, t, L, M) ==
  L \in Nat /\ M \in Nat /\ L <= M /\ Len(s) = L /\ Len(t) = M /\ Agree(s, t, L)

(* Runs over sequences that agree up to L agree up to L.                   *)
LEMMA RunsAgree ==
  ASSUME NEW F, NEW base, NEW s, NEW t, NEW L, NEW M, Shorter(s, t, L, M),
         NEW g, Run(g, F, base, s), NEW h, Run(h, F, base, t)
  PROVE  g[L] = h[L]
<1>0. L \in Nat /\ M \in Nat /\ L <= M /\ Len(s) = L /\ Len(t) = M /\ Agree(s, t, L)
  BY DEF Shorter
<1> DEFINE S == {n \in Nat : n <= L => g[n] = h[n]}
<1>1. g[0] = base /\ h[0] = base
  BY DEF Run
<1>2. \A n \in 1..L : g[n] = F[<<g[n - 1], s[n]>>]
  BY <1>0 DEF Run
<1>3. \A n \in 1..M : h[n] = F[<<h[n - 1], t[n]>>]
  BY <1>0 DEF Run
<1>4. 0 \in S
  BY <1>1
<1>5. ASSUME NEW n \in Nat, n \in S PROVE n + 1 \in S
  <2> SUFFICES ASSUME n + 1 <= L PROVE g[n + 1] = h[n + 1]
    OBVIOUS
  <2>1. n + 1 \in 1..L /\ n + 1 \in 1..M /\ (n + 1) - 1 = n /\ g[n] = h[n]
    BY <1>0, <1>5
  <2>2. s[n + 1] = t[n + 1]
    BY <1>0, <2>1 DEF Agree
  <2>3. g[n + 1] = F[<<g[n], s[n + 1]>>] /\ h[n + 1] = F[<<h[n], t[n + 1]>>]
    BY <1>2, <1>3, <2>1
  <2> QED BY <2>1, <2>2, <2>3
<1>6. Nat \subseteq S
  <2> HIDE DEF S
  <2> QED BY <1>4, <1>5, SetInduction
<1> QED BY <1>0, <1>6

(* A fold is the end of a run.                                             *)
LEMMA FoldRuns ==
  ASSUME NEW A, NEW X, NEW F, NEW base, Folder(F, A, X, base), NEW s \in Seq(X)
  PROVE  Reaches(Folded(F, base, s), A, F, base, s)
<1> DEFINE g == CHOOSE g : Steps(g, F, base, s)
<1>1. \E f : Steps(f, F, base, s)
  BY StepsExist
<1>2. Steps(g, F, base, s)
  BY <1>1
<1>3. Folded(F, base, s) = g[DOMAIN s]
  BY DEF Folded
<1> HIDE DEF g
<1>4. PICK L \in Nat : L = Len(s) /\ DOMAIN s = 1..L
  BY LenProperties
<1>5. \A t \in SUBSET (1..L) :
        g[t] = IF t = {} THEN base ELSE F[<<g[t \ {Max(t)}], s[Max(t)]>>]
  <2>1. g = [t \in SUBSET (1..L) |->
             IF t = {} THEN base ELSE F[<<g[t \ {Max(t)}], s[Max(t)]>>]]
    BY <1>2, <1>4, Zenon DEF Steps
  <2> QED BY <2>1, Zenon
<1>6. ASSUME NEW n \in 1..L PROVE g[1..n] = F[<<g[1..(n - 1)], s[n]>>]
  <2>1. PICK P : P = 1..n
    OBVIOUS
  <2>2. P \in SUBSET (1..L) /\ P # {} /\ Max(P) = n /\ P \ {n} = 1..(n - 1)
    BY <2>1, PrefixTop
  <2>3. g[P] = F[<<g[P \ {Max(P)}], s[Max(P)]>>]
    BY <1>5, <2>2, Zenon
  <2> QED BY <2>1, <2>2, <2>3, Zenon
<1>7. g[{}] = base
  BY <1>5
<1>8. Follows(g, A, F, base, s)
  BY <1>4, <1>6, <1>7 DEF Follows
<1> QED BY <1>3, <1>8, FollowsRuns

(* What follows F ends with the fold.                                      *)
LEMMA FoldedIs ==
  ASSUME NEW A, NEW X, NEW F, NEW base, Folder(F, A, X, base), NEW s \in Seq(X),
         NEW g, Follows(g, A, F, base, s)
  PROVE  g[DOMAIN s] = Folded(F, base, s)
<1>1. PICK h : Run(h, F, base, s) /\ h[Len(s)] = Folded(F, base, s)
  <2>1. Reaches(Folded(F, base, s), A, F, base, s)
    BY FoldRuns
  <2> QED BY <2>1 DEF Reaches
<1>2. PICK f : Run(f, F, base, s) /\ f[Len(s)] = g[DOMAIN s]
  <2>1. Reaches(g[DOMAIN s], A, F, base, s)
    BY FollowsRuns
  <2> QED BY <2>1 DEF Reaches
<1>3. PICK L \in Nat : L = Len(s)
  BY LenProperties
<1>4. Shorter(s, s, L, L)
  BY <1>3 DEF Agree, Shorter
<1>5. Run(h, F, base, s) /\ Run(f, F, base, s)
  BY <1>1, <1>2
<1>6. f[L] = h[L]
  BY <1>4, <1>5, RunsAgree
<1> QED BY <1>1, <1>2, <1>3, <1>6

(* A fold ends in an accumulator, ...                                      *)
LEMMA FoldedType ==
  ASSUME NEW A, NEW X, NEW F, NEW base, Folder(F, A, X, base), NEW s \in Seq(X)
  PROVE  Folded(F, base, s) \in A
<1>1. PICK h \in [0..Len(s) -> A] : h[Len(s)] = Folded(F, base, s)
  <2>1. Reaches(Folded(F, base, s), A, F, base, s)
    BY FoldRuns
  <2> QED BY <2>1 DEF Reaches
<1>2. Len(s) \in 0..Len(s)
  BY LenProperties
<1> QED BY <1>1, <1>2

(* ... over nothing in the first one.                                      *)
LEMMA FoldedEmpty ==
  ASSUME NEW A, NEW X, NEW F, NEW base, Folder(F, A, X, base)
  PROVE  Folded(F, base, <<>>) = base
<1>1. <<>> \in Seq(X) /\ Len(<<>>) = 0
  BY EmptySeq
<1>2. PICK s : s = <<>>
  OBVIOUS
<1>3. Reaches(Folded(F, base, s), A, F, base, s)
  BY <1>1, <1>2, FoldRuns
<1>4. PICK h : Run(h, F, base, s) /\ h[Len(s)] = Folded(F, base, s)
  BY <1>3 DEF Reaches
<1> QED BY <1>1, <1>2, <1>4 DEF Run

(* A further element takes a further step.                                 *)
LEMMA FoldedAppend ==
  ASSUME NEW A, NEW X, NEW F, NEW base, Folder(F, A, X, base), NEW s \in Seq(X), NEW e \in X
  PROVE  Folded(F, base, Append(s, e)) = F[<<Folded(F, base, s), e>>]
<1>0. PICK t : t = Append(s, e)
  OBVIOUS
<1>1. PICK L, M : L = Len(s) /\ M = Len(t)
  OBVIOUS
<1>2. /\ t \in Seq(X) /\ L \in Nat /\ M \in Nat /\ M = L + 1 /\ t[M] = e
      /\ \A i \in 1..L : s[i] = t[i]
  BY <1>0, <1>1, AppendProperties, LenProperties
<1>3. PICK g : Run(g, F, base, s) /\ g[L] = Folded(F, base, s)
  <2>1. Reaches(Folded(F, base, s), A, F, base, s)
    BY FoldRuns
  <2> QED BY <1>1, <2>1 DEF Reaches
<1>4. PICK h : Run(h, F, base, t) /\ h[M] = Folded(F, base, t)
  <2>1. Reaches(Folded(F, base, t), A, F, base, t)
    BY <1>2, FoldRuns
  <2> QED BY <1>1, <2>1 DEF Reaches
<1>5. g[L] = h[L]
  <2>1. Shorter(s, t, L, M)
    BY <1>1, <1>2 DEF Agree, Shorter
  <2>2. Run(g, F, base, s) /\ Run(h, F, base, t)
    BY <1>3, <1>4
  <2> QED BY <2>1, <2>2, RunsAgree
<1>6. h[M] = F[<<h[M - 1], t[M]>>] /\ M - 1 = L
  BY <1>1, <1>2, <1>4 DEF Run
<1> QED BY <1>0, <1>2, <1>3, <1>4, <1>5, <1>6, Zenon

(* g takes a step of F wherever the accumulator is one.                    *)
Solves(g, A, F, base, s) ==
  /\ g[{}] = base
  /\ \A t \in SUBSET DOMAIN s :
       t # {} /\ g[t \ {Max(t)}] \in A => g[t] = F[<<g[t \ {Max(t)}], s[Max(t)]>>]

(* What solves the recursion of a fold is the fold.                        *)
LEMMA SolvesFold ==
  ASSUME NEW A, NEW X, NEW F, NEW base, Folder(F, A, X, base), NEW s \in Seq(X),
         NEW g, Solves(g, A, F, base, s)
  PROVE  g[DOMAIN s] = Folded(F, base, s)
<1>1. PICK L \in Nat : L = Len(s) /\ DOMAIN s = 1..L
  BY LenProperties
<1>2. ASSUME NEW n \in 1..L, g[1..(n - 1)] \in A
      PROVE  g[1..n] = F[<<g[1..(n - 1)], s[n]>>]
  <2>1. PICK P : P = 1..n
    OBVIOUS
  <2>2. P \in SUBSET (1..L) /\ P # {} /\ Max(P) = n /\ P \ {n} = 1..(n - 1)
    BY <2>1, PrefixTop
  <2>3. g[P] = F[<<g[P \ {Max(P)}], s[Max(P)]>>]
    BY <1>1, <1>2, <2>2, Zenon DEF Solves
  <2> QED BY <2>1, <2>2, <2>3, Zenon
<1>3. Follows(g, A, F, base, s)
  BY <1>1, <1>2 DEF Follows, Solves
<1> QED BY <1>3, FoldedIs

(* The greatest index of a part of a sequence is an index of it.           *)
LEMMA TopElement ==
  ASSUME NEW X, NEW s \in Seq(X), NEW t \in SUBSET DOMAIN s, t # {}
  PROVE  s[Max(t)] \in X /\ t \ {Max(t)} \in SUBSET DOMAIN s
<1>1. PICK L \in Nat : L = Len(s) /\ DOMAIN s = 1..L
  BY LenProperties
<1>2. Max(t) \in 1..L
  BY <1>1, MaxIsGreatest
<1> QED BY <1>1, <1>2, ElementOfSeq

=============================================================================
