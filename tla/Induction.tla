------------------------------ MODULE Induction ------------------------------
(***************************************************************************)
(* Induction for the proofs about sums.  The induction theorems of the     *)
(* library take an operator; here the claim is a set, so that every        *)
(* backend can use it.                                                     *)
(***************************************************************************)
EXTENDS Integers, FiniteSetTheorems, WellFoundedInduction, TLAPS

(* A set that holds 0 and, with a number, its successor, holds every one.  *)
LEMMA SetInduction ==
  ASSUME NEW S, 0 \in S, \A n \in Nat : n \in S => n + 1 \in S
  PROVE  Nat \subseteq S
<1> DEFINE T == Nat \ S
           R == {pair \in Nat \X Nat : pair[1] < pair[2]}
<1> SUFFICES ASSUME T # {} PROVE FALSE
  OBVIOUS
<1>1. IsWellFoundedOn(R, Nat)
  BY NatLessThanWellFounded DEF OpToRel
<1>2. T \subseteq Nat
  OBVIOUS
<1>3. \E x \in T : \A y \in T : ~(<<y, x>> \in R)
  <2> HIDE DEF T, R
  <2> QED BY <1>1, <1>2, WFMin
<1>4. PICK x \in T : \A y \in T : ~(<<y, x>> \in R)
  BY <1>3
<1>5. \A y \in Nat : y < x => <<y, x>> \in R
  OBVIOUS
<1>6. x # 0 /\ x - 1 \in Nat /\ x - 1 < x
  OBVIOUS
<1>7. x - 1 \in S
  BY <1>4, <1>5, <1>6
<1>8. QED
  BY <1>6, <1>7

(* g holds the running totals of the first L numbers of v.                 *)
Totals(g, v, L) == g = [n \in 0..L |-> IF n = 0 THEN 0 ELSE g[n - 1] + v[n]]

(* The running totals of a sequence of numbers exist: the recursion that   *)
(* defines them has a solution.                                            *)
LEMMA TotalsExist ==
  ASSUME NEW v, NEW L \in Nat, \A i \in 1..L : v[i] \in Nat
  PROVE  \E g : Totals(g, v, L)
<1> DEFINE Sol(n, g) == g \in [0..n -> Nat] /\ g[0] = 0 /\ \A m \in 1..n : g[m] = g[m - 1] + v[m]
           S == {n \in Nat : n <= L => \E g : Sol(n, g)}
<1>1. 0 \in S
  <2> Sol(0, [m \in 0..0 |-> 0])
    OBVIOUS
  <2> QED OBVIOUS
<1>2. ASSUME NEW n \in Nat, n \in S PROVE n + 1 \in S
  <2> SUFFICES ASSUME n + 1 <= L PROVE \E g : Sol(n + 1, g)
    OBVIOUS
  <2>1. PICK g : Sol(n, g)
    BY <1>2
  <2> DEFINE h == [m \in 0..n + 1 |-> IF m = n + 1 THEN g[n] + v[n + 1] ELSE g[m]]
  <2>2. h \in [0..n + 1 -> Nat]
    BY <2>1
  <2>3. h[0] = 0
    BY <2>1
  <2>4. ASSUME NEW m \in 1..n + 1 PROVE h[m] = h[m - 1] + v[m]
    <3>1. h[m - 1] = g[m - 1]
      OBVIOUS
    <3>2. CASE m = n + 1
      BY <3>1, <3>2
    <3>3. CASE m # n + 1
      <4>1. m \in 1..n
        BY <3>3
      <4> QED BY <2>1, <3>1, <3>3, <4>1
    <3> QED BY <3>2, <3>3
  <2> QED BY <2>2, <2>3, <2>4
<1>3. L \in S
  <2> HIDE DEF S
  <2> QED BY <1>1, <1>2, SetInduction
<1>4. PICK g : Sol(L, g)
  <2>1. L \in {n \in Nat : n <= L => \E g : Sol(n, g)}
    BY <1>3
  <2> HIDE DEF Sol
  <2> QED BY <2>1
<1>5. Totals(g, v, L)
  BY <1>4 DEF Totals
<1> QED BY <1>5

(* How running totals grow.                                                *)
LEMMA TotalsGrow ==
  ASSUME NEW v, NEW L \in Nat, NEW g, Totals(g, v, L)
  PROVE  g[0] = 0 /\ \A n \in 1..L : g[n] = g[n - 1] + v[n]
<1>1. g[0] = 0
  BY DEF Totals
<1>2. ASSUME NEW n \in 1..L PROVE g[n] = g[n - 1] + v[n]
  <2>1. n \in 0..L /\ n # 0
    OBVIOUS
  <2> QED BY <2>1 DEF Totals
<1> QED BY <1>1, <1>2

(* Running totals are natural numbers.                                     *)
LEMMA TotalsType ==
  ASSUME NEW v, NEW L \in Nat, \A i \in 1..L : v[i] \in Nat, NEW g, Totals(g, v, L)
  PROVE  \A n \in 0..L : g[n] \in Nat
<1> DEFINE S == {n \in Nat : n <= L => g[n] \in Nat}
<1>1. g[0] = 0 /\ \A n \in 1..L : g[n] = g[n - 1] + v[n]
  BY TotalsGrow
<1>2. 0 \in S
  BY <1>1
<1>3. ASSUME NEW n \in Nat, n \in S PROVE n + 1 \in S
  <2> SUFFICES ASSUME n + 1 <= L PROVE g[n + 1] \in Nat
    OBVIOUS
  <2>1. n + 1 \in 1..L /\ g[n] \in Nat
    BY <1>3
  <2> QED BY <1>1, <2>1
<1>4. Nat \subseteq S
  <2> HIDE DEF S
  <2> QED BY <1>2, <1>3, SetInduction
<1> QED BY <1>4

(* v and w begin with the same L numbers.                                  *)
Agree(v, w, L) == \A i \in 1..L : v[i] = w[i]

(* w are the L numbers that follow the first of v.                         *)
Rest(w, v, L) == \A i \in 1..L : w[i] = v[i + 1]

(* Totals of the same numbers are the same.                                *)
LEMMA TotalsAgree ==
  ASSUME NEW v, NEW w, NEW L \in Nat, NEW M \in Nat, L <= M, Agree(v, w, L),
         NEW g, Totals(g, v, L), NEW h, Totals(h, w, M)
  PROVE  \A n \in 0..L : g[n] = h[n]
<1> DEFINE S == {n \in Nat : n <= L => g[n] = h[n]}
<1>1. /\ g[0] = 0 /\ \A n \in 1..L : g[n] = g[n - 1] + v[n]
      /\ h[0] = 0 /\ \A n \in 1..M : h[n] = h[n - 1] + w[n]
  BY TotalsGrow
<1>2. 0 \in S
  BY <1>1
<1>3. ASSUME NEW n \in Nat, n \in S PROVE n + 1 \in S
  <2> SUFFICES ASSUME n + 1 <= L PROVE g[n + 1] = h[n + 1]
    OBVIOUS
  <2>1. n + 1 \in 1..L /\ n + 1 \in 1..M /\ (n + 1) - 1 = n /\ g[n] = h[n]
    BY <1>3
  <2> QED BY <1>1, <2>1 DEF Agree
<1>4. Nat \subseteq S
  <2> HIDE DEF S
  <2> QED BY <1>2, <1>3, SetInduction
<1> QED BY <1>4

(* Totals without the first number are smaller by that number.             *)
LEMMA TotalsTail ==
  ASSUME NEW v, NEW w, NEW L \in Nat, NEW M \in Nat, M = L + 1,
         \A i \in 1..M : v[i] \in Nat, Rest(w, v, L),
         NEW g, Totals(g, v, M), NEW h, Totals(h, w, L)
  PROVE  \A n \in 0..L : g[n + 1] = v[1] + h[n]
<1> DEFINE S == {n \in Nat : n <= L => g[n + 1] = v[1] + h[n]}
<1>1. /\ g[0] = 0 /\ \A n \in 1..M : g[n] = g[n - 1] + v[n]
      /\ h[0] = 0 /\ \A n \in 1..L : h[n] = h[n - 1] + w[n]
  <2>1. g[0] = 0 /\ \A n \in 1..M : g[n] = g[n - 1] + v[n]
    BY TotalsGrow
  <2>2. h[0] = 0 /\ \A n \in 1..L : h[n] = h[n - 1] + w[n]
    BY TotalsGrow
  <2> QED BY <2>1, <2>2
<1>2. ASSUME NEW i \in 1..L PROVE w[i] \in Nat /\ w[i] = v[i + 1]
  <2>1. i + 1 \in 1..M
    OBVIOUS
  <2> QED BY <2>1 DEF Rest
<1>3. \A n \in 0..L : h[n] \in Nat
  BY <1>2, TotalsType
<1>4. v[1] \in Nat
  OBVIOUS
<1>5. 0 \in S
  <2>1. 1 \in 1..M /\ 1 - 1 = 0
    OBVIOUS
  <2> QED BY <1>1, <1>4, <2>1
<1>6. ASSUME NEW n \in Nat, n \in S PROVE n + 1 \in S
  <2> SUFFICES ASSUME n + 1 <= L PROVE g[(n + 1) + 1] = v[1] + h[n + 1]
    OBVIOUS
  <2>1. /\ n + 2 \in 1..M /\ (n + 2) - 1 = n + 1 /\ (n + 1) + 1 = n + 2
        /\ n + 1 \in 1..L /\ (n + 1) - 1 = n /\ n \in 0..L
    OBVIOUS
  <2>2. g[n + 1] = v[1] + h[n]
    BY <1>6, <2>1
  <2>3. g[n + 2] = g[n + 1] + v[n + 2]
    BY <1>1, <2>1
  <2>4. h[n + 1] = h[n] + v[n + 2] /\ v[n + 2] \in Nat
    BY <1>1, <1>2, <2>1
  <2>5. h[n] \in Nat
    BY <1>3, <2>1
  <2> QED BY <1>4, <2>1, <2>2, <2>3, <2>4, <2>5
<1>7. Nat \subseteq S
  <2> HIDE DEF S
  <2> QED BY <1>5, <1>6, SetInduction
<1> QED BY <1>7

-----------------------------------------------------------------------------
(* Sums over finite sets *)

Chosen(s) == CHOOSE x \in s : TRUE

(* g[s] is the sum of the weights w of the members of s, taken in whatever *)
(* order CHOOSE gives: what MapThenSumSet computes on the subsets of T.    *)
SubsetSums(g, w, T) ==
    g = [s \in SUBSET T |-> IF s = {} THEN 0
                                      ELSE w[Chosen(s)] + g[s \ {Chosen(s)}]]

(* A finite set without one of its members has one member fewer.           *)
LEMMA OneFewer ==
  ASSUME NEW T, IsFiniteSet(T), NEW s \in SUBSET T, NEW x \in s
  PROVE  /\ Cardinality(s) \in Nat
         /\ Cardinality(s \ {x}) = Cardinality(s) - 1
         /\ Cardinality(s \ {x}) \in Nat
         /\ Cardinality(s) # 0
<1>1. IsFiniteSet(s)
  BY FS_Subset
<1>2. IsFiniteSet(s \ {x}) /\ Cardinality(s \ {x}) = Cardinality(s) - 1
  BY <1>1, FS_RemoveElement
<1>3. Cardinality(s) \in Nat /\ Cardinality(s \ {x}) \in Nat
  BY <1>1, <1>2, FS_CardinalityType
<1> QED BY <1>2, <1>3

(* CHOOSE takes a member of a set that has one.                            *)
LEMMA ChosenMember == \A s : s # {} => Chosen(s) \in s
  BY DEF Chosen

(* The recursion has a solution on the subsets of a finite set.            *)
LEMMA SumsExist ==
  ASSUME NEW T, IsFiniteSet(T), NEW w, \A x \in T : w[x] \in Nat
  PROVE  \E g : SubsetSums(g, w, T)
<1> DEFINE Small(n) == {s \in SUBSET T : Cardinality(s) <= n}
           Sol(n, g) == /\ g \in [Small(n) -> Nat]
                        /\ g[{}] = 0
                        /\ \A s \in Small(n) :
                             s # {} => g[s] = w[Chosen(s)] + g[s \ {Chosen(s)}]
           S == {n \in Nat : \E g : Sol(n, g)}
<1>1. {} \in SUBSET T /\ Cardinality({}) = 0
  BY FS_EmptySet
<1>2. ASSUME NEW s \in SUBSET T PROVE Cardinality(s) \in Nat /\ (Cardinality(s) = 0 => s = {})
  <2>1. IsFiniteSet(s)
    BY FS_Subset
  <2> QED BY <2>1, FS_CardinalityType, FS_EmptySet
<1>3. ASSUME NEW s \in SUBSET T, s # {}
      PROVE  /\ Chosen(s) \in s /\ Chosen(s) \in T
             /\ s \ {Chosen(s)} \in SUBSET T
             /\ Cardinality(s \ {Chosen(s)}) = Cardinality(s) - 1
  <2>1. Chosen(s) \in s
    BY <1>3, ChosenMember
  <2> QED BY <2>1, OneFewer
<1>4. 0 \in S
  <2> DEFINE g == [s \in Small(0) |-> 0]
  <2>1. \A s \in Small(0) : s = {}
    BY <1>2
  <2>2. {} \in Small(0)
    BY <1>1
  <2>3. Sol(0, g)
    BY <2>1, <2>2
  <2> QED BY <2>3
<1>5. ASSUME NEW n \in Nat, n \in S PROVE n + 1 \in S
  <2>1. PICK g : Sol(n, g)
    BY <1>5
  <2> DEFINE h == [s \in Small(n + 1) |->
                     IF Cardinality(s) <= n THEN g[s]
                                            ELSE w[Chosen(s)] + g[s \ {Chosen(s)}]]
  <2>2. ASSUME NEW s \in Small(n + 1), s # {}
        PROVE  s \ {Chosen(s)} \in Small(n)
    BY <1>2, <1>3, <2>2
  <2>3. {} \in Small(n + 1) /\ {} \in Small(n)
    BY <1>1
  <2>4. ASSUME NEW s \in Small(n + 1), ~(Cardinality(s) <= n) PROVE s # {}
    BY <1>1, <2>4
  <2>5. ASSUME NEW s \in Small(n) PROVE s \in Small(n + 1)
    BY <1>2
  <2>6. h \in [Small(n + 1) -> Nat]
    <3>1. ASSUME NEW s \in Small(n + 1) PROVE h[s] \in Nat
      <4>1. CASE Cardinality(s) <= n
        BY <2>1, <4>1
      <4>2. CASE ~(Cardinality(s) <= n)
        <5>1. s # {} /\ s \in SUBSET T
          BY <2>4, <4>2
        <5>2. w[Chosen(s)] \in Nat
          BY <1>3, <5>1
        <5>3. g[s \ {Chosen(s)}] \in Nat
          BY <2>1, <2>2, <5>1
        <5> QED BY <4>2, <5>2, <5>3
      <4> QED BY <4>1, <4>2
    <3> QED BY <3>1
  <2>7. h[{}] = 0
    BY <1>1, <2>1, <2>3
  <2>8. ASSUME NEW s \in Small(n + 1), s # {}
        PROVE  h[s] = w[Chosen(s)] + h[s \ {Chosen(s)}]
    <3>1. s \ {Chosen(s)} \in Small(n) /\ s \ {Chosen(s)} \in Small(n + 1)
      BY <2>2, <2>5, <2>8
    <3>2. h[s \ {Chosen(s)}] = g[s \ {Chosen(s)}]
      BY <3>1
    <3>3. CASE Cardinality(s) <= n
      <4>1. s \in Small(n) /\ h[s] = g[s]
        BY <3>3
      <4> QED BY <2>1, <2>8, <3>2, <4>1
    <3>4. CASE ~(Cardinality(s) <= n)
      BY <3>2, <3>4
    <3> QED BY <3>3, <3>4
  <2>9. Sol(n + 1, h)
    BY <2>6, <2>7, <2>8
  <2> QED
    <3> HIDE DEF Sol, h
    <3> QED BY <2>9
<1> DEFINE N == Cardinality(T)
<1>6. N \in Nat /\ N \in S
  <2>1. Cardinality(T) \in Nat
    BY FS_CardinalityType
  <2> HIDE DEF S
  <2> QED BY <1>4, <1>5, <2>1, SetInduction
<1>7. PICK g : Sol(N, g)
  <2> HIDE DEF Sol, N
  <2> QED BY <1>6
<1>8. Small(N) = SUBSET T
  BY FS_Subset
<1>9. SubsetSums(g, w, T)
  <2> HIDE DEF Small, N
  <2>1. /\ g \in [SUBSET T -> Nat] /\ g[{}] = 0
        /\ \A s \in SUBSET T : s # {} => g[s] = w[Chosen(s)] + g[s \ {Chosen(s)}]
    BY <1>7, <1>8
  <2> QED BY <2>1 DEF SubsetSums
<1> QED BY <1>9

(* Any member of s may be taken first.                                     *)
AnyFirst(g, w, s) == g[s] \in Nat /\ \A x \in s : g[s] = w[x] + g[s \ {x}]

(* The sum does not depend on the order in which members are taken.        *)
LEMMA SumsAnyOrder ==
  ASSUME NEW T, IsFiniteSet(T), NEW w, \A x \in T : w[x] \in Nat, NEW g, SubsetSums(g, w, T)
  PROVE  g[{}] = 0 /\ \A s \in SUBSET T : AnyFirst(g, w, s)
<1> DEFINE S == {n \in Nat : \A s \in SUBSET T : Cardinality(s) <= n => AnyFirst(g, w, s)}
<1>1. g[{}] = 0
  BY DEF SubsetSums
<1>2. \A s \in SUBSET T : s # {} => g[s] = w[Chosen(s)] + g[s \ {Chosen(s)}]
  BY DEF SubsetSums
<1>3. \A s \in SUBSET T : IsFiniteSet(s) /\ Cardinality(s) \in Nat
  BY FS_Subset, FS_CardinalityType
<1>4. 0 \in S
  <2>1. ASSUME NEW s \in SUBSET T, Cardinality(s) <= 0 PROVE AnyFirst(g, w, s)
    <3>1. s = {}
      BY <1>3, <2>1, FS_EmptySet
    <3> QED BY <1>1, <3>1 DEF AnyFirst
  <2> QED BY <2>1
<1>5. ASSUME NEW n \in Nat, n \in S PROVE n + 1 \in S
  <2> SUFFICES ASSUME NEW s \in SUBSET T, Cardinality(s) = n + 1 PROVE AnyFirst(g, w, s)
    BY <1>3, <1>5
  <2> DEFINE y == Chosen(s)
  <2>1. s # {} /\ y \in s
    <3>1. ASSUME s = {} PROVE FALSE
      BY <3>1, FS_EmptySet
    <3> QED BY <3>1, ChosenMember
  <2>2. ASSUME NEW x \in s
        PROVE  s \ {x} \in SUBSET T /\ AnyFirst(g, w, s \ {x})
    <3>1. Cardinality(s \ {x}) = n
      BY OneFewer
    <3> QED BY <1>5, <3>1
  <2>3. g[s] = w[y] + g[s \ {y}]
    BY <1>2, <2>1
  <2>4. ASSUME NEW x \in s PROVE w[x] \in Nat /\ g[s \ {x}] \in Nat
    BY <2>2 DEF AnyFirst
  <2> HIDE DEF y
  <2>5. ASSUME NEW x \in s PROVE g[s] = w[x] + g[s \ {x}]
    <3>1. CASE x = y
      BY <2>3, <3>1
    <3>2. CASE x # y
      <4> DEFINE u == s \ {y}
                 v == s \ {x}
                 r == u \ {x}
      <4>1. x \in u /\ y \in v /\ r = v \ {y}
        BY <2>1, <3>2
      <4>2. u \in SUBSET T /\ Cardinality(u) = n /\ AnyFirst(g, w, u) /\ AnyFirst(g, w, v)
        BY <2>1, <2>2, OneFewer
      <4>3. g[s] = w[y] + g[u]
        BY <2>3
      <4> HIDE DEF u
      <4>4. r \in SUBSET T /\ Cardinality(r) <= n
        BY <4>1, <4>2, OneFewer
      <4> HIDE DEF v, r
      <4>5. g[r] \in Nat
        BY <1>5, <4>4 DEF AnyFirst
      <4>6. g[u] = w[x] + g[r]
        BY <4>1, <4>2 DEF AnyFirst, r
      <4>7. g[v] = w[y] + g[r]
        BY <4>1, <4>2 DEF AnyFirst
      <4>8. g[s] = w[x] + g[v]
        BY <2>1, <2>4, <4>3, <4>5, <4>6, <4>7
      <4> QED BY <4>8 DEF v
    <3> QED BY <3>1, <3>2
  <2>6. g[s] \in Nat
    <3>1. w[y] \in Nat /\ g[s \ {y}] \in Nat
      BY <2>1, <2>4
    <3> QED BY <2>3, <3>1
  <2> QED BY <2>5, <2>6 DEF AnyFirst
<1>6. Nat \subseteq S
  <2> HIDE DEF S
  <2> QED BY <1>4, <1>5, SetInduction
<1>7. ASSUME NEW s \in SUBSET T PROVE AnyFirst(g, w, s)
  BY <1>3, <1>6
<1> QED BY <1>1, <1>7

(* v and w give every member of s the same weight.                         *)
SameWeights(v, w, s) == \A x \in s : v[x] = w[x]

(* Adding a member adds its weight.                                        *)
LEMMA SumsAdd ==
  ASSUME NEW T, IsFiniteSet(T), NEW w, \A x \in T : w[x] \in Nat, NEW g, SubsetSums(g, w, T),
         NEW s \in SUBSET T, NEW x \in T, x \notin s
  PROVE  g[s \cup {x}] = g[s] + w[x]
<1> DEFINE t == s \cup {x}
<1>1. t \in SUBSET T /\ x \in t /\ t \ {x} = s
  OBVIOUS
<1> HIDE DEF t
<1>2. AnyFirst(g, w, t) /\ AnyFirst(g, w, s)
  BY <1>1, SumsAnyOrder
<1>3. g[t] = w[x] + g[s] /\ g[s] \in Nat /\ w[x] \in Nat
  BY <1>1, <1>2 DEF AnyFirst
<1> QED BY <1>3 DEF t

(* A smaller set has a smaller sum.                                        *)
LEMMA SumsShrink ==
  ASSUME NEW T, IsFiniteSet(T), NEW w, \A x \in T : w[x] \in Nat, NEW g, SubsetSums(g, w, T)
  PROVE  \A t \in SUBSET T : \A s \in SUBSET t : g[s] <= g[t]
<1> DEFINE Smaller(t) == \A s \in SUBSET t : g[s] <= g[t]
           S == {n \in Nat : \A t \in SUBSET T : Cardinality(t) = n => Smaller(t)}
<1>1. \A s \in SUBSET T : AnyFirst(g, w, s)
  BY SumsAnyOrder
<1>2. \A s \in SUBSET T : IsFiniteSet(s) /\ Cardinality(s) \in Nat
  BY FS_Subset, FS_CardinalityType
<1>3. 0 \in S
  <2>1. ASSUME NEW t \in SUBSET T, Cardinality(t) = 0 PROVE Smaller(t)
    <3>1. t = {} /\ g[t] \in Nat
      BY <1>1, <1>2, <2>1, FS_EmptySet DEF AnyFirst
    <3> QED BY <3>1
  <2> QED BY <2>1
<1>4. ASSUME NEW n \in Nat, n \in S PROVE n + 1 \in S
  <2> SUFFICES ASSUME NEW t \in SUBSET T, Cardinality(t) = n + 1, NEW s \in SUBSET t
               PROVE  g[s] <= g[t]
    OBVIOUS
  <2>1. s \in SUBSET T /\ g[s] \in Nat /\ g[t] \in Nat
    BY <1>1 DEF AnyFirst
  <2>2. CASE s = t
    BY <2>1, <2>2
  <2>3. CASE s # t
    <3>1. PICK x \in t : x \notin s
      BY <2>3
    <3> DEFINE u == t \ {x}
    <3>2. u \in SUBSET T /\ s \in SUBSET u /\ Cardinality(u) = n
      BY <3>1, OneFewer
    <3>3. g[t] = w[x] + g[u] /\ w[x] \in Nat
      BY <1>1 DEF AnyFirst
    <3> HIDE DEF u
    <3>4. g[s] <= g[u]
      BY <1>4, <3>2
    <3>5. g[u] \in Nat
      BY <1>1, <3>2 DEF AnyFirst
    <3> QED BY <2>1, <3>3, <3>4, <3>5
  <2> QED BY <2>2, <2>3
<1>5. Nat \subseteq S
  <2> HIDE DEF S
  <2> QED BY <1>3, <1>4, SetInduction
<1> QED BY <1>2, <1>5

(* The sum of a set depends only on the weights of its members.            *)
LEMMA SumsAgree ==
  ASSUME NEW T, IsFiniteSet(T), NEW v, \A x \in T : v[x] \in Nat, NEW g, SubsetSums(g, v, T),
         NEW U, IsFiniteSet(U), NEW w, \A x \in U : w[x] \in Nat, NEW h, SubsetSums(h, w, U)
  PROVE  \A s \in SUBSET (T \cap U) : SameWeights(v, w, s) => g[s] = h[s]
<1> DEFINE Same(s) == SameWeights(v, w, s) => g[s] = h[s]
           S == {n \in Nat : \A s \in SUBSET (T \cap U) : Cardinality(s) = n => Same(s)}
<1>1. g[{}] = 0 /\ \A s \in SUBSET T : AnyFirst(g, v, s)
  BY SumsAnyOrder
<1>2. h[{}] = 0 /\ \A s \in SUBSET U : AnyFirst(h, w, s)
  BY SumsAnyOrder
<1>3. \A s \in SUBSET T : IsFiniteSet(s) /\ Cardinality(s) \in Nat
  BY FS_Subset, FS_CardinalityType
<1>4. 0 \in S
  <2>1. ASSUME NEW s \in SUBSET (T \cap U), Cardinality(s) = 0 PROVE Same(s)
    <3>1. s = {}
      BY <1>3, <2>1, FS_EmptySet
    <3> QED BY <1>1, <1>2, <3>1
  <2> QED BY <2>1
<1>5. ASSUME NEW n \in Nat, n \in S PROVE n + 1 \in S
  <2> SUFFICES ASSUME NEW s \in SUBSET (T \cap U), Cardinality(s) = n + 1, SameWeights(v, w, s)
               PROVE  g[s] = h[s]
    OBVIOUS
  <2>1. PICK x : x \in s
    <3>1. ASSUME s = {} PROVE FALSE
      BY <3>1, FS_EmptySet
    <3> QED BY <3>1
  <2> DEFINE u == s \ {x}
  <2>2. u \in SUBSET (T \cap U) /\ Cardinality(u) = n /\ SameWeights(v, w, u)
    BY <2>1, OneFewer DEF SameWeights
  <2>3. g[s] = v[x] + g[u] /\ h[s] = w[x] + h[u] /\ v[x] = w[x]
    <3>1. AnyFirst(g, v, s) /\ AnyFirst(h, w, s)
      BY <1>1, <1>2
    <3> QED BY <2>1, <3>1 DEF AnyFirst, SameWeights
  <2> HIDE DEF u
  <2>4. g[u] = h[u]
    BY <1>5, <2>2
  <2> QED BY <2>3, <2>4
<1>6. Nat \subseteq S
  <2> HIDE DEF S
  <2> QED BY <1>4, <1>5, SetInduction
<1> QED BY <1>3, <1>6
-----------------------------------------------------------------------------
(* Sums as values *)

\* The sum of the weights w of the members of T.
SumOver(w, T) == (CHOOSE g : SubsetSums(g, w, T))[T]
Weighs(w, T) == IsFiniteSet(T) /\ \A x \in T : w[x] \in Nat

(* A set that holds {} and, with a set, that set and one member of T more, *)
(* holds the finite set T.                                                 *)
LEMMA SubsetInduction ==
  ASSUME NEW T, IsFiniteSet(T), NEW Q, {} \in Q,
         \A s \in SUBSET T : \A x \in T \ s : s \in Q => s \cup {x} \in Q
  PROVE  T \in Q
<1> DEFINE S == {n \in Nat : \A s \in SUBSET T : Cardinality(s) = n => s \in Q}
<1>1. 0 \in S
  <2>1. ASSUME NEW s \in SUBSET T, Cardinality(s) = 0 PROVE s \in Q
    <3>1. IsFiniteSet(s)
      BY FS_Subset
    <3> QED BY <2>1, <3>1, FS_EmptySet
  <2> QED BY <2>1
<1>2. ASSUME NEW n \in Nat, n \in S PROVE n + 1 \in S
  <2> SUFFICES ASSUME NEW s \in SUBSET T, Cardinality(s) = n + 1 PROVE s \in Q
    OBVIOUS
  <2>1. PICK x : x \in s
    <3>1. ASSUME s = {} PROVE FALSE
      BY <3>1, FS_EmptySet
    <3> QED BY <3>1
  <2>2. PICK u : u = s \ {x}
    OBVIOUS
  <2>3. u \in SUBSET T /\ Cardinality(u) = n
    BY <2>1, <2>2, OneFewer
  <2>4. u \in Q
    BY <1>2, <2>3
  <2>5. x \in T \ u /\ s = u \cup {x}
    BY <2>1, <2>2
  <2> QED BY <2>3, <2>4, <2>5
<1>3. Nat \subseteq S
  <2> HIDE DEF S
  <2> QED BY <1>1, <1>2, SetInduction
<1>4. Cardinality(T) \in Nat
  BY FS_CardinalityType
<1> QED BY <1>3, <1>4

(* A sum of weights solves the recursion.                                  *)
LEMMA SumIsSolved ==
  ASSUME NEW w, NEW T, Weighs(w, T)
  PROVE  \E g : SubsetSums(g, w, T) /\ SumOver(w, T) = g[T]
<1>1. \E g : SubsetSums(g, w, T)
  BY SumsExist DEF Weighs
<1>2. SubsetSums(CHOOSE g : SubsetSums(g, w, T), w, T)
  BY <1>1, Zenon
<1> QED BY <1>2, Zenon DEF SumOver

(* Sums are natural numbers.                                               *)
LEMMA SumType ==
  ASSUME NEW w, NEW T, Weighs(w, T)
  PROVE  SumOver(w, T) \in Nat
<1>1. PICK g : SubsetSums(g, w, T) /\ SumOver(w, T) = g[T]
  BY SumIsSolved
<1>2. AnyFirst(g, w, T)
  BY <1>1, SumsAnyOrder DEF Weighs
<1> QED BY <1>1, <1>2 DEF AnyFirst

(* Nothing weighs nothing.                                                 *)
LEMMA SumNone ==
  ASSUME NEW w
  PROVE  SumOver(w, {}) = 0
<1>1. Weighs(w, {})
  BY FS_EmptySet DEF Weighs
<1>2. PICK g : SubsetSums(g, w, {}) /\ SumOver(w, {}) = g[{}]
  BY <1>1, SumIsSolved
<1> QED BY <1>2 DEF SubsetSums

(* Sums over the same weights are the same.                                *)
LEMMA SumSame ==
  ASSUME NEW v, NEW w, NEW T, Weighs(v, T), SameWeights(v, w, T)
  PROVE  SumOver(v, T) = SumOver(w, T) /\ Weighs(w, T)
<1>1. Weighs(w, T)
  BY DEF Weighs, SameWeights
<1>2. PICK g : SubsetSums(g, v, T) /\ SumOver(v, T) = g[T]
  BY SumIsSolved
<1>3. PICK h : SubsetSums(h, w, T) /\ SumOver(w, T) = h[T]
  BY <1>1, SumIsSolved
<1>4. T \in SUBSET (T \cap T)
  OBVIOUS
<1>5. \A s \in SUBSET (T \cap T) : SameWeights(v, w, s) => g[s] = h[s]
  BY <1>1, <1>2, <1>3, SumsAgree DEF Weighs
<1> QED BY <1>1, <1>2, <1>3, <1>4, <1>5

(* Parts of what weighs something weigh something.                         *)
LEMMA WeighsPart ==
  ASSUME NEW w, NEW T, Weighs(w, T), NEW s, s \subseteq T
  PROVE  Weighs(w, s)
BY FS_Subset DEF Weighs

(* Taking a member out takes its weight out.                               *)
LEMMA SumTake ==
  ASSUME NEW w, NEW T, Weighs(w, T), NEW x \in T
  PROVE  SumOver(w, T) = w[x] + SumOver(w, T \ {x})
<1>1. PICK u : u = T \ {x}
  OBVIOUS
<1>2. Weighs(w, u) /\ u \in SUBSET (T \cap u) /\ SameWeights(w, w, u)
  BY <1>1, WeighsPart DEF SameWeights
<1>3. PICK g : SubsetSums(g, w, T) /\ SumOver(w, T) = g[T]
  BY SumIsSolved
<1>4. PICK h : SubsetSums(h, w, u) /\ SumOver(w, u) = h[u]
  BY <1>2, SumIsSolved
<1>5. \A s \in SUBSET (T \cap u) : SameWeights(w, w, s) => g[s] = h[s]
  BY <1>2, <1>3, <1>4, SumsAgree DEF Weighs
<1>6. g[u] = h[u]
  BY <1>2, <1>5
<1>7. AnyFirst(g, w, T)
  BY <1>3, SumsAnyOrder DEF Weighs
<1>8. g[T] = w[x] + g[u]
  BY <1>1, <1>7 DEF AnyFirst
<1> QED BY <1>1, <1>3, <1>4, <1>6, <1>8, Zenon

(* Adding a member adds its weight.                                        *)
LEMMA SumPut ==
  ASSUME NEW w, NEW T, Weighs(w, T), NEW x, x \notin T, w[x] \in Nat
  PROVE  Weighs(w, T \cup {x}) /\ SumOver(w, T \cup {x}) = w[x] + SumOver(w, T)
<1>1. PICK u : u = T \cup {x}
  OBVIOUS
<1>2. Weighs(w, u)
  BY <1>1, FS_AddElement DEF Weighs
<1>3. x \in u /\ u \ {x} = T
  BY <1>1
<1>4. SumOver(w, u) = w[x] + SumOver(w, u \ {x})
  BY <1>2, <1>3, SumTake
<1> QED BY <1>1, <1>2, <1>3, <1>4

(* The sum over one member is its weight.                                  *)
LEMMA SumSingle ==
  ASSUME NEW w, NEW x, w[x] \in Nat
  PROVE  SumOver(w, {x}) = w[x]
<1>1. Weighs(w, {}) /\ x \notin {}
  BY FS_EmptySet DEF Weighs
<1>2. SumOver(w, {} \cup {x}) = w[x] + SumOver(w, {})
  BY <1>1, SumPut
<1>3. {} \cup {x} = {x}
  OBVIOUS
<1> QED BY <1>2, <1>3, SumNone

\* w is the sum of the weights u and v.
AddsUp(u, v, w, T) == \A x \in T : w[x] = u[x] + v[x]

(* The sum of sums is the sum of the two.                                  *)
LEMMA SumPlus ==
  ASSUME NEW u, NEW v, NEW w, NEW T, Weighs(u, T), Weighs(v, T), AddsUp(u, v, w, T)
  PROVE  Weighs(w, T) /\ SumOver(w, T) = SumOver(u, T) + SumOver(v, T)
<1> DEFINE Q == {s \in SUBSET T : SumOver(w, s) = SumOver(u, s) + SumOver(v, s)}
<1>0. IsFiniteSet(T) /\ \A x \in T : u[x] \in Nat /\ v[x] \in Nat /\ w[x] \in Nat /\ w[x] = u[x] + v[x]
  BY DEF Weighs, AddsUp
<1>1. {} \in Q
  BY SumNone
<1>2. ASSUME NEW s \in SUBSET T, NEW x \in T \ s, s \in Q PROVE s \cup {x} \in Q
  <2>1. Weighs(u, s) /\ Weighs(v, s) /\ Weighs(w, s)
    BY <1>0, FS_Subset DEF Weighs
  <2>2. SumOver(u, s \cup {x}) = u[x] + SumOver(u, s)
    BY <1>0, <2>1, SumPut
  <2>3. SumOver(v, s \cup {x}) = v[x] + SumOver(v, s)
    BY <1>0, <2>1, SumPut
  <2>4. SumOver(w, s \cup {x}) = w[x] + SumOver(w, s)
    BY <1>0, <2>1, SumPut
  <2>5. SumOver(u, s) \in Nat /\ SumOver(v, s) \in Nat
    BY <2>1, SumType
  <2>6. SumOver(w, s \cup {x}) = SumOver(u, s \cup {x}) + SumOver(v, s \cup {x})
    BY <1>0, <1>2, <2>2, <2>3, <2>4, <2>5
  <2> QED BY <2>6
<1>3. T \in Q
  <2> HIDE DEF Q
  <2> QED BY <1>0, <1>1, <1>2, SubsetInduction
<1> QED BY <1>0, <1>3 DEF Weighs

(* The sum over two sets that share nothing is the sum of their sums.      *)
LEMMA SumUnion ==
  ASSUME NEW w, NEW A, NEW B, Weighs(w, A), Weighs(w, B), A \cap B = {}
  PROVE  Weighs(w, A \cup B) /\ SumOver(w, A \cup B) = SumOver(w, A) + SumOver(w, B)
<1> DEFINE Q == {s \in SUBSET B : Weighs(w, A \cup s) /\ SumOver(w, A \cup s) = SumOver(w, A) + SumOver(w, s)}
<1>0. SumOver(w, A) \in Nat
  BY SumType
<1>1. {} \in Q
  <2>1. A \cup {} = A
    OBVIOUS
  <2> QED BY <1>0, <2>1, SumNone
<1>2. ASSUME NEW s \in SUBSET B, NEW x \in B \ s, s \in Q PROVE s \cup {x} \in Q
  <2>1. PICK a : a = A \cup s
    OBVIOUS
  <2>2. A \cup (s \cup {x}) = a \cup {x} /\ x \notin a /\ x \notin s
    BY <2>1
  <2>3. Weighs(w, s) /\ w[x] \in Nat
    BY WeighsPart DEF Weighs
  <2>4. Weighs(w, a) /\ SumOver(w, a) = SumOver(w, A) + SumOver(w, s)
    BY <1>2, <2>1
  <2>5. Weighs(w, a \cup {x}) /\ SumOver(w, a \cup {x}) = w[x] + SumOver(w, a)
    BY <2>2, <2>3, <2>4, SumPut
  <2>6. SumOver(w, s \cup {x}) = w[x] + SumOver(w, s)
    BY <2>2, <2>3, SumPut
  <2>7. SumOver(w, s) \in Nat
    BY <2>3, SumType
  <2>8. SumOver(w, a \cup {x}) = SumOver(w, A) + SumOver(w, s \cup {x})
    BY <1>0, <2>3, <2>4, <2>5, <2>6, <2>7
  <2> QED BY <2>2, <2>5, <2>8
<1>3. IsFiniteSet(B)
  BY DEF Weighs
<1>4. B \in Q
  <2> HIDE DEF Q
  <2> QED BY <1>1, <1>2, <1>3, SubsetInduction
<1> QED BY <1>4

\* f names the members of T, which weigh w, in a set I whose members weigh v.
Names(f, v, w, T, I) ==
  /\ I = {f[x] : x \in T}
  /\ \A x, y \in T : f[x] = f[y] => x = y
  /\ \A x \in T : w[x] = v[f[x]]

(* A sum does not depend on what the members are called.                   *)
LEMMA SumMoved ==
  ASSUME NEW v, NEW w, NEW T, Weighs(w, T), NEW f, NEW I, Names(f, v, w, T, I)
  PROVE  Weighs(v, I) /\ SumOver(v, I) = SumOver(w, T)
<1> DEFINE To(s) == {f[x] : x \in s}
           Q == {s \in SUBSET T : Weighs(v, To(s)) /\ SumOver(v, To(s)) = SumOver(w, s)}
<1>1. {} \in Q
  <2>1. To({}) = {}
    OBVIOUS
  <2>2. Weighs(v, {})
    BY FS_EmptySet DEF Weighs
  <2> QED BY <2>1, <2>2, SumNone
<1>2. ASSUME NEW s \in SUBSET T, NEW x \in T \ s, s \in Q PROVE s \cup {x} \in Q
  <2>1. PICK a, y : a = To(s) /\ y = f[x]
    OBVIOUS
  <2>2. To(s \cup {x}) = a \cup {y}
    BY <2>1
  <2>3. y \notin a /\ v[y] = w[x] /\ w[x] \in Nat
    BY <2>1 DEF Names, Weighs
  <2>4. Weighs(v, a) /\ SumOver(v, a) = SumOver(w, s)
    BY <1>2, <2>1
  <2>5. Weighs(v, a \cup {y}) /\ SumOver(v, a \cup {y}) = v[y] + SumOver(v, a)
    BY <2>3, <2>4, SumPut
  <2>6. Weighs(w, s)
    BY WeighsPart
  <2>7. SumOver(w, s \cup {x}) = w[x] + SumOver(w, s)
    BY <2>3, <2>6, SumPut
  <2> QED BY <2>2, <2>3, <2>4, <2>5, <2>7
<1>3. IsFiniteSet(T)
  BY DEF Weighs
<1>4. T \in Q
  <2> HIDE DEF Q
  <2> QED BY <1>1, <1>2, <1>3, SubsetInduction
<1> QED BY <1>4 DEF Names

\* Every member of T weighs a multiple of k.
Multiples(w, T, k) == \A x \in T : \E q \in Nat : w[x] = q * k

(* Two multiples add up to a multiple ...                                  *)
LEMMA MultiplesAdd ==
  ASSUME NEW a \in Nat, NEW b \in Nat, NEW k \in Nat
  PROVE  a * k + b * k = (a + b) * k
OBVIOUS

(* ... and so do all the weights.                                          *)
LEMMA SumOfMultiples ==
  ASSUME NEW w, NEW T, Weighs(w, T), NEW k \in Nat, Multiples(w, T, k)
  PROVE  \E q \in Nat : SumOver(w, T) = q * k
<1> DEFINE Q == {s \in SUBSET T : \E q \in Nat : SumOver(w, s) = q * k}
<1>1. {} \in Q
  <2>1. 0 * k = 0
    OBVIOUS
  <2> QED BY <2>1, SumNone
<1>2. ASSUME NEW s \in SUBSET T, NEW x \in T \ s, s \in Q PROVE s \cup {x} \in Q
  <2>1. Weighs(w, s) /\ w[x] \in Nat
    BY WeighsPart DEF Weighs
  <2>2. SumOver(w, s \cup {x}) = w[x] + SumOver(w, s)
    BY <2>1, SumPut
  <2>3. PICK a \in Nat : SumOver(w, s) = a * k
    BY <1>2
  <2>4. PICK b \in Nat : w[x] = b * k
    BY DEF Multiples
  <2>5. b * k + a * k = (b + a) * k
    BY MultiplesAdd
  <2>6. SumOver(w, s \cup {x}) = (b + a) * k /\ b + a \in Nat
    BY <2>2, <2>3, <2>4, <2>5
  <2> QED BY <2>6
<1>3. IsFiniteSet(T)
  BY DEF Weighs
<1>4. T \in Q
  <2> HIDE DEF Q
  <2> QED BY <1>1, <1>2, <1>3, SubsetInduction
<1> QED BY <1>4

(* Every solution of the recursion gives the sum.                          *)
LEMMA SumIsAny ==
  ASSUME NEW w, NEW T, Weighs(w, T), NEW g, SubsetSums(g, w, T)
  PROVE  g[T] = SumOver(w, T)
<1>1. PICK h : SubsetSums(h, w, T) /\ SumOver(w, T) = h[T]
  BY SumIsSolved
<1>2. T \in SUBSET (T \cap T) /\ SameWeights(w, w, T)
  BY DEF SameWeights
<1>3. \A s \in SUBSET (T \cap T) : SameWeights(w, w, s) => g[s] = h[s]
  BY <1>1, SumsAgree DEF Weighs
<1> QED BY <1>1, <1>2, <1>3
=============================================================================
