---------------------------- MODULE Codecs_proofs ----------------------------
(***************************************************************************)
(* Proofs about Codecs, for inputs of every length and every value of the  *)
(* constants: what the codecs write is restored, and the block built on    *)
(* it; an LZW stream is read as what it means; a Huffman stream that is    *)
(* accepted is the only one of its data, and its code the shortest one; a  *)
(* sample spreads.                                                         *)
(***************************************************************************)
EXTENDS Codecs, SequenceFolds

-----------------------------------------------------------------------------
(* The inputs *)

(* The states are inputs: of each kind, sequences of its elements.         *)
InputInv ==
  /\ kind = "data" => input \in Seq(Bytes)
  /\ kind = "lzw" => input \in Seq(0..MaxCode) /\ Len(input) <= MaxCodes
  /\ kind = "huffman" => input \in Seq({0, 1}) /\ table \in [Bytes -> Weights]
  /\ kind = "file" => input \in Seq({0})

(* Every input is one of these, so that a fact about all inputs is an      *)
(* invariant.                                                              *)
LEMMA InputsHold == Spec => []InputInv
<1>1. Init => InputInv
  <2>1. \A X : <<>> \in Seq(X)
    BY EmptySeq
  <2>2. Len(<<>>) <= MaxCodes
    BY CodecsAssumption
  <2> QED BY <2>1, <2>2 DEF Init, InputInv
<1>2. InputInv /\ [Next]_vars => InputInv'
  <2> SUFFICES ASSUME InputInv, [Next]_vars PROVE InputInv'
    OBVIOUS
  <2>1. CASE AddByte /\ UNCHANGED <<kind, table>>
    <3>1. PICK b \in Bytes : input' = Append(input, b)
      BY <2>1 DEF AddByte
    <3>2. kind = "data" /\ kind' = "data" /\ input \in Seq(Bytes)
      BY <2>1 DEF AddByte, Bounded, InputInv
    <3> QED BY <3>1, <3>2, AppendProperties DEF InputInv
  <2>2. CASE AddCode /\ UNCHANGED <<kind, table>>
    <3>1. PICK c \in 0..MaxCode : input' = Append(input, c)
      BY <2>2 DEF AddCode
    <3>2. kind = "lzw" /\ kind' = "lzw" /\ input \in Seq(0..MaxCode) /\ Len(input) < MaxCodes
      BY <2>2 DEF AddCode, Bounded, InputInv
    <3>3. Len(input) \in Nat /\ MaxCodes \in Nat
      BY <3>2, CodecsAssumption, LenProperties
    <3>4. input' \in Seq(0..MaxCode) /\ Len(input') = Len(input) + 1
      BY <3>1, <3>2, AppendProperties
    <3>5. Len(input') <= MaxCodes
      BY <3>2, <3>3, <3>4
    <3> QED BY <3>2, <3>4, <3>5 DEF InputInv
  <2>3. CASE AddBits /\ UNCHANGED <<kind, table>>
    <3>1. PICK bits \in [1..Width -> {0, 1}] : input' = input \o bits
      BY <2>3 DEF AddBits
    <3>2. /\ kind = "huffman" /\ kind' = "huffman" /\ input \in Seq({0, 1})
          /\ table' = table /\ table \in [Bytes -> Weights]
      BY <2>3 DEF AddBits, Bounded, InputInv
    <3>3. bits \in Seq({0, 1})
      <4>1. Width \in Nat
        BY CodecsAssumption
      <4> QED BY <3>1, <4>1, IsASeq
    <3>4. input \o bits \in Seq({0, 1})
      BY <3>2, <3>3, ConcatProperties
    <3> QED BY <3>1, <3>2, <3>4 DEF InputInv
  <2>4. CASE AddToFile /\ UNCHANGED <<kind, table>>
    <3>1. kind = "file" /\ kind' = "file" /\ input \in Seq({0}) /\ input' = Append(input, 0)
      BY <2>4 DEF AddToFile, Bounded, InputInv
    <3> QED BY <3>1, AppendProperties DEF InputInv
  <2>5. CASE UNCHANGED vars
    BY <2>5 DEF vars, InputInv
  <2> QED BY <2>1, <2>2, <2>3, <2>4, <2>5 DEF Next
<1> QED BY <1>1, <1>2, PTL DEF Spec

-----------------------------------------------------------------------------
(* The sample *)

(* s rises from 1 to top in len steps, by g at most.                       *)
Rises(s, len, top, g) ==
  /\ s \in Seq(Nat) /\ Len(s) = len /\ len >= 1
  /\ s[1] = 1 /\ s[len] = top
  /\ \A i, j \in 1..len : i < j => s[i] < s[j]
  /\ \A i \in 1..len - 1 : s[i + 1] - s[i] <= g

(* r is a chunk of the file behind the position low.                       *)
Chunk(r, low, c) == r \in Seq(Nat) /\ Len(r) = c /\ \A i \in 1..c : r[i] = low + i

(* A further chunk behind what was read keeps the positions rising.        *)
LEMMA RisesFurther ==
  ASSUME NEW len \in Nat, NEW top \in Nat, NEW s, NEW g \in Nat, Rises(s, len, top, g),
         NEW c \in Nat, c >= 1, NEW low \in Nat, low >= top, low < top + g, NEW r, Chunk(r, low, c)
  PROVE  Rises(s \o r, len + c, low + c, g)
<1> DEFINE t == s \o r
<1>1. t \in Seq(Nat) /\ Len(t) = len + c
  BY ConcatProperties DEF Rises, Chunk
<1>2. \A i \in 1..len + c : t[i] = IF i <= len THEN s[i] ELSE r[i - len]
  BY ConcatProperties DEF Rises, Chunk
<1> HIDE DEF t
<1>3. \A i \in 1..len : t[i] = s[i]
  BY <1>2
<1>4. \A i \in (len + 1)..(len + c) : t[i] = low + (i - len)
  <2>1. ASSUME NEW i \in (len + 1)..(len + c) PROVE t[i] = low + (i - len)
    <3>1. i \in 1..len + c /\ ~(i <= len) /\ i - len \in 1..c
      OBVIOUS
    <3> QED BY <1>2, <3>1 DEF Chunk
  <2> QED BY <2>1
<1>5. /\ \A i \in 1..len : s[i] \in Nat
      /\ s[1] = 1 /\ s[len] = top /\ len >= 1
      /\ \A i, j \in 1..len : i < j => s[i] < s[j]
  BY ElementOfSeq DEF Rises
<1>6. \A i \in 1..len : s[i] <= top
  <2>1. ASSUME NEW i \in 1..len PROVE s[i] <= top
    <3>1. CASE i = len
      BY <1>5, <3>1
    <3>2. CASE i # len
      <4>1. len \in 1..len /\ i < len
        BY <1>5, <3>2
      <4> QED BY <1>5, <4>1
    <3> QED BY <3>1, <3>2
  <2> QED BY <2>1
<1>7. ASSUME NEW i \in 1..len + c, NEW j \in 1..len + c, i < j PROVE t[i] < t[j]
  <2>1. CASE j <= len
    BY <1>3, <1>5, <1>7, <2>1
  <2>2. CASE i <= len /\ ~(j <= len)
    <3>1. t[i] = s[i] /\ s[i] <= top /\ s[i] \in Nat
      BY <1>3, <1>5, <1>6, <2>2
    <3>2. t[j] = low + (j - len) /\ j - len >= 1
      BY <1>4, <2>2
    <3> QED BY <3>1, <3>2
  <2>3. CASE ~(i <= len)
    <3>1. t[i] = low + (i - len) /\ t[j] = low + (j - len)
      BY <1>4, <1>7, <2>3
    <3> QED BY <1>7, <3>1
  <2> QED BY <1>7, <2>1, <2>2, <2>3
<1>8. t[1] = 1 /\ t[len + c] = low + c
  <2>1. 1 \in 1..len /\ len + c \in (len + 1)..(len + c)
    BY <1>5
  <2> QED BY <1>3, <1>4, <1>5, <2>1
<1>9. ASSUME NEW i \in 1..len + c - 1 PROVE t[i + 1] - t[i] <= g
  <2>1. CASE i < len
    <3>1. i \in 1..len - 1 /\ i \in 1..len /\ i + 1 \in 1..len
      BY <2>1
    <3> QED BY <1>3, <3>1 DEF Rises
  <2>2. CASE i = len
    <3>1. t[i] = top /\ t[i + 1] = low + 1
      BY <1>3, <1>4, <1>5, <2>2
    <3> QED BY <3>1
  <2>3. CASE i > len
    <3>1. t[i] = low + (i - len) /\ t[i + 1] = low + (i + 1 - len)
      BY <1>4, <2>3
    <3> QED BY <3>1
  <2> QED BY <2>1, <2>2, <2>3
<1>10. len + c >= 1
  OBVIOUS
<1>11. Rises(t, len + c, low + c, g)
  BY <1>1, <1>7, <1>8, <1>9, <1>10 DEF Rises
<1> QED BY <1>11 DEF t

(* The chunks of the sample, as Sample has them.                           *)
ChunkAt(c, d, k) == [i \in 1..c |-> (k - 1) * d + i]
Chunks(c, d, K) == [k \in 1..K |-> ChunkAt(c, d, k)]

(* There is one chunk more in t than in s, behind the position low.        *)
OneMore(s, t, low, c) == s \in Seq(Seq(Nat)) /\ \E r : Chunk(r, low, c) /\ t = Append(s, r)

(* A chunk more adds its positions at the end.                             *)
LEMMA ChunksGrow ==
  ASSUME NEW c \in Nat, NEW d \in Nat, NEW K \in Nat, NEW M \in Nat, M = K + 1,
         NEW low \in Nat, low = K * d
  PROVE  OneMore(Chunks(c, d, K), Chunks(c, d, M), low, c)
<1>1. ASSUME NEW k \in Nat, k >= 1
      PROVE  ChunkAt(c, d, k) \in Seq(Nat) /\ Len(ChunkAt(c, d, k)) = c
  <2>1. (k - 1) * d \in Nat
    BY <1>1
  <2> DEFINE first == (k - 1) * d
  <2>2. ChunkAt(c, d, k) = [i \in 1..c |-> first + i]
    BY DEF ChunkAt
  <2> HIDE DEF first
  <2>3. [i \in 1..c |-> first + i] \in [1..c -> Nat]
    BY <2>1 DEF first
  <2>4. ChunkAt(c, d, k) \in [1..c -> Nat]
    BY <2>2, <2>3
  <2> QED BY <2>4, IsASeq, LenProperties
<1>2. ASSUME NEW n \in Nat PROVE Chunks(c, d, n) \in Seq(Seq(Nat)) /\ Len(Chunks(c, d, n)) = n
  <2>1. Chunks(c, d, n) \in [1..n -> Seq(Nat)]
    <3>1. \A k \in 1..n : ChunkAt(c, d, k) \in Seq(Nat)
      BY <1>1
    <3> HIDE DEF ChunkAt
    <3> QED BY <3>1 DEF Chunks
  <2> QED BY <2>1, IsASeq, LenProperties
<1>3. Chunk(ChunkAt(c, d, M), low, c)
  <2>1. (M - 1) * d = low
    OBVIOUS
  <2>2. \A i \in 1..c : ChunkAt(c, d, M)[i] = low + i
    BY <2>1 DEF ChunkAt
  <2>3. ChunkAt(c, d, M) \in Seq(Nat) /\ Len(ChunkAt(c, d, M)) = c
    BY <1>1
  <2> QED BY <2>2, <2>3, Zenon DEF Chunk
<1>4. Chunks(c, d, M) = Append(Chunks(c, d, K), ChunkAt(c, d, M))
  <2> DEFINE S == Chunks(c, d, K)
             U == Chunks(c, d, M)
  <2>1. /\ S \in Seq(Seq(Nat)) /\ Len(S) = K /\ U \in Seq(Seq(Nat)) /\ Len(U) = M
        /\ ChunkAt(c, d, M) \in Seq(Nat)
    BY <1>1, <1>2
  <2>3. \A i \in 1..K : S[i] = ChunkAt(c, d, i)
    BY Zenon DEF Chunks
  <2>4. \A i \in 1..M : U[i] = ChunkAt(c, d, i)
    BY Zenon DEF Chunks
  <2> HIDE DEF S, U
  <2>5. Len(U) = Len(S) + 1 /\ U[Len(U)] = ChunkAt(c, d, M)
    BY <2>1, <2>4
  <2>6. \A i \in 1..Len(S) : U[i] = S[i]
    BY <2>1, <2>3, <2>4
  <2>7. U = Append(S, ChunkAt(c, d, M))
    BY <2>1, <2>5, <2>6, IsAppended, Zenon
  <2> QED BY <2>7 DEF S, U
<1> QED BY <1>2, <1>3, <1>4 DEF OneMore

(* Chunks that do not overlap, one behind the other.                       *)
LEMMA ChunksRise ==
  ASSUME NEW c \in Nat, c >= 1, NEW d \in Nat, d >= c
  PROVE  \A K \in Nat : K >= 1 => Rises(FlattenSeq(Chunks(c, d, K)), c * K, (K - 1) * d + c, d - c + 1)
<1> DEFINE S == {K \in Nat : K >= 1 => Rises(FlattenSeq(Chunks(c, d, K)), c * K, (K - 1) * d + c, d - c + 1)}
<1>1. 0 \in S
  OBVIOUS
<1>2. ASSUME NEW K \in Nat, K \in S PROVE K + 1 \in S
  <2>0. PICK M \in Nat : M = K + 1
    OBVIOUS
  <2>a. PICK low \in Nat : low = K * d
    OBVIOUS
  <2>b. OneMore(Chunks(c, d, K), Chunks(c, d, M), low, c)
    BY <2>0, <2>a, ChunksGrow
  <2>1. PICK r : Chunk(r, low, c) /\ Chunks(c, d, M) = Append(Chunks(c, d, K), r)
    BY <2>b DEF OneMore
  <2>2. r \in Seq(Nat) /\ Chunks(c, d, K) \in Seq(Seq(Nat))
    BY <2>1, <2>b DEF Chunk, OneMore
  <2>3. FlattenSeq(Chunks(c, d, M)) = FlattenSeq(Chunks(c, d, K)) \o r
    BY <2>1, <2>2, FlattenAppend
  <2>4. Rises(FlattenSeq(Chunks(c, d, M)), c * M, (M - 1) * d + c, d - c + 1)
    <3>1. CASE K = 0
      <4>1. Chunks(c, d, K) = <<>>
        BY <3>1, <2>2, EmptySeq DEF Chunks
      <4>2. FlattenSeq(Chunks(c, d, M)) = r
        BY <4>1, <2>2, <2>3, FlattenEmpty, ConcatEmptySeq
      <4>3. K * d = 0 /\ c * M = c /\ (M - 1) * d + c = c
        BY <2>0, <3>1
      <4>4. /\ r \in Seq(Nat) /\ Len(r) = c /\ c >= 1
            /\ \A i \in 1..c : r[i] = i
        BY <2>1, <2>a, <4>3 DEF Chunk
      <4>5. \A i \in 1..c - 1 : r[i + 1] - r[i] <= d - c + 1
        BY <4>4
      <4>6. Rises(r, c, c, d - c + 1)
        BY <4>4, <4>5 DEF Rises
      <4> QED BY <4>2, <4>3, <4>6
    <3>2. CASE K # 0
      <4>1. Rises(FlattenSeq(Chunks(c, d, K)), c * K, (K - 1) * d + c, d - c + 1)
        BY <1>2, <3>2
      <4>2. c * K \in Nat /\ (K - 1) * d + c \in Nat /\ K * d \in Nat /\ K * d >= (K - 1) * d + c
            /\ K * d < (K - 1) * d + c + (d - c + 1)
        <5>1. (K - 1) * d \in Nat /\ K * d = (K - 1) * d + d /\ c * K \in Nat
          BY <3>2
        <5> QED BY <5>1
      <4>3. PICK len, top, g : len = c * K /\ top = (K - 1) * d + c /\ g = d - c + 1
        OBVIOUS
      <4>4. Rises(FlattenSeq(Chunks(c, d, K)) \o r, len + c, low + c, g)
        <5>1. len \in Nat /\ top \in Nat /\ g \in Nat /\ low >= top /\ low < top + g
          BY <2>a, <4>2, <4>3
        <5>2. Rises(FlattenSeq(Chunks(c, d, K)), len, top, g)
          BY <4>1, <4>3
        <5> QED BY <2>1, <5>1, <5>2, RisesFurther
      <4>5. len + c = c * M /\ low + c = (M - 1) * d + c
        BY <2>0, <2>a, <4>3
      <4> QED BY <2>3, <4>3, <4>4, <4>5
    <3> QED BY <3>1, <3>2
  <2> QED BY <2>0, <2>4
<1>3. Nat \subseteq S
  <2> HIDE DEF S
  <2> QED BY <1>1, <1>2, SetInduction
<1> QED BY <1>3

(* The sample of a file of any length.                                     *)
LEMMA SampleIsSpread ==
  ASSUME NEW n \in Nat
  PROVE  /\ Len(Sample(n)) = (IF n <= SampleLimit THEN n ELSE SampleLimit) /\ ToSet(Sample(n)) \subseteq 1..n
         /\ \A i, j \in DOMAIN Sample(n) : i < j => Sample(n)[i] < Sample(n)[j]
         /\ \A i \in 1..Len(Sample(n)) - 1 :
              (Sample(n)[i + 1] - Sample(n)[i] - 1) * (SampleChunks - 1) <= n - Len(Sample(n))
         /\ n > 0 => Sample(n)[1] = 1 /\ n - Last(Sample(n)) < SampleChunks - 1
<1>0. SampleChunks \in Nat /\ SampleChunks > 1 /\ SampleLimit \in Nat
  BY CodecsAssumption
<1>a. SampleLimit \div SampleChunks \in Nat /\ (SampleLimit \div SampleChunks) * SampleChunks = SampleLimit
  BY <1>0, CodecsAssumption
<1>1. PICK s : s = Sample(n)
  OBVIOUS
<1>2. CASE n <= SampleLimit
  <2>1. s = [i \in 1..n |-> i]
    BY <1>1, <1>2 DEF Sample
  <2>2. s \in Seq(Nat) /\ Len(s) = n /\ DOMAIN s = 1..n
    <3>1. s \in [1..n -> Nat]
      BY <2>1
    <3> QED BY <3>1, IsASeq, LenProperties
  <2>3. \A i \in 1..n : s[i] = i
    BY <2>1
  <2>4. ToSet(s) \subseteq 1..n
    BY <2>2, <2>3 DEF ToSet
  <2>5. n > 0 => s[1] = 1 /\ n - Last(s) = 0
    BY <2>2, <2>3 DEF Last
  <2>6. \A i \in 1..n - 1 : (s[i + 1] - s[i] - 1) * (SampleChunks - 1) <= n - n
    <3>1. ASSUME NEW i \in 1..n - 1 PROVE (s[i + 1] - s[i] - 1) * (SampleChunks - 1) <= n - n
      <4>1. s[i + 1] = i + 1 /\ s[i] = i
        BY <2>3
      <4>2. s[i + 1] - s[i] - 1 = 0
        BY <4>1
      <4> QED BY <1>0, <4>2
    <3> QED BY <3>1
  <2> QED BY <1>0, <1>1, <1>2, <2>2, <2>3, <2>4, <2>5, <2>6
<1>3. CASE ~(n <= SampleLimit)
  <2> DEFINE c == SampleLimit \div SampleChunks
             d == (n - c) \div (SampleChunks - 1)
  <2>1. c \in Nat /\ c >= 1 /\ c * SampleChunks = SampleLimit
    <3>1. SampleLimit > 0
      BY CodecsAssumption
    <3> QED BY <1>0, <1>a, <3>1
  <2>2. d \in Nat /\ d >= c /\ d * (SampleChunks - 1) <= n - c /\ n - c < d * (SampleChunks - 1) + (SampleChunks - 1)
    <3> HIDE DEF c
    <3>1. n - c \in Nat /\ c * (SampleChunks - 1) <= n - c
      BY <1>0, <1>3, <2>1
    <3> DEFINE m == SampleChunks - 1
               r == n - c
    <3>2. m \in Nat /\ m >= 1 /\ r \in Nat /\ c * m <= r /\ c \in Nat
      BY <1>0, <2>1, <3>1
    <3> HIDE DEF m, r
    <3>3. r \div m \in Nat /\ (r \div m) * m <= r /\ r < (r \div m) * m + m
      BY <3>2
    <3>4. r \div m >= c
      BY <3>2, <3>3
    <3> QED BY <3>3, <3>4 DEF m, r
  <2>3. s = FlattenSeq(Chunks(c, d, SampleChunks))
    BY <1>1, <1>3 DEF Sample, Chunks, ChunkAt
  <2> HIDE DEF c, d
  <2>4. Rises(s, c * SampleChunks, (SampleChunks - 1) * d + c, d - c + 1)
    BY <1>0, <2>1, <2>2, <2>3, ChunksRise
  <2>5. PICK len, top : len = c * SampleChunks /\ top = (SampleChunks - 1) * d + c
    OBVIOUS
  <2>6. len \in Nat /\ top \in Nat /\ len = SampleLimit /\ top <= n /\ n - top < SampleChunks - 1
    BY <1>0, <2>1, <2>2, <2>5
  <2>7. /\ s \in Seq(Nat) /\ Len(s) = len /\ len >= 1
        /\ s[1] = 1 /\ s[len] = top
        /\ \A i, j \in 1..len : i < j => s[i] < s[j]
        /\ \A i \in 1..len - 1 : s[i + 1] - s[i] <= d - c + 1
    BY <2>4, <2>5 DEF Rises
  <2>8. DOMAIN s = 1..len /\ \A i \in 1..len : s[i] \in Nat
    BY <2>7, LenProperties, ElementOfSeq
  <2>9. \A i \in 1..len : s[i] \in 1..n
    <3>1. ASSUME NEW i \in 1..len PROVE s[i] \in 1..n
      <4>1. i = 1 \/ s[1] < s[i]
        BY <2>7
      <4>2. i = len \/ s[i] < s[len]
        BY <2>6, <2>7
      <4> QED BY <2>6, <2>7, <2>8, <4>1, <4>2
    <3> QED BY <3>1
  <2>10. ToSet(s) \subseteq 1..n
    BY <2>8, <2>9 DEF ToSet
  <2>11. s[1] = 1 /\ n - Last(s) < SampleChunks - 1
    BY <2>6, <2>7 DEF Last
  <2>12. ASSUME NEW i \in 1..len - 1 PROVE (s[i + 1] - s[i] - 1) * (SampleChunks - 1) <= n - len
    <3>1. i \in 1..len /\ i + 1 \in 1..len
      BY <2>6
    <3>2. PICK g \in Int : g = s[i + 1] - s[i] - 1
      BY <2>8, <3>1
    <3>3. PICK m \in Nat : m = SampleChunks - 1
      BY <1>0
    <3>4. g <= d - c
      BY <2>1, <2>2, <2>7, <3>2
    <3>5. g * m <= (d - c) * m
      BY <2>1, <2>2, <3>3, <3>4
    <3>6. (d - c) * m = d * m - c * m /\ c * m + c = len /\ d * m <= n - c
      BY <1>0, <2>1, <2>2, <2>5, <3>3
    <3> QED BY <2>1, <2>2, <2>6, <3>2, <3>3, <3>5, <3>6
  <2> QED BY <1>1, <1>3, <2>6, <2>7, <2>8, <2>10, <2>11, <2>12
<1> QED BY <1>2, <1>3

(* Whatever the size of the file, the sample of recommend.py has the full  *)
(* length, stays within the file, reads no byte twice, reaches from its    *)
(* start to its end and skips no more than an equal share anywhere.        *)
THEOREM SampleTheorem == Spec => []SampleSpreads
<1>1. InputInv => SampleSpreads
  <2> SUFFICES ASSUME InputInv, kind = "file" PROVE SampleSpreads
    BY DEF SampleSpreads
  <2>1. Len(input) \in Nat
    BY LenProperties DEF InputInv
  <2>2. PICK n \in Nat : n = Len(input)
    BY <2>1
  <2> QED BY <2>2, SampleIsSpread, Zenon DEF SampleSpreads
<1> QED BY <1>1, InputsHold, PTL

-----------------------------------------------------------------------------
(* RLE *)

(* Repetitions: their type, how they grow and that they join.              *)
LEMMA RepeatType ==
  ASSUME NEW X, NEW v \in X, NEW n \in Nat
  PROVE  /\ Repeat(v, n) \in Seq(X) /\ Len(Repeat(v, n)) = n
         /\ \A i \in 1..n : Repeat(v, n)[i] = v
<1>1. Repeat(v, n) \in [1..n -> X]
  BY DEF Repeat
<1>2. \A i \in 1..n : Repeat(v, n)[i] = v
  BY DEF Repeat
<1> QED BY <1>1, <1>2, IsASeq, LenProperties

(* One repetition more.                                                    *)
LEMMA RepeatMore ==
  ASSUME NEW X, NEW v \in X, NEW n \in Nat
  PROVE  Repeat(v, n + 1) = Append(Repeat(v, n), v)
<1> DEFINE s == Repeat(v, n)
           t == Repeat(v, n + 1)
<1>1. s \in Seq(X) /\ Len(s) = n /\ \A i \in 1..n : s[i] = v
  BY RepeatType
<1>2. t \in Seq(X) /\ Len(t) = n + 1 /\ \A i \in 1..n + 1 : t[i] = v
  BY RepeatType
<1> HIDE DEF s, t
<1>3. t[Len(t)] = v /\ \A i \in 1..Len(s) : t[i] = s[i]
  BY <1>1, <1>2
<1>4. t = Append(s, v)
  BY <1>1, <1>2, <1>3, IsAppended
<1> QED BY <1>4 DEF s, t

(* No repetition.                                                          *)
LEMMA RepeatNone == \A v : Repeat(v, 0) = <<>>
<1>1. ASSUME NEW v PROVE Repeat(v, 0) = <<>>
  <2>1. Repeat(v, 0) \in Seq({v}) /\ Len(Repeat(v, 0)) = 0
    BY RepeatType
  <2> QED BY <2>1, EmptySeq
<1> QED BY <1>1

(* Repetitions of the same value join.                                     *)
LEMMA RepeatJoin ==
  ASSUME NEW X, NEW v \in X, NEW m \in Nat
  PROVE  \A n \in Nat : Repeat(v, m) \o Repeat(v, n) = Repeat(v, m + n)
<1> DEFINE S == {n \in Nat : Repeat(v, m) \o Repeat(v, n) = Repeat(v, m + n)}
<1>1. 0 \in S
  <2>1. Repeat(v, m) \o <<>> = Repeat(v, m)
    BY RepeatType, ConcatEmptySeq
  <2>2. Repeat(v, 0) = <<>> /\ m + 0 = m
    BY RepeatNone
  <2> QED BY <2>1, <2>2
<1>2. ASSUME NEW n \in Nat, n \in S PROVE n + 1 \in S
  <2>1. Repeat(v, m) \in Seq(X) /\ Repeat(v, n) \in Seq(X)
    BY RepeatType
  <2>2. Repeat(v, n + 1) = Append(Repeat(v, n), v)
    BY RepeatMore
  <2>3. Repeat(v, m) \o Append(Repeat(v, n), v) = Append(Repeat(v, m) \o Repeat(v, n), v)
    BY <2>1, ConcatAppend
  <2>4. Repeat(v, m) \o Repeat(v, n) = Repeat(v, m + n)
    BY <1>2
  <2>5. Repeat(v, (m + n) + 1) = Append(Repeat(v, m + n), v)
    <3>1. m + n \in Nat
      OBVIOUS
    <3> HIDE DEF S
    <3> QED BY <3>1, RepeatMore
  <2>6. (m + n) + 1 = m + (n + 1)
    OBVIOUS
  <2> HIDE DEF S
  <2>7. Repeat(v, m) \o Repeat(v, n + 1) = Repeat(v, m + (n + 1))
    BY <2>2, <2>3, <2>4, <2>5, <2>6, Zenon
  <2> USE DEF S
  <2> QED BY <2>7
<1>3. Nat \subseteq S
  <2> HIDE DEF S
  <2> QED BY <1>1, <1>2, SetInduction
<1> QED BY <1>3

(* Runs of any length, and what they stand for.                            *)
Positive == Nat \ {0}
AnyRuns == Positive \X Bytes
Expand == [r \in AnyRuns |-> Repeat(r[2], r[1])]

(* Each run expands to bytes.                                              *)
LEMMA ExpandType == Mapper(Expand, AnyRuns, Bytes)
<1>1. ASSUME NEW r \in AnyRuns PROVE Repeat(r[2], r[1]) \in Seq(Bytes)
  <2>1. r[1] \in Nat /\ r[2] \in Bytes
    BY DEF AnyRuns, Positive
  <2> QED BY <2>1, RepeatType
<1> QED BY <1>1 DEF Expand, Mapper

(* The runs of a longer input: the last run grows, or a new one begins.    *)
RunStep(runs, v) ==
  IF runs # <<>> /\ Last(runs)[2] = v
  THEN Append(Front(runs), <<Last(runs)[1] + 1, v>>)
  ELSE Append(runs, <<1, v>>)

RunF == [p \in Seq(AnyRuns) \X Bytes |-> RunStep(p[1], p[2])]

(* One run more appends what it expands to.                                *)
LEMMA ExpandOneMore ==
  ASSUME NEW q \in Seq(AnyRuns), NEW e \in AnyRuns
  PROVE  Mapped(Expand, Append(q, e)) = Mapped(Expand, q) \o Expand[e]
BY ExpandType, MappedAppend, Zenon

(* A byte lengthens the last run or begins one: the runs stand for one     *)
(* byte more.                                                              *)
LEMMA RunStepEffect ==
  ASSUME NEW r \in Seq(AnyRuns), NEW v \in Bytes
  PROVE  /\ RunStep(r, v) \in Seq(AnyRuns)
         /\ Mapped(Expand, RunStep(r, v)) = Append(Mapped(Expand, r), v)
<1>1. CASE r # <<>> /\ Last(r)[2] = v
  <2>1. PICK q \in Seq(AnyRuns), e \in AnyRuns : r = Append(q, e)
    BY <1>1, SequenceEmptyOrAppend
  <2>2. Front(r) = q /\ Last(r) = e
    <3>1. Len(r) = Len(q) + 1 /\ Len(q) \in Nat /\ r[Len(q) + 1] = e /\ \A i \in 1..Len(q) : r[i] = q[i]
      BY <2>1, AppendProperties, LenProperties
    <3>2. Last(r) = e
      BY <3>1 DEF Last
    <3>3. q = [i \in 1..Len(q) |-> q[i]]
      BY LenProperties
    <3>4. Front(r) = [i \in 1..Len(q) |-> r[i]]
      BY <3>1 DEF Front
    <3> QED BY <3>1, <3>2, <3>3, <3>4
  <2>3. PICK n : n = e[1]
    OBVIOUS
  <2>4. n \in Positive /\ e = <<n, v>> /\ n \in Nat /\ n + 1 \in Nat /\ n + 1 \in Positive
    BY <1>1, <2>2, <2>3 DEF AnyRuns, Positive
  <2>5. <<n, v>> \in AnyRuns /\ <<n + 1, v>> \in AnyRuns
    BY <2>4 DEF AnyRuns
  <2>6. RunStep(r, v) = Append(q, <<n + 1, v>>)
    BY <1>1, <2>2, <2>3 DEF RunStep
  <2>7. Expand[<<n, v>>] = Repeat(v, n) /\ Expand[<<n + 1, v>>] = Repeat(v, n + 1)
    BY <2>5 DEF Expand
  <2>8. Mapped(Expand, r) = Mapped(Expand, q) \o Repeat(v, n)
    <3>1. Mapped(Expand, Append(q, <<n, v>>)) = Mapped(Expand, q) \o Expand[<<n, v>>]
      BY <2>5, ExpandOneMore, Zenon
    <3> QED BY <2>1, <2>4, <2>7, <3>1, Zenon
  <2>9. Mapped(Expand, RunStep(r, v)) = Mapped(Expand, q) \o Repeat(v, n + 1)
    <3>1. Mapped(Expand, Append(q, <<n + 1, v>>)) = Mapped(Expand, q) \o Expand[<<n + 1, v>>]
      BY <2>5, ExpandOneMore, Zenon
    <3> QED BY <2>6, <2>7, <3>1, Zenon
  <2>10. Repeat(v, n + 1) = Append(Repeat(v, n), v) /\ Repeat(v, n) \in Seq(Bytes)
    BY <2>4, RepeatMore, RepeatType
  <2>11. Mapped(Expand, q) \o Append(Repeat(v, n), v) = Append(Mapped(Expand, q) \o Repeat(v, n), v)
    BY <2>10, ExpandType, MappedType, ConcatAppend
  <2>12. RunStep(r, v) \in Seq(AnyRuns)
    BY <2>5, <2>6, AppendProperties
  <2> QED BY <2>8, <2>9, <2>10, <2>11, <2>12, Zenon
<1>2. CASE ~(r # <<>> /\ Last(r)[2] = v)
  <2>1. <<1, v>> \in AnyRuns
    BY DEF AnyRuns, Positive
  <2>2. RunStep(r, v) = Append(r, <<1, v>>)
    BY <1>2 DEF RunStep
  <2>3. Expand[<<1, v>>] = Repeat(v, 1)
    BY <2>1 DEF Expand
  <2>4. Repeat(v, 1) = <<v>>
    <3>1. Repeat(v, 0 + 1) = Append(Repeat(v, 0), v)
      BY RepeatMore
    <3>2. 0 + 1 = 1 /\ Append(<<>>, v) = <<v>>
      OBVIOUS
    <3> QED BY <3>1, <3>2, RepeatNone, Zenon
  <2>5. Mapped(Expand, RunStep(r, v)) = Mapped(Expand, r) \o <<v>>
    BY <2>1, <2>2, <2>3, <2>4, ExpandOneMore, Zenon
  <2>6. Mapped(Expand, r) \o <<v>> = Append(Mapped(Expand, r), v)
    BY ExpandType, MappedType, AppendIsConcat
  <2>7. RunStep(r, v) \in Seq(AnyRuns)
    BY <2>1, <2>2, AppendProperties
  <2> QED BY <2>5, <2>6, <2>7, Zenon
<1> QED BY <1>1, <1>2

(* Its steps lead from runs to runs.                                       *)
LEMMA RunFType == Folder(RunF, Seq(AnyRuns), Bytes, <<>>)
<1>1. ASSUME NEW p \in Seq(AnyRuns) \X Bytes PROVE RunStep(p[1], p[2]) \in Seq(AnyRuns)
  BY RunStepEffect
<1> QED BY <1>1, EmptySeq DEF RunF, Folder

(* Runs is the fold of these steps.                                        *)
LEMMA RunsIsFolded ==
  ASSUME NEW data \in Seq(Bytes)
  PROVE  Runs(data) = Folded(RunF, <<>>, data)
<1> DEFINE Sol(g) == g = [t \in SUBSET DOMAIN data |->
                            IF t = {} THEN <<>> ELSE RunStep(g[t \ {Max(t)}], data[Max(t)])]
           iter == CHOOSE g : Sol(g)
<1>1. ASSUME NEW t \in SUBSET DOMAIN data, t # {}, NEW a \in Seq(AnyRuns)
      PROVE  RunF[<<a, data[Max(t)]>>] = RunStep(a, data[Max(t)])
  BY <1>1, TopElement DEF RunF
<1>2. \E g : Sol(g)
  <2>1. PICK g \in [SUBSET DOMAIN data -> Seq(AnyRuns)] : Steps(g, RunF, <<>>, data)
    BY RunFType, StepsExist
  <2>2. ASSUME NEW t \in SUBSET DOMAIN data, t # {}
        PROVE  RunF[<<g[t \ {Max(t)}], data[Max(t)]>>] = RunStep(g[t \ {Max(t)}], data[Max(t)])
    BY <1>1, <2>2
  <2>3. Sol(g)
    BY <2>1, <2>2 DEF Steps
  <2> QED BY <2>3
<1>3. Sol(iter)
  <2> HIDE DEF Sol
  <2> QED BY <1>2
<1>4. Runs(data) = iter[DOMAIN data]
  BY DEF Runs, FoldLeft, MapThenFoldSet, RunStep
<1> HIDE DEF iter
<1>5. Solves(iter, Seq(AnyRuns), RunF, <<>>, data)
  BY <1>1, <1>3 DEF Solves
<1> QED BY <1>4, <1>5, RunFType, SolvesFold

(* The runs of an input stand for it.                                      *)
LEMMA RunsRestore ==
  ASSUME NEW data \in Seq(Bytes)
  PROVE  Runs(data) \in Seq(AnyRuns) /\ Mapped(Expand, Runs(data)) = data
<1> DEFINE R(d) == Folded(RunF, <<>>, d)
           Q == {d \in Seq(Bytes) : Mapped(Expand, R(d)) = d}
<1>1. \A d \in Seq(Bytes) : R(d) \in Seq(AnyRuns)
  BY RunFType, FoldedType
<1>2. <<>> \in Q
  <2>1. R(<<>>) = <<>>
    BY RunFType, FoldedEmpty
  <2>2. <<>> \in Seq(Bytes)
    BY EmptySeq
  <2> QED BY <2>1, <2>2, MappedEmpty, Zenon
<1>3. ASSUME NEW d \in Seq(Bytes), NEW v \in Bytes, d \in Q PROVE Append(d, v) \in Q
  <2>1. R(Append(d, v)) = RunF[<<R(d), v>>]
    BY RunFType, FoldedAppend
  <2>2. R(d) \in Seq(AnyRuns)
    BY <1>1
  <2> HIDE DEF R
  <2>3. RunF[<<R(d), v>>] = RunStep(R(d), v)
    BY <2>2 DEF RunF
  <2>4. Mapped(Expand, RunStep(R(d), v)) = Append(Mapped(Expand, R(d)), v)
    BY <2>2, RunStepEffect
  <2>5. Mapped(Expand, R(d)) = d
    BY <1>3
  <2>6. Mapped(Expand, R(Append(d, v))) = Append(d, v)
    BY <2>1, <2>3, <2>4, <2>5, Zenon
  <2>7. Append(d, v) \in Seq(Bytes)
    BY AppendProperties
  <2> QED BY <2>6, <2>7, Zenon
<1>4. Seq(Bytes) \subseteq Q
  <2> HIDE DEF Q
  <2> QED BY <1>2, <1>3, SeqInduction
<1> QED BY <1>1, <1>4, RunsIsFolded

(* Records are runs that a count field can hold.                           *)
Records == (1..MaxRun) \X Bytes

(* A record is a run that its field can count.                             *)
LEMMA RecordsAreRuns == Seq(Records) \subseteq Seq(AnyRuns)
<1>1. Records \subseteq AnyRuns
  BY DEF Records, AnyRuns, Positive
<1> QED BY <1>1, SeqMonotonic

(* Integer division.                                                       *)
LEMMA Divided ==
  ASSUME NEW a \in Nat, NEW b \in Nat, b >= 1
  PROVE  a \div b \in Nat /\ (a \div b) * b <= a /\ a < (a \div b) * b + b
  OBVIOUS

(* A run in records as long as fit, and the rest.                          *)
LEMMA SplitEffect ==
  ASSUME NEW r \in AnyRuns
  PROVE  Split(r) \in Seq(Records) /\ Mapped(Expand, Split(r)) = Expand[r]
<1> DEFINE full == (r[1] - 1) \div MaxRun
<1>1. PICK n, v : n = r[1] /\ v = r[2]
  OBVIOUS
<1>2. n \in Nat /\ n >= 1 /\ v \in Bytes /\ r = <<n, v>>
  BY <1>1 DEF AnyRuns, Positive
<1>3. MaxRun \in Nat /\ MaxRun >= 1
  BY CodecsAssumption
<1>4. full \in Nat /\ full * MaxRun <= n - 1 /\ n - 1 < full * MaxRun + MaxRun
  <2>1. n - 1 \in Nat
    BY <1>2
  <2> QED BY <1>1, <1>3, <2>1, Divided
<1>5. PICK k : k = full
  OBVIOUS
<1>6. PICK rest : rest = n - k * MaxRun
  OBVIOUS
<1>7. k \in Nat /\ rest \in 1..MaxRun /\ rest \in Nat /\ k * MaxRun \in Nat /\ k * MaxRun + rest = n
  BY <1>2, <1>3, <1>4, <1>5, <1>6
<1>8. PICK x : x = <<MaxRun, v>>
  OBVIOUS
<1>9. Split(r) = Append(Repeat(x, k), <<rest, v>>)
  BY <1>1, <1>5, <1>6, <1>8 DEF Split
<1>10. x \in Records /\ <<rest, v>> \in Records
  BY <1>2, <1>3, <1>7, <1>8 DEF Records
<1>11. Split(r) \in Seq(Records)
  BY <1>7, <1>9, <1>10, RepeatType, AppendProperties
<1>12. x \in AnyRuns /\ <<rest, v>> \in AnyRuns
  BY <1>10 DEF Records, AnyRuns, Positive
<1>13. Mapped(Expand, Repeat(x, k)) = Repeat(v, k * MaxRun)
  <2> DEFINE S == {j \in Nat : Mapped(Expand, Repeat(x, j)) = Repeat(v, j * MaxRun)}
  <2>1. 0 \in S
    <3>1. Repeat(x, 0) = <<>> /\ Repeat(v, 0) = <<>> /\ 0 * MaxRun = 0
      BY <1>3, RepeatNone
    <3>2. Mapped(Expand, Repeat(x, 0)) = Repeat(v, 0 * MaxRun)
      BY <3>1, MappedEmpty, Zenon
    <3> QED BY <3>2
  <2>2. ASSUME NEW j \in Nat, j \in S PROVE j + 1 \in S
    <3>1. Repeat(x, j + 1) = Append(Repeat(x, j), x) /\ Repeat(x, j) \in Seq(AnyRuns)
      BY <1>12, RepeatMore, RepeatType
    <3>2. Mapped(Expand, Append(Repeat(x, j), x)) = Mapped(Expand, Repeat(x, j)) \o Expand[x]
      BY <1>12, <3>1, ExpandOneMore
    <3>3. Expand[x] = Repeat(v, MaxRun)
      BY <1>8, <1>12 DEF Expand
    <3>4. PICK m \in Nat : m = j * MaxRun
      BY <1>3
    <3>5. (j + 1) * MaxRun = m + MaxRun
      BY <1>3, <3>4
    <3>6. Mapped(Expand, Repeat(x, j)) = Repeat(v, m)
      BY <2>2, <3>4
    <3> HIDE DEF S
    <3>7. Repeat(v, m) \o Repeat(v, MaxRun) = Repeat(v, m + MaxRun)
      BY <1>2, <1>3, RepeatJoin
    <3>8. Mapped(Expand, Repeat(x, j + 1)) = Repeat(v, (j + 1) * MaxRun)
      BY <3>1, <3>2, <3>3, <3>5, <3>6, <3>7, Zenon
    <3> QED BY <3>8 DEF S
  <2>3. Nat \subseteq S
    <3> HIDE DEF S
    <3> QED BY <2>1, <2>2, SetInduction
  <2> QED BY <1>7, <2>3
<1>14. Mapped(Expand, Split(r)) = Mapped(Expand, Repeat(x, k)) \o Expand[<<rest, v>>]
  <2>1. PICK s : s = Repeat(x, k)
    OBVIOUS
  <2>2. s \in Seq(AnyRuns)
    BY <1>7, <1>12, <2>1, RepeatType
  <2>3. Mapped(Expand, Append(s, <<rest, v>>)) = Mapped(Expand, s) \o Expand[<<rest, v>>]
    BY <1>12, <2>2, ExpandOneMore
  <2> QED BY <1>9, <2>1, <2>3, Zenon
<1>15. Expand[<<rest, v>>] = Repeat(v, rest) /\ Expand[r] = Repeat(v, n)
  BY <1>1, <1>12 DEF Expand
<1>16. Repeat(v, k * MaxRun) \o Repeat(v, rest) = Repeat(v, n)
  <2>1. PICK m \in Nat : m = k * MaxRun
    BY <1>7
  <2>2. Repeat(v, m) \o Repeat(v, rest) = Repeat(v, m + rest)
    BY <1>2, <1>7, RepeatJoin
  <2> QED BY <1>7, <2>1, <2>2
<1> QED BY <1>11, <1>13, <1>14, <1>15, <1>16, Zenon

SplitF == [r \in AnyRuns |-> Split(r)]

(* Every run is split into records.                                        *)
LEMMA SplitType == Mapper(SplitF, AnyRuns, Records)
  BY SplitEffect DEF SplitF, Mapper

(* Splitting changes nothing of what the runs stand for.                   *)
LEMMA SplitRestores ==
  \A R \in Seq(AnyRuns) : Mapped(Expand, Mapped(SplitF, R)) = Mapped(Expand, R)
<1> DEFINE Q == {R \in Seq(AnyRuns) : Mapped(Expand, Mapped(SplitF, R)) = Mapped(Expand, R)}
<1>1. <<>> \in Q
  <2>1. <<>> \in Seq(AnyRuns)
    BY EmptySeq
  <2> QED BY <2>1, MappedEmpty, Zenon
<1>2. ASSUME NEW R \in Seq(AnyRuns), NEW r \in AnyRuns, R \in Q PROVE Append(R, r) \in Q
  <2>1. Mapped(SplitF, Append(R, r)) = Mapped(SplitF, R) \o SplitF[r]
    BY SplitType, MappedAppend
  <2>2. Mapped(SplitF, R) \in Seq(Records)
    BY SplitType, MappedType
  <2>3. SplitF[r] = Split(r) /\ Split(r) \in Seq(Records) /\ Mapped(Expand, Split(r)) = Expand[r]
    BY SplitEffect DEF SplitF
  <2>4. Mapped(SplitF, R) \in Seq(AnyRuns) /\ SplitF[r] \in Seq(AnyRuns)
    BY <2>2, <2>3, RecordsAreRuns
  <2>5. Mapped(Expand, Mapped(SplitF, R) \o SplitF[r])
          = Mapped(Expand, Mapped(SplitF, R)) \o Mapped(Expand, SplitF[r])
    <3>1. PICK s, t : s = Mapped(SplitF, R) /\ t = SplitF[r]
      OBVIOUS
    <3>2. s \in Seq(AnyRuns) /\ t \in Seq(AnyRuns)
      BY <2>4, <3>1
    <3>3. Mapped(Expand, s \o t) = Mapped(Expand, s) \o Mapped(Expand, t)
      BY <3>2, ExpandType, MappedConcat
    <3> QED BY <3>1, <3>3, Zenon
  <2>6. Mapped(Expand, Append(R, r)) = Mapped(Expand, R) \o Expand[r]
    BY ExpandOneMore
  <2>7. Mapped(Expand, Mapped(SplitF, R)) = Mapped(Expand, R)
    BY <1>2
  <2>8. Mapped(Expand, Mapped(SplitF, Append(R, r))) = Mapped(Expand, Append(R, r))
    BY <2>1, <2>3, <2>5, <2>6, <2>7, Zenon
  <2>9. Append(R, r) \in Seq(AnyRuns)
    BY AppendProperties
  <2> QED BY <2>8, <2>9, Zenon
<1>3. Seq(AnyRuns) \subseteq Q
  <2> HIDE DEF Q
  <2> QED BY <1>1, <1>2, SeqInduction
<1> QED BY <1>3

(* What the encoder writes: records that its fields can hold, and that     *)
(* stand for the input.                                                    *)
LEMMA RleCompressed ==
  ASSUME NEW data \in Seq(Bytes)
  PROVE  RleCompress(data) \in Seq(Records) /\ Mapped(Expand, RleCompress(data)) = data
<1>1. Runs(data) \in Seq(AnyRuns) /\ Mapped(Expand, Runs(data)) = data
  BY RunsRestore
<1>2. RleCompress(data) = Mapped(SplitF, Runs(data))
  <2>1. PICK R \in Seq(AnyRuns) : R = Runs(data)
    BY <1>1
  <2>2. \A i \in DOMAIN R : R[i] \in AnyRuns
    BY LenProperties, ElementOfSeq
  <2>3. [i \in DOMAIN R |-> Split(R[i])] = [i \in DOMAIN R |-> SplitF[R[i]]]
    BY <2>2 DEF SplitF
  <2> QED BY <2>1, <2>3 DEF RleCompress, Mapped, Image
<1> QED BY <1>1, <1>2, SplitType, MappedType, SplitRestores

(* The decoder's count of the bytes.                                       *)
CountF == [p \in Nat \X AnyRuns |-> p[1] + p[2][1]]

(* The decoder's sum of the counts is a fold ...                           *)
LEMMA CountFType == Folder(CountF, Nat, AnyRuns, 0)
  BY DEF CountF, Folder, AnyRuns, Positive

(* ... of these additions.                                                 *)
LEMMA CountIsFolded ==
  ASSUME NEW records \in Seq(AnyRuns)
  PROVE  FoldLeft(LAMBDA n, r : n + r[1], 0, records) = Folded(CountF, 0, records)
<1> DEFINE Sol(g) == g = [t \in SUBSET DOMAIN records |->
                            IF t = {} THEN 0 ELSE g[t \ {Max(t)}] + records[Max(t)][1]]
           iter == CHOOSE g : Sol(g)
<1>1. ASSUME NEW t \in SUBSET DOMAIN records, t # {}, NEW a \in Nat
      PROVE  CountF[<<a, records[Max(t)]>>] = a + records[Max(t)][1]
  BY <1>1, TopElement DEF CountF
<1>2. \E g : Sol(g)
  <2>1. PICK g \in [SUBSET DOMAIN records -> Nat] : Steps(g, CountF, 0, records)
    BY CountFType, StepsExist
  <2>2. ASSUME NEW t \in SUBSET DOMAIN records, t # {}
        PROVE  CountF[<<g[t \ {Max(t)}], records[Max(t)]>>] = g[t \ {Max(t)}] + records[Max(t)][1]
    BY <1>1, <2>2
  <2>3. Sol(g)
    BY <2>1, <2>2 DEF Steps
  <2> QED BY <2>3
<1>3. Sol(iter)
  <2> HIDE DEF Sol
  <2> QED BY <1>2
<1>4. FoldLeft(LAMBDA n, r : n + r[1], 0, records) = iter[DOMAIN records]
  BY DEF FoldLeft, MapThenFoldSet
<1> HIDE DEF iter
<1>5. Solves(iter, Nat, CountF, 0, records)
  BY <1>1, <1>3 DEF Solves
<1>6. iter[DOMAIN records] = Folded(CountF, 0, records)
  BY <1>5, CountFType, SolvesFold
<1> QED BY <1>4, <1>6, Zenon

(* It counts what the records stand for.                                   *)
LEMMA CountIsLength ==
  \A R \in Seq(AnyRuns) : Folded(CountF, 0, R) = Len(Mapped(Expand, R))
<1> DEFINE Q == {R \in Seq(AnyRuns) : Folded(CountF, 0, R) = Len(Mapped(Expand, R))}
<1>1. <<>> \in Q
  <2>1. <<>> \in Seq(AnyRuns) /\ Len(<<>>) = 0
    BY EmptySeq
  <2>2. Folded(CountF, 0, <<>>) = 0
    BY CountFType, FoldedEmpty
  <2> QED BY <2>1, <2>2, MappedEmpty, Zenon
<1>2. ASSUME NEW R \in Seq(AnyRuns), NEW r \in AnyRuns, R \in Q PROVE Append(R, r) \in Q
  <2>1. Folded(CountF, 0, Append(R, r)) = CountF[<<Folded(CountF, 0, R), r>>]
    BY CountFType, FoldedAppend
  <2>2. Folded(CountF, 0, R) \in Nat
    BY CountFType, FoldedType
  <2>3. CountF[<<Folded(CountF, 0, R), r>>] = Folded(CountF, 0, R) + r[1]
    BY <2>2 DEF CountF
  <2>4. Mapped(Expand, Append(R, r)) = Mapped(Expand, R) \o Expand[r]
    BY ExpandOneMore
  <2>5. r[1] \in Nat /\ r[2] \in Bytes /\ Expand[r] = Repeat(r[2], r[1])
    BY DEF AnyRuns, Positive, Expand
  <2>6. Expand[r] \in Seq(Bytes) /\ Len(Expand[r]) = r[1] /\ Mapped(Expand, R) \in Seq(Bytes)
    <3>1. Mapped(Expand, R) \in Seq(Bytes)
      BY ExpandType, MappedType
    <3>2. Repeat(r[2], r[1]) \in Seq(Bytes) /\ Len(Repeat(r[2], r[1])) = r[1]
      BY <2>5, RepeatType
    <3> QED BY <2>5, <3>1, <3>2, Zenon
  <2>7. Len(Mapped(Expand, R) \o Expand[r]) = Len(Mapped(Expand, R)) + Len(Expand[r])
    BY <2>6, ConcatProperties
  <2>8. Folded(CountF, 0, R) = Len(Mapped(Expand, R))
    BY <1>2
  <2>9. Folded(CountF, 0, Append(R, r)) = Len(Mapped(Expand, Append(R, r)))
    BY <2>1, <2>3, <2>4, <2>6, <2>7, <2>8, Zenon
  <2>10. Append(R, r) \in Seq(AnyRuns)
    BY AppendProperties
  <2> QED BY <2>9, <2>10, Zenon
<1>3. Seq(AnyRuns) \subseteq Q
  <2> HIDE DEF Q
  <2> QED BY <1>1, <1>2, SeqInduction
<1> QED BY <1>3

(* RLE restores every input.                                               *)
LEMMA RleRestores ==
  ASSUME NEW data \in Seq(Bytes)
  PROVE  RleDecompress(RleCompress(data), Len(data)) = Restored(data)
<1>1. PICK records : records = RleCompress(data)
  OBVIOUS
<1>2. records \in Seq(Records) /\ records \in Seq(AnyRuns) /\ Mapped(Expand, records) = data
  BY <1>1, RleCompressed, RecordsAreRuns
<1>3. \A i \in DOMAIN records : records[i] \in AnyRuns
  BY <1>2, LenProperties, ElementOfSeq
<1>4. ~\E i \in DOMAIN records : records[i][1] = 0
  BY <1>3 DEF AnyRuns, Positive
<1>5. FoldLeft(LAMBDA n, r : n + r[1], 0, records) = Len(data)
  BY <1>2, CountIsFolded, CountIsLength
<1>6. Len(data) \in Nat
  BY LenProperties
<1>7. [i \in DOMAIN records |-> Repeat(records[i][2], records[i][1])] = Image(Expand, records)
  BY <1>3 DEF Image, Expand
<1>8. FlattenSeq([i \in DOMAIN records |-> Repeat(records[i][2], records[i][1])]) = data
  BY <1>2, <1>7, Zenon DEF Mapped
<1>9. ~(Len(data) > Len(data))
  BY <1>6
<1> QED BY <1>1, <1>4, <1>5, <1>8, <1>9 DEF RleDecompress

-----------------------------------------------------------------------------
(* LZW *)

Phrases == Seq(Bytes) \ {<<>>}

(* The states of the encoder.                                              *)
Coders == [dictionary : Seq(Nat \X Bytes), phrase : Nat, codes : Seq(Nat)]

(* The encoder's dictionary with one entry more, if there is room.         *)
Grown(s, v) ==
  IF Symbols + Len(s.dictionary) <= MaxCode
  THEN Append(s.dictionary, <<s.phrase, v>>) ELSE s.dictionary

(* The two steps of the encoder: it goes on in entry i, or writes a code.  *)
GoesOn(s, v, i) ==
  /\ i \in DOMAIN s.dictionary /\ s.dictionary[i] = <<s.phrase, v>>
  /\ LzwStep(s, v) = [s EXCEPT !.phrase = Symbols + i - 1]

Writes(s, v) ==
  LzwStep(s, v) = [dictionary |-> Grown(s, v), phrase |-> v, codes |-> Append(s.codes, s.phrase)]

(* Each step is one of the two.                                            *)
LEMMA LzwSteps ==
  ASSUME NEW s \in Coders, NEW v \in Bytes
  PROVE  Writes(s, v) \/ \E i : GoesOn(s, v, i)
<1> DEFINE key == <<s.phrase, v>>
           known == {i \in DOMAIN s.dictionary : s.dictionary[i] = key}
           j == CHOOSE i \in known : TRUE
<1>1. CASE known = {}
  BY <1>1 DEF Writes, LzwStep, Grown
<1>2. CASE known # {}
  <2>1. j \in known
    BY <1>2
  <2>2. LzwStep(s, v) = [s EXCEPT !.phrase = Symbols + j - 1]
    BY <1>2 DEF LzwStep
  <2>3. GoesOn(s, v, j)
    BY <2>1, <2>2 DEF GoesOn
  <2> QED BY <2>3
<1> QED BY <1>1, <1>2

(* They lead to states of the encoder.                                     *)
LEMMA LzwStepType ==
  ASSUME NEW s \in Coders, NEW v \in Bytes
  PROVE  LzwStep(s, v) \in Coders
<1>1. Symbols \in Nat
  BY CodecsAssumption
<1>2. s.dictionary \in Seq(Nat \X Bytes) /\ s.phrase \in Nat /\ s.codes \in Seq(Nat) /\ v \in Nat
  BY <1>1 DEF Coders, Bytes
<1>3. CASE Writes(s, v)
  <2>1. Grown(s, v) \in Seq(Nat \X Bytes)
    BY <1>2, AppendProperties DEF Grown
  <2>2. Append(s.codes, s.phrase) \in Seq(Nat)
    BY <1>2, AppendProperties
  <2> QED BY <1>2, <1>3, <2>1, <2>2 DEF Writes, Coders
<1>4. ASSUME NEW i, GoesOn(s, v, i) PROVE LzwStep(s, v) \in Coders
  <2>1. i \in 1..Len(s.dictionary)
    BY <1>2, <1>4, LenProperties DEF GoesOn
  <2>2. Symbols + i - 1 \in Nat
    BY <1>1, <2>1
  <2> QED BY <1>4, <2>2 DEF GoesOn, Coders
<1> QED BY <1>3, <1>4, LzwSteps

CodeF == [p \in Coders \X Bytes |-> LzwStep(p[1], p[2])]
Coding(v) == [dictionary |-> <<>>, phrase |-> v, codes |-> <<>>]

(* The encoder's run is a fold of these steps.                             *)
LEMMA CodeFType ==
  ASSUME NEW v \in Bytes
  PROVE  Folder(CodeF, Coders, Bytes, Coding(v))
<1>1. Coding(v) \in Coders
  <2>1. v \in Nat
    BY CodecsAssumption DEF Bytes
  <2>2. <<>> \in Seq(Nat \X Bytes) /\ <<>> \in Seq(Nat)
    BY EmptySeq
  <2> QED BY <2>1, <2>2 DEF Coding, Coders
<1>2. ASSUME NEW p \in Coders \X Bytes PROVE LzwStep(p[1], p[2]) \in Coders
  BY LzwStepType
<1> QED BY <1>1, <1>2 DEF CodeF, Folder

(* FoldLeft of the encoder's step is that fold.                            *)
LEMMA CodingIsFolded ==
  ASSUME NEW v \in Bytes, NEW data \in Seq(Bytes)
  PROVE  FoldLeft(LzwStep, [dictionary |-> <<>>, phrase |-> v, codes |-> <<>>], data)
           = Folded(CodeF, Coding(v), data)
<1>0. PICK base : base = Coding(v)
  OBVIOUS
<1> DEFINE Sol(g) == g = [t \in SUBSET DOMAIN data |->
                            IF t = {} THEN base ELSE LzwStep(g[t \ {Max(t)}], data[Max(t)])]
           iter == CHOOSE g : Sol(g)
<1>1. ASSUME NEW t \in SUBSET DOMAIN data, t # {}, NEW a \in Coders
      PROVE  CodeF[<<a, data[Max(t)]>>] = LzwStep(a, data[Max(t)])
  BY <1>1, TopElement DEF CodeF
<1>f. Folder(CodeF, Coders, Bytes, base)
  BY <1>0, CodeFType
<1>2. \E g : Sol(g)
  <2>1. PICK g \in [SUBSET DOMAIN data -> Coders] : Steps(g, CodeF, base, data)
    BY <1>f, StepsExist
  <2>2. ASSUME NEW t \in SUBSET DOMAIN data, t # {}
        PROVE  CodeF[<<g[t \ {Max(t)}], data[Max(t)]>>] = LzwStep(g[t \ {Max(t)}], data[Max(t)])
    BY <1>1, <2>2
  <2>3. Sol(g)
    BY <2>1, <2>2 DEF Steps
  <2> QED BY <2>3
<1>3. Sol(iter)
  <2> HIDE DEF Sol
  <2> QED BY <1>2
<1>4. FoldLeft(LzwStep, base, data) = iter[DOMAIN data]
  BY DEF FoldLeft, MapThenFoldSet
<1> HIDE DEF iter
<1>5. Solves(iter, Coders, CodeF, base, data)
  BY <1>1, <1>3 DEF Solves
<1>6. iter[DOMAIN data] = Folded(CodeF, base, data)
  BY <1>5, <1>f, SolvesFold
<1>7. FoldLeft(LzwStep, base, data) = Folded(CodeF, base, data)
  BY <1>4, <1>6, Zenon
<1> QED BY <1>0, <1>7, Zenon DEF Coding

(* The states of the decoder.                                              *)
Readers == [dictionary : Seq(Phrases), previous : Phrases, output : Seq(Bytes), corrupt : BOOLEAN]

(* The phrase of a code when W holds those of the codes from Symbols on.   *)
WordOf(W, c) == IF c < Symbols THEN <<c>> ELSE W[c - Symbols + 1]

(* A code that is known has a phrase.                                      *)
LEMMA WordType ==
  ASSUME NEW W \in Seq(Phrases), NEW c \in Nat, c < Symbols + Len(W)
  PROVE  WordOf(W, c) \in Phrases
<1>0. Symbols \in Nat /\ Len(W) \in Nat
  BY CodecsAssumption, LenProperties
<1>1. CASE c < Symbols
  <2>1. c \in Bytes
    BY <1>0, <1>1 DEF Bytes
  <2>2. <<c>> \in Seq(Bytes) /\ <<c>> # <<>>
    BY <2>1
  <2> QED BY <1>1, <2>2 DEF WordOf, Phrases
<1>2. CASE ~(c < Symbols)
  <2>1. c - Symbols + 1 \in 1..Len(W)
    BY <1>0, <1>2
  <2> QED BY <1>2, <2>1, ElementOfSeq DEF WordOf
<1> QED BY <1>1, <1>2

(* A phrase with one byte more, and its first byte.                        *)
LEMMA PhraseMore ==
  ASSUME NEW p \in Phrases, NEW v \in Bytes
  PROVE  Append(p, v) \in Phrases /\ Head(Append(p, v)) = Head(p) /\ Head(p) \in Bytes
<1>1. p \in Seq(Bytes) /\ p # <<>>
  BY DEF Phrases
<1>2. Append(p, v) \in Seq(Bytes) /\ Append(p, v) # <<>>
  BY <1>1, AppendProperties
<1>3. Len(p) \in Nat /\ Len(p) # 0
  BY <1>1, EmptySeq, LenProperties
<1>4. Append(p, v)[1] = p[1] /\ p[1] \in Bytes
  BY <1>1, <1>3, AppendProperties, ElementOfSeq
<1>5. Head(Append(p, v)) = Append(p, v)[1] /\ Head(p) = p[1]
  BY <1>1, <1>2
<1> QED BY <1>2, <1>4, <1>5 DEF Phrases

(* What the decoder takes a code for, and its dictionary after the code.   *)
Entry(s, code) ==
  IF code < Symbols THEN <<code>>
  ELSE IF code < Symbols + Len(s.dictionary) THEN s.dictionary[code - Symbols + 1]
  ELSE Append(s.previous, Head(s.previous))

Learnt(s, entry) ==
  IF Symbols + Len(s.dictionary) <= MaxCode
  THEN Append(s.dictionary, Append(s.previous, Head(entry))) ELSE s.dictionary

Refuses(s, code) == s.corrupt \/ code > Symbols + Len(s.dictionary)

(* The two steps of the decoder.                                           *)
LEMMA ReadSteps ==
  ASSUME NEW s \in Readers, NEW code \in Nat
  PROVE  /\ Refuses(s, code) => LzwRead(s, code) = [s EXCEPT !.corrupt = TRUE]
         /\ ~Refuses(s, code) =>
              LzwRead(s, code) = [s EXCEPT !.previous = Entry(s, code), !.output = s.output \o Entry(s, code),
                                           !.dictionary = Learnt(s, Entry(s, code))]
  BY DEF LzwRead, Refuses, Entry, Learnt, Readers

(* An entry is a phrase.                                                   *)
LEMMA EntryType ==
  ASSUME NEW s \in Readers, NEW code \in Nat, ~Refuses(s, code)
  PROVE  Entry(s, code) \in Phrases
<1>1. s.dictionary \in Seq(Phrases) /\ s.previous \in Phrases
  BY DEF Readers
<1>2. Symbols \in Nat /\ Len(s.dictionary) \in Nat
  BY <1>1, CodecsAssumption, LenProperties
<1>3. CASE code < Symbols + Len(s.dictionary)
  <2>1. WordOf(s.dictionary, code) \in Phrases
    BY <1>1, <1>3, WordType
  <2> QED BY <1>3, <2>1 DEF Entry, WordOf
<1>4. CASE ~(code < Symbols + Len(s.dictionary))
  <2>1. Append(s.previous, Head(s.previous)) \in Phrases
    <3>1. PICK p \in Phrases : p = s.previous
      BY <1>1
    <3>2. Head(p) \in Bytes
      <4>1. p \in Seq(Bytes) /\ p # <<>>
        BY DEF Phrases
      <4> QED BY <4>1
    <3> QED BY <3>1, <3>2, PhraseMore
  <2>2. ~(code < Symbols)
    BY <1>2, <1>4
  <2> QED BY <1>4, <2>1, <2>2 DEF Entry
<1> QED BY <1>3, <1>4

(* Its steps lead to states of the decoder.                                *)
LEMMA ReadType ==
  ASSUME NEW s \in Readers, NEW code \in Nat
  PROVE  LzwRead(s, code) \in Readers
<1>1. s.dictionary \in Seq(Phrases) /\ s.previous \in Phrases /\ s.output \in Seq(Bytes) /\ s.corrupt \in BOOLEAN
  BY DEF Readers
<1>2. CASE Refuses(s, code)
  BY <1>1, <1>2, ReadSteps DEF Readers
<1>3. CASE ~Refuses(s, code)
  <2>1. PICK e \in Phrases : e = Entry(s, code)
    BY <1>3, EntryType
  <2>2. e \in Seq(Bytes) /\ e # <<>>
    BY DEF Phrases
  <2>3. Learnt(s, e) \in Seq(Phrases)
    <3>1. Head(e) \in Bytes
      BY <2>2
    <3>2. Append(s.previous, Head(e)) \in Phrases
      BY <1>1, <3>1, PhraseMore
    <3> QED BY <1>1, <3>2, AppendProperties DEF Learnt
  <2>4. s.output \o e \in Seq(Bytes)
    BY <1>1, <2>2, ConcatProperties
  <2>5. LzwRead(s, code) = [s EXCEPT !.previous = e, !.output = s.output \o e, !.dictionary = Learnt(s, e)]
    BY <1>3, <2>1, ReadSteps
  <2> QED BY <1>1, <2>3, <2>4, <2>5 DEF Readers
<1> QED BY <1>2, <1>3

ReadF == [p \in Readers \X Nat |-> LzwRead(p[1], p[2])]
Reading(c) == [dictionary |-> <<>>, previous |-> <<c>>, output |-> <<c>>, corrupt |-> FALSE]

(* The decoder's run is a fold of these steps.                             *)
LEMMA ReadFType ==
  ASSUME NEW c \in Bytes
  PROVE  Folder(ReadF, Readers, Nat, Reading(c))
<1>1. Reading(c) \in Readers
  <2>1. <<c>> \in Seq(Bytes) /\ <<c>> # <<>>
    OBVIOUS
  <2>2. <<>> \in Seq(Phrases)
    BY EmptySeq
  <2> QED BY <2>1, <2>2 DEF Reading, Readers, Phrases
<1>2. ASSUME NEW p \in Readers \X Nat PROVE LzwRead(p[1], p[2]) \in Readers
  BY ReadType
<1> QED BY <1>1, <1>2 DEF ReadF, Folder

(* FoldLeft of the decoder's step is that fold.                            *)
LEMMA ReadingIsFolded ==
  ASSUME NEW c \in Bytes, NEW codes \in Seq(Nat)
  PROVE  FoldLeft(LzwRead, [dictionary |-> <<>>, previous |-> <<c>>, output |-> <<c>>, corrupt |-> FALSE], codes)
           = Folded(ReadF, Reading(c), codes)
<1>0. PICK base : base = Reading(c)
  OBVIOUS
<1> DEFINE Sol(g) == g = [t \in SUBSET DOMAIN codes |->
                            IF t = {} THEN base ELSE LzwRead(g[t \ {Max(t)}], codes[Max(t)])]
           iter == CHOOSE g : Sol(g)
<1>1. ASSUME NEW t \in SUBSET DOMAIN codes, t # {}, NEW a \in Readers
      PROVE  ReadF[<<a, codes[Max(t)]>>] = LzwRead(a, codes[Max(t)])
  BY <1>1, TopElement DEF ReadF
<1>f. Folder(ReadF, Readers, Nat, base)
  BY <1>0, ReadFType
<1>2. \E g : Sol(g)
  <2>1. PICK g \in [SUBSET DOMAIN codes -> Readers] : Steps(g, ReadF, base, codes)
    BY <1>f, StepsExist
  <2>2. ASSUME NEW t \in SUBSET DOMAIN codes, t # {}
        PROVE  ReadF[<<g[t \ {Max(t)}], codes[Max(t)]>>] = LzwRead(g[t \ {Max(t)}], codes[Max(t)])
    BY <1>1, <2>2
  <2>3. Sol(g)
    BY <2>1, <2>2 DEF Steps
  <2> QED BY <2>3
<1>3. Sol(iter)
  <2> HIDE DEF Sol
  <2> QED BY <1>2
<1>4. FoldLeft(LzwRead, base, codes) = iter[DOMAIN codes]
  BY DEF FoldLeft, MapThenFoldSet
<1> HIDE DEF iter
<1>5. Solves(iter, Readers, ReadF, base, codes)
  BY <1>1, <1>3 DEF Solves
<1>6. iter[DOMAIN codes] = Folded(ReadF, base, codes)
  BY <1>5, <1>f, SolvesFold
<1>7. FoldLeft(LzwRead, base, codes) = Folded(ReadF, base, codes)
  BY <1>4, <1>6, Zenon
<1> QED BY <1>0, <1>7, Zenon DEF Reading

(* The decoder d, which has read the codes written so far, lags behind the *)
(* encoder by the phrase of code c and by the last entry of the dictionary *)
(* W: the entry is the previous phrase and the first byte of c's.          *)
Lags(d, W, c, data) ==
  /\ d.corrupt = FALSE
  /\ d.output \o WordOf(W, c) = data
  /\ \/ W = d.dictionary /\ Symbols + Len(W) > MaxCode
     \/ W = Append(d.dictionary, Append(d.previous, Head(WordOf(W, c))))

Fits(W, c) ==
  W \in Seq(Phrases) /\ c \in Nat /\ Symbols + Len(W) <= MaxCode + 1 /\ c < Symbols + Len(W)

(* The decoder that has read code c too.                                   *)
Caught(W, c, data) ==
  [dictionary |-> W, previous |-> WordOf(W, c), output |-> data, corrupt |-> FALSE]

(* A decoder's state is made of its fields.                                *)
LEMMA ReaderFields ==
  ASSUME NEW d \in Readers
  PROVE  d = [dictionary |-> d.dictionary, previous |-> d.previous, output |-> d.output, corrupt |-> d.corrupt]
  BY DEF Readers

(* The decoder catches up by reading the code, also if the code is that of *)
(* the entry it has not made yet.                                          *)
LEMMA ReadCatchesUp ==
  ASSUME NEW d \in Readers, NEW W, NEW c, NEW data, Fits(W, c), Lags(d, W, c, data)
  PROVE  LzwRead(d, c) = Caught(W, c, data)
<1>1. /\ W \in Seq(Phrases) /\ c \in Nat /\ Symbols \in Nat /\ MaxCode \in Nat /\ Len(W) \in Nat
      /\ Symbols + Len(W) <= MaxCode + 1 /\ c < Symbols + Len(W)
  BY CodecsAssumption, LenProperties DEF Fits
<1>2. /\ d.dictionary \in Seq(Phrases) /\ d.previous \in Phrases /\ d.output \in Seq(Bytes)
      /\ d.corrupt = FALSE /\ d.output \o WordOf(W, c) = data /\ Len(d.dictionary) \in Nat
  BY LenProperties DEF Readers, Lags
<1>3. PICK w \in Phrases : w = WordOf(W, c)
  BY <1>1, WordType
<1>4. ~Refuses(d, c) /\ Entry(d, c) = w /\ Learnt(d, w) = W
  <2>1. CASE W = d.dictionary /\ Symbols + Len(W) > MaxCode
    <3>1. Symbols + Len(d.dictionary) > MaxCode /\ c < Symbols + Len(d.dictionary)
      BY <1>1, <2>1
    <3>2. ~Refuses(d, c)
      BY <1>1, <1>2, <3>1 DEF Refuses
    <3>3. Entry(d, c) = w
      BY <1>3, <2>1, <3>1 DEF Entry, WordOf
    <3>4. Learnt(d, w) = W
      BY <1>1, <1>2, <2>1, <3>1 DEF Learnt
    <3> QED BY <3>2, <3>3, <3>4
  <2>2. CASE W = Append(d.dictionary, Append(d.previous, Head(WordOf(W, c))))
    <3>1. PICK x : x = Append(d.previous, Head(w))
      OBVIOUS
    <3>2. Head(w) \in Bytes
      BY PhraseMore DEF Phrases
    <3>3. x \in Phrases /\ Head(x) = Head(d.previous) /\ W = Append(d.dictionary, x)
      BY <1>2, <1>3, <2>2, <3>1, <3>2, PhraseMore
    <3>4. PICK L \in Nat : L = Len(d.dictionary)
      BY <1>2
    <3>5. Len(W) = L + 1 /\ W[L + 1] = x /\ \A i \in 1..L : W[i] = d.dictionary[i]
      BY <1>2, <3>3, <3>4, AppendProperties
    <3>6. c <= Symbols + L /\ Symbols + L <= MaxCode
      BY <1>1, <3>5
    <3>7. ~Refuses(d, c)
      BY <1>1, <1>2, <3>4, <3>6 DEF Refuses
    <3>8. Learnt(d, w) = W
      BY <3>1, <3>3, <3>4, <3>6 DEF Learnt
    <3>9. Entry(d, c) = w
      <4>1. CASE c < Symbols
        BY <1>3, <4>1 DEF Entry, WordOf
      <4>2. CASE ~(c < Symbols) /\ c < Symbols + L
        <5>1. c - Symbols + 1 \in 1..L
          BY <1>1, <4>2
        <5>2. w = W[c - Symbols + 1]
          BY <1>3, <4>2 DEF WordOf
        <5>3. Entry(d, c) = d.dictionary[c - Symbols + 1]
          BY <3>4, <4>2 DEF Entry
        <5> QED BY <3>5, <5>1, <5>2, <5>3
      <4>3. CASE ~(c < Symbols + L)
        <5>1. c - Symbols + 1 = L + 1 /\ ~(c < Symbols)
          BY <1>1, <3>6, <4>3
        <5>2. w = x
          BY <1>3, <3>5, <5>1 DEF WordOf
        <5>3. Entry(d, c) = Append(d.previous, Head(d.previous))
          BY <3>4, <4>3, <5>1 DEF Entry
        <5>4. Append(d.previous, Head(d.previous)) = x
          BY <3>1, <3>3, <5>2
        <5> QED BY <5>2, <5>3, <5>4
      <4> QED BY <4>1, <4>2, <4>3
    <3> QED BY <3>7, <3>8, <3>9
  <2> QED BY <2>1, <2>2 DEF Lags
<1>5. PICK r : r = LzwRead(d, c)
  OBVIOUS
<1>6. r = [d EXCEPT !.previous = w, !.output = d.output \o w, !.dictionary = W]
  BY <1>1, <1>4, <1>5, ReadSteps
<1>7. r \in Readers
  BY <1>1, <1>5, ReadType
<1>8. d.output \o w = data
  BY <1>2, <1>3
<1>9. r.previous = w /\ r.output = data /\ r.dictionary = W /\ r.corrupt = FALSE
  BY <1>2, <1>6, <1>8 DEF Readers
<1> QED BY <1>3, <1>5, <1>7, <1>9, ReaderFields DEF Caught

(* W spells the entries of the encoder's dictionary D.                     *)
Spells(W, D) ==
  /\ Len(W) = Len(D)
  /\ \A i \in 1..Len(D) : /\ D[i][1] < Symbols + i - 1
                          /\ W[i] = Append(WordOf(W, D[i][1]), D[i][2])

(* An entry more does not change the phrases of the others.                *)
LEMMA WordStays ==
  ASSUME NEW W \in Seq(Phrases), NEW x \in Phrases, NEW c \in Nat, c < Symbols + Len(W)
  PROVE  WordOf(Append(W, x), c) = WordOf(W, c)
<1>1. Symbols \in Nat /\ Len(W) \in Nat
  BY CodecsAssumption, LenProperties
<1>2. CASE c < Symbols
  BY <1>2 DEF WordOf
<1>3. CASE ~(c < Symbols)
  <2>1. c - Symbols + 1 \in 1..Len(W)
    BY <1>1, <1>3
  <2>2. Append(W, x)[c - Symbols + 1] = W[c - Symbols + 1]
    BY <2>1, AppendProperties
  <2> QED BY <1>3, <2>2 DEF WordOf
<1> QED BY <1>2, <1>3

(* An entry more in both dictionaries keeps them in agreement.             *)
LEMMA SpellsMore ==
  ASSUME NEW W \in Seq(Phrases), NEW D \in Seq(Nat \X Bytes), Spells(W, D),
         NEW c \in Nat, c < Symbols + Len(W), NEW v \in Bytes
  PROVE  Spells(Append(W, Append(WordOf(W, c), v)), Append(D, <<c, v>>))
<1>1. PICK x \in Phrases : x = Append(WordOf(W, c), v)
  BY WordType, PhraseMore
<1>2. PICK V, E : V = Append(W, x) /\ E = Append(D, <<c, v>>)
  OBVIOUS
<1>3. PICK n \in Nat : n = Len(W) /\ n = Len(D)
  BY LenProperties DEF Spells
<1>4. /\ Len(V) = n + 1 /\ V[n + 1] = x /\ \A i \in 1..n : V[i] = W[i]
  <2>1. /\ Len(V) = Len(W) + 1 /\ V[Len(W) + 1] = x
        /\ \A i \in 1..Len(W) : V[i] = W[i]
    BY <1>2, AppendProperties
  <2> QED BY <1>3, <2>1
<1>5. /\ Len(E) = n + 1 /\ E[n + 1] = <<c, v>> /\ \A i \in 1..n : E[i] = D[i]
  BY <1>2, <1>3, AppendProperties
<1>6. \A a \in Nat : a < Symbols + n => WordOf(V, a) = WordOf(W, a)
  BY <1>2, <1>3, WordStays
<1>7. ASSUME NEW i \in 1..n + 1
      PROVE  E[i][1] < Symbols + i - 1 /\ V[i] = Append(WordOf(V, E[i][1]), E[i][2])
  <2>1. CASE i = n + 1
    <3>1. E[i][1] = c /\ E[i][2] = v /\ V[i] = x
      BY <1>4, <1>5, <2>1
    <3>2. c < Symbols + i - 1 /\ c < Symbols + n
      BY <1>3, <2>1, CodecsAssumption
    <3>3. WordOf(V, c) = WordOf(W, c)
      BY <1>6, <3>2
    <3> QED BY <1>1, <3>1, <3>2, <3>3
  <2>2. CASE i # n + 1
    <3>1. i \in 1..n
      BY <2>2
    <3>2. D[i] \in Nat \X Bytes /\ D[i][1] \in Nat
      BY <1>3, <3>1, ElementOfSeq
    <3>3. D[i][1] < Symbols + i - 1 /\ W[i] = Append(WordOf(W, D[i][1]), D[i][2])
      BY <1>3, <3>1 DEF Spells
    <3>4. D[i][1] < Symbols + n
      BY <3>1, <3>2, <3>3, CodecsAssumption
    <3>5. WordOf(V, D[i][1]) = WordOf(W, D[i][1])
      BY <1>6, <3>2, <3>4
    <3> QED BY <1>4, <1>5, <3>1, <3>3, <3>5
  <2> QED BY <2>1, <2>2
<1>8. Spells(V, E)
  BY <1>4, <1>5, <1>7 DEF Spells
<1> QED BY <1>1, <1>2, <1>8

(* The decoder after a first code h and the codes t.                       *)
Read(h, t) == Folded(ReadF, Reading(h), t)

(* The decoder's next code is one step more.                               *)
LEMMA ReadMore ==
  ASSUME NEW h \in Bytes, NEW t \in Seq(Nat)
  PROVE  /\ Read(h, t) \in Readers
         /\ \A c \in Nat : Read(h, Append(t, c)) = LzwRead(Read(h, t), c)
<1>0. PICK base : base = Reading(h)
  OBVIOUS
<1>1. Folder(ReadF, Readers, Nat, base)
  BY <1>0, ReadFType
<1>2. Folded(ReadF, base, t) \in Readers
  BY <1>1, FoldedType
<1>3. ASSUME NEW c \in Nat
      PROVE  Folded(ReadF, base, Append(t, c)) = LzwRead(Folded(ReadF, base, t), c)
  <2>1. Folded(ReadF, base, Append(t, c)) = ReadF[<<Folded(ReadF, base, t), c>>]
    BY <1>1, FoldedAppend
  <2> QED BY <1>2, <2>1 DEF ReadF
<1> QED BY <1>0, <1>2, <1>3 DEF Read

(* Before the second code the decoder is as it began.                      *)
LEMMA ReadNothing == \A h \in Bytes : Read(h, <<>>) = Reading(h)
  BY ReadFType, FoldedEmpty DEF Read

Begins(codes, h, t) == h \in Bytes /\ t \in Seq(Nat) /\ codes = <<h>> \o t

(* Encoder and decoder in lockstep: after the encoder took in data, a      *)
(* decoder of its codes lags behind it.                                    *)
Behind(s, W, data) ==
  \/ s.codes = <<>> /\ W = <<>> /\ data = <<s.phrase>>
  \/ \E h, t : Begins(s.codes, h, t) /\ Lags(Read(h, t), W, s.phrase, data)

Locked(data, s, W) ==
  /\ Fits(W, s.phrase) /\ Spells(W, s.dictionary)
  /\ s.codes \in Seq(0..MaxCode) /\ Behind(s, W, data)

Lockstep(data, s) == \E W : Locked(data, s, W)

(* The decoder catches up when the phrase at hand is written, too.         *)
CatchesUp(s, W, data) ==
  \E h, t : Begins(Append(s.codes, s.phrase), h, t) /\ Read(h, t) = Caught(W, s.phrase, data)

(* A decoder that lags behind the encoder catches up with the phrase at    *)
(* hand.                                                                   *)
LEMMA CodesRead ==
  ASSUME NEW s \in Coders, NEW data, NEW W, Locked(data, s, W)
  PROVE  CatchesUp(s, W, data)
<1>1. PICK c \in Nat : c = s.phrase
  BY DEF Coders
<1>2. Fits(W, c) /\ s.codes \in Seq(Nat)
  BY <1>1 DEF Locked, Coders
<1>3. CASE s.codes = <<>> /\ W = <<>> /\ data = <<s.phrase>>
  <2>1. c < Symbols /\ c \in Bytes
    BY <1>2, <1>3, CodecsAssumption DEF Fits, Bytes
  <2>2. Append(s.codes, c) = <<c>> \o <<>>
    <3>1. Append(<<>>, c) = <<c>> /\ <<c>> \in Seq(Nat)
      OBVIOUS
    <3>2. <<c>> \o <<>> = <<c>>
      BY <3>1, ConcatEmptySeq
    <3> QED BY <1>3, <3>1, <3>2, Zenon
  <2>3. <<>> \in Seq(Nat)
    BY EmptySeq
  <2>4. Reading(c) = Caught(W, c, data)
    BY <1>1, <1>3, <2>1 DEF Reading, Caught, WordOf
  <2>5. Begins(Append(s.codes, c), c, <<>>) /\ Read(c, <<>>) = Caught(W, c, data)
    BY <2>1, <2>2, <2>3, <2>4, ReadNothing DEF Begins
  <2> QED BY <1>1, <2>5 DEF CatchesUp
<1>4. ASSUME NEW h, NEW t, Begins(s.codes, h, t), Lags(Read(h, t), W, c, data)
      PROVE  CatchesUp(s, W, data)
  <2>1. h \in Bytes /\ t \in Seq(Nat) /\ s.codes = <<h>> \o t
    BY <1>4 DEF Begins
  <2>2. Read(h, t) \in Readers /\ Read(h, Append(t, c)) = LzwRead(Read(h, t), c)
    BY <2>1, ReadMore
  <2>3. LzwRead(Read(h, t), c) = Caught(W, c, data)
    <3>1. PICK d : d = Read(h, t)
      OBVIOUS
    <3>2. d \in Readers /\ Lags(d, W, c, data)
      BY <1>4, <2>2, <3>1
    <3>3. LzwRead(d, c) = Caught(W, c, data)
      BY <1>2, <3>2, ReadCatchesUp
    <3> QED BY <3>1, <3>3
  <2>4. Append(s.codes, c) = <<h>> \o Append(t, c)
    <3>1. <<h>> \in Seq(Nat)
      BY <2>1, CodecsAssumption DEF Bytes
    <3>2. <<h>> \o Append(t, c) = Append(<<h>> \o t, c)
      BY <2>1, <3>1, ConcatAppend
    <3> QED BY <2>1, <3>2
  <2>5. Append(t, c) \in Seq(Nat)
    BY <2>1, AppendProperties
  <2>6. Begins(Append(s.codes, c), h, Append(t, c))
    BY <2>1, <2>4, <2>5 DEF Begins
  <2>7. Read(h, Append(t, c)) = Caught(W, c, data)
    BY <2>2, <2>3
  <2> QED BY <1>1, <2>6, <2>7 DEF CatchesUp
<1> QED BY <1>1, <1>3, <1>4 DEF Locked, Behind

(* A byte more keeps them in lockstep: the encoder goes on in its          *)
(* dictionary, or writes a code, which the decoder reads.                  *)
LEMMA GoesOnInStep ==
  ASSUME NEW s \in Coders, NEW data \in Seq(Bytes), NEW W, Locked(data, s, W),
         NEW v \in Bytes, NEW i, GoesOn(s, v, i)
  PROVE  Locked(Append(data, v), LzwStep(s, v), W)
<1>1. /\ s.dictionary \in Seq(Nat \X Bytes) /\ s.phrase \in Nat /\ Symbols \in Nat
      /\ W \in Seq(Phrases) /\ Len(W) \in Nat /\ Len(W) = Len(s.dictionary)
      /\ s.phrase < Symbols + Len(W) /\ Symbols + Len(W) <= MaxCode + 1
  BY CodecsAssumption, LenProperties DEF Coders, Locked, Fits, Spells
<1>2. i \in 1..Len(W) /\ s.dictionary[i] = <<s.phrase, v>>
  BY <1>1, LenProperties DEF GoesOn
<1>3. PICK c \in Nat : c = Symbols + i - 1
  BY <1>1, <1>2
<1>4. PICK r : r = LzwStep(s, v)
  OBVIOUS
<1>5. r.phrase = c /\ r.dictionary = s.dictionary /\ r.codes = s.codes
  BY <1>3, <1>4 DEF GoesOn, Coders
<1>6. PICK w \in Phrases : w = WordOf(W, s.phrase)
  BY <1>1, WordType
<1>7. WordOf(W, c) = Append(w, v)
  <2>1. ~(c < Symbols) /\ c - Symbols + 1 = i
    BY <1>1, <1>2, <1>3
  <2>2. W[i] = Append(WordOf(W, s.phrase), v)
    <3>1. i \in 1..Len(s.dictionary)
      BY <1>1, <1>2
    <3>2. W[i] = Append(WordOf(W, s.dictionary[i][1]), s.dictionary[i][2])
      BY <3>1 DEF Locked, Spells
    <3> QED BY <1>2, <3>2
  <2> QED BY <1>6, <2>1, <2>2 DEF WordOf
<1>8. Fits(W, c)
  BY <1>1, <1>2, <1>3 DEF Fits
<1>9. Behind(r, W, Append(data, v))
  <2>1. W # <<>>
    BY <1>2, EmptySeq
  <2>2. PICK h, t : Begins(s.codes, h, t) /\ Lags(Read(h, t), W, s.phrase, data)
    BY <2>1 DEF Locked, Behind
  <2>3. PICK d \in Readers : d = Read(h, t)
    BY <2>2, ReadMore DEF Begins
  <2>4. d.output \in Seq(Bytes) /\ d.output \o w = data /\ w \in Seq(Bytes)
    BY <1>6, <2>2, <2>3 DEF Readers, Lags, Phrases
  <2>5. d.output \o Append(w, v) = Append(data, v)
    <3>1. PICK o \in Seq(Bytes) : o = d.output
      BY <2>4
    <3>2. o \o Append(w, v) = Append(o \o w, v)
      BY <2>4, ConcatAppend
    <3> QED BY <2>4, <3>1, <3>2, Zenon
  <2>6. Head(Append(w, v)) = Head(w)
    BY PhraseMore
  <2>7. Lags(d, W, c, Append(data, v))
    BY <1>6, <1>7, <2>2, <2>3, <2>5, <2>6 DEF Lags
  <2> QED BY <1>5, <2>2, <2>3, <2>7 DEF Behind
<1> QED BY <1>4, <1>5, <1>8, <1>9 DEF Locked

(* Encoder and decoder stay in step when the encoder writes a code.        *)
LEMMA WritesInStep ==
  ASSUME NEW s \in Coders, NEW data \in Seq(Bytes), NEW W, Locked(data, s, W),
         NEW v \in Bytes, Writes(s, v)
  PROVE  Lockstep(Append(data, v), LzwStep(s, v))
<1>1. /\ s.dictionary \in Seq(Nat \X Bytes) /\ s.phrase \in Nat /\ Symbols \in Nat /\ MaxCode \in Nat
      /\ W \in Seq(Phrases) /\ Len(W) \in Nat /\ Len(W) = Len(s.dictionary)
      /\ s.phrase < Symbols + Len(W) /\ Symbols + Len(W) <= MaxCode + 1
      /\ v \in Nat /\ v < Symbols
  BY CodecsAssumption, LenProperties DEF Coders, Locked, Fits, Spells, Bytes
<1>2. PICK h, t : /\ Begins(Append(s.codes, s.phrase), h, t)
                  /\ Read(h, t) = Caught(W, s.phrase, data)
  BY CodesRead DEF CatchesUp
<1>3. PICK r : r = LzwStep(s, v)
  OBVIOUS
<1>4. r.phrase = v /\ r.dictionary = Grown(s, v) /\ r.codes = Append(s.codes, s.phrase)
  BY <1>3 DEF Writes
<1>5. r.codes \in Seq(0..MaxCode)
  <2>1. s.codes \in Seq(0..MaxCode)
    BY DEF Locked
  <2>2. s.phrase \in 0..MaxCode
    BY <1>1
  <2> QED BY <1>4, <2>1, <2>2, AppendProperties
<1>6. PICK w \in Phrases : w = WordOf(W, s.phrase)
  BY <1>1, WordType
<1>a. PICK d : d = Read(h, t)
  OBVIOUS
<1>b. d.dictionary = W /\ d.previous = w /\ d.output = data /\ d.corrupt = FALSE
  BY <1>2, <1>6, <1>a DEF Caught
<1>7. \A V : WordOf(V, v) = <<v>>
  BY <1>1 DEF WordOf
<1>8. data \o <<v>> = Append(data, v)
  BY AppendIsConcat
<1>9. CASE Symbols + Len(W) <= MaxCode
  <2>1. PICK V : V = Append(W, Append(w, v))
    OBVIOUS
  <2>2. Grown(s, v) = Append(s.dictionary, <<s.phrase, v>>)
    BY <1>1, <1>9 DEF Grown
  <2>3. Append(w, v) \in Phrases
    BY PhraseMore
  <2>4. V \in Seq(Phrases) /\ Len(V) = Len(W) + 1
    BY <1>1, <2>1, <2>3, AppendProperties
  <2>5. Fits(V, v)
    BY <1>1, <1>9, <2>4 DEF Fits
  <2>6. Spells(V, r.dictionary)
    <3>1. Spells(W, s.dictionary)
      BY DEF Locked
    <3> QED BY <1>1, <1>4, <1>6, <2>1, <2>2, <3>1, SpellsMore
  <2>7. Lags(Read(h, t), V, v, Append(data, v))
    <3>1. Head(<<v>>) = v
      OBVIOUS
    <3>2. V = Append(d.dictionary, Append(d.previous, Head(WordOf(V, v))))
      BY <1>b, <1>7, <2>1, <3>1, Zenon
    <3>3. d.output \o WordOf(V, v) = Append(data, v)
      BY <1>b, <1>7, <1>8, Zenon
    <3> QED BY <1>a, <1>b, <3>2, <3>3, Zenon DEF Lags
  <2>8. Locked(Append(data, v), r, V)
    BY <1>2, <1>4, <1>5, <2>5, <2>6, <2>7 DEF Locked, Behind
  <2> QED BY <1>3, <2>8 DEF Lockstep
<1>10. CASE ~(Symbols + Len(W) <= MaxCode)
  <2>1. Grown(s, v) = s.dictionary
    BY <1>1, <1>10 DEF Grown
  <2>2. Fits(W, v)
    BY <1>1 DEF Fits
  <2>3. Spells(W, r.dictionary)
    BY <1>4, <2>1 DEF Locked
  <2>4. Symbols + Len(W) > MaxCode
    BY <1>1, <1>10
  <2>5. Lags(Read(h, t), W, v, Append(data, v))
    <3>1. d.output \o WordOf(W, v) = Append(data, v)
      BY <1>b, <1>7, <1>8, Zenon
    <3> QED BY <1>a, <1>b, <2>4, <3>1, Zenon DEF Lags
  <2>6. Locked(Append(data, v), r, W)
    BY <1>2, <1>4, <1>5, <2>2, <2>3, <2>5 DEF Locked, Behind
  <2> QED BY <1>3, <2>6 DEF Lockstep
<1> QED BY <1>9, <1>10

(* They start in lockstep and stay so.                                     *)
LEMMA StaysInStep ==
  ASSUME NEW v \in Bytes
  PROVE  \A rest \in Seq(Bytes) : Lockstep(<<v>> \o rest, Folded(CodeF, Coding(v), rest))
<1>0. PICK base : base = Coding(v)
  OBVIOUS
<1>1. Folder(CodeF, Coders, Bytes, base)
  BY <1>0, CodeFType
<1> DEFINE Q == {rest \in Seq(Bytes) : Lockstep(<<v>> \o rest, Folded(CodeF, base, rest))}
<1>2. <<v>> \in Seq(Bytes)
  OBVIOUS
<1>3. <<>> \in Q
  <2>1. Folded(CodeF, base, <<>>) = base
    BY <1>1, FoldedEmpty
  <2>2. <<v>> \o <<>> = <<v>> /\ <<>> \in Seq(Bytes)
    BY <1>2, ConcatEmptySeq, EmptySeq
  <2>3. Locked(<<v>>, base, <<>>)
    <3>1. base.codes = <<>> /\ base.dictionary = <<>> /\ base.phrase = v
      BY <1>0 DEF Coding
    <3>2. <<>> \in Seq(Phrases) /\ <<>> \in Seq(0..MaxCode) /\ Len(<<>>) = 0
      BY EmptySeq
    <3>3. v \in Nat /\ v < Symbols /\ Symbols <= MaxCode /\ Symbols \in Nat /\ MaxCode \in Nat
      BY CodecsAssumption DEF Bytes
    <3>4. Fits(<<>>, v)
      BY <3>2, <3>3 DEF Fits
    <3>5. Spells(<<>>, <<>>)
      BY <3>2 DEF Spells
    <3> QED BY <3>1, <3>2, <3>4, <3>5 DEF Locked, Behind
  <2> QED BY <2>1, <2>2, <2>3 DEF Lockstep
<1>4. ASSUME NEW r \in Seq(Bytes), NEW e \in Bytes, r \in Q PROVE Append(r, e) \in Q
  <2>1. PICK s, data : s = Folded(CodeF, base, r) /\ data = <<v>> \o r
    OBVIOUS
  <2>2. s \in Coders
    BY <1>1, <2>1, FoldedType
  <2>3. data \in Seq(Bytes)
    BY <1>2, <2>1, ConcatProperties
  <2>4. Folded(CodeF, base, Append(r, e)) = LzwStep(s, e)
    <3>1. Folded(CodeF, base, Append(r, e)) = CodeF[<<Folded(CodeF, base, r), e>>]
      BY <1>1, FoldedAppend
    <3>2. CodeF[<<s, e>>] = LzwStep(s, e)
      BY <2>2 DEF CodeF
    <3> QED BY <2>1, <3>1, <3>2, Zenon
  <2>5. <<v>> \o Append(r, e) = Append(data, e)
    BY <1>2, <2>1, ConcatAppend
  <2>6. PICK W : Locked(data, s, W)
    BY <1>4, <2>1 DEF Lockstep
  <2>7. Lockstep(Append(data, e), LzwStep(s, e))
    <3>1. CASE Writes(s, e)
      BY <2>2, <2>3, <2>6, <3>1, WritesInStep
    <3>2. ASSUME NEW i, GoesOn(s, e, i) PROVE Lockstep(Append(data, e), LzwStep(s, e))
      BY <2>2, <2>3, <2>6, <3>2, GoesOnInStep DEF Lockstep
    <3> QED BY <2>2, <3>1, <3>2, LzwSteps
  <2>8. Append(r, e) \in Seq(Bytes)
    BY AppendProperties
  <2>9. Lockstep(<<v>> \o Append(r, e), Folded(CodeF, base, Append(r, e)))
    BY <2>4, <2>5, <2>7, Zenon
  <2> QED BY <2>8, <2>9
<1>5. Seq(Bytes) \subseteq Q
  <2> HIDE DEF Q
  <2> QED BY <1>3, <1>4, SeqInduction
<1> QED BY <1>0, <1>5

(* A sequence is its first element and the rest.                           *)
LEMMA FirstAndRest ==
  ASSUME NEW X, NEW h \in X, NEW t \in Seq(X), NEW s, s = <<h>> \o t
  PROVE  s \in Seq(X) /\ s # <<>> /\ Head(s) = h /\ Tail(s) = t
<1>1. <<h>> \in Seq(X) /\ Len(<<h>>) = 1 /\ <<h>>[1] = h
  OBVIOUS
<1>2. Len(t) \in Nat
  BY LenProperties
<1>3. s \in Seq(X) /\ Len(s) = 1 + Len(t) /\ s[1] = h /\ \A i \in 1..Len(t) : s[i + 1] = t[i]
  BY <1>1, <1>2, ConcatProperties
<1>4. s # <<>>
  BY <1>2, <1>3, EmptySeq
<1>5. Head(s) = h
  BY <1>3, <1>4
<1>6. Tail(s) \in Seq(X) /\ Len(Tail(s)) = Len(t) /\ \A i \in 1..Len(t) : Tail(s)[i] = t[i]
  BY <1>2, <1>3, <1>4
<1>7. Tail(s) = t
  BY <1>6, SeqEqual
<1> QED BY <1>3, <1>4, <1>5, <1>7

(* A non-empty sequence is its head and its tail.                          *)
LEMMA SplitsUp ==
  ASSUME NEW X, NEW s \in Seq(X), s # <<>>
  PROVE  Head(s) \in X /\ Tail(s) \in Seq(X) /\ s = <<Head(s)>> \o Tail(s)
<1>1. PICK h, t : h = Head(s) /\ t = Tail(s)
  OBVIOUS
<1>2. PICK n \in Nat : n = Len(s)
  BY LenProperties
<1>3. /\ h \in X /\ t \in Seq(X) /\ Len(t) = n - 1 /\ n >= 1 /\ s[1] = h
      /\ \A i \in 1..n - 1 : t[i] = s[i + 1]
  BY <1>1, <1>2
<1>4. PICK u : u = <<h>> \o t
  OBVIOUS
<1>5. <<h>> \in Seq(X) /\ Len(<<h>>) = 1 /\ <<h>>[1] = h
  BY <1>3
<1>6. u \in Seq(X) /\ Len(u) = n /\ u[1] = h /\ \A i \in 1..n - 1 : u[i + 1] = t[i]
  BY <1>2, <1>3, <1>4, <1>5, ConcatProperties
<1>7. ASSUME NEW i \in 1..n PROVE s[i] = u[i]
  <2>1. CASE i = 1
    BY <1>3, <1>6, <2>1
  <2>2. CASE i # 1
    <3>1. i - 1 \in 1..n - 1 /\ (i - 1) + 1 = i
      BY <2>2
    <3> QED BY <1>3, <1>6, <3>1
  <2> QED BY <2>1, <2>2
<1>8. s = u
  BY <1>2, <1>6, <1>7, SeqEqual
<1> QED BY <1>1, <1>3, <1>4, <1>8

(* LZW restores every input, and every code it writes fits into its field. *)
LEMMA LzwRestores ==
  ASSUME NEW data \in Seq(Bytes)
  PROVE  /\ LzwDecompress(LzwCompress(data), Len(data)) = Restored(data)
         /\ LzwCompress(data) \in Seq(0..MaxCode)
<1>1. CASE data = <<>>
  <2>1. LzwCompress(data) = <<>>
    BY <1>1 DEF LzwCompress
  <2>2. \A limit : LzwDecompress(<<>>, limit) = Restored(<<>>)
    BY DEF LzwDecompress
  <2>3. <<>> \in Seq(0..MaxCode)
    BY EmptySeq
  <2> QED BY <1>1, <2>1, <2>2, <2>3, Zenon
<1>2. CASE data # <<>>
  <2>1. PICK v \in Bytes, rest \in Seq(Bytes) : v = Head(data) /\ rest = Tail(data) /\ data = <<v>> \o rest
    BY <1>2, SplitsUp
  <2>2. PICK s : s = Folded(CodeF, Coding(v), rest)
    OBVIOUS
  <2>3. s \in Coders
    BY <2>2, CodeFType, FoldedType
  <2>4. FoldLeft(LzwStep, [dictionary |-> <<>>, phrase |-> Head(data), codes |-> <<>>], Tail(data)) = s
    BY <2>1, <2>2, CodingIsFolded, Zenon
  <2>5. LzwCompress(data) = Append(s.codes, s.phrase)
    BY <1>2, <2>4, Zenon DEF LzwCompress
  <2>6. PICK W : Locked(data, s, W)
    BY <2>1, <2>2, StaysInStep DEF Lockstep
  <2>7. PICK h, t : Begins(Append(s.codes, s.phrase), h, t) /\ Read(h, t) = Caught(W, s.phrase, data)
    BY <2>3, <2>6, CodesRead DEF CatchesUp
  <2>8. PICK codes : codes = LzwCompress(data)
    OBVIOUS
  <2>9. h \in Bytes /\ t \in Seq(Nat) /\ codes = <<h>> \o t
    BY <2>5, <2>7, <2>8 DEF Begins
  <2>10. h \in Nat /\ ~(h >= Symbols)
    BY <2>9, CodecsAssumption DEF Bytes
  <2>11. codes # <<>> /\ Head(codes) = h /\ Tail(codes) = t
    BY <2>9, <2>10, FirstAndRest
  <2>12. FoldLeft(LzwRead, [dictionary |-> <<>>, previous |-> <<Head(codes)>>, output |-> <<Head(codes)>>,
                            corrupt |-> FALSE], Tail(codes)) = Read(h, t)
    BY <2>9, <2>11, ReadingIsFolded, Zenon DEF Read
  <2>13. PICK d : d = Read(h, t)
    OBVIOUS
  <2>14. d.output = data /\ d.corrupt = FALSE
    BY <2>7, <2>13 DEF Caught
  <2>15. ~(Len(data) > Len(data))
    BY LenProperties
  <2>16. LzwDecompress(codes, Len(data)) = Restored(data)
    <3>1. LzwDecompress(codes, Len(data))
            = IF d.corrupt \/ (Len(codes) > 1 /\ Len(d.output) > Len(data)) THEN Corrupt ELSE Restored(d.output)
      BY <2>10, <2>11, <2>12, <2>13, Zenon DEF LzwDecompress
    <3> QED BY <2>14, <2>15, <3>1, Zenon
  <2>17. codes \in Seq(0..MaxCode)
    <3>1. s.codes \in Seq(0..MaxCode) /\ s.phrase \in 0..MaxCode
      BY <2>6, CodecsAssumption, LenProperties DEF Locked, Fits
    <3> QED BY <2>5, <2>8, <3>1, AppendProperties
  <2> QED BY <2>8, <2>16, <2>17
<1> QED BY <1>1, <1>2

-----------------------------------------------------------------------------
(* Huffman: decoding *)

Bits == {0, 1}

(* No code is the beginning of another one.                                *)
PrefixFree(codes) ==
  \A c, d \in DOMAIN codes : \A rest \in Seq(Bits) : codes[c] = codes[d] \o rest => c = d

CodeTable(codes, U) == U \subseteq Bytes /\ codes \in [U -> Seq(Bits)]
Decodable(codes, U) == CodeTable(codes, U) /\ PrefixFree(codes) /\ \A c \in U : codes[c] # <<>>

(* The states of the decoder, and its step.                                *)
Walkers == [path : Seq(Bits), output : Seq(Bytes)]
Start == [path |-> <<>>, output |-> <<>>]
Leaves(codes, path) == {c \in DOMAIN codes : codes[c] = path}

WalkStep(codes, r, bit) ==
  IF Leaves(codes, Append(r.path, bit)) = {} THEN [r EXCEPT !.path = Append(r.path, bit)]
  ELSE [path |-> <<>>, output |-> Append(r.output, CHOOSE c \in Leaves(codes, Append(r.path, bit)) : TRUE)]

WalkF(codes) == [p \in Walkers \X Bits |-> WalkStep(codes, p[1], p[2])]

(* The steps of the walk lead from walkers to walkers.                     *)
LEMMA WalkFType ==
  ASSUME NEW U, NEW codes, CodeTable(codes, U), NEW s \in Walkers
  PROVE  Folder(WalkF(codes), Walkers, Bits, s)
<1>1. ASSUME NEW r \in Walkers, NEW bit \in Bits PROVE WalkStep(codes, r, bit) \in Walkers
  <2>1. r.path \in Seq(Bits) /\ r.output \in Seq(Bytes)
    BY DEF Walkers
  <2>2. PICK path \in Seq(Bits) : path = Append(r.path, bit)
    BY <2>1, AppendProperties
  <2>3. CASE Leaves(codes, path) = {}
    BY <2>1, <2>2, <2>3 DEF WalkStep, Walkers
  <2>4. CASE Leaves(codes, path) # {}
    <3>1. PICK c : c = CHOOSE x \in Leaves(codes, path) : TRUE
      OBVIOUS
    <3>2. c \in Leaves(codes, path)
      BY <2>4, <3>1
    <3>3. c \in Bytes
      BY <3>2 DEF Leaves, CodeTable
    <3>4. Append(r.output, c) \in Seq(Bytes) /\ <<>> \in Seq(Bits)
      BY <2>1, <3>3, AppendProperties, EmptySeq
    <3>5. WalkStep(codes, r, bit) = [path |-> <<>>, output |-> Append(r.output, c)]
      BY <2>2, <2>4, <3>1, Zenon DEF WalkStep
    <3> QED BY <3>4, <3>5 DEF Walkers
  <2> QED BY <2>3, <2>4
<1> QED BY <1>1 DEF WalkF, Folder

(* walk is the fold of these steps.                                        *)
LEMMA WalkIsFolded ==
  ASSUME NEW U, NEW codes, CodeTable(codes, U), NEW s \in Walkers, NEW bits \in Seq(Bits)
  PROVE  Walk(codes, s, bits) = Folded(WalkF(codes), s, bits)
<1> DEFINE Sol(g) == g = [t \in SUBSET DOMAIN bits |->
                            IF t = {} THEN s ELSE WalkStep(codes, g[t \ {Max(t)}], bits[Max(t)])]
           iter == CHOOSE g : Sol(g)
<1>0. PICK F : F = WalkF(codes)
  OBVIOUS
<1>1. ASSUME NEW t \in SUBSET DOMAIN bits, t # {}, NEW a \in Walkers
      PROVE  F[<<a, bits[Max(t)]>>] = WalkStep(codes, a, bits[Max(t)])
  BY <1>0, <1>1, TopElement DEF WalkF
<1>f. Folder(F, Walkers, Bits, s)
  BY <1>0, WalkFType
<1>2. \E g : Sol(g)
  <2>1. PICK g \in [SUBSET DOMAIN bits -> Walkers] : Steps(g, F, s, bits)
    BY <1>f, StepsExist
  <2>2. ASSUME NEW t \in SUBSET DOMAIN bits, t # {}
        PROVE  F[<<g[t \ {Max(t)}], bits[Max(t)]>>] = WalkStep(codes, g[t \ {Max(t)}], bits[Max(t)])
    BY <1>1, <2>2
  <2>3. Sol(g)
    BY <2>1, <2>2 DEF Steps
  <2> QED BY <2>3
<1>3. Sol(iter)
  <2> HIDE DEF Sol
  <2> QED BY <1>2
<1>4. Walk(codes, s, bits) = iter[DOMAIN bits]
  BY DEF Walk, FoldLeft, MapThenFoldSet, WalkStep, Leaves
<1> HIDE DEF iter
<1>5. Solves(iter, Walkers, F, s, bits)
  BY <1>1, <1>3 DEF Solves
<1>6. iter[DOMAIN bits] = Folded(F, s, bits)
  BY <1>5, <1>f, SolvesFold
<1> QED BY <1>0, <1>4, <1>6, Zenon

(* How it goes on, bit by bit and piece by piece.                          *)
Walked(codes, s, bits) == Folded(WalkF(codes), s, bits)

(* The next bit is one step more of the walk.                              *)
LEMMA WalkMore ==
  ASSUME NEW U, NEW codes, CodeTable(codes, U), NEW s \in Walkers, NEW bits \in Seq(Bits)
  PROVE  /\ Walked(codes, s, <<>>) = s /\ Walked(codes, s, bits) \in Walkers
         /\ \A bit \in Bits : Walked(codes, s, Append(bits, bit)) = WalkStep(codes, Walked(codes, s, bits), bit)
<1>1. PICK F : F = WalkF(codes)
  OBVIOUS
<1>2. Folder(F, Walkers, Bits, s)
  BY <1>1, WalkFType
<1>3. Folded(F, s, <<>>) = s
  BY <1>2, FoldedEmpty
<1>4. Folded(F, s, bits) \in Walkers
  BY <1>2, FoldedType
<1>5. ASSUME NEW bit \in Bits
      PROVE  Folded(F, s, Append(bits, bit)) = WalkStep(codes, Folded(F, s, bits), bit)
  <2>1. Folded(F, s, Append(bits, bit)) = F[<<Folded(F, s, bits), bit>>]
    BY <1>2, FoldedAppend
  <2>2. PICK a \in Walkers : a = Folded(F, s, bits)
    BY <1>4
  <2>3. F[<<a, bit>>] = WalkStep(codes, a, bit)
    BY <1>1 DEF WalkF
  <2> QED BY <2>1, <2>2, <2>3, Zenon
<1> QED BY <1>1, <1>3, <1>4, <1>5 DEF Walked

(* A walk along two parts is the walk along the second from the end of     *)
(* the first.                                                              *)
LEMMA WalkConcat ==
  ASSUME NEW U, NEW codes, CodeTable(codes, U), NEW s \in Walkers, NEW p \in Seq(Bits)
  PROVE  \A q \in Seq(Bits) : Walked(codes, s, p \o q) = Walked(codes, Walked(codes, s, p), q)
<1> DEFINE Q == {q \in Seq(Bits) : Walked(codes, s, p \o q) = Walked(codes, Walked(codes, s, p), q)}
<1>0. PICK a \in Walkers : a = Walked(codes, s, p)
  BY WalkMore
<1>1. <<>> \in Q
  <2>1. p \o <<>> = p /\ <<>> \in Seq(Bits)
    BY ConcatEmptySeq, EmptySeq
  <2>2. Walked(codes, a, <<>>) = a
    BY <2>1, WalkMore
  <2> QED BY <1>0, <2>1, <2>2
<1>2. ASSUME NEW r \in Seq(Bits), NEW bit \in Bits, r \in Q PROVE Append(r, bit) \in Q
  <2>1. p \o Append(r, bit) = Append(p \o r, bit)
    BY ConcatAppend
  <2>2. PICK u \in Seq(Bits) : u = p \o r
    BY ConcatProperties
  <2>3. Walked(codes, s, Append(u, bit)) = WalkStep(codes, Walked(codes, s, u), bit)
    BY WalkMore
  <2>4. Walked(codes, a, Append(r, bit)) = WalkStep(codes, Walked(codes, a, r), bit)
    BY WalkMore
  <2>5. Walked(codes, s, u) = Walked(codes, a, r)
    BY <1>0, <1>2, <2>2
  <2>6. Append(r, bit) \in Seq(Bits)
    BY AppendProperties
  <2>7. Walked(codes, s, p \o Append(r, bit)) = Walked(codes, Walked(codes, s, p), Append(r, bit))
    BY <1>0, <2>1, <2>2, <2>3, <2>4, <2>5, Zenon
  <2> QED BY <2>6, <2>7
<1>3. Seq(Bits) \subseteq Q
  <2> HIDE DEF Q
  <2> QED BY <1>1, <1>2, SeqInduction
<1> QED BY <1>3

At(path, o) == [path |-> path, output |-> o]

\* Nothing can be added to a sequence without changing it.
LEMMA NoRest ==
  ASSUME NEW X, NEW s \in Seq(X), NEW q \in Seq(X), s = s \o q
  PROVE  q = <<>>
  BY ConcatSimplifications

(* Within a code nothing is emitted.                                       *)
LEMMA WithinCode ==
  ASSUME NEW U, NEW codes, Decodable(codes, U), NEW c \in U, NEW o \in Seq(Bytes)
  PROVE  \A p \in Seq(Bits) : \A q \in Seq(Bits) :
           q # <<>> /\ codes[c] = p \o q => Walked(codes, At(<<>>, o), p) = At(p, o)
<1>0. CodeTable(codes, U) /\ PrefixFree(codes) /\ DOMAIN codes = U /\ codes \in [U -> Seq(Bits)]
  BY DEF Decodable, CodeTable
<1>1. PICK s \in Walkers : s = At(<<>>, o)
  <2>1. <<>> \in Seq(Bits)
    BY EmptySeq
  <2> QED BY <2>1 DEF At, Walkers
<1> DEFINE Passes(p) == \A q \in Seq(Bits) : q # <<>> /\ codes[c] = p \o q => Walked(codes, s, p) = At(p, o)
           Q == {p \in Seq(Bits) : Passes(p)}
<1>2. <<>> \in Q
  <2>1. <<>> \in Seq(Bits)
    BY EmptySeq
  <2>2. Walked(codes, s, <<>>) = s
    BY <1>0, <2>1, WalkMore
  <2> QED BY <1>1, <2>1, <2>2
<1>3. ASSUME NEW p \in Seq(Bits), NEW bit \in Bits, p \in Q PROVE Append(p, bit) \in Q
  <2>1. Append(p, bit) \in Seq(Bits)
    BY AppendProperties
  <2>2. ASSUME NEW q \in Seq(Bits), q # <<>>, codes[c] = Append(p, bit) \o q
        PROVE  Walked(codes, s, Append(p, bit)) = At(Append(p, bit), o)
    <3>1. PICK u : u = <<bit>> \o q
      OBVIOUS
    <3>2. <<bit>> \in Seq(Bits)
      OBVIOUS
    <3>3. u \in Seq(Bits) /\ u # <<>>
      BY <3>1, FirstAndRest
    <3>4. codes[c] = p \o u
      <4>1. Append(p, bit) = p \o <<bit>>
        BY AppendIsConcat
      <4>2. (p \o <<bit>>) \o q = p \o (<<bit>> \o q)
        BY <3>2, Regroup
      <4> QED BY <2>2, <3>1, <4>1, <4>2, Zenon
    <3>5. Walked(codes, s, p) = At(p, o)
      BY <1>3, <3>3, <3>4
    <3>6. Walked(codes, s, Append(p, bit)) = WalkStep(codes, At(p, o), bit)
      BY <1>0, <3>5, WalkMore
    <3>7. Leaves(codes, Append(p, bit)) = {}
      <4> SUFFICES ASSUME NEW d \in U, codes[d] = Append(p, bit) PROVE FALSE
        BY <1>0 DEF Leaves
      <4>1. codes[c] = codes[d] \o q
        BY <2>2
      <4>2. c = d
        BY <1>0, <4>1 DEF PrefixFree
      <4>3. codes[c] \in Seq(Bits) /\ codes[c] = codes[c] \o q
        BY <1>0, <4>1, <4>2
      <4>4. q = <<>>
        BY <4>3, NoRest
      <4> QED BY <2>2, <4>4
    <3>8. WalkStep(codes, At(p, o), bit) = [At(p, o) EXCEPT !.path = Append(p, bit)]
      BY <3>7 DEF WalkStep, At
    <3>9. [At(p, o) EXCEPT !.path = Append(p, bit)] = At(Append(p, bit), o)
      <4>1. PICK x \in Seq(Bits) : x = Append(p, bit)
        BY <2>1
      <4>2. PICK a : a = At(p, o)
        OBVIOUS
      <4>6. a \in Walkers /\ a.path = p /\ a.output = o
        BY <4>2 DEF At, Walkers
      <4>3. PICK r : r = [a EXCEPT !.path = x]
        OBVIOUS
      <4>4. r \in Walkers /\ r.path = x /\ r.output = o
        BY <4>1, <4>6, <4>3 DEF Walkers
      <4>5. r = [path |-> r.path, output |-> r.output]
        BY <4>4 DEF Walkers
      <4> QED BY <4>1, <4>2, <4>3, <4>4, <4>5, Zenon DEF At
    <3> QED BY <3>6, <3>8, <3>9, Zenon
  <2> QED BY <2>1, <2>2
<1>4. Seq(Bits) \subseteq Q
  <2> HIDE DEF Q
  <2> QED BY <1>2, <1>3, SeqInduction
<1> QED BY <1>1, <1>4

(* The code of a symbol emits the symbol.                                  *)
LEMMA OneCode ==
  ASSUME NEW U, NEW codes, Decodable(codes, U), NEW c \in U, NEW o \in Seq(Bytes)
  PROVE  Walked(codes, At(<<>>, o), codes[c]) = At(<<>>, Append(o, c))
<1>0. /\ CodeTable(codes, U) /\ PrefixFree(codes) /\ DOMAIN codes = U /\ codes \in [U -> Seq(Bits)]
      /\ codes[c] \in Seq(Bits) /\ codes[c] # <<>>
  BY DEF Decodable, CodeTable
<1>1. PICK s \in Walkers : s = At(<<>>, o)
  <2>1. <<>> \in Seq(Bits)
    BY EmptySeq
  <2> QED BY <2>1 DEF At, Walkers
<1>2. PICK p \in Seq(Bits), bit \in Bits : codes[c] = Append(p, bit)
  BY <1>0, SequenceEmptyOrAppend
<1>3. Walked(codes, s, p) = At(p, o)
  <2>1. <<bit>> \in Seq(Bits) /\ <<bit>> # <<>>
    OBVIOUS
  <2>2. codes[c] = p \o <<bit>>
    BY <1>2, AppendIsConcat
  <2>3. \A r \in Seq(Bits) : \A q \in Seq(Bits) :
          q # <<>> /\ codes[c] = r \o q => Walked(codes, At(<<>>, o), r) = At(r, o)
    BY WithinCode
  <2> QED BY <1>1, <2>1, <2>2, <2>3, Zenon
<1>4. Walked(codes, s, codes[c]) = WalkStep(codes, At(p, o), bit)
  BY <1>0, <1>2, <1>3, WalkMore
<1>5. Leaves(codes, Append(p, bit)) = {c}
  <2>1. c \in Leaves(codes, Append(p, bit))
    BY <1>0, <1>2 DEF Leaves
  <2>2. ASSUME NEW d \in Leaves(codes, Append(p, bit)) PROVE d = c
    <3>1. d \in U /\ codes[d] = codes[c]
      BY <1>0, <1>2 DEF Leaves
    <3>2. codes[c] \o <<>> = codes[c] /\ <<>> \in Seq(Bits)
      BY <1>0, ConcatEmptySeq, EmptySeq
    <3>3. codes[c] = codes[d] \o <<>>
      BY <3>1, <3>2
    <3> QED BY <1>0, <3>1, <3>2, <3>3 DEF PrefixFree
  <2> QED BY <2>1, <2>2
<1>6. WalkStep(codes, At(p, o), bit) = At(<<>>, Append(o, c))
  <2>1. At(p, o).path = p /\ At(p, o).output = o
    BY DEF At
  <2>2. (CHOOSE x \in {c} : TRUE) = c
    OBVIOUS
  <2>3. WalkStep(codes, At(p, o), bit)
          = [path |-> <<>>, output |-> Append(o, CHOOSE x \in Leaves(codes, Append(p, bit)) : TRUE)]
    <3>1. Leaves(codes, Append(p, bit)) # {}
      BY <1>5
    <3> QED BY <2>1, <3>1, Zenon DEF WalkStep
  <2> QED BY <1>5, <2>2, <2>3, Zenon DEF At
<1> QED BY <1>1, <1>4, <1>6, Zenon

(* The codes of some data emit the data.                                   *)
LEMMA WalkDecodes ==
  ASSUME NEW U, NEW codes, Decodable(codes, U)
  PROVE  \A data \in Seq(U) :
           /\ Mapped(codes, data) \in Seq(Bits)
           /\ Walked(codes, Start, Mapped(codes, data)) = At(<<>>, data)
<1>0. CodeTable(codes, U) /\ Mapper(codes, U, Bits) /\ codes \in [U -> Seq(Bits)] /\ U \subseteq Bytes
  BY DEF Decodable, CodeTable, Mapper
<1>1. Start \in Walkers
  <2>1. <<>> \in Seq(Bits) /\ <<>> \in Seq(Bytes)
    BY EmptySeq
  <2> QED BY <2>1 DEF Start, Walkers
<1> DEFINE Q == {data \in Seq(U) : Walked(codes, Start, Mapped(codes, data)) = At(<<>>, data)}
<1>2. <<>> \in Q
  <2>1. <<>> \in Seq(U) /\ <<>> \in Seq(Bits)
    BY EmptySeq
  <2>2. Walked(codes, Start, <<>>) = Start
    BY <1>0, <1>1, <2>1, WalkMore
  <2>3. Mapped(codes, <<>>) = <<>>
    BY MappedEmpty
  <2>4. Start = At(<<>>, <<>>)
    BY DEF Start, At
  <2>5. Walked(codes, Start, Mapped(codes, <<>>)) = At(<<>>, <<>>)
    BY <2>2, <2>3, <2>4, Zenon
  <2> QED BY <2>1, <2>5
<1>3. ASSUME NEW data \in Seq(U), NEW c \in U, data \in Q PROVE Append(data, c) \in Q
  <2>1. PICK p : p = Mapped(codes, data)
    OBVIOUS
  <2>2. p \in Seq(Bits) /\ codes[c] \in Seq(Bits)
    BY <1>0, <2>1, MappedType
  <2>3. Mapped(codes, Append(data, c)) = p \o codes[c]
    <3>1. Mapped(codes, Append(data, c)) = Mapped(codes, data) \o codes[c]
      BY <1>0, MappedAppend
    <3> QED BY <2>1, <3>1, Zenon
  <2>4. Walked(codes, Start, p \o codes[c]) = Walked(codes, Walked(codes, Start, p), codes[c])
    BY <1>0, <1>1, <2>2, WalkConcat
  <2>5. Walked(codes, Start, p) = At(<<>>, data)
    BY <1>3, <2>1
  <2>6. data \in Seq(Bytes)
    BY <1>0, SeqMonotonic
  <2>7. Walked(codes, At(<<>>, data), codes[c]) = At(<<>>, Append(data, c))
    BY <2>6, OneCode
  <2>8. Walked(codes, Start, Mapped(codes, Append(data, c))) = At(<<>>, Append(data, c))
    BY <2>3, <2>4, <2>5, <2>7, Zenon
  <2>9. Append(data, c) \in Seq(U)
    BY AppendProperties
  <2> QED BY <2>8, <2>9
<1>4. Seq(U) \subseteq Q
  <2> HIDE DEF Q
  <2> QED BY <1>2, <1>3, SeqInduction
<1>5. \A data \in Seq(U) : Mapped(codes, data) \in Seq(Bits)
  BY <1>0, MappedType
<1> QED BY <1>4, <1>5

-----------------------------------------------------------------------------
(* Huffman: frequency tables *)

AllBytes == [i \in 1..Symbols |-> i - 1]

(* All the symbols, in order.                                              *)
LEMMA AllBytesType ==
  /\ Symbols \in Nat /\ AllBytes \in Seq(Bytes) /\ Len(AllBytes) = Symbols
  /\ \A n \in 1..Symbols : AllBytes[n] = n - 1 /\ n - 1 \in Bytes
<1>1. Symbols \in Nat
  BY CodecsAssumption
<1>2. \A n \in 1..Symbols : n - 1 \in Bytes
  BY <1>1 DEF Bytes
<1>3. AllBytes \in [1..Symbols -> Bytes]
  BY <1>2 DEF AllBytes
<1>4. AllBytes \in Seq(Bytes) /\ Len(AllBytes) = Symbols
  BY <1>1, <1>3, IsASeq, LenProperties
<1> QED BY <1>1, <1>2, <1>4 DEF AllBytes

(* Used collects the bytes that occur.                                     *)
UseStep(t, used, s) == IF t[s] > 0 THEN Append(used, s) ELSE used
UseF(t) == [p \in Seq(Bytes) \X Bytes |-> UseStep(t, p[1], p[2])]

(* The steps that list the symbols that occur lead from lists to lists,    *)
(* ...                                                                     *)
LEMMA UseFType == \A t : Folder(UseF(t), Seq(Bytes), Bytes, <<>>)
<1>1. ASSUME NEW t, NEW u \in Seq(Bytes), NEW s \in Bytes PROVE UseStep(t, u, s) \in Seq(Bytes)
  BY AppendProperties DEF UseStep
<1>2. <<>> \in Seq(Bytes)
  BY EmptySeq
<1> QED BY <1>1, <1>2 DEF UseF, Folder

(* ... so that the recursion of Used has a solution.                       *)
Collects(h, t) == h[0] = <<>> /\ \A n \in 1..Symbols : h[n] = UseStep(t, h[n - 1], n - 1)

LEMMA UsedCollects ==
  ASSUME NEW t
  PROVE  \E h : Collects(h, t) /\ h[Symbols] = Used(t)
<1> DEFINE Sol(g) == g = [n \in 0..Symbols |->
                            IF n = 0 THEN <<>>
                            ELSE IF t[n - 1] > 0 THEN Append(g[n - 1], n - 1) ELSE g[n - 1]]
           used == CHOOSE g : Sol(g)
<1>0. Symbols \in Nat
  BY CodecsAssumption
<1>1. \E g : Sol(g)
  <2>1. PICK F, s : F = UseF(t) /\ s = AllBytes
    OBVIOUS
  <2>2. Reaches(Folded(F, <<>>, s), Seq(Bytes), F, <<>>, s)
    BY <2>1, UseFType, AllBytesType, FoldRuns
  <2>3. PICK h \in [0..Symbols -> Seq(Bytes)] : Run(h, F, <<>>, s)
    BY <2>1, <2>2, AllBytesType DEF Reaches
  <2>4. h[0] = <<>> /\ \A n \in 1..Symbols : h[n] = F[<<h[n - 1], s[n]>>]
    BY <2>1, <2>3, AllBytesType DEF Run
  <2>5. ASSUME NEW n \in 1..Symbols PROVE h[n] = UseStep(t, h[n - 1], n - 1)
    <3>1. s[n] = n - 1 /\ n - 1 \in Bytes
      BY <2>1, AllBytesType
    <3>2. h[n - 1] \in Seq(Bytes)
      <4>1. n - 1 \in 0..Symbols
        BY <1>0
      <4> QED BY <4>1
    <3>3. h[n] = F[<<h[n - 1], n - 1>>]
      BY <2>4, <3>1
    <3> QED BY <2>1, <3>1, <3>2, <3>3 DEF UseF
  <2>6. ASSUME NEW n \in 0..Symbols
        PROVE  h[n] = IF n = 0 THEN <<>> ELSE IF t[n - 1] > 0 THEN Append(h[n - 1], n - 1) ELSE h[n - 1]
    <3>1. n = 0 \/ (n \in 1..Symbols /\ n # 0)
      BY <1>0
    <3> QED BY <2>4, <2>5, <3>1, Zenon DEF UseStep
  <2>7. h = [n \in 0..Symbols |-> h[n]]
    OBVIOUS
  <2>8. Sol(h)
    BY <2>6, <2>7, Zenon
  <2> QED BY <2>8
<1>2. Sol(used)
  <2> HIDE DEF Sol
  <2> QED BY <1>1
<1>3. Used(t) = used[Symbols]
  BY DEF Used
<1> HIDE DEF used
<1>4. used[0] = <<>>
  <2>1. 0 \in 0..Symbols
    BY <1>0
  <2> QED BY <1>2, <2>1, Zenon
<1>5. ASSUME NEW n \in 1..Symbols PROVE used[n] = UseStep(t, used[n - 1], n - 1)
  <2>1. n \in 0..Symbols /\ n # 0
    BY <1>0
  <2> QED BY <1>2, <2>1, Zenon DEF UseStep
<1>6. Collects(used, t)
  BY <1>4, <1>5 DEF Collects
<1> QED BY <1>3, <1>6

(* The bytes below n that occur, each once.                                *)
Lists(u, t, n) ==
  /\ u \in Seq(Bytes)
  /\ \A i, j \in 1..Len(u) : u[i] = u[j] => i = j
  /\ \A i \in 1..Len(u) : u[i] < n /\ t[u[i]] > 0
  /\ \A b \in Bytes : b < n /\ t[b] > 0 => \E i \in 1..Len(u) : u[i] = b

(* After one symbol more the list is that of the symbols up to it.         *)
LEMMA ListsMore ==
  ASSUME NEW t \in [Bytes -> Nat], NEW n \in Bytes, NEW u, Lists(u, t, n)
  PROVE  Lists(UseStep(t, u, n), t, n + 1)
<1>0. Bytes \subseteq Nat
  BY CodecsAssumption DEF Bytes
<1>1. PICK L \in Nat : L = Len(u)
  BY LenProperties DEF Lists
<1>2. /\ u \in Seq(Bytes) /\ \A i, j \in 1..L : u[i] = u[j] => i = j
      /\ \A i \in 1..L : u[i] < n /\ t[u[i]] > 0 /\ u[i] \in Bytes
      /\ \A b \in Bytes : b < n /\ t[b] > 0 => \E i \in 1..L : u[i] = b
  BY <1>1, ElementOfSeq DEF Lists
<1>3. n < n + 1 /\ \A b \in Bytes : (b < n + 1 => b = n \/ b < n) /\ (b < n => b < n + 1 /\ b # n)
  BY <1>0
<1>4. CASE t[n] > 0
  <2>1. PICK v : v = Append(u, n)
    OBVIOUS
  <2>2. v \in Seq(Bytes) /\ Len(v) = Len(u) + 1 /\ v[Len(u) + 1] = n /\ \A i \in 1..Len(u) : v[i] = u[i]
    BY <1>2, <2>1, AppendProperties
  <2>3. Len(v) = L + 1 /\ v[L + 1] = n /\ \A i \in 1..L : v[i] = u[i]
    BY <1>1, <2>2
  <2>4. \A i \in 1..L + 1 : i = L + 1 \/ i \in 1..L
    OBVIOUS
  <2>5. \A i, j \in 1..L + 1 : v[i] = v[j] => i = j
    <3>1. \A i \in 1..L : v[i] # n
      BY <1>0, <1>2, <2>3
    <3> QED BY <1>2, <2>3, <2>4, <3>1
  <2>6. \A i \in 1..L + 1 : v[i] < n + 1 /\ t[v[i]] > 0
    <3>1. ASSUME NEW i \in 1..L + 1 PROVE v[i] < n + 1 /\ t[v[i]] > 0
      <4>1. CASE i = L + 1
        BY <1>3, <1>4, <2>3, <4>1
      <4>2. CASE i \in 1..L
        <5>1. u[i] < n + 1 /\ t[u[i]] > 0 /\ v[i] = u[i]
          BY <1>2, <1>3, <2>3, <4>2, Zenon
        <5> QED BY <5>1
      <4> QED BY <2>4, <4>1, <4>2
    <3> QED BY <3>1
  <2>7. \A b \in Bytes : b < n + 1 /\ t[b] > 0 => \E i \in 1..L + 1 : v[i] = b
    <3>1. ASSUME NEW b \in Bytes, b < n + 1, t[b] > 0 PROVE \E i \in 1..L + 1 : v[i] = b
      <4>1. CASE b = n
        <5>1. L + 1 \in 1..L + 1
          OBVIOUS
        <5> QED BY <2>3, <4>1, <5>1
      <4>2. CASE b < n
        <5>1. PICK i \in 1..L : u[i] = b
          BY <1>2, <3>1, <4>2
        <5>2. i \in 1..L + 1
          OBVIOUS
        <5> QED BY <2>3, <5>1, <5>2
      <4> QED BY <1>3, <3>1, <4>1, <4>2
    <3> QED BY <3>1
  <2>8. Lists(v, t, n + 1)
    BY <2>2, <2>3, <2>5, <2>6, <2>7 DEF Lists
  <2> QED BY <1>4, <2>1, <2>8 DEF UseStep
<1>5. CASE ~(t[n] > 0)
  <2>1. \A i \in 1..L : u[i] < n + 1
    BY <1>2, <1>3, Zenon
  <2>2. \A b \in Bytes : b < n + 1 /\ t[b] > 0 => \E i \in 1..L : u[i] = b
    BY <1>2, <1>3, <1>5
  <2>3. Lists(u, t, n + 1)
    BY <1>1, <1>2, <2>1, <2>2 DEF Lists
  <2> QED BY <1>5, <2>3 DEF UseStep
<1> QED BY <1>4, <1>5

(* Used lists the symbols that occur, each once.                           *)
LEMMA UsedLists ==
  ASSUME NEW t \in [Bytes -> Nat]
  PROVE  Lists(Used(t), t, Symbols)
<1>1. PICK h : Collects(h, t) /\ h[Symbols] = Used(t)
  BY UsedCollects
<1>2. h[0] = <<>> /\ \A n \in 1..Symbols : h[n] = UseStep(t, h[n - 1], n - 1)
  BY <1>1 DEF Collects
<1> DEFINE S == {n \in Nat : n <= Symbols => Lists(h[n], t, n)}
<1>3. 0 \in S
  <2>1. <<>> \in Seq(Bytes) /\ Len(<<>>) = 0
    BY EmptySeq
  <2>2. \A b \in Bytes : ~(b < 0)
    BY CodecsAssumption DEF Bytes
  <2>3. Lists(<<>>, t, 0)
    BY <2>1, <2>2 DEF Lists
  <2> QED BY <1>2, <2>3
<1>4. ASSUME NEW n \in Nat, n \in S PROVE n + 1 \in S
  <2> SUFFICES ASSUME n + 1 <= Symbols PROVE Lists(h[n + 1], t, n + 1)
    OBVIOUS
  <2>1. n + 1 \in 1..Symbols /\ (n + 1) - 1 = n /\ n \in 0..Symbols /\ Lists(h[n], t, n)
    BY <1>4, AllBytesType
  <2>2. AllBytes[n + 1] = n /\ n \in Bytes
    BY <2>1, AllBytesType
  <2>5. h[n + 1] = UseStep(t, h[n], n)
    BY <1>2, <2>1
  <2>6. Lists(UseStep(t, h[n], n), t, n + 1)
    BY <2>1, <2>2, ListsMore
  <2> QED BY <2>5, <2>6
<1>5. Nat \subseteq S
  <2> HIDE DEF S
  <2> QED BY <1>3, <1>4, SetInduction
<1> QED BY <1>1, <1>5, AllBytesType

(* Total adds up a table.                                                  *)
TotalF(t) == [p \in Nat \X Bytes |-> p[1] + t[p[2]]]

(* The total of a table is a sum over its symbols, ...                     *)
LEMMA TotalFType == \A t \in [Bytes -> Nat] : Folder(TotalF(t), Nat, Bytes, 0)
<1>1. ASSUME NEW t \in [Bytes -> Nat], NEW a \in Nat, NEW s \in Bytes PROVE a + t[s] \in Nat
  OBVIOUS
<1> QED BY <1>1 DEF TotalF, Folder

(* ... the fold of these additions, ...                                    *)
LEMMA TotalIsFolded ==
  ASSUME NEW t \in [Bytes -> Nat]
  PROVE  Total(t) = Folded(TotalF(t), 0, AllBytes)
<1>0. PICK F, s : F = TotalF(t) /\ s = AllBytes
  OBVIOUS
<1> DEFINE Sol(g) == g = [r \in SUBSET DOMAIN s |->
                            IF r = {} THEN 0 ELSE g[r \ {Max(r)}] + t[s[Max(r)]]]
           iter == CHOOSE g : Sol(g)
<1>s. s \in Seq(Bytes)
  BY <1>0, AllBytesType
<1>1. ASSUME NEW r \in SUBSET DOMAIN s, r # {}, NEW a \in Nat
      PROVE  F[<<a, s[Max(r)]>>] = a + t[s[Max(r)]]
  BY <1>0, <1>s, <1>1, TopElement DEF TotalF
<1>f. Folder(F, Nat, Bytes, 0)
  BY <1>0, TotalFType
<1>2. \E g : Sol(g)
  <2>1. PICK g \in [SUBSET DOMAIN s -> Nat] : Steps(g, F, 0, s)
    BY <1>f, <1>s, StepsExist
  <2>2. ASSUME NEW r \in SUBSET DOMAIN s, r # {}
        PROVE  F[<<g[r \ {Max(r)}], s[Max(r)]>>] = g[r \ {Max(r)}] + t[s[Max(r)]]
    BY <1>1, <2>2
  <2>3. Sol(g)
    BY <2>1, <2>2 DEF Steps
  <2> QED BY <2>3
<1>3. Sol(iter)
  <2> HIDE DEF Sol
  <2> QED BY <1>2
<1>4. Total(t) = iter[DOMAIN s]
  BY <1>0 DEF Total, FoldLeft, MapThenFoldSet, AllBytes
<1> HIDE DEF iter
<1>5. Solves(iter, Nat, F, 0, s)
  BY <1>1, <1>3 DEF Solves
<1>6. iter[DOMAIN s] = Folded(F, 0, s)
  BY <1>5, <1>f, <1>s, SolvesFold
<1> QED BY <1>0, <1>4, <1>6, Zenon

(* h are the sums of the first entries of t.                               *)
Sums(h, t) ==
  /\ h \in [0..Symbols -> Nat] /\ h[0] = 0 /\ h[Symbols] = Total(t)
  /\ \A n \in 1..Symbols : h[n] = h[n - 1] + t[n - 1]

(* ... so that it has running sums.                                        *)
LEMMA TotalSums ==
  ASSUME NEW t \in [Bytes -> Nat]
  PROVE  \E h : Sums(h, t)
<1>1. PICK h : Run(h, TotalF(t), 0, AllBytes) /\ h[Symbols] = Total(t) /\ h \in [0..Symbols -> Nat]
  <2>1. Reaches(Folded(TotalF(t), 0, AllBytes), Nat, TotalF(t), 0, AllBytes)
    <3>1. PICK F, s : F = TotalF(t) /\ s = AllBytes
      OBVIOUS
    <3>2. Reaches(Folded(F, 0, s), Nat, F, 0, s)
      BY <3>1, TotalFType, AllBytesType, FoldRuns
    <3> QED BY <3>1, <3>2
  <2> QED BY <2>1, TotalIsFolded, AllBytesType DEF Reaches
<1>2. ASSUME NEW n \in 1..Symbols PROVE h[n] = h[n - 1] + t[n - 1]
  <2>1. AllBytes[n] = n - 1 /\ n - 1 \in Bytes /\ h[n] = TotalF(t)[<<h[n - 1], AllBytes[n]>>]
    BY <1>1, AllBytesType DEF Run
  <2>2. h[n - 1] \in Nat
    BY <1>1, AllBytesType
  <2> QED BY <2>1, <2>2 DEF TotalF
<1>3. h[0] = 0
  BY <1>1 DEF Run
<1> QED BY <1>1, <1>2, <1>3 DEF Sums

Plus(t, v) == [t EXCEPT ![v] = t[v] + 1]

(* An occurrence more adds one to the total.                               *)
LEMMA TotalMore ==
  ASSUME NEW t \in [Bytes -> Nat], NEW v \in Bytes
  PROVE  Total(Plus(t, v)) = Total(t) + 1
<1>0. Symbols \in Nat /\ v \in Nat /\ v < Symbols /\ \A n \in 1..Symbols : n - 1 \in Bytes
  BY AllBytesType DEF Bytes
<1>1. PICK u : u = Plus(t, v)
  OBVIOUS
<1>9. u \in [Bytes -> Nat]
  <2>1. t[v] + 1 \in Nat
    OBVIOUS
  <2> QED BY <1>1, <2>1 DEF Plus
<1>2. u[v] = t[v] + 1 /\ \A s \in Bytes : s # v => u[s] = t[s]
  BY <1>1 DEF Plus
<1>3. PICK g : Sums(g, t)
  BY TotalSums
<1>4. PICK h : Sums(h, u)
  BY <1>9, TotalSums
<1> DEFINE S == {n \in Nat : n <= Symbols => h[n] = g[n] + (IF v < n THEN 1 ELSE 0)}
<1>5. 0 \in S
  BY <1>0, <1>3, <1>4 DEF Sums
<1>6. ASSUME NEW n \in Nat, n \in S PROVE n + 1 \in S
  <2> SUFFICES ASSUME n + 1 <= Symbols PROVE h[n + 1] = g[n + 1] + (IF v < n + 1 THEN 1 ELSE 0)
    OBVIOUS
  <2>1. n + 1 \in 1..Symbols /\ (n + 1) - 1 = n /\ n \in 0..Symbols /\ n \in Bytes
    BY <1>0 DEF Bytes
  <2>2. h[n + 1] = h[n] + u[n] /\ g[n + 1] = g[n] + t[n]
    BY <1>3, <1>4, <2>1 DEF Sums
  <2>3. h[n] = g[n] + (IF v < n THEN 1 ELSE 0)
    BY <1>6, <2>1
  <2>4. g[n] \in Nat /\ h[n] \in Nat /\ u[n] \in Nat /\ t[n] \in Nat
    BY <1>3, <1>4, <1>9, <2>1 DEF Sums
  <2>5. CASE v = n
    BY <1>2, <2>2, <2>3, <2>4, <2>5
  <2>6. CASE v # n
    <3>1. u[n] = t[n] /\ (v < n + 1 <=> v < n)
      BY <1>0, <1>2, <2>1, <2>6
    <3> QED BY <2>2, <2>3, <2>4, <3>1
  <2> QED BY <2>5, <2>6
<1>7. Nat \subseteq S
  <2> HIDE DEF S
  <2> QED BY <1>5, <1>6, SetInduction
<1>8. h[Symbols] = g[Symbols] + 1
  BY <1>0, <1>7
<1> QED BY <1>1, <1>3, <1>4, <1>8 DEF Sums

(* The total of an empty table.                                            *)
LEMMA TotalNone == Total([s \in Bytes |-> 0]) = 0
<1>0. Symbols \in Nat /\ \A n \in 1..Symbols : n - 1 \in Bytes
  BY AllBytesType
<1>1. PICK t \in [Bytes -> Nat] : t = [s \in Bytes |-> 0]
  OBVIOUS
<1>2. PICK h : Sums(h, t)
  BY TotalSums
<1> DEFINE S == {n \in Nat : n <= Symbols => h[n] = 0}
<1>3. 0 \in S
  BY <1>2 DEF Sums
<1>4. ASSUME NEW n \in Nat, n \in S PROVE n + 1 \in S
  <2> SUFFICES ASSUME n + 1 <= Symbols PROVE h[n + 1] = 0
    OBVIOUS
  <2>1. n + 1 \in 1..Symbols /\ (n + 1) - 1 = n /\ h[n] = 0
    BY <1>0, <1>4
  <2>2. h[n + 1] = h[n] + t[n] /\ n \in Bytes
    BY <1>0, <1>2, <2>1 DEF Sums
  <2> QED BY <1>1, <2>1, <2>2
<1>5. Nat \subseteq S
  <2> HIDE DEF S
  <2> QED BY <1>3, <1>4, SetInduction
<1> QED BY <1>0, <1>1, <1>2, <1>5 DEF Sums

(* The table of some data counts its bytes.                                *)
LEMMA HistogramMore ==
  ASSUME NEW d \in Seq(Bytes)
  PROVE  /\ Histogram(d) \in [Bytes -> Nat]
         /\ \A v \in Bytes : Histogram(Append(d, v)) = Plus(Histogram(d), v)
<1> DEFINE Where(x, s) == {i \in DOMAIN x : x[i] = s}
<1>1. PICK n \in Nat : n = Len(d) /\ DOMAIN d = 1..n
  BY LenProperties
<1>2. \A s : IsFiniteSet(Where(d, s)) /\ Cardinality(Where(d, s)) \in Nat
  <2>1. ASSUME NEW s PROVE IsFiniteSet(Where(d, s))
    <3>1. IsFiniteSet(1..n) /\ Where(d, s) \subseteq 1..n
      BY <1>1, FS_Interval
    <3> QED BY <3>1, FS_Subset
  <2> QED BY <2>1, FS_CardinalityType
<1>3. Histogram(d) \in [Bytes -> Nat]
  BY <1>2 DEF Histogram
<1>4. ASSUME NEW v \in Bytes PROVE Histogram(Append(d, v)) = Plus(Histogram(d), v)
  <2>1. PICK e : e = Append(d, v)
    OBVIOUS
  <2>2. e \in Seq(Bytes) /\ Len(e) = n + 1 /\ e[n + 1] = v /\ DOMAIN e = 1..n + 1 /\ \A i \in 1..n : e[i] = d[i]
    BY <1>1, <2>1, AppendProperties, LenProperties
  <2>3. ASSUME NEW s \in Bytes
        PROVE  Cardinality(Where(e, s)) = Plus(Histogram(d), v)[s]
    <3>1. Histogram(d)[s] = Cardinality(Where(d, s)) /\ Histogram(d)[v] = Cardinality(Where(d, v))
      BY DEF Histogram
    <3>2. CASE s = v
      <4>1. Where(e, s) = Where(d, s) \cup {n + 1} /\ n + 1 \notin Where(d, s)
        BY <1>1, <2>2, <3>2
      <4>2. Cardinality(Where(d, s) \cup {n + 1}) = Cardinality(Where(d, s)) + 1
        <5> HIDE DEF Where
        <5> QED BY <1>2, <4>1, FS_AddElement
      <4>3. Plus(Histogram(d), v)[s] = Histogram(d)[v] + 1
        BY <1>3, <3>2 DEF Plus
      <4> QED BY <3>1, <3>2, <4>1, <4>2, <4>3
    <3>3. CASE s # v
      <4>1. Where(e, s) = Where(d, s)
        BY <1>1, <2>2, <3>3
      <4>2. Plus(Histogram(d), v)[s] = Histogram(d)[s]
        BY <1>3, <3>3 DEF Plus
      <4> QED BY <3>1, <4>1, <4>2
    <3> QED BY <3>2, <3>3
  <2>4. Plus(Histogram(d), v) \in [Bytes -> Nat]
    BY <1>3 DEF Plus
  <2>5. Histogram(e) = [s \in Bytes |-> Cardinality(Where(e, s))]
    BY DEF Histogram
  <2> HIDE DEF Where
  <2>6. Histogram(e) = Plus(Histogram(d), v)
    BY <2>3, <2>4, <2>5
  <2> QED BY <2>1, <2>6
<1> QED BY <1>3, <1>4

(* The frequencies of some data add up to its length.                      *)
LEMMA TotalIsLength == \A d \in Seq(Bytes) : Total(Histogram(d)) = Len(d)
<1> DEFINE Q == {d \in Seq(Bytes) : Total(Histogram(d)) = Len(d)}
<1>1. <<>> \in Q
  <2>1. <<>> \in Seq(Bytes) /\ Len(<<>>) = 0
    BY EmptySeq
  <2>2. Histogram(<<>>) = [s \in Bytes |-> 0]
    <3>1. \A s : {i \in DOMAIN <<>> : <<>>[i] = s} = {}
      OBVIOUS
    <3>2. Cardinality({}) = 0
      BY FS_EmptySet
    <3> QED BY <3>1, <3>2 DEF Histogram
  <2> QED BY <2>1, <2>2, TotalNone
<1>2. ASSUME NEW d \in Seq(Bytes), NEW v \in Bytes, d \in Q PROVE Append(d, v) \in Q
  <2>1. Total(Histogram(Append(d, v))) = Total(Histogram(d)) + 1
    <3>1. PICK t \in [Bytes -> Nat] : t = Histogram(d)
      BY HistogramMore
    <3>2. Histogram(Append(d, v)) = Plus(t, v)
      BY <3>1, HistogramMore
    <3>3. Total(Plus(t, v)) = Total(t) + 1
      BY TotalMore
    <3> QED BY <3>1, <3>2, <3>3
  <2>2. Append(d, v) \in Seq(Bytes) /\ Len(Append(d, v)) = Len(d) + 1
    BY AppendProperties
  <2> QED BY <1>2, <2>1, <2>2
<1>3. Seq(Bytes) \subseteq Q
  <2> HIDE DEF Q
  <2> QED BY <1>1, <1>2, SeqInduction
<1> QED BY <1>3

(* A byte of the data occurs in it.                                        *)
LEMMA HistogramPositive ==
  ASSUME NEW d \in Seq(Bytes), NEW i \in 1..Len(d)
  PROVE  d[i] \in Bytes /\ Histogram(d)[d[i]] > 0
<1>1. d[i] \in Bytes
  BY ElementOfSeq
<1>2. PICK w, v : w = {j \in DOMAIN d : d[j] = v} /\ v = d[i]
  OBVIOUS
<1>3. PICK n \in Nat : n = Len(d) /\ DOMAIN d = 1..n
  BY LenProperties
<1>4. i \in w /\ w \subseteq 1..n
  BY <1>2, <1>3
<1>5. IsFiniteSet(w)
  <2>1. IsFiniteSet(1..n)
    BY FS_Interval
  <2> QED BY <1>4, <2>1, FS_Subset
<1>6. Cardinality(w) \in Nat /\ Cardinality(w) # 0
  BY <1>4, <1>5, FS_CardinalityType, FS_EmptySet
<1>7. Histogram(d)[v] = Cardinality(w)
  BY <1>1, <1>2 DEF Histogram
<1>8. Histogram(d)[v] > 0
  BY <1>6, <1>7
<1> QED BY <1>1, <1>2, <1>8

-----------------------------------------------------------------------------
(* Huffman: the tree *)

Tables == UNION {[D -> Seq(Bits)] : D \in SUBSET Bytes}
Nodes == [weight : Nat, order : Nat, codes : Tables]

(* The tables of codes are the functions with codes of bits.               *)
LEMMA TablesAre ==
  \A codes : codes \in Tables <=> CodeTable(codes, DOMAIN codes)
  BY DEF Tables, CodeTable

(* Codes below a node differ in the bit of the node, or go on below it.    *)
Shifts(a, b, x, y, rest, s, z) ==
  /\ a \in Bits /\ b \in Bits /\ x \in Seq(Bits) /\ y \in Seq(Bits) /\ rest \in Seq(Bits)
  /\ s = <<a>> \o x /\ s = (<<b>> \o y) \o rest /\ z = y \o rest

(* Adding a bit in front keeps codes apart.                                *)
LEMMA Shifted ==
  ASSUME NEW a, NEW b, NEW x, NEW y, NEW rest, NEW s, NEW z, Shifts(a, b, x, y, rest, s, z)
  PROVE  a = b /\ x = z
<1>0. /\ a \in Bits /\ b \in Bits /\ x \in Seq(Bits) /\ y \in Seq(Bits) /\ rest \in Seq(Bits)
      /\ s = <<a>> \o x /\ s = (<<b>> \o y) \o rest /\ z = y \o rest
  BY Zenon DEF Shifts
<1>1. <<b>> \in Seq(Bits)
  BY <1>0
<1>2. (<<b>> \o y) \o rest = <<b>> \o (y \o rest)
  BY <1>0, <1>1, Regroup
<1>3. z \in Seq(Bits)
  BY <1>0, ConcatProperties
<1>4. s = <<b>> \o z
  BY <1>0, <1>2, Zenon
<1>5. Head(s) = a /\ Tail(s) = x
  BY <1>0, FirstAndRest
<1>6. Head(s) = b /\ Tail(s) = z
  BY <1>0, <1>3, <1>4, FirstAndRest
<1> QED BY <1>5, <1>6, Zenon

(* The codes of two subtrees, with a bit in front, are prefix-free.        *)
LEMMA JoinedCodes ==
  ASSUME NEW l \in Tables, NEW r \in Tables, DOMAIN l \cap DOMAIN r = {}, PrefixFree(l), PrefixFree(r)
  PROVE  /\ Joined(l, r) \in Tables /\ PrefixFree(Joined(l, r))
         /\ DOMAIN Joined(l, r) = DOMAIN l \cup DOMAIN r
<1>1. PICK L, R : L = DOMAIN l /\ R = DOMAIN r
  OBVIOUS
<1>2. L \subseteq Bytes /\ R \subseteq Bytes /\ l \in [L -> Seq(Bits)] /\ r \in [R -> Seq(Bits)] /\ L \cap R = {}
  BY <1>1 DEF Tables
<1>3. PICK j : j = Joined(l, r)
  OBVIOUS
<1>4. /\ DOMAIN j = L \cup R
      /\ \A s \in L : j[s] = <<0>> \o l[s]
      /\ \A s \in R : j[s] = <<1>> \o r[s]
  BY <1>1, <1>2, <1>3 DEF Joined
<1>5. <<0>> \in Seq(Bits) /\ <<1>> \in Seq(Bits) /\ 0 \in Bits /\ 1 \in Bits
  BY DEF Bits
<1>6. j \in Tables
  <2>1. ASSUME NEW s \in L \cup R PROVE j[s] \in Seq(Bits)
    <3>1. CASE s \in L
      <4>1. l[s] \in Seq(Bits)
        BY <1>2, <3>1
      <4>2. <<0>> \o l[s] \in Seq(Bits)
        BY <1>5, <4>1, ConcatProperties
      <4> QED BY <1>4, <3>1, <4>2
    <3>2. CASE s \in R
      <4>1. r[s] \in Seq(Bits)
        BY <1>2, <3>2
      <4>2. <<1>> \o r[s] \in Seq(Bits)
        BY <1>5, <4>1, ConcatProperties
      <4> QED BY <1>4, <3>2, <4>2
    <3> QED BY <3>1, <3>2
  <2>2. j = [s \in L \cup R |-> j[s]]
    BY <1>1, <1>3 DEF Joined
  <2>3. j \in [L \cup R -> Seq(Bits)]
    BY <2>1, <2>2
  <2> QED BY <1>2, <2>3 DEF Tables
<1>7. ASSUME NEW c \in L \cup R, NEW d \in L \cup R, NEW rest \in Seq(Bits), j[c] = j[d] \o rest
      PROVE  c = d
  <2>0. PICK a, b : a = (IF c \in L THEN 0 ELSE 1) /\ b = (IF d \in L THEN 0 ELSE 1)
    OBVIOUS
  <2>1. PICK x, y : x = (IF c \in L THEN l[c] ELSE r[c]) /\ y = (IF d \in L THEN l[d] ELSE r[d])
    OBVIOUS
  <2>2. a \in Bits /\ b \in Bits /\ x \in Seq(Bits) /\ y \in Seq(Bits)
    BY <1>2, <1>5, <2>0, <2>1
  <2>3. PICK s, z : s = j[c] /\ z = y \o rest
    OBVIOUS
  <2>4. j[c] = <<a>> \o x
    BY <1>2, <1>4, <2>0, <2>1
  <2>5. j[d] = <<b>> \o y
    BY <1>2, <1>4, <2>0, <2>1
  <2>6. s = <<a>> \o x /\ s = (<<b>> \o y) \o rest
    BY <1>7, <2>3, <2>4, <2>5, Zenon
  <2>7. a = b /\ x = z
    <3>1. Shifts(a, b, x, y, rest, s, z)
      BY <1>7, <2>2, <2>3, <2>6, Zenon DEF Shifts
    <3> QED BY <3>1, Shifted, Zenon
  <2>8. CASE c \in L /\ d \in L
    <3>1. l[c] = l[d] \o rest
      BY <2>1, <2>3, <2>7, <2>8, Zenon
    <3> QED BY <1>1, <2>8, <3>1 DEF PrefixFree
  <2>9. CASE c \notin L /\ d \notin L
    <3>1. r[c] = r[d] \o rest /\ c \in R /\ d \in R
      BY <2>1, <2>3, <2>7, <2>9, Zenon
    <3> QED BY <1>1, <3>1 DEF PrefixFree
  <2> QED BY <2>0, <2>7, <2>8, <2>9
<1>8. PrefixFree(j)
  BY <1>4, <1>7 DEF PrefixFree
<1> QED BY <1>1, <1>3, <1>4, <1>6, <1>8

(* Nodes whose orders tell them apart: one of them is the lightest.        *)
Ordered(h) == h \subseteq Nodes /\ IsFiniteSet(h) /\ \A a, b \in h : a.order = b.order => a = b

IsLightest(a, h) == a \in h /\ \A b \in h : a.weight <= b.weight

(* A finite heap that is not empty has a lightest node.                    *)
LEMMA LightestIs ==
  ASSUME NEW h, Ordered(h), h # {}
  PROVE  IsLightest(Lightest(h), h)
<1> DEFINE Best(x) == \E a \in x : \A b \in x \ {a} : Lighter(a, b)
           S == {n \in Nat : \A x : Ordered(x) /\ x # {} /\ Cardinality(x) = n => Best(x)}
<1>1. 0 \in S
  BY FS_EmptySet DEF Ordered
<1>2. ASSUME NEW n \in Nat, n \in S PROVE n + 1 \in S
  <2> SUFFICES ASSUME NEW x, Ordered(x), x # {}, Cardinality(x) = n + 1 PROVE Best(x)
    OBVIOUS
  <2>1. PICK c \in x : TRUE
    OBVIOUS
  <2>2. PICK y : y = x \ {c}
    OBVIOUS
  <2>3. Ordered(y) /\ Cardinality(y) = n /\ y \subseteq x
    <3>1. IsFiniteSet(x)
      BY DEF Ordered
    <3>2. IsFiniteSet(x \ {c}) /\ Cardinality(x \ {c}) = Cardinality(x) - 1
      BY <2>1, <3>1, FS_RemoveElement
    <3> QED BY <2>2, <3>2 DEF Ordered
  <2>4. CASE y = {}
    <3>1. x = {c}
      BY <2>1, <2>2, <2>4
    <3> QED BY <3>1
  <2>5. CASE y # {}
    <3>1. PICK a \in y : \A b \in y \ {a} : Lighter(a, b)
      BY <1>2, <2>3, <2>5
    <3>2. \A b \in x : b.weight \in Nat /\ b.order \in Nat
      BY DEF Ordered, Nodes
    <3>3. a \in x /\ a # c /\ a.order # c.order
      BY <2>1, <2>2, <3>1 DEF Ordered
    <3>4. CASE Lighter(a, c)
      <4>1. \A b \in x \ {a} : Lighter(a, b)
        BY <2>2, <3>1, <3>4
      <4> QED BY <3>3, <4>1
    <3>5. CASE ~Lighter(a, c)
      <4>1. Lighter(c, a)
        BY <2>1, <3>2, <3>3, <3>5 DEF Lighter
      <4>2. ASSUME NEW b \in x \ {c} PROVE Lighter(c, b)
        <5>1. CASE b = a
          BY <4>1, <5>1
        <5>2. CASE b # a
          <6>1. Lighter(a, b) /\ b \in x
            BY <2>2, <3>1, <5>2
          <6> QED BY <2>1, <3>2, <3>3, <4>1, <6>1 DEF Lighter
        <5> QED BY <5>1, <5>2
      <4> QED BY <2>1, <4>2
    <3> QED BY <3>4, <3>5
  <2> QED BY <2>4, <2>5
<1>3. Nat \subseteq S
  <2> HIDE DEF S
  <2> QED BY <1>1, <1>2, SetInduction
<1>4. Cardinality(h) \in Nat
  BY FS_CardinalityType DEF Ordered
<1>5. Best(h)
  BY <1>3, <1>4
<1>6. PICK a : a = Lightest(h)
  OBVIOUS
<1>7. a \in h /\ \A b \in h \ {a} : Lighter(a, b)
  BY <1>5, <1>6 DEF Lightest
<1>8. \A b \in h : b.weight \in Nat
  BY DEF Ordered, Nodes
<1>9. \A b \in h \ {a} : a.weight <= b.weight
  BY <1>7, <1>8 DEF Lighter
<1>10. \A b \in h : a.weight <= b.weight
  BY <1>7, <1>8, <1>9
<1> QED BY <1>6, <1>7, <1>10 DEF IsLightest

(* The node the code takes is one of the heap.                             *)
LEMMA LightestIn ==
  ASSUME NEW h, Ordered(h), h # {}
  PROVE  Lightest(h) \in h
BY LightestIs DEF IsLightest

(* A heap over U: nodes that share the symbols of U among them.            *)
Heap(h, U) ==
  /\ Ordered(h)
  /\ \A a \in h : DOMAIN a.codes # {} /\ PrefixFree(a.codes)
  /\ \A a, b \in h : a # b => DOMAIN a.codes \cap DOMAIN b.codes = {}
  /\ U = UNION {DOMAIN a.codes : a \in h}

\* A heap of k nodes, none of an order above o.
Stage(h, U, k, o) == Heap(h, U) /\ Cardinality(h) = k /\ \A a \in h : a.order <= o

(* Merging two nodes leaves a heap with one node fewer.                    *)
LEMMA MergeEffect ==
  ASSUME NEW U, NEW h, NEW k \in Nat, NEW c \in Nat, NEW o \in Nat, k > 0, c = k + 1,
         Heap(h, U), Cardinality(h) = c, \A a \in h : a.order < o
  PROVE  Stage(Merge(h, o), U, k, o)
<1>0. Ordered(h) /\ IsFiniteSet(h) /\ h \subseteq Nodes
  BY DEF Heap, Ordered
<1>1. h # {}
  <2>1. c # 0
    OBVIOUS
  <2>2. Cardinality({}) = 0
    BY FS_EmptySet
  <2> QED BY <2>1, <2>2
<1>2. PICK l \in h : l = Lightest(h)
  BY <1>0, <1>1, LightestIn
<1>3. PICK y : y = h \ {l}
  OBVIOUS
<1>4. IsFiniteSet(y) /\ Cardinality(y) = k
  <2>1. IsFiniteSet(h \ {l}) /\ Cardinality(h \ {l}) = Cardinality(h) - 1
    BY <1>0, FS_RemoveElement
  <2> QED BY <1>3, <2>1
<1>5. Ordered(y) /\ y # {}
  <2>1. y # {}
    <3>1. k # 0
      OBVIOUS
    <3>2. Cardinality({}) = 0
      BY FS_EmptySet
    <3> QED BY <1>4, <3>1, <3>2
  <2> QED BY <1>0, <1>3, <1>4, <2>1 DEF Ordered
<1>6. PICK r \in y : r = Lightest(y)
  BY <1>5, LightestIn
<1>7. PICK z : z = y \ {r}
  OBVIOUS
<1>8. IsFiniteSet(z) /\ Cardinality(z) = k - 1
  <2>1. IsFiniteSet(y \ {r}) /\ Cardinality(y \ {r}) = Cardinality(y) - 1
    BY <1>4, FS_RemoveElement
  <2> QED BY <1>4, <1>7, <2>1
<1>9. z = h \ {l, r} /\ r \in h /\ r # l /\ z \subseteq h
  BY <1>3, <1>6, <1>7
<1>10. /\ l.weight \in Nat /\ l.order \in Nat /\ l.codes \in Tables
       /\ r.weight \in Nat /\ r.order \in Nat /\ r.codes \in Tables
  BY <1>0, <1>9 DEF Nodes
<1>11. /\ DOMAIN l.codes # {} /\ PrefixFree(l.codes) /\ PrefixFree(r.codes)
       /\ DOMAIN l.codes \cap DOMAIN r.codes = {}
  BY <1>9 DEF Heap
<1>12. PICK j : j = Joined(l.codes, r.codes)
  OBVIOUS
<1>13. j \in Tables /\ PrefixFree(j) /\ DOMAIN j = DOMAIN l.codes \cup DOMAIN r.codes
  BY <1>10, <1>11, <1>12, JoinedCodes
<1>14. PICK w \in Nat : w = l.weight + r.weight
  BY <1>10
<1>15. PICK n : n = [weight |-> w, order |-> o, codes |-> j]
  OBVIOUS
<1>16. n \in Nodes /\ n.order = o /\ n.codes = j
  BY <1>13, <1>15 DEF Nodes
<1>17. PICK m : m = z \cup {n}
  OBVIOUS
<1>18. Merge(h, o) = m
  BY <1>2, <1>3, <1>6, <1>9, <1>12, <1>14, <1>15, <1>17 DEF Merge
<1>19. \A a \in z : a.order < o /\ a.order \in Nat /\ a \in Nodes
  BY <1>0, <1>9 DEF Nodes
<1>20. n \notin z
  BY <1>16, <1>19
<1>21. IsFiniteSet(m) /\ Cardinality(m) = k
  <2>1. IsFiniteSet(z \cup {n}) /\ Cardinality(z \cup {n}) = Cardinality(z) + 1
    BY <1>8, <1>20, FS_AddElement
  <2> QED BY <1>8, <1>17, <2>1
<1>22. Ordered(m)
  <2>1. \A a, b \in z : a.order = b.order => a = b
    BY <1>0, <1>9 DEF Ordered
  <2>2. \A a \in z : a.order # n.order
    BY <1>16, <1>19
  <2>3. \A a, b \in m : a.order = b.order => a = b
    BY <1>17, <2>1, <2>2
  <2>4. m \subseteq Nodes
    BY <1>16, <1>17, <1>19
  <2> QED BY <1>21, <2>3, <2>4 DEF Ordered
<1>23. \A a \in m : DOMAIN a.codes # {} /\ PrefixFree(a.codes)
  <2>1. \A a \in z : DOMAIN a.codes # {} /\ PrefixFree(a.codes)
    BY <1>9 DEF Heap
  <2>2. DOMAIN n.codes # {} /\ PrefixFree(n.codes)
    BY <1>11, <1>13, <1>16
  <2> QED BY <1>17, <2>1, <2>2
<1>24. \A a, b \in m : a # b => DOMAIN a.codes \cap DOMAIN b.codes = {}
  <2>1. \A a, b \in h : a # b => DOMAIN a.codes \cap DOMAIN b.codes = {}
    BY DEF Heap
  <2>2. \A a \in z : DOMAIN a.codes \cap DOMAIN n.codes = {}
    <3>1. ASSUME NEW a \in z PROVE DOMAIN a.codes \cap DOMAIN n.codes = {}
      <4>1. a \in h /\ a # l /\ a # r
        BY <1>9
      <4>2. DOMAIN a.codes \cap DOMAIN l.codes = {} /\ DOMAIN a.codes \cap DOMAIN r.codes = {}
        BY <1>9, <2>1, <4>1
      <4> QED BY <1>13, <1>16, <4>2
    <3> QED BY <3>1
  <2> QED BY <1>9, <1>17, <2>1, <2>2
<1>25. U = UNION {DOMAIN a.codes : a \in m}
  <2>1. U = UNION {DOMAIN a.codes : a \in h}
    BY DEF Heap
  <2>2. \A a \in h : a \in z \/ a = l \/ a = r
    BY <1>9
  <2>3. ASSUME NEW s PROVE s \in U <=> \E a \in m : s \in DOMAIN a.codes
    <3>1. s \in U <=> \E a \in h : s \in DOMAIN a.codes
      BY <2>1
    <3>2. (\E a \in h : s \in DOMAIN a.codes) <=> (\E a \in z : s \in DOMAIN a.codes) \/ s \in DOMAIN n.codes
      BY <1>9, <1>13, <1>16, <2>2
    <3>3. (\E a \in m : s \in DOMAIN a.codes) <=> (\E a \in z : s \in DOMAIN a.codes) \/ s \in DOMAIN n.codes
      BY <1>17
    <3> QED BY <3>1, <3>2, <3>3
  <2>4. \A s : s \in U <=> s \in UNION {DOMAIN a.codes : a \in m}
    BY <2>3
  <2> QED BY <2>4
<1>26. \A a \in m : a.order <= o
  BY <1>16, <1>17, <1>19
<1> QED BY <1>18, <1>21, <1>22, <1>23, <1>24, <1>25, <1>26 DEF Heap, Stage

(* The leaves of a table: one for each symbol that occurs.                 *)
LeavesOf(t, u) == {[weight |-> t[u[i]], order |-> i, codes |-> Leaf(u[i])] : i \in DOMAIN u}
Occurring(t) == {b \in Bytes : t[b] > 0}

(* A leaf has the empty code.                                              *)
LEMMA LeafIsTable ==
  ASSUME NEW s \in Bytes
  PROVE  Leaf(s) \in Tables /\ PrefixFree(Leaf(s)) /\ DOMAIN Leaf(s) = {s}
<1>1. <<>> \in Seq(Bits)
  BY EmptySeq
<1>2. Leaf(s) \in [{s} -> Seq(Bits)] /\ DOMAIN Leaf(s) = {s}
  BY <1>1 DEF Leaf
<1> QED BY <1>2 DEF Tables, PrefixFree

(* The leaves the tree is built from are a heap of the symbols that        *)
(* occur.                                                                  *)
LEMMA LeavesAreHeap ==
  ASSUME NEW t \in [Bytes -> Nat], NEW u, Lists(u, t, Symbols), NEW n \in Nat, n = Len(u)
  PROVE  Stage(LeavesOf(t, u), Occurring(t), n, n)
<1>1. /\ u \in Seq(Bytes) /\ DOMAIN u = 1..n
      /\ \A i, j \in 1..n : u[i] = u[j] => i = j
      /\ \A i \in 1..n : u[i] \in Bytes /\ t[u[i]] > 0
      /\ \A b \in Bytes : t[b] > 0 => \E i \in 1..n : u[i] = b
  <2>1. u \in Seq(Bytes)
    BY DEF Lists
  <2>2. DOMAIN u = 1..n /\ \A i \in 1..n : u[i] \in Bytes
    BY <2>1, LenProperties, ElementOfSeq
  <2>3. \A b \in Bytes : b < Symbols
    BY CodecsAssumption DEF Bytes
  <2> QED BY <2>1, <2>2, <2>3 DEF Lists
<1> DEFINE f == [i \in 1..n |-> [weight |-> t[u[i]], order |-> i, codes |-> Leaf(u[i])]]
<1>2. PICK h : h = LeavesOf(t, u)
  OBVIOUS
<1>3. \A i \in 1..n : f[i] \in Nodes /\ f[i].order = i /\ f[i].codes = Leaf(u[i])
  <2>1. ASSUME NEW i \in 1..n PROVE f[i] \in Nodes /\ f[i].order = i /\ f[i].codes = Leaf(u[i])
    <3>1. PICK s \in Bytes : s = u[i]
      BY <1>1
    <3>2. t[s] \in Nat /\ i \in Nat
      OBVIOUS
    <3>3. Leaf(s) \in Tables
      BY LeafIsTable
    <3> QED BY <3>1, <3>2, <3>3 DEF Nodes
  <2> QED BY <2>1
<1>4. h = {f[i] : i \in 1..n}
  BY <1>1, <1>2 DEF LeavesOf
<1> HIDE DEF f
<1>5. h \subseteq Nodes
  BY <1>3, <1>4
<1>6. IsFiniteSet(h) /\ Cardinality(h) = n
  <2>1. f \in [1..n -> h]
    <3>1. f = [i \in 1..n |-> f[i]]
      BY DEF f
    <3> QED BY <1>4, <3>1
  <2>2. \A i, j \in 1..n : f[i] = f[j] => i = j
    BY <1>3
  <2>3. \A a \in h : \E i \in 1..n : f[i] = a
    BY <1>4
  <2>4. f \in Bijection(1..n, h)
    BY <2>1, <2>2, <2>3 DEF Bijection, Injection, Surjection, IsInjective
  <2>5. ExistsBijection(1..n, h)
    BY <2>4 DEF ExistsBijection
  <2>6. Cardinality(h) = n
    BY <2>5, FS_CountingElements
  <2>7. IsFiniteSet(h)
    BY <2>5, FS_NatBijection
  <2> QED BY <2>6, <2>7
<1>7. Ordered(h)
  BY <1>3, <1>4, <1>5, <1>6 DEF Ordered
<1>8. \A i \in 1..n : PrefixFree(f[i].codes) /\ DOMAIN f[i].codes = {u[i]}
  <2>1. ASSUME NEW i \in 1..n PROVE PrefixFree(f[i].codes) /\ DOMAIN f[i].codes = {u[i]}
    <3>1. PICK s \in Bytes : s = u[i]
      BY <1>1
    <3>2. PrefixFree(Leaf(s)) /\ DOMAIN Leaf(s) = {s}
      BY LeafIsTable
    <3> QED BY <1>3, <3>1, <3>2
  <2> QED BY <2>1
<1>9. \A a \in h : DOMAIN a.codes # {} /\ PrefixFree(a.codes)
  BY <1>4, <1>8
<1>10. \A a, b \in h : a # b => DOMAIN a.codes \cap DOMAIN b.codes = {}
  <2>1. ASSUME NEW i \in 1..n, NEW k \in 1..n, f[i] # f[k]
        PROVE  DOMAIN f[i].codes \cap DOMAIN f[k].codes = {}
    <3>1. i # k
      BY <2>1
    <3>2. u[i] # u[k]
      BY <1>1, <3>1
    <3> QED BY <1>8, <3>2
  <2> QED BY <1>4, <2>1
<1>11. Occurring(t) = UNION {DOMAIN a.codes : a \in h}
  <2>1. ASSUME NEW s PROVE s \in Occurring(t) <=> s \in UNION {DOMAIN a.codes : a \in h}
    <3>1. s \in UNION {DOMAIN a.codes : a \in h} <=> \E a \in h : s \in DOMAIN a.codes
      OBVIOUS
    <3>2. (\E a \in h : s \in DOMAIN a.codes) <=> \E i \in 1..n : s = u[i]
      BY <1>4, <1>8
    <3>3. s \in Occurring(t) <=> \E i \in 1..n : s = u[i]
      BY <1>1 DEF Occurring
    <3> QED BY <3>1, <3>2, <3>3
  <2> QED BY <2>1
<1>12. \A a \in h : a.order <= n
  BY <1>3, <1>4
<1> QED BY <1>2, <1>6, <1>7, <1>9, <1>10, <1>11, <1>12 DEF Heap, Stage

(* The tree grows by merging: from n leaves, n - 1 steps leave one node.   *)
Shrinking(h, U, o) == Heap(h, U) /\ Cardinality(h) > 1 /\ \A a \in h : a.order < o
Later(t) == IF t = {} THEN 0 ELSE Max(t)

(* Whatever number of merges has been done, what is left is a heap with    *)
(* as many nodes fewer.                                                    *)
LEMMA HeapShrinks ==
  ASSUME NEW U, NEW base, NEW n \in Nat, n > 0, Stage(base, U, n, n), NEW g,
         g[{}] = base,
         \A t \in SUBSET (1..(n - 1)) : t # {} /\ Shrinking(g[t \ {Max(t)}], U, n + Max(t))
            => g[t] = Merge(g[t \ {Max(t)}], n + Max(t))
  PROVE  \A t \in SUBSET (1..(n - 1)) : Stage(g[t], U, n - Cardinality(t), n + Later(t))
<1>0. n - 1 \in Nat
  OBVIOUS
<1>1. IsFiniteSet(1..(n - 1)) /\ Cardinality(1..(n - 1)) = n - 1
  BY <1>0, FS_Interval
<1> DEFINE S == {k \in Nat : \A t \in SUBSET (1..(n - 1)) :
                   Cardinality(t) = k => Stage(g[t], U, n - k, n + Later(t))}
<1>2. 0 \in S
  <2>1. ASSUME NEW t \in SUBSET (1..(n - 1)), Cardinality(t) = 0 PROVE Stage(g[t], U, n - 0, n + Later(t))
    <3>1. IsFiniteSet(t)
      BY <1>1, FS_Subset
    <3>2. t = {}
      BY <2>1, <3>1, FS_EmptySet
    <3>3. n - 0 = n /\ n + Later(t) = n
      BY <3>2 DEF Later
    <3> QED BY <3>2, <3>3
  <2> QED BY <2>1
<1>3. ASSUME NEW k \in Nat, k \in S PROVE k + 1 \in S
  <2> SUFFICES ASSUME NEW t \in SUBSET (1..(n - 1)), Cardinality(t) = k + 1
               PROVE  Stage(g[t], U, n - (k + 1), n + Later(t))
    OBVIOUS
  <2>1. IsFiniteSet(t) /\ Cardinality(t) <= n - 1
    <3>1. PICK T : T = 1..(n - 1)
      OBVIOUS
    <3>2. IsFiniteSet(T) /\ t \in SUBSET T /\ Cardinality(T) = n - 1
      BY <1>1, <3>1
    <3>3. IsFiniteSet(t) /\ Cardinality(t) <= Cardinality(T)
      BY <3>2, FS_Subset
    <3> QED BY <3>2, <3>3
  <2>2. t # {}
    <3>1. k + 1 # 0
      OBVIOUS
    <3>2. Cardinality({}) = 0
      BY FS_EmptySet
    <3> QED BY <3>1, <3>2
  <2>3. PICK m : m = Max(t)
    OBVIOUS
  <2>4. m \in t /\ m \in 1..(n - 1) /\ \A i \in t : i <= m
    BY <1>0, <2>2, <2>3, MaxIsGreatest
  <2>5. PICK r : r = t \ {m}
    OBVIOUS
  <2>6. r \in SUBSET (1..(n - 1)) /\ Cardinality(r) = k
    <3>1. Cardinality(t \ {m}) = Cardinality(t) - 1
      BY <1>1, <2>4, OneFewer
    <3>2. Cardinality(r) = k
      BY <2>5, <3>1
    <3>3. r \in SUBSET (1..(n - 1))
      BY <2>5
    <3> QED BY <3>2, <3>3
  <2>7. Stage(g[r], U, n - k, n + Later(r))
    BY <1>3, <2>6
  <2>8. Later(r) \in Nat /\ Later(r) < m
    <3>1. CASE r = {}
      BY <2>4, <3>1 DEF Later
    <3>2. CASE r # {}
      <4>1. Max(r) \in r
        BY <1>0, <2>6, <3>2, MaxIsGreatest
      <4>2. Max(r) \in 1..(n - 1) /\ Max(r) <= m /\ Max(r) # m
        BY <2>4, <2>5, <2>6, <4>1
      <4> QED BY <2>4, <3>2, <4>2 DEF Later
    <3> QED BY <3>1, <3>2
  <2>9. PICK c \in Nat, d \in Nat, o \in Nat : c = n - k /\ d = n - (k + 1) /\ o = n + m
    BY <2>1, <2>4
  <2>10. c = d + 1 /\ d > 0
    BY <2>1, <2>9
  <2>11. Heap(g[r], U) /\ Cardinality(g[r]) = c
    BY <2>7, <2>9 DEF Stage
  <2>12. \A a \in g[r] : a.order < o
    <3>1. \A a \in g[r] : a.order <= n + Later(r) /\ a.order \in Nat
      <4>1. g[r] \subseteq Nodes
        BY <2>11 DEF Heap, Ordered
      <4> QED BY <2>7, <4>1 DEF Stage, Nodes
    <3> QED BY <2>8, <2>9, <2>4, <3>1
  <2>13. Shrinking(g[r], U, n + m)
    BY <2>9, <2>10, <2>11, <2>12 DEF Shrinking
  <2>14. g[t] = Merge(g[r], o)
    BY <2>2, <2>3, <2>5, <2>9, <2>13
  <2>15. Stage(Merge(g[r], o), U, d, o)
    BY <2>10, <2>11, <2>12, MergeEffect
  <2>16. Later(t) = m
    BY <2>2, <2>3 DEF Later
  <2> QED BY <2>9, <2>14, <2>15, <2>16
<1>4. Nat \subseteq S
  <2> HIDE DEF S
  <2> QED BY <1>2, <1>3, SetInduction
<1>5. ASSUME NEW t \in SUBSET (1..(n - 1)) PROVE Stage(g[t], U, n - Cardinality(t), n + Later(t))
  <2>1. IsFiniteSet(t)
    BY <1>1, FS_Subset
  <2>2. Cardinality(t) \in Nat
    BY <2>1, FS_CardinalityType
  <2> QED BY <1>4, <2>2
<1> QED BY <1>5

\* The steps of the fold behind _build_tree, as a function.
HeapF(U) == [p \in (SUBSET Nodes) \X Nat |-> IF Shrinking(p[1], U, p[2]) THEN Merge(p[1], p[2]) ELSE p[1]]

(* A merge of a heap yields nodes.                                         *)
LEMMA ShrinkEffect ==
  ASSUME NEW U, NEW h, NEW o \in Nat, Shrinking(h, U, o)
  PROVE  Merge(h, o) \in SUBSET Nodes
<1>1. Heap(h, U) /\ IsFiniteSet(h) /\ Cardinality(h) > 1 /\ \A a \in h : a.order < o
  BY DEF Shrinking, Heap, Ordered
<1>2. Cardinality(h) \in Nat
  BY <1>1, FS_CardinalityType
<1>3. PICK c \in Nat : c = Cardinality(h)
  BY <1>2
<1>4. PICK k \in Nat : c = k + 1 /\ k > 0
  <2>1. c - 1 \in Nat /\ c = (c - 1) + 1 /\ c - 1 > 0
    BY <1>1, <1>3
  <2> QED BY <2>1
<1>5. Stage(Merge(h, o), U, k, o)
  BY <1>1, <1>3, <1>4, MergeEffect
<1> QED BY <1>5 DEF Stage, Heap, Ordered

(* The merges are the steps of a fold over heaps.                          *)
LEMMA HeapFType ==
  ASSUME NEW U, NEW base \in SUBSET Nodes
  PROVE  Folder(HeapF(U), SUBSET Nodes, Nat, base)
<1>1. ASSUME NEW h \in SUBSET Nodes, NEW o \in Nat
      PROVE  (IF Shrinking(h, U, o) THEN Merge(h, o) ELSE h) \in SUBSET Nodes
  BY ShrinkEffect
<1>2. HeapF(U) \in [(SUBSET Nodes) \X Nat -> SUBSET Nodes]
  BY <1>1 DEF HeapF
<1> QED BY <1>2 DEF Folder

Orders(n) == [i \in 1..n - 1 |-> n + i]
Root(base, n) == FoldLeft(Merge, base, Orders(n))

MergesFrom(g, base, s) ==
  g = [t \in SUBSET DOMAIN s |-> IF t = {} THEN base ELSE Merge(g[t \ {Max(t)}], s[Max(t)])]

(* While merges are left, there are two nodes to merge.                    *)
LEMMA StillShrinking ==
  ASSUME NEW U, NEW n \in Nat, n > 0, NEW g,
         \A t \in SUBSET (1..(n - 1)) : Stage(g[t], U, n - Cardinality(t), n + Later(t)),
         NEW t \in SUBSET (1..(n - 1)), t # {}
  PROVE  Shrinking(g[t \ {Max(t)}], U, n + Max(t))
<1>0. n - 1 \in Nat
  OBVIOUS
<1>1. PICK m \in 1..(n - 1), r \in SUBSET (1..(n - 1)) : m = Max(t) /\ r = t \ {m}
  <2>1. Max(t) \in 1..(n - 1)
    BY <1>0, MaxIsGreatest
  <2> QED BY <2>1
<1>2. m \in t /\ \A i \in t : i <= m
  BY <1>0, <1>1, MaxIsGreatest
<1>3. PICK d \in Nat : d = Cardinality(r) /\ d < n - 1
  <2>1. IsFiniteSet(1..(n - 1)) /\ Cardinality(1..(n - 1)) = n - 1
    BY <1>0, FS_Interval
  <2>2. PICK T : T = 1..(n - 1)
    OBVIOUS
  <2>3. IsFiniteSet(T) /\ t \in SUBSET T /\ Cardinality(T) = n - 1
    BY <2>1, <2>2
  <2>4. IsFiniteSet(t) /\ Cardinality(t) <= Cardinality(T)
    BY <2>3, FS_Subset
  <2>5. IsFiniteSet(t \ {m}) /\ Cardinality(t \ {m}) = Cardinality(t) - 1
    BY <1>2, <2>4, FS_RemoveElement
  <2>6. Cardinality(t) \in Nat /\ Cardinality(t \ {m}) \in Nat
    BY <2>4, <2>5, FS_CardinalityType
  <2> QED BY <1>1, <2>3, <2>4, <2>5, <2>6
<1>4. Stage(g[r], U, n - d, n + Later(r))
  BY <1>1, <1>3
<1>5. Later(r) \in Nat /\ Later(r) < m
  <2>1. CASE r = {}
    BY <1>1, <2>1 DEF Later
  <2>2. CASE r # {}
    <3>1. Max(r) \in r
      BY <1>0, <1>1, <2>2, MaxIsGreatest
    <3>2. Max(r) \in 1..(n - 1) /\ Max(r) <= m /\ Max(r) # m
      BY <1>1, <1>2, <3>1
    <3> QED BY <2>2, <3>2 DEF Later
  <2> QED BY <2>1, <2>2
<1>6. Heap(g[r], U) /\ Cardinality(g[r]) = n - d /\ \A a \in g[r] : a.order <= n + Later(r) /\ a.order \in Nat
  <2>1. g[r] \subseteq Nodes
    BY <1>4 DEF Stage, Heap, Ordered
  <2> QED BY <1>4, <2>1 DEF Stage, Nodes
<1>7. Shrinking(g[r], U, n + m)
  <2>1. n - d > 1
    BY <1>3
  <2>2. \A a \in g[r] : a.order < n + m
    BY <1>5, <1>6
  <2> QED BY <1>6, <2>1, <2>2 DEF Shrinking
<1> QED BY <1>1, <1>7

\* A solution of a heap's fold, without the cases a tree never meets.
LEMMA TreeExists ==
  ASSUME NEW U, NEW base, NEW n \in Nat, n > 0, Stage(base, U, n, n), NEW s, s = Orders(n)
  PROVE  \E g : MergesFrom(g, base, s)
<1>0. n - 1 \in Nat /\ DOMAIN s = 1..(n - 1) /\ \A i \in 1..(n - 1) : s[i] = n + i
  BY DEF Orders
<1>1. s \in Seq(Nat)
  <2>1. s \in [1..(n - 1) -> Nat]
    BY DEF Orders
  <2> QED BY <1>0, <2>1, IsASeq
<1>2. base \in SUBSET Nodes
  BY DEF Stage, Heap, Ordered
<1>3. PICK F : F = HeapF(U)
  OBVIOUS
<1>4. PICK g \in [SUBSET DOMAIN s -> SUBSET Nodes] : Steps(g, F, base, s)
  <2>1. Folder(F, SUBSET Nodes, Nat, base)
    BY <1>2, <1>3, HeapFType
  <2> QED BY <1>1, <2>1, StepsExist
<1>5. \A t \in SUBSET DOMAIN s : g[t] = IF t = {} THEN base ELSE F[<<g[t \ {Max(t)}], s[Max(t)]>>]
  <2>1. g = [t \in SUBSET DOMAIN s |-> IF t = {} THEN base ELSE F[<<g[t \ {Max(t)}], s[Max(t)]>>]]
    BY <1>4, Zenon DEF Steps
  <2> QED BY <2>1, Zenon
<1>6. g[{}] = base
  BY <1>5
<1>7. ASSUME NEW t \in SUBSET (1..(n - 1)), t # {}
      PROVE  /\ Max(t) \in 1..(n - 1) /\ n + Max(t) \in Nat /\ s[Max(t)] = n + Max(t)
             /\ t \ {Max(t)} \in SUBSET (1..(n - 1)) /\ g[t \ {Max(t)}] \in SUBSET Nodes
             /\ g[t] = F[<<g[t \ {Max(t)}], s[Max(t)]>>]
  <2>1. Max(t) \in 1..(n - 1)
    BY <1>0, <1>7, MaxIsGreatest
  <2>2. t \ {Max(t)} \in SUBSET (1..(n - 1))
    OBVIOUS
  <2>3. g[t] = F[<<g[t \ {Max(t)}], s[Max(t)]>>]
    BY <1>0, <1>5, <1>7
  <2> QED BY <1>0, <2>1, <2>2, <2>3
<1>8. ASSUME NEW t \in SUBSET (1..(n - 1)), t # {}, Shrinking(g[t \ {Max(t)}], U, n + Max(t))
      PROVE  g[t] = Merge(g[t \ {Max(t)}], n + Max(t))
  <2>1. PICK h \in SUBSET Nodes, o \in Nat : h = g[t \ {Max(t)}] /\ o = n + Max(t) /\ o = s[Max(t)]
    BY <1>7, <1>8
  <2>2. F[<<h, o>>] = Merge(h, o)
    BY <1>3, <1>8, <2>1 DEF HeapF
  <2> QED BY <1>7, <1>8, <2>1, <2>2
<1>9. \A t \in SUBSET (1..(n - 1)) : Stage(g[t], U, n - Cardinality(t), n + Later(t))
  BY <1>6, <1>8, HeapShrinks
<1>10. ASSUME NEW t \in SUBSET (1..(n - 1)), t # {}
       PROVE  g[t] = Merge(g[t \ {Max(t)}], s[Max(t)])
  <2>1. Shrinking(g[t \ {Max(t)}], U, n + Max(t))
    BY <1>9, <1>10, StillShrinking
  <2> QED BY <1>7, <1>8, <1>10, <2>1
<1>11. \A t \in SUBSET DOMAIN s : g[t] = IF t = {} THEN base ELSE Merge(g[t \ {Max(t)}], s[Max(t)])
  BY <1>0, <1>6, <1>10
<1>12. g = [t \in SUBSET DOMAIN s |-> IF t = {} THEN base ELSE Merge(g[t \ {Max(t)}], s[Max(t)])]
  BY <1>11
<1> QED BY <1>12, Zenon DEF MergesFrom

\* g holds the heap that each set of merges leads to.
MergedBy(g, base, n) ==
  /\ g[{}] = base /\ Root(base, n) = g[1..(n - 1)]
  /\ \A t \in SUBSET (1..(n - 1)) : t # {} => g[t] = Merge(g[t \ {Max(t)}], n + Max(t))

(* The tree is what the merges lead to, one after the other.               *)
LEMMA MergesHappen ==
  ASSUME NEW U, NEW base, NEW n \in Nat, n > 0, Stage(base, U, n, n)
  PROVE  \E g : MergedBy(g, base, n)
<1>0. PICK s : s = Orders(n)
  OBVIOUS
<1> DEFINE Sol(g) == g = [t \in SUBSET DOMAIN s |-> IF t = {} THEN base ELSE Merge(g[t \ {Max(t)}], s[Max(t)])]
           iter == CHOOSE g : Sol(g)
<1>1. \E g : Sol(g)
  <2>1. \E g : MergesFrom(g, base, s)
    BY <1>0, TreeExists
  <2> QED BY <2>1, Zenon DEF MergesFrom
<1>2. Sol(iter)
  <2> HIDE DEF Sol
  <2> QED BY <1>1
<1>3. Root(base, n) = iter[DOMAIN s]
  BY <1>0 DEF Root, FoldLeft, MapThenFoldSet
<1>4. n - 1 \in Nat /\ DOMAIN s = 1..(n - 1) /\ \A i \in 1..(n - 1) : s[i] = n + i
  BY <1>0 DEF Orders
<1> HIDE DEF iter
<1>5. \A t \in SUBSET (1..(n - 1)) : iter[t] = IF t = {} THEN base ELSE Merge(iter[t \ {Max(t)}], s[Max(t)])
  <2>1. iter = [t \in SUBSET (1..(n - 1)) |-> IF t = {} THEN base ELSE Merge(iter[t \ {Max(t)}], s[Max(t)])]
    BY <1>2, <1>4
  <2> HIDE DEF Sol
  <2> QED BY <2>1
<1> HIDE DEF Sol
<1>6. iter[{}] = base
  BY <1>5
<1>7. ASSUME NEW t \in SUBSET (1..(n - 1)), t # {}
      PROVE  iter[t] = Merge(iter[t \ {Max(t)}], n + Max(t))
  <2>1. Max(t) \in 1..(n - 1)
    BY <1>4, <1>7, MaxIsGreatest
  <2> QED BY <1>4, <1>5, <1>7, <2>1
<1>8. MergedBy(iter, base, n)
  BY <1>3, <1>4, <1>6, <1>7 DEF MergedBy
<1> QED BY <1>8

(* Every merge leaves one node fewer.                                      *)
LEMMA MergesLeave ==
  ASSUME NEW U, NEW base, NEW n \in Nat, n > 0, Stage(base, U, n, n), NEW g, MergedBy(g, base, n)
  PROVE  \A t \in SUBSET (1..(n - 1)) : Stage(g[t], U, n - Cardinality(t), n + Later(t))
<1>1. g[{}] = base /\ \A t \in SUBSET (1..(n - 1)) : t # {} => g[t] = Merge(g[t \ {Max(t)}], n + Max(t))
  BY DEF MergedBy
<1> QED BY <1>1, HeapShrinks

(* n leaves are merged into one node.                                      *)
LEMMA TreeIsOneNode ==
  ASSUME NEW U, NEW base, NEW n \in Nat, n > 0, Stage(base, U, n, n)
  PROVE  Heap(Root(base, n), U) /\ Cardinality(Root(base, n)) = 1
<1>1. PICK g : MergedBy(g, base, n)
  BY MergesHappen
<1>2. \A t \in SUBSET (1..(n - 1)) : Stage(g[t], U, n - Cardinality(t), n + Later(t))
  BY <1>1, MergesLeave
<1>3. n - 1 \in Nat
  OBVIOUS
<1>4. Cardinality(1..(n - 1)) = n - 1
  BY <1>3, FS_Interval
<1>5. PICK T : T = 1..(n - 1)
  OBVIOUS
<1>6. Stage(g[T], U, n - Cardinality(T), n + Later(T))
  BY <1>2, <1>5
<1>7. n - Cardinality(T) = 1
  BY <1>4, <1>5
<1>8. Root(base, n) = g[T]
  BY <1>1, <1>5 DEF MergedBy
<1> QED BY <1>6, <1>7, <1>8 DEF Stage

(* What the leaves have and every merge keeps, the tree has.               *)
LEMMA TreeKeeps ==
  ASSUME NEW U, NEW base, NEW n \in Nat, n > 0, Stage(base, U, n, n), NEW Good, base \in Good,
         \A h \in Good : \A o \in Nat : Shrinking(h, U, o) => Merge(h, o) \in Good
  PROVE  Root(base, n) \in Good
<1>1. PICK g : MergedBy(g, base, n)
  BY MergesHappen
<1>2. \A t \in SUBSET (1..(n - 1)) : Stage(g[t], U, n - Cardinality(t), n + Later(t))
  BY <1>1, MergesLeave
<1>3. n - 1 \in Nat
  OBVIOUS
<1>4. IsFiniteSet(1..(n - 1)) /\ Cardinality(1..(n - 1)) = n - 1
  BY <1>3, FS_Interval
<1> DEFINE S == {k \in Nat : \A t \in SUBSET (1..(n - 1)) : Cardinality(t) = k => g[t] \in Good}
<1>5. 0 \in S
  <2>1. ASSUME NEW t \in SUBSET (1..(n - 1)), Cardinality(t) = 0 PROVE g[t] \in Good
    <3>1. IsFiniteSet(t)
      BY <1>4, FS_Subset
    <3>2. t = {}
      BY <2>1, <3>1, FS_EmptySet
    <3> QED BY <1>1, <3>2 DEF MergedBy
  <2> QED BY <2>1
<1>6. ASSUME NEW k \in Nat, k \in S PROVE k + 1 \in S
  <2> SUFFICES ASSUME NEW t \in SUBSET (1..(n - 1)), Cardinality(t) = k + 1 PROVE g[t] \in Good
    OBVIOUS
  <2>1. t # {}
    <3>1. k + 1 # 0
      OBVIOUS
    <3>2. Cardinality({}) = 0
      BY FS_EmptySet
    <3> QED BY <3>1, <3>2
  <2>2. PICK m : m = Max(t)
    OBVIOUS
  <2>3. m \in t /\ m \in 1..(n - 1)
    BY <1>3, <2>1, <2>2, MaxIsGreatest
  <2>4. PICK o \in Nat : o = n + m
    BY <2>3
  <2>5. PICK r : r = t \ {m}
    OBVIOUS
  <2>6. r \in SUBSET (1..(n - 1)) /\ Cardinality(r) = k
    <3>1. Cardinality(t \ {m}) = Cardinality(t) - 1
      BY <1>4, <2>3, OneFewer
    <3>2. Cardinality(r) = k
      BY <2>5, <3>1
    <3>3. r \in SUBSET (1..(n - 1))
      BY <2>5
    <3> QED BY <3>2, <3>3
  <2>7. g[r] \in Good
    BY <1>6, <2>6
  <2>8. Shrinking(g[r], U, o)
    BY <1>2, <2>1, <2>2, <2>4, <2>5, StillShrinking
  <2>9. g[t] = Merge(g[r], o)
    BY <1>1, <2>1, <2>2, <2>4, <2>5 DEF MergedBy
  <2> QED BY <2>7, <2>8, <2>9
<1>7. Nat \subseteq S
  <2> HIDE DEF S
  <2> QED BY <1>5, <1>6, SetInduction
<1>8. PICK T : T = 1..(n - 1)
  OBVIOUS
<1>9. g[T] \in Good
  BY <1>3, <1>4, <1>7, <1>8
<1>10. Root(base, n) = g[T]
  BY <1>1, <1>8 DEF MergedBy
<1> QED BY <1>9, <1>10

(* With two symbols no code is empty, as none is the beginning of another. *)
LEMMA CodesNotEmpty ==
  ASSUME NEW U, NEW codes, CodeTable(codes, U), PrefixFree(codes), NEW a \in U, NEW b \in U, a # b
  PROVE  Decodable(codes, U)
<1>1. \A c \in U : codes[c] \in Seq(Bits) /\ DOMAIN codes = U
  BY DEF CodeTable
<1>2. ASSUME NEW c \in U, codes[c] = <<>> PROVE FALSE
  <2>1. PICK d \in U : d # c
    OBVIOUS
  <2>2. codes[d] = <<>> \o codes[d]
    BY <1>1, ConcatEmptySeq
  <2>3. codes[d] = codes[c] \o codes[d]
    BY <1>2, <2>2
  <2> QED BY <1>1, <2>1, <2>3 DEF PrefixFree
<1> QED BY <1>2 DEF Decodable

\* The heap that is left of the leaves of t, how it starts, and its only node.
TreeOf(t) == Root(LeavesOf(t, Used(t)), Len(Used(t)))
Planted(t, u, n) ==
  /\ u = Used(t) /\ Lists(u, t, Symbols) /\ n \in Nat /\ n > 1 /\ n = Len(u)
  /\ Stage(LeavesOf(t, u), Occurring(t), n, n)
RootOf(node, t) == Heap({node}, Occurring(t)) /\ TreeOf(t) = {node} /\ Codes(t) = node.codes

(* A table with several symbols has as many leaves to merge.               *)
LEMMA LeavesArePlanted ==
  ASSUME NEW t \in [Bytes -> Nat], Len(Used(t)) > 1
  PROVE  Planted(t, Used(t), Len(Used(t)))
<1>1. PICK u : u = Used(t)
  OBVIOUS
<1>2. Lists(u, t, Symbols)
  BY <1>1, UsedLists
<1>3. PICK n \in Nat : n = Len(u) /\ n > 1
  <2>1. u \in Seq(Bytes)
    BY <1>2 DEF Lists
  <2> QED BY <1>1, <2>1, LenProperties
<1>4. Stage(LeavesOf(t, u), Occurring(t), n, n)
  BY <1>2, <1>3, LeavesAreHeap
<1> QED BY <1>1, <1>2, <1>3, <1>4 DEF Planted

(* The codes of a table with several symbols are those of the one node its *)
(* leaves are merged into.                                                 *)
LEMMA RootIsNode ==
  ASSUME NEW t \in [Bytes -> Nat], Len(Used(t)) > 1
  PROVE  \E node : RootOf(node, t)
<1>1. PICK u, n : u = Used(t) /\ n = Len(u)
  OBVIOUS
<1>2. Planted(t, u, n)
  BY <1>1, LeavesArePlanted
<1>3. n \in Nat /\ n > 1 /\ n > 0
  BY <1>2 DEF Planted
<1>4. PICK base : base = LeavesOf(t, u)
  OBVIOUS
<1>5. Stage(base, Occurring(t), n, n)
  BY <1>2, <1>4 DEF Planted
<1>6. PICK root : root = Root(base, n)
  OBVIOUS
<1>7. Heap(root, Occurring(t)) /\ Cardinality(root) = 1
  BY <1>3, <1>5, <1>6, TreeIsOneNode
<1>8. PICK node : root = {node}
  <2>1. IsFiniteSet(root)
    BY <1>7 DEF Heap, Ordered
  <2> QED BY <1>7, <2>1, FS_Singleton
<1>9. Codes(t) = (CHOOSE x \in root : TRUE).codes
  BY <1>1, <1>3, <1>4, <1>6 DEF Codes, LeavesOf, Root, Orders, FoldLeft, MapThenFoldSet
<1>10. Codes(t) = node.codes
  BY <1>8, <1>9
<1>11. TreeOf(t) = {node}
  BY <1>1, <1>4, <1>6, <1>8 DEF TreeOf
<1>12. RootOf(node, t)
  BY <1>7, <1>8, <1>10, <1>11 DEF RootOf
<1> QED BY <1>12

(* The codes of a table with several symbols can be decoded.               *)
LEMMA CodesDecodable ==
  ASSUME NEW t \in [Bytes -> Nat], Len(Used(t)) > 1
  PROVE  Decodable(Codes(t), Occurring(t)) /\ Cardinality(DOMAIN Codes(t)) # 1
<1>1. PICK u, n : u = Used(t) /\ n = Len(u)
  OBVIOUS
<1>2. Lists(u, t, Symbols) /\ n \in Nat /\ n > 1
  <2>1. Planted(t, u, n)
    BY <1>1, LeavesArePlanted
  <2> QED BY <2>1 DEF Planted
<1>3. PICK node : RootOf(node, t)
  BY RootIsNode
<1>4. Codes(t) = node.codes
  BY <1>3 DEF RootOf
<1>5. PICK codes : codes = node.codes
  OBVIOUS
<1>6. codes \in Tables /\ PrefixFree(codes) /\ DOMAIN codes = Occurring(t)
  <2>0. Heap({node}, Occurring(t))
    BY <1>3 DEF RootOf
  <2>1. node \in Nodes
    BY <2>0 DEF Heap, Ordered
  <2>2. PrefixFree(codes)
    BY <1>5, <2>0 DEF Heap
  <2>3. DOMAIN codes = Occurring(t)
    BY <1>5, <2>0 DEF Heap
  <2> QED BY <1>5, <2>1, <2>2, <2>3 DEF Nodes
<1>7. CodeTable(codes, Occurring(t))
  BY <1>6, TablesAre
<1>8. PICK a \in Occurring(t), b \in Occurring(t) : a # b
  <2>1. 1 \in 1..n /\ 2 \in 1..n
    BY <1>2
  <2>2. u[1] # u[2] /\ t[u[1]] > 0 /\ t[u[2]] > 0 /\ u \in Seq(Bytes)
    BY <1>1, <1>2, <2>1 DEF Lists
  <2>3. u[1] \in Bytes /\ u[2] \in Bytes
    BY <1>1, <1>2, <2>1, <2>2, ElementOfSeq
  <2> QED BY <2>2, <2>3 DEF Occurring
<1>9. Decodable(codes, Occurring(t))
  BY <1>6, <1>7, <1>8, CodesNotEmpty
<1>10. Cardinality(DOMAIN codes) # 1
  <2>1. IsFiniteSet(Occurring(t))
    <3>1. Symbols \in Nat
      BY CodecsAssumption
    <3>2. IsFiniteSet(0..(Symbols - 1))
      BY <3>1, FS_Interval
    <3>3. IsFiniteSet(Bytes)
      BY <3>2 DEF Bytes
    <3>4. Occurring(t) \in SUBSET Bytes
      BY DEF Occurring
    <3> QED BY <3>3, <3>4, FS_Subset
  <2>2. Cardinality(Occurring(t)) = 1 => \E x : Occurring(t) = {x}
    BY <2>1, FS_Singleton
  <2> QED BY <1>6, <1>8, <2>2
<1> QED BY <1>4, <1>5, <1>9, <1>10

-----------------------------------------------------------------------------
(* Huffman: what is written is restored *)

(* Padding fills the last byte with zeros.                                 *)
LEMMA PaddedEffect ==
  ASSUME NEW b \in Seq(Bits), NEW n \in Nat, n = Len(b), NEW p, p = Padded(b), NEW z, z = Bytesized(n) * Width
  PROVE  /\ z \in Nat /\ n <= z /\ p \in Seq(Bits) /\ Len(p) = z
         /\ \A i \in 1..n : p[i] = b[i]
         /\ \A i \in n + 1 .. z : p[i] = 0
         /\ SubSeq(p, 1, n) = b
<1>1. Width \in Nat /\ Width >= 1
  BY CodecsAssumption
<1>2. PICK a \in Nat, w \in Nat : a = n + Width - 1 /\ w = Width /\ w >= 1
  BY <1>1
<1>3. PICK q : q = a \div w
  OBVIOUS
<1>4. q \in Nat /\ q * w <= a /\ a < q * w + w
  BY <1>2, <1>3, Divided
<1>5. z = q * w
  BY <1>2, <1>3 DEF Bytesized
<1>6. z \in Nat
  BY <1>2, <1>4, <1>5
<1>7. n <= z
  BY <1>2, <1>4, <1>5, <1>6
<1>8. PICK r \in Nat : r = z - n
  BY <1>6, <1>7
<1>9. PICK e : e = Repeat(0, r)
  OBVIOUS
<1>10. e \in Seq(Bits) /\ Len(e) = r /\ \A i \in 1..r : e[i] = 0
  <2>1. 0 \in Bits
    BY DEF Bits
  <2> QED BY <1>9, <2>1, RepeatType
<1>11. p = b \o e
  BY <1>8, <1>9 DEF Padded
<1>12. /\ p \in Seq(Bits) /\ Len(p) = Len(b) + Len(e)
       /\ \A i \in 1..Len(b) + Len(e) : p[i] = IF i <= Len(b) THEN b[i] ELSE e[i - Len(b)]
  <2>1. e \in Seq(Bits)
    BY <1>10
  <2>2. /\ b \o e \in Seq(Bits) /\ Len(b \o e) = Len(b) + Len(e)
        /\ \A i \in 1..Len(b) + Len(e) : (b \o e)[i] = IF i <= Len(b) THEN b[i] ELSE e[i - Len(b)]
    BY <2>1, ConcatProperties
  <2> QED BY <1>11, <2>2, Zenon
<1>13. Len(p) = z /\ \A i \in 1..z : p[i] = IF i <= n THEN b[i] ELSE e[i - n]
  BY <1>6, <1>8, <1>10, <1>12
<1>14. \A i \in 1..n : p[i] = b[i]
  BY <1>6, <1>7, <1>13
<1>15. \A i \in n + 1 .. z : p[i] = 0
  <2>1. ASSUME NEW i \in n + 1 .. z PROVE p[i] = 0
    <3>1. i \in 1..z /\ ~(i <= n) /\ i - n \in 1..r
      BY <1>6, <1>8
    <3> QED BY <1>10, <1>13, <3>1
  <2> QED BY <2>1
<1>16. SubSeq(p, 1, n) = b
  <2>1. CASE n = 0
    <3>1. SubSeq(p, 1, 0) = <<>>
      BY SubSeqEmpty
    <3>2. b = <<>>
      BY <2>1, EmptySeq
    <3> QED BY <2>1, <3>1, <3>2
  <2>2. CASE n > 0
    <3>1. 1 \in 1..Len(b) /\ n \in 1..Len(b)
      BY <2>2
    <3>2. SubSeq(b \o e, 1, n) = SubSeq(b, 1, n)
      BY <1>10, <3>1, SubSeqOfConcat1
    <3>3. SubSeq(b, 1, n) = b
      BY SubSeqFull
    <3> QED BY <1>11, <3>2, <3>3
  <2> QED BY <2>1, <2>2
<1> QED BY <1>6, <1>7, <1>12, <1>13, <1>14, <1>15, <1>16

(* The decoder reads the whole bytes and then the rest of the bits.        *)
LEMMA WalkInTwo ==
  ASSUME NEW U, NEW codes, CodeTable(codes, U), NEW n \in Nat, NEW p \in Seq(Bits), n <= Len(p), NEW full \in 0..n
  PROVE  /\ SubSeq(p, 1, n) \in Seq(Bits) /\ Len(SubSeq(p, 1, n)) = n
         /\ Walk(codes, Walk(codes, Start, SubSeq(p, 1, full)), SubSeq(p, full + 1, n))
              = Walked(codes, Start, SubSeq(p, 1, n))
<1>1. PICK m \in Nat : m = Len(p) /\ n <= m
  BY LenProperties
<1>2. Start \in Walkers
  <2>1. <<>> \in Seq(Bits) /\ <<>> \in Seq(Bytes)
    BY EmptySeq
  <2> QED BY <2>1 DEF Start, Walkers
<1>3. PICK x, y, b : x = SubSeq(p, 1, full) /\ y = SubSeq(p, full + 1, n) /\ b = SubSeq(p, 1, n)
  OBVIOUS
<1>4. b \in Seq(Bits) /\ Len(b) = n
  <2>1. \A i \in 1..n : p[i] \in Bits
    BY <1>1, ElementOfSeq
  <2>2. SubSeq(p, 1, n) \in Seq(Bits) /\ Len(SubSeq(p, 1, n)) = IF 1 <= n THEN n - 1 + 1 ELSE 0
    BY <2>1, SubSeqProperties
  <2> QED BY <1>3, <2>2
<1>5. x \in Seq(Bits)
  <2>1. \A i \in 1..full : p[i] \in Bits
    BY <1>1, ElementOfSeq
  <2> QED BY <1>3, <2>1, SubSeqProperties
<1>6. y \in Seq(Bits)
  <2>1. \A i \in full + 1 .. n : p[i] \in Bits
    BY <1>1, ElementOfSeq
  <2>2. full + 1 \in Int /\ n \in Int
    OBVIOUS
  <2> QED BY <1>3, <2>1, <2>2, SubSeqProperties
<1>7. x \o y = b
  <2>1. 1 \in 1..(Len(p) + 1) /\ full \in 1 - 1 .. Len(p) /\ n \in full .. Len(p)
    BY <1>1
  <2>2. SubSeq(p, 1, full) \o SubSeq(p, full + 1, n) = SubSeq(p, 1, n)
    BY <2>1, ConcatAdjacentSubSeq
  <2> QED BY <1>3, <2>2
<1>8. PICK s : s = Start
  OBVIOUS
<1>9. PICK r : r = Walked(codes, s, x)
  OBVIOUS
<1>10. r \in Walkers
  BY <1>2, <1>5, <1>8, <1>9, WalkMore
<1>11. Walk(codes, s, x) = r
  BY <1>2, <1>5, <1>8, <1>9, WalkIsFolded DEF Walked
<1>12. Walk(codes, r, y) = Walked(codes, r, y)
  BY <1>6, <1>10, WalkIsFolded DEF Walked
<1>13. Walked(codes, s, x \o y) = Walked(codes, r, y)
  BY <1>2, <1>5, <1>6, <1>8, <1>9, WalkConcat
<1>14. Walk(codes, Walk(codes, s, x), y) = Walked(codes, s, b)
  BY <1>7, <1>11, <1>12, <1>13, Zenon
<1> QED BY <1>3, <1>4, <1>8, <1>14

(* Only the symbols of the data are in its table.                          *)
LEMMA DataOccurs ==
  ASSUME NEW d \in Seq(Bytes)
  PROVE  Histogram(d) \in [Bytes -> Nat] /\ d \in Seq(Occurring(Histogram(d)))
<1>1. Histogram(d) \in [Bytes -> Nat]
  BY HistogramMore
<1>2. PICK n \in Nat : n = Len(d) /\ DOMAIN d = 1..n
  BY LenProperties
<1>3. \A i \in 1..n : d[i] \in Occurring(Histogram(d))
  BY <1>2, HistogramPositive DEF Occurring
<1>4. d = [i \in 1..n |-> d[i]]
  <2>1. d \in [1..n -> Bytes]
    BY <1>2, LenProperties
  <2> QED BY <2>1
<1>5. d \in [1..n -> Occurring(Histogram(d))]
  BY <1>3, <1>4
<1>6. d \in Seq(Occurring(Histogram(d)))
  BY <1>5, IsASeq
<1> QED BY <1>1, <1>6

(* What the decoder makes of a stream, in the cases of a correct one.      *)
LEMMA ReadsNothing ==
  ASSUME NEW t, NEW p, NEW limit \in Nat, Total(t) = 0, Len(p) = Bytesized(0) * Width
  PROVE  HuffmanDecompress(p, t, 0, limit) = Restored(<<>>)
  BY DEF HuffmanDecompress

(* The decoder's result for a table of one symbol ...                      *)
LEMMA ReadsOne ==
  ASSUME NEW t, NEW p, NEW n \in Nat, NEW v, n > 0, Total(t) = n, DOMAIN Codes(t) = {v},
         Len(p) = Bytesized(n) * Width, NEW z \in Nat, Len(p) = z, \A i \in 1..z : p[i] = 0
  PROVE  HuffmanDecompress(p, t, n, n) = Restored(Repeat(v, n))
<1>1. IsSingle(Codes(t))
  BY FS_Singleton DEF IsSingle
<1>2. ~(n > n) /\ n # 0
  OBVIOUS
<1>3. PaddingIsZero(p, n)
  BY DEF PaddingIsZero
<1>4. ~\E i \in 1 .. Len(p) - Width : p[i] = 1
  BY CodecsAssumption
<1>5. (CHOOSE s \in DOMAIN Codes(t) : TRUE) = v
  OBVIOUS
<1> QED BY <1>1, <1>2, <1>3, <1>4, <1>5 DEF HuffmanDecompress

(* ... and for one of several, from where its walk ends.                   *)
LEMMA ReadsMany ==
  ASSUME NEW t, NEW p, NEW n \in Nat, NEW size \in Nat, size > 0, Total(t) = size, ~IsSingle(Codes(t)),
         Len(p) = Bytesized(n) * Width, PaddingIsZero(p, n), NEW full, full = (n \div Width) * Width,
         NEW data, Len(data) = size,
         Walk(Codes(t), Walk(Codes(t), Start, SubSeq(p, 1, full)), SubSeq(p, full + 1, n)) = At(<<>>, data)
  PROVE  HuffmanDecompress(p, t, n, size) = Restored(data)
<1>1. PICK all : all = Walk(Codes(t), Walk(Codes(t), [path |-> <<>>, output |-> <<>>],
                              SubSeq(p, 1, (n \div Width) * Width)), SubSeq(p, (n \div Width) * Width + 1, n))
  OBVIOUS
<1>2. all = At(<<>>, data)
  BY <1>1 DEF Start
<1>3. all.path = <<>> /\ all.output = data
  BY <1>2 DEF At
<1>4. ~(size > size) /\ size # 0
  OBVIOUS
<1>5. HuffmanDecompress(p, t, n, size) =
        IF PaddingIsZero(p, n) /\ Len(all.output) = size /\ all.path = <<>> THEN Restored(all.output) ELSE Corrupt
  BY <1>1, <1>4 DEF HuffmanDecompress
<1> QED BY <1>3, <1>5

(* A file with one symbol is that symbol, and its code, over and over.     *)
LEMMA OneSymbol ==
  ASSUME NEW data \in Seq(Bytes), NEW t, t = Histogram(data), Len(Used(t)) = 1
  PROVE  data = Repeat(Used(t)[1], Len(data)) /\ Codes(t) = [s \in {Used(t)[1]} |-> <<0>>]
<1>1. t \in [Bytes -> Nat] /\ data \in Seq(Occurring(t))
  BY DataOccurs
<1>2. PICK u : u = Used(t)
  OBVIOUS
<1>3. Lists(u, t, Symbols)
  BY <1>1, <1>2, UsedLists
<1>4. PICK v : v = u[1]
  OBVIOUS
<1>5. PICK n \in Nat : n = Len(data) /\ DOMAIN data = 1..n
  BY LenProperties
<1>6. \A b \in Bytes : b < Symbols
  BY CodecsAssumption DEF Bytes
<1>7. \A b \in Occurring(t) : b = v
  <2>1. ASSUME NEW b \in Occurring(t) PROVE b = v
    <3>1. b \in Bytes /\ t[b] > 0 /\ b < Symbols
      BY <1>6 DEF Occurring
    <3>2. PICK i \in 1..Len(u) : u[i] = b
      BY <1>3, <3>1 DEF Lists
    <3>3. i = 1
      <4>1. Len(u) = 1
        BY <1>2
      <4>2. i \in 1..1
        BY <4>1
      <4> QED BY <4>2
    <3> QED BY <1>4, <3>2, <3>3
  <2> QED BY <2>1
<1>8. \A i \in 1..n : data[i] = v
  BY <1>1, <1>5, <1>7, ElementOfSeq
<1>9. data = Repeat(v, n)
  <2>1. data \in [1..n -> Bytes]
    BY <1>5, LenProperties
  <2>2. data = [i \in 1..n |-> data[i]]
    BY <2>1
  <2>3. data = [i \in 1..n |-> v]
    BY <1>8, <2>2
  <2> QED BY <2>3 DEF Repeat
<1>10. Codes(t) = [s \in {v} |-> <<0>>]
  <2>1. Head(u) = v
    <3>1. u \in Seq(Bytes) /\ Len(u) = 1
      BY <1>2, <1>3 DEF Lists
    <3> QED BY <1>4, <3>1
  <2> QED BY <1>2, <2>1 DEF Codes
<1> QED BY <1>2, <1>4, <1>5, <1>9, <1>10, Zenon

(* The codes of equal symbols are equal bits.                              *)
LEMMA MappedRepeat ==
  ASSUME NEW v, NEW x \in Bits, NEW f, f = [s \in {v} |-> <<x>>]
  PROVE  \A n \in Nat : Mapped(f, Repeat(v, n)) = Repeat(x, n)
<1> DEFINE S == {n \in Nat : Mapped(f, Repeat(v, n)) = Repeat(x, n)}
<1>1. Mapper(f, {v}, Bits) /\ f[v] = <<x>>
  BY DEF Mapper
<1>2. 0 \in S
  BY RepeatNone, MappedEmpty
<1>3. ASSUME NEW n \in Nat, n \in S PROVE n + 1 \in S
  <2>1. PICK r, q : r = Repeat(v, n) /\ q = Repeat(x, n)
    OBVIOUS
  <2>2. r \in Seq({v}) /\ q \in Seq(Bits)
    BY <2>1, RepeatType
  <2>3. Repeat(v, n + 1) = Append(r, v) /\ Repeat(x, n + 1) = Append(q, x)
    BY <2>1, RepeatMore
  <2>4. Mapped(f, r) = q
    BY <1>3, <2>1
  <2>5. v \in {v}
    OBVIOUS
  <2>6. Mapped(f, Append(r, v)) = Mapped(f, r) \o f[v]
    BY <1>1, <2>2, <2>5, MappedAppend
  <2>7. q \o <<x>> = Append(q, x)
    BY <2>2, AppendIsConcat
  <2>8. Mapped(f, Repeat(v, n + 1)) = Repeat(x, n + 1)
    BY <1>1, <2>3, <2>4, <2>6, <2>7, Zenon
  <2> QED BY <2>8
<1>4. Nat \subseteq S
  <2> HIDE DEF S
  <2> QED BY <1>2, <1>3, SetInduction
<1> QED BY <1>4

(* Some symbol of data that is not empty occurs.                           *)
LEMMA SomethingUsed ==
  ASSUME NEW data \in Seq(Bytes), data # <<>>, NEW t, t = Histogram(data), NEW k, k = Len(Used(t))
  PROVE  k \in Nat /\ k >= 1 /\ (k # 1 => k > 1)
<1>1. PICK u : u = Used(t)
  OBVIOUS
<1>2. t \in [Bytes -> Nat]
  BY DataOccurs
<1>3. Lists(u, t, Symbols) /\ u \in Seq(Bytes)
  <2>1. Lists(u, t, Symbols)
    BY <1>1, <1>2, UsedLists
  <2> QED BY <2>1 DEF Lists
<1>4. 1 \in 1..Len(data)
  BY EmptySeq, LenProperties
<1>5. data[1] \in Bytes /\ t[data[1]] > 0
  BY <1>4, HistogramPositive
<1>6. data[1] < Symbols
  BY <1>5, CodecsAssumption DEF Bytes
<1>7. PICK i \in 1..Len(u) : u[i] = data[1]
  BY <1>3, <1>5, <1>6 DEF Lists
<1>8. k = Len(u)
  BY <1>1, Zenon
<1>9. k \in Nat /\ i \in 1..k
  BY <1>3, <1>7, <1>8, LenProperties
<1> QED BY <1>9

(* The payload is the symbols' codes, joined.                              *)
LEMMA EncodeIsMapped == \A data, codes : Encode(data, codes) = Mapped(codes, data)
  BY DEF Encode, Mapped, Image

(* Every file is restored from its table and its bits.                     *)
LEMMA HuffmanRestores ==
  ASSUME NEW data \in Seq(Bytes), NEW t, t = Histogram(data), NEW n \in Nat, n = Len(data)
  PROVE  Decompress("huffman", Compress("huffman", data), n) = Restored(data)
<1>1. t \in [Bytes -> Nat] /\ data \in Seq(Occurring(t))
  BY DataOccurs
<1>2. Total(t) = n
  BY TotalIsLength
<1>3. PICK coded : coded = HuffmanCompress(data)
  OBVIOUS
<1>4. Decompress("huffman", Compress("huffman", data), n) = HuffmanDecompress(coded.payload, coded.table, coded.bits, n)
  BY <1>3 DEF Decompress, Compress
<1>5. CASE data = <<>>
  <2>1. coded.payload = <<>> /\ coded.table = t /\ coded.bits = 0
    BY <1>3, <1>5 DEF HuffmanCompress
  <2>2. n = 0 /\ Len(coded.payload) = 0
    BY <1>5, <2>1, EmptySeq
  <2>3. Bytesized(0) * Width = 0
    <3>1. PICK z, b : z = Bytesized(0) * Width /\ b = <<>>
      OBVIOUS
    <3>2. PICK w \in Nat : w = Width /\ w >= 1
      BY CodecsAssumption
    <3>3. (w - 1) \div w = 0
      BY <3>2
    <3> QED BY <3>2, <3>3 DEF Bytesized
  <2>4. HuffmanDecompress(coded.payload, t, 0, n) = Restored(<<>>)
    BY <1>2, <2>2, <2>3, ReadsNothing
  <2> QED BY <1>4, <1>5, <2>1, <2>4
<1>6. CASE data # <<>>
  <2>1. n > 0
    BY <1>6, EmptySeq
  <2>2. PICK codes, u : codes = Codes(t) /\ u = Used(t)
    OBVIOUS
  <2>3. PICK b : b = Mapped(codes, data)
    OBVIOUS
  <2>4. PICK p, m : p = Padded(b) /\ m = Len(b)
    OBVIOUS
  <2>5. coded.payload = p /\ coded.table = t /\ coded.bits = m
    BY <1>3, <1>6, <2>2, <2>3, <2>4, EncodeIsMapped DEF HuffmanCompress
  <2>6. PICK z : z = Bytesized(m) * Width
    OBVIOUS
  <2>7. PICK k : k = Len(Used(t))
    OBVIOUS
  <2>8. k \in Nat /\ k >= 1 /\ (k # 1 => k > 1)
    BY <1>6, <2>7, SomethingUsed
  <2>9. CASE k = 1
    <3>1. PICK v : v = u[1]
      OBVIOUS
    <3>2. data = Repeat(v, n) /\ codes = [s \in {v} |-> <<0>>]
      BY <2>2, <2>7, <2>9, <3>1, OneSymbol
    <3>3. 0 \in Bits
      BY DEF Bits
    <3>4. b = Repeat(0, n)
      <4>1. codes = [s \in {v} |-> <<0>>]
        BY <3>2
      <4>2. Mapped(codes, Repeat(v, n)) = Repeat(0, n)
        BY <3>3, <4>1, MappedRepeat
      <4> QED BY <2>3, <3>2, <4>2, Zenon
    <3>5. b \in Seq(Bits) /\ Len(b) = n /\ \A i \in 1..n : b[i] = 0
      BY <3>3, <3>4, RepeatType
    <3>6. m = n
      BY <2>4, <3>5
    <3>7. z \in Nat /\ n <= z /\ Len(p) = z /\ (\A i \in 1..n : p[i] = b[i]) /\ \A i \in n + 1 .. z : p[i] = 0
      BY <2>4, <2>6, <3>5, <3>6, PaddedEffect
    <3>8. \A i \in 1..z : p[i] = 0
      BY <3>5, <3>7
    <3>9. DOMAIN Codes(t) = {v}
      BY <2>2, <3>2
    <3>10. Len(p) = Bytesized(n) * Width
      BY <2>6, <3>6, <3>7
    <3>11. HuffmanDecompress(p, t, n, n) = Restored(Repeat(v, n))
      BY <1>2, <2>1, <3>7, <3>8, <3>9, <3>10, ReadsOne
    <3> QED BY <1>4, <2>5, <3>2, <3>6, <3>11
  <2>10. CASE k # 1
    <3>1. Len(Used(t)) > 1
      BY <2>7, <2>8, <2>10, Zenon
    <3>2. PICK U : U = Occurring(t)
      OBVIOUS
    <3>3. Decodable(codes, U)
      BY <1>1, <2>2, <3>1, <3>2, CodesDecodable
    <3>4. ~IsSingle(Codes(t))
      BY <1>1, <3>1, CodesDecodable DEF IsSingle
    <3>5. data \in Seq(U)
      BY <1>1, <3>2
    <3>6. b \in Seq(Bits)
      BY <2>3, <3>3, <3>5, WalkDecodes
    <3>7. m \in Nat
      BY <2>4, <3>6, LenProperties
    <3>8. /\ z \in Nat /\ m <= z /\ p \in Seq(Bits) /\ Len(p) = z
          /\ \A i \in m + 1 .. z : p[i] = 0
          /\ SubSeq(p, 1, m) = b
      BY <2>4, <2>6, <3>6, <3>7, PaddedEffect
    <3>9. PaddingIsZero(p, m)
      BY <3>8 DEF PaddingIsZero
    <3>10. PICK full : full = (m \div Width) * Width
      OBVIOUS
    <3>11. full \in 0..m
      <4>1. PICK w \in Nat : w = Width /\ w >= 1
        BY CodecsAssumption
      <4>2. m \div w \in Nat /\ (m \div w) * w <= m
        BY <3>7, <4>1, Divided
      <4>3. full \in Nat
        BY <3>10, <4>1, <4>2
      <4> QED BY <3>7, <3>10, <4>1, <4>2, <4>3
    <3>12. m <= Len(p)
      BY <3>8
    <3>13. Walk(codes, Walk(codes, Start, SubSeq(p, 1, full)), SubSeq(p, full + 1, m)) = At(<<>>, data)
      <4>1. CodeTable(codes, U) /\ Walked(codes, Start, b) = At(<<>>, data)
        BY <2>3, <3>3, <3>5, WalkDecodes DEF Decodable
      <4>2. Walk(codes, Walk(codes, Start, SubSeq(p, 1, full)), SubSeq(p, full + 1, m))
              = Walked(codes, Start, SubSeq(p, 1, m))
        BY <3>7, <3>8, <3>11, <3>12, <4>1, WalkInTwo
      <4> QED BY <3>8, <4>1, <4>2
    <3>14. Len(p) = Bytesized(m) * Width
      BY <2>6, <3>8
    <3>15. HuffmanDecompress(p, t, m, n) = Restored(data)
      BY <1>2, <2>1, <2>2, <3>4, <3>7, <3>9, <3>10, <3>13, <3>14, ReadsMany
    <3> QED BY <1>4, <2>5, <3>15
  <2> QED BY <2>9, <2>10
<1> QED BY <1>5, <1>6

(* A payload is a sequence of bits.                                        *)
LEMMA PayloadIsBits ==
  ASSUME NEW data \in Seq(Bytes), NEW t, t = Histogram(data), NEW p, p = HuffmanCompress(data).payload
  PROVE  p \in Seq(Bits)
<1>1. CASE data = <<>>
  <2>1. p = <<>>
    BY <1>1 DEF HuffmanCompress
  <2>2. <<>> \in Seq(Bits)
    BY EmptySeq
  <2> QED BY <2>1, <2>2, Zenon
<1>2. CASE data # <<>>
  <2>1. PICK codes, b : codes = Codes(t) /\ b = Mapped(codes, data)
    OBVIOUS
  <2>2. p = Padded(b)
    BY <1>2, <2>1, EncodeIsMapped DEF HuffmanCompress
  <2>3. b \in Seq(Bits)
    <3>1. t \in [Bytes -> Nat] /\ data \in Seq(Occurring(t))
      BY DataOccurs
    <3>2. PICK U, n, k : U = Occurring(t) /\ n = Len(data) /\ k = Len(Used(t))
      OBVIOUS
    <3>3. CASE k = 1
      <4>1. PICK v : v = Used(t)[1]
        OBVIOUS
      <4>2. data = Repeat(v, n)
        BY <3>2, <3>3, <4>1, OneSymbol
      <4>3. codes = [s \in {v} |-> <<0>>]
        BY <2>1, <3>2, <3>3, <4>1, OneSymbol
      <4>4. 0 \in Bits /\ n \in Nat
        BY <3>2, LenProperties DEF Bits
      <4>5. Mapped(codes, Repeat(v, n)) = Repeat(0, n)
        BY <4>3, <4>4, MappedRepeat
      <4>6. Repeat(0, n) \in Seq(Bits)
        BY <4>4, RepeatType
      <4> QED BY <2>1, <4>2, <4>5, <4>6, Zenon
    <3>4. CASE k # 1
      <4>1. k > 1
        BY <1>2, <3>2, <3>4, SomethingUsed
      <4>2. Decodable(codes, U)
        BY <2>1, <3>1, <3>2, <4>1, CodesDecodable
      <4> QED BY <2>1, <3>1, <3>2, <4>2, WalkDecodes
    <3> QED BY <3>3, <3>4
  <2>4. PICK m, z : m = Len(b) /\ z = Bytesized(m) * Width
    OBVIOUS
  <2>5. m \in Nat
    BY <2>3, <2>4, LenProperties
  <2> QED BY <2>2, <2>3, <2>4, <2>5, PaddedEffect
<1> QED BY <1>1, <1>2

-----------------------------------------------------------------------------
(* The theorems *)

(* Each codec restores each input.                                         *)
LEMMA EachRestores ==
  ASSUME NEW data \in Seq(Bytes), NEW a \in Algorithms
  PROVE  Decompress(a, Compress(a, data), Len(data)) = Restored(data)
<1>1. PICK n \in Nat : n = Len(data)
  BY LenProperties
<1>2. CASE a = "rle"
  <2>1. RleDecompress(RleCompress(data), n) = Restored(data)
    BY <1>1, RleRestores
  <2> QED BY <1>1, <1>2, <2>1 DEF Compress, Decompress
<1>3. CASE a = "lzw"
  <2>1. LzwDecompress(LzwCompress(data), n) = Restored(data)
    BY <1>1, LzwRestores
  <2> QED BY <1>1, <1>3, <2>1 DEF Compress, Decompress
<1>4. CASE a = "huffman"
  <2>1. PICK t : t = Histogram(data)
    OBVIOUS
  <2>2. Decompress("huffman", Compress("huffman", data), n) = Restored(data)
    BY <1>1, <2>1, HuffmanRestores
  <2> QED BY <1>1, <1>4, <2>2
<1>5. CASE a = "stored"
  <2>1. ~(n > n)
    OBVIOUS
  <2>2. Compress("stored", data).payload = data
    BY DEF Compress
  <2>3. Decompress("stored", Compress("stored", data), n) = Restored(data)
    BY <1>1, <2>1, <2>2 DEF Decompress
  <2> QED BY <1>1, <1>5, <2>3
<1> QED BY <1>2, <1>3, <1>4, <1>5 DEF Algorithms

(* Every codec restores every input of every length, and no stream has a   *)
(* code or a count that its field cannot hold.                             *)
THEOREM RoundTripTheorem == Spec => []RoundTrip
<1>1. InputInv => RoundTrip
  <2> SUFFICES ASSUME InputInv, kind = "data"
               PROVE  /\ \A a \in Algorithms : Decompress(a, Compress(a, input), Len(input)) = Restored(input)
                      /\ \A i \in DOMAIN LzwCompress(input) : LzwCompress(input)[i] \in 0..MaxCode
                      /\ \A i \in DOMAIN RleCompress(input) : RleCompress(input)[i][1] \in 1..MaxRun
    BY DEF RoundTrip
  <2>1. input \in Seq(Bytes)
    BY DEF InputInv
  <2>2. \A a \in Algorithms : Decompress(a, Compress(a, input), Len(input)) = Restored(input)
    BY <2>1, EachRestores
  <2>3. \A i \in DOMAIN LzwCompress(input) : LzwCompress(input)[i] \in 0..MaxCode
    <3>1. PICK s : s = LzwCompress(input)
      OBVIOUS
    <3>2. s \in Seq(0..MaxCode)
      BY <2>1, <3>1, LzwRestores
    <3>3. \A i \in DOMAIN s : s[i] \in 0..MaxCode
      BY <3>2, LenProperties, ElementOfSeq
    <3> QED BY <3>1, <3>3
  <2>4. \A i \in DOMAIN RleCompress(input) : RleCompress(input)[i][1] \in 1..MaxRun
    <3>1. PICK s : s = RleCompress(input)
      OBVIOUS
    <3>2. s \in Seq(Records)
      BY <2>1, <3>1, RleCompressed
    <3>3. \A i \in DOMAIN s : s[i] \in Records
      BY <3>2, LenProperties, ElementOfSeq
    <3>4. \A r \in Records : r[1] \in 1..MaxRun
      BY DEF Records
    <3>5. \A i \in DOMAIN s : s[i][1] \in 1..MaxRun
      BY <3>3, <3>4
    <3> QED BY <3>1, <3>5, Zenon
  <2> QED BY <2>2, <2>3, <2>4
<1> QED BY <1>1, InputsHold, PTL

(* Sizes are numbers.                                                      *)
LEMMA SizesAreNumbers ==
  ASSUME NEW data \in Seq(Bytes), NEW a \in Algorithms
  PROVE  Size(a, Compress(a, data)) \in Nat
<1>1. CASE a = "rle"
  <2>1. PICK s : s = RleCompress(data)
    OBVIOUS
  <2>2. Len(s) \in Nat
    BY <2>1, RleCompressed, LenProperties
  <2>3. 2 * Len(s) \in Nat
    BY <2>2
  <2> QED BY <1>1, <2>1, <2>3 DEF Size, PayloadSize, MetadataSize, Compress
<1>2. CASE a = "lzw"
  <2>1. PICK s : s = LzwCompress(data)
    OBVIOUS
  <2>2. Len(s) \in Nat
    BY <2>1, LzwRestores, LenProperties
  <2> QED BY <1>2, <2>1, <2>2 DEF Size, PayloadSize, MetadataSize, Compress
<1>3. CASE a = "stored"
  <2>1. Len(data) \in Nat
    BY LenProperties
  <2> QED BY <1>3, <2>1 DEF Size, PayloadSize, MetadataSize, Compress
<1>4. CASE a = "huffman"
  <2>1. PICK t : t = Histogram(data)
    OBVIOUS
  <2>2. PICK p : p = HuffmanCompress(data).payload
    OBVIOUS
  <2>3. HuffmanCompress(data).table = t
    BY <2>1 DEF HuffmanCompress
  <2>4. t \in [Bytes -> Nat]
    BY <2>1, DataOccurs
  <2>5. Len(Used(t)) \in Nat
    <3>1. PICK u : u = Used(t)
      OBVIOUS
    <3>2. u \in Seq(Bytes)
      BY <2>4, <3>1, UsedLists DEF Lists
    <3>3. Len(u) \in Nat
      BY <3>2, LenProperties
    <3> QED BY <3>1, <3>3
  <2>6. PICK m : m = Len(p)
    OBVIOUS
  <2>7. m \in Nat
    BY <2>1, <2>2, <2>6, PayloadIsBits, LenProperties
  <2>8. PICK w \in Nat : w = Width /\ w >= 1
    BY CodecsAssumption
  <2>9. m \div w \in Nat
    BY <2>7, <2>8, Divided
  <2>10. (m \div Width) + Len(Used(t)) \in Nat
    BY <2>5, <2>8, <2>9
  <2>11. Size(a, Compress(a, data)) = (m \div Width) + Len(Used(t))
    BY <1>4, <2>2, <2>3, <2>6 DEF Size, PayloadSize, MetadataSize, Compress
  <2> QED BY <2>10, <2>11
<1> QED BY <1>1, <1>2, <1>3, <1>4 DEF Algorithms

(* A block is restored, and its size passes the reader's tests.            *)
THEOREM BlockTheorem == Spec => []BlockPassesReader
<1>1. InputInv => BlockPassesReader
  <2> SUFFICES ASSUME InputInv, kind = "data", NEW a \in Algorithms, NEW block, block = EncodeBlock(a, input)
               PROVE  /\ DecodeBlock(block, Len(input)) = Restored(input)
                      /\ IF block.algorithm = "stored" THEN Size("stored", block.coded) = Len(input)
                         ELSE Size(block.algorithm, block.coded) < Len(input)
    BY Zenon DEF BlockPassesReader
  <2>1. input \in Seq(Bytes)
    BY DEF InputInv
  <2>2. PICK d, n : d = input /\ n = Len(input)
    OBVIOUS
  <2>3. ASSUME NEW b \in Algorithms, block = [algorithm |-> b, coded |-> Compress(b, d)]
        PROVE  DecodeBlock(block, n) = Restored(d)
    <3>1. Decompress(b, Compress(b, d), n) = Restored(d)
      BY <2>1, <2>2, EachRestores
    <3>2. Decompress(block.algorithm, block.coded, n) = Restored(d)
      BY <2>3, <3>1
    <3>3. Restored(d) # Corrupt /\ Restored(d).restored = d
      BY DEF Restored, Corrupt
    <3> QED BY <2>2, <3>2, <3>3 DEF DecodeBlock
  <2>4. CASE a # "stored" /\ ~LooksIncompressible(a, d) /\ Size(a, Compress(a, d)) < n
    <3>1. block = [algorithm |-> a, coded |-> Compress(a, d)]
      BY <2>2, <2>4 DEF EncodeBlock
    <3>2. DecodeBlock(block, n) = Restored(d)
      BY <2>3, <3>1
    <3>3. block.algorithm = a /\ Size(block.algorithm, block.coded) < n
      BY <2>4, <3>1
    <3> QED BY <2>2, <2>4, <3>2, <3>3
  <2>5. CASE ~(a # "stored" /\ ~LooksIncompressible(a, d) /\ Size(a, Compress(a, d)) < n)
    <3>1. block = [algorithm |-> "stored", coded |-> [payload |-> d]]
      BY <2>2, <2>5 DEF EncodeBlock
    <3>2. "stored" \in Algorithms /\ block = [algorithm |-> "stored", coded |-> Compress("stored", d)]
      BY <3>1 DEF Algorithms, Compress
    <3>3. DecodeBlock(block, n) = Restored(d)
      BY <2>3, <3>2
    <3>4. block.algorithm = "stored" /\ Size("stored", block.coded) = n
      <4>1. n \in Nat /\ Len(d) = n
        BY <2>1, <2>2, LenProperties
      <4> QED BY <3>1, <4>1 DEF Size, PayloadSize, MetadataSize
    <3> QED BY <2>2, <3>3, <3>4
  <2> QED BY <2>4, <2>5
<1> QED BY <1>1, InputsHold, PTL

-----------------------------------------------------------------------------
(* Huffman: accepted streams *)

(* What has been read are the codes of what was emitted, and the path.     *)
Emitted(codes, U, r, bits) ==
  r.output \in Seq(U) /\ r.path \in Seq(Bits) /\ Mapped(codes, r.output) \o r.path = bits

(* A step keeps the bits read those of the symbols and of the path.        *)
LEMMA EmittedMore ==
  ASSUME NEW U, NEW codes, CodeTable(codes, U), NEW r \in Walkers, NEW bits \in Seq(Bits), NEW bit \in Bits,
         Emitted(codes, U, r, bits)
  PROVE  Emitted(codes, U, WalkStep(codes, r, bit), Append(bits, bit))
<1>0. Mapper(codes, U, Bits) /\ DOMAIN codes = U
  BY DEF CodeTable, Mapper
<1>1. PICK o, x, e : o = r.output /\ x = r.path /\ e = Append(bits, bit)
  OBVIOUS
<1>2. o \in Seq(U)
  BY <1>1 DEF Emitted
<1>3. x \in Seq(Bits)
  BY <1>1 DEF Emitted
<1>4. PICK m : m = Mapped(codes, o)
  OBVIOUS
<1>5. m \in Seq(Bits)
  BY <1>0, <1>2, <1>4, MappedType
<1>6. m \o x = bits
  BY <1>1, <1>4 DEF Emitted
<1>7. PICK y : y = Append(x, bit)
  OBVIOUS
<1>8. y \in Seq(Bits)
  BY <1>3, <1>7, AppendProperties
<1>9. m \o y = e
  <2>1. m \o Append(x, bit) = Append(m \o x, bit)
    BY <1>3, <1>5, ConcatAppend
  <2> QED BY <1>1, <1>6, <1>7, <2>1, Zenon
<1>10. CASE Leaves(codes, y) = {}
  <2>1. PICK q : q = WalkStep(codes, r, bit)
    OBVIOUS
  <2>2. q = [r EXCEPT !.path = y]
    BY <1>1, <1>7, <1>10, <2>1 DEF WalkStep
  <2>3. q.output = o /\ q.path = y
    BY <1>1, <2>2 DEF Walkers
  <2>4. Emitted(codes, U, q, e)
    BY <1>2, <1>4, <1>8, <1>9, <2>3 DEF Emitted
  <2> QED BY <1>1, <2>1, <2>4
<1>11. CASE Leaves(codes, y) # {}
  <2>1. PICK c : c = CHOOSE z \in Leaves(codes, y) : TRUE
    OBVIOUS
  <2>2. c \in U /\ codes[c] = y
    BY <1>0, <1>11, <2>1 DEF Leaves
  <2>3. PICK q : q = WalkStep(codes, r, bit)
    OBVIOUS
  <2>4. PICK p : p = Append(o, c)
    OBVIOUS
  <2>5. q = [path |-> <<>>, output |-> p]
    BY <1>1, <1>7, <1>11, <2>1, <2>3, <2>4, Zenon DEF WalkStep
  <2>6. q.output = p /\ q.path = <<>>
    BY <2>5
  <2>7. p \in Seq(U)
    BY <1>2, <2>2, <2>4, AppendProperties
  <2>8. Mapped(codes, Append(o, c)) = Mapped(codes, o) \o codes[c]
    <3>1. Mapper(codes, U, Bits)
      BY <1>0
    <3>2. c \in U
      BY <2>2
    <3> QED BY <1>2, <3>1, <3>2, MappedAppend
  <2>9. Mapped(codes, p) = e
    BY <1>4, <1>9, <2>2, <2>4, <2>8, Zenon
  <2>10. e \in Seq(Bits) /\ <<>> \in Seq(Bits)
    BY <1>1, AppendProperties, EmptySeq
  <2>11. e \o <<>> = e
    BY <2>10, ConcatEmptySeq
  <2>12. Emitted(codes, U, q, e)
    BY <2>6, <2>7, <2>9, <2>10, <2>11, Zenon DEF Emitted
  <2> QED BY <1>1, <2>3, <2>12
<1> QED BY <1>10, <1>11

(* So they are after every walk.                                           *)
LEMMA WalkEmits ==
  ASSUME NEW U, NEW codes, CodeTable(codes, U)
  PROVE  \A bits \in Seq(Bits) : Emitted(codes, U, Walked(codes, Start, bits), bits)
<1>0. Start \in Walkers
  <2>1. <<>> \in Seq(Bits) /\ <<>> \in Seq(Bytes)
    BY EmptySeq
  <2> QED BY <2>1 DEF Start, Walkers
<1>1. PICK s \in Walkers : s = Start
  BY <1>0
<1> DEFINE Q == {bits \in Seq(Bits) : Emitted(codes, U, Walked(codes, s, bits), bits)}
<1>2. <<>> \in Q
  <2>1. <<>> \in Seq(Bits) /\ <<>> \in Seq(U)
    BY EmptySeq
  <2>2. Walked(codes, s, <<>>) = s
    BY <2>1, WalkMore
  <2>3. s.output = <<>> /\ s.path = <<>>
    BY <1>1 DEF Start
  <2>4. <<>> \o <<>> = <<>>
    BY <2>1, ConcatEmptySeq
  <2>5. Emitted(codes, U, s, <<>>)
    BY <2>1, <2>3, <2>4, MappedEmpty, Zenon DEF Emitted
  <2> QED BY <2>1, <2>2, <2>5
<1>3. ASSUME NEW r \in Seq(Bits), NEW bit \in Bits, r \in Q PROVE Append(r, bit) \in Q
  <2>1. PICK w : w = Walked(codes, s, r)
    OBVIOUS
  <2>2. w \in Walkers
    BY <2>1, WalkMore
  <2>3. Walked(codes, s, Append(r, bit)) = WalkStep(codes, w, bit)
    BY <2>1, WalkMore
  <2>4. Emitted(codes, U, w, r)
    BY <1>3, <2>1
  <2>5. Emitted(codes, U, WalkStep(codes, w, bit), Append(r, bit))
    BY <2>2, <2>4, EmittedMore
  <2>6. Append(r, bit) \in Seq(Bits)
    BY AppendProperties
  <2> QED BY <2>3, <2>5, <2>6
<1>4. Seq(Bits) \subseteq Q
  <2> HIDE DEF Q
  <2> QED BY <1>2, <1>3, SeqInduction
<1> QED BY <1>1, <1>4

\* A stream with the right length and padding is what padding makes of its bits.
LEMMA PaddedIs ==
  ASSUME NEW p \in Seq(Bits), NEW n \in Nat, NEW z, z = Bytesized(n) * Width, Len(p) = z, PaddingIsZero(p, n)
  PROVE  n <= z /\ Padded(SubSeq(p, 1, n)) = p
<1>1. z \in Nat /\ n <= z
  <2>1. Width \in Nat /\ Width >= 1
    BY CodecsAssumption
  <2>2. PICK a \in Nat, w \in Nat : a = n + Width - 1 /\ w = Width /\ w >= 1
    BY <2>1
  <2>3. PICK q : q = a \div w
    OBVIOUS
  <2>4. q \in Nat /\ q * w <= a /\ a < q * w + w
    BY <2>2, <2>3, Divided
  <2>5. z = q * w
    BY <2>2, <2>3 DEF Bytesized
  <2>6. z \in Nat
    BY <2>2, <2>4, <2>5
  <2> QED BY <2>2, <2>4, <2>5, <2>6
<1>2. PICK b : b = SubSeq(p, 1, n)
  OBVIOUS
<1>3. \A i \in 1..n : p[i] \in Bits
  BY <1>1, ElementOfSeq
<1>4. b \in Seq(Bits) /\ Len(b) = n /\ \A i \in 1..n : b[i] = p[i]
  <2>1. /\ SubSeq(p, 1, n) \in Seq(Bits) /\ Len(SubSeq(p, 1, n)) = IF 1 <= n THEN n - 1 + 1 ELSE 0
        /\ \A i \in 1..(n - 1 + 1) : SubSeq(p, 1, n)[i] = p[1 + i - 1]
    BY <1>3, SubSeqProperties
  <2> QED BY <1>2, <2>1
<1>5. PICK q : q = Padded(b)
  OBVIOUS
<1>6. /\ q \in Seq(Bits) /\ Len(q) = z
      /\ \A i \in 1..n : q[i] = b[i]
      /\ \A i \in n + 1 .. z : q[i] = 0
  BY <1>4, <1>5, PaddedEffect
<1>7. \A i \in 1..z : q[i] = p[i]
  <2>1. ASSUME NEW i \in 1..z PROVE q[i] = p[i]
    <3>1. CASE i \in 1..n
      BY <1>4, <1>6, <3>1
    <3>2. CASE i \in n + 1 .. z
      BY <1>6, <3>2 DEF PaddingIsZero
    <3>3. i \in 1..n \/ i \in n + 1 .. z
      BY <1>1
    <3> QED BY <3>1, <3>2, <3>3
  <2> QED BY <2>1
<1>8. p \in [1..z -> Bits] /\ q \in [1..z -> Bits]
  BY <1>6, LenProperties
<1>9. p = [i \in 1..z |-> p[i]] /\ q = [i \in 1..z |-> q[i]]
  BY <1>8
<1>10. q = p
  BY <1>7, <1>9
<1> QED BY <1>1, <1>2, <1>5, <1>10

(* With one symbol in the table, the bits are counted.                     *)
Counted(p, t, n, d) ==
  /\ n = Total(t) /\ d = Repeat(Head(Used(t)), n)
  /\ \A i \in 1..Len(p) : p[i] = 1 => i > Len(p) - Width /\ i <= n

(* What an accepted stream says of its bits, its table and its data.       *)
Canonical(p, t, n, d) ==
  /\ Len(d) = Total(t) /\ Total(t) <= MaxLen
  /\ Total(t) = 0 => n = 0 /\ p = <<>>
  /\ Len(Used(t)) = 1 => Counted(p, t, n, d)
  /\ Len(Used(t)) > 1 => Padded(Encode(d, Codes(t))) = p /\ n = Len(Encode(d, Codes(t)))

(* A table with one symbol has one code.                                   *)
LEMMA OneCodeIsSingle ==
  ASSUME NEW t, Len(Used(t)) = 1
  PROVE  IsSingle(Codes(t)) /\ (CHOOSE s \in DOMAIN Codes(t) : TRUE) = Head(Used(t))
<1>1. PICK v : v = Head(Used(t))
  OBVIOUS
<1>2. Codes(t) = [s \in {v} |-> <<0>>]
  BY <1>1, Zenon DEF Codes
<1>3. DOMAIN Codes(t) = {v}
  BY <1>2
<1> QED BY <1>1, <1>3, FS_Singleton DEF IsSingle

(* A stream that is accepted is the one its table and its data have.       *)
LEMMA AcceptedIsCanonical ==
  ASSUME NEW p \in Seq(Bits), NEW t \in [Bytes -> Nat], NEW n \in Nat, n <= Len(p),
         NEW result, result = HuffmanDecompress(p, t, n, MaxLen), result # Corrupt
  PROVE  Canonical(p, t, n, result.restored)
<1>1. PICK size \in Nat : size = Total(t)
  <2>1. PICK h : Sums(h, t)
    BY TotalSums
  <2>2. Symbols \in 0..Symbols
    BY AllBytesType
  <2>3. h[Symbols] \in Nat /\ h[Symbols] = Total(t)
    BY <2>1, <2>2 DEF Sums
  <2> QED BY <2>3
<1>2. PICK codes, U, k : codes = Codes(t) /\ U = Occurring(t) /\ k = Len(Used(t))
  OBVIOUS
<1>3. ~(size > MaxLen) /\ Len(p) = Bytesized(n) * Width
  BY <1>1, Zenon DEF HuffmanDecompress
<1>4. size <= MaxLen
  BY <1>1, <1>3, CodecsAssumption
<1>5. \A d : Restored(d).restored = d
  BY DEF Restored
<1>6. CASE size = 0
  <2>1. n = 0 /\ result = Restored(<<>>)
    BY <1>1, <1>3, <1>6, Zenon DEF HuffmanDecompress
  <2>2. result.restored = <<>>
    BY <1>5, <2>1
  <2>3. Len(<<>>) = 0 /\ <<>> \in Seq(Bits)
    BY EmptySeq
  <2>4. Encode(<<>>, Codes(t)) = <<>>
    BY EncodeIsMapped, MappedEmpty
  <2>5. Len(p) = 0 /\ p = <<>>
    <3>1. PICK w \in Nat : w = Width /\ w >= 1
      BY CodecsAssumption
    <3>2. (w - 1) \div w = 0
      BY <3>1
    <3>3. Len(p) = 0
      BY <1>3, <2>1, <3>1, <3>2 DEF Bytesized
    <3> QED BY <3>3, EmptySeq
  <2>6. Padded(<<>>) = p
    <3>1. PICK z : z = Bytesized(n) * Width
      OBVIOUS
    <3>2. PaddingIsZero(p, n)
      BY <2>1, <2>5 DEF PaddingIsZero
    <3>3. Padded(SubSeq(p, 1, n)) = p
      BY <1>3, <3>1, <3>2, PaddedIs
    <3>4. SubSeq(p, 1, 0) = <<>>
      BY SubSeqEmpty
    <3> QED BY <2>1, <3>3, <3>4
  <2>7. Counted(p, t, n, <<>>)
    <3>1. <<>> = Repeat(Head(Used(t)), 0)
      BY RepeatNone
    <3>2. ~\E i \in 1..Len(p) : TRUE
      BY <2>5
    <3> QED BY <1>1, <1>6, <2>1, <3>1, <3>2 DEF Counted
  <2> QED BY <1>1, <1>4, <1>6, <2>1, <2>2, <2>3, <2>4, <2>5, <2>6, <2>7 DEF Canonical
<1>7. CASE size # 0 /\ IsSingle(codes)
  <2>1. PICK v : v = CHOOSE s \in DOMAIN codes : TRUE
    OBVIOUS
  <2>2. /\ result = Restored(Repeat(v, size))
        /\ n = size /\ ~(\E i \in 1 .. Len(p) - Width : p[i] = 1) /\ PaddingIsZero(p, n)
    BY <1>1, <1>2, <1>3, <1>7, <2>1, Zenon DEF HuffmanDecompress
  <2>3. Len(Repeat(v, size)) = size
    BY RepeatType
  <2>4. ~(k > 1)
    BY <1>2, <1>7, CodesDecodable DEF IsSingle
  <2>5. ASSUME k = 1 PROVE Counted(p, t, n, Repeat(v, size))
    <3>1. v = Head(Used(t))
      BY <1>2, <2>1, <2>5, OneCodeIsSingle
    <3>2. ASSUME NEW i \in 1..Len(p), p[i] = 1 PROVE i > Len(p) - Width /\ i <= n
      <4>1. Len(p) \in Nat /\ Width \in Nat
        BY CodecsAssumption, LenProperties
      <4>2. ~(i \in 1 .. Len(p) - Width)
        BY <2>2, <3>2
      <4>3. ~(i \in n + 1 .. Len(p))
        BY <2>2, <3>2 DEF PaddingIsZero
      <4> QED BY <4>1, <4>2, <4>3
    <3> QED BY <1>1, <2>2, <3>1, <3>2 DEF Counted
  <2> QED BY <1>1, <1>2, <1>4, <1>5, <1>7, <2>2, <2>3, <2>4, <2>5 DEF Canonical
<1>8. CASE size # 0 /\ ~IsSingle(codes)
  <2>1. PICK full : full = (n \div Width) * Width
    OBVIOUS
  <2>2. PICK all : all = Walk(codes, Walk(codes, Start, SubSeq(p, 1, full)), SubSeq(p, full + 1, n))
    OBVIOUS
  <2>3. result = IF PaddingIsZero(p, n) /\ Len(all.output) = size /\ all.path = <<>> THEN Restored(all.output) ELSE Corrupt
    BY <1>1, <1>2, <1>3, <1>8, <2>1, <2>2 DEF HuffmanDecompress, Start
  <2>4. PaddingIsZero(p, n) /\ Len(all.output) = size /\ all.path = <<>> /\ result.restored = all.output
    BY <1>5, <2>3
  <2>5. PICK d : d = all.output
    OBVIOUS
  <2>6. ASSUME k > 1 PROVE Padded(Encode(d, codes)) = p /\ n = Len(Encode(d, codes))
    <3>1. CodeTable(codes, U)
      BY <1>2, <2>6, CodesDecodable DEF Decodable
    <3>2. full \in 0..n
      <4>1. PICK w \in Nat : w = Width /\ w >= 1
        BY CodecsAssumption
      <4>2. n \div w \in Nat /\ (n \div w) * w <= n
        BY <4>1, Divided
      <4>3. full \in Nat
        BY <2>1, <4>1, <4>2
      <4> QED BY <2>1, <4>1, <4>2, <4>3
    <3>3. PICK b : b = SubSeq(p, 1, n)
      OBVIOUS
    <3>4. b \in Seq(Bits) /\ Len(b) = n /\ all = Walked(codes, Start, b)
      BY <2>2, <3>1, <3>2, <3>3, WalkInTwo
    <3>5. Emitted(codes, U, all, b)
      BY <3>1, <3>4, WalkEmits
    <3>6. d \in Seq(U) /\ Mapped(codes, d) \o <<>> = b
      BY <2>4, <2>5, <3>5 DEF Emitted
    <3>7. Mapper(codes, U, Bits)
      BY <3>1 DEF CodeTable, Mapper
    <3>8. Mapped(codes, d) \in Seq(Bits)
      BY <3>6, <3>7, MappedType
    <3>9. Mapped(codes, d) = b
      BY <3>6, <3>8, ConcatEmptySeq
    <3>10. Padded(b) = p
      <4>1. PICK z : z = Bytesized(n) * Width
        OBVIOUS
      <4> QED BY <1>3, <2>4, <3>3, <4>1, PaddedIs
    <3> QED BY <3>4, <3>9, <3>10, EncodeIsMapped, Zenon
  <2>7. k # 1
    BY <1>2, <1>8, OneCodeIsSingle
  <2> QED BY <1>1, <1>2, <1>4, <1>8, <2>4, <2>5, <2>6, <2>7 DEF Canonical
<1> QED BY <1>6, <1>7, <1>8

(* Whatever the width of a byte, the counts of the tables and the bounds   *)
(* on the data and on the payload: a Huffman stream that is accepted is    *)
(* the one its data and its table have, and with one symbol in the table   *)
(* its bits are counted.                                                   *)
THEOREM CanonicalTheorem == Spec => []HuffmanIsCanonical
<1>1. InputInv => HuffmanIsCanonical
  <2> SUFFICES ASSUME InputInv, kind = "huffman", NEW n \in 0..Len(input),
                      NEW result, result = HuffmanDecompress(input, table, n, MaxLen), result # Corrupt
               PROVE  /\ Len(result.restored) = Total(table) /\ Total(table) <= MaxLen
                      /\ Total(table) = 0 => n = 0 /\ input = <<>>
                      /\ Len(Used(table)) = 1 =>
                           /\ n = Total(table) /\ result.restored = Repeat(Head(Used(table)), n)
                           /\ \A i \in 1..Len(input) : input[i] = 1 => i > Len(input) - Width /\ i <= n
                      /\ Len(Used(table)) > 1 => /\ Padded(Encode(result.restored, Codes(table))) = input
                                                 /\ n = Len(Encode(result.restored, Codes(table)))
    BY Zenon DEF HuffmanIsCanonical
  <2>1. input \in Seq(Bits)
    BY DEF InputInv, Bits
  <2>2. table \in [Bytes -> Nat]
    <3>1. table \in [Bytes -> Weights] /\ Weights \subseteq Nat
      BY CodecsAssumption DEF InputInv
    <3> QED BY <3>1
  <2>3. n \in Nat /\ n <= Len(input)
    BY <2>1, LenProperties
  <2>4. PICK p, t : p = input /\ t = table
    OBVIOUS
  <2>5. Canonical(p, t, n, result.restored)
    BY <2>1, <2>2, <2>3, <2>4, AcceptedIsCanonical
  <2> QED BY <2>4, <2>5, Zenon DEF Canonical, Counted
<1> QED BY <1>1, InputsHold, PTL

-----------------------------------------------------------------------------
(* LZW: what a stream means *)

Stream(codes, N) == N \in Nat /\ N >= 1 /\ \A i \in 1..N : codes[i] \in Nat /\ codes[i] <= MaxCode

(* R[i] is the decoder that has read the first i codes.                    *)
Reads(R, codes, N) ==
  /\ R \in [1..N -> Readers] /\ codes[1] \in Bytes /\ R[1] = Reading(codes[1])
  /\ \A i \in 1..N : i > 1 => R[i] = LzwRead(R[i - 1], codes[i])

(* The entry that a code names, and whether the first n codes name entries *)
(* that earlier codes define.                                              *)
Place(c) == c - Symbols + 1
NamesEarlier(c, i) == c >= Symbols => Place(c) < i
Sound(codes, n) == \A i \in 1..n : NamesEarlier(codes[i], i)

(* Entry j is the phrase of code j and the first byte of the next one, up  *)
(* to a full dictionary.                                                   *)
Knows(R, i, d, L) ==
  /\ d = R[i] /\ L = Len(d.dictionary) /\ L \in Nat /\ d.corrupt = FALSE
  /\ L = i - 1 \/ (L < i /\ Symbols + L > MaxCode)
  /\ Symbols + L <= MaxCode + 1
  /\ \A j \in 1..L : d.dictionary[j] = Append(R[j].previous, Head(R[j + 1].previous))

(* The decoder refuses the codes that name no earlier entry ...            *)
LEMMA RefusesUnknown ==
  ASSUME NEW R, NEW i \in Nat, i >= 1, NEW d \in Readers, NEW L, Knows(R, i, d, L), NEW c \in Nat, c <= MaxCode
  PROVE  Refuses(d, c) <=> ~NamesEarlier(c, i + 1)
<1>1. Symbols \in Nat /\ MaxCode \in Nat
  BY CodecsAssumption
<1>2. /\ L \in Nat /\ d.corrupt = FALSE /\ L = Len(d.dictionary)
      /\ L = i - 1 \/ (L < i /\ Symbols + L > MaxCode)
      /\ Symbols + L <= MaxCode + 1
  BY DEF Knows
<1>3. Refuses(d, c) <=> c > Symbols + L
  BY <1>2, Zenon DEF Refuses
<1>4. CASE L = i - 1
  BY <1>1, <1>2, <1>3, <1>4 DEF NamesEarlier, Place
<1>5. CASE L < i /\ Symbols + L > MaxCode
  BY <1>1, <1>2, <1>3, <1>5 DEF NamesEarlier, Place
<1> QED BY <1>2, <1>4, <1>5

(* ... and otherwise knows one entry more.                                 *)
LEMMA KnowsMore ==
  ASSUME NEW R, NEW i \in Nat, i >= 1, NEW d \in Readers, NEW L, Knows(R, i, d, L), NEW c \in Nat, c <= MaxCode,
         ~Refuses(d, c), NEW e \in Readers, e = LzwRead(d, c), e = R[i + 1]
  PROVE  \E M : Knows(R, i + 1, e, M)
<1>1. Symbols \in Nat /\ MaxCode \in Nat
  BY CodecsAssumption
<1>2. /\ L \in Nat /\ d.corrupt = FALSE /\ L = Len(d.dictionary) /\ d = R[i]
      /\ L = i - 1 \/ (L < i /\ Symbols + L > MaxCode)
      /\ Symbols + L <= MaxCode + 1
      /\ \A j \in 1..L : d.dictionary[j] = Append(R[j].previous, Head(R[j + 1].previous))
  BY DEF Knows
<1>3. PICK w : w = Entry(d, c)
  OBVIOUS
<1>4. e = [d EXCEPT !.previous = w, !.output = d.output \o w, !.dictionary = Learnt(d, w)]
  BY <1>3, ReadSteps
<1>5. e.previous = w /\ e.dictionary = Learnt(d, w) /\ e.corrupt = FALSE
  BY <1>2, <1>4 DEF Readers
<1>6. w \in Phrases
  BY <1>3, EntryType
<1>7. CASE Symbols + L <= MaxCode
  <2>1. L = i - 1
    BY <1>1, <1>2, <1>7
  <2>2. PICK x : x = Append(d.previous, Head(w))
    OBVIOUS
  <2>3. PICK D : D = d.dictionary
    OBVIOUS
  <2>4. D \in Seq(Phrases) /\ x \in Phrases
    <3>1. D \in Seq(Phrases) /\ d.previous \in Phrases
      BY <2>3 DEF Readers
    <3>2. Head(w) \in Bytes
      BY <1>6 DEF Phrases
    <3> QED BY <2>2, <3>1, <3>2, PhraseMore
  <2>5. PICK E : E = Append(D, x)
    OBVIOUS
  <2>6. e.dictionary = E
    BY <1>2, <1>5, <1>7, <2>2, <2>3, <2>5 DEF Learnt
  <2>7. Len(E) = L + 1 /\ E[L + 1] = x /\ \A j \in 1..L : E[j] = D[j]
    BY <1>2, <2>3, <2>4, <2>5, AppendProperties
  <2>8. \A j \in 1..(L + 1) : E[j] = Append(R[j].previous, Head(R[j + 1].previous))
    <3>1. ASSUME NEW j \in 1..(L + 1) PROVE E[j] = Append(R[j].previous, Head(R[j + 1].previous))
      <4>1. CASE j = L + 1
        <5>1. j = i
          BY <1>2, <2>1, <4>1
        <5> QED BY <1>2, <1>5, <2>2, <2>7, <4>1, <5>1
      <4>2. CASE j # L + 1
        <5>1. j \in 1..L
          BY <1>2, <4>2
        <5> QED BY <1>2, <2>3, <2>7, <5>1
      <4> QED BY <4>1, <4>2
    <3> QED BY <3>1
  <2>9. L + 1 = (i + 1) - 1 /\ Symbols + (L + 1) <= MaxCode + 1 /\ L + 1 \in Nat
    BY <1>1, <1>2, <1>7, <2>1
  <2>10. PICK M : M = L + 1
    OBVIOUS
  <2>11. Knows(R, i + 1, e, M)
    BY <1>5, <2>6, <2>7, <2>8, <2>9, <2>10 DEF Knows
  <2> QED BY <2>11
<1>8. CASE ~(Symbols + L <= MaxCode)
  <2>1. e.dictionary = d.dictionary
    BY <1>2, <1>5, <1>8 DEF Learnt
  <2>2. L < i + 1 /\ Symbols + L > MaxCode
    BY <1>1, <1>2, <1>8
  <2>3. Knows(R, i + 1, e, L)
    BY <1>2, <1>5, <2>1, <2>2 DEF Knows
  <2> QED BY <2>3
<1> QED BY <1>7, <1>8

(* After each code the decoder knows the entries so far or has given up.   *)
KeepsUp(R, codes, i) ==
  IF Sound(codes, i) THEN \E L : Knows(R, i, R[i], L) ELSE R[i].corrupt = TRUE

(* So it is after every code.                                              *)
LEMMA FollowsStream ==
  ASSUME NEW codes, NEW N, Stream(codes, N), NEW R, Reads(R, codes, N)
  PROVE  \A i \in 1..N : KeepsUp(R, codes, i)
<1>0. /\ N \in Nat /\ N >= 1 /\ \A i \in 1..N : codes[i] \in Nat /\ codes[i] <= MaxCode
      /\ Symbols \in Nat /\ MaxCode \in Nat /\ MaxCode >= Symbols
  BY CodecsAssumption DEF Stream
<1> DEFINE S == {n \in Nat : n + 1 <= N => KeepsUp(R, codes, n + 1)}
<1>1. 0 \in S
  <2>1. R[1] = Reading(codes[1]) /\ codes[1] \in Bytes
    BY DEF Reads
  <2>2. Sound(codes, 1)
    <3>1. ~(codes[1] >= Symbols)
      BY <1>0, <2>1 DEF Bytes
    <3> QED BY <3>1 DEF Sound, NamesEarlier
  <2>3. PICK d : d = R[1]
    OBVIOUS
  <2>4. d.dictionary = <<>> /\ d.corrupt = FALSE
    BY <2>1, <2>3 DEF Reading
  <2>5. Len(d.dictionary) = 0
    BY <2>4, EmptySeq
  <2>6. Knows(R, 1, d, 0)
    <3>1. 0 = 1 - 1 /\ Symbols + 0 <= MaxCode + 1 /\ 0 \in Nat /\ 1..0 = {}
      BY <1>0
    <3> QED BY <2>3, <2>4, <2>5, <3>1 DEF Knows
  <2>7. KeepsUp(R, codes, 1)
    BY <2>2, <2>3, <2>6 DEF KeepsUp
  <2> QED BY <2>7
<1>2. ASSUME NEW n \in Nat, n \in S PROVE n + 1 \in S
  <2>1. PICK i \in Nat, k \in Nat : i = n + 1 /\ k = i + 1 /\ i >= 1
    OBVIOUS
  <2> SUFFICES ASSUME k <= N PROVE KeepsUp(R, codes, k)
    BY <2>1
  <2>2. i \in 1..N /\ k \in 1..N /\ KeepsUp(R, codes, i)
    BY <1>0, <1>2, <2>1
  <2>3. PICK d, e, c : d = R[i] /\ e = R[k] /\ c = codes[k]
    OBVIOUS
  <2>4. d \in Readers /\ e \in Readers /\ c \in Nat /\ c <= MaxCode
    BY <1>0, <2>2, <2>3 DEF Reads
  <2>5. e = LzwRead(d, c)
    <3>1. k > 1 /\ k - 1 = i
      BY <2>1
    <3>2. R[k] = LzwRead(R[k - 1], codes[k])
      BY <2>2, <3>1 DEF Reads
    <3> QED BY <2>3, <3>1, <3>2
  <2>6. Sound(codes, k) <=> Sound(codes, i) /\ NamesEarlier(c, k)
    <3>1. \A j \in 1..k : j \in 1..i \/ j = k
      BY <2>1
    <3>2. \A j \in 1..i : j \in 1..k
      BY <2>1
    <3>3. k \in 1..k
      BY <2>1
    <3> QED BY <2>3, <3>1, <3>2, <3>3 DEF Sound
  <2>7. CASE ~Sound(codes, i)
    <3>1. d.corrupt = TRUE
      BY <2>2, <2>3, <2>7 DEF KeepsUp
    <3>2. e = [d EXCEPT !.corrupt = TRUE]
      BY <2>4, <2>5, <3>1, ReadSteps DEF Refuses
    <3>3. e.corrupt = TRUE
      BY <2>4, <3>2 DEF Readers
    <3> QED BY <2>3, <2>6, <2>7, <3>3 DEF KeepsUp
  <2>8. CASE Sound(codes, i)
    <3>1. PICK L : Knows(R, i, d, L)
      BY <2>2, <2>3, <2>8 DEF KeepsUp
    <3>2. Refuses(d, c) <=> ~NamesEarlier(c, k)
      BY <2>1, <2>4, <3>1, RefusesUnknown
    <3>3. CASE Refuses(d, c)
      <4>1. e = [d EXCEPT !.corrupt = TRUE]
        BY <2>4, <2>5, <3>3, ReadSteps
      <4>2. e.corrupt = TRUE
        BY <2>4, <4>1 DEF Readers
      <4> QED BY <2>3, <2>6, <3>2, <3>3, <4>2 DEF KeepsUp
    <3>4. CASE ~Refuses(d, c)
      <4>1. e = R[i + 1]
        BY <2>1, <2>3
      <4>2. \E M : Knows(R, i + 1, e, M)
        BY <2>1, <2>4, <2>5, <3>1, <3>4, <4>1, KnowsMore
      <4> QED BY <2>1, <2>3, <2>6, <2>8, <3>2, <3>4, <4>2 DEF KeepsUp
    <3> QED BY <3>3, <3>4
  <2> QED BY <2>7, <2>8
<1>3. Nat \subseteq S
  <2> HIDE DEF S
  <2> QED BY <1>1, <1>2, SetInduction
<1>4. ASSUME NEW i \in 1..N PROVE KeepsUp(R, codes, i)
  <2>1. PICK n \in Nat : n + 1 = i
    <3>1. i - 1 \in Nat /\ (i - 1) + 1 = i
      BY <1>0
    <3> QED BY <3>1
  <2>2. n + 1 <= N
    BY <1>0, <2>1
  <2> QED BY <1>3, <2>1, <2>2
<1> QED BY <1>4

(* A stream of the input's kind, its first code and the others.            *)
LEMMA StreamParts ==
  ASSUME NEW codes \in Seq(0..MaxCode), codes # <<>>
  PROVE  /\ Stream(codes, Len(codes)) /\ Head(codes) = codes[1]
         /\ Tail(codes) \in Seq(Nat) /\ Len(Tail(codes)) = Len(codes) - 1
         /\ \A i \in 1..Len(codes) - 1 : Tail(codes)[i] = codes[i + 1]
<1>1. MaxCode \in Nat
  BY CodecsAssumption
<1>2. Len(codes) \in Nat /\ Len(codes) >= 1
  BY EmptySeq, LenProperties
<1>3. \A i \in 1..Len(codes) : codes[i] \in Nat /\ codes[i] <= MaxCode
  <2>1. \A i \in 1..Len(codes) : codes[i] \in 0..MaxCode
    BY ElementOfSeq
  <2> QED BY <1>1, <2>1
<1>4. codes \in Seq(Nat)
  <2>1. 0..MaxCode \subseteq Nat
    BY <1>1
  <2> QED BY <2>1, SeqMonotonic
<1>5. Tail(codes) \in Seq(Nat) /\ Len(Tail(codes)) = Len(codes) - 1
      /\ \A i \in 1..Len(codes) - 1 : Tail(codes)[i] = codes[i + 1]
  BY <1>2, <1>4
<1> QED BY <1>2, <1>3, <1>5 DEF Stream

(* The decoder's states after each of its codes.                           *)
LEMMA ReadsExist ==
  ASSUME NEW codes \in Seq(0..MaxCode), codes # <<>>, codes[1] \in Bytes,
         NEW N, N = Len(codes)
  PROVE  \E R : Reads(R, codes, N) /\ R[N] = Read(codes[1], Tail(codes))
<1>1. /\ N \in Nat /\ N >= 1 /\ \A i \in 1..N : codes[i] \in Nat
  BY StreamParts DEF Stream
<1>2. PICK t \in Seq(Nat) : t = Tail(codes)
  BY StreamParts
<1>3. Len(t) = N - 1 /\ \A i \in 1..N - 1 : t[i] = codes[i + 1]
  BY <1>2, StreamParts
<1>4. PICK base : base = Reading(codes[1])
  OBVIOUS
<1>5. Folder(ReadF, Readers, Nat, base)
  BY <1>4, ReadFType
<1>6. Reaches(Folded(ReadF, base, t), Readers, ReadF, base, t)
  BY <1>5, FoldRuns
<1>7. PICK h \in [0..Len(t) -> Readers] : Run(h, ReadF, base, t) /\ h[Len(t)] = Folded(ReadF, base, t)
  BY <1>6 DEF Reaches
<1>8. PICK M \in Nat : M = N - 1
  <2>1. N - 1 \in Nat
    BY <1>1
  <2> QED BY <2>1, Zenon
<1>9. /\ h \in [0..M -> Readers] /\ h[0] = base /\ h[M] = Folded(ReadF, base, t)
      /\ \A n \in 1..M : h[n] = ReadF[<<h[n - 1], codes[n + 1]>>]
  BY <1>3, <1>7, <1>8 DEF Run
<1>10. PICK R : R = [i \in 1..N |-> h[i - 1]]
  OBVIOUS
<1>11. \A i \in 1..N : i - 1 \in 0..M
  BY <1>1, <1>8
<1>12. R \in [1..N -> Readers] /\ \A i \in 1..N : R[i] = h[i - 1]
  BY <1>9, <1>10, <1>11
<1>13. R[1] = base /\ R[N] = h[M]
  <2>1. 1 \in 1..N /\ N \in 1..N /\ 1 - 1 = 0
    BY <1>1
  <2> QED BY <1>8, <1>9, <1>12, <2>1
<1>14. ASSUME NEW i \in 1..N, i > 1 PROVE R[i] = LzwRead(R[i - 1], codes[i])
  <2>1. PICK n \in 1..M : n = i - 1
    BY <1>8, <1>14
  <2>2. n \in 1..N /\ n + 1 = i
    BY <1>1, <1>8, <2>1
  <2>3. R[i] = h[n] /\ R[n] = h[n - 1]
    BY <1>12, <2>1, <2>2
  <2>4. h[n] = ReadF[<<R[n], codes[i]>>]
    BY <1>9, <2>2, <2>3
  <2>5. ReadF[<<R[n], codes[i]>>] = LzwRead(R[n], codes[i])
    <3>1. <<R[n], codes[i]>> \in Readers \X Nat
      BY <1>1, <1>12, <2>2
    <3> QED BY <3>1 DEF ReadF
  <2> QED BY <2>1, <2>3, <2>4, <2>5
<1>15. Reads(R, codes, N)
  BY <1>4, <1>12, <1>13, <1>14 DEF Reads
<1>16. R[N] = Read(codes[1], Tail(codes))
  BY <1>2, <1>4, <1>9, <1>13, Zenon DEF Read
<1> QED BY <1>15, <1>16

(* The meaning of a stream's codes, as the model has it.                   *)
Means(p, codes, i) ==
  p[i] = IF codes[i] < Symbols THEN <<codes[i]>>
         ELSE Append(p[Place(codes[i])],
                     Head(p[IF Place(codes[i]) + 1 = i THEN Place(codes[i]) ELSE Place(codes[i]) + 1]))

Previous(R, N) == [i \in 1..N |-> R[i].previous]

(* What a step of the decoder adds to its output is what its code means.   *)
AddsMeaning(R, codes, N, i) ==
  /\ Means(Previous(R, N), codes, i)
  /\ R[i].output = R[i - 1].output \o R[i].previous
  /\ R[i].corrupt = FALSE

(* So each step does.                                                      *)
LEMMA StepMeans ==
  ASSUME NEW codes, NEW N, Stream(codes, N), NEW R, Reads(R, codes, N), Sound(codes, N),
         NEW i \in 1..N, i > 1
  PROVE  AddsMeaning(R, codes, N, i)
<1>0. /\ N \in Nat /\ N >= 1 /\ \A k \in 1..N : codes[k] \in Nat /\ codes[k] <= MaxCode
      /\ Symbols \in Nat /\ MaxCode \in Nat /\ MaxCode >= Symbols
  BY CodecsAssumption DEF Stream
<1>1. PICK j \in 1..N : j = i - 1
  BY <1>0
<1>2. j \in Nat /\ j >= 1 /\ j + 1 = i
  BY <1>0, <1>1
<1>3. Sound(codes, j) /\ NamesEarlier(codes[i], i)
  <2>1. \A k \in 1..j : k \in 1..N
    BY <1>0, <1>1
  <2> QED BY <2>1 DEF Sound
<1>4. KeepsUp(R, codes, j)
  BY FollowsStream
<1>5. PICK L : Knows(R, j, R[j], L)
  BY <1>3, <1>4 DEF KeepsUp
<1>6. PICK d \in Readers, c \in Nat : d = R[j] /\ c = codes[i]
  BY <1>0, <1>1 DEF Reads
<1>7. /\ L = Len(d.dictionary) /\ L \in Nat /\ d.corrupt = FALSE
      /\ L = j - 1 \/ (L < j /\ Symbols + L > MaxCode)
      /\ \A k \in 1..L : d.dictionary[k] = Append(R[k].previous, Head(R[k + 1].previous))
  BY <1>5, <1>6 DEF Knows
<1>8. c <= MaxCode
  BY <1>0, <1>6
<1>9. ~Refuses(d, c)
  <2>1. Knows(R, j, d, L) /\ NamesEarlier(c, j + 1)
    BY <1>2, <1>3, <1>5, <1>6
  <2> QED BY <1>2, <1>8, <2>1, RefusesUnknown
<1>10. R[i] = LzwRead(d, c)
  BY <1>1, <1>6 DEF Reads
<1>11. PICK e \in Readers : e = R[i]
  BY DEF Reads
<1>12. PICK w : w = Entry(d, c)
  OBVIOUS
<1>13. e = [d EXCEPT !.previous = w, !.output = d.output \o w, !.dictionary = Learnt(d, w)]
  BY <1>9, <1>10, <1>11, <1>12, ReadSteps
<1>14. e.previous = w /\ e.output = d.output \o w /\ e.corrupt = FALSE
  BY <1>7, <1>13 DEF Readers
<1>15. PICK p : p = Previous(R, N)
  OBVIOUS
<1>16. \A k \in 1..N : p[k] = R[k].previous
  BY <1>15 DEF Previous
<1>17. Means(p, codes, i)
  <2>1. p[i] = w
    BY <1>11, <1>14, <1>16
  <2>2. CASE c < Symbols
    BY <1>6, <1>12, <2>1, <2>2 DEF Means, Entry
  <2>3. CASE ~(c < Symbols) /\ c < Symbols + L
    <3>1. PICK at \in 1..L : at = Place(c)
      BY <1>0, <1>7, <2>3 DEF Place
    <3>2. at \in 1..N /\ at + 1 \in 1..N /\ at + 1 # i
      BY <1>0, <1>1, <1>7
    <3>3. w = d.dictionary[at]
      BY <1>7, <1>12, <2>3, <3>1 DEF Entry, Place
    <3>4. w = Append(p[at], Head(p[at + 1]))
      BY <1>7, <1>16, <3>2, <3>3
    <3> QED BY <1>6, <2>1, <2>3, <3>1, <3>2, <3>4 DEF Means
  <2>4. CASE ~(c < Symbols + L)
    <3>1. c = Symbols + L
      BY <1>0, <1>7, <1>9, <2>4 DEF Refuses
    <3>2. L = j - 1
      BY <1>0, <1>7, <1>8, <3>1
    <3>3. Place(c) = j /\ ~(c < Symbols)
      BY <1>0, <1>2, <1>7, <3>1, <3>2 DEF Place
    <3>4. w = Append(p[j], Head(p[j]))
      BY <1>6, <1>7, <1>12, <1>16, <2>4, <3>3 DEF Entry
    <3> QED BY <1>2, <1>6, <2>1, <3>3, <3>4 DEF Means
  <2> QED BY <2>2, <2>3, <2>4
<1> QED BY <1>1, <1>6, <1>11, <1>14, <1>15, <1>17 DEF AddsMeaning

(* The earlier places that the meaning of code i refers to.                *)
LEMMA EarlierPlace ==
  ASSUME NEW codes, NEW N, Stream(codes, N), Sound(codes, N), NEW i \in 1..N, ~(codes[i] < Symbols)
  PROVE  /\ Place(codes[i]) \in 1..N /\ Place(codes[i]) < i
         /\ Place(codes[i]) + 1 # i => Place(codes[i]) + 1 \in 1..N /\ Place(codes[i]) + 1 < i
<1>1. N \in Nat /\ codes[i] \in Nat /\ Symbols \in Nat
  BY CodecsAssumption DEF Stream
<1>2. Place(codes[i]) < i
  BY <1>1 DEF Sound, NamesEarlier
<1>3. Place(codes[i]) >= 1 /\ Place(codes[i]) \in Int
  BY <1>1 DEF Place
<1> QED BY <1>1, <1>2, <1>3

(* The meaning is unique.                                                  *)
LEMMA MeaningIsUnique ==
  ASSUME NEW codes, NEW N, Stream(codes, N), Sound(codes, N),
         NEW p, \A i \in 1..N : Means(p, codes, i), NEW q, \A i \in 1..N : Means(q, codes, i)
  PROVE  \A i \in 1..N : p[i] = q[i]
<1>0. N \in Nat
  BY DEF Stream
<1> DEFINE S == {n \in Nat : \A i \in 1..N : i <= n => p[i] = q[i]}
<1>1. 0 \in S
  BY <1>0
<1>2. ASSUME NEW n \in Nat, n \in S PROVE n + 1 \in S
  <2>1. ASSUME NEW i \in 1..N, i <= n + 1 PROVE p[i] = q[i]
    <3>1. \A k \in 1..N : k < i => p[k] = q[k]
      BY <1>0, <1>2, <2>1
    <3>2. Means(p, codes, i) /\ Means(q, codes, i)
      OBVIOUS
    <3>3. CASE codes[i] < Symbols
      BY <3>2, <3>3 DEF Means
    <3>4. CASE ~(codes[i] < Symbols)
      <4>1. PICK at : at = Place(codes[i])
        OBVIOUS
      <4>2. at \in 1..N /\ at < i /\ (at + 1 # i => at + 1 \in 1..N /\ at + 1 < i)
        BY <3>4, <4>1, EarlierPlace
      <4>3. PICK b : b = IF at + 1 = i THEN at ELSE at + 1
        OBVIOUS
      <4>4. p[at] = q[at] /\ p[b] = q[b]
        BY <3>1, <4>2, <4>3
      <4>5. p[i] = Append(p[at], Head(p[b])) /\ q[i] = Append(q[at], Head(q[b]))
        BY <3>2, <3>4, <4>1, <4>3, Zenon DEF Means
      <4> QED BY <4>4, <4>5
    <3> QED BY <3>3, <3>4
  <2> QED BY <2>1
<1>3. Nat \subseteq S
  <2> HIDE DEF S
  <2> QED BY <1>1, <1>2, SetInduction
<1>4. \A i \in 1..N : i \in S
  BY <1>0, <1>3
<1>5. \A i \in 1..N : i <= i
  BY <1>0
<1> QED BY <1>4, <1>5

(* A phrase is not longer than the part of the stream that defines it.     *)
LEMMA PhraseLength ==
  ASSUME NEW codes, NEW N, Stream(codes, N), Sound(codes, N),
         NEW p \in [1..N -> Phrases], \A i \in 1..N : Means(p, codes, i)
  PROVE  \A i \in 1..N : Len(p[i]) \in Nat /\ Len(p[i]) <= i
<1>0. N \in Nat
  BY DEF Stream
<1>t. \A i \in 1..N : p[i] \in Seq(Bytes) /\ Len(p[i]) \in Nat /\ Head(p[i]) \in Bytes
  <2>1. ASSUME NEW i \in 1..N PROVE p[i] \in Seq(Bytes) /\ Len(p[i]) \in Nat /\ Head(p[i]) \in Bytes
    <3>1. PICK w \in Phrases : w = p[i]
      OBVIOUS
    <3>2. w \in Seq(Bytes) /\ w # <<>>
      BY DEF Phrases
    <3>3. Head(w) \in Bytes /\ Len(w) \in Nat
      BY <3>2
    <3> QED BY <3>1, <3>2, <3>3
  <2> QED BY <2>1
<1> DEFINE S == {n \in Nat : \A i \in 1..N : i <= n => Len(p[i]) <= i}
<1>1. 0 \in S
  BY <1>0
<1>2. ASSUME NEW n \in Nat, n \in S PROVE n + 1 \in S
  <2>1. ASSUME NEW i \in 1..N, i <= n + 1 PROVE Len(p[i]) <= i
    <3>1. \A k \in 1..N : k < i => Len(p[k]) <= k
      BY <1>0, <1>2, <2>1
    <3>2. Means(p, codes, i)
      OBVIOUS
    <3>3. CASE codes[i] < Symbols
      <4>1. p[i] = <<codes[i]>>
        BY <3>2, <3>3 DEF Means
      <4>2. Len(p[i]) = 1
        BY <4>1
      <4> QED BY <1>0, <4>2
    <3>4. CASE ~(codes[i] < Symbols)
      <4>1. PICK at : at = Place(codes[i])
        OBVIOUS
      <4>2. at \in 1..N /\ at < i /\ (at + 1 # i => at + 1 \in 1..N /\ at + 1 < i)
        BY <3>4, <4>1, EarlierPlace
      <4>3. PICK b \in 1..N : b = IF at + 1 = i THEN at ELSE at + 1
        BY <4>2
      <4>4. p[i] = Append(p[at], Head(p[b]))
        BY <3>2, <3>4, <4>1, <4>3, Zenon DEF Means
      <4>5. PICK w \in Seq(Bytes), v \in Bytes : w = p[at] /\ v = Head(p[b])
        BY <1>t, <4>2, <4>3
      <4>6. Len(Append(w, v)) = Len(w) + 1
        BY AppendProperties
      <4>7. Len(p[i]) = Len(w) + 1 /\ Len(w) <= at /\ Len(w) \in Nat
        BY <1>t, <3>1, <4>2, <4>4, <4>5, <4>6
      <4> QED BY <1>0, <4>2, <4>7
    <3> QED BY <3>3, <3>4
  <2> QED BY <2>1
<1>3. Nat \subseteq S
  <2> HIDE DEF S
  <2> QED BY <1>1, <1>2, SetInduction
<1>4. \A i \in 1..N : i \in S
  BY <1>0, <1>3
<1>5. \A i \in 1..N : i <= i
  BY <1>0
<1> QED BY <1>t, <1>4, <1>5

(* The output of a stream that is sound is its phrases, joined.            *)
Joins(R, n) == R[n].output = FlattenSeq(Previous(R, n))

ListsThem(P, R, n) ==
  P \in Seq(Seq(Bytes)) /\ Len(P) = n /\ \A k \in 1..n : P[k] = R[k].previous

(* The phrases so far are a sequence.                                      *)
LEMMA PhrasesAre ==
  ASSUME NEW N \in Nat, NEW R \in [1..N -> Readers], NEW n \in 1..N, NEW P, P = Previous(R, n)
  PROVE  ListsThem(P, R, n)
<1>1. \A k \in 1..n : k \in 1..N
  OBVIOUS
<1>2. \A k \in 1..n : R[k].previous \in Seq(Bytes)
  BY <1>1 DEF Readers, Phrases
<1>3. P \in [1..n -> Seq(Bytes)]
  BY <1>2 DEF Previous
<1>4. n \in Nat
  OBVIOUS
<1>5. \A k \in 1..n : P[k] = R[k].previous
  BY DEF Previous
<1>6. P \in Seq(Seq(Bytes)) /\ Len(P) = n
  BY <1>3, <1>4
<1> QED BY <1>5, <1>6 DEF ListsThem

(* So it is after each code.                                               *)
LEMMA OutputJoins ==
  ASSUME NEW codes, NEW N, Stream(codes, N), NEW R, Reads(R, codes, N), Sound(codes, N)
  PROVE  \A n \in 1..N : Joins(R, n)
<1>0. N \in Nat /\ N >= 1 /\ R \in [1..N -> Readers]
  BY DEF Stream, Reads
<1>s. \A m \in 1..N : m > 1 => AddsMeaning(R, codes, N, m)
  BY StepMeans
<1> DEFINE S == {n \in Nat : n + 1 <= N => Joins(R, n + 1)}
<1>1. 0 \in S
  <2>1. PICK P : P = Previous(R, 1)
    OBVIOUS
  <2>2. 1 \in 1..N
    BY <1>0
  <2>3. P \in Seq(Seq(Bytes)) /\ Len(P) = 1 /\ \A k \in 1..1 : P[k] = R[k].previous
    <3>1. ListsThem(P, R, 1)
      BY <1>0, <2>1, <2>2, PhrasesAre
    <3> QED BY <3>1, Zenon DEF ListsThem
  <2>4. PICK w \in Seq(Bytes) : w = R[1].previous
    BY <1>0, <2>2 DEF Readers, Phrases
  <2>5. P = <<w>>
    <3>1. P[1] = w
      BY <2>3, <2>4
    <3> QED BY <2>3, <3>1
  <2>6. FlattenSeq(P) = w
    BY <2>5, FlattenOne
  <2>7. R[1].output = R[1].previous
    BY DEF Reads, Reading
  <2>8. Joins(R, 1)
    BY <2>1, <2>3, <2>4, <2>6, <2>7, Zenon DEF Joins
  <2> QED BY <2>8
<1>2. ASSUME NEW n \in Nat, n \in S PROVE n + 1 \in S
  <2>1. PICK i \in Nat, k \in Nat : i = n + 1 /\ k = i + 1 /\ i >= 1
    OBVIOUS
  <2> SUFFICES ASSUME k <= N PROVE Joins(R, k)
    BY <2>1
  <2>2. i \in 1..N /\ k \in 1..N /\ k > 1 /\ k - 1 = i /\ Joins(R, i)
    BY <1>0, <1>2, <2>1
  <2>3. PICK P, Q : P = Previous(R, i) /\ Q = Previous(R, k)
    OBVIOUS
  <2>4. P \in Seq(Seq(Bytes)) /\ Len(P) = i /\ \A j \in 1..i : P[j] = R[j].previous
    <3>1. ListsThem(P, R, i)
      BY <1>0, <2>2, <2>3, PhrasesAre
    <3> QED BY <3>1, Zenon DEF ListsThem
  <2>5. Q \in Seq(Seq(Bytes)) /\ Len(Q) = k /\ \A j \in 1..k : Q[j] = R[j].previous
    <3>1. ListsThem(Q, R, k)
      BY <1>0, <2>2, <2>3, PhrasesAre
    <3> QED BY <3>1, Zenon DEF ListsThem
  <2>6. PICK w \in Seq(Bytes) : w = R[k].previous
    BY <1>0, <2>2 DEF Readers, Phrases
  <2>7. Q = Append(P, w)
    <3>a. k \in 1..k /\ i + 1 = k /\ \A j \in 1..i : j \in 1..k
      BY <2>1
    <3>b. Q[k] = w /\ \A j \in 1..i : Q[j] = P[j]
      BY <2>4, <2>5, <2>6, <3>a, Zenon
    <3>1. Len(Q) = Len(P) + 1 /\ Q[Len(Q)] = w /\ \A j \in 1..Len(P) : Q[j] = P[j]
      BY <2>4, <2>5, <3>a, <3>b, Zenon
    <3>2. PICK X : X = Seq(Bytes)
      OBVIOUS
    <3> QED BY <2>4, <2>5, <2>6, <3>1, <3>2, IsAppended
  <2>8. FlattenSeq(Q) = FlattenSeq(P) \o w
    BY <2>4, <2>6, <2>7, FlattenAppend
  <2>9. R[k].output = R[i].output \o w
    <3>1. k \in 1..N /\ k > 1
      BY <2>2
    <3>2. R[k].output = R[k - 1].output \o R[k].previous
      BY <1>s, <3>1 DEF AddsMeaning
    <3> QED BY <2>2, <2>6, <3>2
  <2>10. R[i].output = FlattenSeq(P)
    BY <2>2, <2>3, Zenon DEF Joins
  <2> QED BY <2>3, <2>5, <2>8, <2>9, <2>10, Zenon DEF Joins
<1>3. Nat \subseteq S
  <2> HIDE DEF S
  <2> QED BY <1>1, <1>2, SetInduction
<1>4. ASSUME NEW i \in 1..N PROVE Joins(R, i)
  <2>1. PICK n \in Nat : n + 1 = i
    <3>1. i - 1 \in Nat /\ (i - 1) + 1 = i
      BY <1>0
    <3> QED BY <3>1
  <2>2. n + 1 <= N
    BY <1>0, <2>1
  <2> QED BY <1>3, <2>1, <2>2
<1> QED BY <1>4

(* What the decoder has after a stream that is sound, and after one that is *)
(* not.                                                                    *)
Restores(d, codes, N) ==
  /\ d.corrupt = FALSE /\ Len(d.output) \in Nat /\ Len(d.output) <= N * N
  /\ \E p \in [1..N -> Phrases] : (\A i \in 1..N : Means(p, codes, i)) /\ d.output = FlattenSeq(p)

(* The lengths of the joined phrases.                                      *)
LEMMA Square ==
  ASSUME NEW n \in Nat, NEW k, k = n + 1, NEW a \in Nat, NEW b \in Nat, a <= n * n, b <= k
  PROVE  a + b <= k * k
<1>1. k * k = n * n + n + n + 1
  OBVIOUS
<1>2. PICK q \in Nat : q = n * n
  OBVIOUS
<1> QED BY <1>1, <1>2

(* The bound grows with the length.                                        *)
LEMMA SquareGrows ==
  ASSUME NEW n \in Nat, NEW m \in Nat, n <= m
  PROVE  n * n <= m * m
  OBVIOUS

(* N phrases that grow by one at most have N * N bytes at most.            *)
LEMMA OutputBound ==
  ASSUME NEW N \in Nat, N >= 1, NEW R \in [1..N -> Readers],
         \A i \in 1..N : Len(R[i].previous) \in Nat /\ Len(R[i].previous) <= i,
         R[1].output = R[1].previous,
         \A i \in 1..N : i > 1 => R[i].output = R[i - 1].output \o R[i].previous
  PROVE  Len(R[N].output) \in Nat /\ Len(R[N].output) <= N * N
<1>t. \A i \in 1..N : R[i].output \in Seq(Bytes) /\ R[i].previous \in Seq(Bytes)
  BY DEF Readers, Phrases
<1> DEFINE S == {n \in Nat : n + 1 <= N => Len(R[n + 1].output) <= (n + 1) * (n + 1)}
<1>1. 0 \in S
  <2>1. 0 + 1 = 1 /\ 1 \in 1..N /\ 1 * 1 = 1
    OBVIOUS
  <2>2. Len(R[1].output) <= 1
    BY <2>1
  <2> QED BY <2>1, <2>2
<1>2. ASSUME NEW n \in Nat, n \in S PROVE n + 1 \in S
  <2>1. PICK i \in Nat, k \in Nat : i = n + 1 /\ k = i + 1 /\ i >= 1
    OBVIOUS
  <2> SUFFICES ASSUME k <= N PROVE Len(R[k].output) <= k * k
    BY <2>1
  <2>2. i \in 1..N /\ k \in 1..N /\ k > 1 /\ k - 1 = i
    BY <2>1
  <2>3. Len(R[i].output) <= i * i
    BY <1>2, <2>1, <2>2
  <2>4. R[k].output = R[i].output \o R[k].previous
    BY <2>2
  <2>5. PICK s \in Seq(Bytes), w \in Seq(Bytes) : s = R[i].output /\ w = R[k].previous
    BY <1>t, <2>2
  <2>6. Len(s \o w) = Len(s) + Len(w) /\ Len(s) \in Nat /\ Len(w) \in Nat
    BY ConcatProperties, LenProperties
  <2>7. PICK a \in Nat, b \in Nat : a = Len(s) /\ b = Len(w)
    BY <2>6
  <2>8. a <= i * i /\ b <= k
    BY <2>2, <2>3, <2>5, <2>7
  <2>9. a + b <= k * k
    BY <2>1, <2>8, Square
  <2> QED BY <2>4, <2>5, <2>6, <2>7, <2>9
<1>3. Nat \subseteq S
  <2> HIDE DEF S
  <2> QED BY <1>1, <1>2, SetInduction
<1>4. PICK n \in Nat : n + 1 = N
  <2>1. N - 1 \in Nat /\ (N - 1) + 1 = N
    OBVIOUS
  <2> QED BY <2>1
<1>5. n \in S /\ N \in 1..N
  BY <1>3
<1>6. Len(R[N].output) <= N * N
  BY <1>4, <1>5
<1>7. Len(R[N].output) \in Nat
  BY <1>t, <1>5, LenProperties
<1> QED BY <1>6, <1>7

(* A sound stream is restored as what its codes mean, ...                  *)
LEMMA SoundIsRestored ==
  ASSUME NEW codes \in Seq(0..MaxCode), codes # <<>>, codes[1] \in Bytes,
         NEW N, N = Len(codes), Sound(codes, N)
  PROVE  Restores(Read(codes[1], Tail(codes)), codes, N)
<1>1. Stream(codes, N) /\ N \in Nat /\ N >= 1
  BY StreamParts DEF Stream
<1>2. PICK R : Reads(R, codes, N) /\ R[N] = Read(codes[1], Tail(codes))
  BY ReadsExist
<1>3. R \in [1..N -> Readers] /\ R[1] = Reading(codes[1])
  BY <1>2 DEF Reads
<1>4. \A i \in 1..N : i > 1 => AddsMeaning(R, codes, N, i)
  BY <1>1, <1>2, StepMeans
<1>5. PICK p : p = Previous(R, N)
  OBVIOUS
<1>6. p \in [1..N -> Phrases] /\ \A i \in 1..N : p[i] = R[i].previous
  BY <1>3, <1>5 DEF Previous, Readers
<1>7. R[1].previous = <<codes[1]>> /\ R[1].output = <<codes[1]>> /\ R[1].corrupt = FALSE
  BY <1>3 DEF Reading
<1>8. ASSUME NEW i \in 1..N PROVE Means(p, codes, i)
  <2>1. CASE i > 1
    BY <1>4, <1>5, <2>1 DEF AddsMeaning
  <2>2. CASE ~(i > 1)
    <3>1. i = 1 /\ codes[1] < Symbols
      BY <1>1, <2>2, CodecsAssumption DEF Bytes
    <3> QED BY <1>6, <1>7, <3>1 DEF Means
  <2> QED BY <2>1, <2>2
<1>9. \A i \in 1..N : Len(p[i]) \in Nat /\ Len(p[i]) <= i
  BY <1>1, <1>6, <1>8, PhraseLength
<1>10. \A i \in 1..N : i > 1 => R[i].output = R[i - 1].output \o R[i].previous
  BY <1>4 DEF AddsMeaning
<1>11. Len(R[N].output) \in Nat /\ Len(R[N].output) <= N * N
  <2>1. \A i \in 1..N : Len(R[i].previous) \in Nat /\ Len(R[i].previous) <= i
    BY <1>6, <1>9
  <2> QED BY <1>1, <1>3, <1>7, <1>10, <2>1, OutputBound
<1>12. N \in 1..N
  BY <1>1
<1>13. R[N].output = FlattenSeq(p)
  <2>1. Joins(R, N)
    BY <1>1, <1>2, <1>12, OutputJoins
  <2> QED BY <1>5, <2>1, Zenon DEF Joins
<1>14. R[N].corrupt = FALSE
  <2>1. N > 1 \/ N = 1
    BY <1>1
  <2> QED BY <1>4, <1>7, <1>12, <2>1 DEF AddsMeaning
<1>15. Restores(R[N], codes, N)
  BY <1>6, <1>8, <1>11, <1>13, <1>14 DEF Restores
<1> QED BY <1>2, <1>15

(* ... and any other is refused.                                           *)
LEMMA UnsoundIsRefused ==
  ASSUME NEW codes \in Seq(0..MaxCode), codes # <<>>, codes[1] \in Bytes,
         NEW N, N = Len(codes), ~Sound(codes, N)
  PROVE  Read(codes[1], Tail(codes)).corrupt = TRUE
<1>1. Stream(codes, N) /\ N \in 1..N
  BY StreamParts DEF Stream
<1>2. PICK R : Reads(R, codes, N) /\ R[N] = Read(codes[1], Tail(codes))
  BY ReadsExist
<1>3. KeepsUp(R, codes, N)
  BY <1>1, <1>2, FollowsStream
<1> QED BY <1>2, <1>3 DEF KeepsUp

(* The model's meaning of a sound stream is the joined phrases.            *)
LEMMA MeaningOfStream ==
  ASSUME NEW codes \in Seq(0..MaxCode), codes # <<>>, codes[1] \in Bytes,
         NEW N, N = Len(codes), Sound(codes, N),
         NEW p \in [1..N -> Phrases], \A i \in 1..N : Means(p, codes, i)
  PROVE  LzwMeaning(codes) = Restored(FlattenSeq(p))
<1>1. Stream(codes, N) /\ DOMAIN codes = 1..N /\ codes[1] < Symbols
  <2>1. DOMAIN codes = 1..N
    BY LenProperties
  <2>2. codes[1] < Symbols
    BY CodecsAssumption DEF Bytes
  <2> QED BY <2>1, <2>2, StreamParts
<1> DEFINE at(i) == codes[i] - Symbols + 1
           Sol(g) == g = [i \in DOMAIN codes |->
                            IF codes[i] < Symbols THEN <<codes[i]>>
                            ELSE Append(g[at(i)], Head(g[IF at(i) + 1 = i THEN at(i) ELSE at(i) + 1]))]
           phrase == CHOOSE g : Sol(g)
           defined == codes = <<>> \/
             (codes[1] < Symbols /\ \A i \in DOMAIN codes : codes[i] >= Symbols => at(i) < i)
<1>2. Sol(p)
  <2>1. \A i \in 1..N : p[i] = IF codes[i] < Symbols THEN <<codes[i]>>
                               ELSE Append(p[at(i)], Head(p[IF at(i) + 1 = i THEN at(i) ELSE at(i) + 1]))
    BY Zenon DEF Means, Place
  <2>2. p = [i \in 1..N |-> p[i]]
    OBVIOUS
  <2> QED BY <1>1, <2>1, <2>2, Zenon
<1>3. Sol(phrase)
  <2> HIDE DEF Sol
  <2> QED BY <1>2
<1>4. defined
  BY <1>1 DEF Sound, NamesEarlier, Place
<1>5. LzwMeaning(codes) = IF defined THEN Restored(FlattenSeq([i \in DOMAIN codes |-> phrase[i]])) ELSE Corrupt
  BY DEF LzwMeaning
<1> HIDE DEF phrase
<1>6. \A i \in 1..N : Means(phrase, codes, i)
  BY <1>1, <1>3, Zenon DEF Means, Place
<1>7. \A i \in 1..N : phrase[i] = p[i]
  BY <1>1, <1>6, MeaningIsUnique
<1>8. [i \in DOMAIN codes |-> phrase[i]] = p
  <2>1. [i \in 1..N |-> phrase[i]] = [i \in 1..N |-> p[i]]
    BY <1>7
  <2>2. p = [i \in 1..N |-> p[i]]
    OBVIOUS
  <2> QED BY <1>1, <2>1, <2>2, Zenon
<1> QED BY <1>4, <1>5, <1>8, Zenon

(* The other streams mean nothing, and the empty one an empty file.        *)
LEMMA MeaningElse ==
  ASSUME NEW codes \in Seq(0..MaxCode), codes # <<>>,
         NEW N, N = Len(codes), ~(codes[1] < Symbols) \/ ~Sound(codes, N)
  PROVE  LzwMeaning(codes) = Corrupt
<1>1. DOMAIN codes = 1..N
  BY LenProperties
<1>2. \A i \in 1..N : codes[i] \in Nat
  BY StreamParts DEF Stream
<1> DEFINE defined == codes = <<>> \/
             (codes[1] < Symbols /\ \A i \in DOMAIN codes : codes[i] >= Symbols => codes[i] - Symbols + 1 < i)
<1>3. ~defined
  BY <1>1, <1>2 DEF Sound, NamesEarlier, Place
<1>4. \E x : LzwMeaning(codes) = IF defined THEN x ELSE Corrupt
  BY DEF LzwMeaning
<1> HIDE DEF defined
<1> QED BY <1>3, <1>4

(* The empty stream stands for no bytes.                                   *)
LEMMA MeaningOfNothing == LzwMeaning(<<>>) = Restored(<<>>)
<1>1. DOMAIN <<>> = {}
  OBVIOUS
<1>2. \A g : [i \in {} |-> g[i]] = <<>>
  OBVIOUS
<1>3. \E g : LzwMeaning(<<>>) = Restored(FlattenSeq([i \in DOMAIN <<>> |-> g[i]]))
  BY DEF LzwMeaning
<1>4. LzwMeaning(<<>>) = Restored(FlattenSeq(<<>>))
  BY <1>1, <1>2, <1>3, Zenon
<1> QED BY <1>4, FlattenEmpty, Zenon

(* The decoder's result.                                                   *)
LEMMA DecompressIs ==
  ASSUME NEW codes \in Seq(0..MaxCode), codes # <<>>, codes[1] \in Bytes, NEW limit,
         NEW d, d = Read(codes[1], Tail(codes))
  PROVE  LzwDecompress(codes, limit) =
           IF d.corrupt \/ (Len(codes) > 1 /\ Len(d.output) > limit) THEN Corrupt ELSE Restored(d.output)
<1>1. Head(codes) = codes[1] /\ Tail(codes) \in Seq(Nat)
  BY StreamParts
<1>2. ~(Head(codes) >= Symbols)
  BY <1>1, CodecsAssumption DEF Bytes
<1>3. PICK c, t : c = Head(codes) /\ t = Tail(codes)
  OBVIOUS
<1>4. FoldLeft(LzwRead, [dictionary |-> <<>>, previous |-> <<c>>, output |-> <<c>>, corrupt |-> FALSE], t)
        = Folded(ReadF, Reading(c), t)
  BY <1>1, <1>3, ReadingIsFolded
<1>5. d = Folded(ReadF, Reading(c), t)
  BY <1>1, <1>3, Zenon DEF Read
<1> QED BY <1>2, <1>3, <1>4, <1>5, Zenon DEF LzwDecompress

(* The decoder's result is the meaning of the stream.                      *)
LEMMA StreamMeans ==
  ASSUME NEW codes \in Seq(0..MaxCode), Len(codes) <= MaxCodes
  PROVE  LzwDecompress(codes, MaxCodes * MaxCodes) = LzwMeaning(codes)
<1>1. CASE codes = <<>>
  <2>1. LzwDecompress(codes, MaxCodes * MaxCodes) = Restored(<<>>)
    BY <1>1 DEF LzwDecompress
  <2> QED BY <1>1, <2>1, MeaningOfNothing, Zenon
<1>2. CASE codes # <<>> /\ codes[1] >= Symbols
  <2>1. Head(codes) >= Symbols
    BY <1>2, StreamParts
  <2>2. LzwDecompress(codes, MaxCodes * MaxCodes) = Corrupt
    BY <1>2, <2>1, Zenon DEF LzwDecompress
  <2>3. ~(codes[1] < Symbols)
    <3>1. codes[1] \in Nat
      BY <1>2, StreamParts DEF Stream
    <3> QED BY <1>2, <3>1, CodecsAssumption
  <2>4. LzwMeaning(codes) = Corrupt
    BY <1>2, <2>3, MeaningElse
  <2> QED BY <2>2, <2>4
<1>3. CASE codes # <<>> /\ ~(codes[1] >= Symbols)
  <2>1. codes[1] \in Bytes
    <3>1. codes[1] \in Nat
      BY <1>3, StreamParts DEF Stream
    <3> QED BY <1>3, <3>1, CodecsAssumption DEF Bytes
  <2>2. PICK N : N = Len(codes)
    OBVIOUS
  <2>3. PICK d : d = Read(codes[1], Tail(codes))
    OBVIOUS
  <2>4. PICK limit : limit = MaxCodes * MaxCodes
    OBVIOUS
  <2>5. LzwDecompress(codes, limit) =
          IF d.corrupt \/ (Len(codes) > 1 /\ Len(d.output) > limit) THEN Corrupt ELSE Restored(d.output)
    BY <1>3, <2>1, <2>3, DecompressIs
  <2>6. CASE Sound(codes, N)
    <3>1. Restores(d, codes, N)
      BY <1>3, <2>1, <2>2, <2>3, <2>6, SoundIsRestored
    <3>2. PICK p \in [1..N -> Phrases] : (\A i \in 1..N : Means(p, codes, i)) /\ d.output = FlattenSeq(p)
      BY <3>1 DEF Restores
    <3>3. LzwMeaning(codes) = Restored(FlattenSeq(p))
      BY <1>3, <2>1, <2>2, <2>6, <3>2, MeaningOfStream
    <3>4. ~(Len(d.output) > limit)
      <4>1. N \in Nat /\ N <= MaxCodes /\ MaxCodes \in Nat
        BY <2>2, CodecsAssumption, LenProperties
      <4>2. PICK k : k = Len(d.output)
        OBVIOUS
      <4>3. k \in Nat /\ k <= N * N
        BY <3>1, <4>2, Zenon DEF Restores
      <4>4. N * N <= limit
        BY <2>4, <4>1, SquareGrows
      <4>5. limit \in Nat /\ N * N \in Nat
        BY <2>4, <4>1
      <4> QED BY <4>2, <4>3, <4>4, <4>5
    <3>5. d.corrupt = FALSE
      BY <3>1 DEF Restores
    <3>6. LzwDecompress(codes, limit) = Restored(d.output)
      BY <2>5, <3>4, <3>5
    <3> QED BY <2>4, <3>2, <3>3, <3>6, Zenon
  <2>7. CASE ~Sound(codes, N)
    <3>1. d.corrupt = TRUE
      BY <1>3, <2>1, <2>2, <2>3, <2>7, UnsoundIsRefused
    <3>2. LzwMeaning(codes) = Corrupt
      BY <1>3, <2>2, <2>7, MeaningElse
    <3> QED BY <2>4, <2>5, <3>1, <3>2
  <2> QED BY <2>6, <2>7
<1> QED BY <1>1, <1>2, <1>3

(* On every stream of codes, also one that no encoder writes, the decoder  *)
(* of lzw.py restores what the codes mean, or refuses the stream.          *)
THEOREM MeaningTheorem == Spec => []LzwDecodesMeaning
<1>1. InputInv => LzwDecodesMeaning
  <2> SUFFICES ASSUME InputInv, kind = "lzw" PROVE LzwDecodesMeaning
    BY DEF LzwDecodesMeaning
  <2>1. input \in Seq(0..MaxCode) /\ Len(input) <= MaxCodes
    BY DEF InputInv
  <2>2. LzwDecompress(input, MaxCodes * MaxCodes) = LzwMeaning(input)
    BY <2>1, StreamMeans
  <2> QED BY <2>2, Zenon DEF LzwDecodesMeaning
<1> QED BY <1>1, InputsHold, PTL

-----------------------------------------------------------------------------
(* Huffman: levels.  L[a] is how far below the root a is, and P holds the  *)
(* powers of 2: a member takes the share P[M - L[a]] of the whole, P[M],   *)
(* and the levels are affordable if the shares fit into the whole.         *)

Powers(P, M) == P \in [0..M -> Nat] /\ P[0] = 1 /\ \A n \in 1..M : P[n] = 2 * P[n - 1]
Share(P, M, L) == [a \in DOMAIN L |-> P[M - L[a]]]
Affords(P, M, L, T) == IsFiniteSet(T) /\ L \in [T -> 0..M] /\ SumOver(Share(P, M, L), T) <= P[M]
Costs(w, L) == [a \in DOMAIN L |-> w[a] * L[a]]
Bill(w, L, T) == SumOver(Costs(w, L), T)

(* Powers are positive ...                                                 *)
LEMMA PowersPositive ==
  ASSUME NEW M \in Nat, NEW P, Powers(P, M)
  PROVE  \A n \in 0..M : P[n] \in Nat /\ P[n] >= 1
<1> DEFINE S == {n \in Nat : n <= M => P[n] \in Nat /\ P[n] >= 1}
<1>0. P[0] = 1 /\ \A n \in 1..M : P[n] = 2 * P[n - 1]
  BY DEF Powers
<1>1. 0 \in S
  BY <1>0
<1>2. ASSUME NEW n \in Nat, n \in S PROVE n + 1 \in S
  <2> SUFFICES ASSUME n + 1 <= M PROVE P[n + 1] \in Nat /\ P[n + 1] >= 1
    OBVIOUS
  <2>1. n + 1 \in 1..M /\ (n + 1) - 1 = n /\ n <= M
    OBVIOUS
  <2>2. P[n] \in Nat /\ P[n] >= 1
    BY <1>2, <2>1
  <2>3. P[n + 1] = 2 * P[n]
    BY <1>0, <2>1
  <2> QED BY <2>2, <2>3
<1>3. Nat \subseteq S
  <2> HIDE DEF S
  <2> QED BY <1>1, <1>2, SetInduction
<1> QED BY <1>3

(* Twice a multiple is a multiple.                                         *)
LEMMA Doubled ==
  ASSUME NEW q \in Nat, NEW k \in Nat
  PROVE  2 * (q * k) = (2 * q) * k
OBVIOUS

(* ... and each divides the later ones.                                    *)
LEMMA PowersDivide ==
  ASSUME NEW M \in Nat, NEW P, Powers(P, M), NEW j \in 0..M, NEW i \in 0..M, j <= i
  PROVE  \E q \in Nat : P[i] = q * P[j]
<1> DEFINE S == {n \in Nat : j + n <= M => \E q \in Nat : P[j + n] = q * P[j]}
<1>0. P[j] \in Nat /\ \A n \in 1..M : P[n] = 2 * P[n - 1]
  BY PowersPositive DEF Powers
<1>1. 0 \in S
  <2>1. P[j + 0] = 1 * P[j]
    BY <1>0
  <2> QED BY <2>1
<1>2. ASSUME NEW n \in Nat, n \in S PROVE n + 1 \in S
  <2> SUFFICES ASSUME j + (n + 1) <= M PROVE \E q \in Nat : P[j + (n + 1)] = q * P[j]
    OBVIOUS
  <2>1. j + (n + 1) \in 1..M /\ (j + (n + 1)) - 1 = j + n /\ j + n <= M
    OBVIOUS
  <2>2. PICK q \in Nat : P[j + n] = q * P[j]
    BY <1>2, <2>1
  <2>3. P[j + (n + 1)] = 2 * P[j + n]
    BY <1>0, <2>1
  <2>4. 2 * (q * P[j]) = (2 * q) * P[j]
    BY <1>0, Doubled
  <2>5. 2 * q \in Nat
    OBVIOUS
  <2> QED BY <2>2, <2>3, <2>4, <2>5
<1>3. Nat \subseteq S
  <2> HIDE DEF S
  <2> QED BY <1>1, <1>2, SetInduction
<1>4. PICK d \in Nat : i = j + d
  <2>1. i - j \in Nat /\ i = j + (i - j)
    OBVIOUS
  <2> QED BY <2>1
<1>5. d \in S
  BY <1>3
<1> QED BY <1>4, <1>5

(* The shares and the bills of levels are numbers.                         *)
LEMMA LevelsWeigh ==
  ASSUME NEW M \in Nat, NEW P, Powers(P, M), NEW T, IsFiniteSet(T), NEW L \in [T -> 0..M], NEW w \in [T -> Nat]
  PROVE  /\ Weighs(Share(P, M, L), T) /\ Weighs(Costs(w, L), T) /\ Weighs(L, T)
         /\ \A a \in T : Share(P, M, L)[a] = P[M - L[a]] /\ Costs(w, L)[a] = w[a] * L[a]
<1>1. \A a \in T : M - L[a] \in 0..M /\ L[a] \in Nat /\ w[a] \in Nat
  OBVIOUS
<1>2. \A a \in T : P[M - L[a]] \in Nat
  BY <1>1, PowersPositive
<1>3. \A a \in T : w[a] * L[a] \in Nat
  BY <1>1
<1>4. \A a \in T : Share(P, M, L)[a] = P[M - L[a]] /\ Costs(w, L)[a] = w[a] * L[a]
  BY DEF Share, Costs
<1> QED BY <1>1, <1>2, <1>3, <1>4 DEF Weighs

\* The sum of w over T is that over r and the weights of a and b.
WithoutTwo(w, T, a, b, r) ==
  /\ SumOver(w, T) = w[a] + w[b] + SumOver(w, r)
  /\ Weighs(w, r) /\ SumOver(w, r) \in Nat /\ w[a] \in Nat /\ w[b] \in Nat

(* Two members can be taken out of a sum.                                  *)
LEMMA SumTwo ==
  ASSUME NEW w, NEW T, Weighs(w, T), NEW a \in T, NEW b \in T, a # b
  PROVE  WithoutTwo(w, T, a, b, T \ {a, b})
<1>1. PICK u : u = T \ {a}
  OBVIOUS
<1>2. Weighs(w, u) /\ b \in u /\ u \ {b} = T \ {a, b}
  BY <1>1, WeighsPart
<1>3. SumOver(w, T) = w[a] + SumOver(w, u)
  BY <1>1, SumTake
<1>4. SumOver(w, u) = w[b] + SumOver(w, T \ {a, b})
  BY <1>2, SumTake
<1>5. Weighs(w, T \ {a, b})
  BY WeighsPart
<1>6. SumOver(w, T \ {a, b}) \in Nat
  BY <1>5, SumType
<1>7. w[a] \in Nat /\ w[b] \in Nat
  BY DEF Weighs
<1> QED BY <1>3, <1>4, <1>5, <1>6, <1>7 DEF WithoutTwo

\* The levels L with those of a and b exchanged.
Exchanged(L, a, b) == [x \in DOMAIN L |-> IF x = a THEN L[b] ELSE IF x = b THEN L[a] ELSE L[x]]

(* The smaller number is better multiplied by the larger one.              *)
LEMMA Crossing ==
  ASSUME NEW u \in Nat, NEW v \in Nat, NEW m \in Nat, NEW n \in Nat, u <= v, m <= n
  PROVE  u * n + v * m <= u * m + v * n
<1>1. PICK d \in Nat, e \in Nat : v = u + d /\ n = m + e
  <2>1. v - u \in Nat /\ n - m \in Nat /\ v = u + (v - u) /\ n = m + (n - m)
    OBVIOUS
  <2> QED BY <2>1
<1>2. d * e >= 0
  OBVIOUS
<1>3. u * (m + e) + (u + d) * m = u * m + u * e + u * m + d * m
  OBVIOUS
<1>4. u * m + (u + d) * (m + e) = u * m + u * m + u * e + d * m + d * e
  OBVIOUS
<1>5. u * m \in Nat /\ u * e \in Nat /\ d * m \in Nat /\ d * e \in Nat
  OBVIOUS
<1>6. u * n + v * m = u * m + u * e + u * m + d * m
  BY <1>1, <1>3
<1>7. u * m + v * n = u * m + u * m + u * e + d * m + d * e
  BY <1>1, <1>4
<1> QED BY <1>5, <1>6, <1>7

\* L2 is as good as L for the weights w.
NoWorse(P, M, w, L2, L, T) == Affords(P, M, L2, T) /\ Bill(w, L2, T) <= Bill(w, L, T)

(* Exchanging levels so that the lighter member goes deeper saves bits.    *)
LEMMA ExchangeSaves ==
  ASSUME NEW M \in Nat, NEW P, Powers(P, M), NEW T, NEW L, Affords(P, M, L, T), NEW w \in [T -> Nat],
         NEW a \in T, NEW b \in T, w[a] <= w[b], L[a] <= L[b]
  PROVE  NoWorse(P, M, w, Exchanged(L, a, b), L, T)
<1>0. IsFiniteSet(T) /\ L \in [T -> 0..M] /\ SumOver(Share(P, M, L), T) <= P[M]
  BY DEF Affords
<1>1. PICK K : K = Exchanged(L, a, b)
  OBVIOUS
<1>2. K \in [T -> 0..M] /\ K[a] = L[b] /\ K[b] = L[a] /\ \A x \in T \ {a, b} : K[x] = L[x]
  BY <1>0, <1>1 DEF Exchanged
<1>3. CASE a = b
  <2>1. K = L
    BY <1>0, <1>1, <1>3 DEF Exchanged
  <2>2. Bill(w, L, T) \in Nat
    BY <1>0, LevelsWeigh, SumType DEF Bill
  <2> QED BY <1>1, <2>1, <2>2 DEF NoWorse
<1>4. CASE a # b
  <2>1. PICK r : r = T \ {a, b}
    OBVIOUS
  <2>2. PICK s, t, u, v : s = Share(P, M, L) /\ t = Share(P, M, K) /\ u = Costs(w, L) /\ v = Costs(w, K)
    OBVIOUS
  <2>3. /\ Weighs(s, T) /\ Weighs(u, T) /\ \A x \in T : s[x] = P[M - L[x]] /\ u[x] = w[x] * L[x]
    BY <1>0, <2>2, LevelsWeigh
  <2>4. /\ Weighs(t, T) /\ Weighs(v, T) /\ \A x \in T : t[x] = P[M - K[x]] /\ v[x] = w[x] * K[x]
    BY <1>0, <1>2, <2>2, LevelsWeigh
  <2>5. /\ SumOver(s, T) = s[a] + s[b] + SumOver(s, r) /\ SumOver(u, T) = u[a] + u[b] + SumOver(u, r)
        /\ Weighs(s, r) /\ Weighs(u, r) /\ SumOver(s, r) \in Nat /\ SumOver(u, r) \in Nat
        /\ s[a] \in Nat /\ s[b] \in Nat /\ u[a] \in Nat /\ u[b] \in Nat
    <3>1. WithoutTwo(s, T, a, b, r)
      BY <1>4, <2>1, <2>3, SumTwo
    <3>2. WithoutTwo(u, T, a, b, r)
      BY <1>4, <2>1, <2>3, SumTwo
    <3> QED BY <3>1, <3>2 DEF WithoutTwo
  <2>6. /\ SumOver(t, T) = t[a] + t[b] + SumOver(t, r) /\ SumOver(v, T) = v[a] + v[b] + SumOver(v, r)
        /\ t[a] \in Nat /\ t[b] \in Nat /\ v[a] \in Nat /\ v[b] \in Nat
    <3>1. WithoutTwo(t, T, a, b, r)
      BY <1>4, <2>1, <2>4, SumTwo
    <3>2. WithoutTwo(v, T, a, b, r)
      BY <1>4, <2>1, <2>4, SumTwo
    <3> QED BY <3>1, <3>2 DEF WithoutTwo
  <2>7. SameWeights(s, t, r) /\ SameWeights(u, v, r)
    <3>1. \A x \in r : x \in T /\ K[x] = L[x]
      BY <1>2, <2>1
    <3> QED BY <2>3, <2>4, <3>1 DEF SameWeights
  <2>8. SumOver(s, r) = SumOver(t, r)
    BY <2>5, <2>7, SumSame
  <2>9. SumOver(u, r) = SumOver(v, r)
    BY <2>5, <2>7, SumSame
  <2>10. t[a] = s[b] /\ t[b] = s[a]
    BY <1>2, <2>3, <2>4
  <2>11. SumOver(t, T) = SumOver(s, T)
    BY <2>5, <2>6, <2>8, <2>10
  <2>12. v[a] + v[b] <= u[a] + u[b]
    <3>1. PICK i \in Nat, j \in Nat, m \in Nat, n \in Nat : i = w[a] /\ j = w[b] /\ m = L[a] /\ n = L[b]
      BY <1>0
    <3>2. i * n + j * m <= i * m + j * n
      BY <3>1, Crossing
    <3>3. v[a] = i * n /\ v[b] = j * m /\ u[a] = i * m /\ u[b] = j * n
      BY <1>2, <2>3, <2>4, <3>1
    <3> QED BY <3>2, <3>3
  <2>13. SumOver(v, T) <= SumOver(u, T)
    BY <2>5, <2>6, <2>9, <2>12
  <2> QED BY <1>0, <1>1, <1>2, <2>2, <2>11, <2>13 DEF NoWorse, Affords, Bill
<1> QED BY <1>3, <1>4

(* Some member is deepest.                                                 *)
LEMMA Deepest ==
  ASSUME NEW M \in Nat, NEW T, IsFiniteSet(T), T # {}, NEW L \in [T -> 0..M]
  PROVE  \E x \in T : \A y \in T : L[y] <= L[x]
<1> DEFINE Q == {s \in SUBSET T : s # {} => \E x \in s : \A y \in s : L[y] <= L[x]}
<1>1. {} \in Q
  OBVIOUS
<1>2. ASSUME NEW s \in SUBSET T, NEW x \in T \ s, s \in Q PROVE s \cup {x} \in Q
  <2>1. CASE s = {}
    BY <2>1
  <2>2. CASE s # {}
    <3>1. PICK z \in s : \A y \in s : L[y] <= L[z]
      BY <1>2, <2>2
    <3>2. \A y \in T : L[y] \in Nat
      OBVIOUS
    <3>3. CASE L[x] <= L[z]
      BY <3>1, <3>3
    <3>4. CASE ~(L[x] <= L[z])
      <4>1. \A y \in s \cup {x} : L[y] <= L[x]
        BY <3>1, <3>2, <3>4
      <4> QED BY <4>1
    <3> QED BY <3>3, <3>4
  <2> QED BY <2>1, <2>2
<1>3. T \in Q
  <2> HIDE DEF Q
  <2> QED BY <1>1, <1>2, SubsetInduction
<1> QED BY <1>3

\* Two members are at the deepest level.
Twins(L, T, x, y) == x \in T /\ y \in T /\ x # y /\ L[x] = L[y] /\ L[x] >= 1 /\ \A z \in T : L[z] <= L[x]

(* Where q js and half a j fit into c js, q + 1 js do.                     *)
LEMMA RoomForOne ==
  ASSUME NEW q \in Nat, NEW c \in Nat, NEW k \in Nat, k >= 1, NEW j, j = 2 * k, k + q * j <= c * j
  PROVE  j + q * j <= c * j
<1>1. CASE q >= c
  <2>1. PICK d \in Nat : q = c + d
    <3>1. q - c \in Nat /\ q = c + (q - c)
      BY <1>1
    <3> QED BY <3>1
  <2>2. c * j + d * j = (c + d) * j
    BY MultiplesAdd
  <2>3. d * j \in Nat /\ c * j \in Nat
    OBVIOUS
  <2> QED BY <2>1, <2>2, <2>3
<1>2. CASE ~(q >= c)
  <2>1. PICK d \in Nat : c = d + (q + 1)
    <3>1. c - (q + 1) \in Nat /\ c = (c - (q + 1)) + (q + 1)
      BY <1>2
    <3> QED BY <3>1
  <2>2. d * j + (q + 1) * j = (d + (q + 1)) * j
    BY MultiplesAdd
  <2>3. 1 * j + q * j = (1 + q) * j /\ 1 + q = q + 1 /\ 1 * j = j
    BY MultiplesAdd
  <2>4. d * j \in Nat /\ q * j \in Nat
    OBVIOUS
  <2> QED BY <2>1, <2>2, <2>3, <2>4
<1> QED BY <1>1, <1>2

\* The levels L with x one level higher.
Raised(L, x) == [y \in DOMAIN L |-> IF y = x THEN L[x] - 1 ELSE L[y]]

(* A member that is alone at the deepest level can be raised: the others'  *)
(* shares and the whole are multiples of twice its share, so that there is *)
(* room for its share once more.                                           *)
LEMMA AloneIsRaised ==
  ASSUME NEW M \in Nat, NEW P, Powers(P, M), NEW T, NEW L, Affords(P, M, L, T), NEW w \in [T -> Nat],
         NEW x \in T, NEW y \in T, x # y, \A z \in T : z # x => L[z] < L[x]
  PROVE  NoWorse(P, M, w, Raised(L, x), L, T) /\ SumOver(Raised(L, x), T) < SumOver(L, T)
<1>0. IsFiniteSet(T) /\ L \in [T -> 0..M] /\ SumOver(Share(P, M, L), T) <= P[M]
  BY DEF Affords
<1>1. PICK K : K = Raised(L, x)
  OBVIOUS
<1>2. PICK D \in Nat : D = L[x] /\ D <= M /\ D >= 1 /\ M - D \in 0..M /\ M - (D - 1) \in 0..M
  <2>1. L[y] \in Nat /\ L[y] < L[x] /\ L[x] \in 0..M
    BY <1>0
  <2> QED BY <2>1
<1>3. K \in [T -> 0..M] /\ K[x] = D - 1 /\ \A z \in T \ {x} : K[z] = L[z]
  BY <1>0, <1>1, <1>2 DEF Raised
<1>4. PICK r : r = T \ {x}
  OBVIOUS
<1>5. PICK s, t, u, v : s = Share(P, M, L) /\ t = Share(P, M, K) /\ u = Costs(w, L) /\ v = Costs(w, K)
  OBVIOUS
<1>6. /\ Weighs(s, T) /\ Weighs(u, T) /\ Weighs(L, T)
      /\ \A z \in T : s[z] = P[M - L[z]] /\ u[z] = w[z] * L[z]
  BY <1>0, <1>5, LevelsWeigh
<1>7. /\ Weighs(t, T) /\ Weighs(v, T) /\ Weighs(K, T)
      /\ \A z \in T : t[z] = P[M - K[z]] /\ v[z] = w[z] * K[z]
  BY <1>0, <1>3, <1>5, LevelsWeigh
<1>8. SameWeights(s, t, r) /\ SameWeights(u, v, r) /\ SameWeights(L, K, r)
  <2>1. \A z \in r : z \in T /\ K[z] = L[z]
    BY <1>3, <1>4
  <2> QED BY <1>6, <1>7, <2>1 DEF SameWeights
<1>9. Weighs(s, r) /\ Weighs(u, r) /\ Weighs(L, r)
  <2>1. r \subseteq T
    BY <1>4
  <2> QED BY <1>6, <2>1, WeighsPart
<1>10. SumOver(s, r) = SumOver(t, r) /\ SumOver(s, r) \in Nat
  BY <1>8, <1>9, SumSame, SumType
<1>11. SumOver(u, r) = SumOver(v, r) /\ SumOver(u, r) \in Nat
  BY <1>8, <1>9, SumSame, SumType
<1>12. SumOver(L, r) = SumOver(K, r) /\ SumOver(L, r) \in Nat
  BY <1>8, <1>9, SumSame, SumType
<1>13. SumOver(s, T) = s[x] + SumOver(s, r)
  BY <1>4, <1>6, SumTake
<1>14. SumOver(t, T) = t[x] + SumOver(s, r)
  BY <1>4, <1>7, <1>10, SumTake
<1>15. SumOver(u, T) = u[x] + SumOver(u, r)
  BY <1>4, <1>6, SumTake
<1>16. SumOver(v, T) = v[x] + SumOver(u, r)
  BY <1>4, <1>7, <1>11, SumTake
<1>17. SumOver(K, T) < SumOver(L, T)
  <2>1. SumOver(L, T) = L[x] + SumOver(L, r)
    BY <1>4, <1>6, SumTake
  <2>2. SumOver(K, T) = K[x] + SumOver(L, r)
    BY <1>4, <1>7, <1>12, SumTake
  <2> QED BY <1>2, <1>3, <1>12, <2>1, <2>2
<1>18. SumOver(v, T) <= SumOver(u, T)
  <2>1. PICK a \in Nat : a = w[x]
    OBVIOUS
  <2>2. u[x] = a * D /\ v[x] = a * (D - 1)
    BY <1>2, <1>3, <1>6, <1>7, <2>1
  <2>3. a * (D - 1) <= a * D /\ a * (D - 1) \in Nat /\ a * D \in Nat
    <3>1. PICK e \in Nat : D = e + 1 /\ D - 1 = e
      BY <1>2
    <3>2. a * (e + 1) = a * e + a
      OBVIOUS
    <3>3. a * e \in Nat
      OBVIOUS
    <3> QED BY <3>1, <3>2, <3>3
  <2> QED BY <1>11, <1>15, <1>16, <2>2, <2>3
<1>19. SumOver(t, T) <= P[M]
  <2>1. PICK k \in Nat, j \in Nat : k = P[M - D] /\ j = P[M - (D - 1)] /\ k >= 1
    BY <1>2, PowersPositive
  <2>2. j = 2 * k
    <3>1. M - (D - 1) \in 1..M /\ (M - (D - 1)) - 1 = M - D
      BY <1>2
    <3> QED BY <2>1, <3>1 DEF Powers
  <2>3. s[x] = k /\ t[x] = j
    BY <1>2, <1>3, <1>6, <1>7, <2>1
  <2>4. Multiples(s, r, j)
    <3>1. ASSUME NEW z \in r PROVE \E q \in Nat : s[z] = q * j
      <4>1. PICK i \in 0..M, n \in 0..M : i = M - L[z] /\ n = M - (D - 1) /\ n <= i
        <5>1. L[z] < D /\ L[z] \in 0..M
          BY <1>0, <1>2, <1>4
        <5> QED BY <1>2, <5>1
      <4>2. \E q \in Nat : P[i] = q * P[n]
        BY <4>1, PowersDivide
      <4> QED BY <1>4, <1>6, <2>1, <4>1, <4>2
    <3> QED BY <3>1 DEF Multiples
  <2>5. PICK q \in Nat : SumOver(s, r) = q * j
    BY <1>9, <2>4, SumOfMultiples
  <2>6. PICK c \in Nat : P[M] = c * j
    <3>1. PICK n \in 0..M : n = M - (D - 1) /\ M \in 0..M /\ n <= M
      BY <1>2
    <3>2. \E c \in Nat : P[M] = c * P[n]
      BY <3>1, PowersDivide
    <3> QED BY <2>1, <3>1, <3>2
  <2>7. k + q * j <= c * j
    BY <1>0, <1>5, <1>13, <2>3, <2>5, <2>6
  <2>8. j + q * j <= c * j
    BY <2>1, <2>2, <2>7, RoomForOne
  <2> QED BY <1>14, <2>3, <2>5, <2>6, <2>8
<1>20. NoWorse(P, M, w, K, L, T)
  BY <1>0, <1>3, <1>5, <1>18, <1>19 DEF NoWorse, Affords, Bill
<1> QED BY <1>1, <1>17, <1>20

(* Two members cannot both be at the root.                                 *)
LEMMA BelowRoot ==
  ASSUME NEW M \in Nat, NEW P, Powers(P, M), NEW T, NEW L, Affords(P, M, L, T),
         NEW x \in T, NEW y \in T, x # y, \A z \in T : L[z] <= L[x]
  PROVE  L[x] >= 1
<1>0. IsFiniteSet(T) /\ L \in [T -> 0..M] /\ SumOver(Share(P, M, L), T) <= P[M]
  BY DEF Affords
<1>1. SUFFICES ASSUME L[x] = 0 PROVE FALSE
  BY <1>0
<1>2. L[y] = 0
  BY <1>0, <1>1
<1>3. PICK s : s = Share(P, M, L)
  OBVIOUS
<1>4. PICK w : w = [z \in T |-> 0]
  OBVIOUS
<1>5. w \in [T -> Nat]
  BY <1>4
<1>6. Weighs(s, T) /\ \A z \in T : s[z] = P[M - L[z]]
  BY <1>0, <1>3, <1>5, LevelsWeigh
<1>7. WithoutTwo(s, T, x, y, T \ {x, y})
  BY <1>6, SumTwo
<1>8. s[x] = P[M] /\ s[y] = P[M]
  <2>1. M - 0 = M
    OBVIOUS
  <2> QED BY <1>1, <1>2, <1>6, <2>1
<1>9. P[M] \in Nat /\ P[M] >= 1
  BY PowersPositive
<1> QED BY <1>0, <1>3, <1>7, <1>8, <1>9 DEF WithoutTwo

\* Levels as good as L, with two members at the deepest.
TwinLevels(P, M, w, L2, L, T) == NoWorse(P, M, w, L2, L, T) /\ \E x, y \in T : Twins(L2, T, x, y)

(* Levels no worse than any exist that have twins at the deepest.          *)
LEMMA TwinsExist ==
  ASSUME NEW M \in Nat, NEW P, Powers(P, M), NEW T, NEW a \in T, NEW b \in T, a # b, NEW w \in [T -> Nat],
         NEW L, Affords(P, M, L, T)
  PROVE  \E L2 : TwinLevels(P, M, w, L2, L, T)
<1> DEFINE Claim(K) == \E L2 : TwinLevels(P, M, w, L2, K, T)
           S == {n \in Nat : \A K : Affords(P, M, K, T) /\ SumOver(K, T) < n => Claim(K)}
<1>0. ASSUME NEW K, Affords(P, M, K, T)
      PROVE  /\ IsFiniteSet(T) /\ K \in [T -> 0..M] /\ Weighs(K, T)
             /\ SumOver(K, T) \in Nat /\ Bill(w, K, T) \in Nat
  <2>1. IsFiniteSet(T) /\ K \in [T -> 0..M]
    BY <1>0 DEF Affords
  <2>2. Weighs(K, T) /\ Weighs(Costs(w, K), T)
    BY <2>1, LevelsWeigh
  <2>3. SumOver(K, T) \in Nat /\ SumOver(Costs(w, K), T) \in Nat
    BY <2>2, SumType
  <2> QED BY <2>1, <2>2, <2>3 DEF Bill
<1>1. 0 \in S
  <2>1. ASSUME NEW K, Affords(P, M, K, T), SumOver(K, T) < 0 PROVE FALSE
    BY <1>0, <2>1
  <2> QED BY <2>1
<1>2. ASSUME NEW n \in Nat, n \in S PROVE n + 1 \in S
  <2> SUFFICES ASSUME NEW K, Affords(P, M, K, T), SumOver(K, T) < n + 1 PROVE Claim(K)
    OBVIOUS
  <2>1. IsFiniteSet(T) /\ K \in [T -> 0..M] /\ SumOver(K, T) \in Nat /\ Bill(w, K, T) \in Nat
    BY <1>0
  <2>2. PICK x \in T : \A z \in T : K[z] <= K[x]
    <3>1. T # {}
      OBVIOUS
    <3> QED BY <2>1, <3>1, Deepest
  <2>3. PICK c \in T : c # x
    OBVIOUS
  <2>4. K[x] >= 1
    BY <2>2, <2>3, BelowRoot
  <2>5. CASE \E y \in T : y # x /\ K[y] = K[x]
    <3>1. PICK y \in T : y # x /\ K[y] = K[x]
      BY <2>5
    <3>2. Twins(K, T, x, y)
      BY <2>2, <2>4, <3>1 DEF Twins
    <3>3. NoWorse(P, M, w, K, K, T)
      BY <2>1 DEF NoWorse
    <3>4. TwinLevels(P, M, w, K, K, T)
      BY <3>2, <3>3 DEF TwinLevels
    <3> QED BY <3>4
  <2>6. CASE ~ \E y \in T : y # x /\ K[y] = K[x]
    <3>1. \A z \in T : z # x => K[z] < K[x]
      <4>1. ASSUME NEW z \in T, z # x PROVE K[z] < K[x]
        <5>1. K[z] <= K[x] /\ K[z] # K[x] /\ K[z] \in Nat /\ K[x] \in Nat
          BY <2>1, <2>2, <2>6, <4>1
        <5> QED BY <5>1
      <4> QED BY <4>1
    <3>2. PICK R : R = Raised(K, x)
      OBVIOUS
    <3>3. NoWorse(P, M, w, R, K, T) /\ SumOver(R, T) < SumOver(K, T)
      BY <2>3, <3>1, <3>2, AloneIsRaised
    <3>4. Affords(P, M, R, T)
      BY <3>3 DEF NoWorse
    <3>5. SumOver(R, T) \in Nat /\ Bill(w, R, T) \in Nat
      BY <1>0, <3>4
    <3>6. SumOver(R, T) < n
      BY <2>1, <3>3, <3>5
    <3>7. PICK L2 : TwinLevels(P, M, w, L2, R, T)
      BY <1>2, <3>4, <3>6
    <3>8. Bill(w, L2, T) \in Nat
      <4>1. Affords(P, M, L2, T)
        BY <3>7 DEF TwinLevels, NoWorse
      <4> QED BY <1>0, <4>1
    <3>9. NoWorse(P, M, w, L2, K, T)
      BY <2>1, <3>3, <3>5, <3>7, <3>8 DEF TwinLevels, NoWorse
    <3>10. TwinLevels(P, M, w, L2, K, T)
      BY <3>7, <3>9 DEF TwinLevels
    <3> QED BY <3>10
  <2> QED BY <2>5, <2>6
<1>3. Nat \subseteq S
  <2> HIDE DEF S
  <2> QED BY <1>1, <1>2, SetInduction
<1>4. PICK n \in Nat : SumOver(L, T) < n
  <2>1. SumOver(L, T) + 1 \in Nat /\ SumOver(L, T) < SumOver(L, T) + 1
    BY <1>0
  <2> QED BY <2>1
<1>5. n \in S
  BY <1>3
<1> QED BY <1>4, <1>5

\* l is the lightest member, and r of the others.
TwoLightest(w, T, l, r) ==
  l \in T /\ r \in T /\ l # r /\ (\A b \in T : w[l] <= w[b]) /\ \A b \in T : b # l => w[r] <= w[b]

\* Levels as good as L, with l and r at the same level below the root.
Siblings(P, M, w, L2, L, T, l, r) == NoWorse(P, M, w, L2, L, T) /\ L2[l] = L2[r] /\ L2[l] >= 1

(* As good levels exist that have the two lightest members side by side,   *)
(* at the deepest level.                                                   *)
LEMMA LightestAreSiblings ==
  ASSUME NEW M \in Nat, NEW P, Powers(P, M), NEW T, NEW w \in [T -> Nat], NEW l, NEW r, TwoLightest(w, T, l, r),
         NEW L, Affords(P, M, L, T)
  PROVE  \E L2 : Siblings(P, M, w, L2, L, T, l, r)
<1>0. /\ l \in T /\ r \in T /\ l # r
      /\ \A b \in T : w[l] <= w[b]
      /\ \A b \in T : b # l => w[r] <= w[b]
  BY DEF TwoLightest
<1>1. ASSUME NEW K, Affords(P, M, K, T) PROVE K \in [T -> 0..M] /\ Bill(w, K, T) \in Nat
  <2>1. IsFiniteSet(T) /\ K \in [T -> 0..M]
    BY <1>1 DEF Affords
  <2>2. SumOver(Costs(w, K), T) \in Nat
    BY <2>1, LevelsWeigh, SumType
  <2> QED BY <2>1, <2>2 DEF Bill
<1>2. PICK A : TwinLevels(P, M, w, A, L, T)
  BY <1>0, TwinsExist
<1>3. Affords(P, M, A, T) /\ Bill(w, A, T) <= Bill(w, L, T)
  BY <1>2 DEF TwinLevels, NoWorse
<1>4. PICK x \in T, y \in T : Twins(A, T, x, y)
  BY <1>2 DEF TwinLevels
<1>5. x # y /\ A[x] = A[y] /\ A[x] >= 1 /\ \A z \in T : A[z] <= A[x]
  BY <1>4 DEF Twins
<1>6. PICK B : B = Exchanged(A, l, x)
  OBVIOUS
<1>7. NoWorse(P, M, w, B, A, T)
  BY <1>0, <1>3, <1>5, <1>6, ExchangeSaves
<1>8. Affords(P, M, B, T) /\ Bill(w, B, T) <= Bill(w, A, T)
  BY <1>7 DEF NoWorse
<1>9. A \in [T -> 0..M] /\ B \in [T -> 0..M]
  BY <1>1, <1>3, <1>8
<1>10. B[l] = A[x] /\ B[x] = A[l] /\ \A z \in T \ {l, x} : B[z] = A[z]
  BY <1>0, <1>6, <1>9 DEF Exchanged
<1>11. PICK v \in T : v # l /\ B[v] = A[x]
  <2>1. CASE y # l
    BY <1>5, <1>10, <2>1
  <2>2. CASE y = l
    BY <1>5, <1>10, <2>2
  <2> QED BY <2>1, <2>2
<1>12. \A z \in T : B[z] <= A[x]
  <2>1. ASSUME NEW z \in T PROVE B[z] \in {A[x], A[l], A[z]}
    BY <1>10
  <2>2. A[x] <= A[x] /\ A[l] <= A[x] /\ \A z \in T : A[z] <= A[x]
    BY <1>0, <1>5
  <2> QED BY <2>1, <2>2
<1>13. PICK C : C = Exchanged(B, r, v)
  OBVIOUS
<1>14. NoWorse(P, M, w, C, B, T)
  <2>1. w[r] <= w[v] /\ B[r] <= B[v]
    BY <1>0, <1>11, <1>12
  <2> QED BY <1>0, <1>8, <1>13, <2>1, ExchangeSaves
<1>15. Affords(P, M, C, T) /\ Bill(w, C, T) <= Bill(w, B, T)
  BY <1>14 DEF NoWorse
<1>16. C[l] = A[x] /\ C[r] = A[x]
  BY <1>0, <1>9, <1>10, <1>11, <1>13 DEF Exchanged
<1>17. Bill(w, C, T) <= Bill(w, L, T)
  <2>1. Bill(w, A, T) \in Nat /\ Bill(w, B, T) \in Nat /\ Bill(w, C, T) \in Nat /\ Bill(w, L, T) \in Nat
    BY <1>1, <1>3, <1>8, <1>15
  <2> QED BY <1>3, <1>8, <1>15, <2>1
<1>18. Siblings(P, M, w, C, L, T, l, r)
  BY <1>5, <1>15, <1>16, <1>17 DEF Siblings, NoWorse
<1> QED BY <1>18

\* T2 has the new member m instead of l and r, and weighs v where T weighs w.
MergedInto(T, w, l, r, T2, v, m) ==
  /\ T2 = (T \ {l, r}) \cup {m} /\ m \notin T /\ v[m] = w[l] + w[r] /\ SameWeights(w, v, T \ {l, r})

\* The levels K for T2 and n bits more cost no more than the levels L for T.
Saves(P, M, w, L, T, v, K, T2, n) == Affords(P, M, K, T2) /\ Bill(v, K, T2) + n <= Bill(w, L, T)

(* The parent of two siblings takes the room of both one level higher, and *)
(* each bit of its level is paid once where it was paid for both.          *)
LEMMA MergeSaves ==
  ASSUME NEW M \in Nat, NEW P, Powers(P, M), NEW T, NEW w \in [T -> Nat], NEW l, NEW r, TwoLightest(w, T, l, r),
         NEW L, Affords(P, M, L, T), NEW T2, NEW v \in [T2 -> Nat], NEW m, MergedInto(T, w, l, r, T2, v, m)
  PROVE  \E K : Saves(P, M, w, L, T, v, K, T2, w[l] + w[r])
<1>0. l \in T /\ r \in T /\ l # r
  BY DEF TwoLightest
<1>1. PICK A : Siblings(P, M, w, A, L, T, l, r)
  BY LightestAreSiblings
<1>2. /\ IsFiniteSet(T) /\ A \in [T -> 0..M] /\ SumOver(Share(P, M, A), T) <= P[M]
      /\ Bill(w, A, T) <= Bill(w, L, T) /\ A[l] = A[r] /\ A[l] >= 1
  BY <1>1 DEF Siblings, NoWorse, Affords
<1>3. PICK D \in 1..M : D = A[l] /\ D = A[r]
  BY <1>0, <1>2
<1>4. PICK z : z = T \ {l, r}
  OBVIOUS
<1>5. T2 = z \cup {m} /\ m \notin z /\ m \notin T /\ v[m] = w[l] + w[r] /\ SameWeights(w, v, z) /\ z \subseteq T
  BY <1>4 DEF MergedInto
<1>6. PICK K : K = [a \in T2 |-> IF a = m THEN D - 1 ELSE A[a]]
  OBVIOUS
<1>7. K \in [T2 -> 0..M] /\ K[m] = D - 1 /\ \A a \in z : K[a] = A[a]
  BY <1>2, <1>5, <1>6
<1>8. IsFiniteSet(T2)
  <2>1. IsFiniteSet(z)
    BY <1>2, <1>5, FS_Subset
  <2> QED BY <1>5, <2>1, FS_AddElement
<1>9. PICK s, t, p, q : s = Share(P, M, A) /\ t = Share(P, M, K) /\ p = Costs(w, A) /\ q = Costs(v, K)
  OBVIOUS
<1>10. Weighs(s, T) /\ Weighs(p, T) /\ \A a \in T : s[a] = P[M - A[a]] /\ p[a] = w[a] * A[a]
  BY <1>2, <1>9, LevelsWeigh
<1>11. Weighs(t, T2) /\ Weighs(q, T2) /\ \A a \in T2 : t[a] = P[M - K[a]] /\ q[a] = v[a] * K[a]
  BY <1>7, <1>8, <1>9, LevelsWeigh
<1>12. SumOver(s, T) = s[l] + s[r] + SumOver(s, z) /\ Weighs(s, z) /\ SumOver(s, z) \in Nat
  <2>1. WithoutTwo(s, T, l, r, z)
    BY <1>0, <1>4, <1>10, SumTwo
  <2> QED BY <2>1 DEF WithoutTwo
<1>13. SumOver(p, T) = p[l] + p[r] + SumOver(p, z) /\ Weighs(p, z) /\ SumOver(p, z) \in Nat
  <2>1. WithoutTwo(p, T, l, r, z)
    BY <1>0, <1>4, <1>10, SumTwo
  <2> QED BY <2>1 DEF WithoutTwo
<1>14. SameWeights(s, t, z) /\ SameWeights(p, q, z)
  <2>1. \A a \in z : a \in T /\ a \in T2 /\ K[a] = A[a] /\ v[a] = w[a]
    BY <1>5, <1>7 DEF SameWeights
  <2> QED BY <1>10, <1>11, <2>1 DEF SameWeights
<1>15. SumOver(s, z) = SumOver(t, z) /\ Weighs(t, z)
  BY <1>12, <1>14, SumSame
<1>16. SumOver(p, z) = SumOver(q, z) /\ Weighs(q, z)
  BY <1>13, <1>14, SumSame
<1>17. m \in T2 /\ t[m] \in Nat /\ q[m] \in Nat
  BY <1>5, <1>11 DEF Weighs
<1>18. SumOver(t, T2) = t[m] + SumOver(s, z)
  BY <1>5, <1>15, <1>17, SumPut
<1>19. SumOver(q, T2) = q[m] + SumOver(p, z)
  BY <1>5, <1>16, <1>17, SumPut
<1>20. t[m] = s[l] + s[r]
  <2>1. s[l] = P[M - D] /\ s[r] = P[M - D] /\ t[m] = P[M - (D - 1)]
    BY <1>0, <1>3, <1>7, <1>10, <1>11, <1>17
  <2>2. M - (D - 1) \in 1..M /\ (M - (D - 1)) - 1 = M - D /\ M - D \in 0..M
    OBVIOUS
  <2>3. P[M - (D - 1)] = 2 * P[M - D] /\ P[M - D] \in Nat
    BY <2>2, PowersPositive DEF Powers
  <2> QED BY <2>1, <2>3
<1>21. q[m] + (w[l] + w[r]) = p[l] + p[r]
  <2>1. PICK a \in Nat, b \in Nat, e \in Nat : a = w[l] /\ b = w[r] /\ D = e + 1 /\ D - 1 = e
    BY <1>0
  <2>2. p[l] = w[l] * D /\ p[r] = w[r] * D
    BY <1>0, <1>3, <1>10
  <2>3. q[m] = (w[l] + w[r]) * (D - 1)
    BY <1>5, <1>7, <1>11, <1>17
  <2>4. (a + b) * e + (a + b) = a * (e + 1) + b * (e + 1)
    OBVIOUS
  <2>5. q[m] = (a + b) * e
    BY <2>1, <2>3, Zenon
  <2>6. p[l] = a * (e + 1) /\ p[r] = b * (e + 1)
    BY <2>1, <2>2, Zenon
  <2> QED BY <2>1, <2>4, <2>5, <2>6
<1>22. p[l] \in Nat /\ p[r] \in Nat /\ w[l] + w[r] \in Nat /\ w[l] \in Nat /\ w[r] \in Nat
  BY <1>0, <1>10 DEF Weighs
<1>23. SumOver(q, T2) + (w[l] + w[r]) = SumOver(p, T)
  BY <1>13, <1>17, <1>19, <1>21, <1>22
<1>24. SumOver(t, T2) <= P[M]
  BY <1>2, <1>9, <1>12, <1>18, <1>20
<1>25. Bill(v, K, T2) = SumOver(q, T2) /\ Bill(w, A, T) = SumOver(p, T)
  BY <1>9 DEF Bill
<1>26. Affords(P, M, K, T2)
  BY <1>7, <1>8, <1>9, <1>24 DEF Affords
<1>27. Bill(v, K, T2) + (w[l] + w[r]) <= Bill(w, L, T)
  BY <1>2, <1>23, <1>25
<1>28. Saves(P, M, w, L, T, v, K, T2, w[l] + w[r])
  BY <1>26, <1>27 DEF Saves
<1> QED BY <1>28

-----------------------------------------------------------------------------
(* Huffman: every merge saves                                              *)

\* The bits of the symbols under a node that are spent below it.
Below(t, codes, D) == [s \in D |-> t[s] * Len(codes[s])]
Inner(t, codes) == SumOver(Below(t, codes, DOMAIN codes), DOMAIN codes)
\* The same for each node of h, and what the nodes weigh.
Inners(t, h) == [a \in h |-> Inner(t, a.codes)]
WeightsOf(h) == [a \in h |-> a.weight]

\* The nodes of h weigh what is under them, and with some levels for them the
\* whole costs no more than the budget B.
Within(t, P, B, h) ==
  /\ \A a \in h : a.weight = SumOver(t, DOMAIN a.codes)
  /\ \E L : Affords(P, Symbols, L, h) /\ SumOver(Inners(t, h), h) + Bill(WeightsOf(h), L, h) <= B

(* There are finitely many bytes.                                          *)
LEMMA BytesFinite == \A s \in SUBSET Bytes : IsFiniteSet(s)
<1>1. Symbols \in Nat
  BY CodecsAssumption
<1>2. IsFiniteSet(0..(Symbols - 1))
  BY <1>1, FS_Interval
<1>3. IsFiniteSet(Bytes)
  BY <1>2 DEF Bytes
<1> QED BY <1>3, FS_Subset

(* The bits spent below a node are a sum of numbers.                       *)
LEMMA InnerWeighs ==
  ASSUME NEW t \in [Bytes -> Nat], NEW codes \in Tables
  PROVE  /\ Weighs(Below(t, codes, DOMAIN codes), DOMAIN codes)
         /\ Weighs(t, DOMAIN codes) /\ Inner(t, codes) \in Nat
<1>1. PICK D : D = DOMAIN codes
  OBVIOUS
<1>2. D \subseteq Bytes /\ \A s \in D : codes[s] \in Seq(Bits)
  BY <1>1 DEF Tables
<1>3. IsFiniteSet(D)
  BY <1>2, BytesFinite
<1>4. \A s \in D : Len(codes[s]) \in Nat /\ t[s] \in Nat
  BY <1>2, LenProperties
<1>5. \A s \in D : t[s] * Len(codes[s]) \in Nat
  BY <1>4
<1>6. Weighs(Below(t, codes, D), D) /\ Weighs(t, D)
  BY <1>3, <1>4, <1>5 DEF Weighs, Below
<1>7. SumOver(Below(t, codes, D), D) \in Nat
  BY <1>6, SumType
<1> QED BY <1>1, <1>6, <1>7 DEF Inner

\* j begins the codes of the symbols of D with a bit.
Prefixed(j, codes, D) == D = DOMAIN codes /\ \A s \in D : \E bit \in Bits : j[s] = <<bit>> \o codes[s]

(* A bit in front of every code costs the weight of the symbols.           *)
LEMMA OneBitMore ==
  ASSUME NEW t \in [Bytes -> Nat], NEW codes \in Tables, NEW j, NEW D, Prefixed(j, codes, D)
  PROVE  Weighs(Below(t, j, D), D) /\ SumOver(Below(t, j, D), D) = Inner(t, codes) + SumOver(t, D)
<1>0. D = DOMAIN codes /\ \A s \in D : \E bit \in Bits : j[s] = <<bit>> \o codes[s]
  BY DEF Prefixed
<1>1. PICK u, w : u = Below(t, codes, D) /\ w = Below(t, j, D)
  OBVIOUS
<1>2. Weighs(u, D) /\ Weighs(t, D) /\ SumOver(u, D) = Inner(t, codes)
  BY <1>0, <1>1, InnerWeighs DEF Inner
<1>3. ASSUME NEW s \in D PROVE w[s] = u[s] + t[s]
  <2>1. s \in Bytes /\ codes[s] \in Seq(Bits)
    BY <1>0 DEF Tables
  <2>2. PICK bit \in Bits : j[s] = <<bit>> \o codes[s]
    BY <1>0
  <2>3. <<bit>> \in Seq(Bits) /\ Len(<<bit>>) = 1
    OBVIOUS
  <2>4. Len(j[s]) = 1 + Len(codes[s])
    BY <2>1, <2>2, <2>3, ConcatProperties
  <2>5. PICK n \in Nat, k \in Nat : n = t[s] /\ k = Len(codes[s])
    BY <2>1, LenProperties
  <2>6. n * (1 + k) = n * k + n
    OBVIOUS
  <2>7. w[s] = n * (1 + k) /\ u[s] = n * k
    BY <1>1, <2>4, <2>5 DEF Below
  <2> QED BY <2>5, <2>6, <2>7
<1>4. AddsUp(u, t, w, D)
  BY <1>3 DEF AddsUp
<1>5. Weighs(w, D) /\ SumOver(w, D) = SumOver(u, D) + SumOver(t, D)
  BY <1>2, <1>4, SumPlus
<1> QED BY <1>1, <1>2, <1>5

\* What a merge does to the bits spent below.
JoinCosts(t, l, r, j) ==
  /\ SumOver(t, DOMAIN j) = SumOver(t, DOMAIN l) + SumOver(t, DOMAIN r)
  /\ Inner(t, j) = Inner(t, l) + Inner(t, r) + SumOver(t, DOMAIN l) + SumOver(t, DOMAIN r)

(* A merge spends one bit more on each occurrence below it.                *)
LEMMA JoinIsPaid ==
  ASSUME NEW t \in [Bytes -> Nat], NEW l \in Tables, NEW r \in Tables, DOMAIN l \cap DOMAIN r = {},
         NEW j, j = Joined(l, r)
  PROVE  JoinCosts(t, l, r, j)
<1>1. PICK A, B : A = DOMAIN l /\ B = DOMAIN r
  OBVIOUS
<1>2. DOMAIN j = A \cup B
  BY <1>1 DEF Joined
<1>3. Prefixed(j, l, A)
  <2>1. \A s \in A : j[s] = <<0>> \o l[s]
    BY <1>1 DEF Joined
  <2> QED BY <1>1, <2>1 DEF Bits, Prefixed
<1>4. Prefixed(j, r, B)
  <2>1. \A s \in B : j[s] = <<1>> \o r[s]
    BY <1>1 DEF Joined
  <2> QED BY <1>1, <2>1 DEF Bits, Prefixed
<1>5. PICK a, b, w : a = Below(t, j, A) /\ b = Below(t, j, B) /\ w = Below(t, j, A \cup B)
  OBVIOUS
<1>6. Weighs(a, A) /\ SumOver(a, A) = Inner(t, l) + SumOver(t, A)
  BY <1>3, <1>5, OneBitMore
<1>7. Weighs(b, B) /\ SumOver(b, B) = Inner(t, r) + SumOver(t, B)
  BY <1>4, <1>5, OneBitMore
<1>8. SameWeights(a, w, A) /\ SameWeights(b, w, B)
  BY <1>5 DEF SameWeights, Below
<1>9. SumOver(a, A) = SumOver(w, A) /\ Weighs(w, A)
  BY <1>6, <1>8, SumSame
<1>10. SumOver(b, B) = SumOver(w, B) /\ Weighs(w, B)
  BY <1>7, <1>8, SumSame
<1>11. SumOver(w, A \cup B) = SumOver(w, A) + SumOver(w, B)
  BY <1>1, <1>9, <1>10, SumUnion
<1>12. Weighs(t, A) /\ Weighs(t, B) /\ Inner(t, l) \in Nat /\ Inner(t, r) \in Nat
  BY <1>1, InnerWeighs
<1>13. SumOver(t, A \cup B) = SumOver(t, A) + SumOver(t, B)
  BY <1>1, <1>12, SumUnion
<1>14. Inner(t, j) = SumOver(w, A \cup B)
  BY <1>2, <1>5 DEF Inner
<1>15. SumOver(t, A) \in Nat /\ SumOver(t, B) \in Nat
  BY <1>12, SumType
<1>16. Inner(t, j) = Inner(t, l) + Inner(t, r) + SumOver(t, A) + SumOver(t, B)
  BY <1>6, <1>7, <1>9, <1>10, <1>11, <1>12, <1>14, <1>15
<1> QED BY <1>1, <1>2, <1>13, <1>16 DEF JoinCosts

\* l and r are the two lightest nodes of h, and m the node they are merged into.
MergedPair(h, o, l, r, m) ==
  /\ l \in h /\ r \in h /\ l # r
  /\ \A b \in h : l.weight <= b.weight
  /\ \A b \in h : b # l => r.weight <= b.weight
  /\ m = [weight |-> l.weight + r.weight, order |-> o, codes |-> Joined(l.codes, r.codes)]
  /\ m \notin h /\ Merge(h, o) = (h \ {l, r}) \cup {m}

(* What a merge takes out and puts in.                                     *)
LEMMA MergeParts ==
  ASSUME NEW U, NEW h, NEW o \in Nat, Shrinking(h, U, o)
  PROVE  \E l, r, m : MergedPair(h, o, l, r, m)
<1>1. Heap(h, U) /\ Ordered(h) /\ IsFiniteSet(h) /\ Cardinality(h) > 1 /\ \A a \in h : a.order < o
  BY DEF Shrinking, Heap, Ordered
<1>2. h # {}
  <2>1. Cardinality({}) = 0
    BY FS_EmptySet
  <2> QED BY <1>1, <2>1
<1>3. PICK l : l = Lightest(h)
  OBVIOUS
<1>4. l \in h /\ \A b \in h : l.weight <= b.weight
  BY <1>1, <1>2, <1>3, LightestIs DEF IsLightest
<1>5. PICK y : y = h \ {l}
  OBVIOUS
<1>6. y # {}
  <2>1. ASSUME y = {} PROVE FALSE
    <3>1. h = {l}
      BY <1>4, <1>5, <2>1
    <3>2. Cardinality({l}) = 1
      BY FS_Singleton
    <3> QED BY <1>1, <3>1, <3>2
  <2> QED BY <2>1
<1>7. Ordered(y)
  <2>1. IsFiniteSet(y)
    BY <1>1, <1>5, FS_Subset
  <2> QED BY <1>1, <1>5, <2>1 DEF Ordered
<1>8. PICK r : r = Lightest(y)
  OBVIOUS
<1>9. r \in y /\ \A b \in y : r.weight <= b.weight
  BY <1>6, <1>7, <1>8, LightestIs DEF IsLightest
<1>10. PICK m : m = [weight |-> l.weight + r.weight, order |-> o, codes |-> Joined(l.codes, r.codes)]
  OBVIOUS
<1>11. m \notin h
  <2>1. m.order = o
    BY <1>10
  <2>2. \A a \in h : a.order < o /\ a.order \in Nat
    BY <1>1 DEF Ordered, Nodes
  <2> QED BY <2>1, <2>2
<1>12. Merge(h, o) = (h \ {l, r}) \cup {m}
  BY <1>3, <1>5, <1>8, <1>10 DEF Merge
<1>13. r \in h /\ l # r /\ \A b \in h : b # l => r.weight <= b.weight
  BY <1>5, <1>9
<1>14. MergedPair(h, o, l, r, m)
  BY <1>4, <1>10, <1>11, <1>12, <1>13, Zenon DEF MergedPair
<1> QED BY <1>14

(* The nodes of a heap spend a number of bits below them.                  *)
LEMMA InnersWeigh ==
  ASSUME NEW t \in [Bytes -> Nat], NEW U, NEW h, Heap(h, U)
  PROVE  /\ Weighs(Inners(t, h), h) /\ \A a \in h : Inners(t, h)[a] = Inner(t, a.codes)
         /\ WeightsOf(h) \in [h -> Nat] /\ \A a \in h : WeightsOf(h)[a] = a.weight
<1>1. IsFiniteSet(h) /\ \A a \in h : a.codes \in Tables /\ a.weight \in Nat
  BY DEF Heap, Ordered, Nodes
<1>2. \A a \in h : Inner(t, a.codes) \in Nat
  BY <1>1, InnerWeighs
<1> QED BY <1>1, <1>2 DEF Weighs, Inners, WeightsOf

(* A merge of the two lightest nodes keeps within the budget: what it adds *)
(* below the new node, the levels of a better code save above it.          *)
LEMMA MergeStaysWithin ==
  ASSUME NEW t \in [Bytes -> Nat], NEW P, Powers(P, Symbols), NEW B \in Nat, NEW U, NEW h, NEW o \in Nat,
         Shrinking(h, U, o), Within(t, P, B, h)
  PROVE  Within(t, P, B, Merge(h, o))
<1>0. Symbols \in Nat
  BY CodecsAssumption
<1>1. PICK l, r, m : MergedPair(h, o, l, r, m)
  BY MergeParts
<1>2. PICK h2 : h2 = Merge(h, o)
  OBVIOUS
<1>3. /\ l \in h /\ r \in h /\ l # r
      /\ \A b \in h : l.weight <= b.weight
      /\ \A b \in h : b # l => r.weight <= b.weight
      /\ m = [weight |-> l.weight + r.weight, order |-> o, codes |-> Joined(l.codes, r.codes)]
      /\ m \notin h /\ h2 = (h \ {l, r}) \cup {m}
  BY <1>1, <1>2, Zenon DEF MergedPair
<1>4. m.weight = l.weight + r.weight /\ m.codes = Joined(l.codes, r.codes)
  BY <1>3
<1>5. Heap(h, U)
  BY DEF Shrinking
<1>6. Heap(h2, U)
  <2>1. PICK c \in Nat : c = Cardinality(h) /\ c > 1
    <3>1. IsFiniteSet(h)
      BY <1>5 DEF Heap, Ordered
    <3> QED BY <3>1, FS_CardinalityType DEF Shrinking
  <2>2. PICK k \in Nat : c = k + 1 /\ k > 0
    <3>1. c - 1 \in Nat /\ c = (c - 1) + 1 /\ c - 1 > 0
      BY <2>1
    <3> QED BY <3>1
  <2>3. \A a \in h : a.order < o
    BY DEF Shrinking
  <2>4. Stage(Merge(h, o), U, k, o)
    BY <1>5, <2>1, <2>2, <2>3, MergeEffect
  <2> QED BY <1>2, <2>4 DEF Stage
<1>7. PICK w, v, c, d : w = WeightsOf(h) /\ v = WeightsOf(h2) /\ c = Inners(t, h) /\ d = Inners(t, h2)
  OBVIOUS
<1>8. /\ Weighs(c, h) /\ \A a \in h : c[a] = Inner(t, a.codes)
      /\ w \in [h -> Nat] /\ \A a \in h : w[a] = a.weight
  BY <1>5, <1>7, InnersWeigh
<1>9. /\ Weighs(d, h2) /\ \A a \in h2 : d[a] = Inner(t, a.codes)
      /\ v \in [h2 -> Nat] /\ \A a \in h2 : v[a] = a.weight
  BY <1>6, <1>7, InnersWeigh
<1>10. PICK z : z = h \ {l, r}
  OBVIOUS
<1>11. h2 = z \cup {m} /\ m \notin z /\ z \subseteq h /\ z \subseteq h2 /\ m \in h2
  BY <1>3, <1>10
<1>12. PICK L : Affords(P, Symbols, L, h) /\ SumOver(Inners(t, h), h) + Bill(WeightsOf(h), L, h) <= B
  BY DEF Within
<1>13. TwoLightest(w, h, l, r)
  BY <1>3, <1>8 DEF TwoLightest
<1>14. MergedInto(h, w, l, r, h2, v, m)
  <2>1. SameWeights(w, v, z)
    BY <1>8, <1>9, <1>11 DEF SameWeights
  <2>2. v[m] = w[l] + w[r]
    BY <1>3, <1>4, <1>8, <1>9, <1>11
  <2> QED BY <1>3, <1>10, <2>1, <2>2 DEF MergedInto
<1>15. PICK K : Saves(P, Symbols, w, L, h, v, K, h2, w[l] + w[r])
  BY <1>0, <1>8, <1>9, <1>12, <1>13, <1>14, MergeSaves
<1>16. Affords(P, Symbols, K, h2) /\ Bill(v, K, h2) + (w[l] + w[r]) <= Bill(w, L, h)
  BY <1>15 DEF Saves
<1>17. l.codes \in Tables /\ r.codes \in Tables /\ DOMAIN l.codes \cap DOMAIN r.codes = {}
  <2>1. l \in Nodes /\ r \in Nodes
    BY <1>3, <1>5 DEF Heap, Ordered
  <2>2. DOMAIN l.codes \cap DOMAIN r.codes = {}
    BY <1>3, <1>5 DEF Heap
  <2> QED BY <2>1, <2>2 DEF Nodes
<1>18. JoinCosts(t, l.codes, r.codes, m.codes)
  BY <1>4, <1>17, JoinIsPaid
<1>19. \A a \in h : a.weight = SumOver(t, DOMAIN a.codes)
  BY DEF Within
<1>20. \A a \in h2 : a.weight = SumOver(t, DOMAIN a.codes)
  <2>1. m.weight = SumOver(t, DOMAIN m.codes)
    BY <1>3, <1>4, <1>18, <1>19 DEF JoinCosts
  <2> QED BY <1>11, <1>19, <2>1
<1>21. d[m] = c[l] + c[r] + w[l] + w[r]
  <2>1. w[l] = SumOver(t, DOMAIN l.codes) /\ w[r] = SumOver(t, DOMAIN r.codes)
    BY <1>3, <1>8, <1>19
  <2>2. c[l] = Inner(t, l.codes) /\ c[r] = Inner(t, r.codes) /\ d[m] = Inner(t, m.codes)
    BY <1>3, <1>8, <1>9, <1>11
  <2> QED BY <1>18, <2>1, <2>2 DEF JoinCosts
<1>22. SumOver(c, h) = c[l] + c[r] + SumOver(c, z) /\ Weighs(c, z) /\ SumOver(c, z) \in Nat /\ c[l] \in Nat /\ c[r] \in Nat
  <2>1. WithoutTwo(c, h, l, r, z)
    BY <1>3, <1>8, <1>10, SumTwo
  <2> QED BY <2>1 DEF WithoutTwo
<1>23. SumOver(c, z) = SumOver(d, z) /\ Weighs(d, z)
  <2>1. SameWeights(c, d, z)
    BY <1>8, <1>9, <1>11 DEF SameWeights
  <2> QED BY <1>22, <2>1, SumSame
<1>24. SumOver(d, h2) = d[m] + SumOver(c, z) /\ d[m] \in Nat
  <2>1. d[m] \in Nat
    BY <1>9, <1>11 DEF Weighs
  <2> QED BY <1>11, <1>23, <2>1, SumPut
<1>25. w[l] \in Nat /\ w[r] \in Nat
  BY <1>3, <1>8
<1>26. SumOver(d, h2) = SumOver(c, h) + (w[l] + w[r])
  BY <1>21, <1>22, <1>24, <1>25
<1>27. Bill(v, K, h2) \in Nat /\ Bill(w, L, h) \in Nat
  <2>1. IsFiniteSet(h) /\ IsFiniteSet(h2) /\ L \in [h -> 0..Symbols] /\ K \in [h2 -> 0..Symbols]
    BY <1>12, <1>16 DEF Affords
  <2>2. Weighs(Costs(w, L), h)
    BY <1>0, <1>8, <2>1, LevelsWeigh
  <2>3. Weighs(Costs(v, K), h2)
    BY <1>0, <1>9, <2>1, LevelsWeigh
  <2> QED BY <2>2, <2>3, SumType DEF Bill
<1>28. SumOver(d, h2) + Bill(v, K, h2) <= B
  <2>1. SumOver(c, h) \in Nat /\ SumOver(c, h) + Bill(w, L, h) <= B
    BY <1>7, <1>8, <1>12, SumType
  <2> QED BY <1>16, <1>25, <1>26, <1>27, <2>1
<1> QED BY <1>2, <1>7, <1>16, <1>20, <1>28 DEF Within

\* len is a code for the symbols that occur in t, and costs B bits.
Priced(t, P, len, B) == Affords(P, Symbols, len, Occurring(t)) /\ B = Bill(t, len, Occurring(t))

(* A leaf spends no bits below it.                                         *)
LEMMA LeafIsFree ==
  ASSUME NEW t \in [Bytes -> Nat], NEW s \in Bytes
  PROVE  Inner(t, Leaf(s)) = 0 /\ SumOver(t, DOMAIN Leaf(s)) = t[s]
<1>1. DOMAIN Leaf(s) = {s} /\ Leaf(s)[s] = <<>> /\ t[s] \in Nat
  BY DEF Leaf
<1>2. PICK w : w = Below(t, Leaf(s), {s})
  OBVIOUS
<1>3. w[s] = 0
  <2>1. Len(<<>>) = 0
    OBVIOUS
  <2>2. w[s] = t[s] * 0
    BY <1>1, <1>2, <2>1 DEF Below
  <2> QED BY <1>1, <2>2
<1>4. SumOver(w, {s}) = 0
  BY <1>3, SumSingle
<1>5. SumOver(t, {s}) = t[s]
  BY <1>1, SumSingle
<1> QED BY <1>1, <1>2, <1>4, <1>5 DEF Inner

(* The leaves keep within the cost of a code: they take its lengths for    *)
(* their levels.                                                           *)
LEMMA LeavesStayWithin ==
  ASSUME NEW t \in [Bytes -> Nat], NEW P, Powers(P, Symbols), NEW u, NEW n, Planted(t, u, n),
         NEW len, NEW B, Priced(t, P, len, B)
  PROVE  Within(t, P, B, LeavesOf(t, u))
<1>0. Symbols \in Nat
  BY CodecsAssumption
<1>1. PICK h, O : h = LeavesOf(t, u) /\ O = Occurring(t)
  OBVIOUS
<1>2. Heap(h, O) /\ Ordered(h) /\ IsFiniteSet(h) /\ n \in Nat
  BY <1>1 DEF Planted, Stage, Heap, Ordered
<1>3. /\ DOMAIN u = 1..n
      /\ \A i, j \in 1..n : u[i] = u[j] => i = j
      /\ \A i \in 1..n : u[i] \in Bytes /\ t[u[i]] > 0
      /\ \A b \in Bytes : t[b] > 0 => \E i \in 1..n : u[i] = b
  <2>1. Lists(u, t, Symbols) /\ n = Len(u)
    BY DEF Planted
  <2>2. u \in Seq(Bytes)
    BY <2>1 DEF Lists
  <2>3. DOMAIN u = 1..n /\ \A i \in 1..n : u[i] \in Bytes
    BY <2>1, <2>2, LenProperties, ElementOfSeq
  <2>4. \A b \in Bytes : b < Symbols
    BY CodecsAssumption DEF Bytes
  <2> QED BY <2>1, <2>3, <2>4 DEF Lists
<1>4. PICK f : f = [a \in h |-> u[a.order]]
  OBVIOUS
<1>5. ASSUME NEW a \in h
      PROVE  /\ a.order \in 1..n /\ f[a] = u[a.order] /\ f[a] \in O /\ f[a] \in Bytes
             /\ a.weight = t[f[a]] /\ a.codes = Leaf(f[a])
  <2>1. PICK i \in 1..n : a = [weight |-> t[u[i]], order |-> i, codes |-> Leaf(u[i])]
    BY <1>1, <1>3 DEF LeavesOf
  <2>2. a.order = i /\ a.weight = t[u[i]] /\ a.codes = Leaf(u[i])
    BY <2>1
  <2>3. f[a] = u[i]
    BY <1>4, <2>2
  <2>4. u[i] \in Bytes /\ u[i] \in O
    BY <1>1, <1>3 DEF Occurring
  <2> QED BY <2>2, <2>3, <2>4
<1>6. \A a, b \in h : f[a] = f[b] => a = b
  <2>1. ASSUME NEW a \in h, NEW b \in h, f[a] = f[b] PROVE a = b
    <3>1. PICK i \in 1..n, j \in 1..n : i = a.order /\ j = b.order
      BY <1>5
    <3>2. u[i] = u[j]
      BY <1>5, <2>1, <3>1
    <3>3. i = j
      BY <1>3, <3>2
    <3> QED BY <1>2, <3>1, <3>3 DEF Ordered
  <2> QED BY <2>1
<1>7. {f[a] : a \in h} = O
  <2>1. ASSUME NEW s \in O PROVE \E a \in h : f[a] = s
    <3>1. PICK i \in 1..n : u[i] = s
      BY <1>1, <1>3 DEF Occurring
    <3>2. PICK a : a = [weight |-> t[u[i]], order |-> i, codes |-> Leaf(u[i])]
      OBVIOUS
    <3>3. a \in h /\ a.order = i
      BY <1>1, <1>3, <3>2 DEF LeavesOf
    <3> QED BY <1>4, <3>1, <3>3
  <2> QED BY <1>5, <2>1
<1>8. len \in [O -> 0..Symbols] /\ SumOver(Share(P, Symbols, len), O) <= P[Symbols] /\ B = Bill(t, len, O)
  BY <1>1 DEF Priced, Affords
<1>9. PICK L : L = [a \in h |-> len[f[a]]]
  OBVIOUS
<1>10. L \in [h -> 0..Symbols] /\ \A a \in h : L[a] = len[f[a]]
  <2>1. \A a \in h : len[f[a]] \in 0..Symbols
    BY <1>5, <1>8
  <2> QED BY <1>9, <2>1
<1>11. PICK w, c : w = WeightsOf(h) /\ c = Inners(t, h)
  OBVIOUS
<1>12. /\ Weighs(c, h) /\ \A a \in h : c[a] = Inner(t, a.codes)
       /\ w \in [h -> Nat] /\ \A a \in h : w[a] = a.weight
  BY <1>2, <1>11, InnersWeigh
<1>13. PICK s, p : s = Share(P, Symbols, L) /\ p = Costs(w, L)
  OBVIOUS
<1>14. Weighs(s, h) /\ Weighs(p, h) /\ \A a \in h : s[a] = P[Symbols - L[a]] /\ p[a] = w[a] * L[a]
  BY <1>0, <1>2, <1>10, <1>12, <1>13, LevelsWeigh
<1>15. SumOver(s, h) = SumOver(Share(P, Symbols, len), O)
  <2>1. PICK q : q = Share(P, Symbols, len)
    OBVIOUS
  <2>2. \A a \in h : s[a] = q[f[a]]
    BY <1>5, <1>8, <1>10, <1>14, <2>1 DEF Share
  <2>3. Names(f, q, s, h, O)
    BY <1>6, <1>7, <2>2 DEF Names
  <2>4. SumOver(q, O) = SumOver(s, h)
    BY <1>14, <2>3, SumMoved
  <2> QED BY <2>1, <2>4
<1>16. SumOver(p, h) = Bill(t, len, O)
  <2>1. PICK q : q = Costs(t, len)
    OBVIOUS
  <2>2. \A a \in h : p[a] = q[f[a]]
    BY <1>5, <1>8, <1>10, <1>12, <1>14, <2>1 DEF Costs
  <2>3. Names(f, q, p, h, O)
    BY <1>6, <1>7, <2>2 DEF Names
  <2>4. SumOver(q, O) = SumOver(p, h)
    BY <1>14, <2>3, SumMoved
  <2> QED BY <2>1, <2>4 DEF Bill
<1>17. SumOver(c, h) = 0
  <2>1. ASSUME NEW a \in h PROVE c[a] = 0 * 0
    <3>1. c[a] = Inner(t, Leaf(f[a]))
      BY <1>5, <1>12
    <3>2. Inner(t, Leaf(f[a])) = 0
      BY <1>5, LeafIsFree
    <3> QED BY <3>1, <3>2
  <2>2. Multiples(c, h, 0)
    BY <2>1 DEF Multiples
  <2>3. PICK q \in Nat : SumOver(c, h) = q * 0
    BY <1>12, <2>2, SumOfMultiples
  <2> QED BY <2>3
<1>18. \A a \in h : a.weight = SumOver(t, DOMAIN a.codes)
  <2>1. ASSUME NEW a \in h PROVE a.weight = SumOver(t, DOMAIN a.codes)
    <3>1. PICK x \in Bytes : x = f[a]
      BY <1>5
    <3>2. SumOver(t, DOMAIN Leaf(x)) = t[x]
      BY LeafIsFree
    <3> QED BY <1>5, <3>1, <3>2
  <2> QED BY <2>1
<1>19. Affords(P, Symbols, L, h)
  BY <1>2, <1>8, <1>10, <1>13, <1>15 DEF Affords
<1>20. Bill(w, L, h) = B
  BY <1>8, <1>13, <1>16 DEF Bill
<1>21. SumOver(c, h) + Bill(w, L, h) <= B
  <2>1. SumOver(p, h) \in Nat
    BY <1>14, SumType
  <2> QED BY <1>8, <1>16, <1>17, <1>20, <2>1
<1> QED BY <1>1, <1>11, <1>18, <1>19, <1>21 DEF Within

(* The codes of the tree cost no more than any code for the same symbols.  *)
LEMMA TreeIsCheapest ==
  ASSUME NEW t \in [Bytes -> Nat], Len(Used(t)) > 1, NEW P, Powers(P, Symbols),
         NEW len, NEW B \in Nat, Priced(t, P, len, B)
  PROVE  DOMAIN Codes(t) = Occurring(t) /\ Codes(t) \in Tables /\ Inner(t, Codes(t)) <= B
<1>1. PICK u, n : u = Used(t) /\ n = Len(u)
  OBVIOUS
<1>2. Planted(t, u, n)
  BY <1>1, LeavesArePlanted
<1>3. PICK base, U : base = LeavesOf(t, u) /\ U = Occurring(t)
  OBVIOUS
<1>4. n \in Nat /\ n > 0 /\ Stage(base, U, n, n)
  BY <1>2, <1>3 DEF Planted
<1>5. PICK G : G = {h \in SUBSET Nodes : Within(t, P, B, h)}
  OBVIOUS
<1>6. base \in G
  <2>1. Within(t, P, B, base)
    BY <1>2, <1>3, LeavesStayWithin
  <2>2. base \in SUBSET Nodes
    BY <1>4 DEF Stage, Heap, Ordered
  <2> QED BY <1>5, <2>1, <2>2
<1>7. \A h \in G : \A o \in Nat : Shrinking(h, U, o) => Merge(h, o) \in G
  <2>1. ASSUME NEW h \in G, NEW o \in Nat, Shrinking(h, U, o) PROVE Merge(h, o) \in G
    <3>1. Within(t, P, B, h)
      BY <1>5
    <3>2. Within(t, P, B, Merge(h, o))
      BY <2>1, <3>1, MergeStaysWithin
    <3>3. Merge(h, o) \in SUBSET Nodes
      BY <2>1, ShrinkEffect
    <3> QED BY <1>5, <3>2, <3>3
  <2> QED BY <2>1
<1>8. Root(base, n) \in G
  BY <1>4, <1>6, <1>7, TreeKeeps
<1>9. PICK node : RootOf(node, t)
  BY RootIsNode
<1>10. Heap({node}, U) /\ Root(base, n) = {node} /\ Codes(t) = node.codes
  BY <1>1, <1>3, <1>9 DEF RootOf, TreeOf
<1>11. Within(t, P, B, {node})
  BY <1>5, <1>8, <1>10
<1>12. node.codes \in Tables /\ DOMAIN node.codes = U
  <2>1. node \in Nodes
    BY <1>10 DEF Heap, Ordered
  <2>2. DOMAIN node.codes = U
    BY <1>10 DEF Heap
  <2> QED BY <2>1, <2>2 DEF Nodes
<1>13. PICK h, c, w : h = {node} /\ c = Inners(t, h) /\ w = WeightsOf(h)
  OBVIOUS
<1>14. PICK L : Affords(P, Symbols, L, h) /\ SumOver(c, h) + Bill(w, L, h) <= B
  BY <1>11, <1>13 DEF Within
<1>15. Heap(h, U)
  BY <1>10, <1>13
<1>16. /\ Weighs(c, h) /\ \A a \in h : c[a] = Inner(t, a.codes)
       /\ w \in [h -> Nat] /\ \A a \in h : w[a] = a.weight
  BY <1>13, <1>15, InnersWeigh
<1>17. SumOver(c, h) = Inner(t, node.codes) /\ Inner(t, node.codes) \in Nat
  <2>1. c[node] = Inner(t, node.codes) /\ c[node] \in Nat
    BY <1>13, <1>16 DEF Weighs
  <2> QED BY <1>13, <2>1, SumSingle
<1>18. Bill(w, L, h) \in Nat
  <2>1. IsFiniteSet(h) /\ L \in [h -> 0..Symbols] /\ Symbols \in Nat
    BY <1>14, CodecsAssumption DEF Affords
  <2>2. Weighs(Costs(w, L), h)
    BY <1>16, <2>1, LevelsWeigh
  <2> QED BY <2>2, SumType DEF Bill
<1>19. Inner(t, node.codes) <= B
  BY <1>14, <1>17, <1>18
<1> QED BY <1>3, <1>10, <1>12, <1>19

-----------------------------------------------------------------------------
(* Huffman: no other code is shorter                                       *)

\* The recursion of the property's powers.
Doubles(g, M) == g = [n \in 0..M |-> IF n = 0 THEN 1 ELSE 2 * g[n - 1]]

(* It has a solution ...                                                   *)
LEMMA DoublesExist ==
  ASSUME NEW M \in Nat
  PROVE  \E g : Doubles(g, M)
<1> DEFINE Sol(n, g) == g \in [0..n -> Nat] /\ g[0] = 1 /\ \A m \in 1..n : g[m] = 2 * g[m - 1]
           S == {n \in Nat : \E g : Sol(n, g)}
<1>1. 0 \in S
  <2> Sol(0, [m \in 0..0 |-> 1])
    OBVIOUS
  <2> QED OBVIOUS
<1>2. ASSUME NEW n \in Nat, n \in S PROVE n + 1 \in S
  <2>1. PICK g : Sol(n, g)
    BY <1>2
  <2> DEFINE h == [m \in 0..n + 1 |-> IF m = n + 1 THEN 2 * g[n] ELSE g[m]]
  <2>2. h \in [0..n + 1 -> Nat]
    BY <2>1
  <2>3. h[0] = 1
    BY <2>1
  <2>4. ASSUME NEW m \in 1..n + 1 PROVE h[m] = 2 * h[m - 1]
    <3>1. h[m - 1] = g[m - 1]
      OBVIOUS
    <3>2. CASE m = n + 1
      BY <3>1, <3>2
    <3>3. CASE m # n + 1
      <4>1. m \in 1..n
        BY <3>3
      <4> QED BY <2>1, <3>1, <3>3, <4>1
    <3> QED BY <3>2, <3>3
  <2>5. Sol(n + 1, h)
    BY <2>2, <2>3, <2>4
  <2> QED
    <3> HIDE DEF Sol, h
    <3> QED BY <2>5
<1>3. M \in S
  <2> HIDE DEF S
  <2> QED BY <1>1, <1>2, SetInduction
<1>4. PICK g : Sol(M, g)
  <2> HIDE DEF Sol
  <2> QED BY <1>3
<1>5. Doubles(g, M)
  BY <1>4 DEF Doubles
<1> QED BY <1>5

(* ... and every solution holds the powers of 2.                           *)
LEMMA DoublesArePowers ==
  ASSUME NEW M \in Nat, NEW g, Doubles(g, M)
  PROVE  Powers(g, M)
<1>1. DOMAIN g = 0..M /\ g = [n \in 0..M |-> g[n]] /\ g[0] = 1
  BY DEF Doubles
<1>2. ASSUME NEW n \in 1..M PROVE g[n] = 2 * g[n - 1]
  <2>1. n \in 0..M /\ n # 0
    OBVIOUS
  <2> QED BY <2>1 DEF Doubles
<1> DEFINE S == {n \in Nat : n <= M => g[n] \in Nat}
<1>3. 0 \in S
  BY <1>1
<1>4. ASSUME NEW n \in Nat, n \in S PROVE n + 1 \in S
  <2> SUFFICES ASSUME n + 1 <= M PROVE g[n + 1] \in Nat
    OBVIOUS
  <2>1. n + 1 \in 1..M /\ (n + 1) - 1 = n /\ g[n] \in Nat
    BY <1>4
  <2> QED BY <1>2, <2>1
<1>5. Nat \subseteq S
  <2> HIDE DEF S
  <2> QED BY <1>3, <1>4, SetInduction
<1>6. \A n \in 0..M : g[n] \in Nat
  BY <1>5
<1> QED BY <1>1, <1>2, <1>6 DEF Powers

\* The sums of the property.
BillOf(t, len, T) == MapThenSumSet(LAMBDA s : t[s] * len[s], T)
ShareOf(P, M, len, T) == MapThenSumSet(LAMBDA s : P[M - len[s]], T)

(* They are the sums of the proofs.                                        *)
LEMMA BillIsSum ==
  ASSUME NEW t, NEW T, NEW len, T = DOMAIN len, Weighs(Costs(t, len), T)
  PROVE  BillOf(t, len, T) = Bill(t, len, T)
<1> DEFINE Sol(g) == g = [s \in SUBSET T |->
                            IF s = {} THEN 0
                            ELSE (t[CHOOSE x \in s : TRUE] * len[CHOOSE x \in s : TRUE]) + g[s \ {CHOOSE x \in s : TRUE}]]
           iter == CHOOSE g : Sol(g)
<1>1. PICK w : w = Costs(t, len)
  OBVIOUS
<1>2. \A x \in T : w[x] = t[x] * len[x]
  BY <1>1 DEF Costs
<1>3. ASSUME NEW g PROVE SubsetSums(g, w, T) <=> Sol(g)
  <2>1. ASSUME NEW s \in SUBSET T, s # {}
        PROVE  w[Chosen(s)] = t[CHOOSE x \in s : TRUE] * len[CHOOSE x \in s : TRUE]
    <3>1. Chosen(s) \in T
      BY <2>1, ChosenMember
    <3> QED BY <1>2, <3>1 DEF Chosen
  <2>2. [s \in SUBSET T |-> IF s = {} THEN 0 ELSE w[Chosen(s)] + g[s \ {Chosen(s)}]]
        = [s \in SUBSET T |->
                      IF s = {} THEN 0
                      ELSE (t[CHOOSE x \in s : TRUE] * len[CHOOSE x \in s : TRUE]) + g[s \ {CHOOSE x \in s : TRUE}]]
    BY <2>1 DEF Chosen
  <2>3. SubsetSums(g, w, T) <=> g = [s \in SUBSET T |-> IF s = {} THEN 0 ELSE w[Chosen(s)] + g[s \ {Chosen(s)}]]
    BY DEF SubsetSums
  <2> QED BY <2>2, <2>3, Zenon
<1>4. \E g : SubsetSums(g, w, T)
  BY <1>1, SumIsSolved
<1>5. Sol(iter)
  <2> HIDE DEF Sol
  <2> QED BY <1>3, <1>4
<1>6. SubsetSums(iter, w, T)
  <2> HIDE DEF Sol, iter
  <2> QED BY <1>3, <1>5
<1>7. BillOf(t, len, T) = iter[T]
  BY DEF BillOf, MapThenSumSet, MapThenFoldSet
<1> HIDE DEF iter, Sol
<1>8. iter[T] = SumOver(w, T)
  BY <1>1, <1>6, SumIsAny
<1> QED BY <1>1, <1>7, <1>8 DEF Bill

(* So are the shares.                                                      *)
LEMMA ShareIsSum ==
  ASSUME NEW P, NEW M, NEW T, NEW len, T = DOMAIN len, Weighs(Share(P, M, len), T)
  PROVE  ShareOf(P, M, len, T) = SumOver(Share(P, M, len), T)
<1> DEFINE Sol(g) == g = [s \in SUBSET T |->
                            IF s = {} THEN 0
                            ELSE P[M - len[CHOOSE x \in s : TRUE]] + g[s \ {CHOOSE x \in s : TRUE}]]
           iter == CHOOSE g : Sol(g)
<1>1. PICK w : w = Share(P, M, len)
  OBVIOUS
<1>2. \A x \in T : w[x] = P[M - len[x]]
  BY <1>1 DEF Share
<1>3. ASSUME NEW g PROVE SubsetSums(g, w, T) <=> Sol(g)
  <2>1. ASSUME NEW s \in SUBSET T, s # {} PROVE w[Chosen(s)] = P[M - len[CHOOSE x \in s : TRUE]]
    <3>1. Chosen(s) \in T
      BY <2>1, ChosenMember
    <3> QED BY <1>2, <3>1 DEF Chosen
  <2>2. [s \in SUBSET T |-> IF s = {} THEN 0 ELSE w[Chosen(s)] + g[s \ {Chosen(s)}]]
        = [s \in SUBSET T |->
                      IF s = {} THEN 0
                      ELSE P[M - len[CHOOSE x \in s : TRUE]] + g[s \ {CHOOSE x \in s : TRUE}]]
    BY <2>1 DEF Chosen
  <2>3. SubsetSums(g, w, T) <=> g = [s \in SUBSET T |-> IF s = {} THEN 0 ELSE w[Chosen(s)] + g[s \ {Chosen(s)}]]
    BY DEF SubsetSums
  <2> QED BY <2>2, <2>3, Zenon
<1>4. \E g : SubsetSums(g, w, T)
  BY <1>1, SumIsSolved
<1>5. Sol(iter)
  <2> HIDE DEF Sol
  <2> QED BY <1>3, <1>4
<1>6. SubsetSums(iter, w, T)
  <2> HIDE DEF Sol, iter
  <2> QED BY <1>3, <1>5
<1>7. ShareOf(P, M, len, T) = iter[T]
  BY DEF ShareOf, MapThenSumSet, MapThenFoldSet
<1> HIDE DEF iter, Sol
<1>8. iter[T] = SumOver(w, T)
  BY <1>1, <1>6, SumIsAny
<1> QED BY <1>1, <1>7, <1>8

\* The lengths of the codes of t.
Lengths(t) == [s \in Occurring(t) |-> Len(Codes(t)[s])]

(* For every table the codes of the tree cost no more than other lengths   *)
(* that satisfy Kraft's inequality.                                        *)
LEMMA CodesAreOptimal ==
  ASSUME NEW t \in [Bytes -> Nat], Len(Used(t)) > 1, NEW P, Powers(P, Symbols), NEW T, T = Occurring(t),
         NEW len \in [T -> 1..Symbols], ShareOf(P, Symbols, len, T) <= P[Symbols]
  PROVE  BillOf(t, Lengths(t), T) <= BillOf(t, len, T)
<1>1. Symbols \in Nat /\ T \subseteq Bytes /\ IsFiniteSet(T)
  <2>1. T \subseteq Bytes
    BY DEF Occurring
  <2> QED BY <2>1, CodecsAssumption, BytesFinite
<1>2. len \in [T -> 0..Symbols] /\ DOMAIN len = T
  BY <1>1
<1>3. PICK w : w = [s \in T |-> t[s]]
  OBVIOUS
<1>4. w \in [T -> Nat]
  BY <1>1, <1>3
<1>5. Weighs(Share(P, Symbols, len), T) /\ Weighs(Costs(w, len), T)
  BY <1>1, <1>2, <1>4, LevelsWeigh
<1>6. Costs(t, len) = Costs(w, len)
  BY <1>2, <1>3 DEF Costs
<1>7. BillOf(t, len, T) = Bill(t, len, T)
  BY <1>2, <1>5, <1>6, BillIsSum
<1>8. ShareOf(P, Symbols, len, T) = SumOver(Share(P, Symbols, len), T)
  BY <1>2, <1>5, ShareIsSum
<1>9. PICK B \in Nat : B = Bill(t, len, T)
  <2>1. SumOver(Costs(w, len), T) \in Nat
    BY <1>5, SumType
  <2> QED BY <1>6, <2>1 DEF Bill
<1>10. Priced(t, P, len, B)
  BY <1>1, <1>2, <1>8, <1>9 DEF Priced, Affords
<1>11. DOMAIN Codes(t) = T /\ Codes(t) \in Tables /\ Inner(t, Codes(t)) <= B
  BY <1>10, TreeIsCheapest
<1>12. PICK k : k = Lengths(t)
  OBVIOUS
<1>13. Costs(t, k) = Below(t, Codes(t), T) /\ DOMAIN k = T
  BY <1>12 DEF Costs, Below, Lengths
<1>14. Weighs(Costs(t, k), T)
  BY <1>11, <1>13, InnerWeighs
<1>15. BillOf(t, k, T) = Bill(t, k, T)
  BY <1>13, <1>14, BillIsSum
<1>16. Bill(t, k, T) = Inner(t, Codes(t))
  BY <1>11, <1>13 DEF Bill, Inner
<1> QED BY <1>7, <1>9, <1>11, <1>12, <1>15, <1>16

(* No prefix code for the table of a stream costs fewer bits than the one  *)
(* built from it.                                                          *)
THEOREM OptimalTheorem == Spec => []HuffmanIsOptimal
<1>1. InputInv => HuffmanIsOptimal
  <2> DEFINE P == CHOOSE g : Doubles(g, Symbols)
             T == Occurring(table)
  <2> SUFFICES ASSUME InputInv, kind = "huffman", Len(Used(table)) > 1,
                      NEW len \in [T -> 1..Symbols], ShareOf(P, Symbols, len, T) <= P[Symbols]
               PROVE  BillOf(table, Lengths(table), T) <= BillOf(table, len, T)
    BY Zenon DEF HuffmanIsOptimal, Occurring, BillOf, ShareOf, Doubles, Lengths
  <2>1. Symbols \in Nat /\ Weights \subseteq Nat
    BY CodecsAssumption
  <2>2. table \in [Bytes -> Nat]
    BY <2>1 DEF InputInv
  <2>3. \E g : Doubles(g, Symbols)
    BY <2>1, DoublesExist
  <2>4. Doubles(P, Symbols)
    BY <2>3, Zenon
  <2> HIDE DEF P
  <2>5. Powers(P, Symbols)
    BY <2>1, <2>4, DoublesArePowers
  <2> HIDE DEF T
  <2>6. T = Occurring(table)
    BY DEF T
  <2> QED BY <2>2, <2>5, <2>6, CodesAreOptimal
<1> QED BY <1>1, InputsHold, PTL

=============================================================================
