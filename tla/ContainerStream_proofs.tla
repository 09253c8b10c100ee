------------------------ MODULE ContainerStream_proofs ------------------------
(***************************************************************************)
(* Proofs about the block stream of ContainerStream.tla: whatever the      *)
(* order in which blocks are finished and whatever happens to a container  *)
(* between its writer and its reader.                                      *)
(***************************************************************************)
EXTENDS ContainerStream, Induction, SequenceTheorems

-----------------------------------------------------------------------------
(***************************************************************************)
(* The format.                                                             *)
(***************************************************************************)
Data == Chunks \cup {Damaged}

BlockItems ==
  [kind : {"block"}, body : Data, len : Nat, alg : {"codec", "stored"}, size : Nat]
Items == BlockItems \cup {End, Junk} \cup {Sum(s) : s \in Seq(Data)}

Containers == [version : {2}, valid : BOOLEAN, alg : {"codec", "stored"}, total : Nat, items : Seq(Items)]
LegacyContainers == [version : {1}, valid : BOOLEAN, total : Nat, sum : Seq(Data), items : Seq(Items)]

(* The container pack_stream writes for the blocks bs, or the one block of *)
(* format version 1.                                                       *)
Whole(file, bs) ==
  \/ Len(bs) = 1 /\ file = Legacy(bs[1])
  \/ /\ file \in Containers /\ file.valid
     /\ file.total = BlockSize * Len(bs)
     /\ Len(file.items) = Len(bs) + 2
     /\ \A i \in 1..Len(bs) : file.items[i] = Block(bs[i])
     /\ file.items[Len(bs) + 1] = End /\ file.items[Len(bs) + 2] = Sum(bs)
     /\ file.alg = "codec" <=> \E i \in 1..Len(bs) : bs[i] \in Compressible

(* The bytes item i announces.                                             *)
Length(items, i) == IF IsBlock(items[i]) THEN items[i].len ELSE 0

(* Announced is the running total of these lengths.                        *)
LEMMA AnnouncedFacts ==
  ASSUME NEW items, Len(items) \in Nat,
         \A i \in 1..Len(items) : IsBlock(items[i]) => items[i].len \in Nat
  PROVE  /\ Announced(items)[0] = 0
         /\ \A n \in 0..Len(items) : Announced(items)[n] \in Nat
         /\ \A n \in 1..Len(items) : Announced(items)[n] = Announced(items)[n - 1] + Length(items, n)
<1> DEFINE L == Len(items)
           v == [i \in 1..L |-> Length(items, i)]
           Sol(g) == g = [n \in 0..L |-> IF n = 0 THEN 0 ELSE g[n - 1] + (IF IsBlock(items[n]) THEN items[n].len ELSE 0)]
           a == Announced(items)
<1>1. \A i \in 1..L : v[i] \in Nat
  BY DEF Length
<1>2. \A g : Totals(g, v, L) <=> Sol(g)
  <2> SUFFICES ASSUME NEW g PROVE [n \in 0..L |-> IF n = 0 THEN 0 ELSE g[n - 1] + v[n]] = [n \in 0..L |-> IF n = 0 THEN 0 ELSE g[n - 1] + (IF IsBlock(items[n]) THEN items[n].len ELSE 0)]
    BY Zenon DEF Totals
  <2> QED BY DEF Length
<1>3. \E g : Sol(g)
  <2>1. L \in Nat
    OBVIOUS
  <2> HIDE DEF v, Sol, L
  <2>2. \E g : Totals(g, v, L)
    BY <1>1, <2>1, TotalsExist
  <2> QED BY <1>2, <2>2
<1>4. Sol(a)
  <2>1. a = CHOOSE g : Sol(g)
    BY DEF Announced
  <2> HIDE DEF Sol, a
  <2> QED BY <1>3, <2>1
<1>5. Totals(a, v, L)
  <2> HIDE DEF v, Sol, a
  <2> QED BY <1>2, <1>4
<1>6. \A n \in 0..L : a[n] \in Nat
  <2> HIDE DEF v, Sol, a
  <2> QED BY <1>1, <1>5, TotalsType
<1> HIDE DEF a
<1>7. a[0] = 0 /\ \A n \in 1..L : a[n] = a[n - 1] + v[n]
  <2> HIDE DEF v, L
  <2>1. L \in Nat
    BY DEF L
  <2> QED BY <1>5, <2>1, TotalsGrow
<1>8. ASSUME NEW n \in 1..L PROVE a[n] = a[n - 1] + Length(items, n)
  BY <1>7
<1> QED BY <1>6, <1>7, <1>8 DEF a

(* What kind an item has tells what it is.                                 *)
LEMMA Kinds ==
  ASSUME NEW x \in Items
  PROVE  /\ IsBlock(x) <=> x \in BlockItems
         /\ x = End <=> x.kind = "end"
         /\ x.kind = "sum" <=> \E s \in Seq(Data) : x = Sum(s)
BY DEF Items, BlockItems, IsBlock, End, Junk, Sum

(* The bytes an item announces are a natural number.                       *)
LEMMA ItemLengths ==
  ASSUME NEW items \in Seq(Items)
  PROVE  /\ Len(items) \in Nat
         /\ \A i \in 1..Len(items) : IsBlock(items[i]) => items[i].len \in Nat
<1> SUFFICES ASSUME NEW i \in 1..Len(items), IsBlock(items[i]) PROVE items[i].len \in Nat
  OBVIOUS
<1>1. items[i] \in Items
  OBVIOUS
<1>2. items[i] \in BlockItems
  BY <1>1, Kinds
<1> QED BY <1>2 DEF BlockItems

(* The blocks of a sequence that begins with n of them.                    *)
LEMMA BodiesOf ==
  ASSUME NEW items \in Seq(Items), NEW n \in 0..Len(items),
         \A i \in 1..n : IsBlock(items[i]),
         n < Len(items) => ~IsBlock(items[n + 1])
  PROVE  Bodies(items) = [i \in 1..n |-> items[i].body]
<1>1. {j \in DOMAIN items : \A k \in 1..j : IsBlock(items[k])} = 1..n
  <2>1. ASSUME NEW j \in DOMAIN items, j > n PROVE ~ \A k \in 1..j : IsBlock(items[k])
    BY <2>1
  <2> QED BY <2>1
<1> QED BY <1>1 DEF Bodies

(* Whole blocks announce BlockSize each.                                   *)
LEMMA WholeBlocksTotal ==
  ASSUME NEW items \in Seq(Items), NEW n \in 0..Len(items),
         \A i \in 1..n : IsBlock(items[i]) /\ items[i].len = BlockSize
  PROVE  Announced(items)[n] = BlockSize * n
<1> DEFINE a == Announced(items)
           S == {m \in Nat : m <= n => a[m] = BlockSize * m}
<1>1. a[0] = 0 /\ \A m \in 1..Len(items) : a[m] = a[m - 1] + Length(items, m)
  BY AnnouncedFacts, ItemLengths
<1>2. \A m \in 1..n : a[m] = a[m - 1] + BlockSize
  BY <1>1 DEF Length
<1> HIDE DEF a
<1>3. 0 \in S
  BY <1>1 DEF BlockSize
<1>4. ASSUME NEW m \in Nat, m \in S PROVE m + 1 \in S
  BY <1>2, <1>4 DEF BlockSize
<1>5. n \in S
  <2> HIDE DEF S
  <2> QED BY <1>3, <1>4, SetInduction
<1> QED BY <1>5 DEF a

(* What a container of the blocks bs holds.                                *)
Layout(file, bs) ==
  /\ file.version \in {1, 2} /\ file.valid /\ file.total \in Nat
  /\ file.version = 1 => file \in LegacyContainers /\ file.sum = bs /\ Len(bs) = 1 /\ Len(file.items) = 1
  /\ file.version = 2 => file \in Containers /\ Len(file.items) = Len(bs) + 2
  /\ file.items \in Seq(Items)
  /\ Len(bs) <= Len(file.items)
  /\ \A i \in 1..Len(bs) : file.items[i] = Block(bs[i])
  /\ \A i \in 1..Len(file.items) :
       i > Len(bs) => file.items[i] = (IF i = Len(bs) + 1 THEN End ELSE Sum(bs))

(* A whole container is laid out as its reader expects.                    *)
LEMMA WholeFacts ==
  ASSUME NEW bs \in Seq(Chunks), NEW file, Whole(file, bs)
  PROVE  Layout(file, bs)
<1>1. \A c \in Chunks : Block(c) \in Items
  BY ChunksAssumption DEF Block, Items, BlockItems, BlockSize, CodedSize, Data
<1>2. CASE Len(bs) = 1 /\ file = Legacy(bs[1])
  <2>1. bs[1] \in Chunks /\ bs = <<bs[1]>>
    BY <1>2
  <2>2. <<Block(bs[1])>> \in Seq(Items) /\ <<bs[1]>> \in Seq(Data)
    BY <1>1, <2>1 DEF Data
  <2>3. file \in LegacyContainers /\ file.sum = bs /\ file.items = <<Block(bs[1])>>
    BY <1>2, <2>1, <2>2 DEF Legacy, LegacyContainers, BlockSize
  <2>4. file.version = 1 /\ file.valid /\ file.total = BlockSize
    BY <1>2 DEF Legacy
  <2>5. \A i \in 1..Len(bs) : file.items[i] = Block(bs[i])
    BY <1>2, <2>3
  <2> QED BY <1>2, <2>2, <2>3, <2>4, <2>5 DEF BlockSize, Layout
<1>3. CASE file \in Containers /\ Whole(file, bs) /\ ~(Len(bs) = 1 /\ file = Legacy(bs[1]))
  <2>1. file.version = 2 /\ file.items \in Seq(Items) /\ file.total \in Nat
    BY <1>3 DEF Containers
  <2> QED BY <1>3, <2>1 DEF Whole, Layout
<1> QED BY <1>2, <1>3 DEF Whole

(* What a block of the writer says of itself.                              *)
LEMMA BlockFacts ==
  ASSUME NEW c
  PROVE  IsBlock(Block(c)) /\ Block(c).body = c /\ Block(c).len = BlockSize
BY DEF IsBlock, Block

(* The blocks of a whole container are those it was written from.          *)
LEMMA WholeBodies ==
  ASSUME NEW bs \in Seq(Chunks), NEW file, Whole(file, bs)
  PROVE  Bodies(file.items) = bs
<1>0. Layout(file, bs)
  BY WholeFacts
<1>1. \A i \in 1..Len(bs) : IsBlock(file.items[i]) /\ file.items[i].body = bs[i]
  BY <1>0, BlockFacts DEF Layout
<1>2. Len(bs) < Len(file.items) => ~IsBlock(file.items[Len(bs) + 1])
  BY <1>0 DEF End, IsBlock, Layout
<1>3. Bodies(file.items) = [i \in 1..Len(bs) |-> file.items[i].body]
  <2>1. file.items \in Seq(Items) /\ Len(bs) \in 0..Len(file.items)
    BY <1>0 DEF Layout
  <2> QED BY <1>1, <1>2, <2>1, BodiesOf
<1>4. [i \in 1..Len(bs) |-> file.items[i].body] = [i \in 1..Len(bs) |-> bs[i]]
  BY <1>1
<1> QED BY <1>3, <1>4

(* read_info accepts what pack_stream writes.                              *)
LEMMA WholeInfo ==
  ASSUME NEW bs \in Seq(Chunks), NEW file, Whole(file, bs)
  PROVE  InfoOk(file)
<1>0. Layout(file, bs)
  BY WholeFacts
<1>1. CASE file.version = 1
  BY <1>1, <1>0 DEF InfoOk, Whole, Legacy, Containers, Layout
<1>2. CASE file.version = 2
  <2> DEFINE n == Len(bs)
             a == Announced(file.items)
  <2>1. /\ file.valid /\ file.total = BlockSize * n /\ Len(file.items) = n + 2 /\ n \in Nat
        /\ file.items[n + 1] = End /\ file.items[n + 2] = Sum(bs)
        /\ file.items \in Seq(Items)
    BY <1>2, <1>0 DEF Whole, Legacy, Layout
  <2>2. \A i \in 1..n : IsBlock(file.items[i]) /\ file.items[i].len = BlockSize
    BY <1>0, BlockFacts DEF Layout
  <2>3. \A m \in 0..n : a[m] = BlockSize * m
    BY <2>1, <2>2, WholeBlocksTotal
  <2>4. ASSUME NEW i \in 1..n
        PROVE  a[i - 1] <= file.total /\ ValidBlock(file.items[i], file.total - a[i - 1])
    <3>1. a[i - 1] = BlockSize * (i - 1)
      BY <2>3
    <3>2. file.total - a[i - 1] >= BlockSize /\ a[i - 1] <= file.total
      BY <2>1, <3>1 DEF BlockSize
    <3>3. file.items[i] = Block(bs[i])
      BY <1>0 DEF Layout
    <3> QED BY <3>2, <3>3 DEF ValidBlock, IsBlock, Block, BlockSize, CodedSize, Least
  <2>5. a[n] = file.total
    BY <2>1, <2>3
  <2>6. file.items[n + 2].kind = "sum"
    BY <2>1 DEF Sum
  <2> HIDE DEF a, n
  <2>7. n >= 0 /\ Len(file.items) - 2 = n
    BY <2>1
  <2> QED BY <1>2, <2>1, <2>4, <2>5, <2>6, <2>7 DEF InfoOk, a
<1> QED BY <1>1, <1>2, <1>0 DEF Layout

-----------------------------------------------------------------------------
(***************************************************************************)
(* What can arrive at the reader.                                          *)
(***************************************************************************)
(* Either every checksum in the items is that of the packed blocks, or one *)
(* was replaced and no block was.                                          *)
Sums(items, bs) ==
  \/ \A i \in 1..Len(items) : items[i].kind = "sum" => items[i].of = bs
  \/ \A i \in 1..Len(items) :
       /\ items[i].kind = "sum" => items[i].of \in {bs, <<Damaged>>}
       /\ IsBlock(items[i]) => items[i].body # Damaged

Derived(ar, file, bs) ==
  /\ ar \in Containers \cup LegacyContainers
  /\ ar.version = file.version
  /\ ar.version = 1 => ar.sum = bs /\ (ar.items # <<>> => IsBlock(ar.items[1]))
  /\ Sums(ar.items, bs)

(* No item of a whole container is damaged, and its checksum is that of    *)
(* its blocks.                                                             *)
LEMMA LayoutItem ==
  ASSUME NEW bs \in Seq(Chunks), NEW file, Layout(file, bs), NEW j \in 1..Len(file.items)
  PROVE  /\ file.items[j].kind = "sum" => file.items[j].of = bs
         /\ IsBlock(file.items[j]) => file.items[j].body # Damaged /\ file.items[j].len = BlockSize
         /\ file.items[j] \in Items
<1>1. CASE j <= Len(bs)
  <2>1. file.items[j] = Block(bs[j]) /\ bs[j] \in Chunks
    BY <1>1 DEF Layout
  <2> QED BY <2>1, ChunksAssumption DEF Layout, Block, IsBlock
<1>2. CASE j > Len(bs)
  BY <1>2 DEF Layout, End, Sum, IsBlock
<1> QED BY <1>1, <1>2 DEF Layout

(* Items of the container, in any order and number, and one other kind.    *)
LEMMA ChangedItems ==
  ASSUME NEW bs \in Seq(Chunks), NEW file, Layout(file, bs),
         NEW x \in Items, x.kind = "sum" => x.of = <<Damaged>>,
         NEW items \in Seq(Items),
         \A i \in 1..Len(items) :
            items[i] = x \/ \E j \in 1..Len(file.items) : items[i] = file.items[j]
  PROVE  Sums(items, bs)
<1>1. CASE x.kind = "sum"
  <2>1. ~IsBlock(x)
    BY <1>1 DEF IsBlock
  <2> SUFFICES ASSUME NEW i \in 1..Len(items)
               PROVE  /\ items[i].kind = "sum" => items[i].of \in {bs, <<Damaged>>}
                      /\ IsBlock(items[i]) => items[i].body # Damaged
    BY DEF Sums
  <2>2. CASE items[i] = x
    BY <1>1, <2>1, <2>2
  <2>3. CASE \E j \in 1..Len(file.items) : items[i] = file.items[j]
    BY <2>3, LayoutItem
  <2> QED BY <2>2, <2>3
<1>2. CASE x.kind # "sum"
  <2> SUFFICES ASSUME NEW i \in 1..Len(items), items[i].kind = "sum" PROVE items[i].of = bs
    BY DEF Sums
  <2>1. PICK j \in 1..Len(file.items) : items[i] = file.items[j]
    BY <1>2
  <2> QED BY <2>1, LayoutItem
<1> QED BY <1>1, <1>2

(* A container with other items is derived when their checksums allow it.  *)
LEMMA OtherItems ==
  ASSUME NEW file \in Containers \cup LegacyContainers, NEW items \in Seq(Items),
         NEW bs, file.version = 1 => file.sum = bs /\ (items # <<>> => IsBlock(items[1])),
         Sums(items, bs)
  PROVE  Derived([file EXCEPT !.items = items], file, bs)
<1>1. CASE file \in Containers
  <2>1. file.version = 2
    BY <1>1 DEF Containers
  <2>2. [file EXCEPT !.items = items] \in Containers
    BY <1>1 DEF Containers
  <2>3. [file EXCEPT !.items = items].items = items /\ [file EXCEPT !.items = items].version = 2
    BY <1>1 DEF Containers
  <2> QED BY <2>1, <2>2, <2>3 DEF Derived
<1>2. CASE file \in LegacyContainers
  <2>1. file.version = 1
    BY <1>2 DEF LegacyContainers
  <2>2. [file EXCEPT !.items = items] \in LegacyContainers
    BY <1>2 DEF LegacyContainers
  <2>3. /\ [file EXCEPT !.items = items].items = items
        /\ [file EXCEPT !.items = items].version = 1
        /\ [file EXCEPT !.items = items].sum = file.sum
    BY <1>2 DEF LegacyContainers
  <2> QED BY <2>1, <2>2, <2>3 DEF Derived
<1> QED BY <1>1, <1>2

(* A whole container is derived from itself.                               *)
LEMMA SelfDerived ==
  ASSUME NEW bs \in Seq(Chunks), NEW file, Layout(file, bs)
  PROVE  /\ file \in Containers \cup LegacyContainers
         /\ file.items \in Seq(Items)
         /\ file.version = 1 => file.sum = bs /\ IsBlock(file.items[1]) /\ file.items # <<>>
         /\ Sums(file.items, bs)
<1>1. ASSUME file.version = 1 PROVE IsBlock(file.items[1]) /\ file.items # <<>>
  <2>1. Len(bs) = 1 /\ file.items \in Seq(Items)
    BY <1>1 DEF Layout
  <2>2. file.items[1] = Block(bs[1]) /\ Len(file.items) >= 1
    BY <2>1 DEF Layout
  <2> QED BY <2>1, <2>2, BlockFacts
<1>2. Sums(file.items, bs)
  BY LayoutItem DEF Sums
<1> QED BY <1>1, <1>2 DEF Layout

(* A sequence with one item less.                                          *)
Without(s, i) == SubSeq(s, 1, i - 1) \o SubSeq(s, i + 1, Len(s))

(* What is left when one item is removed.                                  *)
LEMMA Removal ==
  ASSUME NEW S, NEW s \in Seq(S), NEW i \in 1..Len(s)
  PROVE  /\ Without(s, i) \in Seq(S) /\ Len(Without(s, i)) = Len(s) - 1
         /\ \A k \in 1..Len(s) - 1 : Without(s, i)[k] = s[IF k < i THEN k ELSE k + 1]
<1> DEFINE a == SubSeq(s, 1, i - 1)
           b == SubSeq(s, i + 1, Len(s))
           t == Without(s, i)
<1>0. i \in Nat /\ Len(s) \in Nat /\ 1 <= i /\ i <= Len(s)
  OBVIOUS
<1>1. a \in Seq(S) /\ Len(a) = i - 1 /\ \A k \in 1..i - 1 : a[k] = s[k]
  BY <1>0
<1>2. b \in Seq(S) /\ Len(b) = Len(s) - i
      /\ \A k \in 1..Len(s) - i : b[k] = s[i + k]
  <2>1. /\ b = [k \in 1..Len(s) - i |-> s[i + 1 + k - 1]]
    BY <1>0, SubSeqProperties
  <2>2. \A k \in 1..Len(s) - i : s[i + 1 + k - 1] = s[i + k] /\ i + k \in 1..Len(s)
    BY <1>0
  <2> QED BY <1>0, <2>1, <2>2
<1> HIDE DEF a, b, t
<1>3. t = a \o b
  BY DEF a, b, t, Without
<1>4. t \in Seq(S) /\ Len(t) = Len(s) - 1
  <2>1. Len(a) + Len(b) = Len(s) - 1
    BY <1>0, <1>1, <1>2
  <2> QED BY <1>1, <1>2, <1>3, <2>1, ConcatProperties
<1>5. ASSUME NEW k \in 1..Len(s) - 1 PROVE t[k] = s[IF k < i THEN k ELSE k + 1]
  <2>1. CASE k < i
    BY <1>0, <1>1, <1>2, <1>3, <2>1, ConcatProperties
  <2>2. CASE k >= i
    <3>1. t[k] = b[k - (i - 1)] /\ k - (i - 1) \in 1..Len(s) - i
      BY <1>0, <1>1, <1>2, <1>3, <2>2, ConcatProperties
    <3>2. b[k - (i - 1)] = s[i + (k - (i - 1))] /\ i + (k - (i - 1)) = k + 1
      BY <1>0, <1>2, <3>1
    <3> QED BY <1>0, <2>2, <3>1, <3>2
  <2> QED BY <1>0, <1>4, <2>1, <2>2
<1> QED BY <1>4, <1>5 DEF t
(* The kinds of change, one set each.                                      *)
Cut(file)     == {[file EXCEPT !.items = SubSeq(file.items, 1, k)] : k \in 0..Len(file.items) - 1}
Grown(file)   == {[file EXCEPT !.items = Append(file.items, Junk)], [file EXCEPT !.valid = FALSE]}
Sized(file)   == {[file EXCEPT !.total = t] : t \in {file.total + BlockSize, file.total + 1}}
Swapped(file) ==
  {[file EXCEPT !.items[i] = file.items[i - 1], !.items[i - 1] = file.items[i]] : i \in DOMAIN file.items \ {1}}
Lost(file, at) ==
  {[file EXCEPT !.items = Without(file.items, i)] : i \in at}
Spoilt(file, at)  == {WithItem(file, i, Junk) : i \in at}
Summed(file, at)  == {WithItem(file, i, Sum(<<Damaged>>)) : i \in at}
Harmed(file, at)  == {WithItem(file, i, [file.items[i] EXCEPT !.body = Damaged]) : i \in at}
Resized(file, at) == {WithItem(file, i, [file.items[i] EXCEPT !.len = n]) : i \in at, n \in {1, BlockSize + 1}}
Unpacked(file, at) == {WithItem(file, i, [file.items[i] EXCEPT !.size = BlockSize]) : i \in at}

(* Changed is the union of the kinds of change.                            *)
LEMMA ChangedKinds ==
  ASSUME NEW file, NEW blocks, NEW framed, NEW coded, NEW sums,
         blocks = {i \in DOMAIN file.items : IsBlock(file.items[i])},
         framed = IF file.version = 1 THEN {} ELSE DOMAIN file.items,
         coded = {j \in blocks \cap framed : file.items[j].alg = "codec"},
         sums = {j \in DOMAIN file.items : file.items[j].kind = "sum"}
  PROVE  Changed(file) =
           Cut(file) \cup Grown(file) \cup Sized(file) \cup Spoilt(file, framed) \cup Summed(file, sums)
           \cup Lost(file, blocks) \cup Swapped(file) \cup Harmed(file, blocks)
           \cup Resized(file, blocks \cap framed) \cup Unpacked(file, coded)
BY DEF Changed, Without, Cut, Grown, Sized, Swapped, Lost, Spoilt, Summed, Harmed, Resized, Unpacked

(* Items of the container and one other make a derived container.          *)
LEMMA EditedItems ==
  ASSUME NEW bs \in Seq(Chunks), NEW file, Layout(file, bs),
         NEW x \in Items, x.kind = "sum" => x.of = <<Damaged>>,
         NEW items \in Seq(Items),
         \A i \in 1..Len(items) :
            items[i] = x \/ \E j \in 1..Len(file.items) : items[i] = file.items[j],
         file.version = 1 /\ items # <<>> => IsBlock(items[1])
  PROVE  Derived([file EXCEPT !.items = items], file, bs)
<1>1. Sums(items, bs)
  BY ChangedItems
<1>2. file \in Containers \cup LegacyContainers /\ (file.version = 1 => file.sum = bs)
  BY SelfDerived
<1> QED BY <1>1, <1>2, OtherItems

(* One item is replaced.                                                   *)
LEMMA EditedItem ==
  ASSUME NEW bs \in Seq(Chunks), NEW file, Layout(file, bs),
         NEW x \in Items, x.kind = "sum" => x.of = <<Damaged>>,
         NEW i \in 1..Len(file.items),
         file.version = 1 => IsBlock(x)
  PROVE  Derived(WithItem(file, i, x), file, bs)
<1> DEFINE items == [file.items EXCEPT ![i] = x]
<1>1. file.items \in Seq(Items)
  BY SelfDerived
<1>2. items \in Seq(Items) /\ Len(items) = Len(file.items)
  BY <1>1
<1>3. \A k \in 1..Len(items) : items[k] = x \/ \E j \in 1..Len(file.items) : items[k] = file.items[j]
  BY <1>1, <1>2
<1>4. file.version = 1 => IsBlock(items[1])
  <2>1. file.version = 1 => IsBlock(file.items[1])
    BY SelfDerived
  <2> QED BY <2>1, <1>1
<1>5. WithItem(file, i, x) = [file EXCEPT !.items = items]
  BY DEF WithItem
<1> HIDE DEF items
<1> QED BY <1>2, <1>3, <1>4, <1>5, EditedItems

(* A block that replaces an item makes a derived container.                *)
LEMMA BlockEdited ==
  ASSUME NEW bs \in Seq(Chunks), NEW file, Layout(file, bs),
         NEW x \in BlockItems, NEW i \in 1..Len(file.items)
  PROVE  Derived(WithItem(file, i, x), file, bs)
<1>1. x \in Items /\ x.kind # "sum" /\ IsBlock(x)
  BY DEF Items, BlockItems, IsBlock
<1> QED BY <1>1, EditedItem

(* Whatever happens to an archive, it is derived from the destination.     *)
LEMMA ChangedFacts ==
  ASSUME NEW bs \in Seq(Chunks), NEW file, Layout(file, bs), NEW ar \in {file} \cup Changed(file)
  PROVE  Derived(ar, file, bs)
<1> DEFINE items == file.items
           blocks == {i \in DOMAIN file.items : IsBlock(file.items[i])}
           framed == IF file.version = 1 THEN {} ELSE DOMAIN file.items
           coded == {j \in blocks \cap framed : file.items[j].alg = "codec"}
           sums == {j \in DOMAIN file.items : file.items[j].kind = "sum"}
<1>1. Changed(file) =
           Cut(file) \cup Grown(file) \cup Sized(file) \cup Spoilt(file, framed) \cup Summed(file, sums)
           \cup Lost(file, blocks) \cup Swapped(file) \cup Harmed(file, blocks)
           \cup Resized(file, blocks \cap framed) \cup Unpacked(file, coded)
  BY ChangedKinds
<1>2. /\ file \in Containers \cup LegacyContainers /\ items \in Seq(Items)
      /\ file.version = 1 => file.sum = bs /\ IsBlock(items[1]) /\ items # <<>>
      /\ Sums(items, bs)
      /\ Len(items) \in Nat /\ DOMAIN items = 1..Len(items)
  BY SelfDerived
<1>3. CASE ar = file
  BY <1>2, <1>3 DEF Derived
<1>0. /\ Junk \in Items /\ Junk.kind # "sum"
      /\ Sum(<<Damaged>>) \in Items /\ Sum(<<Damaged>>).of = <<Damaged>>
  <2>1. <<Damaged>> \in Seq(Data)
    BY DEF Data
  <2> QED BY <2>1 DEF Items, Junk, Sum
<1>4. CASE ar \in Cut(file)
  <2>1. PICK k \in 0..Len(items) - 1 : ar = [file EXCEPT !.items = SubSeq(items, 1, k)]
    BY <1>4 DEF Cut
  <2> DEFINE new == SubSeq(items, 1, k)
  <2>2. new \in Seq(Items) /\ Len(new) = k /\ \A i \in 1..k : new[i] = items[i]
    BY <1>2
  <2>3. file.version = 1 /\ new # <<>> => IsBlock(new[1])
    BY <1>2, <2>2
  <2>4. \A i \in 1..Len(new) : new[i] = Junk \/ \E j \in 1..Len(items) : new[i] = items[j]
    BY <1>2, <2>2
  <2> HIDE DEF new
  <2> QED BY <1>0, <2>1, <2>2, <2>3, <2>4, EditedItems DEF new
<1>5. CASE ar \in Grown(file)
  <2>1. CASE ar = [file EXCEPT !.items = Append(items, Junk)]
    <3> DEFINE new == Append(items, Junk)
    <3>1. new \in Seq(Items) /\ Len(new) = Len(items) + 1
          /\ \A i \in 1..Len(items) : new[i] = items[i]
          /\ new[Len(items) + 1] = Junk
      BY <1>0, <1>2
    <3>2. file.version = 1 => IsBlock(new[1])
      <4>1. file.version = 1 => Len(items) >= 1
        BY <1>2
      <4> QED BY <1>2, <3>1, <4>1
    <3>3. \A i \in 1..Len(new) : new[i] = Junk \/ \E j \in 1..Len(items) : new[i] = items[j]
      BY <1>2, <3>1
    <3> HIDE DEF new
    <3> QED BY <1>0, <2>1, <3>1, <3>2, <3>3, EditedItems DEF new
  <2>2. CASE ar = [file EXCEPT !.valid = FALSE]
    <3>1. CASE file \in Containers
      <4>1. ar \in Containers /\ ar.version = 2 /\ ar.items = items /\ file.version = 2
        BY <2>2, <3>1 DEF Containers
      <4> QED BY <1>2, <4>1 DEF Derived
    <3>2. CASE file \in LegacyContainers
      <4>1. /\ ar \in LegacyContainers /\ ar.version = 1 /\ file.version = 1
            /\ ar.items = items /\ ar.sum = file.sum
        BY <2>2, <3>2 DEF LegacyContainers
      <4> QED BY <1>2, <4>1 DEF Derived
    <3> QED BY <1>2, <3>1, <3>2
  <2> QED BY <1>5, <2>1, <2>2 DEF Grown
<1>6. CASE ar \in Sized(file)
  <2>1. PICK t \in Nat : ar = [file EXCEPT !.total = t]
    <3>1. file.total \in Nat
      BY <1>2 DEF Containers, LegacyContainers
    <3> QED BY <1>6, <3>1 DEF Sized, BlockSize
  <2>2. CASE file \in Containers
    <3>1. ar \in Containers /\ ar.version = 2 /\ ar.items = items /\ file.version = 2
      BY <2>1, <2>2 DEF Containers
    <3> QED BY <1>2, <3>1 DEF Derived
  <2>3. CASE file \in LegacyContainers
    <3>1. /\ ar \in LegacyContainers /\ ar.version = 1 /\ file.version = 1
          /\ ar.items = items /\ ar.sum = file.sum
      BY <2>1, <2>3 DEF LegacyContainers
    <3> QED BY <1>2, <3>1 DEF Derived
  <2> QED BY <1>2, <2>2, <2>3
<1>7. CASE ar \in Spoilt(file, framed)
  <2>1. PICK i \in framed : ar = WithItem(file, i, Junk)
    BY <1>7 DEF Spoilt
  <2>2. file.version # 1 /\ i \in 1..Len(items)
    BY <1>2
  <2> QED BY <1>0, <2>1, <2>2, EditedItem
<1>8. CASE ar \in Summed(file, sums)
  <2>1. PICK i \in sums : ar = WithItem(file, i, Sum(<<Damaged>>))
    BY <1>8 DEF Summed
  <2>2. i \in 1..Len(items) /\ items[i].kind = "sum"
    BY <1>2
  <2>3. file.version # 1
    <3>1. file.version = 1 => Len(items) = 1 /\ i = 1
      BY <2>2 DEF Layout
    <3>2. ~IsBlock(items[i])
      BY <2>2 DEF IsBlock
    <3> QED BY <1>2, <3>1, <3>2
  <2> QED BY <1>0, <2>1, <2>2, <2>3, EditedItem
<1>9. CASE ar \in Lost(file, blocks)
  <2>1. PICK i \in blocks : ar = [file EXCEPT !.items = Without(items, i)]
    BY <1>9 DEF Lost
  <2>2. i \in 1..Len(items)
    BY <1>2
  <2> DEFINE new == Without(items, i)
  <2>3. /\ new \in Seq(Items) /\ Len(new) = Len(items) - 1
        /\ \A k \in 1..Len(items) - 1 : new[k] = items[IF k < i THEN k ELSE k + 1]
    BY <1>2, <2>2, Removal
  <2> HIDE DEF new
  <2>4. \A k \in 1..Len(new) : new[k] = Junk \/ \E j \in 1..Len(items) : new[k] = items[j]
    BY <1>2, <2>2, <2>3
  <2>5. file.version = 1 => new = <<>>
    BY <1>2, <2>3 DEF Layout
  <2> QED BY <1>0, <2>1, <2>3, <2>4, <2>5, EditedItems DEF new
<1>10. CASE ar \in Swapped(file)
  <2>1. PICK i \in DOMAIN items \ {1} : ar = [file EXCEPT !.items[i] = items[i - 1], !.items[i - 1] = items[i]]
    BY <1>10 DEF Swapped
  <2>2. i \in 2..Len(items) /\ i - 1 \in 1..Len(items)
    BY <1>2
  <2> DEFINE new == [[items EXCEPT ![i] = items[i - 1]] EXCEPT ![i - 1] = items[i]]
  <2>3. /\ new \in Seq(Items) /\ Len(new) = Len(items)
        /\ \A k \in 1..Len(new) : new[k] = items[IF k = i THEN i - 1 ELSE IF k = i - 1 THEN i ELSE k]
    BY <1>2, <2>2
  <2>4. file.version # 1
    BY <1>2, <2>2 DEF Layout
  <2>5. ar = [file EXCEPT !.items = new]
    BY <2>1, <2>2, <1>2 DEF Containers, LegacyContainers
  <2> HIDE DEF new
  <2>6. \A k \in 1..Len(new) : new[k] = Junk \/ \E j \in 1..Len(items) : new[k] = items[j]
    BY <1>2, <2>2, <2>3
  <2> QED BY <1>0, <2>3, <2>4, <2>5, <2>6, EditedItems
<1>11. CASE ar \in Harmed(file, blocks)
  <2>1. PICK i \in blocks : ar = WithItem(file, i, [items[i] EXCEPT !.body = Damaged])
    BY <1>11 DEF Harmed
  <2>2. i \in 1..Len(items) /\ items[i] \in BlockItems
    BY <1>2, Kinds
  <2>3. [items[i] EXCEPT !.body = Damaged] \in BlockItems
    BY <2>2 DEF BlockItems, Data
  <2> QED BY <2>1, <2>2, <2>3, BlockEdited
<1>12. CASE ar \in Resized(file, blocks \cap framed)
  <2>1. PICK i \in blocks, n \in Nat : ar = WithItem(file, i, [items[i] EXCEPT !.len = n])
    <3>1. PICK i \in blocks \cap framed, n \in {1, BlockSize + 1} :
                ar = WithItem(file, i, [items[i] EXCEPT !.len = n])
      BY <1>12 DEF Resized
    <3>2. n \in Nat
      BY DEF BlockSize
    <3> QED BY <3>1, <3>2
  <2>2. i \in 1..Len(items) /\ items[i] \in BlockItems
    BY <1>2, Kinds
  <2>3. [items[i] EXCEPT !.len = n] \in BlockItems
    BY <2>2 DEF BlockItems
  <2> QED BY <2>1, <2>2, <2>3, BlockEdited
<1>13. CASE ar \in Unpacked(file, coded)
  <2>1. PICK i \in blocks : ar = WithItem(file, i, [items[i] EXCEPT !.size = BlockSize])
    BY <1>13 DEF Unpacked
  <2>2. i \in 1..Len(items) /\ items[i] \in BlockItems
    BY <1>2, Kinds
  <2>3. [items[i] EXCEPT !.size = BlockSize] \in BlockItems
    BY <2>2 DEF BlockItems, BlockSize
  <2> QED BY <2>1, <2>2, <2>3, BlockEdited
<1> QED
  <2> HIDE DEF blocks, framed, coded, sums
  <2> QED BY <1>1, <1>3, <1>4, <1>5, <1>6, <1>7, <1>8, <1>9, <1>10, <1>11, <1>12, <1>13

-----------------------------------------------------------------------------
(***************************************************************************)
(* The inductive invariant.                                                *)
(***************************************************************************)
Reasons == {"none", "cancelled", "pool", "changed", "write", "power", "consumer", "structure", "corrupt"}
Futures == [job : Chunks \cup Items, state : {"running", "done", "failed", "broken"}]

Types ==
  /\ stage \in Stages /\ feeding \in BOOLEAN /\ pool \in {"up", "broken"}
  /\ reason \in Reasons
  /\ source \in Seq(Chunks) /\ digest \in Seq(Data)
  /\ out \in Seq(Data) /\ held \in Seq(Data) /\ Len(held) <= 1
  /\ pending \in Seq(Futures) /\ left \in Nat

(* While a container is written, its items are the first blocks that were  *)
(* read and the deque holds the others.                                    *)
PackingInv ==
  stage = "packing" =>
    /\ archive \in Containers /\ archive.valid /\ archive.alg = "stored"
    /\ Len(digest) = Len(archive.items) + Len(pending)
    /\ \A i \in 1..Len(digest) : digest[i] \in Chunks
    /\ \A i \in 1..Len(archive.items) : archive.items[i] = Block(digest[i])
    /\ \A i \in 1..Len(pending) : pending[i].job = digest[Len(archive.items) + i]
    /\ Len(pending) <= Depth

(* What is published is whole, and nothing is before.                      *)
PublishedInv ==
  /\ dest # Previous => \E bs \in Seq(Chunks) : Whole(dest, bs)
  /\ stage \in {"sealed", "synced"} => digest \in Seq(Chunks) /\ Whole(archive, digest)
  /\ stage \in {"packing", "sealed", "synced", "published"} => reason = "none" /\ out = <<>> /\ held = <<>>
  /\ stage \in {"packing", "sealed", "synced"} => dest = Previous
  /\ stage = "failed" /\ reason # "power" => dest = Previous
  /\ stage \in {"published", "reading", "restored", "rejected"} => dest # Previous
  /\ stage = "failed" => reason \notin {"structure", "corrupt"}

(* What is read comes from what was published.                             *)
ArchiveInv ==
  stage \in {"reading", "restored", "rejected"} =>
    Derived(archive, dest, Bodies(dest.items))

(* The items the reader has taken are blocks that fit, and it knows how    *)
(* many bytes are left.                                                    *)
Taken == Len(digest) + Len(pending)
Fit(n) ==
  \A i \in 1..n :
    /\ Announced(archive.items)[i - 1] <= archive.total
    /\ ValidBlock(archive.items[i], archive.total - Announced(archive.items)[i - 1])

(* A block is decoded to its announced length, and one that the packer     *)
(* wrote is decoded.                                                       *)
Possible(future) ==
  /\ future.state = "done" => future.job.len = BlockSize
  /\ future.state = "failed" => future.job.len # BlockSize \/ future.job.body = Damaged

ReadingInv ==
  stage = "reading" =>
    /\ reason = "none"
    /\ archive.version = 1 => digest = <<>> /\ pending = <<>>
    /\ Taken <= Len(archive.items) /\ Fit(Taken)
    /\ Announced(archive.items)[Taken] <= archive.total
    /\ left = archive.total - Announced(archive.items)[Taken]
    /\ ~feeding => Taken < Len(archive.items) /\ archive.items[Taken + 1] = End /\ left = 0
    /\ \A i \in 1..Len(digest) : digest[i] = archive.items[i].body /\ archive.items[i].len = BlockSize
    /\ \A i \in 1..Len(pending) : pending[i].job = archive.items[Len(digest) + i]
    /\ \A i \in 1..Len(pending) : Possible(pending[i])

(* What was decoded is released but for the last block.                    *)
ReleasedInv ==
  stage \in {"reading", "rejected"} =>
    /\ digest = out \o held /\ (digest # <<>> => Len(held) = 1)
    /\ BlockSize * Len(digest) <= archive.total

(* How a reading ended.                                                    *)
EndedInv ==
  /\ reason = "structure" => ~InfoOk(archive)
  /\ stage = "restored" => InfoOk(archive) /\ out = Bodies(dest.items) /\ reason = "none"
  /\ stage = "rejected" => reason \in {"cancelled", "pool", "consumer", "structure", "corrupt"}
  /\ stage = "rejected" /\ archive = dest => reason \in {"cancelled", "pool", "consumer"}

(* What is renamed was synced before, and nothing loses it again.          *)
SyncedInv ==
  synced \in BOOLEAN /\ (stage \in {"synced", "published"} => synced)

IInv ==
  Types /\ PackingInv /\ PublishedInv /\ ArchiveInv /\ ReadingInv /\ ReleasedInv /\ EndedInv

(* What is published is whole, and read_info accepts it.                   *)
LEMMA Publication ==
  ASSUME PublishedInv, dest # Previous
  PROVE  /\ Bodies(dest.items) \in Seq(Chunks)
         /\ Whole(dest, Bodies(dest.items))
         /\ Layout(dest, Bodies(dest.items))
         /\ InfoOk(dest)
<1>1. PICK bs \in Seq(Chunks) : Whole(dest, bs)
  BY DEF PublishedInv
<1>2. Bodies(dest.items) = bs
  BY <1>1, WholeBodies
<1> QED BY <1>1, <1>2, WholeFacts, WholeInfo

(* The invariant implies the properties the runs check.                    *)
LEMMA InvariantTypes ==
  ASSUME IInv, SyncedInv PROVE TypeOK
<1>1. \A i \in DOMAIN pending : pending[i].state \in {"running", "done", "failed", "broken"}
  <2>1. \A i \in DOMAIN pending : pending[i] \in Futures
    BY DEF IInv, Types
  <2> QED BY <2>1 DEF Futures
<1> QED BY <1>1 DEF IInv, Types, TypeOK, SyncedInv, Data, Reasons

(* What is written and what is in flight is what was read.                 *)
LEMMA InvariantPacked ==
  ASSUME IInv PROVE PackedInOrder
<1> SUFFICES ASSUME stage = "packing"
             PROVE  /\ digest = Bodies(archive.items) \o [i \in DOMAIN pending |-> pending[i].job]
                    /\ Len(pending) <= Depth
  BY DEF PackedInOrder
<1> DEFINE n == Len(archive.items)
           m == Len(pending)
           jobs == [i \in DOMAIN pending |-> pending[i].job]
<1>1. /\ archive.items \in Seq(Items) /\ n \in Nat /\ pending \in Seq(Futures) /\ m \in Nat
      /\ digest \in Seq(Data) /\ Len(digest) = n + m
      /\ \A i \in 1..n : archive.items[i] = Block(digest[i])
      /\ \A i \in 1..m : pending[i].job = digest[n + i]
  <2>1. archive.items \in Seq(Items)
    BY DEF IInv, PackingInv, Containers
  <2>2. pending \in Seq(Futures) /\ digest \in Seq(Data)
    BY DEF IInv, Types
  <2> QED BY <2>1, <2>2 DEF IInv, PackingInv
<1>2. \A i \in 1..n : IsBlock(archive.items[i]) /\ archive.items[i].body = digest[i]
  BY <1>1, BlockFacts
<1>3. Bodies(archive.items) = [i \in 1..n |-> archive.items[i].body]
  <2>1. n \in 0..Len(archive.items) /\ ~(n < Len(archive.items))
    BY <1>1
  <2> HIDE DEF n
  <2> QED BY <1>1, <1>2, <2>1, BodiesOf
<1>4. Bodies(archive.items) = [i \in 1..n |-> digest[i]]
  BY <1>2, <1>3
<1>5. jobs = [i \in 1..m |-> digest[n + i]]
  <2>1. DOMAIN pending = 1..m
    BY <1>1
  <2> HIDE DEF m, n
  <2> QED BY <1>1, <2>1
<1>6. \A i \in 1..n + m : digest[i] \in Data
  BY <1>1
<1> HIDE DEF jobs, n, m
<1>7. [i \in 1..n |-> digest[i]] \in Seq(Data) /\ [i \in 1..m |-> digest[n + i]] \in Seq(Data)
  BY <1>1, <1>6
<1>8. digest = [i \in 1..n |-> digest[i]] \o [i \in 1..m |-> digest[n + i]]
  BY <1>1, <1>7
<1> QED BY <1>4, <1>5, <1>8 DEF IInv, PackingInv, jobs

(* A published destination is whole.                                       *)
LEMMA InvariantWhole ==
  ASSUME IInv PROVE DestinationWhole
<1>0. stage = "failed" /\ reason # "power" => dest = Previous
  BY DEF IInv, PublishedInv
<1> SUFFICES ASSUME dest # Previous PROVE DestinationWhole
  BY <1>0 DEF DestinationWhole
<1> DEFINE bs == Bodies(dest.items)
<1>1. bs \in Seq(Chunks) /\ Whole(dest, bs) /\ Layout(dest, bs) /\ InfoOk(dest)
  BY Publication DEF IInv
<1> HIDE DEF bs
<1>2. CASE dest.version = 1
  BY <1>0, <1>1, <1>2 DEF DestinationWhole, Layout, bs
<1>3. CASE dest.version = 2
  <2>1. dest.alg = "codec" <=> \E i \in 1..Len(bs) : bs[i] \in Compressible
    BY <1>1, <1>3 DEF Whole, Legacy
  <2>2. \A i \in DOMAIN dest.items : IsBlock(dest.items[i]) => i \in 1..Len(bs)
    BY <1>1, <1>3 DEF Layout, IsBlock, End, Sum
  <2>3. \A i \in 1..Len(bs) : /\ IsBlock(dest.items[i]) /\ i \in DOMAIN dest.items
                              /\ dest.items[i].alg = "codec" <=> bs[i] \in Compressible
    <3> SUFFICES ASSUME NEW i \in 1..Len(bs)
                 PROVE  /\ IsBlock(dest.items[i]) /\ i \in DOMAIN dest.items
                        /\ dest.items[i].alg = "codec" <=> bs[i] \in Compressible
      OBVIOUS
    <3>1. dest.items[i] = Block(bs[i]) /\ i \in DOMAIN dest.items
      BY <1>1 DEF Layout
    <3> QED BY <3>1 DEF IsBlock, Block
  <2>4. dest.items[Len(dest.items)].of = bs
    <3>1. Len(dest.items) = Len(bs) + 2 /\ dest.items \in Seq(Items) /\ Len(bs) \in Nat
      BY <1>1, <1>3 DEF Layout
    <3>2. dest.items[Len(dest.items)] = Sum(bs)
      BY <1>1, <3>1 DEF Layout
    <3> QED BY <3>2 DEF Sum
  <2>5. (dest.alg = "codec") <=> \E i \in DOMAIN dest.items : IsBlock(dest.items[i]) /\ dest.items[i].alg = "codec"
    BY <2>1, <2>2, <2>3
  <2> QED BY <1>0, <1>1, <1>3, <2>4, <2>5 DEF DestinationWhole, bs
<1> QED BY <1>1, <1>2, <1>3 DEF Layout

(* What a reader restored, withheld and refused.                           *)
LEMMA InvariantRest ==
  ASSUME IInv PROVE RestoredIsOriginal /\ LastBlockWithheld /\ InfoAgreesWithDecoder
<1>1. RestoredIsOriginal
  BY DEF IInv, EndedInv, RestoredIsOriginal
<1>2. LastBlockWithheld
  <2> SUFFICES ASSUME stage \in {"reading", "rejected"}, out # <<>>
               PROVE  BlockSize * Len(out) < archive.total
    BY DEF LastBlockWithheld
  <2>1. /\ digest = out \o held /\ out \in Seq(Data) /\ held \in Seq(Data)
        /\ digest # <<>> => Len(held) = 1
        /\ BlockSize * Len(digest) <= archive.total
    BY DEF IInv, Types, ReleasedInv
  <2>2. Len(digest) = Len(out) + Len(held) /\ digest # <<>>
    <3>1. Len(digest) = Len(out) + Len(held)
      BY <2>1, ConcatProperties
    <3> QED BY <2>1, <3>1
  <2>3. stage \in {"reading", "rejected"} => archive.total \in Nat
    BY DEF IInv, ArchiveInv, Derived, Containers, LegacyContainers
  <2>4. Len(out) \in Nat /\ Len(held) = 1
    BY <2>1, <2>2
  <2> QED BY <2>1, <2>2, <2>3, <2>4 DEF BlockSize
<1>3. InfoAgreesWithDecoder
  BY DEF IInv, EndedInv, InfoAgreesWithDecoder
<1> QED BY <1>1, <1>2, <1>3

-----------------------------------------------------------------------------
(***************************************************************************)
(* Every step keeps the invariant.                                         *)
(***************************************************************************)
LEMMA InitInvariant == Init => IInv
<1> SUFFICES ASSUME Init PROVE IInv
  OBVIOUS
<1>1. CASE source \in Sources /\ Fresh(Header(BlockSize * Len(source)), "packing")
  <2>1. source \in Seq(Chunks) /\ Len(source) \in Nat
    BY <1>1, WorkersAssumption DEF Sources
  <2>2. archive \in Containers /\ archive.valid /\ archive.alg = "stored" /\ archive.items = <<>>
    BY <1>1, <2>1 DEF Fresh, Header, Containers, BlockSize
  <2>3. Depth \in Nat
    BY WorkersAssumption DEF Depth
  <2> QED
    BY <1>1, <2>1, <2>2, <2>3 DEF Fresh, IInv, Types, Stages, Reasons, PackingInv, PublishedInv,
       ArchiveInv, ReadingInv, ReleasedInv, EndedInv
<1>2. CASE \E c \in Chunks : source = <<c>> /\ Fresh(Legacy(c), "published")
  <2>1. PICK c \in Chunks : source = <<c>> /\ Fresh(Legacy(c), "published")
    BY <1>2
  <2>2. <<c>> \in Seq(Chunks) /\ Whole(Legacy(c), <<c>>)
    BY DEF Whole
  <2>3. dest = Legacy(c) /\ dest # Previous
    BY <2>1 DEF Fresh, Legacy, Previous
  <2>4. Types
    BY <2>1, <2>2 DEF Fresh, Types, Stages, Reasons
  <2>5. PublishedInv
    BY <2>1, <2>2, <2>3 DEF Fresh, PublishedInv
  <2> QED
    BY <2>1, <2>4, <2>5 DEF Fresh, IInv, PackingInv, ArchiveInv, ReadingInv, ReleasedInv, EndedInv
<1> QED BY <1>1, <1>2 DEF Init

(* The operation is given up, for a reason its stage knows.                *)
LEMMA GiveUpStep ==
  ASSUME IInv, NEW why \in Reasons, GiveUp(why),
         \/ stage = "packing" /\ why \in {"cancelled", "pool", "changed", "consumer"}
         \/ /\ stage = "reading" /\ why \in {"cancelled", "pool", "consumer", "structure", "corrupt"}
            /\ why = "structure" => ~InfoOk(archive)
            /\ why = "corrupt" => archive # dest
  PROVE  IInv'
<1>1. Types'
  <2>1. <<>> \in Seq(Futures)
    OBVIOUS
  <2>2. stage' \in Stages
    BY DEF GiveUp, Stages
  <2> QED BY <2>1, <2>2 DEF IInv, Types, GiveUp, reader
<1>2. CASE stage = "packing"
  <2>1. stage' = "failed"
    BY <1>2 DEF GiveUp
  <2> QED
    BY <1>1, <1>2, <2>1 DEF IInv, GiveUp, PackingInv, PublishedInv, ArchiveInv, ReadingInv, ReleasedInv, EndedInv, reader
<1>3. CASE stage = "reading"
  <2>1. stage' = "rejected" /\ UNCHANGED <<archive, dest, digest, out, held>> /\ reason' = why
    BY <1>3 DEF GiveUp, reader
  <2>2. dest # Previous /\ InfoOk(dest)
    BY <1>3, Publication DEF IInv, PublishedInv
  <2>3. PackingInv' /\ PublishedInv' /\ ArchiveInv' /\ ReadingInv' /\ ReleasedInv'
    BY <1>3, <2>1 DEF IInv, PackingInv, PublishedInv, ArchiveInv, ReadingInv, ReleasedInv
  <2>4. EndedInv'
    BY <1>3, <2>1, <2>2 DEF EndedInv
  <2> QED BY <1>1, <2>3, <2>4 DEF IInv
<1> QED BY <1>2, <1>3

(* Futures change their state and nothing else.                            *)
LEMMA FuturesStep ==
  ASSUME IInv,
         UNCHANGED <<stage, reason, source, archive, dest, feeding, digest, left, held, out>>,
         pool' \in {"up", "broken"}, pending' \in Seq(Futures), Len(pending') = Len(pending),
         \A j \in 1..Len(pending) : pending'[j].job = pending[j].job,
         stage = "reading" => \A j \in 1..Len(pending) : Possible(pending'[j])
  PROVE  IInv'
<1>1. Types' /\ PublishedInv' /\ ArchiveInv' /\ ReleasedInv' /\ EndedInv'
  BY DEF IInv, Types, PublishedInv, ArchiveInv, ReleasedInv, EndedInv
<1>2. PackingInv'
  BY DEF IInv, PackingInv, Depth
<1>3. ReadingInv'
  <2> SUFFICES ASSUME stage = "reading" PROVE ReadingInv'
    BY DEF ReadingInv
  <2>1. Taken' = Taken /\ (Fit(Taken)' <=> Fit(Taken))
    BY DEF Taken, Fit
  <2>2. pending = <<>> => pending' = <<>>
    BY DEF IInv, Types
  <2> QED BY <2>1, <2>2 DEF IInv, ReadingInv
<1> QED BY <1>1, <1>2, <1>3 DEF IInv

(* A worker finishes a block: nothing but the state of its future changes. *)
LEMMA FinishStep ==
  ASSUME IInv, NEW i \in DOMAIN pending, Finish(i) PROVE IInv'
<1>1. PICK o \in Outcomes(pending[i].job) : pending' = [pending EXCEPT ![i].state = o]
  BY DEF Finish
<1>2. /\ UNCHANGED <<stage, reason, source, archive, dest, feeding, digest, left, held, out, pool>>
      /\ pending \in Seq(Futures) /\ pending[i] \in Futures /\ i \in 1..Len(pending)
  BY DEF Finish, reader, IInv, Types
<1>3. PICK new : new = [pending[i] EXCEPT !.state = o]
  OBVIOUS
<1>4. new \in Futures /\ new.job = pending[i].job /\ new.state = o
  BY <1>1, <1>2, <1>3 DEF Futures, Outcomes
<1>5. pending' = [pending EXCEPT ![i] = new]
  BY <1>1, <1>3
<1>6. /\ pending' \in Seq(Futures) /\ Len(pending') = Len(pending) /\ pending'[i] = new
      /\ \A j \in 1..Len(pending) : j # i => pending'[j] = pending[j]
  BY <1>2, <1>4, <1>5
<1>7. \A j \in 1..Len(pending) : pending'[j].job = pending[j].job
  BY <1>4, <1>6
<1>8. ASSUME stage = "reading", NEW j \in 1..Len(pending) PROVE Possible(pending'[j])
  <2>1. CASE j = i
    BY <1>1, <1>4, <1>6, <1>8, <2>1 DEF Outcomes, Possible
  <2>2. CASE j # i
    BY <1>6, <1>8, <2>2 DEF IInv, ReadingInv
  <2> QED BY <2>1, <2>2
<1>9. pool' \in {"up", "broken"}
  BY <1>2 DEF IInv, Types
<1> QED BY <1>2, <1>6, <1>7, <1>8, <1>9, FuturesStep

(* The pool breaks: every unfinished future breaks with it.                *)
LEMMA PoolBreaksStep ==
  ASSUME IInv, PoolBreaks PROVE IInv'
<1>1. /\ UNCHANGED <<stage, reason, source, archive, dest, feeding, digest, left, held, out>>
      /\ pending \in Seq(Futures) /\ pool' = "broken"
  BY DEF PoolBreaks, reader, IInv, Types
<1> DEFINE lost(j) == [pending[j] EXCEPT !.state = "broken"]
<1>2. ASSUME NEW j \in 1..Len(pending)
      PROVE  /\ pending[j] \in Futures /\ lost(j) \in Futures
             /\ lost(j).job = pending[j].job /\ lost(j).state = "broken"
  <2>1. pending[j] \in Futures
    BY <1>1
  <2> QED BY <2>1 DEF Futures
<1>3. pending' = [j \in 1..Len(pending) |-> IF j \in Running THEN lost(j) ELSE pending[j]]
  BY <1>1 DEF PoolBreaks
<1> HIDE DEF lost
<1>4. pending' \in Seq(Futures) /\ Len(pending') = Len(pending)
  BY <1>1, <1>2, <1>3
<1>5. \A j \in 1..Len(pending) : pending'[j].job = pending[j].job
  BY <1>2, <1>3
<1>6. ASSUME stage = "reading", NEW j \in 1..Len(pending) PROVE Possible(pending'[j])
  <2>1. pending'[j] = lost(j) \/ pending'[j] = pending[j]
    BY <1>3
  <2> QED BY <1>2, <1>6, <2>1 DEF Possible, IInv, ReadingInv
<1> QED BY <1>1, <1>4, <1>5, <1>6, FuturesStep

(* Writing.                                                                *)
LEMMA ReadChunkStep ==
  ASSUME IInv, ReadChunk PROVE IInv'
<1>1. /\ stage = "packing" /\ UNCHANGED <<stage, reason, source, archive, dest, left, held, out, pool>>
      /\ MayFeed /\ Types /\ PackingInv /\ PublishedInv
  BY DEF ReadChunk, reader, IInv
<1>2. CASE Len(digest) >= Len(source)
  <2>1. feeding' = FALSE /\ UNCHANGED <<pending, digest>>
    BY <1>2 DEF ReadChunk
  <2> QED
    BY <1>1, <2>1 DEF IInv, Types, PackingInv, PublishedInv, ArchiveInv, ReadingInv, ReleasedInv, EndedInv
<1>3. CASE ~(Len(digest) >= Len(source))
  <2> DEFINE chunk == source[Len(digest) + 1]
             future == [job |-> chunk, state |-> "running"]
  <2>1. digest' = Append(digest, chunk) /\ pending' = Append(pending, future) /\ feeding' = feeding
    BY <1>3 DEF ReadChunk, Submit
  <2>2. chunk \in Chunks /\ digest \in Seq(Data) /\ pending \in Seq(Futures)
    BY <1>1, <1>3 DEF Types
  <2>3. future \in Futures /\ chunk \in Data /\ future.job = chunk
    BY <2>2 DEF Futures, Data
  <2> HIDE DEF chunk, future
  <2>4. /\ digest' \in Seq(Data) /\ Len(digest') = Len(digest) + 1 /\ digest'[Len(digest) + 1] = chunk
        /\ \A i \in 1..Len(digest) : digest'[i] = digest[i]
        /\ pending' \in Seq(Futures) /\ Len(pending') = Len(pending) + 1
        /\ pending'[Len(pending) + 1] = future
        /\ \A i \in 1..Len(pending) : pending'[i] = pending[i]
    BY <2>1, <2>2, <2>3
  <2>5. Types'
    BY <1>1, <2>1, <2>4 DEF Types
  <2>6. PackingInv'
    <3> DEFINE n == Len(archive.items)
    <3>1. /\ archive \in Containers /\ archive.valid /\ archive.alg = "stored"
          /\ Len(digest) = n + Len(pending)
          /\ \A i \in 1..Len(digest) : digest[i] \in Chunks
          /\ \A i \in 1..n : archive.items[i] = Block(digest[i])
          /\ \A i \in 1..Len(pending) : pending[i].job = digest[n + i]
          /\ archive.items \in Seq(Items)
      BY <1>1 DEF PackingInv, Containers
    <3>2. Len(digest) \in Nat /\ Len(pending) \in Nat /\ n \in Nat
      BY <2>2, <3>1
    <3> HIDE DEF n
    <3>0. Len(digest) = n + Len(pending)
      BY <3>1
    <3>3. Len(pending') <= Depth
      BY <1>1, <2>4, <3>2, WorkersAssumption DEF MayFeed, Depth
    <3>4. ASSUME NEW i \in 1..Len(digest') PROVE digest'[i] \in Chunks
      <4>1. i \in 1..Len(digest) \/ i = Len(digest) + 1
        BY <2>4, <3>2
      <4> QED BY <2>2, <2>4, <3>1, <4>1
    <3>5. ASSUME NEW i \in 1..n PROVE archive.items[i] = Block(digest'[i])
      <4>1. i \in 1..Len(digest)
        BY <3>1, <3>2
      <4> QED BY <2>4, <3>1, <4>1
    <3>6. ASSUME NEW i \in 1..Len(pending') PROVE pending'[i].job = digest'[n + i]
      <4>1. CASE i \in 1..Len(pending)
        <5>1. n + i \in 1..Len(digest)
          BY <3>1, <3>2, <4>1
        <5> QED BY <2>4, <3>1, <4>1, <5>1
      <4>2. CASE i = Len(pending) + 1
        <5>1. n + i = Len(digest) + 1
          BY <3>0, <3>2, <4>2
        <5> QED BY <2>3, <2>4, <4>2, <5>1
      <4> QED BY <2>4, <3>2, <4>1, <4>2
    <3>7. Len(digest') = n + Len(pending')
      <4>1. Len(digest') = Len(digest) + 1 /\ Len(pending') = Len(pending) + 1
        BY <2>4
      <4> QED BY <3>0, <3>2, <4>1
    <3> QED BY <1>1, <3>1, <3>3, <3>4, <3>5, <3>6, <3>7 DEF PackingInv, Depth, n
  <2> QED BY <1>1, <2>5, <2>6 DEF IInv, PublishedInv, ArchiveInv, ReadingInv, ReleasedInv, EndedInv
<1> QED BY <1>2, <1>3

(* The first future leaves the deque.                                      *)
LEMMA TailFacts ==
  ASSUME NEW S, NEW s \in Seq(S), s # <<>>
  PROVE  /\ Len(s) \in Nat /\ Len(s) >= 1 /\ Head(s) = s[1]
         /\ Tail(s) \in Seq(S) /\ Len(Tail(s)) = Len(s) - 1
         /\ \A i \in 1..Len(s) - 1 : Tail(s)[i] = s[i + 1]
BY HeadTailProperties

(* The oldest block is written: it moves from the deque to the container.  *)
LEMMA WriteBlockStep ==
  ASSUME IInv, WriteBlock PROVE IInv'
<1> DEFINE n == Len(archive.items)
           job == Head(pending).job
<1>1. /\ stage = "packing" /\ UNCHANGED <<stage, reason, source, dest, feeding, digest, left, held, out, pool>>
      /\ pending # <<>> /\ pending' = Tail(pending)
      /\ archive' = [archive EXCEPT !.items = Append(archive.items, Block(job))]
      /\ Types /\ PackingInv /\ PublishedInv
  BY DEF WriteBlock, MayYield, reader, IInv
<1>2. /\ pending' \in Seq(Futures) /\ Len(pending') = Len(pending) - 1 /\ Len(pending) \in Nat
      /\ Len(pending) >= 1 /\ job = pending[1].job
      /\ \A i \in 1..Len(pending) - 1 : pending'[i] = pending[i + 1]
  BY <1>1, TailFacts DEF Types
<1>3. /\ archive \in Containers /\ archive.valid /\ archive.alg = "stored"
      /\ Len(digest) = n + Len(pending) /\ digest \in Seq(Data)
      /\ \A i \in 1..Len(digest) : digest[i] \in Chunks
      /\ \A i \in 1..n : archive.items[i] = Block(digest[i])
      /\ \A i \in 1..Len(pending) : pending[i].job = digest[n + i]
      /\ archive.items \in Seq(Items) /\ n \in Nat
      /\ Len(pending) <= Depth
  BY <1>1 DEF PackingInv, Containers, Types
<1>4. job = digest[n + 1] /\ job \in Chunks /\ Block(job) \in Items
  <2>1. job = digest[n + 1] /\ job \in Chunks
    BY <1>2, <1>3
  <2> QED BY <2>1 DEF Block, Items, BlockItems, BlockSize, CodedSize, Data
<1>5. /\ archive' \in Containers /\ archive'.valid /\ archive'.alg = "stored"
      /\ archive'.items = Append(archive.items, Block(job))
  <2>1. Append(archive.items, Block(job)) \in Seq(Items)
    BY <1>3, <1>4
  <2> HIDE DEF job
  <2> QED BY <1>1, <1>3, <2>1 DEF Containers
<1> HIDE DEF n, job
<1>6. /\ Len(archive'.items) = n + 1 /\ archive'.items[n + 1] = Block(job)
      /\ \A i \in 1..n : archive'.items[i] = archive.items[i]
  BY <1>3, <1>4, <1>5 DEF n
<1>7. PackingInv'
  <2>1. \A i \in 1..n + 1 : archive'.items[i] = Block(digest[i])
    BY <1>3, <1>4, <1>6
  <2>2. ASSUME NEW i \in 1..Len(pending') PROVE pending'[i].job = digest[n + 1 + i]
    <3>1. i + 1 \in 1..Len(pending) /\ n + (i + 1) = n + 1 + i /\ i \in 1..Len(pending) - 1
      BY <1>2, <1>3
    <3> QED BY <1>2, <1>3, <3>1
  <2>4. Len(digest) = n + 1 + Len(pending')
    BY <1>2, <1>3
  <2>3. Len(pending') <= Depth
    BY <1>2, <1>3, WorkersAssumption DEF Depth
  <2> QED BY <1>1, <1>3, <1>5, <1>6, <2>1, <2>2, <2>3, <2>4 DEF PackingInv, Depth
<1>8. Types'
  BY <1>1, <1>2 DEF Types
<1> QED BY <1>1, <1>7, <1>8 DEF IInv, PublishedInv, ArchiveInv, ReadingInv, ReleasedInv, EndedInv

(* The end marker, the checksum and the header complete the container, or  *)
(* a step of the writer fails.                                             *)
LEMMA SealStep ==
  ASSUME IInv, Seal PROVE IInv'
<1> DEFINE alg == IF \E i \in DOMAIN archive.items : archive.items[i].alg = "codec" THEN "codec" ELSE "stored"
           items == archive.items \o <<End, Sum(digest)>>
           n == Len(archive.items)
<1>1. /\ stage = "packing" /\ stage' = "sealed" /\ pending = <<>>
      /\ UNCHANGED <<reason, source, dest, feeding, pending, digest, left, held, out, pool>>
      /\ BlockSize * n = archive.total
      /\ archive' = [archive EXCEPT !.items = items, !.alg = alg]
      /\ Types /\ PackingInv /\ PublishedInv
  BY DEF Seal, ordered, reader, IInv
<1>2. /\ archive \in Containers /\ archive.valid /\ n \in Nat /\ archive.items \in Seq(Items)
      /\ Len(digest) = n /\ digest \in Seq(Data)
      /\ \A i \in 1..n : archive.items[i] = Block(digest[i]) /\ digest[i] \in Chunks
  BY <1>1 DEF PackingInv, Containers, Types
<1>3. digest \in Seq(Chunks)
  BY <1>2
<1>4. <<End, Sum(digest)>> \in Seq(Items)
  BY <1>2 DEF Items
<1>5. /\ items \in Seq(Items) /\ Len(items) = n + 2 /\ items[n + 1] = End /\ items[n + 2] = Sum(digest)
      /\ \A i \in 1..n : items[i] = archive.items[i]
  BY <1>2, <1>4
<1>6. alg \in {"codec", "stored"} /\ (alg = "codec" <=> \E i \in 1..n : digest[i] \in Compressible)
  <2>1. \A i \in 1..n : archive.items[i].alg = "codec" <=> digest[i] \in Compressible
    <3> SUFFICES ASSUME NEW i \in 1..n PROVE archive.items[i].alg = "codec" <=> digest[i] \in Compressible
      OBVIOUS
    <3>1. archive.items[i] = Block(digest[i])
      BY <1>2
    <3> QED BY <3>1 DEF Block
  <2>2. DOMAIN archive.items = 1..n
    BY <1>2
  <2> QED BY <2>1, <2>2
<1> HIDE DEF alg, items
<1>7. /\ archive' \in Containers /\ archive'.valid /\ archive'.items = items
      /\ archive'.alg = alg /\ archive'.total = archive.total
  BY <1>1, <1>2, <1>5, <1>6 DEF Containers
<1>8. Whole(archive', digest)
  BY <1>1, <1>2, <1>5, <1>6, <1>7 DEF Whole
<1>9. Types' /\ PublishedInv'
  BY <1>1, <1>3, <1>8 DEF Types, Stages, PublishedInv
<1>10. PackingInv' /\ ArchiveInv' /\ ReadingInv' /\ ReleasedInv'
  BY <1>1 DEF PackingInv, ArchiveInv, ReadingInv, ReleasedInv
<1>11. EndedInv'
  BY <1>1 DEF PublishedInv, EndedInv
<1> QED BY <1>9, <1>10, <1>11 DEF IInv

(* The temporary file reaches the disk.                                    *)
LEMMA SyncStep ==
  ASSUME IInv, Sync PROVE IInv'
<1>1. /\ stage = "sealed" /\ stage' = "synced"
      /\ UNCHANGED <<reason, source, archive, dest, feeding, pending, digest, left, held, out, pool>>
  BY DEF Sync, ordered, reader
<1>2. Types' /\ PublishedInv'
  BY <1>1 DEF IInv, Types, Stages, PublishedInv
<1> QED BY <1>1, <1>2 DEF IInv, PublishedInv, PackingInv, ArchiveInv, ReadingInv, ReleasedInv, EndedInv

(* It replaces the destination.                                            *)
LEMMA RenameStep ==
  ASSUME IInv, Rename PROVE IInv'
<1>1. /\ stage = "synced" /\ stage' = "published" /\ dest' = archive
      /\ UNCHANGED <<reason, source, archive, feeding, pending, digest, left, held, out, pool>>
  BY DEF Rename, ordered, reader
<1>2. Whole(archive, digest) /\ digest \in Seq(Chunks) /\ archive # Previous
  <2>1. Whole(archive, digest) /\ digest \in Seq(Chunks)
    BY <1>1 DEF IInv, PublishedInv
  <2>2. archive.version \in {1, 2}
    BY <2>1, WholeFacts DEF Layout
  <2> QED BY <2>1, <2>2 DEF Previous
<1>3. Types' /\ PublishedInv'
  BY <1>1, <1>2 DEF IInv, Types, Stages, PublishedInv
<1> QED BY <1>1, <1>3 DEF IInv, PublishedInv, PackingInv, ArchiveInv, ReadingInv, ReleasedInv, EndedInv

(* The writer or the machine fails on the way: the destination is what it  *)
(* was, or the whole container, for what was renamed had been synced.      *)
LEMMA WriteFailsStep ==
  ASSUME IInv, SyncedInv, WriteFails \/ PowerFails PROVE IInv'
<1>1. /\ stage \in {"packing", "sealed", "synced", "published"} /\ stage' = "failed"
      /\ reason' \in {"write", "power"} /\ dest' \in {Previous, dest}
      /\ reason' = "write" => stage \in {"sealed", "synced"} /\ dest' = dest
      /\ pending' \in {pending, <<>>} /\ feeding' \in {feeding, FALSE}
      /\ UNCHANGED <<source, archive, digest, left, held, out, pool>>
  BY DEF WriteFails, PowerFails, SyncedInv, ordered, reader
<1>2. Types'
  <2>1. stage' \in Stages /\ reason' \in Reasons
    BY <1>1 DEF Stages, Reasons
  <2>2. feeding' = feeding \/ feeding' = FALSE
    BY <1>1
  <2>3. feeding' \in BOOLEAN
    BY <2>2, Zenon DEF IInv, Types
  <2>4. <<>> \in Seq(Futures)
    BY EmptySeq
  <2>5. pending' \in Seq(Futures)
    BY <1>1, <2>4 DEF IInv, Types
  <2> QED BY <1>1, <2>1, <2>3, <2>5 DEF IInv, Types
<1>3. PublishedInv'
  BY <1>1 DEF IInv, PublishedInv
<1> QED BY <1>1, <1>2, <1>3 DEF IInv, PackingInv, ArchiveInv, ReadingInv, ReleasedInv, EndedInv

(* Someone else writes to the source.                                      *)
LEMMA EditSourceStep ==
  ASSUME IInv, EditSource PROVE IInv'
<1>1. /\ stage = "packing"
      /\ UNCHANGED <<stage, reason, archive, dest, feeding, pending, digest, left, held, out, pool>>
  BY DEF EditSource, ordered, reader
<1>2. source' \in Seq(Chunks)
  <2>1. source \in Seq(Chunks)
    BY DEF IInv, Types
  <2>2. CASE \E c \in Chunks : source' = Append(source, c)
    BY <2>1, <2>2
  <2>3. CASE Len(source) > Len(digest) /\ source' = SubSeq(source, 1, Len(source) - 1)
    <3>1. Len(source) \in Nat /\ Len(source) - 1 \in Int
      BY <2>1
    <3>2. \A i \in 1..Len(source) - 1 : source[i] \in Chunks
      BY <2>1, <3>1
    <3> QED BY <2>3, <3>1, <3>2, SubSeqProperties
  <2> QED BY <2>2, <2>3 DEF EditSource
<1>3. Types'
  BY <1>1, <1>2 DEF IInv, Types
<1> QED BY <1>1, <1>3 DEF IInv, PublishedInv, PackingInv, ArchiveInv, ReadingInv, ReleasedInv, EndedInv

(* Reading.                                                                *)
LEMMA OpenStep ==
  ASSUME IInv, Open PROVE IInv'
<1>1. /\ stage = "published" /\ stage' = "reading"
      /\ archive' \in {dest} \cup Changed(dest) /\ left' = archive'.total
      /\ pending' = <<>> /\ feeding' = TRUE /\ digest' = <<>>
      /\ UNCHANGED <<reason, source, dest, held, out, pool>>
      /\ reason = "none" /\ out = <<>> /\ held = <<>> /\ dest # Previous
  BY DEF Open, IInv, PublishedInv
<1> DEFINE bs == Bodies(dest.items)
<1>2. bs \in Seq(Chunks) /\ Layout(dest, bs)
  BY <1>1, Publication DEF IInv
<1> HIDE DEF bs
<1>3. Derived(archive', dest, bs)
  BY <1>1, <1>2, ChangedFacts
<1>4. archive'.total \in Nat /\ archive'.items \in Seq(Items)
  BY <1>3 DEF Derived, Containers, LegacyContainers
<1>5. Types'
  BY <1>1, <1>4 DEF IInv, Types, Stages
<1>6. PackingInv' /\ PublishedInv'
  BY <1>1 DEF IInv, PackingInv, PublishedInv
<1>7. ArchiveInv'
  BY <1>1, <1>3 DEF ArchiveInv, bs
<1>8. ReadingInv'
  <2>1. Taken' = 0 /\ Len(archive'.items) \in Nat
    BY <1>1, <1>4 DEF Taken
  <2>2. Announced(archive'.items)[0] = 0
    BY <1>4, ItemLengths, AnnouncedFacts
  <2> QED BY <1>1, <1>4, <2>1, <2>2 DEF ReadingInv, Fit
<1>9. ReleasedInv' /\ EndedInv'
  BY <1>1, <1>4 DEF ReleasedInv, EndedInv, BlockSize
<1> QED BY <1>5, <1>6, <1>7, <1>8, <1>9 DEF IInv

(* What the reader knows of the items.                                     *)
LEMMA Reader ==
  ASSUME IInv, stage = "reading"
  PROVE  /\ archive.items \in Seq(Items) /\ archive.total \in Nat /\ archive.valid \in BOOLEAN
         /\ Taken \in Nat /\ Position = Taken + 1
         /\ Len(digest) \in Nat /\ Len(pending) \in Nat
         /\ pending \in Seq(Futures) /\ digest \in Seq(Data)
         /\ \A i \in 0..Len(archive.items) : Announced(archive.items)[i] \in Nat
         /\ \A i \in 1..Taken : archive.items[i] \in BlockItems
<1>1. archive.items \in Seq(Items) /\ archive.total \in Nat /\ archive.valid \in BOOLEAN
  BY DEF IInv, ArchiveInv, Derived, Containers, LegacyContainers
<1>2. pending \in Seq(Futures) /\ digest \in Seq(Data)
  BY DEF IInv, Types
<1>3. Len(digest) \in Nat /\ Len(pending) \in Nat
  BY <1>2
<1>4. \A i \in 0..Len(archive.items) : Announced(archive.items)[i] \in Nat
  BY <1>1, ItemLengths, AnnouncedFacts
<1>5. \A i \in 1..Taken : archive.items[i] \in BlockItems
  <2>1. Taken \in 0..Len(archive.items) /\ Fit(Taken)
    BY <1>1, <1>3 DEF IInv, ReadingInv, Taken
  <2> SUFFICES ASSUME NEW i \in 1..Taken PROVE archive.items[i] \in BlockItems
    OBVIOUS
  <2>2. archive.items[i] \in Items /\ IsBlock(archive.items[i])
    BY <1>1, <2>1 DEF Fit, ValidBlock
  <2> QED BY <2>2, Kinds
<1> QED BY <1>1, <1>2, <1>3, <1>4, <1>5 DEF Taken, Position

(* Where a reader of a well-formed archive stands.                         *)
LEMMA WellFormed ==
  ASSUME IInv, stage = "reading", archive.version = 2, InfoOk(archive),
         NEW n, n = Len(archive.items) - 2
  PROVE  /\ n \in Nat /\ Taken <= n /\ archive.items[n + 1] = End /\ archive.items[n + 2].kind = "sum"
         /\ Taken < n => More /\ ValidBlock(Item, left)
         /\ Taken = n => More /\ Item = End /\ left = 0
<1>1. /\ archive.items \in Seq(Items) /\ archive.total \in Nat
      /\ Taken \in Nat /\ Position = Taken + 1
      /\ \A i \in 1..Taken : archive.items[i] \in BlockItems
  BY Reader
<1>2. /\ left = archive.total - Announced(archive.items)[Taken]
  BY DEF IInv, ReadingInv
<1>3. /\ n \in Nat /\ Len(archive.items) = n + 2
      /\ \A i \in 1..n : ValidBlock(archive.items[i], archive.total - Announced(archive.items)[i - 1])
      /\ archive.items[n + 1] = End /\ Announced(archive.items)[n] = archive.total
      /\ archive.items[n + 2].kind = "sum"
  BY <1>1 DEF InfoOk
<1>4. Taken <= n
  <2>1. End \notin BlockItems
    BY DEF End, BlockItems
  <2> QED BY <1>1, <1>3, <2>1
<1>5. ASSUME Taken < n PROVE More /\ ValidBlock(Item, left)
  <2>1. Position \in 1..n /\ Position - 1 = Taken
    BY <1>1, <1>3, <1>5
  <2>2. Position <= Len(archive.items)
    BY <1>3, <2>1
  <2>3. ValidBlock(archive.items[Position], archive.total - Announced(archive.items)[Taken])
    BY <1>3, <2>1
  <2> QED BY <1>2, <2>2, <2>3 DEF More, Item
<1>6. ASSUME Taken = n PROVE More /\ Item = End /\ left = 0
  BY <1>1, <1>2, <1>3, <1>6 DEF More, Item
<1> QED BY <1>3, <1>4, <1>5, <1>6

(* The header is refused.                                                  *)
LEMMA BadHeaderStep ==
  ASSUME IInv, BadHeader PROVE IInv'
<1>1. stage = "reading" /\ ~archive.valid /\ GiveUp("structure")
  BY DEF BadHeader
<1>2. ~InfoOk(archive)
  BY <1>1 DEF InfoOk
<1> QED BY <1>1, <1>2, GiveUpStep DEF Reasons

(* A container of format version 1 is decoded at once.                     *)
LEMMA ReadLegacyStep ==
  ASSUME IInv, ReadLegacy PROVE IInv'
<1> DEFINE body == archive.items[1].body
           bs == Bodies(dest.items)
<1>1. /\ stage = "reading" /\ archive.valid /\ archive.version = 1
      /\ archive.items \in Seq(Items) /\ dest # Previous
      /\ Derived(archive, dest, bs)
  BY Reader DEF ReadLegacy, Reading, IInv, PublishedInv, ArchiveInv
<1>2. bs \in Seq(Chunks) /\ Layout(dest, bs) /\ dest.version = 1 /\ archive.sum = bs
  BY <1>1, Publication DEF IInv, Derived
<1>3. archive.items # <<>> => IsBlock(archive.items[1])
  BY <1>1 DEF Derived
<1>4. InfoOk(archive) <=> Len(archive.items) = 1
  BY <1>1 DEF InfoOk
<1>5. CASE Len(archive.items) # 1 \/ ~IsBlock(archive.items[1])
  <2>1. GiveUp("structure")
    BY <1>5 DEF ReadLegacy
  <2>2. ~InfoOk(archive)
    BY <1>1, <1>3, <1>4, <1>5
  <2> QED BY <1>1, <2>1, <2>2, GiveUpStep DEF Reasons
<1>6. CASE /\ Len(archive.items) = 1 /\ IsBlock(archive.items[1])
           /\ archive.items[1].len # archive.total \/ <<body>> # archive.sum
  <2>1. GiveUp("corrupt")
    BY <1>6 DEF ReadLegacy
  <2>2. archive # dest
    <3> SUFFICES ASSUME archive = dest PROVE FALSE
      OBVIOUS
    <3>1. dest = Legacy(bs[1]) /\ bs = <<bs[1]>>
      <4>1. Whole(dest, bs)
        BY <1>1, Publication DEF IInv
      <4>2. Len(bs) = 1
        BY <1>2 DEF Layout
      <4> HIDE DEF bs
      <4> QED BY <1>2, <4>1, <4>2 DEF Whole, Containers
    <3> HIDE DEF bs
    <3>2. dest.items[1] = Block(bs[1]) /\ dest.total = BlockSize
      BY <3>1 DEF Legacy
    <3> QED BY <1>2, <1>6, <3>1, <3>2 DEF Block
  <2> QED BY <1>1, <2>1, <2>2, GiveUpStep DEF Reasons
<1>7. CASE /\ Len(archive.items) = 1 /\ IsBlock(archive.items[1])
           /\ archive.items[1].len = archive.total /\ <<body>> = archive.sum
  <2>1. /\ out' = <<body>> /\ stage' = "restored"
        /\ UNCHANGED <<reason, source, archive, dest, feeding, pending, digest, left, held, pool>>
    BY <1>7 DEF ReadLegacy, ordered
  <2>2. body \in Data
    <3>1. archive.items[1] \in BlockItems
      BY <1>1, <1>7, Kinds
    <3> QED BY <3>1 DEF BlockItems
  <2>3. out' = bs /\ reason = "none"
    BY <1>1, <1>2, <1>7, <2>1 DEF IInv, ReadingInv
  <2> HIDE DEF body, bs
  <2>4. Types'
    BY <2>1, <2>2 DEF IInv, Types, Stages
  <2>5. PackingInv' /\ PublishedInv' /\ ArchiveInv' /\ ReadingInv' /\ ReleasedInv'
    BY <1>1, <2>1 DEF IInv, PackingInv, PublishedInv, ArchiveInv, ReadingInv, ReleasedInv
  <2>6. EndedInv'
    BY <1>4, <1>7, <2>1, <2>3 DEF EndedInv, bs
  <2> QED BY <2>4, <2>5, <2>6 DEF IInv
<1> QED BY <1>5, <1>6, <1>7

(* A frame is read and handed to the pool.                                 *)
LEMMA ReadBlockStep ==
  ASSUME IInv, ReadBlock PROVE IInv'
<1> DEFINE items == archive.items
           a == Announced(archive.items)
           L == Len(archive.items)
<1>1. /\ stage = "reading" /\ archive.version = 2 /\ Position <= L
      /\ UNCHANGED <<stage, reason, source, archive, dest, digest, held, out, pool>>
      /\ feeding
  BY DEF ReadBlock, Reading, More, MayFeed
<1>2. /\ items \in Seq(Items) /\ archive.total \in Nat
      /\ Taken \in Nat /\ Position = Taken + 1 /\ L \in Nat
      /\ Len(digest) \in Nat /\ Len(pending) \in Nat
      /\ pending \in Seq(Futures)
      /\ \A i \in 0..L : a[i] \in Nat
  BY <1>1, Reader
<1>3. CASE Item = End /\ left = 0
  <2>1. feeding' = FALSE /\ UNCHANGED <<pending, left>>
    BY <1>3 DEF ReadBlock
  <2>2. Types'
    BY <1>1, <2>1 DEF IInv, Types
  <2>3. PackingInv' /\ PublishedInv' /\ ArchiveInv' /\ ReleasedInv' /\ EndedInv'
    BY <1>1, <2>1 DEF IInv, PackingInv, PublishedInv, ArchiveInv, ReleasedInv, EndedInv
  <2>4. ReadingInv'
    <3>1. Taken' = Taken /\ (Fit(Taken)' <=> Fit(Taken))
      BY <1>1, <2>1 DEF Taken, Fit
    <3>2. Taken < L /\ items[Taken + 1] = End
      BY <1>1, <1>2, <1>3 DEF Item
    <3> QED BY <1>1, <1>3, <2>1, <3>1, <3>2 DEF IInv, ReadingInv
  <2> QED BY <2>2, <2>3, <2>4 DEF IInv
<1>4. CASE ~(Item = End /\ left = 0)
  <2> DEFINE future == [job |-> Item, state |-> "running"]
  <2>1. /\ ValidBlock(Item, left) /\ left' = left - Item.len /\ feeding' = feeding
        /\ pending' = Append(pending, future)
    BY <1>4 DEF ReadBlock, Submit
  <2>2. Item = items[Taken + 1] /\ Item \in BlockItems
    <3>1. Item = items[Taken + 1] /\ Item \in Items /\ IsBlock(Item)
      BY <1>1, <1>2, <2>1 DEF Item, ValidBlock
    <3> QED BY <3>1, Kinds
  <2>3. future \in Futures /\ future.job = items[Taken + 1] /\ Possible(future)
    BY <2>2 DEF Futures, Items, Possible
  <2> HIDE DEF future
  <2>4. /\ pending' \in Seq(Futures) /\ Len(pending') = Len(pending) + 1
        /\ pending'[Len(pending) + 1] = future
        /\ \A i \in 1..Len(pending) : pending'[i] = pending[i]
    BY <1>2, <2>1, <2>3
  <2>5. /\ a[Taken] <= archive.total /\ left = archive.total - a[Taken] /\ Fit(Taken)
        /\ \A i \in 1..Len(digest) : digest[i] = items[i].body /\ items[i].len = BlockSize
        /\ \A i \in 1..Len(pending) : pending[i].job = items[Len(digest) + i]
        /\ \A i \in 1..Len(pending) : Possible(pending[i])
    BY <1>1 DEF IInv, ReadingInv
  <2>6. Taken' = Taken + 1
    BY <1>1, <1>2, <2>4 DEF Taken
  <2>7. Item.len \in Nat /\ Item.len <= left /\ left \in Nat
    <3>1. left \in Nat
      BY DEF IInv, Types
    <3> QED BY <2>1, <2>2, <3>1 DEF BlockItems, ValidBlock, Least, BlockSize
  <2>8. a[Taken + 1] = a[Taken] + Item.len
    <3>1. \A i \in 1..L : a[i] = a[i - 1] + Length(items, i)
      BY <1>2, ItemLengths, AnnouncedFacts
    <3>2. Taken + 1 \in 1..L /\ (Taken + 1) - 1 = Taken
      BY <1>1, <1>2
    <3>3. Length(items, Taken + 1) = Item.len
      BY <2>1, <2>2 DEF Length, ValidBlock
    <3> HIDE DEF a
    <3> QED BY <3>1, <3>2, <3>3
  <2>9. Types'
    BY <1>1, <2>1, <2>4, <2>7 DEF IInv, Types
  <2>10. PackingInv' /\ PublishedInv' /\ ArchiveInv' /\ ReleasedInv' /\ EndedInv'
    BY <1>1, <2>1 DEF IInv, PackingInv, PublishedInv, ArchiveInv, ReleasedInv, EndedInv
  <2>11. Fit(Taken + 1)
    <3> SUFFICES ASSUME NEW i \in 1..Taken + 1
                 PROVE  a[i - 1] <= archive.total /\ ValidBlock(items[i], archive.total - a[i - 1])
      BY DEF Fit
    <3>1. CASE i \in 1..Taken
      BY <2>5, <3>1 DEF Fit
    <3>2. CASE i = Taken + 1
      <4>1. i - 1 = Taken
        BY <1>2, <3>2
      <4> HIDE DEF a, items
      <4> QED BY <2>1, <2>2, <2>5, <3>2, <4>1
    <3> QED BY <1>2, <3>1, <3>2
  <2>12. left' = archive.total - a[Taken + 1] /\ a[Taken + 1] <= archive.total
    <3>1. a[Taken] \in Nat /\ a[Taken + 1] \in Nat
      BY <1>1, <1>2
    <3> HIDE DEF a
    <3> QED BY <1>2, <2>1, <2>5, <2>7, <2>8, <3>1
  <2>13. ASSUME NEW i \in 1..Len(pending')
         PROVE  pending'[i].job = items[Len(digest) + i] /\ Possible(pending'[i])
    <3>1. CASE i \in 1..Len(pending)
      BY <2>4, <2>5, <3>1
    <3>2. CASE i = Len(pending) + 1
      <4>1. Len(digest) + i = Taken + 1
        BY <1>2, <3>2 DEF Taken
      <4> QED BY <2>3, <2>4, <3>2, <4>1
    <3> QED BY <1>2, <2>4, <3>1, <3>2
  <2>14. ReadingInv'
    <3>1. Fit(Taken)' /\ Taken' <= L
      BY <1>1, <1>2, <2>6, <2>11 DEF Fit
    <3> HIDE DEF L, a, items
    <3> QED BY <1>1, <2>1, <2>5, <2>6, <2>12, <2>13, <3>1 DEF IInv, ReadingInv, L, a, items
  <2> QED BY <2>9, <2>10, <2>14 DEF IInv
<1> QED BY <1>3, <1>4

(* A frame is refused.                                                     *)
LEMMA BadBlockStep ==
  ASSUME IInv, BadBlock PROVE IInv'
<1>1. /\ stage = "reading" /\ archive.version = 2 /\ GiveUp("structure")
      /\ ~(More /\ (ValidBlock(Item, left) \/ (Item = End /\ left = 0)))
  BY DEF BadBlock, Reading
<1>2. ~InfoOk(archive)
  <2> SUFFICES ASSUME InfoOk(archive) PROVE FALSE
    OBVIOUS
  <2> DEFINE n == Len(archive.items) - 2
  <2>1. /\ n \in Nat /\ Taken <= n
        /\ Taken < n => More /\ ValidBlock(Item, left)
        /\ Taken = n => More /\ Item = End /\ left = 0
    BY <1>1, WellFormed
  <2>2. Taken \in Nat
    BY <1>1, Reader
  <2> HIDE DEF n
  <2> QED BY <1>1, <2>1, <2>2
<1> QED BY <1>1, <1>2, GiveUpStep DEF Reasons

(* The packer's blocks are decoded: a failure tells of a change.           *)
LEMMA BadBodyStep ==
  ASSUME IInv, BadBody PROVE IInv'
<1>1. /\ stage = "reading" /\ GiveUp("corrupt") /\ pending # <<>> /\ Head(pending).state = "failed"
  BY DEF BadBody, MayYield
<1>2. /\ Len(pending) >= 1 /\ Head(pending) = pending[1] /\ Len(digest) \in Nat /\ Len(pending) \in Nat
      /\ archive.items \in Seq(Items)
  BY <1>1, Reader, TailFacts
<1>3. archive # dest
  <2> SUFFICES ASSUME archive = dest PROVE FALSE
    OBVIOUS
  <2> DEFINE bs == Bodies(dest.items)
             k == Len(digest) + 1
  <2>1. pending[1].job = archive.items[k] /\ Possible(pending[1])
    BY <1>1, <1>2 DEF IInv, ReadingInv
  <2>2. k \in 1..Taken /\ Taken <= Len(archive.items)
    BY <1>1, <1>2 DEF Taken, IInv, ReadingInv
  <2>3. k \in 1..Len(archive.items)
    <3> DEFINE L == Len(archive.items)
    <3>1. L \in Nat /\ Taken \in Nat /\ k \in 1..Taken /\ Taken <= L
      BY <1>1, <1>2, <2>2, Reader
    <3> HIDE DEF L, k
    <3>2. k \in 1..L
      BY <3>1
    <3> QED BY <3>2 DEF L
  <2>4. IsBlock(archive.items[k])
    BY <1>1, <2>2, <2>3, Reader, Kinds
  <2>5. bs \in Seq(Chunks) /\ Layout(dest, bs)
    BY <1>1, Publication DEF IInv, PublishedInv
  <2> HIDE DEF bs, k
  <2>6. dest.items[k].body # Damaged /\ dest.items[k].len = BlockSize
    BY <2>3, <2>4, <2>5, LayoutItem
  <2> QED BY <1>1, <1>2, <2>1, <2>6 DEF Possible
<1> QED BY <1>1, <1>3, GiveUpStep DEF Reasons

(* The oldest block is decoded: it is held, and the one held before is     *)
(* released.                                                               *)
LEMMA TakeBlockStep ==
  ASSUME IInv, TakeBlock PROVE IInv'
<1> DEFINE items == archive.items
           a == Announced(archive.items)
           n == Len(digest)
           body == Head(pending).job.body
<1>1. /\ stage = "reading" /\ archive.version = 2 /\ pending # <<>> /\ Head(pending).state = "done"
      /\ digest' = Append(digest, body) /\ out' = out \o held /\ held' = <<body>>
      /\ pending' = Tail(pending)
      /\ UNCHANGED <<stage, reason, source, archive, dest, feeding, left, pool>>
  BY DEF TakeBlock, Reading, MayYield
<1>2. /\ items \in Seq(Items) /\ archive.total \in Nat
      /\ Taken \in Nat /\ n \in Nat /\ Len(pending) \in Nat
      /\ pending \in Seq(Futures) /\ digest \in Seq(Data)
      /\ \A i \in 1..Taken : items[i] \in BlockItems
  BY <1>1, Reader
<1>3. /\ Len(pending) >= 1 /\ Head(pending) = pending[1]
      /\ pending' \in Seq(Futures) /\ Len(pending') = Len(pending) - 1
      /\ \A i \in 1..Len(pending) - 1 : pending'[i] = pending[i + 1]
  BY <1>1, <1>2, TailFacts
<1>4. /\ Taken <= Len(items) /\ Fit(Taken)
      /\ \A i \in 1..n : digest[i] = items[i].body /\ items[i].len = BlockSize
      /\ \A i \in 1..Len(pending) : pending[i].job = items[n + i] /\ Possible(pending[i])
  BY <1>1 DEF IInv, ReadingInv
<1>5. n + 1 \in 1..Taken /\ n + 1 \in 0..Len(items)
  BY <1>2, <1>3, <1>4 DEF Taken
<1>6. body = items[n + 1].body /\ items[n + 1].len = BlockSize /\ body \in Data
  <2>1. Head(pending).job = items[n + 1] /\ Possible(Head(pending))
    BY <1>3, <1>4
  <2>2. items[n + 1] \in BlockItems
    BY <1>2, <1>5
  <2> QED BY <1>1, <2>1, <2>2 DEF Possible, BlockItems
<1> HIDE DEF body, n
<1>7. /\ digest' \in Seq(Data) /\ Len(digest') = n + 1 /\ digest'[n + 1] = body
      /\ \A i \in 1..n : digest'[i] = digest[i]
  BY <1>1, <1>2, <1>6 DEF n
<1>8. /\ out \in Seq(Data) /\ held \in Seq(Data)
      /\ digest = out \o held
  BY <1>1 DEF IInv, Types, ReleasedInv
<1>9. Types'
  <2>1. out' \in Seq(Data) /\ held' \in Seq(Data) /\ Len(held') <= 1
    BY <1>1, <1>6, <1>8
  <2> QED BY <1>1, <1>3, <1>7, <2>1 DEF IInv, Types
<1>10. Taken' = Taken
  BY <1>2, <1>3, <1>7 DEF Taken, n
<1>11. ASSUME NEW i \in 1..n + 1
       PROVE  digest'[i] = items[i].body /\ items[i].len = BlockSize
  <2>1. CASE i \in 1..n
    BY <1>2, <1>4, <1>7, <2>1
  <2>2. CASE i = n + 1
    BY <1>6, <1>7, <2>2
  <2> QED BY <1>2, <2>1, <2>2
<1>12. ASSUME NEW i \in 1..Len(pending')
       PROVE  pending'[i].job = items[n + 1 + i] /\ Possible(pending'[i])
  <2>1. i + 1 \in 1..Len(pending) /\ n + (i + 1) = n + 1 + i /\ i \in 1..Len(pending) - 1
    BY <1>2, <1>3
  <2> QED BY <1>3, <1>4, <2>1
<1>13. ReadingInv'
  <2>1. Fit(Taken)' <=> Fit(Taken)
    BY <1>1, <1>10 DEF Fit
  <2> QED BY <1>1, <1>7, <1>10, <1>11, <1>12, <2>1 DEF IInv, ReadingInv
<1>14. ReleasedInv'
  <2>1. digest' = out' \o held'
    BY <1>1, <1>6, <1>8
  <2>2. Len(held') = 1
    BY <1>1
  <2>3. BlockSize * (n + 1) <= archive.total
    <3>1. \A i \in 1..n + 1 : IsBlock(items[i]) /\ items[i].len = BlockSize
      <4> SUFFICES ASSUME NEW i \in 1..n + 1 PROVE IsBlock(items[i])
        BY <1>11
      <4>1. items[i] \in BlockItems
        BY <1>2, <1>5
      <4> QED BY <4>1 DEF IsBlock, BlockItems
    <3>2. a[n + 1] = BlockSize * (n + 1)
      BY <1>2, <1>5, <3>1, WholeBlocksTotal
    <3>3. n \in 0..Len(items) /\ \A i \in 1..n : IsBlock(items[i]) /\ items[i].len = BlockSize
      BY <1>2, <1>5, <3>1
    <3>4. a[n] = BlockSize * n
      BY <1>2, <3>3, WholeBlocksTotal
    <3>5. a[n] <= archive.total /\ ValidBlock(items[n + 1], archive.total - a[n])
      <4>1. (n + 1) - 1 = n
        BY <1>2
      <4> QED BY <1>4, <1>5, <4>1 DEF Fit
    <3> HIDE DEF a, items
    <3> QED BY <1>2, <1>6, <3>4, <3>5 DEF ValidBlock, Least, BlockSize
  <2> QED BY <1>1, <1>7, <2>1, <2>2, <2>3 DEF ReleasedInv
<1>15. PackingInv' /\ PublishedInv' /\ ArchiveInv' /\ EndedInv'
  BY <1>1 DEF IInv, PackingInv, PublishedInv, ArchiveInv, EndedInv
<1> QED BY <1>9, <1>13, <1>14, <1>15 DEF IInv

(* The trailer decides: what was released is what was packed.              *)
LEMMA VerifyStep ==
  ASSUME IInv, Verify PROVE IInv'
<1> DEFINE items == archive.items
           L == Len(archive.items)
           rest == SubSeq(archive.items, Position + 1, Len(archive.items))
           bs == Bodies(dest.items)
<1>1. /\ stage = "reading" /\ archive.valid /\ archive.version = 2 /\ ~feeding /\ pending = <<>>
  BY DEF Verify, Reading
<1>2. /\ items \in Seq(Items) /\ archive.total \in Nat /\ L \in Nat
      /\ Taken \in Nat /\ Position = Taken + 1 /\ digest \in Seq(Data)
      /\ \A i \in 1..Taken : items[i] \in BlockItems
  BY <1>1, Reader
<1>3. /\ Taken < L /\ items[Taken + 1] = End /\ left = 0 /\ Fit(Taken)
      /\ Announced(items)[Taken] <= archive.total
      /\ left = archive.total - Announced(items)[Taken]
      /\ Taken = Len(digest) /\ reason = "none"
      /\ \A i \in 1..Len(digest) : digest[i] = items[i].body
  <2>1. Len(pending) = 0 /\ Taken = Len(digest)
    BY <1>1, <1>2 DEF Taken
  <2> QED BY <1>1, <2>1 DEF IInv, ReadingInv
<1>4. /\ dest # Previous /\ Derived(archive, dest, bs) /\ bs \in Seq(Chunks) /\ Layout(dest, bs)
  BY <1>1, Publication DEF IInv, PublishedInv, ArchiveInv
<1> HIDE DEF items, L, bs
<1>5. /\ Len(rest) = 1 <=> L = Taken + 2
      /\ L = Taken + 2 => Head(rest) = items[Taken + 2]
  <2>1. /\ rest \in Seq(Items) /\ Len(rest) = (IF Taken + 2 <= L THEN L - (Taken + 2) + 1 ELSE 0)
        /\ \A i \in 1..L - (Taken + 2) + 1 : rest[i] = items[Taken + 2 + i - 1]
    <3>1. /\ Taken + 2 \in Int /\ L \in Int /\ Position + 1 = Taken + 2
          /\ \A i \in Taken + 2..L : items[i] \in Items
      BY <1>2 DEF L, items
    <3>2. rest = SubSeq(items, Taken + 2, L)
      BY <3>1 DEF items, L
    <3> HIDE DEF rest
    <3> QED BY <3>1, <3>2, SubSeqProperties
  <2> HIDE DEF rest
  <2>2. Len(rest) = 1 <=> L = Taken + 2
    BY <1>2, <1>3, <2>1
  <2>3. ASSUME L = Taken + 2 PROVE Head(rest) = items[Taken + 2]
    <3>1. 1 \in 1..L - (Taken + 2) + 1 /\ Taken + 2 + 1 - 1 = Taken + 2
      BY <1>2, <2>3
    <3>2. rest[1] = items[Taken + 2] /\ rest # <<>>
      BY <2>1, <2>2, <2>3, <3>1
    <3> QED BY <2>1, <3>2, TailFacts
  <2> QED BY <2>2, <2>3
<1>6. InfoOk(archive) <=> L = Taken + 2 /\ items[Taken + 2].kind = "sum"
  <2>1. ASSUME InfoOk(archive) PROVE L = Taken + 2 /\ items[Taken + 2].kind = "sum"
    <3> DEFINE n == L - 2
    <3>1. /\ n \in Nat /\ Taken <= n /\ items[n + 2].kind = "sum"
          /\ Taken < n => ValidBlock(Item, left)
      BY <1>1, <2>1, WellFormed DEF L, items
    <3>2. Taken < n => FALSE
      BY <1>2, <1>3, <3>1 DEF Item, items, ValidBlock, IsBlock, End
    <3>3. Taken = n
      <4> HIDE DEF n
      <4> QED BY <1>2, <3>1, <3>2
    <3>4. n + 2 = L /\ Taken + 2 = n + 2
      BY <1>2, <3>3
    <3> QED BY <3>1, <3>4
  <2>2. ASSUME L = Taken + 2, items[Taken + 2].kind = "sum" PROVE InfoOk(archive)
    <3>1. Len(archive.items) - 2 = Taken
      BY <1>2, <2>2 DEF L
    <3>2. Announced(items)[Taken] = archive.total
      <4>1. Announced(items)[Taken] \in Nat
        BY <1>1, <1>2, <1>3, Reader DEF items, L
      <4> QED BY <1>2, <1>3, <4>1
    <3> QED BY <1>1, <1>2, <1>3, <2>2, <3>1, <3>2 DEF InfoOk, Fit, items
  <2> QED BY <2>1, <2>2
<1>7. CASE Len(rest) # 1 \/ Head(rest).kind # "sum"
  <2>1. GiveUp("structure")
    BY <1>7 DEF Verify
  <2>2. ~InfoOk(archive)
    <3> HIDE DEF rest
    <3> QED BY <1>5, <1>6, <1>7
  <2> QED BY <1>1, <2>1, <2>2, GiveUpStep DEF Reasons
<1>8. ASSUME L = Taken + 2, items[Taken + 2].kind = "sum", archive = dest
      PROVE  items[Taken + 2].of = digest
  <2>1. Len(dest.items) = Len(bs) + 2
    BY <1>1, <1>4, <1>8 DEF Layout
  <2>2. Len(bs) = Taken /\ Len(bs) \in Nat
    <3>1. Len(bs) \in Nat
      BY <1>4
    <3>2. L = Len(bs) + 2
      BY <1>8, <2>1 DEF L
    <3> QED BY <1>2, <1>8, <3>1, <3>2
  <2>3. ASSUME NEW i \in 1..Taken PROVE digest[i] = bs[i]
    <3>1. items[i] = Block(bs[i])
      BY <1>4, <1>8, <2>2 DEF Layout, items
    <3> QED BY <1>3, <3>1, BlockFacts
  <2>4. digest = bs
    BY <1>2, <1>3, <1>4, <2>2, <2>3
  <2>5. Taken + 2 \in 1..Len(dest.items)
    BY <1>2, <1>8 DEF L
  <2> QED BY <1>4, <1>8, <2>4, <2>5, LayoutItem DEF items
<1>9. CASE Len(rest) = 1 /\ Head(rest).kind = "sum" /\ Head(rest).of # digest
  <2>1. GiveUp("corrupt")
    BY <1>9 DEF Verify
  <2>2. archive # dest
    <3> HIDE DEF rest
    <3> QED BY <1>5, <1>8, <1>9
  <2> QED BY <1>1, <2>1, <2>2, GiveUpStep DEF Reasons
<1>10. CASE Len(rest) = 1 /\ Head(rest).kind = "sum" /\ Head(rest).of = digest
  <2>1. /\ out' = out \o held /\ held' = <<>> /\ stage' = "restored"
        /\ UNCHANGED <<reason, source, archive, dest, feeding, pending, digest, left, pool>>
    BY <1>10 DEF Verify, ordered
  <2>2. L = Taken + 2 /\ items[Taken + 2].kind = "sum" /\ items[Taken + 2].of = digest
    <3> HIDE DEF rest
    <3> QED BY <1>5, <1>10
  <2>3. digest = bs
    <3>1. Taken + 2 \in 1..Len(archive.items)
      BY <1>2, <2>2 DEF L
    <3>2. CASE items[Taken + 2].of = bs
      BY <2>2, <3>2
    <3>3. CASE /\ items[Taken + 2].of = <<Damaged>>
               /\ \A i \in 1..Len(archive.items) : IsBlock(items[i]) => items[i].body # Damaged
      <4>1. digest = <<Damaged>> /\ Len(digest) = 1 /\ digest[1] = Damaged
        BY <2>2, <3>3
      <4>2. 1 \in 1..Taken /\ 1 \in 1..Len(archive.items)
        BY <1>2, <1>3, <3>1, <4>1
      <4>3. IsBlock(items[1]) /\ items[1].body = Damaged
        BY <1>2, <1>3, <4>1, <4>2 DEF IsBlock, BlockItems
      <4> QED BY <3>3, <4>2, <4>3
    <3> QED BY <1>4, <2>2, <3>1, <3>2, <3>3 DEF Derived, Sums, items
  <2>4. out' = bs
    BY <1>1, <2>1, <2>3 DEF IInv, ReleasedInv
  <2> HIDE DEF rest
  <2>5. Types'
    <3>1. out' \in Seq(Data) /\ held' \in Seq(Data) /\ Len(held') <= 1
      BY <2>1 DEF IInv, Types
    <3> QED BY <2>1, <3>1 DEF IInv, Types, Stages
  <2>6. PackingInv' /\ PublishedInv' /\ ArchiveInv' /\ ReadingInv' /\ ReleasedInv'
    BY <1>1, <2>1 DEF IInv, PackingInv, PublishedInv, ArchiveInv, ReadingInv, ReleasedInv
  <2>7. EndedInv'
    BY <1>3, <1>6, <2>1, <2>2, <2>4 DEF EndedInv, bs
  <2> QED BY <2>5, <2>6, <2>7 DEF IInv
<1> QED BY <1>7, <1>9, <1>10

(* The operation stops.                                                    *)
LEMMA OtherStops ==
  ASSUME IInv, SourceChanged \/ Cancelled \/ PoolIsBroken \/ ConsumerStops PROVE IInv'
<1>1. PICK why \in {"changed", "cancelled", "pool", "consumer"} : GiveUp(why) /\ (why = "changed" => stage = "packing")
  BY DEF SourceChanged, Cancelled, PoolIsBroken, ConsumerStops
<1>2. stage = "packing" \/ stage = "reading"
  BY DEF SourceChanged, Cancelled, PoolIsBroken, ConsumerStops, Working, Reading
<1> QED BY <1>1, <1>2, GiveUpStep DEF Reasons

(* Every step keeps the invariant.                                         *)
LEMMA NextInvariant == IInv /\ SyncedInv /\ [Next]_vars => IInv'
<1> SUFFICES ASSUME IInv, SyncedInv, [Next]_vars PROVE IInv'
  OBVIOUS
<1>0. CASE Sync \/ Rename \/ WriteFails \/ PowerFails
  BY <1>0, SyncStep, RenameStep, WriteFailsStep
<1>1. CASE ReadChunk \/ WriteBlock \/ Seal \/ EditSource
  BY <1>1, ReadChunkStep, WriteBlockStep, SealStep, EditSourceStep
<1>2. CASE Open \/ BadHeader \/ ReadLegacy \/ ReadBlock \/ BadBlock
  BY <1>2, OpenStep, BadHeaderStep, ReadLegacyStep, ReadBlockStep, BadBlockStep
<1>3. CASE TakeBlock \/ BadBody \/ Verify
  BY <1>3, TakeBlockStep, BadBodyStep, VerifyStep
<1>4. CASE SourceChanged \/ Cancelled \/ PoolIsBroken \/ ConsumerStops
  BY <1>4, OtherStops
<1>5. CASE PoolBreaks
  BY <1>5, PoolBreaksStep
<1>6. CASE \E i \in DOMAIN pending : Finish(i)
  BY <1>6, FinishStep
<1>7. CASE UNCHANGED vars
  BY <1>7 DEF vars, IInv, Types, PackingInv, PublishedInv, ArchiveInv, ReadingInv, ReleasedInv, EndedInv,
     Taken, Fit, Depth
<1> QED BY <1>0, <1>1, <1>2, <1>3, <1>4, <1>5, <1>6, <1>7 DEF Next, Thread, Ended

(* Only Sync reaches the two stages after it, but for the rename.          *)
LEMMA SyncedStep == SyncedInv /\ [Next]_vars => SyncedInv'
<1> SUFFICES ASSUME SyncedInv, [Next]_vars PROVE SyncedInv'
  OBVIOUS
<1>0. ASSUME NEW why, GiveUp(why) PROVE SyncedInv'
  BY <1>0 DEF GiveUp, SyncedInv
<1>1. CASE Sync \/ Rename \/ WriteFails \/ PowerFails
  BY <1>1 DEF Sync, Rename, WriteFails, PowerFails, SyncedInv
<1>2. CASE ReadChunk \/ WriteBlock \/ Seal \/ EditSource \/ Open \/ ReadBlock \/ TakeBlock \/ PoolBreaks
  BY <1>2 DEF ReadChunk, WriteBlock, Seal, EditSource, Open, ReadBlock, TakeBlock, PoolBreaks, SyncedInv
<1>3. CASE ReadLegacy \/ Verify
  BY <1>3, <1>0 DEF ReadLegacy, Verify, SyncedInv
<1>4. CASE BadHeader \/ BadBlock \/ BadBody \/ SourceChanged \/ Cancelled \/ PoolIsBroken \/ ConsumerStops
  BY <1>4, <1>0 DEF BadHeader, BadBlock, BadBody, SourceChanged, Cancelled, PoolIsBroken, ConsumerStops
<1>5. CASE \E i \in DOMAIN pending : Finish(i)
  BY <1>5 DEF Finish, SyncedInv
<1>6. CASE UNCHANGED vars
  BY <1>6 DEF vars, SyncedInv
<1> QED BY <1>1, <1>2, <1>3, <1>4, <1>5, <1>6 DEF Next, Thread, Ended

LEMMA SyncedInit == Init => SyncedInv
BY DEF Init, Fresh, SyncedInv

(* The strengthening of the properties below holds in every state: the     *)
(* packed data, the container and the digest stay in step, whatever is     *)
(* changed between the writer and the reader.                              *)
THEOREM InvariantHolds == Spec => [](IInv /\ SyncedInv)
BY InitInvariant, SyncedInit, NextInvariant, SyncedStep, PTL DEF Spec

(* The variables keep their shape.                                         *)
THEOREM TypesHold == Spec => []TypeOK
BY InvariantHolds, InvariantTypes, PTL

(* Whatever the order in which the pool finishes, blocks are written in    *)
(* the order they were read, and the checksum is theirs.                   *)
THEOREM PackedInOrderTheorem == Spec => []PackedInOrder
BY InvariantHolds, InvariantPacked, PTL

(* The destination is the old file or a whole container, whatever the      *)
(* source, the storage or the power did: pack_stream behind the atomic     *)
(* writer, which syncs before it renames.                                  *)
THEOREM DestinationWholeTheorem == Spec => []DestinationWhole
BY InvariantHolds, InvariantWhole, PTL

(* A reader that ends well has restored exactly what was packed, and an    *)
(* archive nobody changed is not refused for what is in it: the checks of  *)
(* iter_decompress neither miss a change nor see one that is not there.    *)
THEOREM RestoredIsOriginalTheorem == Spec => []RestoredIsOriginal
<1>1. IInv => RestoredIsOriginal
  BY InvariantRest
<1> QED BY <1>1, InvariantHolds, PTL

(* The consumer never has all the announced bytes before the checksum was  *)
(* compared.                                                               *)
THEOREM LastBlockWithheldTheorem == Spec => []LastBlockWithheld
<1>1. IInv => LastBlockWithheld
  BY InvariantRest
<1> QED BY <1>1, InvariantHolds, PTL

(* read_info and the decoder judge the structure of an archive alike.      *)
THEOREM InfoAgreesWithDecoderTheorem == Spec => []InfoAgreesWithDecoder
<1>1. IInv => InfoAgreesWithDecoder
  BY InvariantRest
<1> QED BY <1>1, InvariantHolds, PTL
=============================================================================
