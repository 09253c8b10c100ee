------------------------------- MODULE Codecs -------------------------------
(***************************************************************************)
(* The codecs of algorithms/ (the Python code; _speedups.c repeats it),    *)
(* the choice made for each block by container/format.py, and the sampling *)
(* of recommend.py, as operators on short inputs.  A byte is a member of   *)
(* 0..Symbols-1; the limits of the formats are constants, so that inputs   *)
(* of a few bytes reach them.  A step only lengthens the input, so that    *)
(* every input up to MaxLen is the state of some behaviour.                *)
(***************************************************************************)
EXTENDS Naturals, Sequences, FiniteSets, SequencesExt

CONSTANTS
  Symbols,   \* how many different bytes there are (256)
  MaxCode,   \* the last LZW code (65535)
  MaxRun,    \* the longest run of one RLE record (2^32 - 1)
  Width,     \* bits of a payload byte (8)
  MaxLen, MaxCodes, MaxPayload,   \* bounds on the inputs: bytes, LZW codes, Huffman payload bytes
  Weights,   \* counts a Huffman table may hold
  ProbeSize, Stride,   \* bytes of a block that are tried first; step of its sample (65536, 16)
  HighEntropy,         \* two to the power of the entropy that calls for the trial (2^7.5)
  SampleLimit, SampleChunks, MaxFile   \* the sampling of recommend.py; bound on its files

ASSUME CodecsAssumption ==
  /\ Symbols \in Nat \ {0} /\ MaxCode \in Nat /\ MaxCode >= Symbols
  /\ MaxRun \in Nat \ {0} /\ Width \in Nat \ {0} /\ Weights \subseteq Nat
  /\ MaxLen \in Nat /\ MaxCodes \in Nat /\ MaxPayload \in Nat
  /\ ProbeSize \in Nat \ {0} /\ Stride \in Nat \ {0} /\ HighEntropy \in Nat
  /\ SampleChunks \in Nat /\ SampleChunks > 1 /\ MaxFile \in Nat
  /\ SampleLimit \in Nat \ {0} /\ SampleLimit % SampleChunks = 0

VARIABLES
  kind,   \* what the input is: data, or a stream for one of the decoders
  input,  \* the input
  table   \* the frequency table that came with a Huffman stream

vars == <<kind, input, table>>

Bytes == 0 .. Symbols - 1
Corrupt == [corrupt |-> TRUE]        \* CorruptDataError
Restored(s) == [restored |-> s]
Repeat(v, n) == [i \in 1..n |-> v]
Total(t) == FoldLeft(LAMBDA a, b : a + t[b], 0, [i \in 1..Symbols |-> i - 1])
IsSingle(codes) == Cardinality(DOMAIN codes) = 1

(***************************************************************************)
(* RLE: records of a count and a byte.                                     *)
(***************************************************************************)
Runs(data) ==
  FoldLeft(LAMBDA runs, v :
             IF runs # <<>> /\ Last(runs)[2] = v
               THEN Append(Front(runs), <<Last(runs)[1] + 1, v>>)
               ELSE Append(runs, <<1, v>>),
           <<>>, data)

\* Mutant: a run of exactly the longest length is split too.
Split_Empty(run) ==
  LET full == run[1] \div MaxRun
  IN  Append(Repeat(<<MaxRun, run[2]>>, full), <<run[1] - full * MaxRun, run[2]>>)

(* Full records while the rest is longer than one record holds.            *)
Split(run) ==
  LET full == (run[1] - 1) \div MaxRun
  IN  Append(Repeat(<<MaxRun, run[2]>>, full), <<run[1] - full * MaxRun, run[2]>>)

RleCompress(data) == FlattenSeq([i \in DOMAIN Runs(data) |-> Split(Runs(data)[i])])

RleDecompress(records, limit) ==
  IF \/ \E i \in DOMAIN records : records[i][1] = 0
     \/ FoldLeft(LAMBDA n, r : n + r[1], 0, records) > limit
  THEN Corrupt
  ELSE Restored(FlattenSeq([i \in DOMAIN records |-> Repeat(records[i][2], records[i][1])]))

(***************************************************************************)
(* LZW.  The encoder's dictionary holds the pair <<code, byte>> of each    *)
(* entry, the decoder's the bytes; entry i of either has code              *)
(* Symbols + i - 1.                                                        *)
(***************************************************************************)
LzwStep(s, value) ==
  LET key == <<s.phrase, value>>
      known == {i \in DOMAIN s.dictionary : s.dictionary[i] = key}
      grown == IF Symbols + Len(s.dictionary) <= MaxCode THEN Append(s.dictionary, key) ELSE s.dictionary
  IN  IF known # {} THEN [s EXCEPT !.phrase = Symbols + (CHOOSE i \in known : TRUE) - 1]
      ELSE [dictionary |-> grown, phrase |-> value, codes |-> Append(s.codes, s.phrase)]

LzwCompress(data) ==
  IF data = <<>> THEN <<>>
  ELSE LET s == FoldLeft(LzwStep, [dictionary |-> <<>>, phrase |-> Head(data), codes |-> <<>>], Tail(data))
       IN  Append(s.codes, s.phrase)

\* Mutant: the decoder's dictionary stops growing one entry early.
LzwRead_StopsEarly(s, code) ==
  LET known == Symbols + Len(s.dictionary)
      entry == IF code < Symbols THEN <<code>>
               ELSE IF code < known THEN s.dictionary[code - Symbols + 1]
               ELSE Append(s.previous, Head(s.previous))
  IN  IF s.corrupt \/ code > known THEN [s EXCEPT !.corrupt = TRUE]
      ELSE [s EXCEPT !.previous = entry, !.output = @ \o entry,
              !.dictionary = IF known < MaxCode THEN Append(@, Append(s.previous, Head(entry))) ELSE @]

LzwRead(s, code) ==
  LET known == Symbols + Len(s.dictionary)
      entry == IF code < Symbols THEN <<code>>
               ELSE IF code < known THEN s.dictionary[code - Symbols + 1]
               ELSE Append(s.previous, Head(s.previous))
  IN  IF s.corrupt \/ code > known THEN [s EXCEPT !.corrupt = TRUE]
      ELSE [s EXCEPT !.previous = entry, !.output = @ \o entry,
              !.dictionary = IF known <= MaxCode THEN Append(@, Append(s.previous, Head(entry))) ELSE @]

LzwDecompress(codes, limit) ==
  IF codes = <<>> THEN Restored(<<>>)
  ELSE IF Head(codes) >= Symbols THEN Corrupt
  ELSE LET s == FoldLeft(LzwRead,
                  [dictionary |-> <<>>, previous |-> <<Head(codes)>>, output |-> <<Head(codes)>>, corrupt |-> FALSE],
                  Tail(codes))
       IN  IF s.corrupt \/ (Len(codes) > 1 /\ Len(s.output) > limit) THEN Corrupt ELSE Restored(s.output)

(***************************************************************************)
(* Huffman.  A node of the tree is the function from the symbols under it  *)
(* to their codes below it, and a state of the decoder is the path from    *)
(* the root to an internal node.                                           *)
(***************************************************************************)
Leaf(s) == [x \in {s} |-> <<>>]
Joined(left, right) ==
  [s \in DOMAIN left \cup DOMAIN right |-> IF s \in DOMAIN left THEN <<0>> \o left[s] ELSE <<1>> \o right[s]]
Lighter(a, b) == a.weight < b.weight \/ (a.weight = b.weight /\ a.order < b.order)

\* Mutant: the oldest two nodes are merged, whatever they weigh.
Lightest_Oldest(heap) == CHOOSE a \in heap : \A b \in heap : a.order <= b.order

Lightest(heap) == CHOOSE a \in heap : \A b \in heap \ {a} : Lighter(a, b)

Merge(heap, order) ==
  LET left == Lightest(heap)
      right == Lightest(heap \ {left})
  IN  (heap \ {left, right}) \cup
      {[weight |-> left.weight + right.weight, order |-> order,
        codes |-> Joined(left.codes, right.codes)]}

Used(t) ==
  LET used[n \in 0..Symbols] ==
        IF n = 0 THEN <<>> ELSE IF t[n - 1] > 0 THEN Append(used[n - 1], n - 1) ELSE used[n - 1]
  IN  used[Symbols]

(* _build_tree and _build_codes: the only symbol of a table has code 0.    *)
Codes(t) ==
  LET used == Used(t)
      leaves == {[weight |-> t[used[i]], order |-> i, codes |-> Leaf(used[i])] : i \in DOMAIN used}
      root == FoldLeft(Merge, leaves, [i \in 1..Len(used) - 1 |-> Len(used) + i])
  IN  IF Len(used) = 1 THEN [s \in {Head(used)} |-> <<0>>] ELSE (CHOOSE n \in root : TRUE).codes

Histogram(data) == [s \in Bytes |-> Cardinality({i \in DOMAIN data : data[i] = s})]
Encode(data, codes) == FlattenSeq([i \in DOMAIN data |-> codes[data[i]]])
Bytesized(n) == (n + Width - 1) \div Width
Padded(bits) == bits \o Repeat(0, Bytesized(Len(bits)) * Width - Len(bits))

HuffmanCompress(data) ==
  IF data = <<>> THEN [payload |-> <<>>, table |-> Histogram(data), bits |-> 0]
  ELSE LET bits == Encode(data, Codes(Histogram(data)))
       IN  [payload |-> Padded(bits), table |-> Histogram(data), bits |-> Len(bits)]

(* walk: the symbols emitted by some bits from a state, and the next state. *)
Walk(codes, s, bits) ==
  FoldLeft(LAMBDA r, bit :
             LET path == Append(r.path, bit)
                 leaf == {c \in DOMAIN codes : codes[c] = path}
             IN  IF leaf = {} THEN [r EXCEPT !.path = path]
                 ELSE [path |-> <<>>, output |-> Append(r.output, CHOOSE c \in leaf : TRUE)],
           s, bits)

\* Mutant: the padding is not looked at.
PaddingIsZero_Unread(payload, bits) == TRUE

PaddingIsZero(payload, bits) == \A i \in bits + 1 .. Len(payload) : payload[i] = 0

HuffmanDecompress(payload, t, bits, limit) ==
  LET size == Total(t)
      full == (bits \div Width) * Width
      start == [path |-> <<>>, output |-> <<>>]
      bytes == Walk(Codes(t), start, SubSeq(payload, 1, full))
      all == Walk(Codes(t), bytes, SubSeq(payload, full + 1, bits))
  IN  IF \/ size > limit \/ Len(payload) # Bytesized(bits) * Width THEN Corrupt
      ELSE IF size = 0 THEN (IF bits = 0 THEN Restored(<<>>) ELSE Corrupt)
      ELSE IF IsSingle(Codes(t))
        THEN IF bits # size \/ \E i \in 1 .. Len(payload) - Width : payload[i] = 1 THEN Corrupt
             ELSE IF ~PaddingIsZero(payload, bits) THEN Corrupt
             ELSE Restored(Repeat(CHOOSE s \in DOMAIN Codes(t) : TRUE, size))
      ELSE IF PaddingIsZero(payload, bits) /\ Len(all.output) = size /\ all.path = <<>>
        THEN Restored(all.output) ELSE Corrupt

(***************************************************************************)
(* A block of the container: the codec's output or the block itself.       *)
(* Sizes are scaled down like the inputs: a record takes 2 units, a code   *)
(* one, and the metadata of a Huffman block one for each used symbol (the  *)
(* fixed metadata of the others none), so that each codec pays off for     *)
(* some input and none for others.                                         *)
(***************************************************************************)
Algorithms == {"rle", "huffman", "lzw", "stored"}

Compress(algorithm, data) ==
  CASE algorithm = "rle"     -> [payload |-> RleCompress(data)]
    [] algorithm = "lzw"     -> [payload |-> LzwCompress(data)]
    [] algorithm = "huffman" -> HuffmanCompress(data)
    [] algorithm = "stored"  -> [payload |-> data]

Decompress(algorithm, coded, limit) ==
  CASE algorithm = "rle"     -> RleDecompress(coded.payload, limit)
    [] algorithm = "lzw"     -> LzwDecompress(coded.payload, limit)
    [] algorithm = "huffman" -> HuffmanDecompress(coded.payload, coded.table, coded.bits, limit)
    [] algorithm = "stored"  -> IF Len(coded.payload) > limit THEN Corrupt ELSE Restored(coded.payload)

MetadataSize(algorithm, coded) == IF algorithm = "huffman" THEN Len(Used(coded.table)) ELSE 0

PayloadSize(algorithm, coded) ==
  CASE algorithm = "rle"     -> 2 * Len(coded.payload)
    [] algorithm = "lzw"     -> Len(coded.payload)
    [] algorithm = "huffman" -> Len(coded.payload) \div Width
    [] algorithm = "stored"  -> Len(coded.payload)

Size(algorithm, coded) == PayloadSize(algorithm, coded) + MetadataSize(algorithm, coded)

(* The entropy of the bytes is high: log2 n less the mean of log2 of each   *)
(* byte's count is at least log2 HighEntropy, as powers of both sides.      *)
LooksRandom(bytes) ==
  LET n == Len(bytes)
      count == Histogram(bytes)
  IN  FoldLeft(LAMBDA p, b : p * count[b] ^ count[b], HighEntropy ^ n, SetToSeq(ToSet(bytes))) <= n ^ n

(* A long block whose every Stride-th byte looks random is given up when    *)
(* its first ProbeSize bytes do not shrink; the metadata of the probe are   *)
(* charged in proportion.                                                  *)
LooksIncompressible(algorithm, chunk) ==
  LET sample == [i \in 1..(Len(chunk) + Stride - 1) \div Stride |-> chunk[(i - 1) * Stride + 1]]
      coded == Compress(algorithm, SubSeq(chunk, 1, ProbeSize))
  IN  /\ Len(chunk) > ProbeSize /\ LooksRandom(sample)
      /\ PayloadSize(algorithm, coded) + (MetadataSize(algorithm, coded) * ProbeSize) \div Len(chunk) >= ProbeSize

\* Mutant: the codec's output is kept when it is as long as the block.
EncodeBlock_NotSmaller(algorithm, chunk) ==
  LET coded == Compress(algorithm, chunk)
  IN  IF /\ algorithm # "stored" /\ ~LooksIncompressible(algorithm, chunk)
         /\ Size(algorithm, coded) <= Len(chunk)
      THEN [algorithm |-> algorithm, coded |-> coded]
      ELSE [algorithm |-> "stored", coded |-> [payload |-> chunk]]

EncodeBlock(algorithm, chunk) ==
  LET coded == Compress(algorithm, chunk)
  IN  IF /\ algorithm # "stored" /\ ~LooksIncompressible(algorithm, chunk)
         /\ Size(algorithm, coded) < Len(chunk)
      THEN [algorithm |-> algorithm, coded |-> coded]
      ELSE [algorithm |-> "stored", coded |-> [payload |-> chunk]]

DecodeBlock(block, length) ==
  LET result == Decompress(block.algorithm, block.coded, length)
  IN  IF result = Corrupt \/ Len(result.restored) # length THEN Corrupt ELSE result

(***************************************************************************)
(* The sample of a file, as the positions read.                            *)
(***************************************************************************)
\* Mutant: the step divides the file by all chunks.
Sample_ShortStep(n) ==
  LET chunk == SampleLimit \div SampleChunks
      step == (n - chunk) \div SampleChunks
  IN  IF n <= SampleLimit THEN [i \in 1..n |-> i]
      ELSE FlattenSeq([k \in 1..SampleChunks |-> [i \in 1..chunk |-> (k - 1) * step + i]])

Sample(n) ==
  LET chunk == SampleLimit \div SampleChunks
      step == (n - chunk) \div (SampleChunks - 1)
  IN  IF n <= SampleLimit THEN [i \in 1..n |-> i]
      ELSE FlattenSeq([k \in 1..SampleChunks |-> [i \in 1..chunk |-> (k - 1) * step + i]])

-----------------------------------------------------------------------------
NoTable == [s \in Bytes |-> 0]

Init ==
  /\ kind \in {"data", "lzw", "huffman", "file"} /\ input = <<>>
  /\ table \in (IF kind = "huffman" THEN [Bytes -> Weights] ELSE {NoTable})

Bounded(k, n) == kind = k /\ Len(input) < n
AddByte == Bounded("data", MaxLen) /\ \E b \in Bytes : input' = Append(input, b)
AddCode == Bounded("lzw", MaxCodes) /\ \E c \in 0..MaxCode : input' = Append(input, c)
AddBits == Bounded("huffman", MaxPayload * Width) /\ \E bits \in [1..Width -> {0, 1}] : input' = input \o bits
AddToFile == Bounded("file", MaxFile) /\ input' = Append(input, 0)

Next == (AddByte \/ AddCode \/ AddBits \/ AddToFile) /\ UNCHANGED <<kind, table>>
Spec == Init /\ [][Next]_vars

-----------------------------------------------------------------------------
(* Every codec restores every input: runs at and around multiples of the   *)
(* longest record, dictionaries that fill up, codes used before they are   *)
(* complete, one-symbol and empty inputs; and no stream has a code or a    *)
(* count its field cannot hold.                                            *)
RoundTrip ==
  kind = "data" =>
    /\ \A a \in Algorithms : Decompress(a, Compress(a, input), Len(input)) = Restored(input)
    /\ \A i \in DOMAIN LzwCompress(input) : LzwCompress(input)[i] \in 0..MaxCode
    /\ \A i \in DOMAIN RleCompress(input) : RleCompress(input)[i][1] \in 1..MaxRun

(* A block is restored by its decoder, and its sizes pass the tests of the *)
(* container's reader, which refuses a compressed block that is not        *)
(* smaller than the data.                                                  *)
BlockPassesReader ==
  kind = "data" => \A a \in Algorithms :
    LET block == EncodeBlock(a, input)
    IN  /\ DecodeBlock(block, Len(input)) = Restored(input)
        /\ IF block.algorithm = "stored" THEN Size("stored", block.coded) = Len(input)
           ELSE Size(block.algorithm, block.coded) < Len(input)

(* What an LZW stream means: code c names the phrase of the code at its    *)
(* entry's position and the first byte of the next one.                    *)
LzwMeaning(codes) ==
  LET at(i) == codes[i] - Symbols + 1
      defined == codes = <<>> \/
        (codes[1] < Symbols /\ \A i \in DOMAIN codes : codes[i] >= Symbols => at(i) < i)
      phrase[i \in DOMAIN codes] ==
        IF codes[i] < Symbols THEN <<codes[i]>>
        ELSE Append(phrase[at(i)], Head(phrase[IF at(i) + 1 = i THEN at(i) ELSE at(i) + 1]))
  IN  IF defined THEN Restored(FlattenSeq([i \in DOMAIN codes |-> phrase[i]])) ELSE Corrupt

(* On every stream, also on those no encoder writes, the LZW decoder       *)
(* restores what its codes mean or refuses them, up to a full dictionary.  *)
LzwDecodesMeaning ==
  kind = "lzw" => LzwDecompress(input, MaxCodes * MaxCodes) = LzwMeaning(input)

(* A Huffman stream that is accepted has the size of its table, and is the *)
(* only one with its table and its data: the bits are the codes of the     *)
(* data and the padding is empty; no bit stands for no data.  With one     *)
(* symbol in the table the bits are only counted: there is one for each    *)
(* byte of the data, and none is set before the last byte or in the        *)
(* padding.                                                                *)
HuffmanIsCanonical ==
  kind = "huffman" => \A bits \in 0..Len(input) :
    LET result == HuffmanDecompress(input, table, bits, MaxLen)
    IN  result # Corrupt =>
          /\ Len(result.restored) = Total(table) /\ Total(table) <= MaxLen
          /\ Total(table) = 0 => bits = 0 /\ input = <<>>
          /\ Len(Used(table)) = 1 =>
               /\ bits = Total(table) /\ result.restored = Repeat(Head(Used(table)), bits)
               /\ \A i \in 1..Len(input) : input[i] = 1 => i > Len(input) - Width /\ i <= bits
          /\ Len(Used(table)) > 1 => /\ Padded(Encode(result.restored, Codes(table))) = input
                                     /\ bits = Len(Encode(result.restored, Codes(table)))

(* The codes built from a table are as short as any prefix code's: no      *)
(* other lengths that satisfy Kraft's inequality cost fewer bits.          *)
HuffmanIsOptimal ==
  kind = "huffman" /\ input = <<>> /\ Len(Used(table)) > 1 =>
    LET used == {s \in Bytes : table[s] > 0}
        power[n \in 0..Symbols] == IF n = 0 THEN 1 ELSE 2 * power[n - 1]
        cost(len) == MapThenSumSet(LAMBDA s : table[s] * len[s], used)
        kraft(len) == MapThenSumSet(LAMBDA s : power[Symbols - len[s]], used) <= power[Symbols]
    IN  \A len \in [used -> 1..Symbols] :
          kraft(len) => cost([s \in used |-> Len(Codes(table)[s])]) <= cost(len)

(* A file's sample is the whole of a short file and has the full length    *)
(* for a longer one, lies within the file, reads no byte twice, reaches    *)
(* from the first byte to the last ones and skips nowhere more than an     *)
(* equal share of the bytes that are not read.                             *)
SampleSpreads ==
  kind = "file" =>
    LET n == Len(input)
        s == Sample(n)
    IN  /\ Len(s) = (IF n <= SampleLimit THEN n ELSE SampleLimit) /\ ToSet(s) \subseteq 1..n
        /\ \A i, j \in DOMAIN s : i < j => s[i] < s[j]
        /\ \A i \in 1..Len(s) - 1 : (s[i + 1] - s[i] - 1) * (SampleChunks - 1) <= n - Len(s)
        /\ n > 0 => s[1] = 1 /\ n - Last(s) < SampleChunks - 1
=============================================================================
