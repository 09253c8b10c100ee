--------------------------- MODULE ContainerStream ---------------------------
(***************************************************************************)
(* The FCMP block stream: container/format.py packs a source into a        *)
(* container and restores it, with the blocks of both directions spread    *)
(* over the process pool of parallel.py; service.py renames the finished   *)
(* container into place.  A behaviour packs a source, publishes the        *)
(* container, may change it on its way, and reads the result.              *)
(*                                                                         *)
(* A block's bytes are one member of Chunks, a checksum is the sequence it *)
(* was computed from (SHA-256 without collisions), and a file is its       *)
(* header and the sequence of items after it.  Lengths are in units: a     *)
(* block is BlockSize units, a compressed one takes CodedSize.             *)
(***************************************************************************)
EXTENDS Naturals, Sequences, FiniteSets

CONSTANTS
  Chunks,        \* what a block of the source may contain
  Compressible,  \* the blocks the codec makes smaller
  Damaged,       \* what a block that was changed on the way restores to
  MaxBlocks,     \* bound on the blocks of a source
  Workers        \* configured_workers()

ASSUME ChunksAssumption == Compressible \subseteq Chunks /\ Damaged \notin Chunks
ASSUME WorkersAssumption == Workers \in Nat \ {0} /\ MaxBlocks \in Nat

VARIABLES
  stage,    \* where the one operation of the behaviour stands
  reason,   \* why it was given up
  source,   \* the blocks of the file being packed
  archive,  \* the container being written or read
  dest,     \* the destination of the rename: Previous or a container
  synced,   \* the temporary file, also after its rename, is on the disk
  pending,  \* the deque of _ordered: a job and its future's state
  feeding,  \* the iterator of jobs is not exhausted
  digest,   \* what the running SHA-256 has been fed
  left,     \* the reader's `remaining`
  held,     \* the reader's block not yet released
  out,      \* the blocks released to the reader's consumer
  pool      \* the process pool is up or broken

vars == <<stage, reason, source, archive, dest, synced, pending, feeding, digest, left, held, out, pool>>
ordered == <<pending, feeding>>
reader  == <<left, held, out>>

BlockSize == 2
CodedSize == 1

(* What the destination was before: an older file, or none.                *)
Previous == [version |-> 0]

Least(a, b) == IF a < b THEN a ELSE b

(* Without a pool _ordered calls the function in place, one job at a time. *)
Depth == IF Workers = 1 THEN 1 ELSE 2 * Workers

(***************************************************************************)
(* The format.                                                             *)
(***************************************************************************)
Block(chunk) ==
  [kind |-> "block", body |-> chunk, len |-> BlockSize,
   alg  |-> IF chunk \in Compressible THEN "codec" ELSE "stored",
   size |-> IF chunk \in Compressible THEN CodedSize ELSE BlockSize]

End    == [kind |-> "end"]
Sum(s) == [kind |-> "sum", of |-> s]
Junk   == [kind |-> "junk"]

Header(total) == [version |-> 2, valid |-> TRUE, alg |-> "stored", total |-> total, items |-> <<>>]

(* A container of format version 1: one block, the checksum in the header. *)
Legacy(chunk) ==
  [version |-> 1, valid |-> TRUE, total |-> BlockSize, sum |-> <<chunk>>, items |-> <<Block(chunk)>>]

IsBlock(item) == item.kind = "block"

ValidBlock(item, remaining) ==
  /\ IsBlock(item)
  /\ 0 < item.len /\ item.len <= Least(BlockSize, remaining)
  /\ item.alg = "stored" => item.size = item.len
  /\ item.alg = "codec" => item.size < item.len

(* The bytes before item n that blocks have announced. *)
Announced(items) ==
  LET sum[n \in 0..Len(items)] ==
        IF n = 0 THEN 0 ELSE sum[n - 1] + IF IsBlock(items[n]) THEN items[n].len ELSE 0
  IN  sum

\* Mutant: bytes after the announced ones are not noticed.
InfoOk_TrailingBytes(file) ==
  /\ file.valid
  /\ file.version = 2 => Len(file.items) > 1 /\ file.items[Len(file.items) - 1] = End

(* read_info: the structure, from the headers alone. *)
InfoOk(file) ==
  /\ file.valid
  /\ IF file.version = 1 THEN Len(file.items) = 1
     ELSE LET n == Len(file.items) - 2
              sum == Announced(file.items)
          IN  /\ n >= 0
              /\ \A i \in 1..n : /\ sum[i - 1] <= file.total
                                 /\ ValidBlock(file.items[i], file.total - sum[i - 1])
              /\ file.items[n + 1] = End /\ sum[n] = file.total
              /\ file.items[n + 2].kind = "sum"

(***************************************************************************)
(* What may happen to a container between its writer and its reader: it    *)
(* loses its end, gains bytes, one of its items or fields is changed, or   *)
(* two neighbours change places.                                           *)
(***************************************************************************)
WithItem(file, i, item) == [file EXCEPT !.items[i] = item]

Changed(file) ==
  LET items == file.items
      at == DOMAIN items
      blocks == {i \in at : IsBlock(items[i])}
      framed == IF file.version = 1 THEN {} ELSE at  \* version 1 has no block headers
  IN  {[file EXCEPT !.items = SubSeq(items, 1, k)] : k \in 0..Len(items) - 1}
      \cup {[file EXCEPT !.items = Append(items, Junk)], [file EXCEPT !.valid = FALSE]}
      \cup {[file EXCEPT !.total = t] : t \in {file.total + BlockSize, file.total + 1}}
      \cup {WithItem(file, i, Junk) : i \in framed}
      \cup {WithItem(file, i, Sum(<<Damaged>>)) : i \in {j \in at : items[j].kind = "sum"}}
      \cup {[file EXCEPT !.items = SubSeq(items, 1, i - 1) \o SubSeq(items, i + 1, Len(items))] : i \in blocks}
      \cup {[file EXCEPT !.items[i] = items[i - 1], !.items[i - 1] = items[i]] : i \in at \ {1}}
      \cup {WithItem(file, i, [items[i] EXCEPT !.body = Damaged]) : i \in blocks}
      \cup {WithItem(file, i, [items[i] EXCEPT !.len = n]) : i \in blocks \cap framed, n \in {1, BlockSize + 1}}
      \cup {WithItem(file, i, [items[i] EXCEPT !.size = BlockSize]) :
             i \in {j \in blocks \cap framed : items[j].alg = "codec"}}

-----------------------------------------------------------------------------
Sources == UNION {[1..n -> Chunks] : n \in 0..MaxBlocks}

Fresh(file, from) ==
  /\ archive = file /\ stage = from
  /\ reason = "none" /\ dest = (IF from = "packing" THEN Previous ELSE file)
  /\ synced = (from # "packing")
  /\ pending = <<>> /\ feeding = TRUE /\ digest = <<>>
  /\ left = 0 /\ held = <<>> /\ out = <<>> /\ pool = "up"

(* pack_stream writes the header with the size it measured; archives of    *)
(* version 1 are only read.                                                *)
Init ==
  \/ source \in Sources /\ Fresh(Header(BlockSize * Len(source)), "packing")
  \/ \E c \in Chunks : source = <<c>> /\ Fresh(Legacy(c), "published")

(* An exception leaves the generator: pending futures are cancelled, the   *)
(* atomic writer removes its temporary file.                               *)
GiveUp(why) ==
  /\ stage' = IF stage = "reading" THEN "rejected" ELSE "failed"
  /\ reason' = why /\ pending' = <<>> /\ feeding' = FALSE
  /\ UNCHANGED <<source, archive, dest, digest, reader, pool, synced>>

(***************************************************************************)
(* The pool.                                                               *)
(***************************************************************************)
Running == {i \in DOMAIN pending : pending[i].state = "running"}

(* A decoder may notice a damaged body or return other bytes; one block's  *)
(* exact length is tested by _decode_block.                                *)
Outcomes(job) ==
  IF stage = "packing" THEN {"done"}
  ELSE IF job.len # BlockSize THEN {"failed"}
  ELSE IF job.body = Damaged /\ job.alg = "codec" THEN {"done", "failed"} ELSE {"done"}

Finish(i) ==
  /\ i \in Running /\ Cardinality({j \in Running : j < i}) < Workers
  /\ \E o \in Outcomes(pending[i].job) : pending' = [pending EXCEPT ![i].state = o]
  /\ UNCHANGED <<stage, reason, source, archive, dest, feeding, digest, reader, pool, synced>>

(* A dead worker breaks the pool for good: its futures fail.               *)
PoolBreaks ==
  /\ Workers > 1 /\ pool = "up" /\ stage \in {"packing", "reading"}
  /\ pool' = "broken"
  /\ pending' = [i \in DOMAIN pending |->
                   IF i \in Running THEN [pending[i] EXCEPT !.state = "broken"] ELSE pending[i]]
  /\ UNCHANGED <<stage, reason, source, archive, dest, feeding, digest, reader, synced>>

(* The generator's control: jobs are taken while the deque is short, and   *)
(* the oldest result is waited for otherwise.                              *)
MayFeed == feeding /\ Len(pending) < Depth
MayYield == pending # <<>> /\ (~feeding \/ Len(pending) >= Depth)
Submit(job) == pending' = Append(pending, [job |-> job, state |-> "running"])

\* Mutant: the end of the source is taken for a block that is not there yet.
ReadChunk_AwaitsMore ==
  /\ stage = "packing" /\ MayFeed /\ pool = "up"
  /\ Len(digest) < Len(source)
  /\ digest' = Append(digest, source[Len(digest) + 1])
  /\ Submit(source[Len(digest) + 1])
  /\ UNCHANGED <<feeding, stage, reason, source, archive, dest, reader, pool, synced>>

(***************************************************************************)
(* Writing: pack_stream.                                                   *)
(***************************************************************************)
ReadChunk ==
  /\ stage = "packing" /\ MayFeed
  /\ IF Len(digest) >= Len(source)
       THEN feeding' = FALSE /\ UNCHANGED <<pending, digest>>
       ELSE /\ pool = "up"
            /\ digest' = Append(digest, source[Len(digest) + 1])
            /\ Submit(source[Len(digest) + 1])
            /\ UNCHANGED feeding
  /\ UNCHANGED <<stage, reason, source, archive, dest, reader, pool, synced>>

\* Mutant: the first finished block is written, not the oldest.
WriteBlock_AnyFinished ==
  /\ stage = "packing" /\ MayYield
  /\ \E i \in DOMAIN pending :
       /\ pending[i].state = "done"
       /\ archive' = [archive EXCEPT !.items = Append(@, Block(pending[i].job))]
       /\ pending' = SubSeq(pending, 1, i - 1) \o SubSeq(pending, i + 1, Len(pending))
  /\ UNCHANGED <<stage, reason, source, dest, feeding, digest, reader, pool, synced>>

WriteBlock ==
  /\ stage = "packing" /\ MayYield /\ Head(pending).state = "done"
  /\ archive' = [archive EXCEPT !.items = Append(@, Block(Head(pending).job))]
  /\ pending' = Tail(pending)
  /\ UNCHANGED <<stage, reason, source, dest, feeding, digest, reader, pool, synced>>

Seal ==
  /\ stage = "packing" /\ ~feeding /\ pending = <<>>
  /\ BlockSize * Len(archive.items) = archive.total
  /\ archive' = [archive EXCEPT
       !.items = @ \o <<End, Sum(digest)>>,
       !.alg = IF \E i \in DOMAIN archive.items : archive.items[i].alg = "codec" THEN "codec" ELSE "stored"]
  /\ stage' = "sealed"
  /\ UNCHANGED <<reason, source, dest, ordered, digest, reader, pool, synced>>

SourceChanged ==
  /\ stage = "packing" /\ ~feeding /\ pending = <<>>
  /\ BlockSize * Len(archive.items) # archive.total
  /\ GiveUp("changed")

\* Mutant: the data are not fsynced before the rename.
Sync_OnlyFlushed ==
  /\ stage = "sealed" /\ stage' = "synced"
  /\ UNCHANGED <<reason, source, archive, dest, synced, ordered, digest, reader, pool>>

(* The end of the atomic writer: flush and fsync, then close and rename.   *)
Sync ==
  /\ stage = "sealed" /\ stage' = "synced" /\ synced' = TRUE
  /\ UNCHANGED <<reason, source, archive, dest, ordered, digest, reader, pool>>

Rename ==
  /\ stage = "synced" /\ stage' = "published" /\ dest' = archive
  /\ UNCHANGED <<reason, source, archive, synced, ordered, digest, reader, pool>>

(* One of its steps fails: the temporary file stays where it is.           *)
WriteFails ==
  /\ stage \in {"sealed", "synced"} /\ stage' = "failed" /\ reason' = "write"
  /\ UNCHANGED <<source, archive, dest, synced, ordered, digest, reader, pool>>

(* What a power failure makes of a file whose data were not on the disk.   *)
Torn(file) ==
  {[file EXCEPT !.items = SubSeq(file.items, 1, k)] : k \in 0..Len(file.items) - 1}
    \cup {[file EXCEPT !.valid = FALSE]}

(* The machine stops: data that were not synced may be lost, and so may a   *)
(* rename, because nobody syncs the directory.                             *)
PowerFails ==
  /\ stage \in {"packing", "sealed", "synced", "published"} /\ archive.version = 2
  /\ stage' = "failed" /\ reason' = "power" /\ pending' = <<>> /\ feeding' = FALSE
  /\ dest' \in {Previous, dest} \cup (IF stage = "published" /\ ~synced THEN Torn(dest) ELSE {})
  /\ UNCHANGED <<source, archive, synced, digest, reader, pool>>

(* The source is somebody else's file: it may grow or shrink.  (Other bytes *)
(* in the part not yet read are the same as another source from the start.) *)
EditSource ==
  /\ stage = "packing"
  /\ \/ \E c \in Chunks : Len(source) < MaxBlocks /\ source' = Append(source, c)
     \/ Len(source) > Len(digest) /\ source' = SubSeq(source, 1, Len(source) - 1)
  /\ UNCHANGED <<stage, reason, archive, dest, ordered, digest, reader, pool, synced>>

(***************************************************************************)
(* Reading: iter_decompress.                                               *)
(***************************************************************************)
Open ==
  /\ stage = "published"
  /\ archive' \in {dest} \cup Changed(dest)
  /\ stage' = "reading" /\ left' = archive'.total
  /\ pending' = <<>> /\ feeding' = TRUE /\ digest' = <<>>
  /\ UNCHANGED <<reason, source, dest, held, out, pool, synced>>

Reading(version) == stage = "reading" /\ archive.valid /\ archive.version = version

BadHeader == stage = "reading" /\ ~archive.valid /\ GiveUp("structure")

(* Version 1 is decoded at once: nothing is released before the test.      *)
ReadLegacy ==
  /\ Reading(1)
  /\ LET body == archive.items[1].body
     IN  IF Len(archive.items) # 1 \/ ~IsBlock(archive.items[1]) THEN GiveUp("structure")
         ELSE IF archive.items[1].len # archive.total \/ <<body>> # archive.sum THEN GiveUp("corrupt")
         ELSE /\ out' = <<body>> /\ stage' = "restored"
              /\ UNCHANGED <<reason, source, archive, dest, ordered, digest, left, held, pool, synced>>

(* The items consumed so far, and whether the next one is there.           *)
Position == Len(digest) + Len(pending) + 1
More == Position <= Len(archive.items)
Item == archive.items[Position]

ReadBlock ==
  /\ Reading(2) /\ MayFeed /\ More
  /\ IF Item = End /\ left = 0
       THEN feeding' = FALSE /\ UNCHANGED <<pending, left>>
       ELSE /\ pool = "up" /\ ValidBlock(Item, left)
            /\ left' = left - Item.len
            /\ Submit(Item) /\ UNCHANGED feeding
  /\ UNCHANGED <<stage, reason, source, archive, dest, digest, held, out, pool, synced>>

BadBlock ==
  /\ Reading(2) /\ MayFeed
  /\ ~(More /\ (ValidBlock(Item, left) \/ (Item = End /\ left = 0)))
  /\ GiveUp("structure")

\* Mutant: a block is released as soon as it is decoded.
TakeBlock_NotHeld ==
  /\ Reading(2) /\ MayYield /\ Head(pending).state = "done"
  /\ digest' = Append(digest, Head(pending).job.body)
  /\ out' = digest' /\ held' = <<>>
  /\ pending' = Tail(pending)
  /\ UNCHANGED <<stage, reason, source, archive, dest, feeding, left, pool, synced>>

\* Mutant: decoded blocks pile up until the checksum is known.
TakeBlock_HoldsAll ==
  /\ Reading(2) /\ MayYield /\ Head(pending).state = "done"
  /\ digest' = Append(digest, Head(pending).job.body)
  /\ out' = out /\ held' = digest'
  /\ pending' = Tail(pending)
  /\ UNCHANGED <<stage, reason, source, archive, dest, feeding, left, pool, synced>>

TakeBlock ==
  /\ Reading(2) /\ MayYield /\ Head(pending).state = "done"
  /\ digest' = Append(digest, Head(pending).job.body)
  /\ out' = out \o held /\ held' = <<Head(pending).job.body>>
  /\ pending' = Tail(pending)
  /\ UNCHANGED <<stage, reason, source, archive, dest, feeding, left, pool, synced>>

BadBody ==
  /\ stage = "reading" /\ MayYield /\ Head(pending).state = "failed"
  /\ GiveUp("corrupt")

\* Mutant: the trailer is read but not compared.
Verify_SumUnread ==
  /\ Reading(2) /\ ~feeding /\ pending = <<>>
  /\ IF Len(archive.items) # Position + 1 THEN GiveUp("structure")
     ELSE /\ out' = out \o held /\ held' = <<>> /\ stage' = "restored"
          /\ UNCHANGED <<reason, source, archive, dest, ordered, digest, left, pool, synced>>

(* The trailer: 32 bytes, nothing after them, the checksum of all blocks.  *)
Verify ==
  /\ Reading(2) /\ ~feeding /\ pending = <<>>
  /\ LET rest == SubSeq(archive.items, Position + 1, Len(archive.items))
     IN  IF Len(rest) # 1 \/ Head(rest).kind # "sum" THEN GiveUp("structure")
         ELSE IF Head(rest).of # digest THEN GiveUp("corrupt")
         ELSE /\ out' = out \o held /\ held' = <<>> /\ stage' = "restored"
              /\ UNCHANGED <<reason, source, archive, dest, ordered, digest, left, pool, synced>>

(***************************************************************************)
(* Both directions: the cancel test before each job, a broken pool, and a  *)
(* consumer that fails or goes away.                                       *)
(***************************************************************************)
Working == stage = "packing" \/ Reading(2)
Cancelled == Working /\ MayFeed /\ GiveUp("cancelled")
PoolIsBroken ==
  /\ Working
  /\ \/ MayYield /\ Head(pending).state = "broken"
     \/ MayFeed /\ pool = "broken"
        /\ IF stage = "packing" THEN Len(digest) < Len(source) ELSE More /\ ValidBlock(Item, left)
  /\ GiveUp("pool")
ConsumerStops == Working /\ MayYield /\ Head(pending).state = "done" /\ GiveUp("consumer")

Ended == stage \in {"failed", "restored", "rejected"} /\ UNCHANGED vars

Thread ==
  \/ ReadChunk \/ WriteBlock \/ Seal \/ SourceChanged \/ Sync \/ Rename
  \/ Open \/ BadHeader \/ ReadLegacy \/ ReadBlock \/ BadBlock \/ TakeBlock \/ BadBody \/ Verify
  \/ PoolIsBroken

Next ==
  \/ Thread \/ Cancelled \/ ConsumerStops \/ EditSource \/ PoolBreaks
  \/ WriteFails \/ PowerFails
  \/ \E i \in DOMAIN pending : Finish(i)
  \/ Ended

(* The thread of the operation goes on while it can, and the pool's        *)
(* workers finish the blocks they were given.                              *)
Spec == Init /\ [][Next]_vars /\ WF_vars(Thread) /\ WF_vars(\E i \in DOMAIN pending : Finish(i))
-----------------------------------------------------------------------------
(***************************************************************************)
(* What the block stream promises.                                         *)
(***************************************************************************)
(* The blocks of a container are its leading items.                         *)
Bodies(items) ==
  [i \in {j \in DOMAIN items : \A k \in 1..j : IsBlock(items[k])} |-> items[i].body]
Stages == {"packing", "sealed", "synced", "published", "failed", "reading", "restored", "rejected"}

(* The variables keep their shape: stages and reasons are known, the deque *)
(* holds futures, and at most one block is held back.                      *)
TypeOK ==
  /\ stage \in Stages /\ {feeding, synced} \subseteq BOOLEAN /\ pool \in {"up", "broken"}
  /\ reason \in {"none", "cancelled", "pool", "changed", "write", "power",
                "consumer", "structure", "corrupt"}
  /\ source \in Seq(Chunks)
  /\ digest \in Seq(Chunks \cup {Damaged}) /\ out \in Seq(Chunks \cup {Damaged})
  /\ \A i \in DOMAIN pending : pending[i].state \in {"running", "done", "failed", "broken"}
  /\ left \in Nat /\ Len(held) <= 1

(* Blocks finish in any order, yet the container takes them in the order   *)
(* they were read: what is written, followed by what is in flight, is what *)
(* the checksum was computed from, and no more than the depth of the       *)
(* pipeline is in memory (_ordered and the loop of pack_stream).           *)
PackedInOrder ==
  stage = "packing" =>
    /\ digest = Bodies(archive.items) \o [i \in DOMAIN pending |-> pending[i].job]
    /\ Len(pending) <= Depth

(* The destination is what it was before or a whole container: its         *)
(* structure is valid, its checksum is that of its blocks, and its header  *)
(* names the codec iff a block uses it.  So it is even if the source       *)
(* changed while it was read, a step of the atomic writer failed or a      *)
(* power failure came between any two of them, and an operation that fails *)
(* without one leaves the old file.                                        *)
DestinationWhole ==
  /\ dest # Previous =>
       /\ InfoOk(dest)
       /\ Bodies(dest.items) = IF dest.version = 1 THEN dest.sum ELSE dest.items[Len(dest.items)].of
       /\ dest.version = 2 => (dest.alg = "codec" <=> \E i \in DOMAIN dest.items :
                                    IsBlock(dest.items[i]) /\ dest.items[i].alg = "codec")
  /\ stage = "failed" /\ reason # "power" => dest = Previous

(* Whatever was done to the archive, a reader that ends well has restored  *)
(* exactly the packed data, however far decoding ran ahead; and an archive *)
(* nobody changed is refused only because of a cancel, a broken pool or    *)
(* its consumer.                                                           *)
RestoredIsOriginal ==
  /\ stage = "restored" => out = Bodies(dest.items)
  /\ stage = "rejected" /\ archive = dest => reason \in {"cancelled", "pool", "consumer"}

(* Until the checksum was compared a consumer has never been given all the *)
(* bytes the header announces: the last block is withheld, also when it is *)
(* the only one.                                                           *)
LastBlockWithheld ==
  stage \in {"reading", "rejected"} /\ out # <<>> => BlockSize * Len(out) < archive.total

(* The header-only check of read_info and the decoder agree: an archive    *)
(* the service accepts is never found malformed while it is decoded, and   *)
(* one that is restored would have been accepted.                          *)
InfoAgreesWithDecoder ==
  /\ reason = "structure" => ~InfoOk(archive)
  /\ stage = "restored" => InfoOk(archive)

(* Every packing and every reading comes to an end, also when a process of *)
(* the pool dies: no future is waited for that nobody will finish.         *)
EveryStreamEnds ==
  /\ stage = "packing" ~> stage \in {"restored", "rejected", "failed"}
  /\ stage = "reading" ~> stage \in {"restored", "rejected"}
=============================================================================
