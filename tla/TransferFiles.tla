---------------------------- MODULE TransferFiles ----------------------------
(***************************************************************************)
(* The files of web/api.py's storage directory: what each upload, archive  *)
(* and transfer has on disk while it is received, packed, registered,      *)
(* served, purged and reloaded, with crashes and power failures between    *)
(* any two file operations.  UploadPipeline counts the same jobs against   *)
(* their limits; here a limit may refuse at any time.                      *)
(*                                                                         *)
(* An upload and its archive take Size units of disk each.                 *)
(***************************************************************************)
EXTENDS Naturals, FiniteSets, Functions

CONSTANTS
  Ids,          \* uploads, each with the identifier its transfer would get
  Kinds,        \* the endpoints used: "compress", "import", "decompress"
  Size,         \* units of disk an upload takes
  Disk,         \* units of disk there are
  MinFree,      \* MIN_FREE_BYTES
  Undeclared,   \* uploads that announce no length
  MaxCrashes    \* bound on crashes and power failures

ASSUME StorageAssumption ==
  /\ Size \in Nat \ {0} /\ Disk \in Nat /\ MinFree \in Nat /\ MaxCrashes \in Nat
  /\ Undeclared \subseteq Ids /\ Kinds \subseteq {"compress", "import", "decompress"}

VARIABLES
  job,      \* the phase of each upload's request or operation
  kind,     \* the endpoint it came in at
  tmp,      \* units of upload-*.tmp on disk
  part,     \* units of <id>.part on disk
  fcmp,     \* <id>.fcmp: none, whole, or torn by a power failure
  orig,     \* <id>.orig: likewise
  synced,   \* uploads whose data were fsynced
  old,      \* containers whose modification time is a TTL ago
  transfers,  \* the dictionary: no, plain, or with its original
  expired,  \* listed transfers older than the TTL
  doomed,   \* files a purge has still to unlink
  dl,       \* one download
  up,       \* the server runs
  crashes,  \* crashes so far
  purged, done,     \* history: purged ids, completed ids
  faults, damaged   \* history: ids with a failed file operation, containers torn or unreadable

memory  == <<transfers, expired, doomed>>
disk    == <<tmp, part, fcmp, orig, synced, old>>
history == <<purged, done, faults, damaged>>
vars == <<job, kind, disk, memory, dl, up, crashes, history>>

Listed(i) == transfers[i] # "no"
NoDownload == [phase |-> "none"]

Sum(f) == FoldFunction(LAMBDA a, b : a + b, 0, f)
Free == Disk - Sum([i \in Ids |-> tmp[i] + part[i] + (IF fcmp[i] = "none" THEN 0 ELSE Size)
                                                   + (IF orig[i] = "none" THEN 0 ELSE Size)])

Declared(i) == IF i \in Undeclared THEN 0 ELSE Size

(* reservations: what was declared until the job's finally block; a queued *)
(* compression holds the real size.                                        *)
Reserved(i) ==
  CASE job[i] = "receiving" -> Declared(i)
    [] job[i] \in {"packing", "registering", "moved", "cleaning", "failing"} ->
         IF kind[i] = "compress" THEN Size ELSE Declared(i)
    [] OTHER -> 0

HasRoomFor(expected) ==
  Free >= Sum([i \in Ids |-> Reserved(i)]) + expected + MinFree

Init ==
  /\ job = [i \in Ids |-> "idle"] /\ kind \in [Ids -> Kinds]
  /\ tmp = [i \in Ids |-> 0] /\ part = [i \in Ids |-> 0]
  /\ fcmp = [i \in Ids |-> "none"] /\ orig = [i \in Ids |-> "none"]
  /\ transfers = [i \in Ids |-> "no"]
  /\ synced = {} /\ old = {} /\ expired = {} /\ doomed = {} /\ dl = NoDownload
  /\ up = TRUE /\ crashes = 0 /\ purged = {} /\ done = {} /\ faults = {} /\ damaged = {}

Goto(i, phase) == job' = [job EXCEPT ![i] = phase]

(***************************************************************************)
(* Expiry.                                                                 *)
(***************************************************************************)
FilesOf(i) == {<<i, "fcmp">>} \cup (IF transfers[i] = "original" THEN {<<i, "orig">>} ELSE {})

(* _purge_expired under the lock; its unlinks are still to come.           *)
PurgeList ==
  /\ transfers' = [i \in Ids |-> IF i \in expired THEN "no" ELSE transfers[i]]
  /\ doomed' = doomed \cup UNION {FilesOf(i) : i \in expired}
  /\ purged' = purged \cup expired
  /\ expired' = {}

Purge ==
  /\ up /\ expired # {}
  /\ PurgeList
  /\ UNCHANGED <<job, kind, disk, dl, up, crashes, done, faults, damaged>>

Unlink(i, file) ==
  /\ up /\ <<i, file>> \in doomed
  /\ file = "orig" => <<i, "fcmp">> \notin doomed
  /\ doomed' = doomed \ {<<i, file>>}
  /\ IF file = "fcmp" THEN fcmp' = [fcmp EXCEPT ![i] = "none"] /\ UNCHANGED orig
                      ELSE orig' = [orig EXCEPT ![i] = "none"] /\ UNCHANGED fcmp
  /\ UNCHANGED <<job, kind, tmp, part, synced, old, transfers, expired, dl, up, crashes, history>>

(* A failing unlink ends the purge: the files after it stay as well.       *)
UnlinkFails ==
  /\ up
  /\ \E rest \in SUBSET doomed \ {{}} :
       doomed' = doomed \ rest /\ faults' = faults \cup {f[1] : f \in rest}
  /\ UNCHANGED <<job, kind, disk, transfers, expired, dl, up, crashes, purged, done, damaged>>

(* Time passes.  A transfer is created after its container was written.    *)
ContainerAges(i) ==
  /\ fcmp[i] # "none" /\ i \notin old /\ old' = old \cup {i}
  /\ UNCHANGED <<job, kind, tmp, part, fcmp, orig, synced, memory, dl, up, crashes, history>>

TransferAges(i) ==
  /\ up /\ Listed(i) /\ i \in old \ expired /\ expired' = expired \cup {i}
  /\ UNCHANGED <<job, kind, disk, transfers, doomed, dl, up, crashes, history>>

(***************************************************************************)
(* Uploads.                                                                *)
(***************************************************************************)
Admit(i) ==
  /\ up /\ job[i] = "idle"
  /\ PurgeList
  /\ HasRoomFor(Declared(i))
  /\ Goto(i, "receiving")
  /\ UNCHANGED <<kind, disk, dl, up, crashes, done, faults, damaged>>

(* One buffer of the body: free space is tested again.                     *)
Flush(i) ==
  /\ up /\ job[i] = "receiving" /\ tmp[i] < Size
  /\ IF Free - 1 >= MinFree
       THEN tmp' = [tmp EXCEPT ![i] = @ + 1] /\ UNCHANGED job
       ELSE tmp' = [tmp EXCEPT ![i] = 0] /\ Goto(i, "failed")
  /\ UNCHANGED <<kind, part, fcmp, orig, synced, old, memory, dl, up, crashes, history>>

(* A disconnect, a stall, a size limit or bad gzip: the file is removed.   *)
UploadBreaks(i) ==
  /\ up /\ job[i] = "receiving"
  /\ tmp' = [tmp EXCEPT ![i] = 0] /\ Goto(i, "failed")
  /\ UNCHANGED <<kind, part, fcmp, orig, synced, old, memory, dl, up, crashes, history>>

Received(i) ==
  /\ up /\ job[i] = "receiving" /\ tmp[i] = Size
  /\ Goto(i, CASE kind[i] = "compress" -> "packing"
               [] kind[i] = "import" -> "registering"
               [] kind[i] = "decompress" -> "checking")
  /\ UNCHANGED <<kind, disk, memory, dl, up, crashes, history>>

(***************************************************************************)
(* _compress_upload and _register_transfer.                                *)
(***************************************************************************)
WritePart(i) ==
  /\ up /\ job[i] = "packing" /\ part[i] < Size /\ Free > 0
  /\ part' = [part EXCEPT ![i] = @ + 1]
  /\ UNCHANGED <<job, kind, tmp, fcmp, orig, synced, old, memory, dl, up, crashes, history>>

DiskFull(i) ==
  /\ up /\ job[i] = "packing" /\ part[i] < Size /\ Free = 0
  /\ Goto(i, "failing")
  /\ UNCHANGED <<kind, disk, memory, dl, up, crashes, history>>

\* Mutant: the kept upload is not fsynced.
Packed_NotSynced(i) ==
  /\ up /\ job[i] = "packing" /\ part[i] = Size
  /\ Goto(i, "registering")
  /\ UNCHANGED <<kind, disk, memory, dl, up, crashes, history>>

Packed(i) ==
  /\ up /\ job[i] = "packing" /\ part[i] = Size
  /\ synced' = synced \cup {i} /\ Goto(i, "registering")
  /\ UNCHANGED <<kind, tmp, part, fcmp, orig, old, memory, dl, up, crashes, history>>

(* A cancel, a broken pool, an archive that read_info refuses, a limit     *)
(* tested at registration or a first rename that fails.                    *)
JobFails(i) ==
  /\ up /\ job[i] \in {"packing", "registering"}
  /\ Goto(i, "failing")
  /\ UNCHANGED <<kind, disk, memory, dl, up, crashes, history>>

MoveContainer(i) ==
  /\ up /\ job[i] = "registering"
  /\ PurgeList
  /\ fcmp' = [fcmp EXCEPT ![i] = "whole"]
  /\ IF kind[i] = "compress" THEN part' = [part EXCEPT ![i] = 0] /\ UNCHANGED tmp
                             ELSE tmp' = [tmp EXCEPT ![i] = 0] /\ UNCHANGED part
  /\ Goto(i, "moved")
  /\ UNCHANGED <<kind, orig, synced, old, dl, up, crashes, done, faults, damaged>>

\* Mutant: the original is announced and never moved into place.
Publish_NoMove(i) ==
  /\ up /\ job[i] = "moved"
  /\ transfers' = [transfers EXCEPT ![i] = IF kind[i] = "compress" THEN "original" ELSE "plain"]
  /\ done' = done \cup {i} /\ Goto(i, "cleaning")
  /\ UNCHANGED <<kind, disk, expired, doomed, dl, up, crashes, purged, faults, damaged>>

(* The second rename when the quota has room for the original, and the     *)
(* entry in the dictionary.                                                *)
Publish(i) ==
  /\ up /\ job[i] = "moved"
  /\ \/ /\ kind[i] = "compress"
        /\ orig' = [orig EXCEPT ![i] = "whole"] /\ tmp' = [tmp EXCEPT ![i] = 0]
        /\ transfers' = [transfers EXCEPT ![i] = "original"]
     \/ transfers' = [transfers EXCEPT ![i] = "plain"] /\ UNCHANGED <<orig, tmp>>
  /\ done' = done \cup {i} /\ Goto(i, "cleaning")
  /\ UNCHANGED <<kind, part, fcmp, synced, old, expired, doomed, dl, up, crashes, purged, faults, damaged>>

(* The second rename fails: the container stays where it is, unlisted.     *)
MoveOriginalFails(i) ==
  /\ up /\ job[i] = "moved" /\ kind[i] = "compress"
  /\ faults' = faults \cup {i} /\ Goto(i, "failing")
  /\ UNCHANGED <<kind, disk, memory, dl, up, crashes, purged, done, damaged>>

\* Mutant: a failed job leaves its upload behind.
Clean_OnlyPart(i) ==
  /\ up /\ job[i] \in {"cleaning", "failing"}
  /\ tmp' = [tmp EXCEPT ![i] = IF job[i] = "cleaning" THEN 0 ELSE @] /\ part' = [part EXCEPT ![i] = 0]
  /\ Goto(i, IF job[i] = "cleaning" THEN "completed" ELSE "failed")
  /\ UNCHANGED <<kind, fcmp, orig, synced, old, memory, dl, up, crashes, history>>

(* The finally blocks: both temporary files, the reservation.              *)
Clean(i) ==
  /\ up /\ job[i] \in {"cleaning", "failing"}
  /\ tmp' = [tmp EXCEPT ![i] = 0] /\ part' = [part EXCEPT ![i] = 0]
  /\ Goto(i, IF job[i] = "cleaning" THEN "completed" ELSE "failed")
  /\ UNCHANGED <<kind, fcmp, orig, synced, old, memory, dl, up, crashes, history>>

(***************************************************************************)
(* /api/decompress: the reservation is gone, the archive is checked, then  *)
(* streamed back by a generator that removes it in the end.                *)
(***************************************************************************)
CheckArchive(i) ==
  /\ up /\ job[i] = "checking"
  /\ \/ Goto(i, "answering") /\ UNCHANGED tmp
     \/ Goto(i, "failed") /\ tmp' = [tmp EXCEPT ![i] = 0]
  /\ UNCHANGED <<kind, part, fcmp, orig, synced, old, memory, dl, up, crashes, history>>

StreamBack(i) ==
  /\ up /\ job[i] = "answering"
  /\ tmp' = [tmp EXCEPT ![i] = 0] /\ Goto(i, "completed")
  /\ UNCHANGED <<kind, part, fcmp, orig, synced, old, memory, dl, up, crashes, history>>

(* The client left before the first byte: nobody starts the generator, and *)
(* its finally block does not run.                                         *)
NeverStarted(i) ==
  /\ up /\ job[i] = "answering"
  /\ faults' = faults \cup {i} /\ Goto(i, "completed")
  /\ UNCHANGED <<kind, disk, memory, dl, up, crashes, purged, done, damaged>>

(***************************************************************************)
(* Downloads.                                                              *)
(***************************************************************************)
(* _get_transfer purges, then looks the transfer up.                       *)
AskDownload(i) ==
  /\ up /\ dl.phase = "none"
  /\ PurgeList
  /\ dl' = [phase |-> "asked", id |-> i]
  /\ UNCHANGED <<job, kind, disk, up, crashes, done, faults, damaged>>

(* ?compressed=true asks for the container itself; otherwise the answer is *)
(* the kept original where there is one, else the restored container.      *)
FindTransfer ==
  /\ up /\ dl.phase = "asked"
  /\ IF Listed(dl.id)
       THEN \E form \in {"archive", IF transfers[dl.id] = "original" THEN "original" ELSE "restored"} :
              dl' = [phase |-> "found", id |-> dl.id, form |-> form]
       ELSE dl' = NoDownload
  /\ UNCHANGED <<job, kind, disk, memory, up, crashes, history>>

(* The file is opened when the response is sent; a handle outlives unlink. *)
OpenFile ==
  /\ up /\ dl.phase = "found"
  /\ LET content == IF dl.form = "original" THEN orig[dl.id] ELSE fcmp[dl.id]
     IN  dl' = [phase |-> IF content = "none" THEN "gone" ELSE "streaming",
                id |-> dl.id, form |-> dl.form, content |-> content]
  /\ UNCHANGED <<job, kind, disk, memory, up, crashes, history>>

(* A restored container is compared with its checksum and cut off when it  *)
(* differs; an original and a raw archive are sent as they are.            *)
EndDownload ==
  /\ up /\ dl.phase \in {"streaming", "delivered", "gone"}
  /\ dl' = IF dl.phase = "streaming" /\ (dl.form = "restored" => dl.content = "whole")
           THEN [dl EXCEPT !.phase = "delivered"] ELSE NoDownload
  /\ UNCHANGED <<job, kind, disk, memory, up, crashes, history>>

(***************************************************************************)
(* Crashes and the next start.                                             *)
(***************************************************************************)
Ended == {"idle", "failed", "completed", "lost"}

(* The process dies; a power failure also tears files whose data were not  *)
(* synced (the container's never are).                                     *)
Crash ==
  /\ up /\ crashes < MaxCrashes /\ crashes' = crashes + 1 /\ up' = FALSE
  /\ \E torn \in SUBSET {i \in Ids : fcmp[i] # "none"}, tornO \in SUBSET {i \in Ids \ synced : orig[i] # "none"} :
       /\ fcmp' = [i \in Ids |-> IF i \in torn THEN "torn" ELSE fcmp[i]]
       /\ orig' = [i \in Ids |-> IF i \in tornO THEN "torn" ELSE orig[i]]
       /\ damaged' = damaged \cup torn
  /\ job' = [i \in Ids |-> IF job[i] \in Ended THEN job[i] ELSE "lost"]
  /\ transfers' = [i \in Ids |-> "no"] /\ expired' = {} /\ doomed' = {} /\ dl' = NoDownload
  /\ UNCHANGED <<kind, tmp, part, synced, old, purged, done, faults>>

\* Mutant: a reloaded transfer starts a new life.
Reload_Younger(kept, originals) ==
  /\ transfers' = [i \in Ids |-> IF i \in originals THEN "original" ELSE IF i \in kept THEN "plain" ELSE "no"]
  /\ expired' = {}

(* The age of a reloaded transfer is its container's.                      *)
Reload(kept, originals) ==
  /\ transfers' = [i \in Ids |-> IF i \in originals THEN "original" ELSE IF i \in kept THEN "plain" ELSE "no"]
  /\ expired' = kept \cap old

(* Originals belong to a loaded container and have its size; a torn one    *)
(* may have it.                                                            *)
KeptOriginals(kept) == {i \in kept : orig[i] # "none"}

\* Mutant: a container without its original is taken for a leftover.
Restart_OriginalsOnly ==
  /\ ~up /\ up' = TRUE
  /\ tmp' = [i \in Ids |-> 0] /\ part' = [i \in Ids |-> 0]
  /\ LET kept == {i \in Ids : fcmp[i] # "none" /\ orig[i] # "none"}
     IN  fcmp' = [i \in Ids |-> IF i \in kept THEN fcmp[i] ELSE "none"] /\ Reload(kept, kept)
  /\ doomed' = {} /\ faults' = {}
  /\ UNCHANGED <<job, kind, orig, synced, old, dl, crashes, purged, done, damaged>>

(* _load_persisted_transfers: temporary files go, containers that cannot   *)
(* be read or whose structure is damaged go, and so do the originals       *)
(* without a transfer.                                                     *)
Restart ==
  /\ ~up /\ up' = TRUE
  /\ tmp' = [i \in Ids |-> 0] /\ part' = [i \in Ids |-> 0]
  /\ \E bad \in SUBSET {i \in Ids : fcmp[i] # "none"}, short \in SUBSET {i \in Ids : orig[i] = "torn"} :
       LET kept == {i \in Ids : fcmp[i] # "none"} \ bad
           originals == KeptOriginals(kept) \ short
       IN  /\ fcmp' = [i \in Ids |-> IF i \in kept THEN fcmp[i] ELSE "none"]
           /\ orig' = [i \in Ids |-> IF i \in originals THEN orig[i] ELSE "none"]
           /\ Reload(kept, originals)
           /\ damaged' = damaged \cup bad
  /\ doomed' = {} /\ faults' = {}
  /\ UNCHANGED <<job, kind, synced, old, dl, crashes, purged, done>>

JobStep(i) ==
  \/ Flush(i) \/ Received(i) \/ WritePart(i) \/ DiskFull(i) \/ Packed(i) \/ MoveContainer(i)
  \/ Publish(i) \/ Clean(i) \/ CheckArchive(i) \/ StreamBack(i)
\* Mutant: the background loop forgets the stored transfers.
Housekeeping_NoPurge ==
  Restart \/ \E i \in Ids : TransferAges(i) \/ \E f \in {"fcmp", "orig"} : Unlink(i, f)
Housekeeping == Purge \/ Restart \/ \E i \in Ids : TransferAges(i) \/ \E f \in {"fcmp", "orig"} : Unlink(i, f)
Download == FindTransfer \/ OpenFile \/ EndDownload

Next ==
  \/ \E i \in Ids : \/ Admit(i) \/ JobStep(i) \/ UploadBreaks(i) \/ JobFails(i) \/ MoveOriginalFails(i)
                    \/ NeverStarted(i) \/ ContainerAges(i) \/ AskDownload(i)
  \/ Housekeeping \/ UnlinkFails \/ Download \/ Crash

(* Bodies arrive or break, threads go on, the purge loop runs every minute *)
(* and a server that died is started again.                                *)
Spec == Init /\ [][Next]_vars /\ WF_vars(Housekeeping) /\ \A i \in Ids : WF_vars(JobStep(i))

-----------------------------------------------------------------------------
(* The variables keep their shape. *)
TypeOK ==
  /\ job \in [Ids -> Ended \cup {"receiving", "packing", "registering", "moved", "cleaning", "failing",
                                 "checking", "answering"}]
  /\ tmp \in [Ids -> 0..Size] /\ part \in [Ids -> 0..Size]
  /\ fcmp \in [Ids -> {"none", "whole", "torn"}] /\ orig \in [Ids -> {"none", "whole", "torn"}]
  /\ transfers \in [Ids -> {"no", "plain", "original"}]
  /\ synced \subseteq Ids /\ old \subseteq Ids /\ expired \subseteq Ids
  /\ doomed \subseteq Ids \X {"fcmp", "orig"}
  /\ up \in BOOLEAN /\ crashes \in 0..MaxCrashes

(* A listed transfer has the files its downloads open: the container, and  *)
(* the original where it says so.                                          *)
ListedHasItsFiles ==
  \A i \in Ids : /\ Listed(i) => fcmp[i] # "none"
                 /\ transfers[i] = "original" => orig[i] # "none"

(* No file is left without somebody who will remove it: a temporary file   *)
(* has a running job, a container or original is listed, about to be       *)
(* listed or unlinked.  The exceptions are failed file operations and      *)
(* responses that were never started, and the next start clears them.      *)
FilesHaveOwners ==
  up => \A i \in Ids \ faults :
    /\ tmp[i] + part[i] > 0 => job[i] \notin Ended
    /\ fcmp[i] # "none" => Listed(i) \/ <<i, "fcmp">> \in doomed \/ job[i] = "moved"
    /\ orig[i] # "none" => transfers[i] = "original" \/ <<i, "orig">> \in doomed

(* A client that receives an original file to the end received it intact,  *)
(* though a kept original is sent without a checksum pass and a power      *)
(* failure may have come between.  A raw archive is not checked by anybody *)
(* and may be torn.                                                        *)
DeliveredIsIntact ==
  dl.phase = "delivered" /\ dl.form # "archive" => dl.content = "whole"

(* A download that found its transfer fails to open the file only if the   *)
(* transfer expired in the meantime.                                       *)
GoneOnlyWhenExpired == dl.phase = "gone" => dl.id \in purged

(* A transfer that was purged is never served again, also when the server  *)
(* died before its files were unlinked and found them at the next start.   *)
PurgedIsNeverServed ==
  [][dl.phase = "asked" /\ dl'.phase = "found" => dl.id \notin purged]_vars

(* A completed transfer outlives crashes: until it expires a running       *)
(* server lists it and has its container intact.  The exceptions are       *)
(* containers that a power failure tore or that a start could not read.    *)
CompletedSurvives ==
  up => \A i \in done \ purged : i \in damaged \/ (Listed(i) /\ fcmp[i] = "whole")

(* The files of every expired transfer are removed, however often the      *)
(* server dies in between, and temporary files do not stay.                *)
FilesGo ==
  \A i \in Ids :
    /\ i \in old ~> fcmp[i] = "none" \/ i \in faults
    /\ tmp[i] = Size ~> tmp[i] = 0 \/ i \in faults

(* Space is reserved before a body is read, so parallel uploads cannot     *)
(* fill the disk together: no admitted job fails for lack of it.           *)
NoJobFillsDisk == \A i \in Ids : ~(job[i] = "packing" /\ part[i] < Size /\ Free = 0)
=============================================================================
