------------------------- MODULE TransferFiles_proofs -------------------------
(***************************************************************************)
(* Proofs about TransferFiles for every set of uploads, every size of the  *)
(* disk and any number of crashes: what a listed transfer has on disk, who *)
(* owns a file, what a download delivers and what survives a restart.      *)
(***************************************************************************)
EXTENDS TransferFiles, TLAPS

-----------------------------------------------------------------------------
(* The inductive invariant *)

StoredFiles == {"fcmp", "orig"}
Forms == {"archive", "original", "restored"}
Contents == {"none", "whole", "torn"}

DownloadTypes ==
  dl \in {NoDownload} \cup [phase : {"asked"}, id : Ids]
           \cup [phase : {"found"}, id : Ids, form : Forms]
           \cup [phase : {"streaming", "delivered", "gone"}, id : Ids, form : Forms, content : Contents]

Types == TypeOK /\ DownloadTypes /\ kind \in [Ids -> Kinds] /\ done \subseteq Ids

AllPhases == Ended \cup {"receiving", "packing", "registering", "moved", "cleaning", "failing",
                         "checking", "answering"}

\* Phases of a job without a container.
Fresh == {"idle", "receiving", "packing", "registering", "checking", "answering"}

\* Before the second rename nothing of a job is in memory, and before the first
\* nothing of it is in place.
UnlistedInv ==
  \A i \in Ids : job[i] \in Fresh \cup {"moved"} =>
    /\ ~Listed(i) /\ i \notin purged /\ i \notin done
    /\ <<i, "fcmp">> \notin doomed /\ <<i, "orig">> \notin doomed

UnplacedInv ==
  \A i \in Ids : /\ job[i] \in Fresh => fcmp[i] = "none"
                 /\ job[i] = "moved" => fcmp[i] # "none"
                 /\ job[i] \in Fresh \cup {"moved"} => orig[i] = "none"

\* A listed transfer has its files and nobody is about to remove them.
ListedInv ==
  /\ ListedHasItsFiles
  /\ \A i \in Ids : Listed(i) => <<i, "fcmp">> \notin doomed /\ <<i, "orig">> \notin doomed
  /\ \A f \in doomed : f[1] \in purged

\* What was purged is old, and once a restart lists it again it is expired.
ExpiredInv ==
  /\ expired \subseteq old /\ purged \subseteq old
  /\ \A i \in expired : Listed(i)
  /\ \A i \in purged : Listed(i) => i \in expired

\* A dead server keeps nothing in memory.
DownInv ==
  ~up => /\ \A i \in Ids : ~Listed(i) /\ job[i] \in Ended
         /\ expired = {} /\ doomed = {} /\ dl = NoDownload

\* Between the purge of a request and its lookup no purged transfer is listed.
DownloadInv ==
  /\ dl.phase = "asked" => \A i \in purged : ~Listed(i)
  /\ dl.phase = "found" /\ dl.id \notin purged =>
       IF dl.form = "original" THEN orig[dl.id] # "none" ELSE fcmp[dl.id] # "none"
  /\ GoneOnlyWhenExpired

\* Jobs that write no archive have none, and neither has one that has not begun.
TemporaryInv ==
  \A i \in Ids :
    /\ job[i] = "idle" => tmp[i] = 0 /\ part[i] = 0
    /\ up /\ job[i] \in {"receiving", "checking", "answering"} => part[i] = 0

\* FilesHaveOwners in three parts.
TemporaryOwned ==
  up => \A i \in Ids \ faults : tmp[i] # 0 \/ part[i] # 0 => job[i] \notin Ended

ContainerOwned ==
  up => \A i \in Ids \ faults :
    fcmp[i] # "none" => Listed(i) \/ <<i, "fcmp">> \in doomed \/ job[i] = "moved"

OriginalOwned ==
  up => \A i \in Ids \ faults :
    orig[i] # "none" => transfers[i] = "original" \/ <<i, "orig">> \in doomed

\* A completed transfer has its container whole and listed, also while the server
\* is down, unless it was damaged; so has one between its renames.
SurvivalInv ==
  \A i \in Ids :
    /\ job[i] = "moved" => fcmp[i] = "whole"
    /\ i \in done \ purged => i \in damaged \/ (fcmp[i] = "whole" /\ (up => Listed(i)))

\* An original is synced before it is moved into place.
SyncedInv ==
  /\ \A i \in Ids : /\ orig[i] # "torn"
                    /\ orig[i] # "none" => i \in synced
                    /\ job[i] \in {"registering", "moved"} /\ kind[i] = "compress" => i \in synced
  /\ dl.phase = "streaming" /\ dl.form = "original" => dl.content = "whole"
  /\ DeliveredIsIntact

StoreInv == Types /\ UnlistedInv /\ UnplacedInv /\ ListedInv /\ ExpiredInv /\ DownInv
IInv == StoreInv /\ DownloadInv /\ TemporaryInv /\ TemporaryOwned /\ ContainerOwned /\ OriginalOwned
        /\ SurvivalInv /\ SyncedInv

-----------------------------------------------------------------------------
\* What _purge_expired does to the dictionary and to the list of files to unlink.
LEMMA PurgeEffect ==
  ASSUME StoreInv, PurgeList
  PROVE  /\ expired' = {} /\ purged' = purged \cup expired
         /\ \A i \in Ids : transfers'[i] = IF i \in expired THEN "no" ELSE transfers[i]
         /\ \A i \in Ids : <<i, "fcmp">> \in doomed' <=> <<i, "fcmp">> \in doomed \/ i \in expired
         /\ \A i \in Ids : <<i, "orig">> \in doomed' <=>
                           <<i, "orig">> \in doomed \/ (i \in expired /\ transfers[i] = "original")
         /\ \A f \in doomed' : f \in doomed \/ (f[1] \in expired /\ f \in Ids \X StoredFiles)
         /\ transfers' \in [Ids -> {"no", "plain", "original"}]
<1> USE DEF StoreInv, Types, TypeOK, PurgeList
<1>1. \A f : f \in doomed' <=> f \in doomed \/ \E i \in expired : f \in FilesOf(i)
  OBVIOUS
<1>2. \A i \in expired : \A f \in FilesOf(i) : f[1] = i /\ f \in Ids \X StoredFiles
  BY DEF FilesOf, StoredFiles
<1>3. \A i, j \in Ids : <<i, "fcmp">> \in FilesOf(j) => i = j
  BY DEF FilesOf
<1>4. \A i, j \in Ids : <<i, "orig">> \in FilesOf(j) => i = j
  BY DEF FilesOf
<1>5. \A i \in expired : /\ <<i, "fcmp">> \in FilesOf(i)
                         /\ transfers[i] = "original" <=> <<i, "orig">> \in FilesOf(i)
  BY DEF FilesOf
<1>6. \A i \in Ids : <<i, "fcmp">> \in doomed' <=> <<i, "fcmp">> \in doomed \/ i \in expired
  <2> TAKE i \in Ids
  <2>1. <<i, "fcmp">> \in doomed' <=>
          <<i, "fcmp">> \in doomed \/ \E j \in expired : <<i, "fcmp">> \in FilesOf(j)
    BY <1>1
  <2>2. QED
    BY <2>1, <1>3, <1>5
<1>7. \A i \in Ids : <<i, "orig">> \in doomed' <=>
                   <<i, "orig">> \in doomed \/ (i \in expired /\ transfers[i] = "original")
  <2> TAKE i \in Ids
  <2>1. <<i, "orig">> \in doomed' <=>
          <<i, "orig">> \in doomed \/ \E j \in expired : <<i, "orig">> \in FilesOf(j)
    BY <1>1
  <2>2. QED
    BY <2>1, <1>4, <1>5
<1>8. \A f \in doomed' : f \in doomed \/ (f[1] \in expired /\ f \in Ids \X StoredFiles)
  BY <1>1, <1>2
<1>9. QED
  BY <1>6, <1>7, <1>8

\* Steps of a job that touch nothing but its temporary files.
LocalStep(i) ==
  \/ Flush(i) \/ Received(i) \/ UploadBreaks(i) \/ WritePart(i) \/ DiskFull(i) \/ Packed(i)
  \/ JobFails(i) \/ MoveOriginalFails(i) \/ Clean(i) \/ CheckArchive(i) \/ StreamBack(i) \/ NeverStarted(i)

(* A step between an upload's admission and its registration changes that job
   and its temporary files, and nothing that is listed, published or doomed. *)
LEMMA LocalEffect ==
  ASSUME Types, NEW i \in Ids, LocalStep(i)
  PROVE  /\ UNCHANGED <<kind, fcmp, orig, old, transfers, expired, doomed, dl, up, crashes, purged, done, damaged>>
         /\ up /\ job[i] \notin Ended /\ faults \subseteq faults'
         /\ job' \in [Ids -> AllPhases] /\ \A j \in Ids \ {i} : job'[j] = job[j]
         /\ job'[i] \in Fresh => job[i] \in Fresh
         /\ job'[i] \notin {"idle", "moved"}
         /\ job[i] = "moved" => i \in faults'
         /\ synced \subseteq synced' /\ synced' \subseteq Ids
         /\ job'[i] = "registering" /\ kind[i] = "compress" => i \in synced'
<1> USE DEF Types, TypeOK, Goto, Ended, AllPhases, Fresh, memory, disk, history
<1>1. CASE Received(i)
  <2>1. job[i] = "receiving" /\ up /\ UNCHANGED <<kind, disk, memory, dl, up, crashes, history>>
    BY <1>1 DEF Received
  <2>2. CASE kind[i] = "compress"
    <3>1. job' = [job EXCEPT ![i] = "packing"]
      BY <1>1, <2>2 DEF Received
    <3>2. QED
      BY <2>1, <3>1
  <2>3. CASE kind[i] = "import"
    <3>1. job' = [job EXCEPT ![i] = "registering"]
      BY <1>1, <2>3 DEF Received
    <3>2. QED
      BY <2>1, <2>3, <3>1
  <2>4. CASE kind[i] = "decompress"
    <3>1. job' = [job EXCEPT ![i] = "checking"]
      BY <1>1, <2>4 DEF Received
    <3>2. QED
      BY <2>1, <3>1
  <2>5. QED
    BY <2>2, <2>3, <2>4, StorageAssumption
<1>2. CASE Flush(i) \/ UploadBreaks(i) \/ WritePart(i) \/ DiskFull(i) \/ Packed(i)
  BY <1>2 DEF Flush, UploadBreaks, WritePart, DiskFull, Packed
<1>3. CASE JobFails(i) \/ MoveOriginalFails(i) \/ Clean(i)
  BY <1>3 DEF JobFails, MoveOriginalFails, Clean
<1>4. CASE CheckArchive(i) \/ StreamBack(i) \/ NeverStarted(i)
  BY <1>4 DEF CheckArchive, StreamBack, NeverStarted
<1>5. QED
  BY <1>1, <1>2, <1>3, <1>4 DEF LocalStep

\* The two outcomes of a registration.
LEMMA PublishEffect ==
  ASSUME Types, NEW i \in Ids, Publish(i)
  PROVE  /\ up /\ job[i] = "moved" /\ Listed(i)'
         /\ UNCHANGED <<kind, fcmp, synced, old, expired, doomed, dl, up, purged, faults, damaged>>
         /\ done' = done \cup {i} /\ \A j \in Ids \ {i} : job'[j] = job[j]
         /\ job'[i] = "cleaning"
         /\ \A j \in Ids \ {i} : transfers'[j] = transfers[j] /\ orig'[j] = orig[j]
         /\ \/ transfers'[i] = "original" /\ orig'[i] = "whole" /\ kind[i] = "compress"
            \/ transfers'[i] = "plain" /\ orig'[i] = orig[i]
<1>1. /\ up /\ job[i] = "moved" /\ done' = done \cup {i}
      /\ UNCHANGED <<kind, fcmp, synced, old, expired, doomed, dl, up, purged, faults, damaged>>
      /\ job' = [job EXCEPT ![i] = "cleaning"]
  BY DEF Publish, Goto
<1>2. CASE /\ transfers' = [transfers EXCEPT ![i] = "original"]
           /\ orig' = [orig EXCEPT ![i] = "whole"] /\ kind[i] = "compress"
  BY <1>1, <1>2 DEF Types, TypeOK, Listed
<1>3. CASE transfers' = [transfers EXCEPT ![i] = "plain"] /\ UNCHANGED orig
  BY <1>1, <1>3 DEF Types, TypeOK, Listed
<1>4. QED
  BY <1>2, <1>3 DEF Publish

\* A job that has not been published leaves no trace in memory.
LEMMA UnlistedStep == ASSUME IInv, Next, Types' PROVE UnlistedInv'
<1> USE DEF IInv, StoreInv
<1>1. ASSUME NEW i \in Ids, LocalStep(i) PROVE UnlistedInv'
  BY <1>1, LocalEffect DEF LocalStep, UnlistedInv, Listed
<1>2. ASSUME NEW i \in Ids, Publish(i) PROVE UnlistedInv'
  BY <1>2, PublishEffect DEF UnlistedInv, Fresh, Listed
<1>3. ASSUME NEW i \in Ids, Admit(i) PROVE UnlistedInv'
  BY <1>3, PurgeEffect DEF Admit, UnlistedInv, Fresh, ExpiredInv, Goto, Listed
<1>4. ASSUME NEW i \in Ids, MoveContainer(i) PROVE UnlistedInv'
  BY <1>4, PurgeEffect DEF MoveContainer, UnlistedInv, Fresh, ExpiredInv, Goto, Listed
<1>5. ASSUME NEW i \in Ids, AskDownload(i) PROVE UnlistedInv'
  BY <1>5, PurgeEffect DEF AskDownload, UnlistedInv, ExpiredInv, Listed
<1>6. CASE Purge
  BY <1>6, PurgeEffect DEF Purge, UnlistedInv, ExpiredInv, Listed
<1>7. ASSUME NEW i \in Ids, NEW f \in {"fcmp", "orig"}, Unlink(i, f) PROVE UnlistedInv'
  BY <1>7 DEF Unlink, UnlistedInv, Listed, history
<1>8. CASE UnlinkFails
  BY <1>8 DEF UnlinkFails, UnlistedInv, Listed
<1>9. ASSUME NEW i \in Ids, ContainerAges(i) \/ TransferAges(i) PROVE UnlistedInv'
  BY <1>9 DEF ContainerAges, TransferAges, UnlistedInv, Listed, memory, history
<1>10. CASE Download
  BY <1>10 DEF Download, FindTransfer, OpenFile, EndDownload, UnlistedInv, Listed, memory, history
<1>11. CASE Crash
  BY <1>11 DEF Crash, UnlistedInv, Fresh, Listed, history
<1>12. CASE Restart
  <2>1. ~up /\ UNCHANGED <<job, purged, done>> /\ doomed' = {}
        /\ \A i \in Ids : fcmp[i] = "none" => ~Listed(i)'
    BY <1>12 DEF Restart, Reload, KeptOriginals, Listed
  <2>2. QED
    BY <2>1 DEF UnlistedInv, UnplacedInv, DownInv, Ended
<1>13. QED
  BY <1>1, <1>2, <1>3, <1>4, <1>5, <1>6, <1>7, <1>8, <1>9, <1>10, <1>11, <1>12
     DEF Next, JobStep, LocalStep, Housekeeping

\* Nor on the disk, but for the container of a job between its renames.
LEMMA UnplacedStep == ASSUME IInv, Next, Types' PROVE UnplacedInv'
<1> USE DEF IInv, StoreInv
<1>1. ASSUME NEW i \in Ids, LocalStep(i) PROVE UnplacedInv'
  BY <1>1, LocalEffect DEF LocalStep, UnplacedInv
<1>2. ASSUME NEW i \in Ids, Publish(i) PROVE UnplacedInv'
  BY <1>2, PublishEffect DEF UnplacedInv, Fresh
<1>3. ASSUME NEW i \in Ids, Admit(i) PROVE UnplacedInv'
  BY <1>3, PurgeEffect DEF Admit, UnplacedInv, Fresh, Goto, disk
<1>4. ASSUME NEW i \in Ids, MoveContainer(i) PROVE UnplacedInv'
  BY <1>4, PurgeEffect DEF MoveContainer, UnplacedInv, Fresh, Types, TypeOK, Goto
<1>5. ASSUME NEW i \in Ids, AskDownload(i) PROVE UnplacedInv'
  BY <1>5, PurgeEffect DEF AskDownload, UnplacedInv, disk
<1>6. CASE Purge
  BY <1>6, PurgeEffect DEF Purge, UnplacedInv, disk
<1>7. ASSUME NEW i \in Ids, NEW f \in {"fcmp", "orig"}, Unlink(i, f) PROVE UnplacedInv'
  <2>1. job[i] \notin Fresh \cup {"moved"} \/ f = "x"
    BY <1>7 DEF Unlink, UnlistedInv
  <2>2. QED
    BY <1>7, <2>1 DEF Unlink, UnplacedInv, Types, TypeOK
<1>8. CASE UnlinkFails
  BY <1>8 DEF UnlinkFails, UnplacedInv, disk
<1>9. ASSUME NEW i \in Ids, ContainerAges(i) \/ TransferAges(i) PROVE UnplacedInv'
  BY <1>9 DEF ContainerAges, TransferAges, UnplacedInv, disk
<1>10. CASE Download
  BY <1>10 DEF Download, FindTransfer, OpenFile, EndDownload, UnplacedInv, disk
<1>11. CASE Crash
  BY <1>11 DEF Crash, UnplacedInv, Fresh
<1>12. CASE Restart
  BY <1>12 DEF Restart, Reload, KeptOriginals, UnplacedInv, DownInv, Ended
<1>13. QED
  BY <1>1, <1>2, <1>3, <1>4, <1>5, <1>6, <1>7, <1>8, <1>9, <1>10, <1>11, <1>12
     DEF Next, JobStep, LocalStep, Housekeeping

\* What is listed is there: the files go only after the entry.
LEMMA ListedStep == ASSUME IInv, Next, Types' PROVE ListedInv'
<1> USE DEF IInv, StoreInv
<1>1. ASSUME NEW i \in Ids, LocalStep(i) PROVE ListedInv'
  BY <1>1, LocalEffect DEF LocalStep, ListedInv, ListedHasItsFiles, Listed
<1>2. ASSUME NEW i \in Ids, Publish(i) PROVE ListedInv'
  BY <1>2, PublishEffect DEF ListedInv, ListedHasItsFiles, UnlistedInv, UnplacedInv, Listed
<1>3. ASSUME NEW i \in Ids, Admit(i) PROVE ListedInv'
  BY <1>3, PurgeEffect DEF Admit, ListedInv, ListedHasItsFiles, Listed, disk
<1>4. ASSUME NEW i \in Ids, MoveContainer(i) PROVE ListedInv'
  BY <1>4, PurgeEffect DEF MoveContainer, ListedInv, ListedHasItsFiles, Listed
<1>5. ASSUME NEW i \in Ids, AskDownload(i) PROVE ListedInv'
  BY <1>5, PurgeEffect DEF AskDownload, ListedInv, ListedHasItsFiles, Listed, disk
<1>6. CASE Purge
  BY <1>6, PurgeEffect DEF Purge, ListedInv, ListedHasItsFiles, Listed, disk
<1>7. ASSUME NEW i \in Ids, NEW f \in {"fcmp", "orig"}, Unlink(i, f) PROVE ListedInv'
  <2>1. ~Listed(i) /\ doomed' \subseteq doomed /\ UNCHANGED <<transfers, purged>>
    BY <1>7 DEF Unlink, ListedInv, history
  <2>2. \A j \in Ids \ {i} : fcmp'[j] = fcmp[j] /\ orig'[j] = orig[j]
    BY <1>7 DEF Unlink, Types, TypeOK
  <2>3. QED
    BY <2>1, <2>2 DEF ListedInv, ListedHasItsFiles, Listed
<1>8. CASE UnlinkFails
  BY <1>8 DEF UnlinkFails, ListedInv, ListedHasItsFiles, Listed, disk
<1>9. ASSUME NEW i \in Ids, ContainerAges(i) \/ TransferAges(i) PROVE ListedInv'
  BY <1>9 DEF ContainerAges, TransferAges, ListedInv, ListedHasItsFiles, Listed, memory, disk,
     history
<1>10. CASE Download
  BY <1>10 DEF Download, FindTransfer, OpenFile, EndDownload, ListedInv, ListedHasItsFiles, Listed,
     memory, disk, history
<1>11. CASE Crash
  BY <1>11 DEF Crash, ListedInv, ListedHasItsFiles, Listed
<1>12. CASE Restart
  BY <1>12 DEF Restart, Reload, KeptOriginals, ListedInv, ListedHasItsFiles, Listed
<1>13. QED
  BY <1>1, <1>2, <1>3, <1>4, <1>5, <1>6, <1>7, <1>8, <1>9, <1>10, <1>11, <1>12
     DEF Next, JobStep, LocalStep, Housekeeping

\* Expired transfers stay expired, also when a restart lists them again.
LEMMA ExpiredStep == ASSUME IInv, Next, Types' PROVE ExpiredInv'
<1> USE DEF IInv, StoreInv
<1>1. ASSUME NEW i \in Ids, LocalStep(i) PROVE ExpiredInv'
  BY <1>1, LocalEffect DEF LocalStep, ExpiredInv, Listed
<1>2. ASSUME NEW i \in Ids, Publish(i) PROVE ExpiredInv'
  <2>1. /\ i \notin purged /\ Listed(i)' /\ UNCHANGED <<old, expired, purged>>
        /\ \A j \in Ids \ {i} : transfers'[j] = transfers[j]
    BY <1>2, PublishEffect DEF UnlistedInv
  <2>2. QED
    BY <2>1 DEF ExpiredInv, Listed, Types, TypeOK
<1>3. ASSUME NEW i \in Ids, Admit(i) PROVE ExpiredInv'
  BY <1>3, PurgeEffect DEF Admit, ExpiredInv, Types, TypeOK, Listed, disk
<1>4. ASSUME NEW i \in Ids, MoveContainer(i) PROVE ExpiredInv'
  BY <1>4, PurgeEffect DEF MoveContainer, ExpiredInv, Types, TypeOK, Listed
<1>5. ASSUME NEW i \in Ids, AskDownload(i) PROVE ExpiredInv'
  BY <1>5, PurgeEffect DEF AskDownload, ExpiredInv, Types, TypeOK, Listed, disk
<1>6. CASE Purge
  BY <1>6, PurgeEffect DEF Purge, ExpiredInv, Types, TypeOK, Listed, disk
<1>7. ASSUME NEW i \in Ids, NEW f \in {"fcmp", "orig"}, Unlink(i, f) PROVE ExpiredInv'
  BY <1>7 DEF Unlink, ExpiredInv, Listed, history
<1>8. CASE UnlinkFails
  BY <1>8 DEF UnlinkFails, ExpiredInv, Listed, disk
<1>9. ASSUME NEW i \in Ids, ContainerAges(i) \/ TransferAges(i) PROVE ExpiredInv'
  BY <1>9 DEF ContainerAges, TransferAges, ExpiredInv, Listed, memory, disk, history
<1>10. CASE Download
  BY <1>10 DEF Download, FindTransfer, OpenFile, EndDownload, ExpiredInv, Listed, memory, disk,
     history
<1>11. CASE Crash
  BY <1>11 DEF Crash, ExpiredInv, Types, TypeOK, Listed, history
<1>12. CASE Restart
  BY <1>12 DEF Restart, Reload, KeptOriginals, ExpiredInv, Types, TypeOK, Listed
<1>13. QED
  BY <1>1, <1>2, <1>3, <1>4, <1>5, <1>6, <1>7, <1>8, <1>9, <1>10, <1>11, <1>12
     DEF Next, JobStep, LocalStep, Housekeeping

\* A dead server keeps nothing in memory.
LEMMA DownStep == ASSUME IInv, Next, Types' PROVE DownInv'
<1> USE DEF IInv, StoreInv
<1>1. ASSUME NEW i \in Ids, LocalStep(i) PROVE DownInv'
  BY <1>1, LocalEffect DEF LocalStep, DownInv
<1>2. ASSUME NEW i \in Ids, Publish(i) PROVE DownInv'
  BY <1>2, PublishEffect DEF DownInv
<1>3. ASSUME NEW i \in Ids, Admit(i) PROVE DownInv'
  BY <1>3, PurgeEffect DEF Admit, DownInv
<1>4. ASSUME NEW i \in Ids, MoveContainer(i) PROVE DownInv'
  BY <1>4, PurgeEffect DEF MoveContainer, DownInv
<1>5. ASSUME NEW i \in Ids, AskDownload(i) PROVE DownInv'
  BY <1>5, PurgeEffect DEF AskDownload, DownInv
<1>6. CASE Purge
  BY <1>6, PurgeEffect DEF Purge, DownInv
<1>7. ASSUME NEW i \in Ids, NEW f \in {"fcmp", "orig"}, Unlink(i, f) PROVE DownInv'
  BY <1>7 DEF Unlink, DownInv
<1>8. CASE UnlinkFails
  BY <1>8 DEF UnlinkFails, DownInv
<1>9. ASSUME NEW i \in Ids, ContainerAges(i) \/ TransferAges(i) PROVE DownInv'
  BY <1>9 DEF ContainerAges, TransferAges, DownInv, Listed, memory
<1>10. CASE Download
  BY <1>10 DEF Download, FindTransfer, OpenFile, EndDownload, DownInv
<1>11. CASE Crash
  BY <1>11 DEF Crash, DownInv, Types, TypeOK, Listed
<1>12. CASE Restart
  BY <1>12 DEF Restart, Reload, KeptOriginals, DownInv
<1>13. QED
  BY <1>1, <1>2, <1>3, <1>4, <1>5, <1>6, <1>7, <1>8, <1>9, <1>10, <1>11, <1>12
     DEF Next, JobStep, LocalStep, Housekeeping

\* Downloads find the files of their transfer unless a purge came between.
LEMMA DownloadStep == ASSUME IInv, Next, Types' PROVE DownloadInv'
<1> USE DEF IInv, StoreInv
<1>1. ASSUME NEW i \in Ids, LocalStep(i) PROVE DownloadInv'
  BY <1>1, LocalEffect DEF LocalStep, DownloadInv, GoneOnlyWhenExpired, Listed
<1>2. ASSUME NEW i \in Ids, Publish(i) PROVE DownloadInv'
  <2>1. /\ i \notin purged /\ UNCHANGED <<fcmp, dl, purged>>
        /\ \A j \in Ids \ {i} : transfers'[j] = transfers[j]
    BY <1>2, PublishEffect DEF UnlistedInv
  <2>2. \A j \in Ids : orig[j] # "none" => orig'[j] # "none"
    BY <1>2, PublishEffect
  <2>3. dl.phase = "found" => dl.id \in Ids
    BY DEF Types, DownloadTypes, NoDownload
  <2>4. QED
    BY <2>1, <2>2, <2>3 DEF DownloadInv, GoneOnlyWhenExpired, Listed, ExpiredInv, Types, TypeOK
<1>3. ASSUME NEW i \in Ids, Admit(i) PROVE DownloadInv'
  BY <1>3, PurgeEffect DEF Admit, DownloadInv, GoneOnlyWhenExpired, ExpiredInv, Types, TypeOK,
     Listed, disk
<1>4. ASSUME NEW i \in Ids, MoveContainer(i) PROVE DownloadInv'
  BY <1>4, PurgeEffect DEF MoveContainer, DownloadInv, GoneOnlyWhenExpired, ExpiredInv, Types,
     TypeOK, Listed
<1>5. ASSUME NEW i \in Ids, AskDownload(i) PROVE DownloadInv'
  BY <1>5, PurgeEffect DEF AskDownload, DownloadInv, GoneOnlyWhenExpired, ExpiredInv, Types, TypeOK,
     Listed
<1>6. CASE Purge
  BY <1>6, PurgeEffect DEF Purge, DownloadInv, GoneOnlyWhenExpired, ExpiredInv, Types, TypeOK,
     Listed, disk
<1>7. ASSUME NEW i \in Ids, NEW f \in {"fcmp", "orig"}, Unlink(i, f) PROVE DownloadInv'
  BY <1>7 DEF Unlink, DownloadInv, GoneOnlyWhenExpired, ListedInv, Types, TypeOK, DownloadTypes,
     NoDownload, Listed, history
<1>8. CASE UnlinkFails
  BY <1>8 DEF UnlinkFails, DownloadInv, GoneOnlyWhenExpired, Listed, disk
<1>9. ASSUME NEW i \in Ids, ContainerAges(i) \/ TransferAges(i) PROVE DownloadInv'
  BY <1>9 DEF ContainerAges, TransferAges, DownloadInv, GoneOnlyWhenExpired, Listed, memory, disk,
     history
<1>10. CASE Download
  BY <1>10 DEF Download, FindTransfer, OpenFile, EndDownload, DownloadInv, GoneOnlyWhenExpired,
     ListedInv, ListedHasItsFiles, Types, DownloadTypes, NoDownload, disk, history
<1>11. CASE Crash
  BY <1>11 DEF Crash, DownloadInv, GoneOnlyWhenExpired, NoDownload
<1>12. CASE Restart
  BY <1>12 DEF Restart, Reload, KeptOriginals, DownloadInv, GoneOnlyWhenExpired, DownInv, NoDownload
<1>13. QED
  BY <1>1, <1>2, <1>3, <1>4, <1>5, <1>6, <1>7, <1>8, <1>9, <1>10, <1>11, <1>12
     DEF Next, JobStep, LocalStep, Housekeeping

\* Containers change owner and are never dropped.
LEMMA ContainerOwnedStep == ASSUME IInv, Next, Types' PROVE ContainerOwned'
<1> USE DEF IInv, StoreInv
<1>1. ASSUME NEW i \in Ids, LocalStep(i) PROVE ContainerOwned'
  <2>1. \A j \in Ids : job[j] = "moved" => job'[j] = "moved" \/ j \in faults'
    BY <1>1, LocalEffect
  <2>2. faults \subseteq faults' /\ UNCHANGED <<fcmp, transfers, doomed, up>>
    BY <1>1, LocalEffect
  <2>3. QED
    BY <2>1, <2>2 DEF ContainerOwned, Listed
<1>2. ASSUME NEW i \in Ids, Publish(i) PROVE ContainerOwned'
  <2>1. /\ Listed(i)' /\ UNCHANGED <<fcmp, doomed, up, faults>>
        /\ \A j \in Ids \ {i} : transfers'[j] = transfers[j]
        /\ \A j \in Ids \ {i} : job'[j] = job[j]
    BY <1>2, PublishEffect
  <2>2. QED
    BY <2>1 DEF ContainerOwned, Listed
<1>3. ASSUME NEW i \in Ids, Admit(i) PROVE ContainerOwned'
  BY <1>3, PurgeEffect DEF Admit, ContainerOwned, Goto, Listed, disk
<1>4. ASSUME NEW i \in Ids, MoveContainer(i) PROVE ContainerOwned'
  BY <1>4, PurgeEffect DEF MoveContainer, ContainerOwned, Types, TypeOK, Goto, Listed
<1>5. ASSUME NEW i \in Ids, AskDownload(i) PROVE ContainerOwned'
  BY <1>5, PurgeEffect DEF AskDownload, ContainerOwned, Listed, disk
<1>6. CASE Purge
  BY <1>6, PurgeEffect DEF Purge, ContainerOwned, Listed, disk
<1>7. ASSUME NEW i \in Ids, NEW f \in {"fcmp", "orig"}, Unlink(i, f) PROVE ContainerOwned'
  BY <1>7 DEF Unlink, ContainerOwned, Types, TypeOK, Listed, history
<1>8. CASE UnlinkFails
  BY <1>8 DEF UnlinkFails, ContainerOwned, Listed, disk
<1>9. ASSUME NEW i \in Ids, ContainerAges(i) \/ TransferAges(i) PROVE ContainerOwned'
  <2>1. UNCHANGED <<fcmp, transfers, doomed, up, job, faults>>
    BY <1>9 DEF ContainerAges, TransferAges, memory, disk, history
  <2>2. QED
    BY <2>1 DEF ContainerOwned, Listed
<1>10. CASE Download
  BY <1>10 DEF Download, FindTransfer, OpenFile, EndDownload, ContainerOwned, Listed, memory, disk,
     history
<1>11. CASE Crash
  BY <1>11 DEF Crash, ContainerOwned
<1>12. CASE Restart
  BY <1>12 DEF Restart, Reload, KeptOriginals, ContainerOwned, Listed
<1>13. QED
  BY <1>1, <1>2, <1>3, <1>4, <1>5, <1>6, <1>7, <1>8, <1>9, <1>10, <1>11, <1>12
     DEF Next, JobStep, LocalStep, Housekeeping

\* So do originals.
LEMMA OriginalOwnedStep == ASSUME IInv, Next, Types' PROVE OriginalOwned'
<1> USE DEF IInv, StoreInv
<1>1. ASSUME NEW i \in Ids, LocalStep(i) PROVE OriginalOwned'
  BY <1>1, LocalEffect DEF LocalStep, OriginalOwned
<1>2. ASSUME NEW i \in Ids, Publish(i) PROVE OriginalOwned'
  <2>1. /\ UNCHANGED <<doomed, up, faults>>
        /\ \A j \in Ids \ {i} : transfers'[j] = transfers[j]
        /\ \A j \in Ids \ {i} : orig'[j] = orig[j]
        /\ transfers'[i] = "original" \/ orig'[i] = "none"
    BY <1>2, PublishEffect DEF UnplacedInv
  <2>2. QED
    BY <2>1 DEF OriginalOwned
<1>3. ASSUME NEW i \in Ids, Admit(i) PROVE OriginalOwned'
  BY <1>3, PurgeEffect DEF Admit, OriginalOwned, disk
<1>4. ASSUME NEW i \in Ids, MoveContainer(i) PROVE OriginalOwned'
  BY <1>4, PurgeEffect DEF MoveContainer, OriginalOwned
<1>5. ASSUME NEW i \in Ids, AskDownload(i) PROVE OriginalOwned'
  BY <1>5, PurgeEffect DEF AskDownload, OriginalOwned, disk
<1>6. CASE Purge
  BY <1>6, PurgeEffect DEF Purge, OriginalOwned, disk
<1>7. ASSUME NEW i \in Ids, NEW f \in {"fcmp", "orig"}, Unlink(i, f) PROVE OriginalOwned'
  BY <1>7 DEF Unlink, OriginalOwned, Types, TypeOK, history
<1>8. CASE UnlinkFails
  BY <1>8 DEF UnlinkFails, OriginalOwned, disk
<1>9. ASSUME NEW i \in Ids, ContainerAges(i) \/ TransferAges(i) PROVE OriginalOwned'
  BY <1>9 DEF ContainerAges, TransferAges, OriginalOwned, memory, disk, history
<1>10. CASE Download
  BY <1>10 DEF Download, FindTransfer, OpenFile, EndDownload, OriginalOwned, memory, disk, history
<1>11. CASE Crash
  BY <1>11 DEF Crash, OriginalOwned
<1>12. CASE Restart
  BY <1>12 DEF Restart, Reload, KeptOriginals, OriginalOwned
<1>13. QED
  BY <1>1, <1>2, <1>3, <1>4, <1>5, <1>6, <1>7, <1>8, <1>9, <1>10, <1>11, <1>12
     DEF Next, JobStep, LocalStep, Housekeeping

\* A published transfer stays whole and listed until it is purged or damaged.
LEMMA SurvivalStep == ASSUME IInv, Next, Types' PROVE SurvivalInv'
<1> USE DEF IInv, StoreInv
<1>1. ASSUME NEW i \in Ids, LocalStep(i) PROVE SurvivalInv'
  BY <1>1, LocalEffect DEF LocalStep, SurvivalInv, Listed
<1>2. ASSUME NEW i \in Ids, Publish(i) PROVE SurvivalInv'
  <2>1. /\ Listed(i)' /\ UNCHANGED <<fcmp, up, purged, damaged>> /\ done' = done \cup {i}
        /\ \A j \in Ids \ {i} : transfers'[j] = transfers[j] /\ job'[j] = job[j]
        /\ job[i] = "moved" /\ job'[i] = "cleaning"
    BY <1>2, PublishEffect
  <2>2. QED
    BY <2>1 DEF SurvivalInv, Listed, Types
<1>3. ASSUME NEW i \in Ids, Admit(i) PROVE SurvivalInv'
  BY <1>3, PurgeEffect DEF Admit, SurvivalInv, Types, TypeOK, Goto, Listed, disk
<1>4. ASSUME NEW i \in Ids, MoveContainer(i) PROVE SurvivalInv'
  <2>1. i \notin done /\ UNCHANGED <<done, up, damaged>>
    BY <1>4 DEF MoveContainer, UnlistedInv, Fresh
  <2>2. /\ \A j \in Ids \ {i} : fcmp'[j] = fcmp[j] /\ job'[j] = job[j]
        /\ fcmp'[i] = "whole"
    BY <1>4 DEF MoveContainer, Types, TypeOK, Goto
  <2>3. purged' = purged \cup expired
        /\ \A j \in Ids : transfers'[j] = IF j \in expired THEN "no" ELSE transfers[j]
    BY <1>4, PurgeEffect DEF MoveContainer
  <2>4. QED
    BY <2>1, <2>2, <2>3 DEF SurvivalInv, Listed, Types
<1>5. ASSUME NEW i \in Ids, AskDownload(i) PROVE SurvivalInv'
  BY <1>5, PurgeEffect DEF AskDownload, SurvivalInv, Types, Listed, disk
<1>6. CASE Purge
  BY <1>6, PurgeEffect DEF Purge, SurvivalInv, Types, Listed, disk
<1>7. ASSUME NEW i \in Ids, NEW f \in {"fcmp", "orig"}, Unlink(i, f) PROVE SurvivalInv'
  <2>1. /\ \A j \in Ids : fcmp'[j] = fcmp[j] \/ (j = i /\ <<i, "fcmp">> \in doomed)
        /\ UNCHANGED <<job, transfers, up, purged, done, damaged>>
    BY <1>7 DEF Unlink, Types, TypeOK, history
  <2>2. <<i, "fcmp">> \in doomed => i \in purged /\ job[i] # "moved"
    BY DEF ListedInv, UnlistedInv
  <2>3. QED
    BY <2>1, <2>2 DEF SurvivalInv, Listed
<1>8. CASE UnlinkFails
  BY <1>8 DEF UnlinkFails, SurvivalInv, Listed, disk
<1>9. ASSUME NEW i \in Ids, ContainerAges(i) \/ TransferAges(i) PROVE SurvivalInv'
  BY <1>9 DEF ContainerAges, TransferAges, SurvivalInv, Listed, memory, disk, history
<1>10. CASE Download
  BY <1>10 DEF Download, FindTransfer, OpenFile, EndDownload, SurvivalInv, Listed, memory,
     disk, history
<1>11. CASE Crash
  <2>1. \A j \in Ids : /\ job'[j] # "moved"
                       /\ fcmp'[j] = fcmp[j] \/ j \in damaged'
    BY <1>11 DEF Crash, Types, TypeOK, Ended
  <2>2. ~up' /\ damaged \subseteq damaged' /\ UNCHANGED <<purged, done>>
    BY <1>11 DEF Crash
  <2>3. QED
    BY <2>1, <2>2 DEF SurvivalInv
<1>12. CASE Restart
  <2>1. \A j \in Ids : job'[j] # "moved"
    BY <1>12 DEF Restart, DownInv, Ended
  <2>2. PICK bad \in SUBSET Ids, originals \in SUBSET Ids :
          /\ \A j \in Ids : fcmp'[j] = IF fcmp[j] # "none" /\ j \notin bad THEN fcmp[j] ELSE "none"
          /\ \A j \in Ids : fcmp[j] # "none" /\ j \notin bad => Listed(j)'
          /\ damaged' = damaged \cup bad
    BY <1>12 DEF Restart, Reload, KeptOriginals, Listed
  <2>3. UNCHANGED <<purged, done>>
    BY <1>12 DEF Restart
  <2>4. QED
    BY <2>1, <2>2, <2>3 DEF SurvivalInv
<1>13. QED
  BY <1>1, <1>2, <1>3, <1>4, <1>5, <1>6, <1>7, <1>8, <1>9, <1>10, <1>11, <1>12
     DEF Next, JobStep, LocalStep, Housekeeping

\* Originals are never torn.
LEMMA SyncedStep == ASSUME IInv, Next, Types' PROVE SyncedInv'
<1> USE DEF IInv, StoreInv
<1>1. ASSUME NEW i \in Ids, LocalStep(i) PROVE SyncedInv'
  BY <1>1, LocalEffect DEF LocalStep, SyncedInv, DeliveredIsIntact
<1>2. ASSUME NEW i \in Ids, Publish(i) PROVE SyncedInv'
  BY <1>2, PublishEffect DEF SyncedInv, DeliveredIsIntact
<1>3. ASSUME NEW i \in Ids, Admit(i) PROVE SyncedInv'
  BY <1>3, PurgeEffect DEF Admit, SyncedInv, DeliveredIsIntact, Goto, disk
<1>4. ASSUME NEW i \in Ids, MoveContainer(i) PROVE SyncedInv'
  BY <1>4, PurgeEffect DEF MoveContainer, SyncedInv, DeliveredIsIntact, Goto
<1>5. ASSUME NEW i \in Ids, AskDownload(i) PROVE SyncedInv'
  BY <1>5, PurgeEffect DEF AskDownload, SyncedInv, DeliveredIsIntact, disk
<1>6. CASE Purge
  BY <1>6, PurgeEffect DEF Purge, SyncedInv, DeliveredIsIntact, disk
<1>7. ASSUME NEW i \in Ids, NEW f \in {"fcmp", "orig"}, Unlink(i, f) PROVE SyncedInv'
  BY <1>7 DEF Unlink, SyncedInv, DeliveredIsIntact, Types, TypeOK
<1>8. CASE UnlinkFails
  BY <1>8 DEF UnlinkFails, SyncedInv, DeliveredIsIntact, disk
<1>9. ASSUME NEW i \in Ids, ContainerAges(i) \/ TransferAges(i) PROVE SyncedInv'
  BY <1>9 DEF ContainerAges, TransferAges, SyncedInv, DeliveredIsIntact, disk
<1>10. CASE Download
  <2>1. CASE FindTransfer \/ OpenFile
    BY <2>1 DEF FindTransfer, OpenFile, SyncedInv, DeliveredIsIntact, Types, TypeOK, DownloadTypes,
       NoDownload, disk
  <2>2. CASE EndDownload
    <3>1. UNCHANGED <<job, kind, orig, synced>>
      BY <2>2 DEF EndDownload, disk
    <3>2. dl' = NoDownload \/ (dl.phase = "streaming" /\ (dl.form = "restored" => dl.content = "whole")
                              /\ dl' = [dl EXCEPT !.phase = "delivered"])
      BY <2>2 DEF EndDownload
    <3>3. dl.phase = "streaming" => dl \in [phase : {"streaming"}, id : Ids, form : Forms, content : Contents]
      BY DEF Types, DownloadTypes, NoDownload
    <3>4. dl'.phase # "streaming" /\ DeliveredIsIntact'
      BY <3>2, <3>3 DEF SyncedInv, DeliveredIsIntact, NoDownload, Forms
    <3>5. QED
      BY <3>1, <3>4 DEF SyncedInv
  <2>3. QED
    BY <1>10, <2>1, <2>2 DEF Download
<1>11. CASE Crash
  BY <1>11 DEF Crash, SyncedInv, DeliveredIsIntact, NoDownload
<1>12. CASE Restart
  BY <1>12 DEF Restart, Reload, KeptOriginals, SyncedInv, DeliveredIsIntact
<1>13. QED
  BY <1>1, <1>2, <1>3, <1>4, <1>5, <1>6, <1>7, <1>8, <1>9, <1>10, <1>11, <1>12
     DEF Next, JobStep, LocalStep, Housekeeping

-----------------------------------------------------------------------------
\* The variables keep their shape.
LEMMA TypeStep == ASSUME IInv, Next PROVE Types'
<1> USE DEF IInv, StoreInv
<1>1. ASSUME NEW i \in Ids, LocalStep(i) PROVE Types'
  <2>1. tmp' \in [Ids -> 0..Size] /\ part' \in [Ids -> 0..Size]
    <3> USE StorageAssumption DEF Types, TypeOK, disk
    <3>1. CASE Flush(i) \/ Received(i) \/ UploadBreaks(i)
      BY <3>1 DEF Flush, Received, UploadBreaks
    <3>2. CASE WritePart(i) \/ DiskFull(i) \/ Packed(i) \/ JobFails(i)
      BY <3>2 DEF WritePart, DiskFull, Packed, JobFails
    <3>3. CASE MoveOriginalFails(i) \/ Clean(i) \/ CheckArchive(i) \/ StreamBack(i) \/ NeverStarted(i)
      BY <3>3 DEF MoveOriginalFails, Clean, CheckArchive, StreamBack, NeverStarted
    <3>4. QED
      BY <1>1, <3>1, <3>2, <3>3 DEF LocalStep
  <2>2. QED
    BY <1>1, <2>1, LocalEffect DEF Types, TypeOK, DownloadTypes, AllPhases
<1>2. ASSUME NEW i \in Ids, Publish(i) PROVE Types'
  BY <1>2, StorageAssumption DEF Publish, Types, TypeOK, DownloadTypes, Goto
<1>3. ASSUME NEW i \in Ids, Admit(i) PROVE Types'
  BY <1>3, PurgeEffect DEF Admit, Types, TypeOK, DownloadTypes, StoredFiles, Goto, disk
<1>4. ASSUME NEW i \in Ids, MoveContainer(i) PROVE Types'
  BY <1>4, PurgeEffect, StorageAssumption DEF MoveContainer, Types, TypeOK, DownloadTypes,
     StoredFiles, Goto
<1>5. ASSUME NEW i \in Ids, AskDownload(i) PROVE Types'
  BY <1>5, PurgeEffect DEF AskDownload, Types, TypeOK, DownloadTypes, StoredFiles, disk
<1>6. CASE Purge
  BY <1>6, PurgeEffect DEF Purge, Types, TypeOK, DownloadTypes, StoredFiles, disk
<1>7. ASSUME NEW i \in Ids, NEW f \in {"fcmp", "orig"}, Unlink(i, f) PROVE Types'
  BY <1>7 DEF Unlink, Types, TypeOK, DownloadTypes, history
<1>8. CASE UnlinkFails
  BY <1>8 DEF UnlinkFails, Types, TypeOK, DownloadTypes, disk
<1>9. ASSUME NEW i \in Ids, ContainerAges(i) \/ TransferAges(i) PROVE Types'
  BY <1>9 DEF ContainerAges, TransferAges, Types, TypeOK, DownloadTypes, memory, disk, history
<1>10. CASE Download
  BY <1>10 DEF Download, FindTransfer, OpenFile, EndDownload, Types, TypeOK, DownloadTypes,
     Forms, Contents, NoDownload, memory, disk, history
<1>11. CASE Crash
  <2>1. job' \in [Ids -> AllPhases] /\ transfers' \in [Ids -> {"no", "plain", "original"}]
        /\ fcmp' \in [Ids -> Contents] /\ orig' \in [Ids -> Contents]
    BY <1>11 DEF Crash, Types, TypeOK, AllPhases, Ended, Contents
  <2>2. crashes' \in 0..MaxCrashes
    BY <1>11, StorageAssumption DEF Crash, Types, TypeOK
  <2>3. QED
    BY <1>11, <2>1, <2>2 DEF Crash, Types, TypeOK, AllPhases, Contents, DownloadTypes, history
<1>12. CASE Restart
  BY <1>12, StorageAssumption DEF Restart, Reload, KeptOriginals, Types, TypeOK, DownloadTypes
<1>13. QED
  BY <1>1, <1>2, <1>3, <1>4, <1>5, <1>6, <1>7, <1>8, <1>9, <1>10, <1>11, <1>12
     DEF Next, JobStep, LocalStep, Housekeeping

\* Temporary files belong to phases.
LEMMA TemporaryStep == ASSUME IInv, Next, Types' PROVE TemporaryInv'
<1> USE DEF IInv, StoreInv
<1>1. ASSUME NEW i \in Ids, LocalStep(i) PROVE TemporaryInv'
  <2>1. CASE Received(i)
    BY <2>1, <1>1, LocalEffect DEF Received, TemporaryInv, disk
  <2>2. CASE Flush(i) \/ UploadBreaks(i)
    BY <2>2 DEF Flush, UploadBreaks, TemporaryInv, Types, TypeOK, Goto
  <2>3. CASE WritePart(i) \/ DiskFull(i) \/ Packed(i) \/ JobFails(i)
    BY <2>3 DEF WritePart, DiskFull, Packed, JobFails, TemporaryInv, Types, TypeOK, Goto, disk
  <2>4. CASE MoveOriginalFails(i) \/ Clean(i) \/ StreamBack(i) \/ NeverStarted(i)
    BY <2>4 DEF MoveOriginalFails, Clean, StreamBack, NeverStarted, TemporaryInv, Types, TypeOK,
       Goto, disk
  <2>5. CASE CheckArchive(i)
    BY <2>5 DEF CheckArchive, TemporaryInv, Types, TypeOK, Goto
  <2>6. QED
    BY <1>1, <2>1, <2>2, <2>3, <2>4, <2>5 DEF LocalStep
<1>2. ASSUME NEW i \in Ids, Publish(i) PROVE TemporaryInv'
  BY <1>2 DEF Publish, TemporaryInv, Types, TypeOK, Goto
<1>3. ASSUME NEW i \in Ids, Admit(i) PROVE TemporaryInv'
  BY <1>3, PurgeEffect DEF Admit, TemporaryInv, Goto, disk
<1>4. ASSUME NEW i \in Ids, MoveContainer(i) PROVE TemporaryInv'
  BY <1>4, PurgeEffect DEF MoveContainer, TemporaryInv, Types, TypeOK, Goto
<1>5. ASSUME NEW i \in Ids, AskDownload(i) PROVE TemporaryInv'
  BY <1>5, PurgeEffect DEF AskDownload, TemporaryInv, disk
<1>6. CASE Purge
  BY <1>6, PurgeEffect DEF Purge, TemporaryInv, disk
<1>7. ASSUME NEW i \in Ids, NEW f \in {"fcmp", "orig"}, Unlink(i, f) PROVE TemporaryInv'
  BY <1>7 DEF Unlink, TemporaryInv
<1>8. CASE UnlinkFails
  BY <1>8 DEF UnlinkFails, TemporaryInv, disk
<1>9. ASSUME NEW i \in Ids, ContainerAges(i) \/ TransferAges(i) PROVE TemporaryInv'
  BY <1>9 DEF ContainerAges, TransferAges, TemporaryInv, disk
<1>10. CASE Download
  BY <1>10 DEF Download, FindTransfer, OpenFile, EndDownload, TemporaryInv, disk
<1>11. CASE Crash
  BY <1>11 DEF Crash, TemporaryInv
<1>12. CASE Restart
  BY <1>12 DEF Restart, TemporaryInv
<1>13. QED
  BY <1>1, <1>2, <1>3, <1>4, <1>5, <1>6, <1>7, <1>8, <1>9, <1>10, <1>11, <1>12
     DEF Next, JobStep, LocalStep, Housekeeping

\* A job ends with its temporary files gone.
LEMMA TemporaryOwnedStep == ASSUME IInv, Next, Types' PROVE TemporaryOwned'
<1> USE DEF IInv, StoreInv
<1>1. ASSUME NEW i \in Ids, LocalStep(i) PROVE TemporaryOwned'
  <2> USE DEF Types, TypeOK, Ended, Goto, disk, memory, history
  <2>1. \A j \in Ids \ {i} : tmp'[j] = tmp[j] /\ part'[j] = part[j]
    <3>1. CASE Flush(i) \/ Received(i) \/ UploadBreaks(i) \/ WritePart(i) \/ DiskFull(i) \/ Packed(i)
      BY <3>1 DEF Flush, Received, UploadBreaks, WritePart, DiskFull, Packed
    <3>2. CASE JobFails(i) \/ MoveOriginalFails(i) \/ Clean(i)
      BY <3>2 DEF JobFails, MoveOriginalFails, Clean
    <3>3. CASE CheckArchive(i) \/ StreamBack(i) \/ NeverStarted(i)
      BY <3>3 DEF CheckArchive, StreamBack, NeverStarted
    <3>4. QED
      BY <1>1, <3>1, <3>2, <3>3 DEF LocalStep
  <2>2. job'[i] \in Ended => (tmp'[i] = 0 /\ part'[i] = 0) \/ i \in faults'
    <3>1. CASE Received(i)
      <4>1. kind[i] \in {"compress", "import", "decompress"}
        BY StorageAssumption
      <4>2. job'[i] \in {"packing", "registering", "checking"}
        BY <3>1, <4>1 DEF Received
      <4>3. QED
        BY <4>2
    <3>2. CASE Flush(i)
      BY <3>2 DEF Flush, TemporaryInv
    <3>3. CASE UploadBreaks(i) \/ CheckArchive(i)
      BY <3>3 DEF UploadBreaks, CheckArchive, TemporaryInv
    <3>4. CASE WritePart(i) \/ DiskFull(i) \/ Packed(i) \/ JobFails(i) \/ MoveOriginalFails(i)
      BY <3>4 DEF WritePart, DiskFull, Packed, JobFails, MoveOriginalFails
    <3>5. CASE Clean(i) \/ StreamBack(i) \/ NeverStarted(i)
      BY <3>5 DEF Clean, StreamBack, NeverStarted, TemporaryInv
    <3>6. QED
      BY <1>1, <3>1, <3>2, <3>3, <3>4, <3>5 DEF LocalStep
  <2>3. up /\ faults \subseteq faults' /\ \A j \in Ids \ {i} : job'[j] = job[j]
    BY <1>1, LocalEffect
  <2>4. ASSUME NEW j \in Ids \ faults', tmp'[j] # 0 \/ part'[j] # 0 PROVE job'[j] \notin Ended
    <3>1. CASE j = i
      BY <2>2, <2>4, <3>1
    <3>2. CASE j # i
      BY <2>1, <2>3, <2>4, <3>2 DEF TemporaryOwned
    <3>3. QED
      BY <3>1, <3>2
  <2>5. QED
    BY <2>4 DEF TemporaryOwned
<1>2. ASSUME NEW i \in Ids, Publish(i) PROVE TemporaryOwned'
  BY <1>2 DEF Publish, TemporaryOwned, Types, TypeOK, Goto, Ended
<1>3. ASSUME NEW i \in Ids, Admit(i) PROVE TemporaryOwned'
  BY <1>3, PurgeEffect DEF Admit, TemporaryOwned, TemporaryInv, Goto, disk
<1>4. ASSUME NEW i \in Ids, MoveContainer(i) PROVE TemporaryOwned'
  BY <1>4, PurgeEffect DEF MoveContainer, TemporaryOwned, Types, TypeOK, Goto, Ended
<1>5. ASSUME NEW i \in Ids, AskDownload(i) PROVE TemporaryOwned'
  BY <1>5, PurgeEffect DEF AskDownload, TemporaryOwned, disk
<1>6. CASE Purge
  BY <1>6, PurgeEffect DEF Purge, TemporaryOwned, disk
<1>7. ASSUME NEW i \in Ids, NEW f \in {"fcmp", "orig"}, Unlink(i, f) PROVE TemporaryOwned'
  BY <1>7 DEF Unlink, TemporaryOwned, history
<1>8. CASE UnlinkFails
  BY <1>8 DEF UnlinkFails, TemporaryOwned, disk
<1>9. ASSUME NEW i \in Ids, ContainerAges(i) \/ TransferAges(i) PROVE TemporaryOwned'
  BY <1>9 DEF ContainerAges, TransferAges, TemporaryOwned, disk, history
<1>10. CASE Download
  BY <1>10 DEF Download, FindTransfer, OpenFile, EndDownload, TemporaryOwned, disk, history
<1>11. CASE Crash
  BY <1>11 DEF Crash, TemporaryOwned
<1>12. CASE Restart
  BY <1>12 DEF Restart, TemporaryOwned
<1>13. QED
  BY <1>1, <1>2, <1>3, <1>4, <1>5, <1>6, <1>7, <1>8, <1>9, <1>10, <1>11, <1>12
     DEF Next, JobStep, LocalStep, Housekeeping

-----------------------------------------------------------------------------
(* The theorems *)

(* An empty storage directory has all the parts of the invariant. *)
LEMMA InitIInv == Init => IInv
<1> SUFFICES ASSUME Init PROVE IInv
  OBVIOUS
<1>1. Types
  BY StorageAssumption DEF Init, Types, TypeOK, DownloadTypes, Ended
<1>2. dl.phase = "none"
  BY DEF Init, NoDownload
<1>3. \A i \in Ids : ~Listed(i) /\ tmp[i] = 0 /\ part[i] = 0 /\ fcmp[i] = "none" /\ orig[i] = "none"
                   /\ job[i] = "idle"
  BY DEF Init, Listed
<1>4. doomed = {} /\ expired = {} /\ purged = {} /\ done = {} /\ up
  BY DEF Init
<1>5. UnlistedInv /\ UnplacedInv /\ DownInv
  BY <1>3, <1>4 DEF UnlistedInv, UnplacedInv, DownInv
<1>6. ListedInv /\ ExpiredInv
  BY <1>3, <1>4 DEF ListedInv, ListedHasItsFiles, Listed, ExpiredInv
<1>7. DownloadInv /\ SyncedInv
  BY <1>2, <1>3 DEF DownloadInv, GoneOnlyWhenExpired, SyncedInv, DeliveredIsIntact
<1>8. TemporaryInv /\ TemporaryOwned /\ ContainerOwned /\ OriginalOwned /\ SurvivalInv
  BY <1>3, <1>4 DEF TemporaryInv, TemporaryOwned, ContainerOwned, OriginalOwned, SurvivalInv
<1>9. QED
  BY <1>1, <1>5, <1>6, <1>7, <1>8 DEF IInv, StoreInv

(* Every step of a job, the purge, a download, a crash or a restart keeps them. *)
LEMMA StepIInv == IInv /\ [Next]_vars => IInv'
<1> SUFFICES ASSUME IInv, [Next]_vars PROVE IInv'
  OBVIOUS
<1>1. CASE Next
  BY <1>1, TypeStep, UnlistedStep, UnplacedStep, ListedStep, ExpiredStep, DownStep, DownloadStep,
     TemporaryStep, TemporaryOwnedStep, ContainerOwnedStep, OriginalOwnedStep, SurvivalStep,
     SyncedStep DEF IInv, StoreInv
<1>2. CASE UNCHANGED vars
  BY <1>2 DEF vars, memory, disk, history, IInv, StoreInv, Types, TypeOK, DownloadTypes,
     UnlistedInv, UnplacedInv, ListedInv, ListedHasItsFiles, ExpiredInv, DownInv, DownloadInv,
     GoneOnlyWhenExpired, TemporaryInv, TemporaryOwned, ContainerOwned, OriginalOwned,
     SurvivalInv, SyncedInv, DeliveredIsIntact, Listed
<1>3. QED
  BY <1>1, <1>2

(* They hold in every behaviour. *)
LEMMA Invariance == Spec => []IInv
BY InitIInv, StepIInv, PTL DEF Spec

(* No file is left without an owner. *)
THEOREM OwnersTheorem == Spec => []FilesHaveOwners
<1>1. IInv => FilesHaveOwners
  <2> SUFFICES ASSUME IInv, up, NEW i \in Ids \ faults
               PROVE  /\ tmp[i] + part[i] > 0 => job[i] \notin Ended
                      /\ fcmp[i] # "none" => Listed(i) \/ <<i, "fcmp">> \in doomed \/ job[i] = "moved"
                      /\ orig[i] # "none" => transfers[i] = "original" \/ <<i, "orig">> \in doomed
    BY DEF FilesHaveOwners
  <2>1. tmp[i] + part[i] > 0 => tmp[i] # 0 \/ part[i] # 0
    BY StorageAssumption DEF IInv, StoreInv
  <2>2. QED
    BY <2>1 DEF IInv, TemporaryOwned, ContainerOwned, OriginalOwned
<1>2. QED
  BY <1>1, Invariance, PTL

(* A listed transfer has the files its downloads open. *)
THEOREM ListedTheorem == Spec => []ListedHasItsFiles
BY Invariance, PTL DEF IInv, StoreInv, ListedInv

(* A download that found its transfer and misses the file lost it to the purge:
   nothing else removes a listed container. *)
THEOREM GoneTheorem == Spec => []GoneOnlyWhenExpired
BY Invariance, PTL DEF IInv, DownloadInv

(* An original file that a client receives to the end is not torn, although a
   kept one is sent without a checksum: it was synced before it was moved into
   place. *)
THEOREM IntactTheorem == Spec => []DeliveredIsIntact
BY Invariance, PTL DEF IInv, SyncedInv

(* A completed transfer outlives crashes. *)
THEOREM SurvivalTheorem == Spec => []CompletedSurvives
<1>1. IInv => CompletedSurvives
  BY DEF IInv, StoreInv, Types, SurvivalInv, CompletedSurvives
<1>2. QED
  BY <1>1, Invariance, PTL

(* A purged transfer is never served again. *)
THEOREM PurgedTheorem == Spec => PurgedIsNeverServed
<1>1. IInv /\ [Next]_vars => [dl.phase = "asked" /\ dl'.phase = "found" => dl.id \notin purged]_vars
  <2> SUFFICES ASSUME IInv, Next, dl.phase = "asked", dl'.phase = "found" PROVE dl.id \notin purged
    OBVIOUS
  <2>1. FindTransfer
    <3>1. ASSUME NEW i \in Ids, LocalStep(i) \/ Publish(i) PROVE UNCHANGED dl
      BY <3>1, LocalEffect, PublishEffect DEF IInv, StoreInv
    <3>2. ASSUME NEW i \in Ids, Admit(i) \/ MoveContainer(i) \/ ContainerAges(i) \/ TransferAges(i)
          PROVE  UNCHANGED dl
      BY <3>2 DEF Admit, MoveContainer, ContainerAges, TransferAges
    <3>3. ASSUME NEW i \in Ids, NEW f \in {"fcmp", "orig"}, Unlink(i, f) PROVE UNCHANGED dl
      BY <3>3 DEF Unlink
    <3>4. CASE Purge \/ UnlinkFails \/ Restart
      BY <3>4 DEF Purge, UnlinkFails, Restart
    <3>5. CASE Crash \/ EndDownload \/ OpenFile \/ \E i \in Ids : AskDownload(i)
      BY <3>5 DEF Crash, EndDownload, OpenFile, AskDownload, NoDownload
    <3>6. QED
      BY <3>1, <3>2, <3>3, <3>4, <3>5 DEF Next, JobStep, LocalStep, Housekeeping, Download
  <2>2. Listed(dl.id)
    BY <2>1 DEF FindTransfer, NoDownload
  <2>3. QED
    BY <2>2 DEF IInv, DownloadInv
<1>2. QED
  BY <1>1, Invariance, PTL DEF Spec, PurgedIsNeverServed
=============================================================================
