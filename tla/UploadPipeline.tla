--------------------------- MODULE UploadPipeline ---------------------------
(***************************************************************************)
(* The job pipeline of web/api.py: admission (_reserve), the upload itself *)
(* (_receive_upload), background compressions (_start_operation,           *)
(* _run_compression), synchronous transfers, archive imports, cancellation *)
(* and expiry.                                                             *)
(*                                                                         *)
(* The event loop, the compression threads and the purge thread interleave *)
(* between the steps; a step is what one of them does under operation_lock *)
(* or between two awaits.                                                  *)
(***************************************************************************)
EXTENDS Integers, Sequences, FiniteSets, FiniteSetsExt

CONSTANTS
    Jobs, Clients,
    MAX_TRANSFERS, MAX_TRANSFER_BYTES, MAX_PENDING_JOBS,
    MAX_CONCURRENT_UPLOADS, MAX_UPLOADS_PER_CLIENT, MAX_CONCURRENT_COMPRESSIONS,
    TRANSFER_TTL, KEEP_ORIGINAL,
    OriginalSize, PackedSize,   \* bytes of each job's file and of its container
    Kinds,                      \* the endpoints jobs may use
    MaxTime                     \* bound: the clock stops here

ASSUME JobsAssumption == IsFiniteSet(Jobs)

ASSUME LimitsAssumption ==
    /\ MAX_TRANSFERS \in Nat
    /\ MAX_TRANSFER_BYTES \in Nat
    /\ MAX_PENDING_JOBS \in Nat
    /\ MAX_CONCURRENT_UPLOADS \in Nat
    /\ MAX_UPLOADS_PER_CLIENT \in Nat
    /\ MAX_CONCURRENT_COMPRESSIONS \in Nat
    /\ TRANSFER_TTL \in Nat
    /\ KEEP_ORIGINAL \in BOOLEAN
    /\ MaxTime \in Nat

ASSUME SizesAssumption ==
    /\ OriginalSize \in [Jobs -> Nat]
    /\ PackedSize \in [Jobs -> Nat]

\* The endpoints that receive an upload: POST /api/compress[/stream],
\* /api/transfers, /api/archives, /api/decompress, /api/sessions/{id}/send.
AllKinds == {"compress", "transfer", "archive", "decompress", "session"}

ASSUME KindsAssumption == Kinds \subseteq AllKinds

VARIABLES
    now,            \* time.time()
    phase,          \* where the code that serves each job stands
    kind, client,   \* the endpoint and the address of each job's request
    reservations,   \* jobs that hold a reservation token
    upload_slots,   \* free permits of the semaphore
    client_uploads, \* uploads in flight by address
    queue,          \* tasks submitted to compression_executor, oldest first
    operations,     \* jobs whose CompressionOperation is listed
    status,         \* CompressionOperation.status
    op_created,     \* CompressionOperation.created_at
    cancel_event,   \* operations whose event is set
    marking,        \* cancel requests between event.set() and the lock
    transfers,      \* jobs whose Transfer is listed
    created,        \* Transfer.created_at
    originals,      \* transfers with an original_path
    published       \* history: jobs ever added to transfers

request_vars == <<kind, client>>
upload_vars == <<upload_slots, client_uploads>>
cancel_vars == <<cancel_event, marking>>
store_vars == <<transfers, created, originals, published>>
vars == <<now, phase, request_vars, reservations, upload_vars, queue,
          operations, status, op_created, cancel_vars, store_vars>>

Statuses == {"none", "queued", "processing", "cancelling",
             "completed", "cancelled", "error"}

Phases == {"idle", "waiting", "receiving", "reading", "queued_recommend",
           "recommending", "recommended", "queued", "processing", "packed",
           "registering", "registered", "aborting", "failing", "finishing", "done"}

Init ==
    /\ now = 0
    /\ phase = [j \in Jobs |-> "idle"]
    /\ kind \in [Jobs -> Kinds]
    /\ client \in [Jobs -> Clients]
    /\ reservations = {}
    /\ upload_slots = MAX_CONCURRENT_UPLOADS
    /\ client_uploads = [c \in Clients |-> 0]
    /\ queue = <<>>
    /\ operations = {}
    /\ status = [j \in Jobs |-> "none"]
    /\ op_created = [j \in Jobs |-> 0]
    /\ cancel_event = {}
    /\ marking = {}
    /\ transfers = {}
    /\ created = [j \in Jobs |-> 0]
    /\ originals = {}
    /\ published = {}

Goto(j, p) == phase' = [phase EXCEPT ![j] = p]

-----------------------------------------------------------------------------
(* Storage *)

IsFinished(j) == status[j] \in {"completed", "cancelled", "error"}

LiveTransfers == {j \in transfers : now - created[j] <= TRANSFER_TTL}

\* Running operations are kept no matter how long they take.
LiveOperations ==
    {j \in operations : ~(IsFinished(j) /\ now - op_created[j] > TRANSFER_TTL)}

PurgeExpired ==
    /\ transfers' = LiveTransfers
    /\ operations' = LiveOperations

StoredSize(j) ==
    PackedSize[j] + (IF j \in originals THEN OriginalSize[j] ELSE 0)

StoredBytes(listed) == MapThenSumSet(StoredSize, listed)

\* Mutant: jobs that are still on their way are not counted.
HasRoom_TransfersOnly(listed) ==
    /\ Cardinality(reservations) < MAX_PENDING_JOBS
    /\ Cardinality(listed) < MAX_TRANSFERS
    /\ StoredBytes(listed) < MAX_TRANSFER_BYTES

\* _reserve's checks, on what the purge has left.
HasRoom(listed) ==
    /\ Cardinality(reservations) < MAX_PENDING_JOBS
    /\ Cardinality(listed) + Cardinality(reservations) < MAX_TRANSFERS
    /\ StoredBytes(listed) < MAX_TRANSFER_BYTES

Release(j) == reservations' = reservations \ {j}

-----------------------------------------------------------------------------
(* Uploads: coroutines of the event loop *)

\* A refused request (429, 503, 507) changes nothing that a later purge would
\* not change, so only admission is a step.  There is no await between the
\* check of client_uploads and its increment.
Reserve(j) ==
    /\ phase[j] = "idle"
    /\ client_uploads[client[j]] < MAX_UPLOADS_PER_CLIENT
    /\ HasRoom(LiveTransfers)
    /\ PurgeExpired
    /\ reservations' = reservations \cup {j}
    /\ client_uploads' = [client_uploads EXCEPT ![client[j]] = @ + 1]
    /\ Goto(j, "waiting")
    /\ UNCHANGED <<now, request_vars, upload_slots, queue, status, op_created,
                   cancel_vars, created, originals, published>>

AcquireSlot(j) ==
    /\ phase[j] = "waiting"
    /\ upload_slots > 0
    /\ upload_slots' = upload_slots - 1
    /\ Goto(j, "receiving")
    /\ UNCHANGED <<now, request_vars, reservations, client_uploads, queue,
                   operations, status, op_created, cancel_vars, store_vars>>

\* Mutant: the finally block of the slot also covers the failed acquire.
SlotTimeout_ReleasesSlot(j) ==
    /\ phase[j] = "waiting"
    /\ Release(j)
    /\ upload_slots' = upload_slots + 1
    /\ client_uploads' = [client_uploads EXCEPT ![client[j]] = @ - 1]
    /\ Goto(j, "done")
    /\ UNCHANGED <<now, request_vars, queue, operations, status, op_created,
                   cancel_vars, store_vars>>

\* UPLOAD_SLOT_WAIT_SECONDS passed without a free slot: 503.
SlotTimeout(j) ==
    /\ phase[j] = "waiting"
    /\ Release(j)
    /\ client_uploads' = [client_uploads EXCEPT ![client[j]] = @ - 1]
    /\ Goto(j, "done")
    /\ UNCHANGED <<now, request_vars, upload_slots, queue, operations, status,
                   op_created, cancel_vars, store_vars>>

\* The finally blocks that every stored or broken upload runs.
LeaveSlot(j) ==
    /\ phase[j] = "receiving"
    /\ upload_slots' = upload_slots + 1
    /\ client_uploads' = [client_uploads EXCEPT ![client[j]] = @ - 1]

\* Mutant: a broken upload keeps its reservation.
UploadFails_KeepsReservation(j) ==
    /\ LeaveSlot(j)
    /\ Goto(j, "done")
    /\ UNCHANGED <<now, request_vars, reservations, queue, operations, status,
                   op_created, cancel_vars, store_vars>>

\* Disconnect, idle timeout, size limit, full disk or bad gzip data.
UploadFails(j) ==
    /\ LeaveSlot(j)
    /\ Release(j)
    /\ Goto(j, "done")
    /\ UNCHANGED <<now, request_vars, queue, operations, status, op_created,
                   cancel_vars, store_vars>>

\* Mutant: the reservation only covers the upload, not the compression.
StartOperation_ReleasesEarly(j) ==
    /\ kind[j] = "compress"
    /\ LeaveSlot(j)
    /\ Release(j)
    /\ operations' = operations \cup {j}
    /\ status' = [status EXCEPT ![j] = "queued"]
    /\ op_created' = [op_created EXCEPT ![j] = now]
    /\ queue' = Append(queue, j)
    /\ Goto(j, "queued")
    /\ UNCHANGED <<now, request_vars, cancel_vars, store_vars>>

\* POST /api/compress[/stream]: the answer carries the operation's id.
StartOperation(j) ==
    /\ kind[j] = "compress"
    /\ LeaveSlot(j)
    /\ operations' = operations \cup {j}
    /\ status' = [status EXCEPT ![j] = "queued"]
    /\ op_created' = [op_created EXCEPT ![j] = now]
    /\ queue' = Append(queue, j)
    /\ Goto(j, "queued")
    /\ UNCHANGED <<now, request_vars, reservations, cancel_vars, store_vars>>

\* POST /api/transfers: recommend_file takes its own turn in the executor.
SubmitRecommend(j) ==
    /\ kind[j] = "transfer"
    /\ LeaveSlot(j)
    /\ queue' = Append(queue, j)
    /\ Goto(j, "queued_recommend")
    /\ UNCHANGED <<now, request_vars, reservations, operations, status,
                   op_created, cancel_vars, store_vars>>

\* The default pool reads an imported archive's header (POST /api/archives), or
\* packs a file that is then sent through the relay (POST /api/sessions/{id}/send).
ReadArchive(j) ==
    /\ kind[j] \in {"archive", "session"}
    /\ LeaveSlot(j)
    /\ Goto(j, "reading")
    /\ UNCHANGED <<now, request_vars, reservations, queue, operations, status,
                   op_created, cancel_vars, store_vars>>

\* POST /api/decompress gives its reservation back before it restores.
StartDecompress(j) ==
    /\ kind[j] = "decompress"
    /\ LeaveSlot(j)
    /\ Release(j)
    /\ Goto(j, "done")
    /\ UNCHANGED <<now, request_vars, queue, operations, status, op_created,
                   cancel_vars, store_vars>>

-----------------------------------------------------------------------------
(* Compression threads *)

\* Mutant: a worker is not given back after a compression.
OnWorker_NeverFreed(j) ==
    /\ kind[j] = "compress"
    /\ phase[j] \in {"processing", "packed", "registering", "registered",
                     "aborting", "failing", "finishing", "done"}
    /\ status[j] # "none"

\* A worker of compression_executor holds a compression until its finally
\* block ends, and a synchronous job only while one of its functions runs.
OnWorker(j) ==
    \/ /\ kind[j] = "compress"
       /\ phase[j] \in {"processing", "packed", "registering", "registered",
                        "aborting", "failing", "finishing"}
    \/ /\ kind[j] = "transfer"
       /\ phase[j] \in {"recommending", "processing", "packed", "registering"}

TakeTask(j) ==
    /\ queue # <<>>
    /\ Head(queue) = j
    /\ Cardinality({i \in Jobs : OnWorker(i)}) < MAX_CONCURRENT_COMPRESSIONS
    /\ queue' = Tail(queue)

\* Mutant: the event is only looked at while packing.
BeginCompression_Untested(j) ==
    /\ kind[j] = "compress"
    /\ phase[j] = "queued"
    /\ TakeTask(j)
    /\ Goto(j, "processing")
    /\ status' = [status EXCEPT ![j] = "processing"]
    /\ UNCHANGED <<now, request_vars, reservations, upload_vars, operations,
                   op_created, cancel_vars, store_vars>>

\* The cancel event is tested and the status set under one lock.
BeginCompression(j) ==
    /\ kind[j] = "compress"
    /\ phase[j] = "queued"
    /\ TakeTask(j)
    /\ \/ j \in cancel_event /\ Goto(j, "aborting") /\ UNCHANGED status
       \/ /\ j \notin cancel_event
          /\ Goto(j, "processing")
          /\ status' = [status EXCEPT ![j] = "processing"]
    /\ UNCHANGED <<now, request_vars, reservations, upload_vars, operations,
                   op_created, cancel_vars, store_vars>>

BeginTurn(j) ==
    /\ kind[j] = "transfer"
    /\ phase[j] \in {"queued_recommend", "queued"}
    /\ TakeTask(j)
    /\ Goto(j, IF phase[j] = "queued_recommend" THEN "recommending"
                                                ELSE "processing")
    /\ UNCHANGED <<now, request_vars, reservations, upload_vars, operations,
                   status, op_created, cancel_vars, store_vars>>

\* recommend_file returns and its worker is free again.
Recommend(j) ==
    /\ phase[j] = "recommending"
    /\ Goto(j, "recommended")
    /\ UNCHANGED <<now, request_vars, reservations, upload_vars, queue,
                   operations, status, op_created, cancel_vars, store_vars>>

\* The coroutine resumes and submits the compression: the second turn.
SubmitTransfer(j) ==
    /\ phase[j] = "recommended"
    /\ queue' = Append(queue, j)
    /\ Goto(j, "queued")
    /\ UNCHANGED <<now, request_vars, reservations, upload_vars, operations,
                   status, op_created, cancel_vars, store_vars>>

\* pack_stream wrote the container, or the imported archive's header is good.
ContainerReady(j) ==
    /\ \/ phase[j] = "processing"
       \/ phase[j] = "reading" /\ kind[j] = "archive"
    /\ Goto(j, "packed")
    /\ UNCHANGED <<now, request_vars, reservations, upload_vars, queue,
                   operations, status, op_created, cancel_vars, store_vars>>

\* An exception of recommend_file, pack_stream, fsync or read_info_path.
ContainerFails(j) ==
    /\ phase[j] \in {"recommending", "processing", "reading"}
    /\ Goto(j, "failing")
    /\ UNCHANGED <<now, request_vars, reservations, upload_vars, queue,
                   operations, status, op_created, cancel_vars, store_vars>>

\* pack_stream polls the event between blocks, so it may also miss it.
PackCancelled(j) ==
    /\ kind[j] = "compress"
    /\ phase[j] = "processing"
    /\ j \in cancel_event
    /\ Goto(j, "aborting")
    /\ UNCHANGED <<now, request_vars, reservations, upload_vars, queue,
                   operations, status, op_created, cancel_vars, store_vars>>

\* _register_transfer purges under a lock of its own, before it takes the one
\* under which it decides.
PurgeBeforeRegister(j) ==
    /\ phase[j] = "packed"
    /\ PurgeExpired
    /\ Goto(j, "registering")
    /\ UNCHANGED <<now, request_vars, reservations, upload_vars, queue, status,
                   op_created, cancel_vars, created, originals, published>>

Refused(j) ==
    \/ Cardinality(transfers) >= MAX_TRANSFERS
    \/ StoredBytes(transfers) + PackedSize[j] > MAX_TRANSFER_BYTES

\* Mutant: only the container is held against the quota.
KeepsOriginal_AnyQuota(j) ==
    /\ KEEP_ORIGINAL
    /\ kind[j] \in {"compress", "transfer"}

\* The original is kept only for compressed uploads the quota has room for.
KeepsOriginal(j) ==
    /\ KEEP_ORIGINAL
    /\ kind[j] \in {"compress", "transfer"}
    /\ StoredBytes(transfers) + PackedSize[j] + OriginalSize[j] <= MAX_TRANSFER_BYTES

Register(j) ==
    /\ phase[j] = "registering"
    /\ ~Refused(j)
    /\ transfers' = transfers \cup {j}
    /\ created' = [created EXCEPT ![j] = now]
    /\ originals' = IF KeepsOriginal(j) THEN originals \cup {j} ELSE originals
    /\ published' = published \cup {j}
    /\ Goto(j, "registered")
    /\ UNCHANGED <<now, request_vars, reservations, upload_vars, queue,
                   operations, status, op_created, cancel_vars>>

RefuseTransfer(j) ==
    /\ phase[j] = "registering"
    /\ Refused(j)
    /\ Goto(j, "failing")
    /\ UNCHANGED <<now, request_vars, reservations, upload_vars, queue,
                   operations, status, op_created, cancel_vars, store_vars>>

\* Mutant: a status that is not one of the documented ones.
Verdict_Misspelt(p) == CASE p = "registered" -> "completed"
                         [] p = "aborting"   -> "canceled"
                         [] p = "failing"    -> "error"

\* What _run_compression reports for each way its try block may end.
Verdict(p) == CASE p = "registered" -> "completed"
                [] p = "aborting"   -> "cancelled"
                [] p = "failing"    -> "error"

\* Mutant: the event is tested once more after the transfer was registered.
ReportOperation_LateCancel(j) ==
    /\ kind[j] = "compress"
    /\ phase[j] \in {"registered", "aborting", "failing"}
    /\ status' = [status EXCEPT ![j] = IF j \in cancel_event THEN "cancelled"
                                       ELSE Verdict(phase[j])]
    /\ Goto(j, "finishing")
    /\ UNCHANGED <<now, request_vars, reservations, upload_vars, queue,
                   operations, op_created, cancel_vars, store_vars>>

ReportOperation(j) ==
    /\ kind[j] = "compress"
    /\ phase[j] \in {"registered", "aborting", "failing"}
    /\ status' = [status EXCEPT ![j] = Verdict(phase[j])]
    /\ Goto(j, "finishing")
    /\ UNCHANGED <<now, request_vars, reservations, upload_vars, queue,
                   operations, op_created, cancel_vars, store_vars>>

ReleaseOperation(j) ==
    /\ phase[j] = "finishing"
    /\ Release(j)
    /\ Goto(j, "done")
    /\ UNCHANGED <<now, request_vars, upload_vars, queue, operations, status,
                   op_created, cancel_vars, store_vars>>

\* The finally block of create_transfer, import_archive and send_session: what a
\* session sends is never registered.
ReleaseRequest(j) ==
    /\ \/ kind[j] \in {"transfer", "archive", "session"} /\ phase[j] \in {"registered", "failing"}
       \/ kind[j] = "session" /\ phase[j] = "reading"
    /\ Release(j)
    /\ Goto(j, "done")
    /\ UNCHANGED <<now, request_vars, upload_vars, queue, operations, status,
                   op_created, cancel_vars, store_vars>>

-----------------------------------------------------------------------------
(* Cancellation, expiry and the clock *)

\* The event is set outside the lock.  A repeated request changes nothing.
RequestCancel(j) ==
    /\ j \in operations \ cancel_event
    /\ cancel_event' = cancel_event \cup {j}
    /\ marking' = marking \cup {j}
    /\ UNCHANGED <<now, phase, request_vars, reservations, upload_vars, queue,
                   operations, status, op_created, store_vars>>

MarkCancelling(j) ==
    /\ j \in marking
    /\ marking' = marking \ {j}
    /\ status' = IF status[j] \in {"queued", "processing"}
                 THEN [status EXCEPT ![j] = "cancelling"] ELSE status
    /\ UNCHANGED <<now, phase, request_vars, reservations, upload_vars, queue,
                   operations, op_created, cancel_event, store_vars>>

\* purge_loop, and _get_transfer on every request for a transfer.
Purge ==
    /\ LiveTransfers # transfers \/ LiveOperations # operations
    /\ PurgeExpired
    /\ UNCHANGED <<now, phase, request_vars, reservations, upload_vars, queue,
                   status, op_created, cancel_vars, created, originals, published>>

Tick ==
    /\ now < MaxTime
    /\ now' = now + 1
    /\ UNCHANGED <<phase, request_vars, reservations, upload_vars, queue,
                   operations, status, op_created, cancel_vars, store_vars>>

\* No job is in the pipeline: the only way the service may come to rest.
Quiet ==
    /\ \A j \in Jobs : phase[j] \in {"idle", "done"}
    /\ marking = {}
    /\ UNCHANGED vars

-----------------------------------------------------------------------------

UploadStep(j) ==
    \/ AcquireSlot(j) \/ SlotTimeout(j) \/ UploadFails(j)
    \/ StartOperation(j) \/ SubmitRecommend(j) \/ ReadArchive(j) \/ StartDecompress(j)

WorkStep(j) ==
    \/ BeginCompression(j) \/ BeginTurn(j) \/ Recommend(j) \/ SubmitTransfer(j)
    \/ ContainerReady(j) \/ ContainerFails(j) \/ PackCancelled(j)
    \/ PurgeBeforeRegister(j) \/ Register(j) \/ RefuseTransfer(j)
    \/ ReportOperation(j) \/ ReleaseOperation(j) \/ ReleaseRequest(j)

Next ==
    \/ \E j \in Jobs : \/ Reserve(j)
                       \/ UploadStep(j)
                       \/ WorkStep(j)
                       \/ RequestCancel(j)
                       \/ MarkCancelling(j)
    \/ Purge
    \/ Tick
    \/ Quiet

Spec == Init /\ [][Next]_vars

\* A stalled upload is cut by the idle timeout, a wait for a slot by its own,
\* threads are scheduled and take tasks in order.  Nothing obliges a client to
\* send a request or to cancel, nor the clock to reach an expiry.
Fairness ==
    \A j \in Jobs : /\ WF_vars(UploadStep(j))
                    /\ WF_vars(WorkStep(j))
                    /\ WF_vars(MarkCancelling(j))

FairSpec == Spec /\ Fairness

-----------------------------------------------------------------------------
(* Properties *)

TypeOK ==
    /\ now \in Nat
    /\ phase \in [Jobs -> Phases]
    /\ kind \in [Jobs -> Kinds]
    /\ client \in [Jobs -> Clients]
    /\ reservations \subseteq Jobs
    /\ upload_slots \in Int
    /\ client_uploads \in [Clients -> Int]
    /\ queue \in Seq(Jobs)
    /\ operations \subseteq Jobs
    /\ status \in [Jobs -> Statuses]
    /\ op_created \in [Jobs -> Nat]
    /\ cancel_event \subseteq Jobs
    /\ marking \subseteq Jobs
    /\ transfers \subseteq Jobs
    /\ created \in [Jobs -> Nat]
    /\ originals \subseteq Jobs
    /\ published \subseteq Jobs

\* "Every upload and queued compression holds a reservation until it becomes a
\* transfer or fails": counting both, the transfer limit is never overbooked, so
\* the limit that _register_transfer tests again never refuses an admitted job.
RoomForEveryJob ==
    /\ Cardinality(transfers \cup reservations) <= MAX_TRANSFERS
    /\ \A j \in Jobs : phase[j] = "registering" => Cardinality(transfers) < MAX_TRANSFERS

\* Through timeouts, failures and success alike, the semaphore's permits and the
\* per-address counters say exactly how many uploads hold a slot or are in
\* flight, and no address is ever above its share.
UploadCountsExact ==
    /\ upload_slots + Cardinality({j \in Jobs : phase[j] = "receiving"})
         = MAX_CONCURRENT_UPLOADS
    /\ \A c \in Clients :
        LET inFlight == {j \in Jobs : client[j] = c /\ phase[j] \in {"waiting", "receiving"}}
        IN  /\ client_uploads[c] = Cardinality(inFlight)
            /\ client_uploads[c] <= MAX_UPLOADS_PER_CLIENT

\* The listed containers and kept originals fit the quota at every moment,
\* though jobs are admitted before the size of their container is known.
QuotaKept == StoredBytes(transfers) <= MAX_TRANSFER_BYTES

\* What an operation reports is what happened to its transfer, whatever a cancel
\* request overtook: completed means registered, cancelled or failed means that
\* no transfer was ever listed, and a cancellation was asked for.
OutcomeMatchesStore ==
    \A j \in Jobs :
        /\ status[j] = "completed" => j \in published
        /\ status[j] \in {"cancelled", "error"} => j \notin published
        /\ status[j] \in {"cancelling", "cancelled"} => j \in cancel_event

\* The statuses a polling client may see next.
MayBecome(s) ==
    CASE s = "none"       -> {"queued"}
      [] s = "queued"     -> {"processing", "cancelling", "cancelled"}
      [] s = "processing" -> {"cancelling", "completed", "cancelled", "error"}
      [] s = "cancelling" -> {"completed", "cancelled", "error"}
      [] OTHER            -> {}

\* A finished operation never changes its status, and one that is being
\* cancelled never goes back to processing, however the cancel handler (event
\* first, status later) interleaves with the thread.
StatusNeverGoesBack ==
    [][\A j \in Jobs : status'[j] # status[j] => status'[j] \in MayBecome(status[j])]_status

\* What the abstract service has done with a job.  A job that was refused a slot
\* or failed has ended, and so has a transfer that was listed and purged.
JobState(j) ==
    IF j \in transfers THEN "available"
    ELSE IF j \in published THEN "ended"
    ELSE IF j \in reservations THEN "pending"
    ELSE IF phase[j] = "idle" THEN "absent"
    ELSE "ended"

\* The pipeline implements the abstract service: an accepted job is resolved once,
\* is published only out of a reservation it holds, never comes back after it
\* expired, and needs no second look at the transfer limit to be published.
Service == INSTANCE JobService WITH state <- [j \in Jobs |-> JobState(j)]

ImplementsService == Service!Spec

\* A reservation is always given back, by every path through the handlers, so
\* the admission limits never wear out.
EveryReservationEnds ==
    \A j \in Jobs : j \in reservations ~> j \notin reservations

\* An operation whose id was answered reaches a final status.
EveryOperationFinishes ==
    \A j \in Jobs : status[j] = "queued" ~> IsFinished(j)

\* README: the status request gives the transferId once the compression is
\* complete.  While a transfer can be fetched, its operation can be polled.
CompletedOperationIsListed ==
    \A j \in Jobs : status[j] = "completed" /\ j \in transfers => j \in operations
=============================================================================
