# A TLA+ model of FileComp

FileComp compresses files into FCMP containers and shares them: a web service
with background compressions, a TCP relay, a hotspot monitor, a container format
with four codecs, command lines and a small GUI.  This directory holds TLA+
modules translated from that code, the TLC configurations that check them, and
proofs checked by TLAPS.  Paths below are relative to the repository; `api.py` is
`src/filecompression/web/api.py`.

```
tlc -config UploadPipeline_safety.cfg   MCUploadPipeline.tla
tlc -config UploadPipeline_liveness.cfg MCUploadPipeline.tla
tlc -config UploadPipeline_polling.cfg  MCUploadPipeline.tla   # finds a violation
tlc -config Relay_safety.cfg            MCRelay.tla
tlc -config Relay_liveness.cfg          MCRelay.tla
tlc -config Relay_recipient_left.cfg    MCRelay.tla            # finds a violation
tlc -config TransferFiles_recovery.cfg  TransferFiles.tla
tlc -config TransferFiles_disk.cfg      TransferFiles.tla      # finds a violation
tlc -config Hotspot_service.cfg         Hotspot.tla
tlc -config Hotspot_overlap.cfg         Hotspot.tla            # finds a violation
tlc -config ContainerStream_streams.cfg MCContainerStream.tla
tlc -config Codecs_inputs.cfg           Codecs.tla
tlapm Induction.tla
tlapm UploadPipeline_proofs.tla
tlapm Relay_proofs.tla
tlapm TransferFiles_proofs.tla
tlapm Hotspot_proofs.tla
tlapm ContainerStream_proofs.tla
tlapm SequenceFolds.tla
tlapm Codecs_proofs.tla
```

## 1. Inventory

### Web service

**Upload pipeline** (`api.py`).  State: `transfers`, `operations`,
`reservations`, `client_uploads`, the semaphore `upload_slots`, the executor
`compression_executor`, and `operation_lock` around the first three.  Operations:
`_reserve`, `_receive_upload`, `_start_operation`, `_run_compression`,
`_compress_upload`, `_register_transfer`, cancel, `_purge_expired`, and the
endpoints that combine them: `/api/compress[/stream]` (in the background),
`/api/transfers` (synchronous, two turns in the executor), `/api/archives`
(import), `/api/decompress` (streamed back), `/api/sessions/{id}/send`.
Who runs: coroutines of one event loop, `MAX_CONCURRENT_COMPRESSIONS` compression
threads, default-pool threads (archive imports, the purge loop).
Hard: reservations cross coroutine and thread boundaries; limits are tested at
admission and again at registration; cancel is an event and a status set in two
steps.  Correct when: limits are never exceeded and never wear out, what an
operation reports is what happened, every admitted job is resolved once.

**Transfer files** (`api.py`, `STORAGE_DIR`).  State: `upload-*.tmp`, `*.part`,
`*.fcmp`, `*.orig`.  Written by uploads and compressions, renamed at registration,
unlinked by the purge outside the lock, judged at start-up by
`_cleanup_partial_files` and `_load_persisted_transfers`.  Hard: crashes between
any two of these steps, a download that opens a file after the purge.  Correct
when: after a restart exactly complete containers are listed, none that the
service had expired comes back alive, and no file stays that no one owns.

**Free disk space** (`api.py`).  `_reserve` holds the declared size against the
free space minus what others were promised; `_UploadWriter` checks each flush.
Hard: undeclared and compressed sizes, many writers, the archive written next to
the upload.  Correct when: `MIN_FREE_BYTES` stays free.

**Rate limiter** (`GuardsMiddleware`).  One count and window start per address
and bucket; a sweep when the table is large.  Correct when: no more than the
limit passes in one window and an open window is never forgotten.

**Sessions** (`api.py`).  A table of `TransferClient`s used by concurrent
requests.  Correct when: an answer reaches the request it belongs to.

**Activity feed** (`web/activity.py`): live uploads and a sink for finished
actions.  **Hotspot endpoints** (`web/hotspot.py`): handlers over
`HotspotService`.  **Server** (`web/server.py`): start-up only.

### Relay (`transfer/`)

State: `_users`, an inbox per registered name; a connection is one coroutine.
Requests `register`, `send`, `list`, `receive`, each with an await between its
parts; 30 s timeouts on both sides.  Hard: a recipient that leaves while a frame
arrives, an inbox discarded with its connection, a late answer read by the next
request.  Correct when: a file acknowledged to its sender reaches the recipient
or its loss is the documented one, in order, and no coroutine dies of a missing
name.

### Hotspot monitor (`hotspot/`)

State: the poller's `current` stations and `identity` leases, four SQLite tables,
the nftables table of blocked addresses.  `poll` diffs stations under a lock and
writes events and sessions; `block` and `unblock` run in worker threads without
it; `restore_firewall` at start.  Hard: two handlers on the block list, a
failure or crash between nftables and SQLite, or between events and sessions.
Correct when: stored list and table agree once no handler runs, and the journal
alternates connects and disconnects of a device.

### Container, codecs, files

`container/format.py`: `pack_stream`, `read_info`, `iter_decompress`, `_ordered`
(blocks in flight in the process pool of `parallel.py`).  Correct when: what is
unpacked is what was packed, in order, with bounded memory, and the last block is
released only after the checksum.  `algorithms/` and `_speedups.c`: Huffman, LZW,
RLE, stored; correct when decoding inverts encoding at every limit.
`recommend.py`: sample offsets and choice.  `service.py`: atomic replacement of a
file.

### Clients and the rest

`frontend/src/api.ts` retries uploads, `App.tsx` polls operations.  The GUI, the
command lines, deployment files, benchmarks, network discovery and static files
hold no protocol state and are not modelled.

### How the parts interact

The endpoints call the pipeline, the pipeline calls `pack_stream` and
`recommend_file`, which call the codecs through the process pool.  Uploads and
compressions report to the activity feed, whose sink is the hotspot service's
writer thread.  Sessions and the GUI call the relay's client.  Browser and
service share nothing but requests, which may be repeated or lost.

## 2. Modules

In order of importance; constants are parameters, an operation is an action, and
no module that theorems are about has a RECURSIVE operator.

| module | what | runs | theorems |
|---|---|---|---|
| `JobService` | abstract: what the service promises about a job | through the refinement | |
| `UploadPipeline`, `UploadPipeline_proofs` | admission, uploads, operations, registration, expiry | safety, liveness, polling | types, room, counters, quota, outcomes, statuses, refinement |
| `Relay`, `Relay_proofs` | server coroutines, client, streams, timeouts | safety, liveness, the recipient that left | types, owners, order, capacity, what was acknowledged and sent |
| `TransferFiles`, `TransferFiles_proofs` | storage directory, purge, downloads, crash, restart, free space | recovery, disk | owners of files, downloads, survival, purged transfers |
| `Hotspot`, `Hotspot_proofs` | block list and nftables; poller, journal and sessions | service, overlap | types, requests that are alone, enforcement, journal |
| `ContainerStream`, `ContainerStream_proofs` | block stream through the process pool, reader, checksum, the atomic writer and power failures | streams | types, order, destination, restored data, last block, header check |
| `Codecs`, `Codecs_proofs` | RLE, LZW, Huffman, the block's pre-check and fallback, sampling | inputs | round trips, block, what an LZW stream means, canonical and optimal Huffman codes, sample |
| `Induction` | lemmas the proofs share: induction, running totals, sums over finite sets | | |
| `SequenceFolds` | lemmas about `FoldLeft`, `FlattenSeq` and maps of sequences | | |

`TransferFiles` and `UploadPipeline` describe the same jobs, one by their files
and one by their limits.  They are not composed: in `TransferFiles` a limit may
refuse at any time, so what it shows holds whatever the pipeline decides, and
`UploadPipeline` never reads a file.  `ContainerStream` uses blocks as tags, and
`Codecs` shows that a block is restored; the two meet in `EncodeBlock`, whose
`stored` fallback is `Compressible` there.  What could follow is in section 10.

## 3. The pipeline

### State

| variable | code |
|---|---|
| `now` | `time.time()`, stops at the bound `MaxTime` |
| `phase[j]` | the program counter of whatever serves job `j` |
| `kind[j]`, `client[j]` | endpoint and address of the request, fixed at the start |
| `reservations` | `reservations`; a token is the job it was made for, its bytes belong to the disk check and are left out |
| `upload_slots`, `client_uploads` | the semaphore's permits, the counters per address |
| `queue` | tasks in `compression_executor`, FIFO |
| `operations`, `status`, `op_created`, `cancel_event` | `operations` and the fields of `CompressionOperation` |
| `marking` | cancel handlers between `cancel_event.set()` and the lock |
| `transfers`, `created`, `originals` | `transfers`, `created_at`, whether `original_path` is set |
| `published` | history: every job ever registered |

### Actions

`phase` goes `idle` → `waiting` (admitted, waits for a slot) → `receiving` and
then by endpoint:

* compress: `queued` → `processing` → `packed` → `registering` → `registered`,
  or `aborting` (cancelled) or `failing`; → `finishing` (status set) → `done`;
* transfer: `queued_recommend` → `recommending` → `recommended` → `queued` →
  `processing` → `packed` → `registering` → `registered` or `failing` → `done`;
* archive: `reading` → `packed` → `registering` → `registered` or `failing` → `done`;
* session: `reading` → `done` or `failing`; decompress: → `done`.

An action is what one party does between two points where others can act.  The
event loop is single-threaded, so everything between two awaits of one
coroutine is one action as far as other coroutines are concerned.  Threads can
cut into such a stretch except under `operation_lock`; where they do, the pieces
either commute or are separate actions:

* `Reserve`: the counter test, `_purge_expired`, the checks and the insertion
  run without an await.  Purge and checks are two holds of the lock; a thread
  may register a transfer or release a reservation between them.  Nothing is
  carried from the first hold to the second, so the purge alone is `Purge`, and
  the checks use the state at the second.
* `PurgeBeforeRegister` and `Register` / `RefuseTransfer` are separate for the same
  reason: here the two holds are in a thread, and others do get in between.
* `RequestCancel` and `MarkCancelling` are separate because the event is set
  outside the lock.
* `StartOperation`, `SubmitRecommend`, `ReadArchive`, `StartDecompress` include
  `LeaveSlot`: between the `finally` blocks of `_receive_upload` and the caller's
  next step there is no await.
* `SlotTimeout` and `UploadFails` are the exception paths with the `finally` and
  `except` blocks they run, and these differ: the semaphore is released only if
  it was acquired.

A refused request (429, 503, 507) leaves no trace but the purge it made, so it is
no action.  A cancel handler that finds the event set would repeat the status
change of the first one and is left out.  The verification of a transfer occupies
a worker for a finite time, as a slower compression would, and changes nothing.
The server's shutdown, which cancels coroutines, is not modelled.

A `finally` block that unlinks files and releases the reservation is one step that
cannot fail.  In the code the unlinks come first (`api.py:533`, 999, 1015, 1119): if
one raises, `_release` is not reached and the reservation stays until the service
ends.  `EveryReservationEnds` and `RoomForEveryJob` do not cover that.

Left out: `_reserve`'s and `_UploadWriter`'s free-space tests (a refusal, or a cause
of `UploadFails`; they are in `TransferFiles`), files, progress, speed and
metrics.  Container sizes are constants per job: the code learns them late, and
no action reads `PackedSize` before the container exists.

### Abstract specification

`JobService` knows four states of a job: absent, pending, available, ended.  A
job is accepted only if pending and available jobs leave room; it is published or
ended once; an available job may expire.  `Publish` has no guard on the number of
transfers: implementing it means that registration never needs the limit.
`UploadPipeline` maps its state to it by `JobState`: a listed transfer is
available, a published one that is gone has ended, a reservation is pending.

### Properties

| property | what it says |
|---|---|
| `RoomForEveryJob` | transfers and reservations together stay within `MAX_TRANSFERS`, and a job about to be registered finds a place: what the docstring of `_reserve` promises |
| `UploadCountsExact` | the semaphore's permits and the counters per address are exactly the uploads in flight |
| `QuotaKept` | listed containers and kept originals fit `MAX_TRANSFER_BYTES`, though jobs are admitted before their size is known |
| `OutcomeMatchesStore` | completed means registered; cancelled or error means never listed; cancelled only if asked for |
| `StatusNeverGoesBack` | an action property: finished statuses are final and cancelling never becomes processing |
| `ImplementsService` | the refinement of `JobService` |
| `EveryReservationEnds` | every reservation is given back |
| `EveryOperationFinishes` | every queued operation gets a final status |

### Runs and bounds

`pipeline_safety`: three jobs of any of the five endpoints (symmetric), two addresses,
two places, quota 3 with containers of 1 and originals of 2, two pending jobs, one
upload slot, one upload per address, one worker, TTL 0, `MaxTime` 1.
Three jobs against two places is the smallest instance where admission, a
purge and a registration compete; quota 3 fits one original but not two; one
slot and one worker make waiting and queueing happen; one tick past a TTL of 0
expires whatever was listed before it.  About 1.3 million states.
`pipeline_liveness`: two jobs, one address with two uploads allowed, the same
resources; about 20 thousand states, no symmetry.
`pipeline_polling`: TTL 1 and `MaxTime` 3, so that an operation can outlive the TTL.

In each of them the service comes to rest only in `Quiet`, where no job is in the
pipeline: any other rest would be reported as a deadlock.

### Fairness

Weak fairness of each job's `UploadStep`, `WorkStep` and `MarkCancelling`.  An upload
that sends nothing is cut after `UPLOAD_IDLE_TIMEOUT_SECONDS`, a wait for a slot
after `UPLOAD_SLOT_WAIT_SECONDS`, so a step of each waiting or receiving upload
comes; threads run, blocks are finitely many, and the executor's queue is FIFO.
Weak fairness is enough although a worker is contended: in FIFO order the head
of the queue stays enabled until it is taken.  Nothing is assumed of clients'
requests and cancels, nor of the clock.

### What disagrees with the documentation

README.md:447 says the status of an operation gives the `transferId` once it is
complete.  `CompletedOperationIsListed` fails: an operation's age counts
from the moment it was queued (`api.py:165`), so one that waited and ran longer than
the TTL is dropped by the first purge after it completes, and its client's
next poll gets 404 while the transfer is there.

## 4. The relay

### State

`Relay` has a coroutine of `TransferServer` and a `TransferClient` for each connection
and a sequence of messages in each direction between them.

| variable | code |
|---|---|
| `handler[c]` | where `_handle_client` stands: waiting for the registration, for a request (`idle`), for a container (`container`, or `skipping` when the recipient is unknown), about to write one (`delivering`), waiting for its acknowledgement, or over |
| `registered` | the coroutines whose local `registered` is true |
| `users`, `inbox` | the keys of `_users` and the `containers` of each `_Inbox`; a name that is not a key has the empty sequence |
| `recipient[c]`, `holding[c]` | the coroutine's locals `recipient` and `container` |
| `caller[c]` | where the client's current call stands |
| `calls`, `outgoing`, `attempted` | calls made (bounded), the argument of the last `send`, files used up: each is sent once, which lets the properties tell them apart |
| `to_server`, `to_client` | messages written and not yet read |
| `accepted`, `confirmed`, `removed`, `received`, `late`, `crashed` | history for the properties, read by no action |

### Actions

An action goes from one await to the next: it takes a message and does all the
coroutine does until it waits again.  A write is one with the message that caused it, except between
`file` and its container, where `send_message` and `send_frame` are two awaits.
Nothing else touches the local state of a coroutine, and what it shares, `_users`,
is read and written between the awaits only; the lookup before a container and
the one after it are in different actions, as in the code.  A test and the
`pop` of an acknowledged container are likewise separate.

* `Ends` is the `finally` block.  Every way out of the coroutine runs it:
  `RefuseName`, `RecipientGone` (the `KeyError`), `Garbled` (`CompressionError`),
  `Disconnected`, `HandlerTimeout`.
* A client's call is an action for the request, `WriteContainer` for the frame of a `send`, and
  one for each answer it reads.  `Close` may come at any point, also in the middle of a call.
* `CallTimeout` leaves the connection open, as the client does: the answer stays
  in the stream and the next call reads it.  Only `connect` closes.
* `EndOfStream` is the failure of a call on a connection the server has closed.

A message is a record; JSON objects and containers are told apart as
`receive_message` does, by failing to decode.  A frame arrives whole: a timeout
between its length and its body is not modelled.  `unpack` is membership in
`Containers`.  The clients are the repository's own: they register a valid name
first.  Two requests of the web service that use one `TransferClient` at the
same time are not modelled.

### Properties

| property | what it says |
|---|---|
| `OneHandlerPerInbox` | every name in the table belongs to exactly one live coroutine, which holds the flag; an inbox without an owner is empty |
| `CapacityKept` | coroutines that found the recipient with room, and whose containers arrive in any order, do not fill its inbox beyond `MAX_INBOX_FILES` or `MAX_INBOX_BYTES` |
| `LeavesOnlyWhenSent` | an action property: while its owner stays, an inbox changes by a deposit at its end or by losing its first container, the one that was written and awaits its acknowledgement |
| `AcknowledgedMeansReceived` | what was removed was returned by `receive()`, for a client that never gave a call up |
| `ReceivedOnce` | such a client is never sent a container it has received, whatever was deposited while the relay waited for its acknowledgement |
| `SentMeansAccepted` | `send()` returns only if the container entered an inbox, for such a client |
| `EveryCallIsAnswered` | without any timeout a waiting call is answered or its connection ends, for such a client |

`late` is in four of them because the code guarantees nothing more: after a
timeout the client reads each answer one call late.

### Runs and bounds

`relay_safety`: `ann` is claimed by two connections, the first of which makes two calls and
may time out; `bob` makes two calls as well.  bob sends three containers to ann, and ann one to
herself, so two coroutines are past the test of the recipient when their containers
arrive.  Limits are two containers and two bytes: two small containers fill an
inbox by number and a big one by bytes.  This is the smallest instance with a
name that is refused, given up and taken again while a container is on its way
to it, and with two deposits that compete for the last place.  About 877 thousand states.
`relay_liveness`: two clients with two calls each, to either name, with a
frame that is no container; no symmetry; about 195 thousand states.
`relay_recipient_left` is the safety instance.

Deadlock is checked: rest is allowed only in `Quiet`, with every client between
calls or gone and every message read.

### Fairness

Weak fairness of each connection's `HandlerStep` and `ReadStep`: the event loop resumes
a coroutine whose message arrived, and a client reads what came.  Calls,
disconnects and timeouts are never obliged to happen, so `EveryCallIsAnswered`
does not lean on the 30-second timeouts.

### What disagrees with tests and documentation

`SenderIsAnswered`.  `test_transfer.py:41-49` expects a sender whose recipient is not
connected to get an error and to go on.  If the recipient leaves while the container is
awaited, `server.py:73` raises a `KeyError` that no clause catches, and the sender loses its
connection and its own inbox.

## 5. Transfer files

`TransferFiles` is the storage directory: which files an upload, an archive and a
transfer have on disk, and what a crash between any two file operations leaves to
the next start.

### State

| variable | code |
|---|---|
| `job[i]`, `kind[i]` | where the request or operation of upload `i` stands; its endpoint |
| `tmp[i]`, `part[i]` | units of `upload-*.tmp` and of the archive `<id>.part` on disk |
| `fcmp[i]`, `orig[i]` | `<id>.fcmp` and `<id>.orig`: none, whole, or torn by a power failure |
| `synced` | files whose data were fsynced: `_compress_upload` does it for an upload it keeps |
| `old` | containers whose `st_mtime` is a TTL ago, which is what a restart looks at |
| `transfers[i]`, `expired` | the dictionary's entry and whether `original_path` is set; entries older than the TTL |
| `doomed` | paths that `_purge_expired` collected under the lock and has still to unlink |
| `dl` | one download: asked, found, opened, ended; whether the archive itself, the kept original or the restored data are sent |
| `up`, `crashes` | the process |
| `purged`, `done`, `faults`, `damaged` | history for the properties, read by no action; `damaged` holds the containers a power failure tore or a start could not read |

### Actions

* An upload goes `idle` → `receiving` and, by endpoint, → `packing` →
  `registering` → `moved` → `cleaning` → `completed`, or → `checking` → `answering`
  → `completed`; the way out is `failing` → `failed`, or `failed` at once where
  only the upload is there to remove.
* `Admit`, `Flush`: the two tests of free space.  `WritePart`: the archive, which is
  not tested; `DiskFull` is its `OSError`.
* `MoveContainer` and `Publish`: the two renames and the entry; `MoveOriginalFails`
  is the second rename failing.  A failing first rename is one of the causes of `JobFails`.
* `PurgeList` is part of every action that calls `_purge_expired`; `Unlink` and
  `UnlinkFails` are what follows outside the lock.
* `AskDownload`, `FindTransfer`, `OpenFile`, `EndDownload`: purge, lookup, and the
  opening of the file when the response is sent, with anything in between.  A restored
  container is compared with its checksum and cut off when it differs; an original and,
  with `?compressed=true`, the archive are sent as they are.
* `Crash` ends every thread and may tear what was not synced; `Restart` is
  `_cleanup_partial_files` and `_load_persisted_transfers`.  Any container may be one that
  cannot be read: `api.py:259` removes it on an `OSError` as on a damaged structure.  A torn one
  may pass, because `read_info` looks at the structure only.

A process that dies and a machine that loses power are one action: a process's
death is the case where nothing is torn.  A rename that returned is taken as durable.

### Properties

| property | what it says |
|---|---|
| `FilesHaveOwners` | every file on disk has a job, a transfer or a purge that will remove it; failed file operations and responses that never started are the exceptions |
| `DeliveredIsIntact` | an original, kept or restored, that a client receives to the end is intact, though a kept one is sent without a checksum; an archive itself may be torn |
| `GoneOnlyWhenExpired` | a download that found its transfer misses the file only if the transfer expired meanwhile |
| `CompletedSurvives` | until it expires, a completed transfer is listed by a running server and has its whole container, unless a power failure tore it or a start could not read it |
| `PurgedIsNeverServed` | a purged transfer is never found again, also when the server died before its files were unlinked |
| `FilesGo` | files of expired transfers and temporary files are removed at last, however often the server dies |

### Runs and bounds

`files_recovery`: two uploads of any endpoint, one of undeclared length, on a disk
that one of them fills; one crash at any point.  Nothing in the code relates more
than two uploads except free space, and a second crash finds only what the first
start left: all temporary files gone and every file listed or removed.  About
443 thousand states.
`files_disk`: two compressions of two units each, on a disk with room for either of
them with its archive.

### Fairness

`WF(JobStep(i))`: bodies arrive or break off, threads go on.  `WF(Housekeeping)`:
a listed transfer whose container is a TTL old expires, the purge loop runs each minute,
its unlinks follow, and a server that died is started again.  Crashes, failures and requests
are never obliged to happen.

### Observations

* If the second rename fails, the container stays on disk unlisted, and the next start lists
  it although its operation ended in error.
* A decompression whose client left before the first byte keeps its upload on disk until the
  next start: the generator that would remove it was never entered.
* The length of a gzip body is tested as encoded.
* Containers are not fsynced.  One whose blocks a power failure tore is listed again when its
  structure is intact, and `?compressed=true` sends it to the end.
* One failing read at start removes an intact container (`api.py:259`).

### What disagrees with the documentation

README.md:353 says space is reserved when an upload starts, so that parallel uploads
cannot fill the disk together.  `NoJobFillsDisk` fails: the reservation is for the
upload, and the archive next to it is neither reserved nor tested.

## 6. The hotspot

`Hotspot` has the two protocols of `hotspot/service.py`: block requests, and the
poller with its journal.  They share the process and its crashes.

### State

| variable | code |
|---|---|
| `table`, `stored` | the set `blocked` in nftables, the SQLite table `blocked` |
| `firewallError` | `firewall_error` is set |
| `request[h]` | a worker thread in `block` or `unblock`: where it stands, its device, the list it read, and (history) whether it has had the service for itself |
| `ap` | what `iw station dump` would say: the age of each connection |
| `current`, `sessions`, `events` | the poller's stations, the SQLite tables `sessions` and `events` |
| `poll` | a running `poll`, which holds the lock: its dump and the events still to log |
| `up`, `inputs` | the process; a bound on requests, stations and faults |
| `unsettled`, `cut` | history: requests of this run overlapped, timed out or failed half-way; a poll was cut short |

### Actions

* A request: `Begin` (reads the list), `Apply` (rewrites the table), `Store` (the row and
  `firewall_error`), `Kick`, `Answer`.  `ApplyFails`, `ApplyTimesOut` (nft was killed after
  its script committed) and `StoreFails` are the exceptions.
* A poll: `BeginPoll` (dump and `diff_stations`), `LogEvent` for each event, which commits
  on its own, then `SavePoll` or `SkipSave`; `LogFails` and `SaveFails` are the exceptions.
  A poll that would change nothing is no step.
* `Crash`, `Reboot` (the table is gone and so are the stations), `Stop` (`close`), `Start` (sessions
  read back, `restore_firewall`), `StartUnrestored` (nft refuses).

### Properties

| property | what it says |
|---|---|
| `RequestAloneSettles` | a request without company leaves table and list equal, whatever happened before |
| `NoErrorMeansEnforced` | with no error on the panel a listed device is blocked: after a reboot, a crash between the two writes or a failed restore the error is shown until a request rewrote the table; requests of this run that overlapped, timed out or failed half-way are excepted |
| `JournalIsConsistent` | each device's journal alternates and agrees with what is remembered, through restarts |
| `SavedSessionEnds` | a saved session whose device is gone is journalled as disconnected |

### Runs, bounds, fairness

`hotspot_service`: two devices, two handlers, ages 1 and 2, all five kinds of fault,
four inputs.  A reconnection is an age that goes from 2 to 1; four inputs let two
requests overlap and a fault and a restart follow, or a device join, be saved, and leave while
the service is down.  About 103 thousand states.  It may stop when its
inputs are used up, hence `CHECK_DEADLOCK FALSE`.
`hotspot_overlap`: two inputs and no fault.

`WF(Poll)` and `WF(Start)`: the poller runs every few seconds and the service is
restarted.  `SF(SavePoll)`: polls without a change skip the save, but the counter
`polls_since_flush` makes every tenth one do it.

### What disagrees with the documentation

The comment at `service.py:137` says the stored list never claims a block that is
not there.  `ListedIsEnforced` fails: two requests in two worker threads read the
list before either row is written, and the second rewrite of the table drops the
first one's device.

## 7. The block stream

`ContainerStream` packs a source, publishes the container, lets it be changed in one way,
and reads it.

`source`, `archive` and `dest` are the file, the container and the rename's target, at first `Previous`
(an older file, or none); `synced` says whether the container's data were fsynced;
`pending` and `feeding` are `_ordered`'s deque and iterator; `pool` is the process pool;
`digest` is what the running SHA-256 was fed; `left` and `held` are the reader's
`remaining` and its block not yet released; `out` is what the consumer has.  A
block is a tag, and a checksum is the sequence it was computed from.

`ReadChunk`/`ReadBlock` submit a job, `Finish` lets a worker complete any running one,
`WriteBlock`/`TakeBlock` take the oldest; `Seal` ends a packing and `Verify` a reading.
`Sync` and `Rename` are the end of `atomic_output_path`, `WriteFails` its exceptions, and `PowerFails`
tears what was not synced and may undo the rename, whose directory nobody syncs.  `Cancelled`, `PoolIsBroken`, `ConsumerStops`, `SourceChanged`,
`BadBlock`, `BadBody`, `BadHeader` give up.  `Changed` lists what may have happened to a container: cut,
extended, an item replaced, removed or exchanged, a field changed.  `read_info`
is the operator `InfoOk`, compared with what the reader does.

| property | what it says |
|---|---|
| `PackedInOrder` | written, then in flight, is what the checksum was fed; no more than the depth is in flight |
| `DestinationWhole` | the destination is the old file, or a valid container with the checksum of its blocks, also when a step of the writer failed or the power did; a writer that fails leaves the old file |
| `RestoredIsOriginal` | a reader that ends well has the packed data; an unchanged archive is not refused |
| `LastBlockWithheld` | before the checksum was compared nobody was given all of the data |
| `InfoAgreesWithDecoder` | the header-only check and the decoder accept the same structures |
| `EveryStreamEnds` | no future is waited for that nobody will finish, also when a worker dies |

`container_streams`: up to five blocks of two kinds (one the codec shrinks), two workers and
so a depth of four: the deque fills and blocks wait in front of it.  About
447 thousand states.  Fairness: the operation's thread goes on while it can, and the
workers finish what they were given.  Containers of version 1 are only read, as in the code.

## 8. Codecs

`Codecs` has no protocol: its states are inputs, its steps lengthen one, and its
invariants compare operators.  Encoder and decoder are translated separately, with
the formats' limits as constants (three byte values, last LZW code 5, runs of 3, bytes of 2
bits) so that inputs of seven bytes fill a dictionary and split runs.

| property | what it says |
|---|---|
| `RoundTrip` | each codec restores each input, and writes only numbers its fields can hold |
| `BlockPassesReader` | what `_encode_block` writes, also after its look at the block's start, is restored and has the sizes the reader demands |
| `LzwDecodesMeaning` | on every stream, also those no encoder writes, the decoder restores what the codes mean or refuses |
| `HuffmanIsCanonical` | an accepted stream is the only one for its table and data; with one symbol in the table its bits are counted and the padding is empty |
| `HuffmanIsOptimal` | no code lengths that satisfy Kraft's inequality cost fewer bits than those built |
| `SampleSpreads` | the sample has its full length, lies in the file without overlap, from its start to its end, and skips nowhere more than an equal share of what it does not read |

`codecs_inputs`: every input of up to seven bytes; every LZW stream of up to five codes
(`MaxCodes`) and every Huffman stream of up to three payload bytes (`MaxPayload`) with each table of
counts 0, 1, 2 and 4; files of up to 40 bytes with a sample of 8 in four chunks.  About 18
thousand states; inputs end at their bound, hence `CHECK_DEADLOCK FALSE`.

`_encode_block` stores a block without trying it when its start looks random and does not shrink
(`LooksIncompressible`).  The start is `ProbeSize` bytes, the estimate takes every
`Stride`th of them, and the entropy, a sum of logarithms, is compared as a product of
integer powers.  With 3, 2 and an entropy of 2 the run has blocks that RLE or LZW
would shrink and that are stored because of their start.
The sizes are scaled too: a record takes two units, a code one, a Huffman block its
bytes and one unit for each symbol, so that each codec wins somewhere; the fixed metadata of
RLE and LZW blocks (an empty object) count as none.

A Huffman table with one symbol is special in the decoder: it counts the bits and repeats the symbol,
and of the last byte only the padding is compared, so several payloads stand for the same
data.  `HuffmanIsCanonical` says of them what `huffman.py:88-92` tests and no more.

## 9. Proofs

`Induction` holds what several proofs need and the library does not give in a form the
provers can use: its induction theorems take an operator as a parameter.  Here a claim is
a *set*: `SetInduction` says that a set with 0 and with successors holds every number
(from the well-foundedness of `<`), and a proof by induction defines the set of numbers for which
its claim holds.  On it rest the running totals of a sequence (`Totals`: they exist,
grow, agree on a common start, lose the first number) and sums over the subsets
of a finite set (`SubsetSums`: they exist, are the same in any order, grow with a
member, shrink with the set and depend on the members' weights only).  The
`CHOOSE` behind a fold picks one of the functions these lemmas describe.
For arguments about whole trees a sum is a value: `SumOver(W, A)`, with lemmas that
take a member out, put one in, join two sets, add two weightings and rename the members.

`UploadPipeline_proofs` proves for every finite set of jobs, any clients and sizes
and all natural limits (the `ASSUME`s of `UploadPipeline`, evaluated by TLC in
each run):

* `TypeCorrect`: `Spec => []TypeOK`.
* `RoomTheorem`: `Spec => []RoomForEveryJob`.  It needs `BookingInv` (a job holds a
  reservation exactly between admission and its last block): without it a job
  could be registered that no longer has a place.  With it, registering moves a
  job from reservations to transfers and leaves their union alone; admission
  adds one job to a union that the code's count bounds (`BookedBound`).
* `CountsTheorem`: `Spec => []UploadCountsExact`.  `CountsInv` adds nothing but a form the
  prover can use: a step moves at most one job into or out of two finite sets
  (`CountsMove`), and a set that gains or loses one element changes its
  cardinality by one (`CountOne`, from the library's theorems on finite sets).
* `QuotaTheorem`: `Spec => []QuotaKept`.  `QuotaInv` is the sum of the listed transfers' bytes,
  as `SubsetSums` has it, with `originals \subseteq published`: without the second a registration
  could find its original counted already.  `StoredIsSum` identifies the sum that
  `StoredBytes` computes by `MapThenSumSet`; a registration adds one weight (`QuotaRegister`), a
  purge leaves a subset (`QuotaFewer`), and no other step changes what is listed.
* `OutcomeTheorem` and `StatusTheorem`, from `StatusInv` (which statuses go with a
  position of the thread: cancelling may overlay queued and processing, an
  abort has a cancel request behind it) and `PublishInv` (a job is published at
  its registration and not before).
* `RefinementTheorem`: `Spec => Service!Spec`.  Each step is a step of the abstract
  service or a stutter.  The interesting case is `AdmissionStep`: the places the
  abstract service sees occupied after the purge are among those the code counts.

The inductive invariant is `IInv`, the conjunction of the parts above but `CountsInv` and
`QuotaInv`, which are inductive beside it; each has one
lemma for the initial states and one for the steps, with a case per action.

`Relay_proofs` proves for every set of connections, names and files and all limits:

* `OwnerTheorem`: `Spec => []OneHandlerPerInbox`, and `OrderTheorem`:
  `Spec => LeavesOnlyWhenSent`.  Both follow from one invariant: `OneHandlerPerInbox` itself;
  `HoldingInv`, a container stays first in its inbox from its announcement to
  its acknowledgement, because only its owner removes and everyone else appends;
  and `CallerInv`, an unopened connection has no coroutine.  Without `HoldingInv` the
  `pop(0)` of an acknowledgement could take a container other than the one sent, or
  find none; without the uniqueness in `OneHandlerPerInbox` a second coroutine could
  pop in between.
* `CapacityTheorem`: `Spec => []CapacityKept`.  One step changes one inbox by one container
  (`OneInbox`), and `BytesFacts` says what that does to the sum of its sizes: the fold of
  `Bytes` is a running total.  The coroutine tests room and appends in one step, so the
  order of arrivals does not matter.
* `AcknowledgedTheorem`, `SentTheorem` and `TypesHold`, from `TInv`.  What the client and the server
  have in hand and what is under way between them has to fit: `Conversation(c)`
  lists the phases of a connection (unopened, registering, asking, transferring, announced,
  delivered, replied, gone), each with the messages that may be in either stream, and
  `Promises(c)` the two properties.  It is stated for clients that never gave a call up;
  the others may read a late answer as that of their next request, so the properties
  except them.

`TransferFiles_proofs` proves for every set of uploads, sizes, disk and number of crashes:

* `OwnersTheorem` (`FilesHaveOwners`), `ListedTheorem` (`ListedHasItsFiles`: a listed transfer
  has its container, and the original it announces), `GoneTheorem`
  (`GoneOnlyWhenExpired`), `IntactTheorem` (`DeliveredIsIntact`), `SurvivalTheorem`
  (`CompletedSurvives`) and `PurgedTheorem` (`PurgedIsNeverServed`).
* None is inductive.  `UnlistedInv` and `UnplacedInv` say what a job may
  have in memory and on disk before each rename: without them a registration could revive
  what is being unlinked.  `ListedInv` keeps the files of listed transfers out of `doomed`.
  `ExpiredInv` is the heart of `PurgedTheorem`: a purged transfer that a restart lists
  again has an old container, so it is listed as expired, and the purge before
  each lookup removes it; `DownloadInv` carries that from the purge to the lookup.
  `SurvivalInv`: a container about to be listed is whole, and a completed one stays so until it is
  damaged or purged, also while the server is down.
  `SyncedInv`: an original is synced before it is moved into place, and so is never torn.
  `DownInv`: a dead server has nothing in memory.
* `PurgeEffect`, `LocalEffect` and `PublishEffect` say once what the shared parts of
  actions do to a single upload; the steps cite them.

`Hotspot_proofs` proves for every set of devices and threads, any faults and inputs:

* `SettlesTheorem`: `Spec => []RequestAloneSettles`.  `CompanyInv`: a request that is alone is the only
  one.  `LonelyInv` follows it: the list it read is still the list, the
  table it wrote is still the table.
* `EnforcedTheorem`: `Spec => []NoErrorMeansEnforced`.  `CoverInv` is the property without the moment
  between the two writes of a request, which `LonelyInv` closes.  What a reboot, a crash or a
  failed restore leaves is covered by `firewallError` alone: a start either restores the table
  or sets it.
* `TypesHold` and `JournalTheorem`: `Spec => []JournalIsConsistent`.  `JInv` says of each device that
  its entries alternate (`Alternates`), that between polls the last one agrees with the saved
  sessions and these, while the service runs, with what the poller remembers
  (`Agrees`), and that during a poll the entry agrees with what the poll has still
  to log (`Logged`).  Without `Logged` the steps between the first entry of a
  poll and its end would break the agreement.

`ContainerStream_proofs` proves for every source, any number of blocks and workers, and
every order in which the pool finishes:

* `PackedInOrderTheorem`, `DestinationWholeTheorem`, `RestoredIsOriginalTheorem`,
  `LastBlockWithheldTheorem`, `InfoAgreesWithDecoderTheorem` and `TypesHold`, all from `InvariantHolds`.
  `SyncedInv`: a container that was renamed was synced before, so a power failure leaves it whole.
  `PackingInv`: the digest was fed the blocks written, then those in flight,
  in this order.  `PublishedInv`
  and `ArchiveInv`: a published container is whole, and a changed one differs from it in the
  one way `Changed` lists.  `ReadingInv`: what the reader took, has in
  flight and has left is the body, and `left` is the announced size less what
  it took, so that it never runs out with a block still to come; `ReleasedInv` keeps
  one block back until the checksum was compared.  `EndedInv` is the verdict.
  Lengths of the parts are running totals of `Induction`.

`SequenceFolds` does for sequences what `Induction` does for numbers.  `SeqInduction`: a set
with the empty sequence and with every extension of its members holds all sequences.
`FoldLeft` is a recursion over the subsets of the positions; the lemmas show that it has
a solution, which all agree on (`StepsExist`, `RunsAgree`), and that a fold over one element
more is one step more (`FoldedAppend`).  Likewise `FlattenSeq` grows by the last member
(`FlattenAppend`) and commutes with concatenation (`FlattenConcat`).

`Codecs_proofs` proves for inputs of every length, any alphabet and any limits (the
`ASSUME` of `Codecs`):

* `RoundTripTheorem`: `Spec => []RoundTrip`, from one lemma for each codec.  `RleRestores`: the runs of
  the data, and the records of each run, stand for the same bytes after every step.
  `LzwRestores`: encoder and decoder in lockstep (`Locked`).  The decoder, having read the
  codes written so far, lags behind by the phrase at hand and by the last entry
  (`Lags`); it catches up when it reads the phrase's code, also if that code names
  the entry it has yet to make, and when the dictionary is full both stop
  growing at once.  `HuffmanRestores`: the heap is one of nodes with disjoint symbols and
  prefix-free codes (`Heap`), each merge leaves one node fewer (`MergeEffect`, `HeapShrinks`), the last
  one has all the symbols that occur (`TreeIsOneNode`), and the decoder's
  walk along prefix-free codes yields what they encode (`WalkDecodes`).
* `MeaningTheorem`: `Spec => []LzwDecodesMeaning`, for streams nobody wrote too.  `Knows`: entry j is the phrase
  of code j and the first byte of the next one, and there are as many as codes
  before the last, or the dictionary is full.  The decoder refuses
  exactly the codes that name no earlier entry (`RefusesUnknown`), so it follows the stream or has
  given up (`FollowsStream`), and each step adds what the code means (`StepMeans`).  The phrases
  the recursion of `LzwMeaning` picks are unique (`MeaningIsUnique`), and the limit on the output is
  never met, because a phrase grows by at most one byte at a time.
* `CanonicalTheorem`: `Spec => []HuffmanIsCanonical`.  `Emitted`: the bits read are the codes of the
  output so far and the path since; an accepted stream ends on the root with
  an output as long as the table's total, and with padding that is zero.  With one symbol there is no
  walk (`Counted`).  Payloads are those of up to `MaxPayload` bytes, for any `MaxPayload`.
* `OptimalTheorem`: `Spec => []HuffmanIsOptimal`. The bits of a code are paid merge by merge:
  each merge lengthens the codes of all symbols below it by one bit (`JoinIsPaid`). `Within`
  is the claim that survives a merge: what was paid so far, with some levels the nodes still
  on the heap could take, costs no more than the lengths it is compared with
  (`MergeStaysWithin`; lengths up to `Symbols`, which no sensible code exceeds). The least
  weights can be given to two deepest nodes, because exchanging a heavier deep node with a
  lighter higher one never costs more (`ExchangeSaves`); a deepest node without a sibling
  can be raised (`AloneIsRaised`), because in units of the deepest level every other share
  is even, and an odd total below a power of two leaves one unit free. So the two lightest
  nodes are siblings of some cheapest code (`LightestAreSiblings`), and the merged node
  takes the level above them (`MergeSaves`). Without the exchange the claim is not
  inductive: the levels at hand may put the two nodes that are merged far apart.
* `BlockTheorem` (`BlockPassesReader`) rests on the round trips and on the comparison of sizes;
  `SampleTheorem` (`SampleSpreads`) is arithmetic about the chunks: their offsets rise by at least a chunk and
  at most a share of what is skipped (`Rises`), and their lengths add up to the sample's.

The states of `Codecs` are inputs, so an invariant is a fact about every input: `InputsHold` is all the
induction over steps there is, and the rest is induction over data.

Every invariant and every action property that a passing run checks is a theorem, but for one.
Model-checked only:

* `ReceivedOnce`, which would need the history of an inbox beside its contents;
* liveness (`EveryReservationEnds`, `EveryOperationFinishes`, `EveryCallIsAnswered`, `FilesGo`,
  `SavedSessionEnds`, `EveryStreamEnds`), which is out of this prover's reach.

## 10. Not modelled

* **Rate limiter**: a dozen lines between two awaits, without failures or interleavings.
* **Sessions' concurrent requests**: frames of two requests would interleave byte by byte;
  `Relay`'s messages are whole.
* **Activity feed**, **leases and `who()`**, labels, traffic counters: shown on the panel
  and read back by no decision.
* **Browser client**: to the service its retries are further jobs, which the pipeline admits
  in any number; what a page remembers is the page's.
* **Metrics, health page, discovery, static files, GUI, command lines, start-up, deployment**:
  presentation, pure input and output, or configuration.
* **Cancellation of coroutines at shutdown**: the process ends with it; what it
  leaves on disk is a crash's.
* **Directory fsync** in `TransferFiles`: its renames are taken as durable.  In `ContainerStream` a power failure
  may undo one.
* **An unlink that raises** before a reservation is released (section 3).
* **AUTO's choice** (`recommend.py:24-31`, 69-82): it takes the first codec whose sample
  is within 2 percent of the smallest, or none, and decides only what `pack_stream` is given; each codec is covered.
* **gzip inflation** and the wire format of numbers and JSON; `_speedups.c`, which repeats the
  Python codecs.
* **Composition of `TransferFiles` with `UploadPipeline`**: the product of both is beyond the
  time a check may take; each leaves the other's decisions open.
