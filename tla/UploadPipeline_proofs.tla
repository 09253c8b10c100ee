------------------------ MODULE UploadPipeline_proofs ------------------------
(***************************************************************************)
(* Proofs about UploadPipeline for every value of its constants: typing,   *)
(* the room every admitted job keeps until it is published, the agreement  *)
(* of an operation's outcome with the store, the order of statuses, the    *)
(* counters of uploads, the refinement of JobService and the quota.        *)
(***************************************************************************)
EXTENDS UploadPipeline, Induction

-----------------------------------------------------------------------------
(* The inductive invariant *)

\* A job is between admission and its finally block exactly while it holds a
\* reservation.
BookingInv ==
    \A j \in Jobs : j \in reservations <=> phase[j] \notin {"idle", "done"}

BeforeRegister == {"idle", "waiting", "receiving", "reading", "queued_recommend",
                   "recommending", "recommended", "queued", "processing", "packed",
                   "registering", "aborting", "failing"}

\* A job is published by its registration and not before.
PublishInv ==
    /\ transfers \subseteq published
    /\ \A j \in Jobs : phase[j] \in BeforeRegister => j \notin published
    /\ \A j \in Jobs : phase[j] = "registered" => j \in published

RoomInv == Cardinality(transfers \cup reservations) <= MAX_TRANSFERS

\* What the thread's position says about the status of a background operation.
StatusAt(p) ==
    CASE p \in {"idle", "waiting", "receiving"}   -> {"none"}
      [] p = "queued"                             -> {"queued", "cancelling"}
      [] p = "aborting"                           -> {"queued", "processing", "cancelling"}
      [] p \in {"processing", "packed", "registering", "registered", "failing"}
                                                  -> {"processing", "cancelling"}
      [] p = "finishing"                          -> {"completed", "cancelled", "error"}
      [] p = "done"                               -> {"none", "completed", "cancelled", "error"}
      [] OTHER                                    -> {}

StatusInv ==
    /\ marking \subseteq cancel_event
    /\ \A j \in Jobs :
        /\ kind[j] = "compress" => status[j] \in StatusAt(phase[j])
        /\ kind[j] # "compress" => status[j] = "none"
        /\ phase[j] = "aborting" => kind[j] = "compress" /\ j \in cancel_event
        /\ status[j] \in {"cancelling", "cancelled"} => j \in cancel_event

OutcomeInv ==
    \A j \in Jobs : /\ status[j] = "completed" => j \in published
                    /\ status[j] \in {"cancelled", "error"} => j \notin published

-----------------------------------------------------------------------------
(* Typing *)

\* The initial state and every step are well typed.
LEMMA TypeInit == Init => TypeOK
  BY LimitsAssumption DEF Init, TypeOK, Phases, Statuses

\* No handler, thread or purge step puts a variable outside its type.
LEMMA TypeStep == TypeOK /\ [Next]_vars => TypeOK'
<1> SUFFICES ASSUME TypeOK, [Next]_vars
             PROVE  TypeOK'
  OBVIOUS
<1> USE DEF TypeOK, Phases, Statuses, Goto, request_vars, upload_vars, cancel_vars, store_vars
<1>1. ASSUME NEW j \in Jobs, Reserve(j)
      PROVE  TypeOK'
  BY <1>1 DEF Reserve, PurgeExpired, LiveTransfers, LiveOperations
<1>2. ASSUME NEW j \in Jobs, AcquireSlot(j)
      PROVE  TypeOK'
  BY <1>2 DEF AcquireSlot
<1>3. ASSUME NEW j \in Jobs, SlotTimeout(j)
      PROVE  TypeOK'
  BY <1>3 DEF SlotTimeout, Release
<1>4. ASSUME NEW j \in Jobs, UploadFails(j)
      PROVE  TypeOK'
  BY <1>4 DEF UploadFails, LeaveSlot, Release
<1>5. ASSUME NEW j \in Jobs, StartOperation(j)
      PROVE  TypeOK'
  BY <1>5 DEF StartOperation, LeaveSlot
<1>6. ASSUME NEW j \in Jobs, SubmitRecommend(j)
      PROVE  TypeOK'
  BY <1>6 DEF SubmitRecommend, LeaveSlot
<1>7. ASSUME NEW j \in Jobs, ReadArchive(j)
      PROVE  TypeOK'
  BY <1>7 DEF ReadArchive, LeaveSlot
<1>8. ASSUME NEW j \in Jobs, StartDecompress(j)
      PROVE  TypeOK'
  BY <1>8 DEF StartDecompress, LeaveSlot, Release
<1>9. ASSUME NEW j \in Jobs, BeginCompression(j)
      PROVE  TypeOK'
  <2>1. queue' \in Seq(Jobs)
    BY <1>9 DEF BeginCompression, TakeTask
  <2>2. phase' \in [Jobs -> Phases] /\ status' \in [Jobs -> Statuses]
    <3>1. CASE j \in cancel_event
      BY <1>9, <3>1 DEF BeginCompression
    <3>2. CASE j \notin cancel_event
      BY <1>9, <3>2 DEF BeginCompression
    <3>3. QED
      BY <3>1, <3>2
  <2>3. QED
    BY <1>9, <2>1, <2>2 DEF BeginCompression
<1>10. ASSUME NEW j \in Jobs, BeginTurn(j)
      PROVE  TypeOK'
  BY <1>10 DEF BeginTurn, TakeTask
<1>11. ASSUME NEW j \in Jobs, SubmitTransfer(j)
      PROVE  TypeOK'
  BY <1>11 DEF SubmitTransfer
<1>12. ASSUME NEW j \in Jobs, ContainerReady(j)
      PROVE  TypeOK'
  BY <1>12 DEF ContainerReady
<1>13. ASSUME NEW j \in Jobs, ContainerFails(j)
      PROVE  TypeOK'
  BY <1>13 DEF ContainerFails
<1>14. ASSUME NEW j \in Jobs, PackCancelled(j)
      PROVE  TypeOK'
  BY <1>14 DEF PackCancelled
<1>15. ASSUME NEW j \in Jobs, PurgeBeforeRegister(j)
      PROVE  TypeOK'
  BY <1>15 DEF PurgeBeforeRegister, PurgeExpired, LiveTransfers, LiveOperations
<1>16. ASSUME NEW j \in Jobs, Register(j)
      PROVE  TypeOK'
  BY <1>16 DEF Register
<1>17. ASSUME NEW j \in Jobs, RefuseTransfer(j)
      PROVE  TypeOK'
  BY <1>17 DEF RefuseTransfer
<1>18. ASSUME NEW j \in Jobs, ReportOperation(j)
      PROVE  TypeOK'
  BY <1>18 DEF ReportOperation, Verdict
<1>19. ASSUME NEW j \in Jobs, ReleaseOperation(j)
      PROVE  TypeOK'
  BY <1>19 DEF ReleaseOperation, Release
<1>20. ASSUME NEW j \in Jobs, ReleaseRequest(j)
      PROVE  TypeOK'
  BY <1>20 DEF ReleaseRequest, Release
<1>21. ASSUME NEW j \in Jobs, RequestCancel(j)
      PROVE  TypeOK'
  BY <1>21 DEF RequestCancel
<1>22. ASSUME NEW j \in Jobs, MarkCancelling(j)
      PROVE  TypeOK'
  BY <1>22 DEF MarkCancelling
<1>23. ASSUME Purge
      PROVE  TypeOK'
  BY <1>23 DEF Purge, PurgeExpired, LiveTransfers, LiveOperations
<1>24. ASSUME Tick
      PROVE  TypeOK'
  BY <1>24 DEF Tick
<1>25. ASSUME Quiet
      PROVE  TypeOK'
  BY <1>25 DEF Quiet, vars
<1>26. CASE UNCHANGED vars
  BY <1>26 DEF vars
<1>27. ASSUME NEW j \in Jobs, Recommend(j)
      PROVE  TypeOK'
  BY <1>27 DEF Recommend
<1>28. QED
  BY <1>1, <1>2, <1>3, <1>4, <1>5, <1>6, <1>7, <1>8, <1>9, <1>10, <1>11,
     <1>12, <1>13, <1>14, <1>15, <1>16, <1>17, <1>18, <1>19, <1>20, <1>21,
     <1>22, <1>23, <1>24, <1>25, <1>26, <1>27 DEF Next, UploadStep, WorkStep

\* Every variable keeps its type in every behaviour of the pipeline.
THEOREM TypeCorrect == Spec => []TypeOK
<1>1. QED
  BY TypeInit, TypeStep, PTL DEF Spec

-----------------------------------------------------------------------------
(* Reservations and publication *)

\* Reservations are taken at admission and given back by the finally blocks.
LEMMA BookingInit == Init => BookingInv
  BY DEF Init, BookingInv

\* Every step that ends a job gives its reservation back, and no other does.
LEMMA BookingStep == TypeOK /\ BookingInv /\ [Next]_vars => BookingInv'
<1> SUFFICES ASSUME TypeOK /\ BookingInv, [Next]_vars
             PROVE  BookingInv'
  OBVIOUS
<1> USE DEF TypeOK, BookingInv, Goto, request_vars, upload_vars, cancel_vars, store_vars
<1>1. ASSUME NEW j \in Jobs, Reserve(j)
      PROVE  BookingInv'
  BY <1>1 DEF Reserve, PurgeExpired, LiveTransfers, LiveOperations
<1>2. ASSUME NEW j \in Jobs, AcquireSlot(j)
      PROVE  BookingInv'
  BY <1>2 DEF AcquireSlot
<1>3. ASSUME NEW j \in Jobs, SlotTimeout(j)
      PROVE  BookingInv'
  BY <1>3 DEF SlotTimeout, Release
<1>4. ASSUME NEW j \in Jobs, UploadFails(j)
      PROVE  BookingInv'
  BY <1>4 DEF UploadFails, LeaveSlot, Release
<1>5. ASSUME NEW j \in Jobs, StartOperation(j)
      PROVE  BookingInv'
  BY <1>5 DEF StartOperation, LeaveSlot
<1>6. ASSUME NEW j \in Jobs, SubmitRecommend(j)
      PROVE  BookingInv'
  BY <1>6 DEF SubmitRecommend, LeaveSlot
<1>7. ASSUME NEW j \in Jobs, ReadArchive(j)
      PROVE  BookingInv'
  BY <1>7 DEF ReadArchive, LeaveSlot
<1>8. ASSUME NEW j \in Jobs, StartDecompress(j)
      PROVE  BookingInv'
  BY <1>8 DEF StartDecompress, LeaveSlot, Release
<1>9. ASSUME NEW j \in Jobs, BeginCompression(j)
      PROVE  BookingInv'
  BY <1>9 DEF BeginCompression
<1>10. ASSUME NEW j \in Jobs, BeginTurn(j)
      PROVE  BookingInv'
  BY <1>10 DEF BeginTurn
<1>11. ASSUME NEW j \in Jobs, SubmitTransfer(j)
      PROVE  BookingInv'
  BY <1>11 DEF SubmitTransfer
<1>12. ASSUME NEW j \in Jobs, ContainerReady(j)
      PROVE  BookingInv'
  BY <1>12 DEF ContainerReady
<1>13. ASSUME NEW j \in Jobs, ContainerFails(j)
      PROVE  BookingInv'
  BY <1>13 DEF ContainerFails
<1>14. ASSUME NEW j \in Jobs, PackCancelled(j)
      PROVE  BookingInv'
  BY <1>14 DEF PackCancelled
<1>15. ASSUME NEW j \in Jobs, PurgeBeforeRegister(j)
      PROVE  BookingInv'
  BY <1>15 DEF PurgeBeforeRegister, PurgeExpired, LiveTransfers, LiveOperations
<1>16. ASSUME NEW j \in Jobs, Register(j)
      PROVE  BookingInv'
  BY <1>16 DEF Register
<1>17. ASSUME NEW j \in Jobs, RefuseTransfer(j)
      PROVE  BookingInv'
  BY <1>17 DEF RefuseTransfer
<1>18. ASSUME NEW j \in Jobs, ReportOperation(j)
      PROVE  BookingInv'
  BY <1>18 DEF ReportOperation, Verdict
<1>19. ASSUME NEW j \in Jobs, ReleaseOperation(j)
      PROVE  BookingInv'
  BY <1>19 DEF ReleaseOperation, Release
<1>20. ASSUME NEW j \in Jobs, ReleaseRequest(j)
      PROVE  BookingInv'
  BY <1>20 DEF ReleaseRequest, Release
<1>21. ASSUME NEW j \in Jobs, RequestCancel(j)
      PROVE  BookingInv'
  BY <1>21 DEF RequestCancel
<1>22. ASSUME NEW j \in Jobs, MarkCancelling(j)
      PROVE  BookingInv'
  BY <1>22 DEF MarkCancelling
<1>23. ASSUME Purge
      PROVE  BookingInv'
  BY <1>23 DEF Purge, PurgeExpired, LiveTransfers, LiveOperations
<1>24. ASSUME Tick
      PROVE  BookingInv'
  BY <1>24 DEF Tick
<1>25. ASSUME Quiet
      PROVE  BookingInv'
  BY <1>25 DEF Quiet, vars
<1>26. CASE UNCHANGED vars
  BY <1>26 DEF vars
<1>27. ASSUME NEW j \in Jobs, Recommend(j)
      PROVE  BookingInv'
  BY <1>27 DEF Recommend
<1>28. QED
  BY <1>1, <1>2, <1>3, <1>4, <1>5, <1>6, <1>7, <1>8, <1>9, <1>10, <1>11,
     <1>12, <1>13, <1>14, <1>15, <1>16, <1>17, <1>18, <1>19, <1>20, <1>21,
     <1>22, <1>23, <1>24, <1>25, <1>26, <1>27 DEF Next, UploadStep, WorkStep

\* Only registration publishes, and only jobs that had not been published.
LEMMA PublishInit == Init => PublishInv
  BY DEF Init, PublishInv, BeforeRegister

\* No step before registration lists a transfer, and a purge keeps the history.
LEMMA PublishStep == TypeOK /\ PublishInv /\ [Next]_vars => PublishInv'
<1> SUFFICES ASSUME TypeOK /\ PublishInv, [Next]_vars
             PROVE  PublishInv'
  OBVIOUS
<1> USE DEF TypeOK, PublishInv, BeforeRegister, Goto, request_vars, upload_vars, cancel_vars, store_vars
<1>1. ASSUME NEW j \in Jobs, Reserve(j)
      PROVE  PublishInv'
  BY <1>1 DEF Reserve, PurgeExpired, LiveTransfers, LiveOperations
<1>2. ASSUME NEW j \in Jobs, AcquireSlot(j)
      PROVE  PublishInv'
  BY <1>2 DEF AcquireSlot
<1>3. ASSUME NEW j \in Jobs, SlotTimeout(j)
      PROVE  PublishInv'
  BY <1>3 DEF SlotTimeout, Release
<1>4. ASSUME NEW j \in Jobs, UploadFails(j)
      PROVE  PublishInv'
  BY <1>4 DEF UploadFails, LeaveSlot, Release
<1>5. ASSUME NEW j \in Jobs, StartOperation(j)
      PROVE  PublishInv'
  BY <1>5 DEF StartOperation, LeaveSlot
<1>6. ASSUME NEW j \in Jobs, SubmitRecommend(j)
      PROVE  PublishInv'
  BY <1>6 DEF SubmitRecommend, LeaveSlot
<1>7. ASSUME NEW j \in Jobs, ReadArchive(j)
      PROVE  PublishInv'
  BY <1>7 DEF ReadArchive, LeaveSlot
<1>8. ASSUME NEW j \in Jobs, StartDecompress(j)
      PROVE  PublishInv'
  BY <1>8 DEF StartDecompress, LeaveSlot, Release
<1>9. ASSUME NEW j \in Jobs, BeginCompression(j)
      PROVE  PublishInv'
  BY <1>9 DEF BeginCompression
<1>10. ASSUME NEW j \in Jobs, BeginTurn(j)
      PROVE  PublishInv'
  BY <1>10 DEF BeginTurn
<1>11. ASSUME NEW j \in Jobs, SubmitTransfer(j)
      PROVE  PublishInv'
  BY <1>11 DEF SubmitTransfer
<1>12. ASSUME NEW j \in Jobs, ContainerReady(j)
      PROVE  PublishInv'
  BY <1>12 DEF ContainerReady
<1>13. ASSUME NEW j \in Jobs, ContainerFails(j)
      PROVE  PublishInv'
  BY <1>13 DEF ContainerFails
<1>14. ASSUME NEW j \in Jobs, PackCancelled(j)
      PROVE  PublishInv'
  BY <1>14 DEF PackCancelled
<1>15. ASSUME NEW j \in Jobs, PurgeBeforeRegister(j)
      PROVE  PublishInv'
  BY <1>15 DEF PurgeBeforeRegister, PurgeExpired, LiveTransfers, LiveOperations
<1>16. ASSUME NEW j \in Jobs, Register(j)
      PROVE  PublishInv'
  BY <1>16 DEF Register
<1>17. ASSUME NEW j \in Jobs, RefuseTransfer(j)
      PROVE  PublishInv'
  BY <1>17 DEF RefuseTransfer
<1>18. ASSUME NEW j \in Jobs, ReportOperation(j)
      PROVE  PublishInv'
  BY <1>18 DEF ReportOperation, Verdict
<1>19. ASSUME NEW j \in Jobs, ReleaseOperation(j)
      PROVE  PublishInv'
  BY <1>19 DEF ReleaseOperation, Release
<1>20. ASSUME NEW j \in Jobs, ReleaseRequest(j)
      PROVE  PublishInv'
  BY <1>20 DEF ReleaseRequest, Release
<1>21. ASSUME NEW j \in Jobs, RequestCancel(j)
      PROVE  PublishInv'
  BY <1>21 DEF RequestCancel
<1>22. ASSUME NEW j \in Jobs, MarkCancelling(j)
      PROVE  PublishInv'
  BY <1>22 DEF MarkCancelling
<1>23. ASSUME Purge
      PROVE  PublishInv'
  BY <1>23 DEF Purge, PurgeExpired, LiveTransfers, LiveOperations
<1>24. ASSUME Tick
      PROVE  PublishInv'
  BY <1>24 DEF Tick
<1>25. ASSUME Quiet
      PROVE  PublishInv'
  BY <1>25 DEF Quiet, vars
<1>26. CASE UNCHANGED vars
  BY <1>26 DEF vars
<1>27. ASSUME NEW j \in Jobs, Recommend(j)
      PROVE  PublishInv'
  BY <1>27 DEF Recommend
<1>28. QED
  BY <1>1, <1>2, <1>3, <1>4, <1>5, <1>6, <1>7, <1>8, <1>9, <1>10, <1>11,
     <1>12, <1>13, <1>14, <1>15, <1>16, <1>17, <1>18, <1>19, <1>20, <1>21,
     <1>22, <1>23, <1>24, <1>25, <1>26, <1>27 DEF Next, UploadStep, WorkStep

-----------------------------------------------------------------------------
(* Room *)

\* The limit is on a finite set: jobs are finitely many.
LEMMA BookedFinite ==
    ASSUME TypeOK
    PROVE  /\ IsFiniteSet(transfers \cup reservations)
           /\ IsFiniteSet(transfers) /\ IsFiniteSet(reservations)
           /\ Cardinality(transfers \cup reservations) \in Nat
<1>1. transfers \cup reservations \in SUBSET Jobs
  BY DEF TypeOK
<1>2. IsFiniteSet(transfers \cup reservations)
  BY <1>1, JobsAssumption, FS_Subset
<1>3. transfers \in SUBSET (transfers \cup reservations)
  OBVIOUS
<1>4. reservations \in SUBSET (transfers \cup reservations)
  OBVIOUS
<1>5. QED
  BY <1>2, <1>3, <1>4, FS_Subset, FS_CardinalityType

\* Fewer jobs never need more room.
LEMMA SmallerBooking ==
    ASSUME TypeOK, RoomInv, transfers' \cup reservations' \subseteq transfers \cup reservations
    PROVE  RoomInv'
<1>1. transfers' \cup reservations' \in SUBSET (transfers \cup reservations)
  OBVIOUS
<1>2. /\ Cardinality(transfers' \cup reservations') <= Cardinality(transfers \cup reservations)
      /\ IsFiniteSet(transfers' \cup reservations')
  BY <1>1, BookedFinite, FS_Subset
<1>3. Cardinality(transfers' \cup reservations') \in Nat
  BY <1>2, FS_CardinalityType
<1>4. QED
  BY <1>2, <1>3, BookedFinite, LimitsAssumption DEF RoomInv

\* Admission counts transfers and reservations apart, which is at least their
\* union.
LEMMA BookedBound ==
    ASSUME TypeOK,
           Cardinality(LiveTransfers) + Cardinality(reservations) < MAX_TRANSFERS
    PROVE  LET U == LiveTransfers \cup reservations
           IN  IsFiniteSet(U) /\ Cardinality(U) \in Nat /\ Cardinality(U) < MAX_TRANSFERS
<1> DEFINE U == LiveTransfers \cup reservations
           both == LiveTransfers \cap reservations
<1>1. LiveTransfers \in SUBSET transfers
  BY DEF LiveTransfers
<1>2. IsFiniteSet(LiveTransfers) /\ IsFiniteSet(reservations)
  BY <1>1, BookedFinite, FS_Subset
<1>3. Cardinality(LiveTransfers) \in Nat /\ Cardinality(reservations) \in Nat
  BY <1>2, FS_CardinalityType
<1>4. IsFiniteSet(U) /\ Cardinality(U) \in Nat
  BY <1>2, FS_Union, FS_CardinalityType
<1>5. Cardinality(both) \in Nat
  BY <1>2, FS_Intersection, FS_CardinalityType
<1>6. Cardinality(U) = Cardinality(LiveTransfers) + Cardinality(reservations) - Cardinality(both)
  BY <1>2, FS_Union
<1> HIDE DEF U, both
<1>7. Cardinality(U) < MAX_TRANSFERS
  BY <1>3, <1>4, <1>5, <1>6, LimitsAssumption
<1>8. QED
  BY <1>4, <1>7 DEF U

\* Admission asks for one more place than is taken.
LEMMA AdmissionLeavesRoom ==
    ASSUME TypeOK, RoomInv, NEW j \in Jobs, Reserve(j)
    PROVE  RoomInv'
<1> DEFINE U == LiveTransfers \cup reservations
<1>1. /\ transfers' \cup reservations' = U \cup {j}
      /\ Cardinality(LiveTransfers) + Cardinality(reservations) < MAX_TRANSFERS
  BY DEF Reserve, PurgeExpired, HasRoom
<1>2. IsFiniteSet(U) /\ Cardinality(U) \in Nat /\ Cardinality(U) < MAX_TRANSFERS
  BY <1>1, BookedBound
<1>3. Cardinality(U \cup {j}) = IF j \in U THEN Cardinality(U) ELSE Cardinality(U) + 1
  BY <1>2, FS_AddElement
<1>4. Cardinality(U \cup {j}) <= MAX_TRANSFERS
  <2> HIDE DEF U
  <2>1. QED
    BY <1>2, <1>3, LimitsAssumption
<1>5. QED
  BY <1>1, <1>4, Zenon DEF RoomInv

\* No step takes a place that was not free.
LEMMA RoomStep == TypeOK /\ BookingInv /\ RoomInv /\ [Next]_vars => RoomInv'
<1> SUFFICES ASSUME TypeOK, BookingInv, RoomInv, [Next]_vars
             PROVE  RoomInv'
  OBVIOUS
<1> USE DEF Goto, request_vars, upload_vars, cancel_vars, store_vars
<1>1. ASSUME NEW j \in Jobs, Reserve(j)
      PROVE  RoomInv'
  BY <1>1, AdmissionLeavesRoom
<1>2. ASSUME NEW j \in Jobs, AcquireSlot(j)
      PROVE  RoomInv'
  <2>1. transfers' \cup reservations' \subseteq transfers \cup reservations
    BY <1>2 DEF AcquireSlot
  <2>2. QED
    BY <2>1, SmallerBooking
<1>3. ASSUME NEW j \in Jobs, SlotTimeout(j)
      PROVE  RoomInv'
  <2>1. transfers' \cup reservations' \subseteq transfers \cup reservations
    BY <1>3 DEF SlotTimeout, Release
  <2>2. QED
    BY <2>1, SmallerBooking
<1>4. ASSUME NEW j \in Jobs, UploadFails(j)
      PROVE  RoomInv'
  <2>1. transfers' \cup reservations' \subseteq transfers \cup reservations
    BY <1>4 DEF UploadFails, LeaveSlot, Release
  <2>2. QED
    BY <2>1, SmallerBooking
<1>5. ASSUME NEW j \in Jobs, StartOperation(j)
      PROVE  RoomInv'
  <2>1. transfers' \cup reservations' \subseteq transfers \cup reservations
    BY <1>5 DEF StartOperation, LeaveSlot
  <2>2. QED
    BY <2>1, SmallerBooking
<1>6. ASSUME NEW j \in Jobs, SubmitRecommend(j)
      PROVE  RoomInv'
  <2>1. transfers' \cup reservations' \subseteq transfers \cup reservations
    BY <1>6 DEF SubmitRecommend, LeaveSlot
  <2>2. QED
    BY <2>1, SmallerBooking
<1>7. ASSUME NEW j \in Jobs, ReadArchive(j)
      PROVE  RoomInv'
  <2>1. transfers' \cup reservations' \subseteq transfers \cup reservations
    BY <1>7 DEF ReadArchive, LeaveSlot
  <2>2. QED
    BY <2>1, SmallerBooking
<1>8. ASSUME NEW j \in Jobs, StartDecompress(j)
      PROVE  RoomInv'
  <2>1. transfers' \cup reservations' \subseteq transfers \cup reservations
    BY <1>8 DEF StartDecompress, LeaveSlot, Release
  <2>2. QED
    BY <2>1, SmallerBooking
<1>9. ASSUME NEW j \in Jobs, BeginCompression(j)
      PROVE  RoomInv'
  <2>1. transfers' \cup reservations' \subseteq transfers \cup reservations
    BY <1>9 DEF BeginCompression
  <2>2. QED
    BY <2>1, SmallerBooking
<1>10. ASSUME NEW j \in Jobs, BeginTurn(j)
      PROVE  RoomInv'
  <2>1. transfers' \cup reservations' \subseteq transfers \cup reservations
    BY <1>10 DEF BeginTurn
  <2>2. QED
    BY <2>1, SmallerBooking
<1>11. ASSUME NEW j \in Jobs, SubmitTransfer(j)
      PROVE  RoomInv'
  <2>1. transfers' \cup reservations' \subseteq transfers \cup reservations
    BY <1>11 DEF SubmitTransfer
  <2>2. QED
    BY <2>1, SmallerBooking
<1>12. ASSUME NEW j \in Jobs, ContainerReady(j)
      PROVE  RoomInv'
  <2>1. transfers' \cup reservations' \subseteq transfers \cup reservations
    BY <1>12 DEF ContainerReady
  <2>2. QED
    BY <2>1, SmallerBooking
<1>13. ASSUME NEW j \in Jobs, ContainerFails(j)
      PROVE  RoomInv'
  <2>1. transfers' \cup reservations' \subseteq transfers \cup reservations
    BY <1>13 DEF ContainerFails
  <2>2. QED
    BY <2>1, SmallerBooking
<1>14. ASSUME NEW j \in Jobs, PackCancelled(j)
      PROVE  RoomInv'
  <2>1. transfers' \cup reservations' \subseteq transfers \cup reservations
    BY <1>14 DEF PackCancelled
  <2>2. QED
    BY <2>1, SmallerBooking
<1>15. ASSUME NEW j \in Jobs, PurgeBeforeRegister(j)
      PROVE  RoomInv'
  <2>1. transfers' \cup reservations' \subseteq transfers \cup reservations
    BY <1>15 DEF PurgeBeforeRegister, PurgeExpired, LiveTransfers, LiveOperations
  <2>2. QED
    BY <2>1, SmallerBooking
<1>16. ASSUME NEW j \in Jobs, Register(j)
      PROVE  RoomInv'
  <2>1. j \in reservations
    BY <1>16 DEF Register, BookingInv
  <2>2. transfers' \cup reservations' \subseteq transfers \cup reservations
    BY <1>16, <2>1 DEF Register
  <2>3. QED
    BY <2>2, SmallerBooking
<1>17. ASSUME NEW j \in Jobs, RefuseTransfer(j)
      PROVE  RoomInv'
  <2>1. transfers' \cup reservations' \subseteq transfers \cup reservations
    BY <1>17 DEF RefuseTransfer
  <2>2. QED
    BY <2>1, SmallerBooking
<1>18. ASSUME NEW j \in Jobs, ReportOperation(j)
      PROVE  RoomInv'
  <2>1. transfers' \cup reservations' \subseteq transfers \cup reservations
    BY <1>18 DEF ReportOperation
  <2>2. QED
    BY <2>1, SmallerBooking
<1>19. ASSUME NEW j \in Jobs, ReleaseOperation(j)
      PROVE  RoomInv'
  <2>1. transfers' \cup reservations' \subseteq transfers \cup reservations
    BY <1>19 DEF ReleaseOperation, Release
  <2>2. QED
    BY <2>1, SmallerBooking
<1>20. ASSUME NEW j \in Jobs, ReleaseRequest(j)
      PROVE  RoomInv'
  <2>1. transfers' \cup reservations' \subseteq transfers \cup reservations
    BY <1>20 DEF ReleaseRequest, Release
  <2>2. QED
    BY <2>1, SmallerBooking
<1>21. ASSUME NEW j \in Jobs, RequestCancel(j)
      PROVE  RoomInv'
  <2>1. transfers' \cup reservations' \subseteq transfers \cup reservations
    BY <1>21 DEF RequestCancel
  <2>2. QED
    BY <2>1, SmallerBooking
<1>22. ASSUME NEW j \in Jobs, MarkCancelling(j)
      PROVE  RoomInv'
  <2>1. transfers' \cup reservations' \subseteq transfers \cup reservations
    BY <1>22 DEF MarkCancelling
  <2>2. QED
    BY <2>1, SmallerBooking
<1>23. ASSUME Purge
      PROVE  RoomInv'
  <2>1. transfers' \cup reservations' \subseteq transfers \cup reservations
    BY <1>23 DEF Purge, PurgeExpired, LiveTransfers, LiveOperations
  <2>2. QED
    BY <2>1, SmallerBooking
<1>24. ASSUME Tick
      PROVE  RoomInv'
  <2>1. transfers' \cup reservations' \subseteq transfers \cup reservations
    BY <1>24 DEF Tick
  <2>2. QED
    BY <2>1, SmallerBooking
<1>25. ASSUME Quiet
      PROVE  RoomInv'
  <2>1. transfers' \cup reservations' \subseteq transfers \cup reservations
    BY <1>25 DEF Quiet, vars
  <2>2. QED
    BY <2>1, SmallerBooking
<1>26. CASE UNCHANGED vars
  BY <1>26 DEF vars, RoomInv
<1>27. ASSUME NEW j \in Jobs, Recommend(j)
      PROVE  RoomInv'
  <2>1. transfers' \cup reservations' \subseteq transfers \cup reservations
    BY <1>27 DEF Recommend
  <2>2. QED
    BY <2>1, SmallerBooking
<1>28. QED
  BY <1>1, <1>2, <1>3, <1>4, <1>5, <1>6, <1>7, <1>8, <1>9, <1>10, <1>11,
     <1>12, <1>13, <1>14, <1>15, <1>16, <1>17, <1>18, <1>19, <1>20, <1>21,
     <1>22, <1>23, <1>24, <1>25, <1>26, <1>27 DEF Next, UploadStep, WorkStep

\* The service starts with no transfer and no reservation.
LEMMA RoomInit == Init => RoomInv
<1>1. Cardinality({}) = 0
  BY FS_EmptySet
<1>2. QED
  BY <1>1, LimitsAssumption DEF Init, RoomInv

\* A job about to be registered holds one of the places and is not listed yet,
\* so the listed transfers are fewer than the limit.
LEMMA RoomForEveryJobFollows ==
    TypeOK /\ BookingInv /\ PublishInv /\ RoomInv => RoomForEveryJob
<1> SUFFICES ASSUME TypeOK, BookingInv, PublishInv, RoomInv
             PROVE  RoomForEveryJob
  OBVIOUS
<1>1. ASSUME NEW j \in Jobs, phase[j] = "registering"
      PROVE  Cardinality(transfers) < MAX_TRANSFERS
  <2>1. j \in reservations /\ j \notin transfers
    BY <1>1 DEF BookingInv, PublishInv, BeforeRegister
  <2>2. /\ transfers \in SUBSET (transfers \cup reservations)
        /\ transfers # transfers \cup reservations
    BY <2>1
  <2>3. Cardinality(transfers) \in Nat
    BY BookedFinite, FS_CardinalityType
  <2>4. /\ Cardinality(transfers) <= Cardinality(transfers \cup reservations)
        /\ Cardinality(transfers) # Cardinality(transfers \cup reservations)
    BY <2>2, BookedFinite, FS_Subset
  <2>5. QED
    BY <2>3, <2>4, BookedFinite, LimitsAssumption DEF RoomInv
<1>2. QED
  BY <1>1 DEF RoomForEveryJob, RoomInv

\* For any number of jobs and any limits, an admitted job always finds a place
\* in the transfer list when its container is ready: the recheck of
\* MAX_TRANSFERS in _register_transfer never refuses it.
THEOREM RoomTheorem == Spec => []RoomForEveryJob
<1>1. Init => TypeOK /\ BookingInv /\ PublishInv /\ RoomInv
  BY TypeInit, BookingInit, PublishInit, RoomInit
<1>2. TypeOK /\ BookingInv /\ PublishInv /\ RoomInv /\ [Next]_vars
        => (TypeOK /\ BookingInv /\ PublishInv /\ RoomInv)'
  BY TypeStep, BookingStep, PublishStep, RoomStep
<1>3. QED
  BY <1>1, <1>2, RoomForEveryJobFollows, PTL DEF Spec

-----------------------------------------------------------------------------
(* Statuses and outcomes *)

\* The status of an operation follows the position of its thread.
LEMMA StatusInit == Init => StatusInv
  BY DEF Init, StatusInv, StatusAt

\* The thread and the cancel handler move the status within these bounds in
\* every order of their steps.
LEMMA StatusStep == TypeOK /\ StatusInv /\ [Next]_vars => StatusInv'
<1> SUFFICES ASSUME TypeOK /\ StatusInv, [Next]_vars
             PROVE  StatusInv'
  OBVIOUS
<1> USE DEF TypeOK, StatusInv, StatusAt, Goto, request_vars, upload_vars, cancel_vars, store_vars
<1>1. ASSUME NEW j \in Jobs, Reserve(j)
      PROVE  StatusInv'
  BY <1>1 DEF Reserve, PurgeExpired, LiveTransfers, LiveOperations
<1>2. ASSUME NEW j \in Jobs, AcquireSlot(j)
      PROVE  StatusInv'
  BY <1>2 DEF AcquireSlot
<1>3. ASSUME NEW j \in Jobs, SlotTimeout(j)
      PROVE  StatusInv'
  BY <1>3 DEF SlotTimeout, Release
<1>4. ASSUME NEW j \in Jobs, UploadFails(j)
      PROVE  StatusInv'
  BY <1>4 DEF UploadFails, LeaveSlot, Release
<1>5. ASSUME NEW j \in Jobs, StartOperation(j)
      PROVE  StatusInv'
  BY <1>5 DEF StartOperation, LeaveSlot
<1>6. ASSUME NEW j \in Jobs, SubmitRecommend(j)
      PROVE  StatusInv'
  BY <1>6 DEF SubmitRecommend, LeaveSlot
<1>7. ASSUME NEW j \in Jobs, ReadArchive(j)
      PROVE  StatusInv'
  BY <1>7 DEF ReadArchive, LeaveSlot
<1>8. ASSUME NEW j \in Jobs, StartDecompress(j)
      PROVE  StatusInv'
  BY <1>8 DEF StartDecompress, LeaveSlot, Release
<1>9. ASSUME NEW j \in Jobs, BeginCompression(j)
      PROVE  StatusInv'
  BY <1>9 DEF BeginCompression
<1>10. ASSUME NEW j \in Jobs, BeginTurn(j)
      PROVE  StatusInv'
  BY <1>10 DEF BeginTurn
<1>11. ASSUME NEW j \in Jobs, SubmitTransfer(j)
      PROVE  StatusInv'
  BY <1>11 DEF SubmitTransfer
<1>12. ASSUME NEW j \in Jobs, ContainerReady(j)
      PROVE  StatusInv'
  BY <1>12 DEF ContainerReady
<1>13. ASSUME NEW j \in Jobs, ContainerFails(j)
      PROVE  StatusInv'
  BY <1>13 DEF ContainerFails
<1>14. ASSUME NEW j \in Jobs, PackCancelled(j)
      PROVE  StatusInv'
  BY <1>14 DEF PackCancelled
<1>15. ASSUME NEW j \in Jobs, PurgeBeforeRegister(j)
      PROVE  StatusInv'
  BY <1>15 DEF PurgeBeforeRegister, PurgeExpired, LiveTransfers, LiveOperations
<1>16. ASSUME NEW j \in Jobs, Register(j)
      PROVE  StatusInv'
  BY <1>16 DEF Register
<1>17. ASSUME NEW j \in Jobs, RefuseTransfer(j)
      PROVE  StatusInv'
  BY <1>17 DEF RefuseTransfer
<1>18. ASSUME NEW j \in Jobs, ReportOperation(j)
      PROVE  StatusInv'
  BY <1>18 DEF ReportOperation, Verdict
<1>19. ASSUME NEW j \in Jobs, ReleaseOperation(j)
      PROVE  StatusInv'
  BY <1>19 DEF ReleaseOperation, Release
<1>20. ASSUME NEW j \in Jobs, ReleaseRequest(j)
      PROVE  StatusInv'
  BY <1>20 DEF ReleaseRequest, Release
<1>21. ASSUME NEW j \in Jobs, RequestCancel(j)
      PROVE  StatusInv'
  BY <1>21 DEF RequestCancel
<1>22. ASSUME NEW j \in Jobs, MarkCancelling(j)
      PROVE  StatusInv'
  BY <1>22 DEF MarkCancelling
<1>23. ASSUME Purge
      PROVE  StatusInv'
  BY <1>23 DEF Purge, PurgeExpired, LiveTransfers, LiveOperations
<1>24. ASSUME Tick
      PROVE  StatusInv'
  BY <1>24 DEF Tick
<1>25. ASSUME Quiet
      PROVE  StatusInv'
  BY <1>25 DEF Quiet, vars
<1>26. CASE UNCHANGED vars
  BY <1>26 DEF vars
<1>27. ASSUME NEW j \in Jobs, Recommend(j)
      PROVE  StatusInv'
  BY <1>27 DEF Recommend
<1>28. QED
  BY <1>1, <1>2, <1>3, <1>4, <1>5, <1>6, <1>7, <1>8, <1>9, <1>10, <1>11,
     <1>12, <1>13, <1>14, <1>15, <1>16, <1>17, <1>18, <1>19, <1>20, <1>21,
     <1>22, <1>23, <1>24, <1>25, <1>26, <1>27 DEF Next, UploadStep, WorkStep

\* A verdict is given after registration, or in its place.
LEMMA OutcomeInit == Init => OutcomeInv
  BY DEF Init, OutcomeInv

\* The verdict is read off the position the thread has reached, so it agrees
\* with what was published.
LEMMA OutcomeStep == TypeOK /\ StatusInv /\ PublishInv /\ OutcomeInv /\ [Next]_vars => OutcomeInv'
<1> SUFFICES ASSUME TypeOK /\ StatusInv /\ PublishInv /\ OutcomeInv, [Next]_vars
             PROVE  OutcomeInv'
  OBVIOUS
<1> USE DEF TypeOK, StatusInv, StatusAt, PublishInv, BeforeRegister, OutcomeInv, Goto, request_vars, upload_vars, cancel_vars, store_vars
<1>1. ASSUME NEW j \in Jobs, Reserve(j)
      PROVE  OutcomeInv'
  BY <1>1 DEF Reserve, PurgeExpired, LiveTransfers, LiveOperations
<1>2. ASSUME NEW j \in Jobs, AcquireSlot(j)
      PROVE  OutcomeInv'
  BY <1>2 DEF AcquireSlot
<1>3. ASSUME NEW j \in Jobs, SlotTimeout(j)
      PROVE  OutcomeInv'
  BY <1>3 DEF SlotTimeout, Release
<1>4. ASSUME NEW j \in Jobs, UploadFails(j)
      PROVE  OutcomeInv'
  BY <1>4 DEF UploadFails, LeaveSlot, Release
<1>5. ASSUME NEW j \in Jobs, StartOperation(j)
      PROVE  OutcomeInv'
  BY <1>5 DEF StartOperation, LeaveSlot
<1>6. ASSUME NEW j \in Jobs, SubmitRecommend(j)
      PROVE  OutcomeInv'
  BY <1>6 DEF SubmitRecommend, LeaveSlot
<1>7. ASSUME NEW j \in Jobs, ReadArchive(j)
      PROVE  OutcomeInv'
  BY <1>7 DEF ReadArchive, LeaveSlot
<1>8. ASSUME NEW j \in Jobs, StartDecompress(j)
      PROVE  OutcomeInv'
  BY <1>8 DEF StartDecompress, LeaveSlot, Release
<1>9. ASSUME NEW j \in Jobs, BeginCompression(j)
      PROVE  OutcomeInv'
  BY <1>9 DEF BeginCompression
<1>10. ASSUME NEW j \in Jobs, BeginTurn(j)
      PROVE  OutcomeInv'
  BY <1>10 DEF BeginTurn
<1>11. ASSUME NEW j \in Jobs, SubmitTransfer(j)
      PROVE  OutcomeInv'
  BY <1>11 DEF SubmitTransfer
<1>12. ASSUME NEW j \in Jobs, ContainerReady(j)
      PROVE  OutcomeInv'
  BY <1>12 DEF ContainerReady
<1>13. ASSUME NEW j \in Jobs, ContainerFails(j)
      PROVE  OutcomeInv'
  BY <1>13 DEF ContainerFails
<1>14. ASSUME NEW j \in Jobs, PackCancelled(j)
      PROVE  OutcomeInv'
  BY <1>14 DEF PackCancelled
<1>15. ASSUME NEW j \in Jobs, PurgeBeforeRegister(j)
      PROVE  OutcomeInv'
  BY <1>15 DEF PurgeBeforeRegister, PurgeExpired, LiveTransfers, LiveOperations
<1>16. ASSUME NEW j \in Jobs, Register(j)
      PROVE  OutcomeInv'
  BY <1>16 DEF Register
<1>17. ASSUME NEW j \in Jobs, RefuseTransfer(j)
      PROVE  OutcomeInv'
  BY <1>17 DEF RefuseTransfer
<1>18. ASSUME NEW j \in Jobs, ReportOperation(j)
      PROVE  OutcomeInv'
  BY <1>18 DEF ReportOperation, Verdict
<1>19. ASSUME NEW j \in Jobs, ReleaseOperation(j)
      PROVE  OutcomeInv'
  BY <1>19 DEF ReleaseOperation, Release
<1>20. ASSUME NEW j \in Jobs, ReleaseRequest(j)
      PROVE  OutcomeInv'
  BY <1>20 DEF ReleaseRequest, Release
<1>21. ASSUME NEW j \in Jobs, RequestCancel(j)
      PROVE  OutcomeInv'
  BY <1>21 DEF RequestCancel
<1>22. ASSUME NEW j \in Jobs, MarkCancelling(j)
      PROVE  OutcomeInv'
  BY <1>22 DEF MarkCancelling
<1>23. ASSUME Purge
      PROVE  OutcomeInv'
  BY <1>23 DEF Purge, PurgeExpired, LiveTransfers, LiveOperations
<1>24. ASSUME Tick
      PROVE  OutcomeInv'
  BY <1>24 DEF Tick
<1>25. ASSUME Quiet
      PROVE  OutcomeInv'
  BY <1>25 DEF Quiet, vars
<1>26. CASE UNCHANGED vars
  BY <1>26 DEF vars
<1>27. ASSUME NEW j \in Jobs, Recommend(j)
      PROVE  OutcomeInv'
  BY <1>27 DEF Recommend
<1>28. QED
  BY <1>1, <1>2, <1>3, <1>4, <1>5, <1>6, <1>7, <1>8, <1>9, <1>10, <1>11,
     <1>12, <1>13, <1>14, <1>15, <1>16, <1>17, <1>18, <1>19, <1>20, <1>21,
     <1>22, <1>23, <1>24, <1>25, <1>26, <1>27 DEF Next, UploadStep, WorkStep

\* The strengthening under which every safety theorem below follows.
IInv == TypeOK /\ BookingInv /\ PublishInv /\ StatusInv /\ OutcomeInv

\* Typing, reservations, publication, statuses and outcomes hold together in
\* every behaviour of the pipeline.
LEMMA InductiveInvariant == Spec => []IInv
<1>1. Init => IInv
  BY TypeInit, BookingInit, PublishInit, StatusInit, OutcomeInit DEF IInv
<1>2. IInv /\ [Next]_vars => IInv'
  BY TypeStep, BookingStep, PublishStep, StatusStep, OutcomeStep DEF IInv
<1>3. QED
  BY <1>1, <1>2, PTL DEF Spec

\* What an operation reports is what happened to its transfer, in every
\* interleaving of cancellations, threads and purges.
THEOREM OutcomeTheorem == Spec => []OutcomeMatchesStore
<1>1. IInv => OutcomeMatchesStore
  BY DEF IInv, StatusInv, OutcomeInv, OutcomeMatchesStore
<1>2. QED
  BY <1>1, InductiveInvariant, PTL

\* Each step moves a status only forwards.
LEMMA StatusMoves ==
    IInv /\ [Next]_vars
      => \A i \in Jobs : status'[i] # status[i] => status'[i] \in MayBecome(status[i])
<1> SUFFICES ASSUME IInv, [Next]_vars
             PROVE  \A i \in Jobs : status'[i] # status[i] => status'[i] \in MayBecome(status[i])
  OBVIOUS
<1> USE DEF IInv, TypeOK, StatusInv, StatusAt, MayBecome, Goto, request_vars, upload_vars, cancel_vars, store_vars
<1>1. ASSUME NEW j \in Jobs, Reserve(j)
      PROVE  \A i \in Jobs : status'[i] # status[i] => status'[i] \in MayBecome(status[i])
  BY <1>1 DEF Reserve, PurgeExpired, LiveTransfers, LiveOperations
<1>2. ASSUME NEW j \in Jobs, AcquireSlot(j)
      PROVE  \A i \in Jobs : status'[i] # status[i] => status'[i] \in MayBecome(status[i])
  BY <1>2 DEF AcquireSlot
<1>3. ASSUME NEW j \in Jobs, SlotTimeout(j)
      PROVE  \A i \in Jobs : status'[i] # status[i] => status'[i] \in MayBecome(status[i])
  BY <1>3 DEF SlotTimeout, Release
<1>4. ASSUME NEW j \in Jobs, UploadFails(j)
      PROVE  \A i \in Jobs : status'[i] # status[i] => status'[i] \in MayBecome(status[i])
  BY <1>4 DEF UploadFails, LeaveSlot, Release
<1>5. ASSUME NEW j \in Jobs, StartOperation(j)
      PROVE  \A i \in Jobs : status'[i] # status[i] => status'[i] \in MayBecome(status[i])
  BY <1>5 DEF StartOperation, LeaveSlot
<1>6. ASSUME NEW j \in Jobs, SubmitRecommend(j)
      PROVE  \A i \in Jobs : status'[i] # status[i] => status'[i] \in MayBecome(status[i])
  BY <1>6 DEF SubmitRecommend, LeaveSlot
<1>7. ASSUME NEW j \in Jobs, ReadArchive(j)
      PROVE  \A i \in Jobs : status'[i] # status[i] => status'[i] \in MayBecome(status[i])
  BY <1>7 DEF ReadArchive, LeaveSlot
<1>8. ASSUME NEW j \in Jobs, StartDecompress(j)
      PROVE  \A i \in Jobs : status'[i] # status[i] => status'[i] \in MayBecome(status[i])
  BY <1>8 DEF StartDecompress, LeaveSlot, Release
<1>9. ASSUME NEW j \in Jobs, BeginCompression(j)
      PROVE  \A i \in Jobs : status'[i] # status[i] => status'[i] \in MayBecome(status[i])
  BY <1>9 DEF BeginCompression
<1>10. ASSUME NEW j \in Jobs, BeginTurn(j)
      PROVE  \A i \in Jobs : status'[i] # status[i] => status'[i] \in MayBecome(status[i])
  BY <1>10 DEF BeginTurn
<1>11. ASSUME NEW j \in Jobs, SubmitTransfer(j)
      PROVE  \A i \in Jobs : status'[i] # status[i] => status'[i] \in MayBecome(status[i])
  BY <1>11 DEF SubmitTransfer
<1>12. ASSUME NEW j \in Jobs, ContainerReady(j)
      PROVE  \A i \in Jobs : status'[i] # status[i] => status'[i] \in MayBecome(status[i])
  BY <1>12 DEF ContainerReady
<1>13. ASSUME NEW j \in Jobs, ContainerFails(j)
      PROVE  \A i \in Jobs : status'[i] # status[i] => status'[i] \in MayBecome(status[i])
  BY <1>13 DEF ContainerFails
<1>14. ASSUME NEW j \in Jobs, PackCancelled(j)
      PROVE  \A i \in Jobs : status'[i] # status[i] => status'[i] \in MayBecome(status[i])
  BY <1>14 DEF PackCancelled
<1>15. ASSUME NEW j \in Jobs, PurgeBeforeRegister(j)
      PROVE  \A i \in Jobs : status'[i] # status[i] => status'[i] \in MayBecome(status[i])
  BY <1>15 DEF PurgeBeforeRegister, PurgeExpired, LiveTransfers, LiveOperations
<1>16. ASSUME NEW j \in Jobs, Register(j)
      PROVE  \A i \in Jobs : status'[i] # status[i] => status'[i] \in MayBecome(status[i])
  BY <1>16 DEF Register
<1>17. ASSUME NEW j \in Jobs, RefuseTransfer(j)
      PROVE  \A i \in Jobs : status'[i] # status[i] => status'[i] \in MayBecome(status[i])
  BY <1>17 DEF RefuseTransfer
<1>18. ASSUME NEW j \in Jobs, ReportOperation(j)
      PROVE  \A i \in Jobs : status'[i] # status[i] => status'[i] \in MayBecome(status[i])
  BY <1>18 DEF ReportOperation, Verdict
<1>19. ASSUME NEW j \in Jobs, ReleaseOperation(j)
      PROVE  \A i \in Jobs : status'[i] # status[i] => status'[i] \in MayBecome(status[i])
  BY <1>19 DEF ReleaseOperation, Release
<1>20. ASSUME NEW j \in Jobs, ReleaseRequest(j)
      PROVE  \A i \in Jobs : status'[i] # status[i] => status'[i] \in MayBecome(status[i])
  BY <1>20 DEF ReleaseRequest, Release
<1>21. ASSUME NEW j \in Jobs, RequestCancel(j)
      PROVE  \A i \in Jobs : status'[i] # status[i] => status'[i] \in MayBecome(status[i])
  BY <1>21 DEF RequestCancel
<1>22. ASSUME NEW j \in Jobs, MarkCancelling(j)
      PROVE  \A i \in Jobs : status'[i] # status[i] => status'[i] \in MayBecome(status[i])
  BY <1>22 DEF MarkCancelling
<1>23. ASSUME Purge
      PROVE  \A i \in Jobs : status'[i] # status[i] => status'[i] \in MayBecome(status[i])
  BY <1>23 DEF Purge, PurgeExpired, LiveTransfers, LiveOperations
<1>24. ASSUME Tick
      PROVE  \A i \in Jobs : status'[i] # status[i] => status'[i] \in MayBecome(status[i])
  BY <1>24 DEF Tick
<1>25. ASSUME Quiet
      PROVE  \A i \in Jobs : status'[i] # status[i] => status'[i] \in MayBecome(status[i])
  BY <1>25 DEF Quiet, vars
<1>26. CASE UNCHANGED vars
  BY <1>26 DEF vars
<1>27. ASSUME NEW j \in Jobs, Recommend(j)
      PROVE  \A i \in Jobs : status'[i] # status[i] => status'[i] \in MayBecome(status[i])
  BY <1>27 DEF Recommend
<1>28. QED
  BY <1>1, <1>2, <1>3, <1>4, <1>5, <1>6, <1>7, <1>8, <1>9, <1>10, <1>11,
     <1>12, <1>13, <1>14, <1>15, <1>16, <1>17, <1>18, <1>19, <1>20, <1>21,
     <1>22, <1>23, <1>24, <1>25, <1>26, <1>27 DEF Next, UploadStep, WorkStep

\* A finished operation stays finished and a cancelled one never resumes, for
\* any number of operations, workers and cancel requests.
THEOREM StatusTheorem == Spec => StatusNeverGoesBack
<1>1. IInv /\ [Next]_vars
        => [\A j \in Jobs : status'[j] # status[j] => status'[j] \in MayBecome(status[j])]_status
  BY StatusMoves
<1>2. QED
  BY <1>1, InductiveInvariant, PTL DEF Spec, StatusNeverGoesBack

-----------------------------------------------------------------------------
(* Refinement *)

Mapped == [j \in Jobs |-> JobState(j)]

\* Steps the abstract service does not see.
LEMMA UnseenStep ==
    ASSUME UNCHANGED <<transfers, published, reservations>>,
           \A i \in Jobs : phase'[i] = "idle" <=> phase[i] = "idle"
    PROVE  [Service!Next]_Mapped
<1>1. \A i \in Jobs : JobState(i)' = JobState(i)
  BY DEF JobState
<1>2. Mapped' = Mapped
  BY <1>1, Zenon DEF Mapped
<1>3. QED
  BY <1>2

\* A job that gives its reservation back ends, unless it was published before.
LEMMA ReleaseStep ==
    ASSUME IInv, NEW j \in Jobs,
           phase[j] \notin {"idle", "done"},
           reservations' = reservations \ {j},
           phase' = [phase EXCEPT ![j] = "done"],
           UNCHANGED <<transfers, published>>
    PROVE  [Service!Next]_Mapped
<1> USE DEF IInv, TypeOK
<1>1. \A i \in Jobs \ {j} : JobState(i)' = JobState(i)
  BY DEF JobState
<1>2. CASE j \in published
  <2>1. JobState(j)' = JobState(j)
    BY <1>2 DEF JobState
  <2>2. Mapped' = Mapped
    BY <1>1, <2>1 DEF Mapped
  <2>3. QED
    BY <2>2
<1>3. CASE j \notin published
  <2>1. JobState(j) = "pending"
    BY <1>3 DEF JobState, BookingInv, PublishInv
  <2>2. JobState(j)' = "ended"
    BY <1>3 DEF JobState, PublishInv
  <2>3. Mapped' = [Mapped EXCEPT ![j] = "ended"]
    BY <1>1, <2>2 DEF Mapped
  <2>4. Service!End(j)
    BY <2>1, <2>3 DEF Service!End, Mapped
  <2>5. QED
    BY <2>4 DEF Service!Next
<1>4. QED
  BY <1>2, <1>3

\* A purge ends the transfers it removes and nothing else.
LEMMA PurgeStep ==
    ASSUME IInv, transfers' = LiveTransfers, UNCHANGED <<published, reservations>>,
           \A i \in Jobs : phase'[i] = "idle" <=> phase[i] = "idle"
    PROVE  [Service!Next]_Mapped
<1> DEFINE gone == transfers \ LiveTransfers
<1>1. /\ LiveTransfers \subseteq transfers
      /\ transfers \subseteq published /\ transfers \subseteq Jobs
  BY DEF LiveTransfers, IInv, PublishInv, TypeOK
<1>2. \A i \in Jobs : JobState(i)' = IF i \in gone THEN "ended" ELSE JobState(i)
  BY <1>1 DEF JobState
<1>3. CASE gone = {}
  <2>1. \A i \in Jobs : JobState(i)' = JobState(i)
    BY <1>2, <1>3
  <2>2. QED
    BY <2>1, Zenon DEF Mapped
<1>4. CASE gone # {}
  <2>1. gone \in SUBSET {i \in Jobs : Mapped[i] = "available"}
    BY <1>1 DEF Mapped, JobState
  <2>2. Mapped' = [i \in Jobs |-> IF i \in gone THEN "ended" ELSE Mapped[i]]
    BY <1>2 DEF Mapped
  <2> HIDE DEF gone
  <2>3. Service!Expire
    BY <1>4, <2>1, <2>2 DEF Service!Expire, Mapped
  <2>4. QED
    BY <2>3 DEF Service!Next
<1>5. QED
  BY <1>3, <1>4

\* Registration publishes a pending job.
LEMMA RegisterStep ==
    ASSUME IInv, NEW j \in Jobs, Register(j)
    PROVE  [Service!Next]_Mapped
<1> USE DEF IInv, TypeOK
<1>1. /\ transfers' = transfers \cup {j} /\ published' = published \cup {j}
      /\ reservations' = reservations
      /\ phase[j] = "registering" /\ phase' = [phase EXCEPT ![j] = "registered"]
  BY DEF Register, Goto
<1>2. JobState(j) = "pending" /\ JobState(j)' = "available"
  BY <1>1 DEF JobState, BookingInv, PublishInv, BeforeRegister
<1>3. \A i \in Jobs \ {j} : JobState(i)' = JobState(i)
  BY <1>1 DEF JobState
<1>4. Mapped' = [Mapped EXCEPT ![j] = "available"]
  BY <1>2, <1>3 DEF Mapped
<1>5. Service!Publish(j)
  BY <1>2, <1>4 DEF Service!Publish, Mapped
<1>6. QED
  BY <1>5 DEF Service!Next

\* Admission is an Accept of the abstract service: what it counts includes every
\* place that the abstract service sees occupied after the purge.
LEMMA AdmissionStep ==
    ASSUME IInv, NEW j \in Jobs, Reserve(j)
    PROVE  [Service!Next]_Mapped
<1> DEFINE gone == transfers \ LiveTransfers
           U == LiveTransfers \cup reservations
           occupied == {i \in Jobs : Mapped[i] \in {"pending", "available"}}
<1>1. /\ transfers' = LiveTransfers /\ published' = published
      /\ reservations' = reservations \cup {j}
      /\ phase[j] = "idle" /\ phase' = [phase EXCEPT ![j] = "waiting"]
      /\ Cardinality(LiveTransfers) + Cardinality(reservations) < MAX_TRANSFERS
  BY DEF Reserve, PurgeExpired, HasRoom, Goto
<1>2. /\ LiveTransfers \subseteq transfers
      /\ transfers \subseteq published /\ transfers \subseteq Jobs
      /\ j \notin reservations /\ j \notin published
      /\ phase \in [Jobs -> Phases]
  BY <1>1 DEF LiveTransfers, IInv, PublishInv, BookingInv, BeforeRegister, TypeOK
<1>3. Mapped[j] = "absent"
  BY <1>1, <1>2 DEF Mapped, JobState
<1>4. gone \in SUBSET {i \in Jobs : Mapped[i] = "available"}
  BY <1>2 DEF Mapped, JobState
<1>5. Mapped' = [i \in Jobs |-> IF i = j THEN "pending"
                               ELSE IF i \in gone THEN "ended" ELSE Mapped[i]]
  <2>1. JobState(j)' = "pending"
    BY <1>1, <1>2 DEF JobState
  <2>2. \A i \in Jobs \ {j} : JobState(i)' = IF i \in gone THEN "ended" ELSE JobState(i)
    BY <1>1, <1>2 DEF JobState
  <2>3. QED
    BY <2>1, <2>2 DEF Mapped
<1>6. Cardinality(occupied \ gone) < MAX_TRANSFERS
  <2>1. occupied \ gone \in SUBSET U
    BY <1>2 DEF Mapped, JobState
  <2>2. IsFiniteSet(U) /\ Cardinality(U) \in Nat /\ Cardinality(U) < MAX_TRANSFERS
    BY <1>1, BookedBound DEF IInv
  <2>3. IsFiniteSet(occupied \ gone) /\ Cardinality(occupied \ gone) <= Cardinality(U)
    BY <2>1, <2>2, FS_Subset
  <2>4. Cardinality(occupied \ gone) \in Nat
    BY <2>3, FS_CardinalityType
  <2> HIDE DEF occupied, gone, U
  <2>5. QED
    BY <2>2, <2>3, <2>4, LimitsAssumption
<1>7. Service!Accept(j)
  <2>1. Service!Occupied = occupied
    BY DEF Service!Occupied, Mapped
  <2>2. /\ gone \in SUBSET {i \in Jobs : [k \in Jobs |-> JobState(k)][i] = "available"}
        /\ Cardinality(Service!Occupied \ gone) < MAX_TRANSFERS
    BY <1>4, <1>6, <2>1, Zenon DEF Mapped
  <2>3. [k \in Jobs |-> JobState(k)]'
          = [i \in Jobs |-> IF i = j THEN "pending" ELSE IF i \in gone THEN "ended"
                            ELSE [k \in Jobs |-> JobState(k)][i]]
    BY <1>5, Zenon DEF Mapped
  <2>4. [k \in Jobs |-> JobState(k)][j] = "absent"
    BY <1>3, Zenon DEF Mapped
  <2>5. \A S : Service!Cardinality(S) = Cardinality(S)
    BY Zenon DEF Service!Cardinality, Cardinality, Service!IsFiniteSet, IsFiniteSet
  <2> HIDE DEF gone, occupied
  <2>6. QED
    BY <2>2, <2>3, <2>4, <2>5, Zenon DEF Service!Accept
<1>8. QED
  BY <1>7 DEF Service!Next

\* Each step of the pipeline is a step of the abstract service or leaves it
\* unchanged.
LEMMA RefinementStep == IInv /\ [Next]_vars => [Service!Next]_Mapped
<1> SUFFICES ASSUME IInv, [Next]_vars
             PROVE  [Service!Next]_Mapped
  OBVIOUS
<1> USE DEF IInv, Goto, request_vars, upload_vars, cancel_vars, store_vars
<1>1. ASSUME NEW j \in Jobs, Reserve(j)
      PROVE  [Service!Next]_Mapped
  BY <1>1, AdmissionStep
<1>2. ASSUME NEW j \in Jobs, AcquireSlot(j)
      PROVE  [Service!Next]_Mapped
  BY <1>2, UnseenStep DEF AcquireSlot, TypeOK
<1>3. ASSUME NEW j \in Jobs, SlotTimeout(j)
      PROVE  [Service!Next]_Mapped
  <2>1. /\ phase[j] \notin {"idle", "done"}
        /\ reservations' = reservations \ {j}
        /\ phase' = [phase EXCEPT ![j] = "done"]
        /\ UNCHANGED <<transfers, published>>
    BY <1>3 DEF SlotTimeout, Release
  <2>2. QED
    BY <2>1, ReleaseStep
<1>4. ASSUME NEW j \in Jobs, UploadFails(j)
      PROVE  [Service!Next]_Mapped
  <2>1. /\ phase[j] \notin {"idle", "done"}
        /\ reservations' = reservations \ {j}
        /\ phase' = [phase EXCEPT ![j] = "done"]
        /\ UNCHANGED <<transfers, published>>
    BY <1>4 DEF UploadFails, LeaveSlot, Release
  <2>2. QED
    BY <2>1, ReleaseStep
<1>5. ASSUME NEW j \in Jobs, StartOperation(j)
      PROVE  [Service!Next]_Mapped
  BY <1>5, UnseenStep DEF StartOperation, LeaveSlot, TypeOK
<1>6. ASSUME NEW j \in Jobs, SubmitRecommend(j)
      PROVE  [Service!Next]_Mapped
  BY <1>6, UnseenStep DEF SubmitRecommend, LeaveSlot, TypeOK
<1>7. ASSUME NEW j \in Jobs, ReadArchive(j)
      PROVE  [Service!Next]_Mapped
  BY <1>7, UnseenStep DEF ReadArchive, LeaveSlot, TypeOK
<1>8. ASSUME NEW j \in Jobs, StartDecompress(j)
      PROVE  [Service!Next]_Mapped
  <2>1. /\ phase[j] \notin {"idle", "done"}
        /\ reservations' = reservations \ {j}
        /\ phase' = [phase EXCEPT ![j] = "done"]
        /\ UNCHANGED <<transfers, published>>
    BY <1>8 DEF StartDecompress, LeaveSlot, Release
  <2>2. QED
    BY <2>1, ReleaseStep
<1>9. ASSUME NEW j \in Jobs, BeginCompression(j)
      PROVE  [Service!Next]_Mapped
  BY <1>9, UnseenStep DEF BeginCompression, TypeOK
<1>10. ASSUME NEW j \in Jobs, BeginTurn(j)
      PROVE  [Service!Next]_Mapped
  BY <1>10, UnseenStep DEF BeginTurn, TypeOK
<1>11. ASSUME NEW j \in Jobs, SubmitTransfer(j)
      PROVE  [Service!Next]_Mapped
  BY <1>11, UnseenStep DEF SubmitTransfer, TypeOK
<1>12. ASSUME NEW j \in Jobs, ContainerReady(j)
      PROVE  [Service!Next]_Mapped
  BY <1>12, UnseenStep DEF ContainerReady, TypeOK
<1>13. ASSUME NEW j \in Jobs, ContainerFails(j)
      PROVE  [Service!Next]_Mapped
  BY <1>13, UnseenStep DEF ContainerFails, TypeOK
<1>14. ASSUME NEW j \in Jobs, PackCancelled(j)
      PROVE  [Service!Next]_Mapped
  BY <1>14, UnseenStep DEF PackCancelled, TypeOK
<1>15. ASSUME NEW j \in Jobs, PurgeBeforeRegister(j)
      PROVE  [Service!Next]_Mapped
  <2>1. /\ transfers' = LiveTransfers
        /\ UNCHANGED <<published, reservations>>
        /\ \A i \in Jobs : phase'[i] = "idle" <=> phase[i] = "idle"
    BY <1>15 DEF PurgeBeforeRegister, PurgeExpired, TypeOK
  <2>2. QED
    BY <2>1, PurgeStep
<1>16. ASSUME NEW j \in Jobs, Register(j)
      PROVE  [Service!Next]_Mapped
  BY <1>16, RegisterStep
<1>17. ASSUME NEW j \in Jobs, RefuseTransfer(j)
      PROVE  [Service!Next]_Mapped
  BY <1>17, UnseenStep DEF RefuseTransfer, TypeOK
<1>18. ASSUME NEW j \in Jobs, ReportOperation(j)
      PROVE  [Service!Next]_Mapped
  BY <1>18, UnseenStep DEF ReportOperation, TypeOK
<1>19. ASSUME NEW j \in Jobs, ReleaseOperation(j)
      PROVE  [Service!Next]_Mapped
  <2>1. /\ phase[j] \notin {"idle", "done"}
        /\ reservations' = reservations \ {j}
        /\ phase' = [phase EXCEPT ![j] = "done"]
        /\ UNCHANGED <<transfers, published>>
    BY <1>19 DEF ReleaseOperation, Release
  <2>2. QED
    BY <2>1, ReleaseStep
<1>20. ASSUME NEW j \in Jobs, ReleaseRequest(j)
      PROVE  [Service!Next]_Mapped
  <2>1. /\ phase[j] \notin {"idle", "done"}
        /\ reservations' = reservations \ {j}
        /\ phase' = [phase EXCEPT ![j] = "done"]
        /\ UNCHANGED <<transfers, published>>
    BY <1>20 DEF ReleaseRequest, Release
  <2>2. QED
    BY <2>1, ReleaseStep
<1>21. ASSUME NEW j \in Jobs, RequestCancel(j)
      PROVE  [Service!Next]_Mapped
  BY <1>21, UnseenStep DEF RequestCancel, TypeOK
<1>22. ASSUME NEW j \in Jobs, MarkCancelling(j)
      PROVE  [Service!Next]_Mapped
  BY <1>22, UnseenStep DEF MarkCancelling, TypeOK
<1>23. ASSUME Purge
      PROVE  [Service!Next]_Mapped
  <2>1. /\ transfers' = LiveTransfers
        /\ UNCHANGED <<published, reservations, phase>>
    BY <1>23 DEF Purge, PurgeExpired
  <2>2. QED
    BY <2>1, PurgeStep
<1>24. ASSUME Tick
      PROVE  [Service!Next]_Mapped
  BY <1>24, UnseenStep DEF Tick, TypeOK
<1>25. ASSUME Quiet
      PROVE  [Service!Next]_Mapped
  BY <1>25, UnseenStep DEF Quiet, vars, TypeOK
<1>26. CASE UNCHANGED vars
  BY <1>26, UnseenStep DEF vars
<1>27. ASSUME NEW j \in Jobs, Recommend(j)
      PROVE  [Service!Next]_Mapped
  BY <1>27, UnseenStep DEF Recommend, TypeOK
<1>28. QED
  BY <1>1, <1>2, <1>3, <1>4, <1>5, <1>6, <1>7, <1>8, <1>9, <1>10, <1>11,
     <1>12, <1>13, <1>14, <1>15, <1>16, <1>17, <1>18, <1>19, <1>20, <1>21,
     <1>22, <1>23, <1>24, <1>25, <1>26, <1>27 DEF Next, UploadStep, WorkStep

\* The whole pipeline, with its slots, queue, threads and purges, implements the
\* abstract job service for every number of jobs and every setting of the limits.
THEOREM RefinementTheorem == Spec => ImplementsService
<1>1. Init => Service!Init
  BY DEF Init, Service!Init, JobState
<1>2. IInv /\ [Next]_vars => [Service!Next]_Mapped
  BY RefinementStep
<1>3. QED
  BY <1>1, <1>2, InductiveInvariant, PTL
     DEF Spec, ImplementsService, Service!Spec, Mapped
-----------------------------------------------------------------------------
(* Counters of uploads *)

Receiving == {j \in Jobs : phase[j] = "receiving"}
InFlight(c) == {j \in Jobs : client[j] = c /\ phase[j] \in {"waiting", "receiving"}}

CountsInv ==
    /\ upload_slots = MAX_CONCURRENT_UPLOADS - Cardinality(Receiving)
    /\ \A c \in Clients : /\ client_uploads[c] = Cardinality(InFlight(c))
                          /\ client_uploads[c] <= MAX_UPLOADS_PER_CLIENT

\* Adding or removing one job changes a finite count by one.
LEMMA CountOne ==
  ASSUME NEW S \in SUBSET Jobs, NEW j \in Jobs
  PROVE  /\ Cardinality(S) \in Nat
         /\ j \notin S => Cardinality(S \cup {j}) = Cardinality(S) + 1
         /\ j \in S => Cardinality(S \ {j}) = Cardinality(S) - 1
<1>1. IsFiniteSet(S)
  BY JobsAssumption, FS_Subset
<1>2. QED
  BY <1>1, FS_CardinalityType, FS_AddElement, FS_RemoveElement

\* A job that enters or leaves the two sets takes its counters with it.
LEMMA CountsMove ==
  ASSUME TypeOK, NEW j \in Jobs, NEW p \in Phases, Goto(j, p), UNCHANGED client,
         NEW d \in Clients, client[j] = d
  PROVE  /\ Receiving' = IF p = "receiving" THEN Receiving \cup {j} ELSE Receiving \ {j}
         /\ \A c \in Clients \ {d} : InFlight(c)' = InFlight(c)
         /\ InFlight(d)' = IF p \in {"waiting", "receiving"}
                           THEN InFlight(d) \cup {j} ELSE InFlight(d) \ {j}
BY DEF TypeOK, Goto, Receiving, InFlight

\* Admission counts the upload for its address and takes no permit.
LEMMA CountsReserve ==
  ASSUME TypeOK, CountsInv, NEW j \in Jobs, Reserve(j)
  PROVE  CountsInv'
<1>0. PICK d \in Clients : client[j] = d
  BY DEF TypeOK
<1>1. /\ phase[j] = "idle" /\ Goto(j, "waiting") /\ UNCHANGED <<client, upload_slots>>
      /\ client_uploads[client[j]] < MAX_UPLOADS_PER_CLIENT
      /\ client_uploads' = [client_uploads EXCEPT ![client[j]] = @ + 1]
  BY DEF Reserve, request_vars
<1>2. /\ Receiving' = Receiving /\ InFlight(d)' = InFlight(d) \cup {j}
      /\ \A c \in Clients \ {d} : InFlight(c)' = InFlight(c)
      /\ j \notin InFlight(d) /\ j \notin Receiving
  BY <1>0, <1>1, CountsMove DEF Phases, Receiving, InFlight
<1>3. Cardinality(InFlight(d)') = Cardinality(InFlight(d)) + 1
  <2>1. InFlight(d) \in SUBSET Jobs
    BY DEF InFlight
  <2>2. QED
    BY <1>2, <2>1, CountOne
<1>4. QED
  <2>1. client_uploads'[d] = client_uploads[d] + 1 /\ client_uploads[d] \in Int
        /\ \A c \in Clients \ {d} : client_uploads'[c] = client_uploads[c]
    BY <1>0, <1>1 DEF TypeOK
  <2>2. client_uploads'[d] = Cardinality(InFlight(d)') /\ client_uploads'[d] <= MAX_UPLOADS_PER_CLIENT
    BY <1>0, <1>1, <1>3, <2>1, LimitsAssumption DEF CountsInv
  <2>3. \A c \in Clients : /\ client_uploads'[c] = Cardinality(InFlight(c)')
                           /\ client_uploads'[c] <= MAX_UPLOADS_PER_CLIENT
    BY <1>2, <2>1, <2>2 DEF CountsInv
  <2>4. upload_slots' = MAX_CONCURRENT_UPLOADS - Cardinality(Receiving')
    BY <1>1, <1>2, LimitsAssumption DEF CountsInv
  <2>5. QED
    BY <2>3, <2>4 DEF CountsInv

\* A permit is taken by the upload that begins to be received.
LEMMA CountsAcquire ==
  ASSUME TypeOK, CountsInv, NEW j \in Jobs, AcquireSlot(j)
  PROVE  CountsInv'
<1>1. /\ phase[j] = "waiting" /\ Goto(j, "receiving") /\ UNCHANGED <<client, client_uploads>>
      /\ upload_slots' = upload_slots - 1
  BY DEF AcquireSlot, request_vars, upload_vars
<1>2. Receiving' = Receiving \cup {j} /\ j \notin Receiving
  BY <1>1 DEF Receiving, TypeOK, Goto
<1>3. \A c \in Clients : InFlight(c)' = InFlight(c)
  BY <1>1 DEF InFlight, TypeOK, Goto
<1>4. Cardinality(Receiving)' = Cardinality(Receiving) + 1 /\ Cardinality(Receiving) \in Nat
  BY <1>2, CountOne DEF Receiving
<1>5. QED
  BY <1>1, <1>3, <1>4, LimitsAssumption DEF CountsInv, TypeOK

\* A wait that timed out gives back the address's count and no slot.
LEMMA CountsTimeout ==
  ASSUME TypeOK, CountsInv, NEW j \in Jobs, SlotTimeout(j)
  PROVE  CountsInv'
<1>0. PICK d \in Clients : client[j] = d
  BY DEF TypeOK
<1>1. /\ phase[j] = "waiting" /\ Goto(j, "done") /\ UNCHANGED <<client, upload_slots>>
      /\ client_uploads' = [client_uploads EXCEPT ![client[j]] = @ - 1]
  BY DEF SlotTimeout, request_vars
<1>2. /\ Receiving' = Receiving /\ InFlight(d)' = InFlight(d) \ {j}
      /\ \A c \in Clients \ {d} : InFlight(c)' = InFlight(c)
      /\ j \in InFlight(d)
  BY <1>0, <1>1, CountsMove DEF Phases, Receiving, InFlight, TypeOK
<1>3. Cardinality(InFlight(d)') = Cardinality(InFlight(d)) - 1
  <2>1. InFlight(d) \in SUBSET Jobs
    BY DEF InFlight
  <2>2. QED
    BY <1>2, <2>1, CountOne
<1>4. QED
  <2>1. client_uploads'[d] = client_uploads[d] - 1 /\ client_uploads[d] \in Int
        /\ \A c \in Clients \ {d} : client_uploads'[c] = client_uploads[c]
    BY <1>0, <1>1 DEF TypeOK
  <2>2. client_uploads'[d] = Cardinality(InFlight(d)') /\ client_uploads'[d] <= MAX_UPLOADS_PER_CLIENT
    BY <1>0, <1>1, <1>3, <2>1, LimitsAssumption DEF CountsInv
  <2>3. \A c \in Clients : /\ client_uploads'[c] = Cardinality(InFlight(c)')
                           /\ client_uploads'[c] <= MAX_UPLOADS_PER_CLIENT
    BY <1>2, <2>1, <2>2 DEF CountsInv
  <2>4. upload_slots' = MAX_CONCURRENT_UPLOADS - Cardinality(Receiving')
    BY <1>1, <1>2, LimitsAssumption DEF CountsInv
  <2>5. QED
    BY <2>3, <2>4 DEF CountsInv

\* Every other end of an upload gives back both.
LEMMA CountsLeave ==
  ASSUME TypeOK, CountsInv, NEW j \in Jobs, NEW p \in Phases \ {"waiting", "receiving"},
         LeaveSlot(j), Goto(j, p), UNCHANGED client
  PROVE  CountsInv'
<1>0. PICK d \in Clients : client[j] = d
  BY DEF TypeOK
<1>1. /\ phase[j] = "receiving" /\ upload_slots' = upload_slots + 1
      /\ client_uploads' = [client_uploads EXCEPT ![client[j]] = @ - 1]
  BY DEF LeaveSlot
<1>2. /\ Receiving' = Receiving \ {j} /\ j \in Receiving
      /\ InFlight(d)' = InFlight(d) \ {j} /\ j \in InFlight(d)
      /\ \A c \in Clients \ {d} : InFlight(c)' = InFlight(c)
  BY <1>0, <1>1, CountsMove DEF Receiving, InFlight
<1>3. Cardinality(InFlight(d)') = Cardinality(InFlight(d)) - 1
  <2>1. InFlight(d) \in SUBSET Jobs
    BY DEF InFlight
  <2>2. QED
    BY <1>2, <2>1, CountOne
<1>4. Cardinality(Receiving)' = Cardinality(Receiving) - 1 /\ Cardinality(Receiving) \in Nat
  BY <1>2, CountOne DEF Receiving
<1>5. QED
  <2>1. client_uploads'[d] = client_uploads[d] - 1 /\ client_uploads[d] \in Int
        /\ \A c \in Clients \ {d} : client_uploads'[c] = client_uploads[c]
    BY <1>0, <1>1 DEF TypeOK
  <2>2. client_uploads'[d] = Cardinality(InFlight(d)') /\ client_uploads'[d] <= MAX_UPLOADS_PER_CLIENT
    BY <1>0, <1>1, <1>3, <2>1, LimitsAssumption DEF CountsInv
  <2>3. \A c \in Clients : /\ client_uploads'[c] = Cardinality(InFlight(c)')
                           /\ client_uploads'[c] <= MAX_UPLOADS_PER_CLIENT
    BY <1>2, <2>1, <2>2 DEF CountsInv
  <2>4. upload_slots' = MAX_CONCURRENT_UPLOADS - Cardinality(Receiving')
    BY <1>1, <1>2, <1>4, LimitsAssumption DEF CountsInv
  <2>5. QED
    BY <2>3, <2>4 DEF CountsInv

\* Behind the upload nothing touches the counters.
LEMMA CountsStay ==
  ASSUME TypeOK, CountsInv, UNCHANGED <<client, upload_slots, client_uploads>>,
         \A j \in Jobs : phase'[j] = phase[j] \/ {phase[j], phase'[j]} \cap {"waiting", "receiving"} = {}
  PROVE  CountsInv'
<1>1. Receiving' = Receiving
  BY DEF Receiving
<1>2. \A c \in Clients : InFlight(c)' = InFlight(c)
  BY DEF InFlight
<1>3. QED
  BY <1>1, <1>2 DEF CountsInv

\* The cases of a step.
LEMMA CountsStep == TypeOK /\ CountsInv /\ [Next]_vars => CountsInv'
<1> SUFFICES ASSUME TypeOK, CountsInv, [Next]_vars
             PROVE  CountsInv'
  OBVIOUS
<1>1. ASSUME NEW j \in Jobs, Reserve(j) \/ AcquireSlot(j) \/ SlotTimeout(j)
      PROVE  CountsInv'
  BY <1>1, CountsReserve, CountsAcquire, CountsTimeout
<1>2. ASSUME NEW j \in Jobs, UploadFails(j) \/ StartDecompress(j)
      PROVE  CountsInv'
  <2>1. LeaveSlot(j) /\ Goto(j, "done") /\ UNCHANGED client
    BY <1>2 DEF UploadFails, StartDecompress, request_vars
  <2>2. QED
    BY <2>1, CountsLeave DEF Phases
<1>3. ASSUME NEW j \in Jobs, StartOperation(j) \/ SubmitRecommend(j) \/ ReadArchive(j)
      PROVE  CountsInv'
  <2>1. LeaveSlot(j) /\ UNCHANGED client
        /\ (Goto(j, "queued") \/ Goto(j, "queued_recommend") \/ Goto(j, "reading"))
    BY <1>3 DEF StartOperation, SubmitRecommend, ReadArchive, request_vars
  <2>2. QED
    BY <2>1, CountsLeave DEF Phases
<1>4. ASSUME NEW j \in Jobs, BeginCompression(j) \/ BeginTurn(j) \/ Recommend(j) \/ SubmitTransfer(j)
      PROVE  CountsInv'
  <2>1. UNCHANGED <<client, upload_slots, client_uploads>>
    BY <1>4 DEF BeginCompression, BeginTurn, Recommend, SubmitTransfer, request_vars, upload_vars
  <2>2. \A i \in Jobs : phase'[i] = phase[i] \/ {phase[i], phase'[i]} \cap {"waiting", "receiving"} = {}
    BY <1>4 DEF BeginCompression, BeginTurn, Recommend, SubmitTransfer, TypeOK, Goto
  <2>3. QED
    BY <2>1, <2>2, CountsStay
<1>5. ASSUME NEW j \in Jobs, ContainerReady(j) \/ ContainerFails(j) \/ PackCancelled(j) \/ PurgeBeforeRegister(j)
      PROVE  CountsInv'
  <2>1. UNCHANGED <<client, upload_slots, client_uploads>>
    BY <1>5 DEF ContainerReady, ContainerFails, PackCancelled, PurgeBeforeRegister, request_vars, upload_vars
  <2>2. \A i \in Jobs : phase'[i] = phase[i] \/ {phase[i], phase'[i]} \cap {"waiting", "receiving"} = {}
    BY <1>5 DEF ContainerReady, ContainerFails, PackCancelled, PurgeBeforeRegister, TypeOK, Goto
  <2>3. QED
    BY <2>1, <2>2, CountsStay
<1>6. ASSUME NEW j \in Jobs, Register(j) \/ RefuseTransfer(j) \/ ReportOperation(j)
      PROVE  CountsInv'
  <2>1. UNCHANGED <<client, upload_slots, client_uploads>>
    BY <1>6 DEF Register, RefuseTransfer, ReportOperation, request_vars, upload_vars
  <2>2. \A i \in Jobs : phase'[i] = phase[i] \/ {phase[i], phase'[i]} \cap {"waiting", "receiving"} = {}
    BY <1>6 DEF Register, RefuseTransfer, ReportOperation, TypeOK, Goto
  <2>3. QED
    BY <2>1, <2>2, CountsStay
<1>7. ASSUME NEW j \in Jobs, ReleaseOperation(j) \/ ReleaseRequest(j) \/ RequestCancel(j) \/ MarkCancelling(j)
      PROVE  CountsInv'
  <2>1. UNCHANGED <<client, upload_slots, client_uploads>>
    BY <1>7 DEF ReleaseOperation, ReleaseRequest, RequestCancel, MarkCancelling, request_vars, upload_vars
  <2>2. \A i \in Jobs : phase'[i] = phase[i] \/ {phase[i], phase'[i]} \cap {"waiting", "receiving"} = {}
    BY <1>7 DEF ReleaseOperation, ReleaseRequest, RequestCancel, MarkCancelling, TypeOK, Goto
  <2>3. QED
    BY <2>1, <2>2, CountsStay
<1>8. CASE Purge \/ Tick \/ Quiet \/ UNCHANGED vars
  <2>1. UNCHANGED <<client, upload_slots, client_uploads, phase>>
    BY <1>8 DEF Purge, Tick, Quiet, vars, request_vars, upload_vars
  <2>2. QED
    BY <2>1, CountsStay
<1>9. QED
  BY <1>1, <1>2, <1>3, <1>4, <1>5, <1>6, <1>7, <1>8 DEF Next, UploadStep, WorkStep

(* The semaphore and the counters per address are never wrong by one, on any
   path of the exceptions and timeouts of an upload. *)
THEOREM CountsTheorem == Spec => []UploadCountsExact
<1>1. Init => CountsInv
  <2> SUFFICES ASSUME Init PROVE CountsInv
    OBVIOUS
  <2>1. Receiving = {} /\ \A c \in Clients : InFlight(c) = {}
    BY DEF Init, Receiving, InFlight
  <2>2. Cardinality({}) = 0
    BY FS_EmptySet
  <2>3. upload_slots = MAX_CONCURRENT_UPLOADS /\ \A c \in Clients : client_uploads[c] = 0
    BY DEF Init
  <2>4. QED
    BY <2>1, <2>2, <2>3, LimitsAssumption DEF CountsInv
<1>2. CountsInv => UploadCountsExact
  <2> SUFFICES ASSUME CountsInv PROVE UploadCountsExact
    OBVIOUS
  <2>1. Cardinality(Receiving) \in Nat
    BY JobsAssumption, FS_Subset, FS_CardinalityType DEF Receiving
  <2>2. QED
    BY <2>1, LimitsAssumption DEF CountsInv, UploadCountsExact, Receiving, InFlight
<1>3. QED
  BY <1>1, <1>2, CountsStep, TypeCorrect, PTL DEF Spec

-----------------------------------------------------------------------------
(* The quota *)

\* The bytes of a job's files when the jobs in kept have kept their originals.
Weight(kept) ==
    [j \in Jobs |-> PackedSize[j] + (IF j \in kept THEN OriginalSize[j] ELSE 0)]

\* Weights are numbers, and the files of a job have the size that its weight says.
LEMMA WeightFacts ==
    /\ \A kept : Weight(kept) \in [Jobs -> Nat]
    /\ \A j \in Jobs : StoredSize(j) = Weight(originals)[j]
  BY SizesAssumption DEF Weight, StoredSize

\* MapThenSumSet with the weights written out, as a function of the originals.
SumOf(kept, listed) ==
    LET iter[s \in SUBSET listed] ==
          IF s = {} THEN 0
          ELSE LET x == CHOOSE x \in s : TRUE
               IN  (PackedSize[x] + (IF x \in kept THEN OriginalSize[x] ELSE 0))
                      + iter[s \ {x}]
    IN  iter[listed]

\* What _stored_bytes adds up depends on the listed jobs and the kept originals
\* alone, before a step and after it.
LEMMA StoredIsSum ==
    /\ \A listed : StoredBytes(listed) = SumOf(originals, listed)
    /\ StoredBytes(transfers)' = SumOf(originals', transfers')
<1>1. \A listed : StoredBytes(listed) = SumOf(originals, listed)
  BY DEF StoredBytes, MapThenSumSet, MapThenFoldSet, StoredSize, SumOf
<1>2. StoredBytes(transfers)' = SumOf(originals', transfers')
  BY DEF StoredBytes, MapThenSumSet, MapThenFoldSet, StoredSize, SumOf
<1>3. QED
  BY <1>1, <1>2

\* The recursion of MapThenSumSet computes the sum of the weights.
LEMMA SumOfIsSum ==
    ASSUME NEW kept, NEW listed \in SUBSET Jobs
    PROVE  \E g : SubsetSums(g, Weight(kept), listed) /\ SumOf(kept, listed) = g[listed]
<1> DEFINE w == Weight(kept)
           Sol(g) == g = [s \in SUBSET listed |->
                            IF s = {} THEN 0
                            ELSE (PackedSize[CHOOSE x \in s : TRUE]
                                    + (IF (CHOOSE x \in s : TRUE) \in kept
                                       THEN OriginalSize[CHOOSE x \in s : TRUE] ELSE 0))
                                 + g[s \ {CHOOSE x \in s : TRUE}]]
           iter == CHOOSE g : Sol(g)
<1>1. \A x \in Jobs :
        w[x] = PackedSize[x] + (IF x \in kept THEN OriginalSize[x] ELSE 0)
  BY DEF Weight
<1>2. \A g : SubsetSums(g, w, listed) <=> Sol(g)
  <2> SUFFICES ASSUME NEW g
               PROVE  [s \in SUBSET listed |->
                         IF s = {} THEN 0 ELSE w[Chosen(s)] + g[s \ {Chosen(s)}]]
                      = [s \in SUBSET listed |->
                            IF s = {} THEN 0
                            ELSE (PackedSize[CHOOSE x \in s : TRUE]
                                    + (IF (CHOOSE x \in s : TRUE) \in kept
                                       THEN OriginalSize[CHOOSE x \in s : TRUE] ELSE 0))
                                 + g[s \ {CHOOSE x \in s : TRUE}]]
    BY Zenon DEF SubsetSums
  <2>1. ASSUME NEW s \in SUBSET listed, s # {}
        PROVE  w[Chosen(s)] = PackedSize[CHOOSE x \in s : TRUE]
                                + (IF (CHOOSE x \in s : TRUE) \in kept
                                   THEN OriginalSize[CHOOSE x \in s : TRUE] ELSE 0)
    <3>1. Chosen(s) \in Jobs
      BY <2>1, ChosenMember
    <3> HIDE DEF w
    <3>2. QED
      BY <1>1, <3>1 DEF Chosen
  <2> HIDE DEF w
  <2>2. QED
    BY <2>1 DEF Chosen
<1>3. \E g : SubsetSums(g, w, listed)
  <2>1. IsFiniteSet(listed) /\ \A x \in listed : w[x] \in Nat
    BY WeightFacts, JobsAssumption, FS_Subset
  <2> HIDE DEF w
  <2>2. QED
    BY <2>1, SumsExist
<1>4. Sol(iter)
  <2> HIDE DEF Sol
  <2>1. QED
    BY <1>2, <1>3
<1>5. SubsetSums(iter, w, listed)
  <2> HIDE DEF Sol, iter, w
  <2>1. QED
    BY <1>2, <1>4
<1>6. SumOf(kept, listed) = iter[listed]
  BY DEF SumOf
<1>7. QED
  <2> HIDE DEF iter
  <2>1. QED
    BY <1>5, <1>6

\* Totals of the stored files: empty lists have none, a new transfer adds its
\* weight, fewer transfers weigh less, and only the originals of the listed jobs
\* matter.
LEMMA SumOfFacts ==
    ASSUME NEW kept
    PROVE  /\ SumOf(kept, {}) = 0
           /\ \A listed \in SUBSET Jobs : SumOf(kept, listed) \in Nat
           /\ \A listed \in SUBSET Jobs : \A fewer \in SUBSET listed :
                SumOf(kept, fewer) <= SumOf(kept, listed)
           /\ \A listed \in SUBSET Jobs : \A j \in Jobs \ listed :
                SumOf(kept, listed \cup {j}) = SumOf(kept, listed) + Weight(kept)[j]
<1> DEFINE w == Weight(kept)
<1>1. IsFiniteSet(Jobs) /\ \A x \in Jobs : w[x] \in Nat
  BY WeightFacts, JobsAssumption
<1> HIDE DEF w
<1>2. PICK g : SubsetSums(g, w, Jobs)
  BY <1>1, SumsExist
<1>3. ASSUME NEW listed \in SUBSET Jobs PROVE SumOf(kept, listed) = g[listed]
  <2>1. PICK h : SubsetSums(h, w, listed) /\ SumOf(kept, listed) = h[listed]
    BY SumOfIsSum DEF w
  <2>2. IsFiniteSet(listed) /\ \A x \in listed : w[x] \in Nat
    BY <1>1, FS_Subset
  <2>3. SameWeights(w, w, listed) /\ listed \in SUBSET (Jobs \cap listed)
    BY DEF SameWeights
  <2>4. g[listed] = h[listed]
    BY <1>1, <1>2, <2>1, <2>2, <2>3, SumsAgree
  <2>5. QED
    BY <2>1, <2>4
<1>4. g[{}] = 0 /\ \A s \in SUBSET Jobs : AnyFirst(g, w, s)
  BY <1>1, <1>2, SumsAnyOrder
<1>5. \A t \in SUBSET Jobs : \A s \in SUBSET t : g[s] <= g[t]
  BY <1>1, <1>2, SumsShrink
<1>6. ASSUME NEW s \in SUBSET Jobs, NEW j \in Jobs \ s PROVE g[s \cup {j}] = g[s] + w[j]
  BY <1>1, <1>2, SumsAdd
<1>7. SumOf(kept, {}) = 0 /\ \A listed \in SUBSET Jobs : SumOf(kept, listed) \in Nat
  BY <1>3, <1>4 DEF AnyFirst
<1>8. \A listed \in SUBSET Jobs : \A fewer \in SUBSET listed :
        SumOf(kept, fewer) <= SumOf(kept, listed)
  BY <1>3, <1>5
<1>9. ASSUME NEW listed \in SUBSET Jobs, NEW j \in Jobs \ listed
      PROVE  SumOf(kept, listed \cup {j}) = SumOf(kept, listed) + w[j]
  <2>1. listed \cup {j} \in SUBSET Jobs
    OBVIOUS
  <2>2. QED
    BY <1>3, <1>6, <2>1
<1>10. QED
  BY <1>7, <1>8, <1>9 DEF w

\* The original of a job that is not listed does not count.
LEMMA SumOfListedOnly ==
    ASSUME NEW kept, NEW listed \in SUBSET Jobs, NEW j \in Jobs \ listed
    PROVE  SumOf(kept \cup {j}, listed) = SumOf(kept, listed)
<1> DEFINE more == kept \cup {j}
           v == Weight(more)
           w == Weight(kept)
<1>1. \A x \in listed : v[x] \in Nat /\ w[x] \in Nat
  BY WeightFacts
<1>2. SameWeights(v, w, listed)
  BY DEF SameWeights, Weight
<1>3. IsFiniteSet(listed)
  BY JobsAssumption, FS_Subset
<1>4. PICK g : SubsetSums(g, v, listed) /\ SumOf(more, listed) = g[listed]
  <2> HIDE DEF more
  <2>1. QED
    BY SumOfIsSum
<1>5. PICK h : SubsetSums(h, w, listed) /\ SumOf(kept, listed) = h[listed]
  BY SumOfIsSum
<1> HIDE DEF v, w, more
<1>6. g[listed] = h[listed]
  BY <1>1, <1>2, <1>3, <1>4, <1>5, SumsAgree
<1>7. QED
  BY <1>4, <1>5, <1>6 DEF more

\* The quota with what makes it inductive: an original is kept by the
\* registration and not before, so the test of the quota saw all that a job adds.
QuotaInv ==
    /\ originals \subseteq published
    /\ SumOf(originals, transfers) <= MAX_TRANSFER_BYTES

\* A step that at most takes transfers off the list.
Fewer ==
    /\ transfers' \subseteq transfers
    /\ UNCHANGED <<originals, published>>

\* Fewer transfers with the same originals keep within the quota.
LEMMA QuotaFewer ==
    ASSUME TypeOK, QuotaInv, Fewer
    PROVE  QuotaInv'
<1>1. SumOf(originals, transfers') <= SumOf(originals, transfers)
  BY SumOfFacts DEF TypeOK, Fewer
<1>2. SumOf(originals, transfers) \in Nat /\ SumOf(originals, transfers') \in Nat
  BY SumOfFacts DEF TypeOK, Fewer
<1>3. SumOf(originals, transfers') <= MAX_TRANSFER_BYTES
  BY <1>1, <1>2, LimitsAssumption DEF QuotaInv
<1>4. SumOf(originals', transfers') <= MAX_TRANSFER_BYTES
  BY <1>3, Zenon DEF Fewer
<1>5. QED
  BY <1>4 DEF QuotaInv, Fewer

\* Registration tests the quota against what it is about to add: the container
\* always, the original if it is kept.
LEMMA QuotaRegister ==
    ASSUME TypeOK, PublishInv, QuotaInv, NEW j \in Jobs, Register(j)
    PROVE  QuotaInv'
<1> DEFINE stored == SumOf(originals, transfers)
<1>1. j \notin published /\ j \notin transfers /\ j \notin originals
  BY DEF Register, PublishInv, BeforeRegister, QuotaInv
<1>2. j \in Jobs \ transfers /\ transfers \in SUBSET Jobs
  BY <1>1 DEF TypeOK
<1>3. stored \in Nat /\ PackedSize[j] \in Nat /\ OriginalSize[j] \in Nat
  BY <1>2, SumOfFacts, SizesAssumption
<1>4. StoredBytes(transfers) = stored
  BY StoredIsSum
<1>5. stored + PackedSize[j] <= MAX_TRANSFER_BYTES
  <2> HIDE DEF stored
  <2>1. ~(stored + PackedSize[j] > MAX_TRANSFER_BYTES)
    BY <1>4 DEF Register, Refused
  <2>2. QED
    BY <1>3, <2>1, LimitsAssumption
<1>6. transfers' = transfers \cup {j} /\ published' = published \cup {j}
  BY DEF Register
<1>7. CASE KeepsOriginal(j)
  <2>1. originals' = originals \cup {j}
    BY <1>7 DEF Register
  <2>2. stored + PackedSize[j] + OriginalSize[j] <= MAX_TRANSFER_BYTES
    BY <1>4, <1>7 DEF KeepsOriginal
  <2>3. SumOf(originals \cup {j}, transfers) = stored
    BY <1>2, SumOfListedOnly
  <2>4. Weight(originals \cup {j})[j] = PackedSize[j] + OriginalSize[j]
    BY DEF Weight
  <2>5. SumOf(originals \cup {j}, transfers \cup {j})
          = SumOf(originals \cup {j}, transfers) + Weight(originals \cup {j})[j]
    BY <1>2, SumOfFacts
  <2> HIDE DEF stored
  <2>6. SumOf(originals \cup {j}, transfers \cup {j}) <= MAX_TRANSFER_BYTES
    BY <1>3, <2>2, <2>3, <2>4, <2>5
  <2>7. SumOf(originals', transfers') <= MAX_TRANSFER_BYTES
    BY <1>6, <2>1, <2>6, Zenon
  <2>8. QED
    BY <1>6, <2>1, <2>7 DEF QuotaInv
<1>8. CASE ~KeepsOriginal(j)
  <2>1. originals' = originals
    BY <1>8 DEF Register
  <2>2. Weight(originals)[j] = PackedSize[j]
    BY <1>1, SizesAssumption DEF Weight
  <2>3. SumOf(originals, transfers \cup {j}) = stored + Weight(originals)[j]
    BY <1>2, SumOfFacts
  <2> HIDE DEF stored
  <2>4. SumOf(originals, transfers \cup {j}) <= MAX_TRANSFER_BYTES
    BY <1>5, <2>2, <2>3
  <2>5. SumOf(originals', transfers') <= MAX_TRANSFER_BYTES
    BY <1>6, <2>1, <2>4, Zenon
  <2>6. QED
    BY <1>6, <2>1, <2>5 DEF QuotaInv
<1>9. QED
  BY <1>7, <1>8

\* The service starts with nothing stored.
LEMMA QuotaInit == Init => QuotaInv
<1> SUFFICES ASSUME Init PROVE QuotaInv
  OBVIOUS
<1>1. originals = {} /\ transfers = {}
  BY DEF Init
<1>2. SumOf(originals, transfers) = 0
  BY <1>1, SumOfFacts
<1>3. QED
  BY <1>1, <1>2, LimitsAssumption DEF QuotaInv

\* Only a registration adds to what is stored.
LEMMA QuotaStep == TypeOK /\ PublishInv /\ QuotaInv /\ [Next]_vars => QuotaInv'
<1> SUFFICES ASSUME TypeOK, PublishInv, QuotaInv, [Next]_vars
             PROVE  QuotaInv'
  OBVIOUS
<1>1. ASSUME NEW j \in Jobs, Reserve(j)
      PROVE  Fewer
  BY <1>1 DEF Reserve, PurgeExpired, LiveTransfers, Fewer
<1>2. ASSUME NEW j \in Jobs, AcquireSlot(j)
      PROVE  Fewer
  BY <1>2 DEF AcquireSlot, store_vars, Fewer
<1>3. ASSUME NEW j \in Jobs, SlotTimeout(j)
      PROVE  Fewer
  BY <1>3 DEF SlotTimeout, store_vars, Fewer
<1>4. ASSUME NEW j \in Jobs, UploadFails(j)
      PROVE  Fewer
  BY <1>4 DEF UploadFails, store_vars, Fewer
<1>5. ASSUME NEW j \in Jobs, StartOperation(j)
      PROVE  Fewer
  BY <1>5 DEF StartOperation, store_vars, Fewer
<1>6. ASSUME NEW j \in Jobs, SubmitRecommend(j)
      PROVE  Fewer
  BY <1>6 DEF SubmitRecommend, store_vars, Fewer
<1>7. ASSUME NEW j \in Jobs, ReadArchive(j)
      PROVE  Fewer
  BY <1>7 DEF ReadArchive, store_vars, Fewer
<1>8. ASSUME NEW j \in Jobs, StartDecompress(j)
      PROVE  Fewer
  BY <1>8 DEF StartDecompress, store_vars, Fewer
<1>9. ASSUME NEW j \in Jobs, BeginCompression(j)
      PROVE  Fewer
  BY <1>9 DEF BeginCompression, store_vars, Fewer
<1>10. ASSUME NEW j \in Jobs, BeginTurn(j)
      PROVE  Fewer
  BY <1>10 DEF BeginTurn, store_vars, Fewer
<1>11. ASSUME NEW j \in Jobs, Recommend(j)
      PROVE  Fewer
  BY <1>11 DEF Recommend, store_vars, Fewer
<1>12. ASSUME NEW j \in Jobs, SubmitTransfer(j)
      PROVE  Fewer
  BY <1>12 DEF SubmitTransfer, store_vars, Fewer
<1>13. ASSUME NEW j \in Jobs, ContainerReady(j)
      PROVE  Fewer
  BY <1>13 DEF ContainerReady, store_vars, Fewer
<1>14. ASSUME NEW j \in Jobs, ContainerFails(j)
      PROVE  Fewer
  BY <1>14 DEF ContainerFails, store_vars, Fewer
<1>15. ASSUME NEW j \in Jobs, PackCancelled(j)
      PROVE  Fewer
  BY <1>15 DEF PackCancelled, store_vars, Fewer
<1>16. ASSUME NEW j \in Jobs, PurgeBeforeRegister(j)
      PROVE  Fewer
  BY <1>16 DEF PurgeBeforeRegister, PurgeExpired, LiveTransfers, Fewer
<1>17. ASSUME NEW j \in Jobs, RefuseTransfer(j)
      PROVE  Fewer
  BY <1>17 DEF RefuseTransfer, store_vars, Fewer
<1>18. ASSUME NEW j \in Jobs, ReportOperation(j)
      PROVE  Fewer
  BY <1>18 DEF ReportOperation, store_vars, Fewer
<1>19. ASSUME NEW j \in Jobs, ReleaseOperation(j)
      PROVE  Fewer
  BY <1>19 DEF ReleaseOperation, store_vars, Fewer
<1>20. ASSUME NEW j \in Jobs, ReleaseRequest(j)
      PROVE  Fewer
  BY <1>20 DEF ReleaseRequest, store_vars, Fewer
<1>21. ASSUME NEW j \in Jobs, RequestCancel(j)
      PROVE  Fewer
  BY <1>21 DEF RequestCancel, store_vars, Fewer
<1>22. ASSUME NEW j \in Jobs, MarkCancelling(j)
      PROVE  Fewer
  BY <1>22 DEF MarkCancelling, store_vars, Fewer
<1>23. ASSUME Purge
      PROVE  Fewer
  BY <1>23 DEF Purge, PurgeExpired, LiveTransfers, Fewer
<1>24. ASSUME Tick
      PROVE  Fewer
  BY <1>24 DEF Tick, store_vars, Fewer
<1>25. ASSUME Quiet
      PROVE  Fewer
  BY <1>25 DEF Quiet, vars, store_vars, Fewer
<1>26. CASE UNCHANGED vars
  <2>1. Fewer
    BY <1>26 DEF vars, store_vars, Fewer
  <2>2. QED
    BY <2>1, QuotaFewer
<1>27. ASSUME NEW j \in Jobs, Register(j)
      PROVE  QuotaInv'
  BY <1>27, QuotaRegister
<1>28. CASE Next
  <2>1. Fewer \/ \E j \in Jobs : Register(j)
    BY <1>1, <1>2, <1>3, <1>4, <1>5, <1>6, <1>7, <1>8, <1>9, <1>10, <1>11,
       <1>12, <1>13, <1>14, <1>15, <1>16, <1>17, <1>18, <1>19, <1>20,
       <1>21, <1>22, <1>23, <1>24, <1>25, <1>28 DEF Next, UploadStep,
       WorkStep
  <2>2. QED
    BY <1>27, <2>1, QuotaFewer
<1>29. QED
  BY <1>26, <1>28

\* The listed containers and kept originals fit MAX_TRANSFER_BYTES in every
\* state, for any number of jobs of any sizes and in every interleaving of their
\* registrations: _register_transfer tests the quota with all that it adds.
THEOREM QuotaTheorem == Spec => []QuotaKept
<1> DEFINE Q == TypeOK /\ PublishInv /\ QuotaInv
<1>1. Init => Q
  BY TypeInit, PublishInit, QuotaInit
<1>2. Q /\ [Next]_vars => Q'
  BY TypeStep, PublishStep, QuotaStep
<1>3. Q => QuotaKept
  BY StoredIsSum DEF QuotaInv, QuotaKept
<1>4. QED
  BY <1>1, <1>2, <1>3, PTL DEF Spec
=============================================================================
