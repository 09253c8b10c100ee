SPECIFICATION Spec
CONSTANTS
    Jobs = {j1, j2, j3}
    Clients = {"phone", "laptop"}
    MAX_TRANSFERS = 2
    MAX_TRANSFER_BYTES = 3
    MAX_PENDING_JOBS = 2
    MAX_CONCURRENT_UPLOADS = 1
    MAX_UPLOADS_PER_CLIENT = 1
    MAX_CONCURRENT_COMPRESSIONS = 1
    TRANSFER_TTL = 0
    KEEP_ORIGINAL = TRUE
    OriginalSize <- MCOriginalSize
    PackedSize <- MCPackedSize
    Kinds = {"compress", "transfer", "archive", "decompress", "session"}
    MaxTime = 1
SYMMETRY JobSymmetry
INVARIANTS
    TypeOK
    RoomForEveryJob
    UploadCountsExact
    QuotaKept
    OutcomeMatchesStore
PROPERTIES
    StatusNeverGoesBack
    ImplementsService
