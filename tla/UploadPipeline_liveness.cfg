SPECIFICATION FairSpec
CONSTANTS
    Jobs = {j1, j2}
    Clients = {"phone"}
    MAX_TRANSFERS = 2
    MAX_TRANSFER_BYTES = 3
    MAX_PENDING_JOBS = 2
    MAX_CONCURRENT_UPLOADS = 1
    MAX_UPLOADS_PER_CLIENT = 2
    MAX_CONCURRENT_COMPRESSIONS = 1
    TRANSFER_TTL = 0
    KEEP_ORIGINAL = TRUE
    OriginalSize <- MCOriginalSize
    PackedSize <- MCPackedSize
    Kinds = {"compress", "transfer", "archive", "decompress", "session"}
    MaxTime = 1
PROPERTIES
    EveryReservationEnds
    EveryOperationFinishes
