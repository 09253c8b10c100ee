SPECIFICATION Spec
CONSTANTS
    f1 = f1
    f2 = f2
    big = big
    junk = junk
    None = None
    Conns <- MCConns
    Users <- MCUsers
    UserOf <- MCUserOf
    Files <- MCFiles
    Containers <- MCContainers
    Size <- MCSize
    MAX_INBOX_FILES = 2
    MAX_INBOX_BYTES = 2
    Calls <- MCCalls
    Sends <- MCSends
    LateClients = {"ann1"}
SYMMETRY FileSymmetry
INVARIANTS
    OneHandlerPerInbox
    CapacityKept
    AcknowledgedMeansReceived
    ReceivedOnce
    SentMeansAccepted
PROPERTIES
    LeavesOnlyWhenSent
