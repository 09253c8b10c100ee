SPECIFICATION FairSpec
CONSTANTS
    f1 = f1
    f2 = f2
    big = big
    junk = junk
    None = None
    Conns <- MCPair
    Users <- MCUsers
    UserOf <- MCPairUserOf
    Files <- MCFiles
    Containers <- MCContainers
    Size <- MCSize
    MAX_INBOX_FILES = 2
    MAX_INBOX_BYTES = 2
    Calls <- MCTwoCalls
    Sends <- MCTwoSends
    LateClients = {"ann1"}
INVARIANTS
    TypeOK
PROPERTIES
    EveryCallIsAnswered
