SPECIFICATION FairSpec
CONSTANTS
    Clients = {c1}
    Fds <- OneFd
    NoOwner = NoOwner
    Kinds = {"get", "mget", "set", "quit", "bad"}
    resume_bytes = 1
    soft_bytes = 2
    hard_bytes = 3
    kMaxQueryBufferSize = 3
    MaxSent = 2
    MaxPollerErrors = 0
INVARIANTS
    OutputBounded
    RepliesInOrder
    RefusedMutationIsLast
PROPERTIES
    PausedMeansQuiet
    EveryRequestIsAnswered
    ConnectionsEnd
