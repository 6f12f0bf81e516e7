SPECIFICATION FairSpec
CONSTANTS
    Policies = {"always", "everysec", "no"}
    MaxAppends = 3
    MaxRewrites = 1
    MaxCrashes = 1
    RecordSize <- Sizes
    BlockSize <- Snapshot
    max_pending_bytes = 2
    max_pending_commands = 2
    max_snapshot_queue_bytes = 2
INVARIANTS
    TypeOK
    LogComplete
    AlwaysIsDurable
    ShutdownDrains
    SizeMatchesFile
    NoSwapDuringIO
    NoLostWakeup
PROPERTIES
    ImplementsDurableLog
    RewriteEnds
    ShutdownEnds
    EverySecSyncs
