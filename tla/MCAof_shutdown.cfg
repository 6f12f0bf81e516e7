SPECIFICATION Spec
CONSTANTS
    Policies = {"everysec"}
    MaxAppends = 3
    MaxRewrites = 1
    MaxCrashes = 0
    RecordSize <- Sizes
    BlockSize <- Snapshot
    max_pending_bytes = 2
    max_pending_commands = 2
    max_snapshot_queue_bytes = 2
INVARIANTS
    ShutdownKeepsCommands
