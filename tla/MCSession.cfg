CHECK_DEADLOCK FALSE
SPECIFICATION Spec
CONSTANTS
    Requests <- AllRequests
    MaxRequests = 2
    MaxCrashes = 2
    kInitialCapacity = 16
    kResizeThreshold = 32
    kGrowthSlack = 10
    kMaxCommandElements = 3
    kMaxQueryBufferSize = 40
    kReadChunkSize = 12
    max_replay_command_bytes = 25
INVARIANTS
    RequestsSurviveCuts
    AnswersMatch
    OnlyOversizedCommandsAreRefused
PROPERTY
    RecoversWholeCommands
