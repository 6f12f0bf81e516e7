SPECIFICATION Spec
CONSTANTS
    kDefaultBufferSize = 2
    kProtoNodeSize = 2
    MaxIovCount = 3
    hard_bytes = 6
    Modulus = 7
INVARIANTS
    PendingAgrees
PROPERTY
    ImplementsByteQueue
