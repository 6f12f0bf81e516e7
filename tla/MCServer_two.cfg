SPECIFICATION Spec
CONSTANTS
    Clients = {c1, c2, c3}
    Fds <- TwoFds
    NoOwner = NoOwner
    Kinds = {"get"}
    resume_bytes = 0
    soft_bytes = 1
    hard_bytes = 2
    kMaxQueryBufferSize = 2
    MaxSent = 1
    MaxPollerErrors = 1
SYMMETRY Symmetry
INVARIANTS
    RegistrationsAgree
    NeverStranded
