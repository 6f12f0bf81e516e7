SPECIFICATION Spec
CONSTANTS
    k1 = k1
    k2 = k2
    a = a
    Keys <- TwoKeys
    Elements <- OneElement
    MaxTime = 2
SYMMETRY Symmetry
INVARIANTS
    NoOrphanTtl
    ReplayAgrees

    
