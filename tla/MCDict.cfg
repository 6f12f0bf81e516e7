SPECIFICATION ScanSpec
CONSTANTS
    Keys <- FourKeys
    Values = {1}
    None = None
    Hash <- FourHashes
    kDictForceResizeRatio = 1
    kEmptyVisits = 1
INVARIANTS
    TypeOK
    EveryEntryIsFound
    ScanMissesNothing
PROPERTY
    ImplementsMap
VIEW WithoutAnswer
