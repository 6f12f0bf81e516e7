SPECIFICATION Spec
CONSTANTS
    Values <- MCValues
    AsInt <- MCAsInt
    Length <- MCLength
    Order <- MCOrder
    ScoreText <- MCScoreText
    ListValues <- MCListValues
    SetValues <- MCSetValues
    HashFields <- MCHashFields
    HashValues <- MCHashValues
    Members <- MCMembers
    Positions <- MCPositions
    Bounds <- MCBounds
    MaxSize = 4
    kBacklenRadix = 4
    list_max_listpack_bytes = 18
    kInt16 = 4
    kInt32 = 14
    kInt64 = 20
    kIntSetMaxEntries = 3
    kListPackMaxEntries = 2
    kListPackMaxElementLength = 5
    kMaxSkiplistLevel = 2
INVARIANTS
    TypeOK
    EncodingsStaySmall
    SkiplistConsistent
    QueriesAgree
PROPERTIES
    ImplementsCollections
