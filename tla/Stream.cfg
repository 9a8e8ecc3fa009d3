SPECIFICATION FairSpec
CONSTANTS
    Caller = {c1, c2}
    a = a
    b = b
    d = d
    Elem <- MCElem
    Keep <- MCKeep
    Image <- MCImage
    Rank <- MCRank
    Initial <- MCInitial
    None = None
INVARIANTS
    TypeOK
    ReadsUnderLock
    CancelStops
    NothingLeftBehind
PROPERTIES
    ImplementsPipeline
    CallsReturn
