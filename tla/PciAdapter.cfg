\* Every adapter the facts allow, on every list, with failing reads.
SPECIFICATION FairSpec
CONSTANTS
    CapOffsets <- MCOffsets
    Adapters <- MCAdapters
    Limit = 3
INVARIANTS
    TypeOK
    ReadsStayInWindow
    BoardsAreRecognised
    NoFalseDiscrete
PROPERTY
    WalkEventuallyEnds
