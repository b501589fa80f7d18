\* All three passes with failing accesses.
SPECIFICATION FairSpec
CONSTANTS
    LastDevice = 1
    LastFunction = 2
    Machines <- MCMachines
    Bridges <- MCBridges
    Capacity = 3
INVARIANTS
    TypeOK
    NoAdapterTwice
    NoReadableAdapterMissed
    ListIsSorted
    TruncatedMeansMore
PROPERTY
    ScanEnds
