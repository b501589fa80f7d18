\* Installs, restores, interruptions and servicing in any order.
SPECIFICATION Spec
CONSTANTS
    v1 = v1
    v2 = v2
    Versions <- MCVersions
    Hosts <- AnyHost
SYMMETRY AnyVersion
INVARIANTS
    TypeOK
    WindowsIsOnTheBootPath
    BackupIsCurrent
    RefusalTouchesNothing
    RestoreChangesNoLoader
PROPERTY
    OnlyCopiesAreKept
