\* Two workers, two waiting connections, signals at any time.
SPECIFICATION Spec
CONSTANTS
    N = 2
    Backlog = 2
INVARIANTS
    TypeOK
    DeletedAfterEnd
    LeavesOnlyWhenLost
    OneLateConnection
    StopMissesOnlyInWindow
PROPERTIES
    Terminates
