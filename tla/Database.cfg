\* Two workers, all modules, connections that break at any time.
SPECIFICATION Spec
CONSTANTS
    w1 = w1
    w2 = w2
    a = a
    b = b
    Workers = {w1, w2}
    Ids = {a, b}
    Conns = {1, 2, 3, 4}
    Drivers = {"pgsql", "sqlite", "odbc", "redis"}
    Scripts <- MCScripts
    NoWorker = NoWorker
    NoId = NoId
    NoConn = NoConn
INVARIANTS
    TypeOK
    LeaseAlive
    IdleClean
    TransactionWhole
    RepeatedOnlyWhenBroken
PROPERTIES
    AllOrNothing
    Ends
