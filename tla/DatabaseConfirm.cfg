\* One worker and dbp_odbc: a transaction after an exception that was caught in it.
SPECIFICATION Spec
CONSTANTS
    w1 = w1
    w2 = w2
    a = a
    b = b
    Workers = {w1}
    Ids = {a, b}
    Conns = {1, 2}
    Drivers = {"odbc"}
    Scripts <- OneScript
    NoWorker = NoWorker
    NoId = NoId
    NoConn = NoConn
PROPERTIES
    ConfirmedWhenCaught
