CONSTANTS
    o1 = o1
    m = m
    f = f
    None = None
    Obj = {o1}
    Func = {m, f}
    Listener <- MCListener
    Who <- ValueWho
    RefCounting = FALSE
    MaxConn = 3
    MaxEmit = 3
    MaxDepth = 3
SPECIFICATION LSpec
CHECK_DEADLOCK FALSE
INVARIANTS
    TypeOK
    ConnectionOrder
    SnapshotDelivered
    NoDeadListenerRuns
    ListIsTheSet
PROPERTY DisconnectIsExact
