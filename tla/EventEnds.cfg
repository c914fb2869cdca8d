CONSTANTS
    o1 = o1
    m = m
    f = f
    None = None
    Obj = {o1}
    Func = {m, f}
    Listener <- MCListener
    Who <- SubWho
    RefCounting = TRUE
    MaxConn = 3
    MaxEmit = 1
    MaxDepth = 3
SPECIFICATION FairSpec
CHECK_DEADLOCK FALSE
INVARIANTS
    DoneOnce
    ErrorIsHeard
PROPERTIES
    EndIsTold
    ImplementsBroadcast
