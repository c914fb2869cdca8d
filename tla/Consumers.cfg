CONSTANTS
    a = a
    b = b
    c = c
    m = m
    n = n
    Node <- MCNode
    Pipelines <- AllPipelines
    Collector = Collector
    Outside = Outside
    Modes = {"aiter", "last", "await"}
    Late = FALSE
    Worker = {w1}
    MaxLoops = 3
    MaxCalls = 3
    None = None
    MaxValues = 3
    MaxItems = 4
SPECIFICATION Spec
CHECK_DEADLOCK FALSE
INVARIANTS
    LeavesNothingAlone
    SparesListenedTo
    YieldsByMode
    HandedOver
PROPERTIES
    FindsAll
    AllReturn
