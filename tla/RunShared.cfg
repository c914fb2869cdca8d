CONSTANTS
    a = a
    b = b
    c = c
    m = m
    n = n
    Node <- MCNode
    Pipelines <- SharedMap
    Collector = Collector
    Outside = Outside
    MaxValues = 2
SPECIFICATION Spec
CHECK_DEADLOCK FALSE
INVARIANT SparesOthers
