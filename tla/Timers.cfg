CONSTANTS
    Ops = {"timeout", "debounce", "throttle", "timed"}
    Limit = 3
    Interval = 2
    Costs = {1, 3}
    Limits <- MCLimits
    Sources <- MCSources
    Behaviours = {{}, {"slow"}, {"feed"}, {"feed", "slow"}}
    ThrottleBehaviours = {{"slow"}, {"feed"}}
    None = None
    MaxExpiring = 4
    MaxBursts = 5
    MaxThrottled = 3
    MaxTurns = 3
    MaxDepth = 3
    Horizon = 8
    HorizonThrottled = 3
    LateStart = 3
    End = 12
SPECIFICATION Spec
CHECK_DEADLOCK FALSE
INVARIANTS
    ExpiresInTime
    BurstRule
    RateLimit
    NothingDropped
    WaitsForAReason
    StatusIsTrue
    OnSchedule
PROPERTIES
    EndsOnce
    AllEnd
