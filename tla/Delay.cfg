CONSTANTS
    Wait = 1
    Behaviours = {{}, {"slow"}, {"feed"}, {"feed", "slow"}}
    None = None
    MaxItems = 4
    Horizon = 4
SPECIFICATION FairSpec
CHECK_DEADLOCK FALSE
INVARIANTS
    InArrivalOrder
    OnTime
    OneTimer
PROPERTY AllReleasedUnfed
