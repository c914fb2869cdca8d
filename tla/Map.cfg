CONSTANTS
    Limit = 2
    Sizes = {0, 2}
    Behaviours = {{}, {"feed"}}
    None = None
    MaxItems = 4
SPECIFICATION FairSpec
CHECK_DEADLOCK FALSE
INVARIANTS
    OrderPreservedUnfed
    NothingLost
    LimitIsUsed
    EndsLast
PROPERTY AllServed
