CONSTANTS
    Source = {a, b}
    Kinds = {"chain"}
    Behaviours = {{"feed"}}
    None = None
    MaxValues = 2
    MaxAdds = 2
SPECIFICATION FairSpec
CHECK_DEADLOCK FALSE
PROPERTY EndsToo
