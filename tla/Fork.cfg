CONSTANTS
    a = a
    b = b
    c = c
    Source <- MCSource
    Kinds = {"merge", "concat", "chain", "switch"}
    ZipKinds = {"zip", "ziplatest", "ziplatestfull"}
    Layouts <- MCLayouts
    Behaviours = {{}, {"feed"}}
    None = None
    MaxValues = 3
    MaxAdds = 3
    MaxTuples = 4
    MaxDepth = 3
SPECIFICATION Spec
CHECK_DEADLOCK FALSE
INVARIANTS
    ByTheRule
    EndsRight
PROPERTY EndsTooUntorn
