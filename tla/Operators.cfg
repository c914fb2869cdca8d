CONSTANTS
    Kinds = {"filter", "skip", "take", "takewhile", "dropwhile", "takeuntil", "changes", "unique", "last", "iterate", "reduce", "sum", "product", "min", "max", "any", "all", "mean", "pairwise", "list", "deque", "array", "enumerate", "previous", "chunk", "chunkwith", "chunkwithempty", "sample", "endonerror", "errors"}
    Count = 2
    Infinity = 1000
    Value = {0, 1, 2}
    Behaviours = {{}, {"feed"}, {"early"}}
    MaxHeard = 4
    MaxDepth = 3
SPECIFICATION Spec
CHECK_DEADLOCK FALSE
INVARIANTS
    EmitsByRule
    EndsWithItsInputs
PROPERTY SilentAfterEndAlone
