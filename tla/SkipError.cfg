CONSTANTS
    None = None
    Modes = {"last"}
    Late = FALSE
    MaxItems = 2
SPECIFICATION Spec
CHECK_DEADLOCK FALSE
INVARIANT FirstErrorRaised
