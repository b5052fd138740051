CONSTANTS
    Flows <- SkipFlow
    Node <- MCNode
    Port = {"yes", "no"}
    BufferSize = 2
    MaxOut = 1
SPECIFICATION Spec
INVARIANTS
    NoMessageLost
CHECK_DEADLOCK FALSE
