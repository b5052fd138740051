CONSTANTS
    Flows <- ChainFlow
    Node <- MCNode
    Port = {"yes", "no"}
    BufferSize = 2
    MaxOut = 3
SPECIFICATION Spec
PROPERTIES
    ReturnsUnlessHung
CHECK_DEADLOCK FALSE
