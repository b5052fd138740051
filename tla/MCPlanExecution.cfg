CONSTANTS
    Flows <- AllFlows
    Node <- MCNode
    Port = {"yes", "no"}
    BufferSize = 2
    MaxOut = 2
SPECIFICATION Spec
INVARIANTS
    TypeOK
    StepsAreSequential
    MessagesArrive
    ResultIsHonest
PROPERTIES
    
    ReturnsOrStuck
CHECK_DEADLOCK FALSE
