\* Every flow of up to 4 nodes and 4 edges, parallel edges included, up to renaming.
CONSTANTS
    a = a
    b = b
    c = c
    d = d
    Node <- MCNode
    Port = {"output"}
    MaxEdges = 4
SPECIFICATION BuilderSpec
SYMMETRY Symmetry
INVARIANTS
    CompileIsExact
\* A compiled flow is a result: nothing follows it here.
CHECK_DEADLOCK FALSE
