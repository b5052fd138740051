\* Three calls of two users on two flows; two processes, two faults.
CONSTANTS
    u1 = u1
    u2 = u2
    f1 = f1
    f2 = f2
    k1 = k1
    k2 = k2
    k3 = k3
    s1 = s1
    s2 = s2
    User = {u1, u2}
    Flow = {f1, f2}
    Call <- MCCall
    Canvas <- MCCanvas
    Name = {"n1", "n2"}
    Supported = {"http-in", "llm"}
    None = None
    Absent = Absent
    Server = {s1, s2}
    MaxKeys = 3
    MaxFaults = 2
SPECIFICATION MCSpec
INVARIANTS
    DatabaseTypeOK
    
    RecordedIsApplied
PROPERTIES
    ImplementsRegistry
    
    ServesAgain
CHECK_DEADLOCK FALSE
