CONSTANTS
    r1 = r1
    r2 = r2
    k1 = k1
    k2 = k2
    a = a
    b = b
    n1 = n1
    n2 = n2
    plain = plain
    Request <- MCRequest
    Path = {a, b}
    Canvas <- MCCanvas
    Plain = plain
    MaxConcurrency = 1
    OwnerCall <- MCOwnerCall
SPECIFICATION Spec
INVARIANTS
    SlotCoversExecution
CHECK_DEADLOCK FALSE
