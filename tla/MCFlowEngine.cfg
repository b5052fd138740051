\* Two executions of any two flows, possibly the same one.
CONSTANTS
    Trace = {t1, t2}
    Flow = {f1, f2}
    MaxNodeEvents = 1
SPECIFICATION Spec
INVARIANTS
    TypeOK
    OneVerdictAfterStart
    GoneIsAnnounced
PROPERTIES
    StopWins
    StoppedLeaves
    ImplementsLifecycle
