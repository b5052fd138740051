\* One execution is enough to see Stopped overridden.
CONSTANTS
    Trace = {t1}
    Flow = {f1}
    MaxNodeEvents = 0
SPECIFICATION Spec
PROPERTIES
    StoppedStatusKept
