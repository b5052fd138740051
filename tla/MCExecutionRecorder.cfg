\* Two executions, a channel of one event, one node event, one crash.
CONSTANTS
    Trace = {t1, t2}
    MaxReports = 1
    Capacity = 1
    MaxCrashes = 1
SPECIFICATION RecorderSpec
INVARIANTS
    RecorderTypeOK
PROPERTIES
    HistoryIsHonest
    VerdictReachesRow
CHECK_DEADLOCK FALSE
