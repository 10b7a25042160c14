SPECIFICATION WatchedSpec
CONSTANTS
    Device = {d1, d2}
    Reconciler = {monitor, dashboard}
    Monitor = monitor
    Never = Never
    Online = 0
    Late = 1
    MaxTime = 2
    MaxBeats = 2
    MaxFaults = 2
INVARIANTS TypeOK OneEventPerOutage NoFalseOutage
PROPERTY EveryOutageIsReported
CHECK_DEADLOCK FALSE
