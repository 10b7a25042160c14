SPECIFICATION UnattendedSpec
CONSTANTS
    Device = {d1}
    Reconciler = {monitor, dashboard}
    Monitor = monitor
    Never = Never
    Online = 0
    Late = 1
    MaxTime = 4
    MaxBeats = 2
    MaxFaults = 0
PROPERTY EveryOutageIsReported
CHECK_DEADLOCK FALSE
