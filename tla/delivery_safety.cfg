SPECIFICATION Spec
CONSTANTS
    Device = {d1, d2}
    Kind = {"good", "invalid", "unverifiable"}
    QueueRetention = 2
    ReceiptRetention = 4
    FlushTime = 1
    RequestLife = 1
    HomeWritable = TRUE
    NoEvent = NoEvent
    NoDevice = NoDevice
    MaxTime = 5
    MaxEvents = 3
    MaxResets = 1
    MaxLate = 1
INVARIANTS
    TypeOK
    QueueShape
    RetryIsNotReplay
    FalseAlarmOnlyIfExpired
    StoredInOrder
    LogInv
PROPERTIES
    NoSilentLoss
    ImplementsEventLog
SYMMETRY Symmetry
CHECK_DEADLOCK FALSE
