SPECIFICATION LiveSpec
CONSTANTS
    Device = {d1, d2}
    Kind = {"good", "invalid", "unverifiable"}
    QueueRetention = 1
    ReceiptRetention = 3
    FlushTime = 1
    RequestLife = 1
    HomeWritable = TRUE
    NoEvent = NoEvent
    NoDevice = NoDevice
    MaxTime = 1
    MaxEvents = 2
    MaxResets = 1
    MaxLate = 0
PROPERTIES
    QueueDrains
    RecoversFromReset
CHECK_DEADLOCK FALSE
