SPECIFICATION Spec
CONSTANTS
    Racing = FALSE
    MaxReports = 5
    MaxStops = 3
INVARIANTS TypeOK SequenceNeverReused QueuedUntilReceived
CHECK_DEADLOCK FALSE
