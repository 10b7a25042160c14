SPECIFICATION Spec
CONSTANTS
    Racing = TRUE
    MaxReports = 5
    MaxStops = 3
INVARIANT SequenceNeverReused
CHECK_DEADLOCK FALSE
