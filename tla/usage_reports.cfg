SPECIFICATION LiveSpec
CONSTANTS
    MaxResponses = 2
    Alike = {noTime}
    NoRow = NoRow
    PerDay = 1
    EnrolledAt = 0
    Retention = 1
    ExportWindow = 1
    PayloadDays = 9
    MinTokens = 1
    Percent = 10
    MaxTime = 2
    MaxQueue = 2
    MaxOpen = 1
    MaxFaults = 1
INVARIANTS CountedOnce NeverOverstated
PROPERTIES TotalsOnlyGrow UsageArrives MismatchIsFlagged
CHECK_DEADLOCK FALSE
