SPECIFICATION Spec
CONSTANTS
    Request = {r1, r2, r3}
    NoRequest = NoRequest
    NoEvent = NoEvent
    Kind = {"good", "invalid"}
    Locking = {TRUE, FALSE}
    MaxEvents = 4
    MaxExpired = 2
INVARIANTS TypeOK AcknowledgedIsStoredOnce RetryIsNotReplay
PROPERTY IngestIsEventLog
SYMMETRY Symmetry
CHECK_DEADLOCK FALSE
