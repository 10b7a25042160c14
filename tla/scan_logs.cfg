SPECIFICATION Spec
CONSTANTS
    Log = {l1, l2}
    EmptyStart = FALSE
    Tampering = TRUE
    MaxRecords = 2
    MaxScans = 3
    MaxTampers = 2
SYMMETRY Symmetry
INVARIANTS
    TypeOK
    HonestNeverAccused
PROPERTIES
    MoveKeepsId
    CleanScanAccountsForAll
CHECK_DEADLOCK FALSE
