SPECIFICATION Spec
CONSTANTS
    StateId = {s1, s2}
    Content = {c1, c2}
    Retention = 1
    Meddling = TRUE
    MaxTime = 3
    MaxScans = 4
    MaxMeddles = 3
SYMMETRY Symmetry
INVARIANTS TypeOK GapIsRecorded NoFalseGap
CHECK_DEADLOCK FALSE
