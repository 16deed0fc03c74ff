SPECIFICATION SweptSpec
CONSTANTS
    User = {u1}
    Setter = {r1, r2}
    Change = {c1, c2}
    Level = {0, 1, 2, 3}
    InitialTx = 1
    InitialDay = 2
    MaxFaults = 2
CHECK_DEADLOCK FALSE
INVARIANTS
    TypeOK
    LimitsAreGranted
PROPERTIES
    PendingEnds
