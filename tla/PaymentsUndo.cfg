SPECIFICATION Spec
CONSTANTS
    s1 = s1
    s2 = s2
    Server = {s1, s2}
    Payment = {p1}
    Undoer = {u1, u2}
    Hook = {}
    Host <- MCHost
    MaxFaults = 2
    SlowHandlers = FALSE
CHECK_DEADLOCK FALSE
SYMMETRY Symmetry
INVARIANTS
    TypeOK
    TransferOnce
    UndoneIsUnsent
    HeldIsUntouched
    SettledWasSent
PROPERTIES
    UndoIsKept
