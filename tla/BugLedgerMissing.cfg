SPECIFICATION Spec
CONSTANTS
    s1 = s1
    s2 = s2
    Server = {s1}
    Payment = {p1}
    Undoer = {}
    Hook = {}
    Host <- MCHost
    MaxFaults = 1
    SlowHandlers = FALSE
CHECK_DEADLOCK FALSE
INVARIANTS
    SettledIsBooked
