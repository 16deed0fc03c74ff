SPECIFICATION Spec
CONSTANTS
    s1 = s1
    s2 = s2
    Server = {s1}
    Payment = {p1}
    Undoer = {}
    Hook = {h1}
    Host <- MCHost
    MaxFaults = 0
    SlowHandlers = FALSE
CHECK_DEADLOCK FALSE
INVARIANTS
    BookedOnce
