SPECIFICATION FairSpec
CONSTANTS
    s1 = s1
    s2 = s2
    Server = {s1}
    Payment = {p1}
    Undoer = {u1}
    Hook = {h1}
    Host <- MCHost
    MaxFaults = 1
    SlowHandlers = FALSE
CHECK_DEADLOCK FALSE
INVARIANTS
    SettledWasSent
    LedgerIsBacked
PROPERTIES
    PairsAreCounted
    RefundIsFinal
    ImplementsEscrow
    FollowsLifecycle
    HoldsEnd
    PaymentsFinish
