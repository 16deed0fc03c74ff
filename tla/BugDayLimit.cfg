SPECIFICATION Spec
CONSTANTS
    payer = payer
    shop = shop
    User = {payer, shop}
    Token = {t1, t2}
    Payment = {p1, p2}
    Request = {r1, r2}
    Key = {k1, k2}
    Amount = {1}
    DayLimit = 1
    TxLimit = 2
    Capper = {}
    Cap = {}
    MaxFaults = 0
CHECK_DEADLOCK FALSE
SYMMETRY Symmetry
INVARIANTS
    WithinDayLimit
