SPECIFICATION SweptSpec
CONSTANTS
    payer = payer
    shop = shop
    User = {payer, shop}
    Token = {t1}
    Payment = {p1, p2}
    Request = {r1, r2}
    Key = {k1, k2}
    Amount = {2, 3}
    DayLimit = 3
    TxLimit = 2
    Capper = {payer}
    Cap = {1, 3}
    MaxFaults = 1
CHECK_DEADLOCK FALSE
INVARIANTS
    TypeOK
    TokenHasOneHolder
    NoneAboveTxLimit
PROPERTIES
    ExpiredIsFinal
    ImplementsVoucher
    StaleTokensEnd
