SPECIFICATION Spec
CONSTANTS
    Phone = {p1}
    Asker = {a1}
    SignIn = {x1, x2}
    Session = {s1, s2}
    Request = {r1, r2, r3}
    Mandate = {m1, m2}
    AuthCode = {c1, c2}
    MaxAttempts = 2
    MaxFaults = 1
CHECK_DEADLOCK FALSE
SYMMETRY Symmetry
INVARIANTS
    TypeOK
    BarredDoNothing
    DefaultRemains
