SPECIFICATION Spec
CONSTANTS
    Call = {c1, c2}
    User = {u1, u2}
    Session = {s1, s2}
    Handset = {d1, d2}
    Limit = 2
    MaxFaults = 1
SYMMETRY Symmetry
INVARIANTS
    TypeOK
    OrphansAreFaults
PROPERTIES
    RegisteredStays
    NobodyIsSkipped
    WindowsAreFixed
