SPECIFICATION Spec
CONSTANTS
    Call = {c1, c2}
    List = {l1, l2}
    Empty = Empty
    None = None
    Cap = 3
    MaxAge = 2
    Few = 2
    MaxTime = 3
    MaxCalls = 3
    MaxRestarts = 1
CHECK_DEADLOCK FALSE
SYMMETRY Symmetry
INVARIANTS
    TypeOK
    StatusIsExact
    PickerStaysFilled
