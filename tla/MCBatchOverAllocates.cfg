CONSTANTS
    Lanes = {l1}
    LeaveTypes = {t1}
    MaxDay = 4
    RequestIds = {r1, r2}
    Totals = {2, 3}
    None = None
    Jobs = {j1}
    MaxLogFails = 0
SPECIFICATION Spec
SYMMETRY Symmetry
CHECK_DEADLOCK FALSE
INVARIANTS
    NeverOverAllocated
