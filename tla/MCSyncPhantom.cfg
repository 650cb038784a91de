CONSTANTS
    RequestIds = {r1}
    Passes = {w1}
    MAX_PENDING_SYNC_RETRIES = 2
    take = 1
    MaxFaults = 1
    None = None
SPECIFICATION Spec
SYMMETRY Symmetry
CHECK_DEADLOCK FALSE
INVARIANTS
    PendingNeverTouchedHcm
