CONSTANTS
    RequestIds = {r1}
    Passes = {w1, w2}
    MAX_PENDING_SYNC_RETRIES = 1
    take = 1
    MaxFaults = 1
    None = None
SPECIFICATION FairSpec
CHECK_DEADLOCK FALSE
INVARIANTS
    SyncTypeOK
    OnlyApprovalsTold
    AttemptsWithinBudget
PROPERTIES
    PendingSyncSettles
