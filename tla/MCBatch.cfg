CONSTANTS
    Lanes = {l1}
    LeaveTypes = {t1}
    MaxDay = 2
    RequestIds = {r1, r2}
    Totals = {1, 2}
    None = None
    Jobs = {j1, j2}
    MaxLogFails = 1
SPECIFICATION FairSpec
CHECK_DEADLOCK FALSE
INVARIANTS
    BatchTypeOK
    OneBatchAtATime
    NeverOverdrawn
    CountersMatchRequests
PROPERTIES
    CompletedMeansReconciled
    BatchEnds
