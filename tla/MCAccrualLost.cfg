CONSTANTS
    Lanes = {l1}
    LeaveTypes = {t1}
    MaxDay = 2
    RequestIds = {r1}
    Totals = {2}
    None = None
    Jobs = {j1}
    MaxLogFails = 0
    Grants = {1}
    MaxTotal = 3
SPECIFICATION UpstreamSpec
CHECK_DEADLOCK FALSE
INVARIANTS
    AccrualReachesLedger
