CONSTANTS
    l1 = l1  l2 = l2  t1 = t1
    Lanes = {l1, l2}
    LeaveTypes = {t1}
    MaxDay = 2
    RequestIds = {r1, r2}
    Totals = {2}
    None = None
    Handlers = {h1, h2}
    Keys = {k1, k2}
    Payloads <- TwoLanes
    MaxAttempts = 1
    TicksPerDay = 1
    TTL = 0
    MaxNow = 1
SPECIFICATION Spec
SYMMETRY Symmetry
INVARIANTS
    ServiceTypeOK
    KeyedOnce
PROPERTIES
    ServiceImplementsEntitlement
