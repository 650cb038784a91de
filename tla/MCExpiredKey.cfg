CONSTANTS
    l1 = l1  l2 = l2  t1 = t1
    Lanes = {l1}
    LeaveTypes = {t1}
    MaxDay = 3
    RequestIds = {r1}
    Totals = {2}
    None = None
    Handlers = {h1}
    Keys = {k1}
    Payloads <- Apart
    MaxAttempts = 2
    TicksPerDay = 1
    TTL = 1
    MaxNow = 2
SPECIFICATION Spec
SYMMETRY Symmetry
INVARIANTS
    AnswerMatchesPayload
