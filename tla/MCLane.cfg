CONSTANTS
    l1 = l1  l2 = l2  t1 = t1
    Lanes = {l1}
    LeaveTypes = {t1}
    MaxDay = 2
    RequestIds = {r1}
    Totals = {2}
    None = None
    Handlers = {h1, h2, h3}
    Keys = {k1}
    Payloads <- SameLane
    MaxAttempts = 2
    TicksPerDay = 1
    TTL = 1
    MaxNow = 0
SPECIFICATION FairSpec
INVARIANTS
    OneHandlerPerLane
    AnswerIsOwnRequest
PROPERTIES
    DuplicateNeverRefused
    EveryCallAnswered
