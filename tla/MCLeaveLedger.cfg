CONSTANTS
    Lanes = {l1}
    LeaveTypes = {t1, t2}
    MaxDay = 3
    RequestIds = {r1, r2, r3}
    Totals = {1, 3}
    None = None
SPECIFICATION LedgerSpec
SYMMETRY Symmetry
CHECK_DEADLOCK FALSE
INVARIANTS
    LedgerTypeOK
    BalanceInvariant
    NeverOverdrawn
    CountersMatchRequests
    NoDoubleBooking
    PendingCanBeSettled
PROPERTIES
    SettledStaysSettled
    OnlyRequestsTakeDays
    LedgerImplementsEntitlement
