---------------------------- MODULE LeaveLedger ----------------------------
(***************************************************************************)
(* The two tables at the heart of the service, employee_balances and       *)
(* time_off_requests, and the database transactions that change them.      *)
(*                                                                         *)
(* One action is one committed transaction: the body createRequest passes  *)
(* to dataSource.transaction, the whole of approveRequest, rejectRequest   *)
(* and cancelRequest, and the writes of BalanceService.  A transaction     *)
(* that throws is rolled back and is no step here.  That transactions are  *)
(* atomic and serializable is the contract the code asks of the database   *)
(* (external).  How requests reach these transactions, with their          *)
(* idempotency keys, lock lanes, retries and crashes, is TimeOffService.   *)
(***************************************************************************)
EXTENDS Integers, FiniteSets, DateUtil, BalanceService

CONSTANTS
    Lanes,       \* employeeId:locationId pairs
    LeaveTypes,
    MaxDay,      \* the last day of the calendar
    RequestIds,  \* the uuids of time_off_requests
    Totals,      \* the totals a balance may be seeded with or HCM may report
    None         \* no row

Days == 1 .. MaxDay

BalanceKeys == Lanes \X LeaveTypes

\* The body of POST /time-off/requests; the notes are left out.
Dto == [lane : Lanes, leaveType : LeaveTypes, startDate : Days, endDate : Days]

Status == {"PENDING", "APPROVED", "REJECTED", "CANCELLED"}

Request == [dto : Dto, status : Status]

ASSUME LedgerAssumption ==
    /\ MaxDay \in Nat
    /\ Totals \subseteq Nat
    /\ None \notin Balance
    /\ None \notin Request
    /\ None \notin Int

VARIABLES
    balances,  \* BalanceKeys -> the row of employee_balances, or None
    requests   \* RequestIds -> the row of time_off_requests, or None

ledgerVars == <<balances, requests>>

balanceKey(dto) == <<dto.lane, dto.leaveType>>

daysOf(dto) == dto.startDate .. dto.endDate

daysRequested(dto) == calculateDaysRequested(dto.startDate, dto.endDate)

\* createRequest lets a payload through to its transaction only with its dates
\* in order.
WellFormed(dto) == dto.startDate <= dto.endDate

-----------------------------------------------------------------------------
LedgerTypeOK ==
    /\ balances \in [BalanceKeys -> Balance \cup {None}]
    /\ requests \in [RequestIds -> Request \cup {None}]

LedgerInit ==
    /\ balances = [b \in BalanceKeys |-> None]
    /\ requests = [i \in RequestIds |-> None]

-----------------------------------------------------------------------------
\* Seeding is idempotent: an existing row is returned as it is.  The find and
\* the save are two statements, but the unique index on the key turns a lost
\* race into an error without effect.
upsertBalance(b, total) ==
    /\ balances[b] = None
    /\ balances' = [balances EXCEPT ![b] = newBalance(total)]
    /\ UNCHANGED requests

realTimeUpdate(b, hcmTotal) ==
    /\ balances[b] # None
    /\ balances' = [balances EXCEPT ![b] = applyHcmRealTimeUpdate(@, hcmTotal)]
    /\ UNCHANGED requests

-----------------------------------------------------------------------------
Active(i) ==
    /\ requests[i] # None
    /\ requests[i].status \in {"PENDING", "APPROVED"}

\* _assertNoOverlap looks at every leave type of the lane.
Overlaps(dto) ==
    \E i \in RequestIds :
        /\ Active(i)
        /\ requests[i].dto.lane = dto.lane
        /\ datesOverlap(dto.startDate, dto.endDate,
                        requests[i].dto.startDate, requests[i].dto.endDate)

createTransaction(id, dto) ==
    LET b == balanceKey(dto) IN
    /\ WellFormed(dto)
    /\ requests[id] = None
    /\ ~ Overlaps(dto)
    /\ balances[b] # None
    /\ CanDeduct(balances[b], daysRequested(dto))
    /\ balances' = [balances EXCEPT ![b] = atomicDeduct(@, daysRequested(dto))]
    /\ requests' = [requests EXCEPT ![id] = [dto |-> dto, status |-> "PENDING"]]

-----------------------------------------------------------------------------
\* Mutant: a settled request may still be cancelled.
cancelAfterApproval(status) ==
    CASE status = "PENDING"  -> {"APPROVED", "REJECTED", "CANCELLED"}
      [] status = "APPROVED" -> {"CANCELLED"}
      [] OTHER               -> {}

VALID_TRANSITIONS(status) ==
    IF status = "PENDING" THEN {"APPROVED", "REJECTED", "CANCELLED"} ELSE {}

\* Load the request, check the transition, save its status, and move its days
\* with Move; a missing request or balance, an illegal transition and an
\* underflow of pending all roll the transaction back.
settle(id, status, Move(_, _)) ==
    LET dto == requests[id].dto
        b   == balanceKey(dto)
    IN  /\ requests[id] # None
        /\ status \in VALID_TRANSITIONS(requests[id].status)
        /\ balances[b] # None
        /\ CanTakePending(balances[b], daysRequested(dto))
        /\ requests' = [requests EXCEPT ![id].status = status]
        /\ balances' = [balances EXCEPT ![b] = Move(@, daysRequested(dto))]

approveRequest(id) == settle(id, "APPROVED", finalizeUsed)

rejectRequest(id) == settle(id, "REJECTED", releaseFromPending)

cancelRequest(id) == settle(id, "CANCELLED", releaseFromPending)

-----------------------------------------------------------------------------
Administer ==
    \E b \in BalanceKeys, total \in Totals :
        upsertBalance(b, total) \/ realTimeUpdate(b, total)

Decide ==
    \E id \in RequestIds :
        approveRequest(id) \/ rejectRequest(id) \/ cancelRequest(id)

LedgerNext ==
    \/ Administer
    \/ \E id \in RequestIds, dto \in Dto : createTransaction(id, dto)
    \/ Decide

LedgerSpec == LedgerInit /\ [][LedgerNext]_ledgerVars

-----------------------------------------------------------------------------
\* The days of balance b that the requests rs in the given status hold.
HeldDays(rs, b, status) ==
    {d \in Days : \E i \in RequestIds :
        /\ rs[i] # None
        /\ balanceKey(rs[i].dto) = b
        /\ rs[i].status = status
        /\ d \in daysOf(rs[i].dto)}

\* available + pending + used = total in every row, whatever sequence of
\* transactions led to it: the "critical invariant" of balance.service.js:15
\* and Guarantee 2 of README.md.
BalanceInvariant ==
    \A b \in BalanceKeys : balances[b] # None =>
        balances[b].total =
            balances[b].available + balances[b].pending + balances[b].used

\* No balance is overdrawn: createRequest takes days only from what is
\* available, and neither a decision nor an HCM correction takes them back.
NeverOverdrawn ==
    \A b \in BalanceKeys : balances[b] # None => balances[b].available >= 0

\* The counters of a balance say what its requests say: pending and used are
\* the numbers of calendar days that its PENDING and its APPROVED requests
\* hold.  No counter drifts from the requests it stands for.
CountersMatchRequests ==
    \A b \in BalanceKeys : balances[b] # None =>
        /\ balances[b].pending = Cardinality(HeldDays(requests, b, "PENDING"))
        /\ balances[b].used = Cardinality(HeldDays(requests, b, "APPROVED"))

\* No calendar day is booked twice by an employee at a location, whatever the
\* leave types: _assertNoOverlap inside the creating transaction.
NoDoubleBooking ==
    \A i, j \in RequestIds :
        /\ i # j
        /\ Active(i) /\ Active(j)
        /\ requests[i].dto.lane = requests[j].dto.lane
        => daysOf(requests[i].dto) \cap daysOf(requests[j].dto) = {}

\* A PENDING request can always be decided: its balance exists and holds its
\* days as pending, so that the "underflow" errors of releaseFromPending and
\* finalizeUsed are never raised.
PendingCanBeSettled ==
    \A i \in RequestIds :
        (requests[i] # None /\ requests[i].status = "PENDING") =>
            LET b == balanceKey(requests[i].dto)
            IN  /\ balances[b] # None
                /\ CanTakePending(balances[b], daysRequested(requests[i].dto))

\* A request has its dates in order and a balance it was taken from.
RequestsBacked ==
    \A i \in RequestIds : requests[i] # None =>
        /\ WellFormed(requests[i].dto)
        /\ balances[balanceKey(requests[i].dto)] # None

\* What is inductive without BalanceInvariant, which the reconciliation of
\* BatchSync breaks.
LedgerCore ==
    /\ LedgerTypeOK
    /\ RequestsBacked
    /\ NoDoubleBooking
    /\ CountersMatchRequests
    /\ NeverOverdrawn

\* The inductive invariant of the transactions on their own.
LedgerInv == LedgerCore /\ BalanceInvariant

-----------------------------------------------------------------------------
KeepsSettled ==
    \A i \in RequestIds : requests[i] # None =>
        /\ requests'[i] # None
        /\ requests'[i].dto = requests[i].dto
        /\ requests[i].status # "PENDING" =>
              requests'[i].status = requests[i].status

\* What a step may do to the requests: none is deleted, none changes what it
\* asks for, and only a PENDING one changes its status
\* (_assertValidTransition; approved, rejected and cancelled are terminal).
SettledStaysSettled == [][KeepsSettled]_ledgerVars

TakesDaysForRequest ==
    \A b \in BalanceKeys :
        /\ balances[b] # None
        /\ balances'[b].available < balances[b].available
        => \E i \in RequestIds :
              /\ requests[i] = None
              /\ requests'[i] # None
              /\ balanceKey(requests'[i].dto) = b

\* What is available shrinks only by a new request for that balance: no
\* decision and no total reported by HCM takes days away from an employee.
OnlyRequestsTakeDays == [][TakesDaysForRequest]_ledgerVars

-----------------------------------------------------------------------------
daysGranted(b) == IF balances[b] = None THEN None ELSE balances[b].total

E == INSTANCE Entitlement WITH
        Names       <- RequestIds,
        entitlement <- [b \in BalanceKeys |-> daysGranted(b)],
        bookings    <- requests

\* The counters implement the promise: every transaction grants days, books
\* within the entitlement, decides a booking once, or changes neither.
LedgerImplementsEntitlement == E!Spec

=============================================================================
