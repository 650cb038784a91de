---------------------------- MODULE Entitlement ----------------------------
(***************************************************************************)
(* What the service promises, without counters, tables or keys in flight:  *)
(* an employee is entitled to a number of days of each leave type and may  *)
(* book days, each day once, as long as the days held by pending and       *)
(* approved bookings stay within the entitlement.  Each booking is made    *)
(* under a name and made once; it is decided once.                         *)
(*                                                                         *)
(* LeaveLedger implements this with the counters available, pending and    *)
(* used, the names being request ids; TimeOffService implements it with    *)
(* the names being idempotency keys.                                       *)
(***************************************************************************)
EXTENDS Integers, FiniteSets

CONSTANTS Lanes, LeaveTypes, MaxDay, Names, Totals, None

VARIABLES
    entitlement,  \* <<lane, leave type>> -> number of days, or None
    bookings      \* name -> [dto, status], or None

vars == <<entitlement, bookings>>

Range(dto) == dto.startDate .. dto.endDate

\* The days that bookings in one of the given statuses hold, in balance b.
HeldIn(b, statuses) ==
    {d \in 1 .. MaxDay : \E n \in Names :
        /\ bookings[n] # None
        /\ <<bookings[n].dto.lane, bookings[n].dto.leaveType>> = b
        /\ bookings[n].status \in statuses
        /\ d \in Range(bookings[n].dto)}

\* The days held in a lane, whatever the leave type.
HeldInLane(lane) ==
    UNION {HeldIn(<<lane, t>>, {"PENDING", "APPROVED"}) : t \in LeaveTypes}

Init ==
    /\ entitlement = [b \in Lanes \X LeaveTypes |-> None]
    /\ bookings = [n \in Names |-> None]

\* Days are granted, and later only ever added.
Grant(b, days) ==
    /\ entitlement[b] = None \/ entitlement[b] < days
    /\ entitlement' = [entitlement EXCEPT ![b] = days]
    /\ UNCHANGED bookings

Book(n, dto) ==
    LET b == <<dto.lane, dto.leaveType>> IN
    /\ bookings[n] = None
    /\ Range(dto) # {}
    /\ Range(dto) \cap HeldInLane(dto.lane) = {}
    /\ entitlement[b] # None
    /\ Cardinality(HeldIn(b, {"PENDING", "APPROVED"}) \cup Range(dto))
          <= entitlement[b]
    /\ bookings' = [bookings EXCEPT ![n] = [dto |-> dto, status |-> "PENDING"]]
    /\ UNCHANGED entitlement

Decide(n, status) ==
    /\ bookings[n] # None
    /\ bookings[n].status = "PENDING"
    /\ bookings' = [bookings EXCEPT ![n].status = status]
    /\ UNCHANGED entitlement

Next ==
    \/ \E b \in Lanes \X LeaveTypes, days \in Totals : Grant(b, days)
    \/ \E n \in Names :
          \E dto \in [lane : Lanes, leaveType : LeaveTypes,
                      startDate : 1 .. MaxDay, endDate : 1 .. MaxDay] :
             Book(n, dto)
    \/ \E n \in Names, status \in {"APPROVED", "REJECTED", "CANCELLED"} :
          Decide(n, status)

Spec == Init /\ [][Next]_vars

=============================================================================
