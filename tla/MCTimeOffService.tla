-------------------------- MODULE MCTimeOffService --------------------------
(* TimeOffService for TLC. *)
EXTENDS TimeOffService, TLC

CONSTANTS l1, l2, t1

dto(l, t, s, e) == [lane |-> l, leaveType |-> t, startDate |-> s, endDate |-> e]

\* Two payloads of one lane that overlap, and one with its dates reversed.
SameLane == {dto(l1, t1, 1, 2), dto(l1, t1, 2, 2), dto(l1, t1, 2, 1)}

\* The same day in two lanes, which do not exclude each other.
TwoLanes == {dto(l1, t1, 1, 1), dto(l2, t1, 1, 1)}

\* Two disjoint ranges of one lane, for keys that outlive their record.
Apart == {dto(l1, t1, 1, 1), dto(l1, t1, 3, 3)}

Symmetry == Permutations(RequestIds) \cup Permutations(Handlers) \cup Permutations(Keys)

=============================================================================
