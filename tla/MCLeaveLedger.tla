--------------------------- MODULE MCLeaveLedger ---------------------------
(* LeaveLedger for TLC. *)
EXTENDS LeaveLedger, TLC

\* Requests are interchangeable, and so are leave types.
Symmetry == Permutations(RequestIds) \cup Permutations(LeaveTypes)

=============================================================================
