---------------------------- MODULE MCBatchSync ----------------------------
(* BatchSync for TLC. *)
EXTENDS BatchSync, TLC

\* Requests, jobs and leave types are interchangeable.  The run with a
\* liveness property does not use it.
Symmetry ==
    Permutations(RequestIds) \cup Permutations(Jobs) \cup Permutations(LeaveTypes)

=============================================================================
