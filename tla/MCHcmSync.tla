----------------------------- MODULE MCHcmSync -----------------------------
(* HcmSync for TLC. *)
EXTENDS HcmSync, TLC

\* Requests are interchangeable, and so are passes.  The liveness run does not
\* use it.
Symmetry == Permutations(RequestIds) \cup Permutations(Passes)

=============================================================================
