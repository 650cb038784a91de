---------------------------- MODULE MCHcmClient ----------------------------
(* HcmClient for TLC. *)
EXTENDS HcmClient, TLC

\* Callers are interchangeable.  The liveness run does not use it.
Symmetry == Permutations(Callers)

=============================================================================
