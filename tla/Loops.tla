------------------------------- MODULE Loops -------------------------------
(***************************************************************************)
(* The loops of the utilities, as recursive functions of the number of     *)
(* rounds, so that both TLC and the provers can unfold them.               *)
(***************************************************************************)
EXTENDS Integers, Sequences

\* The states of a loop that starts in s0: entry n is the state after n of its
\* rounds, and Step(s, n) is round n.
Rounds(Step(_, _), s0, last) ==
    LET round[n \in 0 .. last] == IF n = 0 THEN s0 ELSE Step(round[n - 1], n)
    IN  round

\* Array.prototype.filter: the elements of s that are in T.
filtered(s, T) ==
    LET keep(taken, n) == IF s[n] \in T THEN Append(taken, s[n]) ELSE taken
    IN  Rounds(keep, <<>>, Len(s))[Len(s)]

=============================================================================
