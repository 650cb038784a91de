------------------------- MODULE TokenBucketLimiter -------------------------
(***************************************************************************)
(* TokenBucketLimiter (src/common/utils/token-bucket-limiter.util.js).     *)
(*                                                                         *)
(* The code refills a fraction of a token for every fraction of a second.  *)
(* Here a tick is the time in which one unit, the smallest fraction told   *)
(* apart, is refilled, and all amounts are in units.  The bucket is only   *)
(* refilled when it is asked for tokens, from the time that went by since. *)
(***************************************************************************)
EXTENDS Integers

CONSTANTS
    capacity,    \* of the bucket, in units
    Costs,       \* what callers ask for, in units
    MaxWatched   \* bound: how many ticks an observer watches

ASSUME BucketAssumption ==
    /\ capacity \in Nat \ {0}
    /\ Costs \subseteq Nat
    /\ MaxWatched \in Nat

VARIABLES
    tokens,
    idleFor,   \* time since lastRefill; a full bucket's worth counts as all
    watched,   \* history: how long an observer has been watching
    spent      \* history: what was consumed in that time

bucketVars == <<tokens, idleFor, watched, spent>>

BucketTypeOK ==
    /\ tokens \in 0 .. capacity
    /\ idleFor \in 0 .. capacity
    /\ watched \in 0 .. MaxWatched
    /\ spent \in Nat

BucketInit ==
    /\ tokens = capacity
    /\ idleFor = 0
    /\ watched = 0
    /\ spent = 0

\* Mutant: the refill is not capped.
refilledOver == tokens + idleFor

\* _refill.
refilled == IF tokens + idleFor < capacity THEN tokens + idleFor ELSE capacity

\* Granted or not, the refill is kept.  getAvailableTokens is a call that asks
\* for nothing.
tryConsume(cost) ==
    /\ IF refilled >= cost
       THEN tokens' = refilled - cost /\ spent' = spent + cost
       ELSE tokens' = refilled /\ UNCHANGED spent
    /\ idleFor' = 0
    /\ UNCHANGED watched

bucketTick ==
    /\ watched < MaxWatched
    /\ watched' = watched + 1
    /\ idleFor' = IF idleFor < capacity THEN idleFor + 1 ELSE capacity
    /\ UNCHANGED <<tokens, spent>>

\* An observer starts to watch.
Watch ==
    /\ watched' = 0
    /\ spent' = 0
    /\ UNCHANGED <<tokens, idleFor>>

BucketNext ==
    \/ \E cost \in Costs \cup {0} : tryConsume(cost)
    \/ bucketTick
    \/ Watch

BucketSpec == BucketInit /\ [][BucketNext]_bucketVars

-----------------------------------------------------------------------------
\* Whenever one starts to watch, no more is consumed than a full bucket and
\* what is refilled meanwhile: refilling late, and for a long idle time at
\* once, lets no larger burst through.
BurstBound == spent <= capacity + watched

\* What the bucket would hold if it were refilled now is part of that budget:
\* the inductive strengthening of BurstBound.
BudgetHolds == spent + refilled <= capacity + watched

=============================================================================
