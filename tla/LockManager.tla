---------------------------- MODULE LockManager ----------------------------
(***************************************************************************)
(* LockManager (src/common/utils/lock.util.js): named locks with a time to *)
(* live, held across the awaits of withLock.                               *)
(*                                                                         *)
(* A worker is one call of withLock at a time, or of acquireLock and the   *)
(* releaseLock that belongs to it.  The token of a lock is a fresh uuid;   *)
(* here it is the worker, which has one lock at most.  Times are what is   *)
(* left of them, in ticks.  A refused acquireLock changes nothing.         *)
(***************************************************************************)
EXTENDS Integers

CONSTANTS Resources, Workers,
          lockTtl,   \* the longest ttlMs a caller asks for
          NoLock

ASSUME LockAssumption ==
    /\ lockTtl \in Nat \ {0}
    /\ NoLock \notin Resources
    /\ NoLock \notin [token : Workers, left : 0 .. lockTtl]

VARIABLES
    locks,   \* _locks: token and remaining time of each resource's entry
    holds,   \* the resource whose withLock body the worker is in
    lease    \* history: how long acquireLock still promises it to the worker

lockVars == <<locks, holds, lease>>

LockTypeOK ==
    /\ locks \in [Resources -> [token : Workers, left : 0 .. lockTtl] \cup {NoLock}]
    /\ holds \in [Workers -> Resources \cup {NoLock}]
    /\ lease \in [Workers -> 0 .. lockTtl]

LockInit ==
    /\ locks = [r \in Resources |-> NoLock]
    /\ holds = [w \in Workers |-> NoLock]
    /\ lease = [w \in Workers |-> 0]

Expired(r) == locks[r] # NoLock /\ locks[r].left = 0

\* An entry that has expired is overwritten.
acquireLock(w, r, ttl) ==
    /\ holds[w] = NoLock
    /\ locks[r] = NoLock \/ Expired(r)
    /\ locks' = [locks EXCEPT ![r] = [token |-> w, left |-> ttl]]
    /\ holds' = [holds EXCEPT ![w] = r]
    /\ lease' = [lease EXCEPT ![w] = ttl]

\* Mutant: the token is not compared.
MayReleaseAny(r, token) == locks[r] # NoLock

MayRelease(r, token) == locks[r] # NoLock /\ locks[r].token = token

\* The finally block of withLock.  The lock may have expired and be another
\* worker's by now.
releaseLock(w) ==
    /\ holds[w] # NoLock
    /\ locks' = IF MayRelease(holds[w], w)
                THEN [locks EXCEPT ![holds[w]] = NoLock] ELSE locks
    /\ holds' = [holds EXCEPT ![w] = NoLock]
    /\ lease' = [lease EXCEPT ![w] = 0]

\* Asking whether an expired lock is held deletes it.
isLocked(r) ==
    /\ Expired(r)
    /\ locks' = [locks EXCEPT ![r] = NoLock]
    /\ UNCHANGED <<holds, lease>>

\* reset() revokes what was promised.
resetLocks ==
    /\ locks' = [r \in Resources |-> NoLock]
    /\ lease' = [w \in Workers |-> 0]
    /\ UNCHANGED holds

lockTick ==
    /\ locks' = [r \in Resources |->
                    IF locks[r] # NoLock /\ locks[r].left > 0
                    THEN [locks[r] EXCEPT !.left = @ - 1] ELSE locks[r]]
    /\ lease' = [w \in Workers |-> IF lease[w] > 0 THEN lease[w] - 1 ELSE 0]
    /\ UNCHANGED holds

LockNext ==
    \/ \E w \in Workers, r \in Resources, ttl \in 1 .. lockTtl : acquireLock(w, r, ttl)
    \/ \E w \in Workers : releaseLock(w)
    \/ \E r \in Resources : isLocked(r)
    \/ resetLocks
    \/ lockTick

LockSpec == LockInit /\ [][LockNext]_lockVars

-----------------------------------------------------------------------------
\* Within the time a caller asked for, nobody else is in the body of withLock
\* for the same resource, although a worker that overran its own time may
\* still be, and releases a lock that is no longer its own.
OneLiveHolder ==
    \A u, w \in Workers :
        /\ lease[u] > 0
        /\ lease[w] > 0
        /\ holds[u] = holds[w]
        => u = w

=============================================================================
