------------------------ MODULE RequestDeduplicator ------------------------
(***************************************************************************)
(* RequestDeduplicator.execute (src/common/utils/                          *)
(* request-deduplication.util.js): calls with the key of a task that is    *)
(* under way, or has succeeded not long ago, share its promise.            *)
(*                                                                         *)
(* A task is the call of execute that starts taskFn; a call that joins     *)
(* another's promise changes nothing.  A call without a key bypasses the   *)
(* cache.  Times are what is left of them, in ticks.                       *)
(***************************************************************************)
EXTENDS Integers

CONSTANTS DedupKeys, Tasks,
          dedupTtl,   \* ttlMs
          NoTask

ASSUME DedupAssumption ==
    /\ dedupTtl \in Nat \ {0}
    /\ NoTask \notin DedupKeys

VARIABLES
    cached,    \* _cache: what is left of the entry of each key, 0 if none
    runs,      \* the key each task under way was started for
    taskLeft,  \* what is left of the time that entry was made for
    overran    \* history: keys with a task that has outlived its entry

dedupVars == <<cached, runs, taskLeft, overran>>

DedupTypeOK ==
    /\ cached \in [DedupKeys -> 0 .. dedupTtl]
    /\ runs \in [Tasks -> DedupKeys \cup {NoTask}]
    /\ taskLeft \in [Tasks -> 0 .. dedupTtl]
    /\ overran \in SUBSET DedupKeys

DedupInit ==
    /\ cached = [k \in DedupKeys |-> 0]
    /\ runs = [t \in Tasks |-> NoTask]
    /\ taskLeft = [t \in Tasks |-> 0]
    /\ overran = {}

\* Mutant: a call joins only while time enough is left for the whole task.
JoinsFresh(k) == cached[k] = dedupTtl

\* The entry of the key is still good, and its promise is returned.
Joins(k) == cached[k] > 0

\* No entry, or one whose time is over: the task starts.
execute(t, k) ==
    /\ runs[t] = NoTask
    /\ ~ Joins(k)
    /\ cached' = [cached EXCEPT ![k] = dedupTtl]
    /\ runs' = [runs EXCEPT ![t] = k]
    /\ taskLeft' = [taskLeft EXCEPT ![t] = dedupTtl]
    /\ UNCHANGED overran

\* The task of t is over.
taskEnds(t) ==
    /\ runs' = [runs EXCEPT ![t] = NoTask]
    /\ taskLeft' = [taskLeft EXCEPT ![t] = 0]
    /\ overran' = IF \E u \in Tasks \ {t} : runs[u] = runs[t]
                  THEN overran ELSE overran \ {runs[t]}

\* The result stays cached until the entry's time is over.
taskSucceeds(t) ==
    /\ runs[t] # NoTask
    /\ taskEnds(t)
    /\ UNCHANGED cached

\* The catch block deletes the entry of the key, whoever made it.
taskFails(t) ==
    /\ runs[t] # NoTask
    /\ taskEnds(t)
    /\ cached' = [cached EXCEPT ![runs[t]] = 0]

\* clear() forgets the tasks under way.
clearCache ==
    /\ cached' = [k \in DedupKeys |-> 0]
    /\ overran' = overran \cup {k \in DedupKeys : \E t \in Tasks : runs[t] = k}
    /\ UNCHANGED <<runs, taskLeft>>

dedupTick ==
    /\ cached' = [k \in DedupKeys |-> IF cached[k] > 0 THEN cached[k] - 1 ELSE 0]
    /\ taskLeft' = [t \in Tasks |-> IF taskLeft[t] > 0 THEN taskLeft[t] - 1 ELSE 0]
    /\ overran' = overran \cup
                    {k \in DedupKeys : \E t \in Tasks : runs[t] = k /\ taskLeft[t] <= 1}
    /\ UNCHANGED runs

DedupNext ==
    \/ \E t \in Tasks, k \in DedupKeys : execute(t, k)
    \/ \E t \in Tasks : taskSucceeds(t) \/ taskFails(t)
    \/ clearCache
    \/ dedupTick

DedupSpec == DedupInit /\ [][DedupNext]_dedupVars

-----------------------------------------------------------------------------
\* Duplicate calls never run the task twice at once, unless a task of that key
\* has outlived its entry (or the cache was cleared under it): from then on,
\* until the tasks of the key are over, even a task within its time may be
\* run twice, because the late failure of the first deletes its entry.
OneTaskPerKey ==
    \A t, u \in Tasks :
        /\ runs[t] = runs[u]
        /\ runs[t] # NoTask
        /\ runs[t] \notin overran
        => t = u

=============================================================================
