--------------------------- MODULE Toolkit_proofs ---------------------------
(***************************************************************************)
(* Proofs about the utilities of src/common/utils, each for its own        *)
(* specification and for every value of its constants: however many        *)
(* workers, tasks, processors or listeners there are, and however long the *)
(* times are.                                                              *)
(*                                                                         *)
(* Each part has the same shape: an inductive invariant that ties what a   *)
(* caller believes it owns to the entry the utility keeps for it, and the  *)
(* property of the runs as its consequence.                                *)
(***************************************************************************)
EXTENDS MCToolkit, HcmClient_proofs, DeadLetterQueue_proofs, PriorityQueue_proofs, TLAPS

-----------------------------------------------------------------------------
\* LockManager.  As long as a worker's time runs, the entry of the resource
\* whose body it is in carries its token, and the same time.
LeaseBacked ==
    \A w \in Workers :
        lease[w] > 0 =>
            /\ holds[w] \in Resources
            /\ locks[holds[w]] # NoLock
            /\ locks[holds[w]].token = w
            /\ locks[holds[w]].left = lease[w]

LockInv == LockTypeOK /\ LeaseBacked

\* The constructor's empty map of locks satisfies the invariant.
LEMMA LockInitEstablishes == LockInit => LockInv
  BY LockAssumption DEF LockInit, LockInv, LockTypeOK, LeaseBacked

\* acquireLock takes over only an absent or an expired entry, so no worker
\* within its time loses its own.
LEMMA AcquirePreserves ==
    ASSUME LockInv, NEW w \in Workers, NEW r \in Resources, NEW ttl \in 1 .. lockTtl,
           acquireLock(w, r, ttl)
    PROVE  LockInv'
<1> USE LockAssumption
<1>0. [token |-> w, left |-> ttl] \in [token : Workers, left : 0 .. lockTtl]
  OBVIOUS
<1>1. LockTypeOK'
  BY <1>0 DEF LockInv, LockTypeOK, acquireLock
<1>2. LeaseBacked'
  <2> SUFFICES ASSUME NEW u \in Workers, lease'[u] > 0
               PROVE  /\ holds'[u] \in Resources
                      /\ locks'[holds'[u]] # NoLock
                      /\ locks'[holds'[u]].token = u
                      /\ locks'[holds'[u]].left = lease'[u]
    BY DEF LeaseBacked
  <2>1. CASE u = w
    BY <1>0, <2>1 DEF LockInv, LockTypeOK, acquireLock
  <2>2. CASE u # w
    <3>1. lease[u] > 0 /\ holds'[u] = holds[u] /\ lease'[u] = lease[u]
      BY <2>2 DEF LockInv, LockTypeOK, acquireLock
    <3>2. /\ holds[u] \in Resources
          /\ locks[holds[u]] # NoLock
          /\ locks[holds[u]].token = u
          /\ locks[holds[u]].left = lease[u]
      BY <3>1 DEF LockInv, LeaseBacked
    <3>3. holds[u] # r
      BY <3>1, <3>2 DEF acquireLock, Expired, LockInv, LockTypeOK
    <3>4. locks'[holds[u]] = locks[holds[u]]
      BY <3>3 DEF acquireLock, LockInv, LockTypeOK
    <3> QED BY <3>1, <3>2, <3>4
  <2> QED BY <2>1, <2>2
<1> QED BY <1>1, <1>2 DEF LockInv

\* releaseLock compares the token: it deletes the entry of a worker within its
\* time only if that worker itself is the one that releases.
LEMMA ReleasePreserves ==
    ASSUME LockInv, NEW w \in Workers, releaseLock(w)
    PROVE  LockInv'
<1> USE LockAssumption
<1>1. LockTypeOK'
  BY DEF LockInv, LockTypeOK, releaseLock
<1>2. LeaseBacked'
  <2> SUFFICES ASSUME NEW u \in Workers, lease'[u] > 0
               PROVE  /\ holds'[u] \in Resources
                      /\ locks'[holds'[u]] # NoLock
                      /\ locks'[holds'[u]].token = u
                      /\ locks'[holds'[u]].left = lease'[u]
    BY DEF LeaseBacked
  <2>1. u # w
    BY DEF releaseLock, LockInv, LockTypeOK
  <2>2. lease[u] > 0 /\ holds'[u] = holds[u] /\ lease'[u] = lease[u]
    BY <2>1 DEF releaseLock, LockInv, LockTypeOK
  <2>3. /\ holds[u] \in Resources
        /\ locks[holds[u]] # NoLock
        /\ locks[holds[u]].token = u
        /\ locks[holds[u]].left = lease[u]
    BY <2>2 DEF LockInv, LeaseBacked
  <2>4. locks'[holds[u]] = locks[holds[u]]
    BY <2>1, <2>3 DEF releaseLock, MayRelease, LockInv, LockTypeOK
  <2> QED BY <2>2, <2>3, <2>4
<1> QED BY <1>1, <1>2 DEF LockInv

\* Every operation of the lock manager, and the passing of time, preserves
\* the invariant.
LEMMA LockNextPreserves == LockInv /\ [LockNext]_lockVars => LockInv'
<1> SUFFICES ASSUME LockInv, [LockNext]_lockVars PROVE LockInv'
  OBVIOUS
<1> USE LockAssumption
<1>1. ASSUME NEW r \in Resources, isLocked(r) PROVE LockInv'
  <2>1. LockTypeOK'
    BY <1>1 DEF isLocked, LockInv, LockTypeOK
  <2>2. LeaseBacked'
    BY <1>1 DEF isLocked, Expired, LockInv, LockTypeOK, LeaseBacked
  <2> QED BY <2>1, <2>2 DEF LockInv
<1>2. CASE resetLocks
  BY <1>2 DEF resetLocks, LockInv, LockTypeOK, LeaseBacked
<1>3. CASE lockTick
  <2>1. LockTypeOK'
    <3>1. locks' \in [Resources -> [token : Workers, left : 0 .. lockTtl] \cup {NoLock}]
      <4>1. ASSUME NEW r \in Resources, locks[r] # NoLock, locks[r].left > 0
            PROVE  [locks[r] EXCEPT !.left = @ - 1] \in [token : Workers, left : 0 .. lockTtl]
        BY <4>1 DEF LockInv, LockTypeOK
      <4> QED BY <1>3, <4>1 DEF lockTick, LockInv, LockTypeOK
    <3> QED BY <1>3, <3>1 DEF lockTick, LockInv, LockTypeOK
  <2>2. LeaseBacked'
    <3> SUFFICES ASSUME NEW u \in Workers, lease'[u] > 0
                 PROVE  /\ holds'[u] \in Resources
                        /\ locks'[holds'[u]] # NoLock
                        /\ locks'[holds'[u]].token = u
                        /\ locks'[holds'[u]].left = lease'[u]
      BY DEF LeaseBacked
    <3>1. lease[u] > 0 /\ lease'[u] = lease[u] - 1 /\ holds'[u] = holds[u]
      BY <1>3 DEF lockTick, LockInv, LockTypeOK
    <3>2. /\ holds[u] \in Resources
          /\ locks[holds[u]] # NoLock
          /\ locks[holds[u]].token = u
          /\ locks[holds[u]].left = lease[u]
      BY <3>1 DEF LockInv, LeaseBacked
    <3>3. locks[holds[u]] \in [token : Workers, left : 0 .. lockTtl]
      BY <3>2 DEF LockInv, LockTypeOK
    <3>4. locks'[holds[u]] = [locks[holds[u]] EXCEPT !.left = @ - 1]
      BY <1>3, <3>1, <3>2 DEF lockTick
    <3>5. locks'[holds[u]] \in [token : Workers, left : 0 .. lockTtl]
      BY <3>1, <3>2, <3>3, <3>4
    <3> QED BY <3>1, <3>2, <3>3, <3>4, <3>5
  <2> QED BY <2>1, <2>2 DEF LockInv
<1>4. CASE UNCHANGED lockVars
  BY <1>4 DEF lockVars, LockInv, LockTypeOK, LeaseBacked
<1> QED
  BY <1>1, <1>2, <1>3, <1>4, AcquirePreserves, ReleasePreserves DEF LockNext

\* Two leases that run would have to be the lock's one entry.
LEMMA LockInvExcludes == LockInv => OneLiveHolder
  BY DEF LockInv, LockTypeOK, LeaseBacked, OneLiveHolder

\* withLock excludes: within the time a caller asked for, nobody else who is
\* within its own time is in the body for the same resource.
THEOREM OneLiveHolderHolds == LockSpec => []OneLiveHolder
  BY LockInvExcludes, LockInitEstablishes, LockNextPreserves, PTL DEF LockSpec

-----------------------------------------------------------------------------
\* RequestDeduplicator.  The entry of a key without an overrun is the one its
\* task was started with, so a second call finds it and joins.
EntryOfTask ==
    \A t \in Tasks :
        runs[t] # NoTask /\ runs[t] \notin overran =>
            taskLeft[t] > 0 /\ cached[runs[t]] = taskLeft[t]

DedupInv == DedupTypeOK /\ OneTaskPerKey /\ EntryOfTask

\* Every call of execute, every end of a task, clear() and the passing of time
\* preserve the invariant.
LEMMA DedupNextPreserves == DedupInv /\ [DedupNext]_dedupVars => DedupInv'
<1> SUFFICES ASSUME DedupInv, [DedupNext]_dedupVars PROVE DedupInv'
  OBVIOUS
<1> USE DedupAssumption
<1>1. ASSUME NEW t \in Tasks, NEW k \in DedupKeys, execute(t, k) PROVE DedupInv'
  <2>1. DedupTypeOK'
    BY <1>1 DEF execute, DedupInv, DedupTypeOK
  <2>2. ASSUME NEW u \in Tasks, runs[u] = k PROVE k \in overran
    BY <1>1, <2>2 DEF execute, Joins, DedupInv, DedupTypeOK, EntryOfTask
  <2>3. OneTaskPerKey'
    BY <1>1, <2>2 DEF execute, DedupInv, DedupTypeOK, OneTaskPerKey
  <2>4. EntryOfTask'
    BY <1>1, <2>2 DEF execute, DedupInv, DedupTypeOK, EntryOfTask
  <2> QED BY <2>1, <2>3, <2>4 DEF DedupInv
<1>2. ASSUME NEW t \in Tasks, taskSucceeds(t) \/ taskFails(t) PROVE DedupInv'
  <2> DEFINE k == runs[t]
  <2>0. /\ k \in DedupKeys
        /\ runs' = [runs EXCEPT ![t] = NoTask]
        /\ taskLeft' = [taskLeft EXCEPT ![t] = 0]
        /\ overran' = IF \E u \in Tasks \ {t} : runs[u] = k
                      THEN overran ELSE overran \ {k}
        /\ cached' = cached \/ cached' = [cached EXCEPT ![k] = 0]
    BY <1>2 DEF taskSucceeds, taskFails, taskEnds, DedupInv, DedupTypeOK
  <2>1. DedupTypeOK'
    BY <2>0 DEF DedupInv, DedupTypeOK
  <2>2. ASSUME NEW u \in Tasks, runs'[u] # NoTask, runs'[u] \notin overran'
        PROVE  /\ u # t /\ runs'[u] = runs[u] /\ taskLeft'[u] = taskLeft[u]
               /\ runs[u] # k /\ runs[u] \notin overran
    <3>1. u # t /\ runs'[u] = runs[u] /\ taskLeft'[u] = taskLeft[u]
      BY <2>0, <2>2 DEF DedupInv, DedupTypeOK
    <3>2. runs[u] # k
      <4> SUFFICES ASSUME runs[u] = k PROVE FALSE
        OBVIOUS
      <4>1. overran' = overran
        BY <2>0, <3>1
      <4>2. k \notin overran
        BY <2>2, <3>1, <4>1
      <4> QED BY <2>0, <3>1, <4>2 DEF DedupInv, OneTaskPerKey
    <3>3. runs[u] \notin overran
      BY <2>0, <2>2, <3>1, <3>2
    <3> QED BY <3>1, <3>2, <3>3
  <2>3. OneTaskPerKey'
    BY <2>2 DEF DedupInv, OneTaskPerKey
  <2>4. EntryOfTask'
    BY <2>0, <2>2 DEF DedupInv, DedupTypeOK, EntryOfTask
  <2> QED BY <2>1, <2>3, <2>4 DEF DedupInv
<1>3. CASE clearCache
  BY <1>3 DEF clearCache, DedupInv, DedupTypeOK, OneTaskPerKey, EntryOfTask
<1>4. CASE dedupTick
  <2>1. DedupTypeOK'
    BY <1>4 DEF dedupTick, DedupInv, DedupTypeOK
  <2>2. OneTaskPerKey'
    BY <1>4 DEF dedupTick, DedupInv, DedupTypeOK, OneTaskPerKey
  <2>3. EntryOfTask'
    <3> SUFFICES ASSUME NEW t \in Tasks, runs'[t] # NoTask, runs'[t] \notin overran'
                 PROVE  taskLeft'[t] > 0 /\ cached'[runs'[t]] = taskLeft'[t]
      BY DEF EntryOfTask
    <3>1. runs[t] \in DedupKeys /\ runs'[t] = runs[t] /\ runs[t] \notin overran
      BY <1>4 DEF dedupTick, DedupInv, DedupTypeOK
    <3>2. ~ (taskLeft[t] <= 1)
      BY <1>4, <3>1 DEF dedupTick
    <3>3. cached[runs[t]] = taskLeft[t]
      BY <3>1 DEF DedupInv, EntryOfTask
    <3> QED BY <1>4, <3>1, <3>2, <3>3 DEF dedupTick, DedupInv, DedupTypeOK
  <2> QED BY <2>1, <2>2, <2>3 DEF DedupInv
<1>5. CASE UNCHANGED dedupVars
  BY <1>5 DEF dedupVars, DedupInv, DedupTypeOK, OneTaskPerKey, EntryOfTask
<1> QED BY <1>1, <1>2, <1>3, <1>4, <1>5 DEF DedupNext

\* The empty cache satisfies the invariant.
LEMMA DedupInitEstablishes == DedupInit => DedupInv
  BY DedupAssumption DEF DedupInit, DedupInv, DedupTypeOK, OneTaskPerKey, EntryOfTask

\* execute deduplicates: as long as no task of a key outlives its entry, the
\* key's task is never run twice at once.
THEOREM OneTaskPerKeyHolds == DedupSpec => []OneTaskPerKey
<1>1. DedupInv => OneTaskPerKey
  BY DEF DedupInv
<1> QED BY <1>1, DedupInitEstablishes, DedupNextPreserves, PTL DEF DedupSpec

-----------------------------------------------------------------------------
\* IdempotencyManager.  What the store knows of a key that no processor has
\* outlived: an unanswered entry with the payload of the one who processes it,
\* or an answered entry that lasts as long as the response is promised.
KeyTracked(k) ==
    /\ \A p, q \in Processors : handles[p] = k /\ handles[q] = k => p = q
    /\ \A p \in Processors :
          handles[p] = k =>
              /\ kept[k] = 0
              /\ body[p] \in Payloads
              /\ store[k] # NoEntry
              /\ store[k].response = NoEntry
              /\ store[k].fingerprint = body[p]
    /\ store[k] # NoEntry /\ store[k].response # NoEntry =>
          store[k].response = store[k].fingerprint
    /\ kept[k] > 0 =>
          /\ store[k] # NoEntry
          /\ store[k].left = kept[k]

IdemInv == IdemTypeOK /\ \A k \in IdemKeys \ outlived : KeyTracked(k)

\* The sweep of _cleanup loses track of a key only if its processor is still
\* at work; otherwise nothing is promised of an entry whose time is over.
LEMMA SweepKeepsTrack ==
    ASSUME IdemInv, NEW k \in IdemKeys, k \notin outlived, k \notin losers
    PROVE  /\ swept[k] \in Entry \cup {NoEntry}
           /\ swept[k] = store[k] \/ (swept[k] = NoEntry /\ kept[k] = 0 /\ k \notin Handled)
           /\ swept[k] = NoEntry => kept[k] = 0 /\ k \notin Handled
<1>1. swept[k] = IF store[k] # NoEntry /\ store[k].left = 0 THEN NoEntry ELSE store[k]
  BY DEF swept
<1>2. store[k] \in Entry \cup {NoEntry} /\ kept[k] \in 0 .. idemTtl
  BY DEF IdemInv, IdemTypeOK
<1>3. KeyTracked(k)
  BY DEF IdemInv
<1>4. swept[k] = NoEntry => kept[k] = 0
  BY <1>1, <1>2, <1>3, IdemAssumption DEF KeyTracked, Entry
<1>5. swept[k] = NoEntry => k \notin Handled
  <2> SUFFICES ASSUME swept[k] = NoEntry, k \in Handled PROVE FALSE
    OBVIOUS
  <2>1. PICK p \in Processors : handles[p] = k
    BY DEF Handled
  <2>2. store[k] # NoEntry
    BY <1>3, <2>1 DEF KeyTracked
  <2> QED BY <2>2 DEF losers
<1> QED BY <1>1, <1>2, <1>4, <1>5

\* A NEW request finds its key unhandled and unanswered, or outlived.
LEMMA BeginNewPreserves ==
    ASSUME IdemInv, NEW p \in Processors, NEW k \in IdemKeys, NEW payload \in Payloads,
           beginNew(p, k, payload)
    PROVE  IdemInv'
<1> USE IdemAssumption
<1> DEFINE new == [fingerprint |-> payload, response |-> NoEntry, left |-> idemTtl]
<1>0. /\ new \in Entry /\ new # NoEntry
      /\ swept \in [IdemKeys -> Entry \cup {NoEntry}]
  BY DEF IdemInv, IdemTypeOK, Entry, swept
<1>1. IdemTypeOK'
  BY <1>0 DEF beginNew, IdemInv, IdemTypeOK, losers
<1>2. ASSUME NEW l \in IdemKeys, l \notin outlived' PROVE KeyTracked(l)'
  <2>0. l \notin outlived /\ l \notin losers /\ kept' = kept
    BY <1>2 DEF beginNew
  <2>1. CASE l = k
    <3>1. kept[k] = 0 /\ k \notin Handled
      BY <2>0, <2>1, SweepKeepsTrack DEF beginNew
    <3>2. store'[k] = new
      BY <1>0 DEF beginNew
    <3>3. \A q \in Processors : handles'[q] = k => q = p /\ body'[q] = payload
      BY <3>1 DEF beginNew, Handled, IdemInv, IdemTypeOK
    <3> QED BY <2>0, <2>1, <3>1, <3>2, <3>3, <1>0 DEF KeyTracked
  <2>2. CASE l # k
    <3>1. store'[l] = swept[l]
      BY <1>0, <2>2 DEF beginNew
    <3>2. \A q \in Processors :
              handles'[q] = l => q # p /\ handles[q] = l /\ body'[q] = body[q]
      BY <2>2 DEF beginNew, IdemInv, IdemTypeOK
    <3>3. KeyTracked(l)
      BY <2>0 DEF IdemInv
    <3>4. CASE swept[l] = store[l]
      BY <2>0, <3>1, <3>2, <3>3, <3>4 DEF KeyTracked
    <3>5. CASE swept[l] = NoEntry /\ kept[l] = 0 /\ l \notin Handled
      BY <2>0, <3>1, <3>2, <3>5 DEF KeyTracked, Handled
    <3> QED BY <2>0, <3>4, <3>5, SweepKeepsTrack
  <2> QED BY <2>1, <2>2
<1> QED BY <1>1, <1>2 DEF IdemInv

\* The sweep alone, when the request is known.
LEMMA BeginKnownPreserves ==
    ASSUME IdemInv, NEW k \in IdemKeys, beginKnown(k)
    PROVE  IdemInv'
<1>1. IdemTypeOK'
  BY DEF beginKnown, IdemInv, IdemTypeOK, losers, swept
<1>2. ASSUME NEW l \in IdemKeys, l \notin outlived' PROVE KeyTracked(l)'
  <2>0. /\ l \notin outlived /\ l \notin losers
        /\ kept' = kept /\ handles' = handles /\ body' = body /\ store' = swept
    BY <1>2 DEF beginKnown
  <2>1. KeyTracked(l)
    BY <2>0 DEF IdemInv
  <2>2. CASE swept[l] = store[l]
    BY <2>0, <2>1, <2>2 DEF KeyTracked
  <2>3. CASE swept[l] = NoEntry /\ kept[l] = 0 /\ l \notin Handled
    BY <2>0, <2>3 DEF KeyTracked, Handled
  <2> QED BY <2>0, <2>2, <2>3, SweepKeepsTrack
<1> QED BY <1>1, <1>2 DEF IdemInv

\* What complete and remove do to the other keys, and to a key that is no
\* longer outlived once nothing is left of it.
LEMMA StopsKeepsTrack ==
    ASSUME IdemInv, IdemTypeOK', NEW p \in Processors, NEW k \in IdemKeys,
           handles[p] = k, stops(p),
           \A l \in IdemKeys : l # k => store'[l] = store[l] /\ kept'[l] = kept[l],
           k \notin outlived => KeyTracked(k)'
    PROVE  IdemInv'
<1> SUFFICES ASSUME NEW l \in IdemKeys, l \notin outlived' PROVE KeyTracked(l)'
  BY DEF IdemInv
<1> USE IdemAssumption
<1>1. \A q \in Processors :
          handles'[q] \in IdemKeys => q # p /\ handles'[q] = handles[q] /\ body'[q] = body[q]
  BY DEF stops, IdemInv, IdemTypeOK
<1>2. CASE l \in outlived
  <2>1. /\ store'[l] = NoEntry
        /\ ~ (kept'[l] > 0)
        /\ \A q \in Processors \ {p} : handles[q] # l
    BY <1>2 DEF stops
  <2>2. \A q \in Processors : handles'[q] # l
    BY <1>1, <2>1
  <2> QED BY <2>1, <2>2 DEF KeyTracked
<1>3. CASE l \notin outlived /\ l # k
  <2>1. KeyTracked(l) /\ store'[l] = store[l] /\ kept'[l] = kept[l]
    BY <1>3 DEF IdemInv
  <2> QED BY <1>1, <2>1 DEF KeyTracked
<1> QED BY <1>2, <1>3

\* complete answers the entry with the outcome of the payload it was made for.
LEMMA CompletePreserves ==
    ASSUME IdemInv, NEW p \in Processors, complete(p)
    PROVE  IdemInv'
<1> USE IdemAssumption
<1>0. PICK k \in IdemKeys : handles[p] = k /\ stops(p)
  BY DEF complete, IdemInv, IdemTypeOK
<1>1. CASE store[k] = NoEntry
  <2>1. store' = store /\ kept' = kept
    BY <1>0, <1>1 DEF complete
  <2>2. IdemTypeOK'
    BY <1>0, <2>1 DEF stops, IdemInv, IdemTypeOK
  <2>3. k \in outlived
    BY <1>0, <1>1 DEF IdemInv, KeyTracked
  <2> QED BY <1>0, <2>1, <2>2, <2>3, StopsKeepsTrack
<1>2. CASE store[k] # NoEntry
  <2>1. /\ store' = [store EXCEPT ![k].response = body[p]]
        /\ kept' = [kept EXCEPT ![k] = store[k].left]
    BY <1>0, <1>2 DEF complete
  <2>2. store[k] \in Entry /\ body[p] \in Payloads \cup {NoEntry}
    BY <1>0, <1>2 DEF IdemInv, IdemTypeOK
  <2>3. [store[k] EXCEPT !.response = body[p]] \in Entry
    BY <2>2 DEF Entry
  <2>4. store' = [store EXCEPT ![k] = [store[k] EXCEPT !.response = body[p]]]
    BY <2>1, Zenon
  <2>5. IdemTypeOK'
    <3>1. store' \in [IdemKeys -> Entry \cup {NoEntry}]
      BY <1>0, <2>3, <2>4 DEF IdemInv, IdemTypeOK
    <3>2. kept' \in [IdemKeys -> 0 .. idemTtl]
      BY <1>0, <2>1, <2>2 DEF IdemInv, IdemTypeOK, Entry
    <3> QED BY <1>0, <3>1, <3>2 DEF stops, IdemInv, IdemTypeOK
  <2>6. \A l \in IdemKeys : l # k => store'[l] = store[l] /\ kept'[l] = kept[l]
    BY <2>1, <2>4 DEF IdemInv, IdemTypeOK
  <2>7. ASSUME k \notin outlived PROVE KeyTracked(k)'
    <3>1. /\ \A q \in Processors : handles[q] = k => q = p
          /\ body[p] \in Payloads
          /\ store[k].fingerprint = body[p]
      BY <1>0, <2>7 DEF IdemInv, KeyTracked
    <3>2. \A q \in Processors : handles'[q] # k
      BY <1>0, <3>1 DEF stops, IdemInv, IdemTypeOK
    <3>3. store'[k] = [store[k] EXCEPT !.response = body[p]] /\ kept'[k] = store[k].left
      BY <1>0, <2>1, <2>4 DEF IdemInv, IdemTypeOK
    <3>4. /\ store'[k].response = body[p]
          /\ store'[k].fingerprint = store[k].fingerprint
          /\ store'[k].left = store[k].left
          /\ store'[k] # NoEntry
      BY <2>2, <2>3, <3>3 DEF Entry
    <3> QED BY <3>1, <3>2, <3>3, <3>4 DEF KeyTracked
  <2> QED BY <1>0, <2>5, <2>6, <2>7, StopsKeepsTrack
<1> QED BY <1>1, <1>2

\* remove gives the key up, and with it the promise of its entry.
LEMMA IdemRemovePreserves ==
    ASSUME IdemInv, NEW p \in Processors, remove(p)
    PROVE  IdemInv'
<1> USE IdemAssumption
<1>0. PICK k \in IdemKeys : handles[p] = k /\ stops(p)
  BY DEF remove, IdemInv, IdemTypeOK
<1>1. store' = [store EXCEPT ![k] = NoEntry] /\ kept' = kept
  BY <1>0 DEF remove
<1>2. IdemTypeOK'
  BY <1>0, <1>1 DEF stops, IdemInv, IdemTypeOK
<1>3. \A l \in IdemKeys : l # k => store'[l] = store[l] /\ kept'[l] = kept[l]
  BY <1>1 DEF IdemInv, IdemTypeOK
<1>4. ASSUME k \notin outlived PROVE KeyTracked(k)'
  <2>1. kept[k] = 0 /\ \A q \in Processors : handles[q] = k => q = p
    BY <1>0, <1>4 DEF IdemInv, KeyTracked
  <2>2. \A q \in Processors : handles'[q] # k
    BY <1>0, <2>1 DEF stops, IdemInv, IdemTypeOK
  <2>3. store'[k] = NoEntry
    BY <1>1 DEF IdemInv, IdemTypeOK
  <2> QED BY <1>1, <2>1, <2>2, <2>3 DEF KeyTracked
<1> QED BY <1>0, <1>2, <1>3, <1>4, StopsKeepsTrack

\* An answered entry and the promise of its response run out together.
LEMMA IdemTickPreserves ==
    ASSUME IdemInv, idemTick
    PROVE  IdemInv'
<1> USE IdemAssumption
<1>1. ASSUME NEW k \in IdemKeys, store[k] # NoEntry, store[k].left > 0
      PROVE  /\ store'[k] \in Entry
             /\ store'[k] # NoEntry
             /\ store'[k].fingerprint = store[k].fingerprint
             /\ store'[k].response = store[k].response
             /\ store'[k].left = store[k].left - 1
  <2>1. store'[k] = [store[k] EXCEPT !.left = @ - 1]
    BY <1>1 DEF idemTick
  <2>2. store[k] \in Entry
    BY <1>1 DEF IdemInv, IdemTypeOK
  <2>3. store'[k] \in Entry
    BY <1>1, <2>1, <2>2 DEF Entry
  <2> QED BY <1>1, <2>1, <2>2, <2>3 DEF Entry
<1>2. ASSUME NEW k \in IdemKeys, store[k] = NoEntry \/ ~ (store[k].left > 0)
      PROVE  store'[k] = store[k]
  BY <1>2 DEF idemTick
<1>3. IdemTypeOK'
  <2>1. \A k \in IdemKeys : store'[k] \in Entry \cup {NoEntry}
    BY <1>1, <1>2 DEF IdemInv, IdemTypeOK
  <2>2. store' \in [IdemKeys -> Entry \cup {NoEntry}]
    BY <2>1 DEF idemTick
  <2> QED BY <2>2 DEF idemTick, IdemInv, IdemTypeOK
<1>4. ASSUME NEW k \in IdemKeys, k \notin outlived' PROVE KeyTracked(k)'
  <2>0. /\ KeyTracked(k) /\ kept[k] \in 0 .. idemTtl
        /\ kept'[k] = IF kept[k] > 0 THEN kept[k] - 1 ELSE 0
        /\ handles' = handles /\ body' = body
    BY <1>4 DEF idemTick, IdemInv, IdemTypeOK
  <2>1. CASE store[k] # NoEntry /\ store[k].left > 0
    BY <1>1, <2>0, <2>1 DEF KeyTracked
  <2>2. CASE store[k] = NoEntry \/ ~ (store[k].left > 0)
    BY <1>2, <2>0, <2>2 DEF KeyTracked
  <2> QED BY <2>1, <2>2
<1> QED BY <1>3, <1>4 DEF IdemInv

\* The empty store satisfies the invariant.
LEMMA IdemInitEstablishes == IdemInit => IdemInv
  BY IdemAssumption DEF IdemInit, IdemInv, IdemTypeOK, KeyTracked, Entry

\* Every operation, and the passing of time, preserves it.
LEMMA IdemNextPreserves == IdemInv /\ [IdemNext]_idemVars => IdemInv'
<1> SUFFICES ASSUME IdemInv, [IdemNext]_idemVars PROVE IdemInv'
  OBVIOUS
<1>1. CASE UNCHANGED idemVars
  BY <1>1 DEF idemVars, IdemInv, IdemTypeOK, KeyTracked
<1> QED
  BY <1>1, BeginNewPreserves, BeginKnownPreserves, CompletePreserves, IdemRemovePreserves,
     IdemTickPreserves DEF IdemNext

\* A key that is tracked is processed once.
LEMMA IdemInvOnce == IdemInv => ProcessedOnce
  BY DEF IdemInv, KeyTracked, ProcessedOnce, Handled

\* The idempotency manager "prevents double-processing of identical client
\* requests": one processor at most is at a key, none while a response to it is
\* promised, and the response kept is that of the payload kept, for as long as
\* no processor outlives its entry.
THEOREM ProcessedOnceHolds == IdemSpec => []ProcessedOnce
  BY IdemInvOnce, IdemInitEstablishes, IdemNextPreserves, PTL DEF IdemSpec

-----------------------------------------------------------------------------
\* TokenBucketLimiter.  What was consumed and what a refill would bring now
\* stay together within the budget.
BucketInv == BucketTypeOK /\ BudgetHolds

\* A full bucket satisfies the invariant.
LEMMA BucketInitEstablishes == BucketInit => BucketInv
  BY BucketAssumption DEF BucketInit, BucketInv, BucketTypeOK, BudgetHolds, refilled

\* Every operation, and the passing of time, preserves it.
LEMMA BucketNextPreserves == BucketInv /\ [BucketNext]_bucketVars => BucketInv'
<1> SUFFICES ASSUME BucketInv, [BucketNext]_bucketVars PROVE BucketInv'
  OBVIOUS
<1> USE BucketAssumption
<1>1. ASSUME NEW cost \in Costs \cup {0}, tryConsume(cost) PROVE BucketInv'
  <2>1. cost \in Nat /\ refilled \in 0 .. capacity
    BY DEF BucketInv, BucketTypeOK, refilled
  <2>2. BucketTypeOK'
    BY <1>1, <2>1 DEF tryConsume, BucketInv, BucketTypeOK
  <2>3. refilled' = tokens'
    <3>1. idleFor' = 0 /\ tokens' \in 0 .. capacity
      BY <1>1, <2>2 DEF tryConsume, BucketTypeOK
    <3>2. \A t \in 0 .. capacity : t = IF t + 0 < capacity THEN t + 0 ELSE capacity
      OBVIOUS
    <3> QED BY <3>1, <3>2 DEF refilled
  <2>4. spent' + tokens' = spent + refilled /\ watched' = watched
    BY <1>1, <2>1 DEF tryConsume, BucketInv, BucketTypeOK
  <2>5. spent' + refilled' <= capacity + watched'
    BY <2>3, <2>4 DEF BucketInv, BudgetHolds
  <2> QED BY <2>2, <2>5 DEF BucketInv, BudgetHolds
<1>2. CASE bucketTick
  BY <1>2 DEF bucketTick, BucketInv, BucketTypeOK, BudgetHolds, refilled
<1>3. CASE Watch
  BY <1>3 DEF Watch, BucketInv, BucketTypeOK, BudgetHolds, refilled
<1>4. CASE UNCHANGED bucketVars
  BY <1>4 DEF bucketVars, BucketInv, BucketTypeOK, BudgetHolds, refilled
<1> QED BY <1>1, <1>2, <1>3, <1>4 DEF BucketNext

\* What was spent is within the budget, as what is left is not negative.
LEMMA BucketInvBounds == BucketInv => BurstBound
  BY BucketAssumption DEF BucketInv, BucketTypeOK, BudgetHolds, BurstBound, refilled

\* However long the bucket is left alone and however late it is refilled, an
\* observer sees no more consumed than a full bucket and the refill of the time
\* it watches.
THEOREM BurstBoundHolds == BucketSpec => []BurstBound
  BY BucketInvBounds, BucketInitEstablishes, BucketNextPreserves, PTL DEF BucketSpec

-----------------------------------------------------------------------------
\* EventBus.  A wrapper that listens has not been called: whatever calls it,
\* publish or its replay, takes it off the one channel that it listens on, and
\* only the call of subscribeOnce that makes a wrapper subscribes it.
Replay == [channel : Channels, listener : Listeners, past : 0 .. historyMaxSize \cup {Nothing}]

Listening(w) == \E e \in Channels : w \in listeners[e]

Waiting(w) == \E i \in DOMAIN replays : replays[i].listener = w

OnceTracked(w) ==
    /\ wraps[w] = Nothing => times[w] = 0 /\ ~ Listening(w) /\ ~ Waiting(w)
    /\ \A e, f \in Channels : w \in listeners[e] /\ w \in listeners[f] => e = f
    /\ \A e \in Channels, i \in DOMAIN replays :
          w \in listeners[e] /\ replays[i].listener = w => replays[i].channel = e
    /\ Listening(w) => times[w] = 0

BusInv == BusTypeOK /\ replays \in Seq(Replay) /\ \A w \in Wrappers : OnceTracked(w)

\* subscribe and subscribeOnce add a listener, and at most one replay of it.
LEMMA AttachType ==
    ASSUME BusInv, NEW e \in Channels, NEW listener \in Listeners, attach(e, listener)
    PROVE  /\ listeners' = [listeners EXCEPT ![e] = @ \cup {listener}]
           /\ listeners' \in [Channels -> SUBSET Listeners]
           /\ history' = history /\ times' = times
           /\ replays' \in Seq(Replay)
           /\ \A i \in DOMAIN replays : i \in DOMAIN replays' /\ replays'[i] = replays[i]
           /\ \A i \in DOMAIN replays' :
                 \/ i \in DOMAIN replays /\ replays'[i] = replays[i]
                 \/ replays'[i].channel = e /\ replays'[i].listener = listener
<1> DEFINE r == [channel |-> e, listener |-> listener, past |-> Nothing]
<1>1. r \in Replay /\ r.listener = listener /\ r.channel = e
  BY DEF Replay
<1>2. replays' = replays \/ replays' = Append(replays, r)
  BY DEF attach
<1>3. replays \in Seq(Replay)
  BY DEF BusInv
<1> HIDE DEF r
<1>4. ASSUME replays' = Append(replays, r)
      PROVE  /\ replays' \in Seq(Replay)
             /\ \A i \in DOMAIN replays : i \in DOMAIN replays' /\ replays'[i] = replays[i]
             /\ \A i \in DOMAIN replays' :
                   \/ i \in DOMAIN replays /\ replays'[i] = replays[i]
                   \/ replays'[i].channel = e /\ replays'[i].listener = listener
  BY <1>1, <1>3, <1>4
<1>5. /\ listeners' = [listeners EXCEPT ![e] = @ \cup {listener}]
      /\ history' = history /\ times' = times
  BY DEF attach
<1>6. listeners' \in [Channels -> SUBSET Listeners]
  BY <1>5 DEF BusInv, BusTypeOK
<1> QED BY <1>2, <1>3, <1>4, <1>5, <1>6

\* subscribe(e, h) concerns no wrapper.
LEMMA SubscribePreserves ==
    ASSUME BusInv, NEW e \in Channels, NEW h \in Handlers, subscribe(e, h)
    PROVE  BusInv'
<1> USE BusAssumption
<1>0. h \in Listeners /\ attach(e, h) /\ onceListeners' = onceListeners /\ wraps' = wraps
  BY DEF subscribe, Listeners
<1>1. BusTypeOK' /\ replays' \in Seq(Replay)
  BY <1>0, AttachType DEF BusInv, BusTypeOK
<1>2. ASSUME NEW w \in Wrappers PROVE OnceTracked(w)'
  <2>1. w # h /\ times' = times /\ OnceTracked(w)
    BY <1>0, AttachType DEF BusInv
  <2>2. \A f \in Channels : w \in listeners'[f] <=> w \in listeners[f]
    <3>1. listeners' = [listeners EXCEPT ![e] = listeners[e] \cup {h}]
      BY <1>0, AttachType
    <3>2. DOMAIN listeners = Channels
      BY DEF BusInv, BusTypeOK
    <3> QED BY <2>1, <3>1, <3>2
  <2>3. \A i \in DOMAIN replays' :
            replays'[i].listener = w => i \in DOMAIN replays /\ replays'[i] = replays[i]
    BY <1>0, <2>1, AttachType
  <2>4. \A i \in DOMAIN replays : i \in DOMAIN replays' /\ replays'[i] = replays[i]
    BY <1>0, AttachType
  <2>5. (Listening(w)' <=> Listening(w)) /\ (Waiting(w)' <=> Waiting(w))
    BY <2>2, <2>3, <2>4 DEF Listening, Waiting
  <2> QED BY <1>0, <2>1, <2>2, <2>3, <2>5 DEF OnceTracked
<1> QED BY <1>1, <1>2 DEF BusInv

\* subscribeOnce(e, h) makes a wrapper that nothing has called yet and that
\* listens nowhere else.
LEMMA SubscribeOncePreserves ==
    ASSUME BusInv, NEW e \in Channels, NEW h \in Handlers, NEW v \in Wrappers,
           subscribeOnce(e, h, v)
    PROVE  BusInv'
<1> USE BusAssumption
<1>0. /\ v \in Listeners /\ attach(e, v) /\ wraps[v] = Nothing
      /\ wraps' = [wraps EXCEPT ![v] = <<e, h>>]
      /\ onceListeners' = [onceListeners EXCEPT ![h] = IF @ = Nothing THEN v ELSE @]
  BY DEF subscribeOnce, Listeners
<1>t. <<e, h>> \in Channels \X Handlers
  OBVIOUS
<1>1. BusTypeOK' /\ replays' \in Seq(Replay)
  <2>1. /\ listeners' \in [Channels -> SUBSET Listeners]
        /\ history' = history /\ times' = times /\ replays' \in Seq(Replay)
    BY <1>0, AttachType
  <2>2. /\ wraps' \in [Wrappers -> (Channels \X Handlers) \cup {Nothing}]
        /\ onceListeners' \in [Handlers -> Wrappers \cup {Nothing}]
    BY <1>0, <1>t DEF BusInv, BusTypeOK
  <2> QED BY <2>1, <2>2 DEF BusInv, BusTypeOK
<1>l. /\ listeners' = [listeners EXCEPT ![e] = listeners[e] \cup {v}]
      /\ DOMAIN listeners = Channels
      /\ times' = times
  BY <1>0, AttachType DEF BusInv, BusTypeOK
<1>r. \A i \in DOMAIN replays : i \in DOMAIN replays' /\ replays'[i] = replays[i]
  BY <1>0, AttachType
<1>2. ASSUME NEW w \in Wrappers, w # v PROVE OnceTracked(w)'
  <2>1. OnceTracked(w) /\ wraps'[w] = wraps[w]
    BY <1>0, <1>2 DEF BusInv, BusTypeOK
  <2>2. \A f \in Channels : w \in listeners'[f] <=> w \in listeners[f]
    BY <1>2, <1>l
  <2>3. \A i \in DOMAIN replays' :
            replays'[i].listener = w => i \in DOMAIN replays /\ replays'[i] = replays[i]
    BY <1>0, <1>2, AttachType
  <2>5. (Listening(w)' <=> Listening(w)) /\ (Waiting(w)' <=> Waiting(w))
    BY <1>r, <2>2, <2>3 DEF Listening, Waiting
  <2> QED BY <1>l, <2>1, <2>2, <2>3, <2>5 DEF OnceTracked
<1>3. OnceTracked(v)'
  <2>1. wraps'[v] # Nothing
    BY <1>0, <1>t DEF BusInv, BusTypeOK
  <2>2. /\ times[v] = 0
        /\ \A f \in Channels : v \notin listeners[f]
        /\ \A i \in DOMAIN replays : replays[i].listener # v
    BY <1>0 DEF BusInv, OnceTracked, Listening, Waiting
  <2>3. \A f \in Channels : v \in listeners'[f] => f = e
    BY <1>l, <2>2
  <2>4. \A i \in DOMAIN replays' : replays'[i].listener = v => replays'[i].channel = e
    BY <1>0, <2>2, AttachType
  <2>5. times'[v] = 0
    BY <1>l, <2>2
  <2> QED BY <2>1, <2>3, <2>4, <2>5 DEF OnceTracked
<1> QED BY <1>1, <1>2, <1>3 DEF BusInv

\* What takes listeners off and calls nobody: unsubscribe and clear(e).
LEMMA SilencedPreserves ==
    ASSUME BusInv, times' = times, wraps' = wraps, onceListeners' = onceListeners,
           listeners' \in [Channels -> SUBSET Listeners],
           \A e \in Channels : listeners'[e] \subseteq listeners[e],
           history' \in [Channels -> 0 .. historyMaxSize],
           replays' \in Seq(Replay), DOMAIN replays' = DOMAIN replays,
           \A i \in DOMAIN replays : /\ replays'[i].listener = replays[i].listener
                                     /\ replays'[i].channel = replays[i].channel
    PROVE  BusInv'
<1> USE BusAssumption
<1>1. BusTypeOK'
  BY DEF BusInv, BusTypeOK
<1>2. ASSUME NEW w \in Wrappers PROVE OnceTracked(w)'
  <2>1. OnceTracked(w) /\ times[w] \in Nat
    BY DEF BusInv, BusTypeOK
  <2>2. Listening(w)' => Listening(w)
    BY DEF Listening
  <2>3. Waiting(w)' <=> Waiting(w)
    BY DEF Waiting
  <2>4. \A e, f \in Channels : w \in listeners'[e] /\ w \in listeners'[f] => e = f
    BY <2>1 DEF OnceTracked
  <2>5. \A e \in Channels, i \in DOMAIN replays' :
            w \in listeners'[e] /\ replays'[i].listener = w => replays'[i].channel = e
    BY <2>1 DEF OnceTracked
  <2> QED BY <2>1, <2>2, <2>3, <2>4, <2>5 DEF OnceTracked
<1> QED BY <1>1, <1>2 DEF BusInv

\* unsubscribe(e, h) takes one listener off, the handler's first wrapper or the
\* handler itself.
LEMMA UnsubscribePreserves ==
    ASSUME BusInv, NEW e \in Channels, NEW h \in Handlers, unsubscribe(e, h)
    PROVE  BusInv'
<1>1. PICK l : listeners' = [listeners EXCEPT ![e] = listeners[e] \ {l}]
  BY DEF unsubscribe
<1>2. /\ listeners' \in [Channels -> SUBSET Listeners]
      /\ \A f \in Channels : listeners'[f] \subseteq listeners[f]
  BY <1>1 DEF BusInv, BusTypeOK
<1>3. history' = history /\ replays' = replays
  BY DEF unsubscribe
<1> QED BY <1>2, <1>3, SilencedPreserves DEF unsubscribe, BusInv, BusTypeOK

\* clear(e) fixes what the waiting replays of the channel will bring.
LEMMA ClearChannelPreserves ==
    ASSUME BusInv, NEW e \in Channels, clearChannel(e)
    PROVE  BusInv'
<1> USE BusAssumption
<1>1. /\ listeners' \in [Channels -> SUBSET Listeners]
      /\ \A f \in Channels : listeners'[f] \subseteq listeners[f]
  BY DEF clearChannel, BusInv, BusTypeOK
<1>2. history' \in [Channels -> 0 .. historyMaxSize]
  BY DEF clearChannel, BusInv, BusTypeOK
<1>3. history[e] \in 0 .. historyMaxSize /\ replays \in Seq(Replay)
  BY DEF BusInv, BusTypeOK
<1>4. ASSUME NEW i \in DOMAIN replays
      PROVE  /\ [replays[i] EXCEPT !.past = history[e]] \in Replay
             /\ [replays[i] EXCEPT !.past = history[e]].listener = replays[i].listener
             /\ [replays[i] EXCEPT !.past = history[e]].channel = replays[i].channel
  <2>1. replays[i] \in Replay
    BY <1>3
  <2> QED BY <1>3, <2>1 DEF Replay
<1>5. \A i \in DOMAIN replays : /\ replays'[i] \in Replay
                                /\ replays'[i].listener = replays[i].listener
                                /\ replays'[i].channel = replays[i].channel
  BY <1>3, <1>4 DEF clearChannel
<1>6. DOMAIN replays' = DOMAIN replays /\ DOMAIN replays = 1 .. Len(replays)
  BY <1>3 DEF clearChannel
<1>7. replays' \in [1 .. Len(replays) -> Replay]
  BY <1>5, <1>6 DEF clearChannel
<1>8. replays' \in Seq(Replay)
  BY <1>3, <1>7
<1> QED BY <1>1, <1>2, <1>5, <1>6, <1>8, SilencedPreserves DEF clearChannel

\* publish(e) takes the wrappers that it calls off.
LEMMA PublishPreserves ==
    ASSUME BusInv, NEW e \in Channels, publish(e)
    PROVE  BusInv'
<1> USE BusAssumption
<1>0. PICK set \in SUBSET listeners[e] :
      /\ listeners' = [listeners EXCEPT ![e] = listeners[e] \ (set \cap Wrappers)]
      /\ times' = [w \in Wrappers |-> IF w \in set THEN times[w] + 1 ELSE times[w]]
      /\ history' = [history EXCEPT ![e] = IF @ < historyMaxSize THEN @ + 1 ELSE @]
      /\ onceListeners' = onceListeners /\ wraps' = wraps /\ replays' = replays
      /\ DOMAIN listeners = Channels
  BY DEF publish, called, leftAfter, BusInv, BusTypeOK
<1>1. BusTypeOK'
  <2>1. times' \in [Wrappers -> Nat]
    BY <1>0 DEF BusInv, BusTypeOK
  <2>2. history' \in [Channels -> 0 .. historyMaxSize]
    BY <1>0 DEF BusInv, BusTypeOK
  <2>3. listeners' \in [Channels -> SUBSET Listeners]
    BY <1>0 DEF BusInv, BusTypeOK
  <2> QED BY <1>0, <2>1, <2>2, <2>3 DEF BusInv, BusTypeOK
<1>2. ASSUME NEW w \in Wrappers PROVE OnceTracked(w)'
  <2>1. OnceTracked(w) /\ times[w] \in Nat
    BY DEF BusInv, BusTypeOK
  <2>2. Waiting(w)' <=> Waiting(w)
    BY <1>0 DEF Waiting
  <2>3. CASE w \in set
    <3>1. wraps'[w] # Nothing
      BY <1>0, <2>1, <2>3 DEF OnceTracked, Listening
    <3>2. \A f \in Channels : w \notin listeners'[f]
      BY <1>0, <2>1, <2>3 DEF OnceTracked
    <3> QED BY <1>0, <2>1, <2>2, <3>1, <3>2 DEF OnceTracked, Listening
  <2>4. CASE w \notin set
    <3>1. times'[w] = times[w]
      BY <1>0, <2>4
    <3>2. \A f \in Channels : w \in listeners'[f] <=> w \in listeners[f]
      BY <1>0, <2>4
    <3> QED BY <1>0, <2>1, <2>2, <3>1, <3>2 DEF OnceTracked, Listening
  <2> QED BY <2>3, <2>4
<1> QED BY <1>0, <1>1, <1>2 DEF BusInv

\* A replay is of the channel that its wrapper listens on, if it still does.
LEMMA ReplayPreserves ==
    ASSUME BusInv, replay
    PROVE  BusInv'
<1> USE BusAssumption
<1> DEFINE r == replays[1]
           n == IF r.past = Nothing THEN history[r.channel] ELSE r.past
<1>0. /\ replays \in Seq(Replay) /\ replays # <<>> /\ replays' = Tail(replays)
      /\ 1 \in DOMAIN replays /\ r \in Replay
  BY DEF replay, BusInv
<1>1. /\ r.channel \in Channels /\ n \in 0 .. historyMaxSize
  <2>1. r.channel \in Channels /\ (r.past \in 0 .. historyMaxSize \/ r.past = Nothing)
    BY <1>0 DEF Replay
  <2> QED BY <2>1 DEF BusInv, BusTypeOK
<1>2. /\ listeners' = [listeners EXCEPT ![r.channel] =
                          listeners[r.channel] \ ({r.listener} \cap Wrappers)]
      /\ times' = [w \in Wrappers |-> IF w \in {r.listener} THEN times[w] + n ELSE times[w]]
      /\ onceListeners' = onceListeners /\ wraps' = wraps /\ history' = history
      /\ DOMAIN listeners = Channels
  BY <1>0 DEF replay, called, leftAfter, BusInv, BusTypeOK
<1>3. /\ replays' \in Seq(Replay)
      /\ \A i \in DOMAIN replays' : i + 1 \in DOMAIN replays /\ replays'[i] = replays[i + 1]
      /\ \A i \in DOMAIN replays : i # 1 => i - 1 \in DOMAIN replays' /\ replays[i] = replays'[i - 1]
      /\ DOMAIN replays' \subseteq Nat \ {0}
  BY <1>0
<1>c. PICK c \in Channels : c = r.channel
  BY <1>1
<1>x. PICK x : x = r.listener
  OBVIOUS
<1>n. PICK k \in 0 .. historyMaxSize : k = n
  BY <1>1
<1>4. /\ listeners' = [listeners EXCEPT ![c] = listeners[c] \ ({x} \cap Wrappers)]
      /\ times' = [w \in Wrappers |-> IF w = x THEN times[w] + k ELSE times[w]]
      /\ replays[1].listener = x /\ replays[1].channel = c
  BY <1>2, <1>c, <1>x, <1>n
<1> HIDE DEF r, n
<1>5. BusTypeOK'
  <2>1. times' \in [Wrappers -> Nat]
    BY <1>4 DEF BusInv, BusTypeOK
  <2>2. listeners' \in [Channels -> SUBSET Listeners]
    BY <1>4 DEF BusInv, BusTypeOK
  <2> QED BY <1>2, <2>1, <2>2 DEF BusInv, BusTypeOK
<1>6. ASSUME NEW w \in Wrappers PROVE OnceTracked(w)'
  <2>1. OnceTracked(w) /\ times[w] \in Nat /\ wraps' = wraps
    BY <1>2 DEF BusInv, BusTypeOK
  <2>2. \A f \in Channels : w \in listeners'[f] => w \in listeners[f]
    BY <1>2, <1>4
  <2>3. \A f \in Channels, i \in DOMAIN replays' :
            w \in listeners'[f] /\ replays'[i].listener = w => replays'[i].channel = f
    BY <1>3, <2>1, <2>2 DEF OnceTracked
  <2>4. CASE w = x
    <3>1. Waiting(w) /\ wraps'[w] # Nothing
      BY <1>0, <1>4, <2>1, <2>4 DEF Waiting, OnceTracked
    <3>2. \A f \in Channels : w \in listeners[f] => f = c
      BY <1>0, <1>4, <1>c, <2>1, <2>4 DEF OnceTracked
    <3>3. \A f \in Channels : w \notin listeners'[f]
      BY <1>2, <1>4, <2>2, <2>4, <3>2
    <3> QED BY <2>1, <3>1, <3>3 DEF OnceTracked, Listening
  <2>5. CASE w # x
    <3>1. times'[w] = times[w]
      BY <1>4, <2>5
    <3>2. \A f \in Channels : w \in listeners'[f] <=> w \in listeners[f]
      BY <1>2, <1>4, <2>5
    <3>3. Waiting(w)' => Waiting(w)
      BY <1>3 DEF Waiting
    <3> QED BY <2>1, <2>3, <3>1, <3>2, <3>3 DEF OnceTracked, Listening
  <2> QED BY <2>4, <2>5
<1> QED BY <1>3, <1>5, <1>6 DEF BusInv

\* The bus without listeners satisfies the invariant.
LEMMA BusInitEstablishes == BusInit => BusInv
  BY BusAssumption
     DEF BusInit, BusInv, BusTypeOK, OnceTracked, Listening, Waiting, Listeners

\* Every operation preserves it.
LEMMA BusNextPreserves == BusInv /\ [BusNext]_busVars => BusInv'
<1> SUFFICES ASSUME BusInv, [BusNext]_busVars PROVE BusInv'
  OBVIOUS
<1>1. CASE UNCHANGED busVars
  BY <1>1 DEF busVars, BusInv, BusTypeOK, OnceTracked, Listening, Waiting
<1> QED
  BY <1>1, SubscribePreserves, SubscribeOncePreserves, UnsubscribePreserves,
     ClearChannelPreserves, PublishPreserves, ReplayPreserves DEF BusNext

\* publish calls wrappers that listen, which nothing has called.
LEMMA BusInvPublishesOnce == BusInv => PublishesOnce
<1> SUFFICES ASSUME BusInv, NEW e \in Channels, publish(e),
                    NEW w \in Wrappers, times'[w] > times[w]
             PROVE  times[w] = 0
  BY DEF PublishesOnce
<1>1. PICK set \in SUBSET listeners[e] :
         times' = [v \in Wrappers |-> IF v \in set THEN times[v] + 1 ELSE times[v]]
  BY DEF publish, called
<1>2. times[w] \in Nat
  BY DEF BusInv, BusTypeOK
<1>3. w \in set
  BY <1>1, <1>2
<1> QED BY <1>3 DEF BusInv, OnceTracked, Listening

\* subscribeOnce promises "exactly one invocation": whatever is subscribed,
\* unsubscribed, replayed and cleared, and whichever handlers throw, publish
\* calls its handler only if nothing has called it before.
THEOREM NeverPublishedTwiceHolds == BusSpec => NeverPublishedTwice
  BY BusInvPublishesOnce, BusInitEstablishes, BusNextPreserves, PTL
  DEF BusSpec, NeverPublishedTwice

-----------------------------------------------------------------------------
\* RateLimiter.  What filter returns of a client's timestamps is a window again,
\* and one is added only while there is room.
Windows == UNION {[1 .. n -> 0 .. windowTicks] : n \in 0 .. maxRequests}

\* The timestamps of a client are a sequence of at most maxRequests.
LEMMA WindowIsShort ==
    ASSUME NEW s \in Windows
    PROVE  s \in Seq(0 .. windowTicks) /\ Len(s) <= maxRequests
<1>1. PICK n \in 0 .. maxRequests : s \in [1 .. n -> 0 .. windowTicks]
  BY DEF Windows
<1> QED
  BY <1>1, RateAssumption

\* Every such sequence can be a client's.
LEMMA ShortIsWindow ==
    ASSUME NEW s \in Seq(0 .. windowTicks), Len(s) <= maxRequests
    PROVE  s \in Windows
<1>0. Len(s) \in 0 .. maxRequests
  BY RateAssumption
<1>1. PICK n \in 0 .. maxRequests : n = Len(s)
  BY <1>0
<1>2. s \in [1 .. Len(s) -> 0 .. windowTicks]
  BY LenProperties
<1>3. s \in [1 .. n -> 0 .. windowTicks]
  BY <1>1, <1>2
<1> QED
  BY <1>1, <1>3, Zenon DEF Windows

\* The filter of check never lengthens a window.
LEMMA RecentIsWindow ==
    ASSUME RateTypeOK, NEW k \in Clients
    PROVE  recent(k) \in Seq(0 .. windowTicks) /\ Len(recent(k)) <= maxRequests
<1>1. PICK s : s = hits[k]
  OBVIOUS
<1>2. s \in Windows
  BY <1>1 DEF RateTypeOK, Windows
<1>3. s \in Seq(0 .. windowTicks) /\ Len(s) <= maxRequests
  BY <1>2, WindowIsShort
<1>4. PICK f : f = filtered(s, inWindow)
  OBVIOUS
<1>5. f \in Seq(0 .. windowTicks) /\ FilterInv(f, Len(s), s, inWindow)
  BY <1>3, <1>4, FilteredFacts
<1>6. Len(f) <= Len(s)
  BY <1>5 DEF FilterInv
<1>7. Len(f) <= maxRequests
  BY <1>3, <1>5, <1>6, RateAssumption
<1> QED
  BY <1>1, <1>4, <1>5, <1>7 DEF recent

\* Every operation keeps the windows within the limit.
LEMMA RateNextPreserves == RateTypeOK /\ [RateNext]_rateVars => RateTypeOK'
<1> SUFFICES ASSUME RateTypeOK, [RateNext]_rateVars PROVE RateTypeOK'
  OBVIOUS
<1>0. hits \in [Clients -> Windows] /\ allowed \in [Clients -> BOOLEAN]
  BY DEF RateTypeOK, Windows
<1>e. <<>> \in Windows
  <2>1. <<>> \in Seq(0 .. windowTicks) /\ Len(<<>>) <= maxRequests
    BY RateAssumption
  <2> QED
    BY <2>1, ShortIsWindow
<1>1. ASSUME NEW k \in Clients, check(k) PROVE RateTypeOK'
  <2>1. PICK r : r = recent(k)
    OBVIOUS
  <2>2. r \in Seq(0 .. windowTicks) /\ Len(r) <= maxRequests
    BY <2>1, RecentIsWindow
  <2>3. PICK w : w = IF Len(r) < maxRequests THEN Append(r, windowTicks) ELSE r
    OBVIOUS
  <2>4. w \in Windows
    <3>1. w \in Seq(0 .. windowTicks) /\ Len(w) <= maxRequests
      <4>1. CASE Len(r) < maxRequests
        <5>1. w = Append(r, windowTicks) /\ windowTicks \in 0 .. windowTicks
          BY <2>3, <4>1, RateAssumption
        <5>2. w \in Seq(0 .. windowTicks) /\ Len(w) = Len(r) + 1
          BY <2>2, <5>1
        <5> QED
          BY <2>2, <4>1, <5>2, RateAssumption
      <4>2. CASE ~ (Len(r) < maxRequests)
        BY <2>2, <2>3, <4>2
      <4> QED
        BY <4>1, <4>2
    <3> QED
      BY <3>1, ShortIsWindow
  <2>5. hits' = [hits EXCEPT ![k] = w]
    BY <1>1, <2>1, <2>3 DEF check, afterRefusal
  <2>6. allowed' \in [Clients -> BOOLEAN]
    <3>1. allowed' = [allowed EXCEPT ![k] = Len(r) < maxRequests]
      BY <1>1, <2>1, Zenon DEF check
    <3>2. CASE Len(r) < maxRequests
      <4>1. allowed' = [allowed EXCEPT ![k] = TRUE]
        BY <3>1, <3>2
      <4> QED
        BY <1>0, <4>1
    <3>3. CASE ~ (Len(r) < maxRequests)
      <4>1. (Len(r) < maxRequests) = FALSE
        BY <3>3
      <4>2. allowed' = [allowed EXCEPT ![k] = FALSE]
        BY <3>1, <4>1, Zenon
      <4> QED
        BY <1>0, <4>2
    <3> QED
      BY <3>2, <3>3
  <2>7. hits' \in [Clients -> Windows]
    BY <1>0, <2>4, <2>5
  <2> QED
    BY <2>6, <2>7 DEF RateTypeOK, Windows
<1>2. ASSUME NEW k \in Clients, resetClient(k) PROVE RateTypeOK'
  <2>1. hits' \in [Clients -> Windows] /\ allowed' = allowed
    BY <1>0, <1>2, <1>e DEF resetClient
  <2> QED
    BY <1>0, <2>1 DEF RateTypeOK, Windows
<1>3. CASE clearClients
  <2>1. hits' \in [Clients -> Windows] /\ allowed' = allowed
    BY <1>3, <1>e DEF clearClients
  <2> QED
    BY <1>0, <2>1 DEF RateTypeOK, Windows
<1>4. CASE rateTick
  <2>1. ASSUME NEW s \in Windows
        PROVE  [i \in DOMAIN s |-> IF s[i] > 0 THEN s[i] - 1 ELSE 0] \in Windows
    <3>1. PICK n \in 0 .. maxRequests : s \in [1 .. n -> 0 .. windowTicks]
      BY DEF Windows
    <3>2. [i \in DOMAIN s |-> IF s[i] > 0 THEN s[i] - 1 ELSE 0]
             \in [1 .. n -> 0 .. windowTicks]
      BY <3>1, RateAssumption
    <3> QED
      BY <3>1, <3>2 DEF Windows
  <2>2. hits' \in [Clients -> Windows] /\ allowed' = allowed
    BY <1>0, <1>4, <2>1 DEF rateTick
  <2> QED
    BY <1>0, <2>2 DEF RateTypeOK, Windows
<1>5. CASE UNCHANGED rateVars
  BY <1>5 DEF rateVars, RateTypeOK
<1> QED
  BY <1>1, <1>2, <1>3, <1>4, <1>5 DEF RateNext

\* No client has any requests recorded at first.
LEMMA RateInitEstablishes == RateInit => RateTypeOK
<1>1. <<>> \in Windows
  <2>1. <<>> \in Seq(0 .. windowTicks) /\ Len(<<>>) <= maxRequests
    BY RateAssumption
  <2> QED
    BY <2>1, ShortIsWindow
<1> QED
  BY <1>1 DEF RateInit, RateTypeOK, Windows

\* The limiter never records more than maxRequests requests of a client, so no
\* more were allowed within one window, whatever check drops and reset forgets.
THEOREM WindowNeverOverfull == RateSpec => []RateTypeOK
  BY RateInitEstablishes, RateNextPreserves, PTL DEF RateSpec

\* No element is smaller than an earlier one.
Rising(s) == \A i, j \in 1 .. Len(s) : i < j => s[i] <= s[j]

\* The timestamps of each client are kept oldest first.
OldestFirst == \A k \in Clients : Rising(hits[k])

\* A round of filter keeps the order: what it takes comes from further back than
\* what it has.
LEMMA FilterStepRises ==
    ASSUME NEW s \in Seq(Int), Rising(s), NEW T, NEW n \in 1 .. Len(s),
           NEW t \in Seq(Int), FilterInv(t, n - 1, s, T), Rising(t),
           NEW u, u = IF s[n] \in T THEN Append(t, s[n]) ELSE t
    PROVE  Rising(u)
<1>1. CASE s[n] \notin T
  BY <1>1
<1>2. CASE s[n] \in T
  <2>1. PICK L \in Nat : L = Len(t)
    OBVIOUS
  <2>2. /\ Len(u) = L + 1 /\ u[L + 1] = s[n]
        /\ \A i \in 1 .. L : u[i] = t[i]
    BY <2>1, <1>2
  <2>3. ASSUME NEW i \in 1 .. L PROVE t[i] <= s[n]
    <3>1. PICK j \in 1 .. n - 1 : s[j] = t[i]
      BY <2>1 DEF FilterInv
    <3>2. j \in 1 .. Len(s) /\ j < n
      BY <3>1
    <3> QED
      BY <3>1, <3>2 DEF Rising
  <2>4. \A i, j \in 1 .. L : i < j => t[i] <= t[j]
    BY <2>1 DEF Rising
  <2>5. ASSUME NEW i \in 1 .. L + 1, NEW j \in 1 .. L + 1, i < j PROVE u[i] <= u[j]
    <3>1. i \in 1 .. L
      BY <2>5
    <3>2. CASE j = L + 1
      BY <3>1, <3>2, <2>2, <2>3
    <3>3. CASE j # L + 1
      <4>1. j \in 1 .. L
        BY <3>3
      <4> QED
        BY <4>1, <3>1, <2>2, <2>4, <2>5
    <3> QED
      BY <3>2, <3>3
  <2> QED
    BY <2>2, <2>5 DEF Rising
<1> QED
  BY <1>1, <1>2

\* So filter returns the timestamps that are left in the same order.
LEMMA FilteredRises ==
    ASSUME NEW s \in Seq(Int), Rising(s), NEW T
    PROVE  Rising(filtered(s, T))
<1>1. PICK N \in Nat : N = Len(s)
  OBVIOUS
<1> DEFINE r == FilterRun(s, T)
           P == {n \in 0 .. N : FilterInv(r[n], n, s, T) /\ Rising(r[n])}
<1>2. /\ r[0] = <<>>
      /\ \A n \in 0 .. N : r[n] \in Seq(Int)
      /\ \A n \in 1 .. N : r[n] = IF s[n] \in T THEN Append(r[n - 1], s[n]) ELSE r[n - 1]
  BY <1>1, FilterRunUnfolds
<1>3. filtered(s, T) = r[N]
  BY <1>1 DEF filtered, FilterRun
<1> HIDE DEF r
<1>4. 0 \in P
  <2>1. FilterInv(<<>>, 0, s, T) /\ Rising(<<>>)
    BY DEF FilterInv, Rising
  <2> QED
    BY <2>1, <1>2
<1>5. ASSUME NEW n \in 1 .. N, n - 1 \in P PROVE n \in P
  <2>1. PICK t : t = r[n - 1]
    OBVIOUS
  <2>2. PICK u : u = r[n]
    OBVIOUS
  <2>3. t \in Seq(Int) /\ FilterInv(t, n - 1, s, T) /\ Rising(t)
    BY <2>1, <1>2, <1>5
  <2>4. u = IF s[n] \in T THEN Append(t, s[n]) ELSE t
    BY <2>1, <2>2, <1>2
  <2>5. n \in 1 .. Len(s)
    BY <1>1
  <2>6. FilterInv(u, n, s, T)
    BY <2>3, <2>4, <2>5, FilterStep
  <2>7. Rising(u)
    BY <2>3, <2>4, <2>5, FilterStepRises
  <2> QED
    BY <2>2, <2>6, <2>7
<1>6. \A n \in 0 .. N : n \in P
  <2> HIDE DEF P
  <2> QED
    BY <1>4, <1>5, RoundInduction
<1>7. N \in 0 .. N
  OBVIOUS
<1> QED
  BY <1>3, <1>6, <1>7

\* check appends the present, which is the latest, to what the filter left; the
\* passing of time brings all timestamps closer to the end alike.
LEMMA OldestFirstPreserved ==
    RateTypeOK /\ OldestFirst /\ [RateNext]_rateVars => OldestFirst'
<1> SUFFICES ASSUME RateTypeOK, OldestFirst, [RateNext]_rateVars PROVE OldestFirst'
  OBVIOUS
<1>0. hits \in [Clients -> Windows]
  BY DEF RateTypeOK, Windows
<1>e. Rising(<<>>)
  BY DEF Rising
<1>i. 0 .. windowTicks \subseteq Int /\ windowTicks \in Nat
  BY RateAssumption
<1>s. ASSUME NEW k \in Clients PROVE hits[k] \in Seq(Int)
  <2>1. hits[k] \in Seq(0 .. windowTicks)
    BY <1>0, WindowIsShort
  <2> QED
    BY <2>1, <1>i
<1>1. ASSUME NEW k \in Clients, check(k) PROVE OldestFirst'
  <2>1. PICK s : s = hits[k]
    OBVIOUS
  <2>2. s \in Seq(Int) /\ Rising(s)
    BY <2>1, <1>s DEF OldestFirst
  <2>3. PICK r : r = recent(k)
    OBVIOUS
  <2>4. Rising(r)
    BY <2>1, <2>2, <2>3, FilteredRises DEF recent
  <2>5. r \in Seq(0 .. windowTicks)
    BY <2>3, RecentIsWindow
  <2>6. PICK w : w = IF Len(r) < maxRequests THEN Append(r, windowTicks) ELSE r
    OBVIOUS
  <2>7. hits' = [hits EXCEPT ![k] = w]
    BY <1>1, <2>3, <2>6 DEF check, afterRefusal
  <2>8. Rising(w)
    <3>1. CASE Len(r) < maxRequests
      <4>1. PICK L \in Nat : L = Len(r)
        BY <2>5
      <4>2. Len(w) = L + 1 /\ w[L + 1] = windowTicks /\ \A i \in 1 .. L : w[i] = r[i]
        BY <2>5, <2>6, <3>1, <4>1
      <4>3. \A i \in 1 .. L : r[i] <= windowTicks
        BY <2>5, <4>1, <1>i
      <4>4. \A i, j \in 1 .. L : i < j => r[i] <= r[j]
        BY <2>4, <4>1 DEF Rising
      <4>5. ASSUME NEW i \in 1 .. L + 1, NEW j \in 1 .. L + 1, i < j PROVE w[i] <= w[j]
        <5>1. i \in 1 .. L
          BY <4>5
        <5>2. CASE j = L + 1
          BY <5>1, <5>2, <4>2, <4>3
        <5>3. CASE j # L + 1
          <6>1. j \in 1 .. L
            BY <5>3
          <6> QED
            BY <6>1, <5>1, <4>2, <4>4, <4>5
        <5> QED
          BY <5>2, <5>3
      <4> QED
        BY <4>2, <4>5 DEF Rising
    <3>2. CASE ~ (Len(r) < maxRequests)
      BY <2>4, <2>6, <3>2
    <3> QED
      BY <3>1, <3>2
  <2> QED
    BY <1>0, <2>7, <2>8 DEF OldestFirst
<1>2. ASSUME NEW k \in Clients, resetClient(k) PROVE OldestFirst'
  BY <1>0, <1>2, <1>e DEF resetClient, OldestFirst
<1>3. CASE clearClients
  BY <1>3, <1>e DEF clearClients, OldestFirst
<1>4. CASE rateTick
  <2>1. ASSUME NEW s \in Seq(Int), Rising(s)
        PROVE  Rising([i \in DOMAIN s |-> IF s[i] > 0 THEN s[i] - 1 ELSE 0])
    <3>1. PICK w : w = [i \in DOMAIN s |-> IF s[i] > 0 THEN s[i] - 1 ELSE 0]
      OBVIOUS
    <3>2. PICK L \in Nat : L = Len(s)
      OBVIOUS
    <3>3. Len(w) = L /\ \A i \in 1 .. L : w[i] = IF s[i] > 0 THEN s[i] - 1 ELSE 0
      BY <3>1, <3>2
    <3>4. \A i \in 1 .. L : s[i] \in Int
      BY <3>2
    <3>5. \A i, j \in 1 .. L : i < j => s[i] <= s[j]
      BY <2>1, <3>2 DEF Rising
    <3>6. \A i, j \in 1 .. L : i < j => w[i] <= w[j]
      BY <3>3, <3>4, <3>5
    <3>7. Rising(w)
      BY <3>3, <3>6 DEF Rising
    <3> QED
      BY <3>1, <3>7
  <2>2. SUFFICES ASSUME NEW k \in Clients PROVE Rising(hits'[k])
    BY DEF OldestFirst
  <2>3. hits'[k] = [i \in DOMAIN hits[k] |-> IF hits[k][i] > 0 THEN hits[k][i] - 1 ELSE 0]
    BY <1>4 DEF rateTick
  <2>4. PICK s : s = hits[k]
    OBVIOUS
  <2>5. s \in Seq(Int) /\ Rising(s)
    BY <2>4, <1>s DEF OldestFirst
  <2>6. hits'[k] = [i \in DOMAIN s |-> IF s[i] > 0 THEN s[i] - 1 ELSE 0]
    BY <2>3, <2>4, Zenon
  <2> QED
    BY <2>1, <2>5, <2>6
<1>5. CASE UNCHANGED rateVars
  BY <1>5 DEF rateVars, OldestFirst
<1> QED
  BY <1>1, <1>2, <1>3, <1>4, <1>5 DEF RateNext

\* timestamps[0], from which check computes the time it tells a refused client
\* to come back at, is the oldest: when it has left the window there is room.
THEOREM OldestFirstHolds == RateSpec => []OldestFirst
<1>1. RateInit => OldestFirst
  BY DEF RateInit, OldestFirst, Rising
<1> QED
  BY <1>1, OldestFirstPreserved, WindowNeverOverfull, PTL DEF RateSpec

-----------------------------------------------------------------------------
\* The composition.  Its components share no variable, so each of its steps is
\* a step or a stutter of each of them, and their invariants hold together.
ToolkitInv ==
    /\ focus \in Components
    /\ ClientInv /\ LockInv /\ DedupInv /\ IdemInv /\ BucketInv
    /\ RateTypeOK /\ QueueInv /\ DlqInv /\ BusInv

\* What a step of the composition is to each component.
LEMMA EachTakesAStep ==
    ASSUME [ToolkitNext]_toolkitVars
    PROVE  /\ focus' = focus
           /\ [Next]_vars /\ [LockNext]_lockVars /\ [DedupNext]_dedupVars
           /\ [IdemNext]_idemVars /\ [BucketNext]_bucketVars /\ [RateNext]_rateVars
           /\ [QueueNext]_queueVars /\ [DlqNext]_dlqVars /\ [BusNext]_busVars
<1>1. CASE ToolkitNext
  BY <1>1, Zenon DEF ToolkitNext, rests
<1>2. CASE UNCHANGED toolkitVars
  BY <1>2 DEF toolkitVars
<1> QED
  BY <1>1, <1>2

\* The components at rest satisfy their invariants.
LEMMA ToolkitInitEstablishes == ToolkitInit => ToolkitInv
  BY InitEstablishes, LockInitEstablishes, DedupInitEstablishes, IdemInitEstablishes,
     BucketInitEstablishes, RateInitEstablishes, QueueInitOK, DlqInitEstablishes,
     BusInitEstablishes
  DEF ToolkitInit, ToolkitInv

\* No step disturbs the invariant of any component.
LEMMA ToolkitNextPreserves == ToolkitInv /\ [ToolkitNext]_toolkitVars => ToolkitInv'
<1> SUFFICES ASSUME ToolkitInv, [ToolkitNext]_toolkitVars PROVE ToolkitInv'
  OBVIOUS
<1>1. focus' \in Components
  BY EachTakesAStep DEF ToolkitInv, Components
<1>2. ClientInv'
  BY EachTakesAStep, NextPreserves DEF ToolkitInv
<1>3. LockInv'
  BY EachTakesAStep, LockNextPreserves DEF ToolkitInv
<1>4. DedupInv'
  BY EachTakesAStep, DedupNextPreserves DEF ToolkitInv
<1>5. IdemInv'
  BY EachTakesAStep, IdemNextPreserves DEF ToolkitInv
<1>6. BucketInv'
  BY EachTakesAStep, BucketNextPreserves DEF ToolkitInv
<1>7. RateTypeOK'
  BY EachTakesAStep, RateNextPreserves DEF ToolkitInv
<1>8. QueueInv'
  BY EachTakesAStep, QueueStepOK DEF ToolkitInv
<1>9. DlqInv'
  BY EachTakesAStep, DlqNextPreserves DEF ToolkitInv
<1>10. BusInv'
  BY EachTakesAStep, BusNextPreserves DEF ToolkitInv
<1> QED
  BY <1>1, <1>2, <1>3, <1>4, <1>5, <1>6, <1>7, <1>8, <1>9, <1>10 DEF ToolkitInv, Components

\* The invariants of all components hold together.
THEOREM ToolkitInvariant == ToolkitSpec => []ToolkitInv
  BY ToolkitInitEstablishes, ToolkitNextPreserves, PTL DEF ToolkitSpec

\* The state of the HCM client and of every utility is well-typed, their
\* capacities included: the locks' and entries' times within their limits, the
\* bucket within its capacity, the windows, the heap and the dead letters within
\* theirs.
THEOREM ToolkitTypeCorrect == ToolkitSpec => []ToolkitTypeOK
<1>1. ToolkitInv => ToolkitTypeOK
  BY QueueInvType
  DEF ToolkitInv, ToolkitTypeOK, ClientInv, LockInv, DedupInv, IdemInv, BucketInv,
      DlqInv, BusInv
<1> QED
  BY <1>1, ToolkitInvariant, PTL

\* The breaker, the locks, the deduplicator, the idempotency manager, the bucket
\* and the dead letters are as safe beside each other as alone: of the
\* composition that the toolkit run checks, all their invariants hold at once.
THEOREM ToolkitSafe ==
    ToolkitSpec => [](/\ ClosedBelowThreshold /\ OnlyProbesInHalfOpen
                      /\ OneLiveHolder /\ OneTaskPerKey /\ ProcessedOnce
                      /\ BurstBound /\ DeliveredWithinRetries)
<1>1. ToolkitInv => /\ ClosedBelowThreshold /\ OnlyProbesInHalfOpen
                    /\ OneLiveHolder /\ OneTaskPerKey /\ ProcessedOnce
                    /\ BurstBound /\ DeliveredWithinRetries
  BY LockInvExcludes, IdemInvOnce, BucketInvBounds, DlqInvBounds
  DEF ToolkitInv, ClientInv, DedupInv
<1> QED
  BY <1>1, ToolkitInvariant, PTL

\* What is proved of the bus alone holds of it as one of the components: publish
\* never calls the handler of a subscribeOnce that has been called.
THEOREM ToolkitNeverPublishesTwice == ToolkitSpec => NeverPublishedTwice
<1>1. ToolkitInv => PublishesOnce
  BY BusInvPublishesOnce DEF ToolkitInv
<1> QED
  BY <1>1, ToolkitInvariant, PTL DEF ToolkitSpec, NeverPublishedTwice

\* What is proved of the queue alone holds of it as one of the components: the
\* heap implements the ordered queue.
THEOREM ToolkitQueueRefines == ToolkitSpec => HeapImplementsOrderedQueue
<1>1. ToolkitInit => Ordered!Init
  BY QueueInitOK DEF ToolkitInit
<1>2. ToolkitInv /\ [ToolkitNext]_toolkitVars => [Ordered!Next]_Ordered!orderedVars
  BY EachTakesAStep, QueueStepOK DEF ToolkitInv
<1> QED
  BY <1>1, <1>2, ToolkitInvariant, PTL
  DEF ToolkitSpec, HeapImplementsOrderedQueue, Ordered!Spec

=============================================================================
