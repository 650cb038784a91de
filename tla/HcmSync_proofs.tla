--------------------------- MODULE HcmSync_proofs ---------------------------
(***************************************************************************)
(* Proofs about HcmSync for every number of requests and of overlapping    *)
(* retry passes, every retry maximum and every number of faults.           *)
(*                                                                         *)
(* The tasks work on copies that are stale as soon as they are taken, so   *)
(* that nothing can be said of a row without saying what the copies in     *)
(* flight may still write to it.  Two facts about a row only ever grow: it *)
(* stays approved once it is (or is being) approved, and the attempts that *)
(* may be written to it have a limit that rises with each approval begun.  *)
(* Whatever a copy says is bounded by them, now and later.                 *)
(***************************************************************************)
EXTENDS HcmSync, TLAPS

\* The approval of id has been committed or awaits its COMMIT.
Approving(id) == rows[id].status = "APPROVED" \/ id \in committing

\* No fault has undone an approval.
NoneUndone == commitFails + crashes = 0

\* What may be written to the attempts of id: the maximum of the retry passes,
\* and one more for each approval that was begun.
limit(id) ==
    MAX_PENDING_SYNC_RETRIES + commitFails + crashes
        + (IF rows[id].status = "PENDING" /\ id \notin committing THEN 0 ELSE 1)

\* A copy of the row of id, taken at some time.
SoundCopy(id, copy) ==
    /\ id \in RequestIds
    /\ rows[id] # None
    /\ copy \in Row
    /\ NoneUndone /\ copy.status = "APPROVED" => Approving(id)

\* What task t is doing, v, keeps to the limits whatever it writes next.
Sound(t, v) ==
    v.phase # "idle" =>
        /\ SoundCopy(v.id, v.copy)
        /\ v.phase = "notify" => v.copy.status = "APPROVED"
        /\ v.phase \in {"validate", "notify", "write"} =>
              attemptsAfter(t, v.copy) <= limit(v.id)
        /\ v.phase \in {"write", "rewrite"} =>
              /\ v.patch \in Patch
              /\ v.patch.attempts # None => v.patch.attempts <= limit(v.id)

TasksSound == \A t \in Tasks : Sound(t, task[t])

PassesSound ==
    \A w \in Passes, id \in RequestIds : pass[w][id] # None =>
        SoundCopy(id, pass[w][id]) /\ pass[w][id].attempts <= limit(id)

RowsSound ==
    /\ \A id \in RequestIds : rows[id] # None => rows[id].attempts <= limit(id)
    /\ \A id \in committing : rows[id] # None
    /\ \A id \in told : rows[id] # None

SyncInv ==
    /\ SyncTypeOK
    /\ RowsSound
    /\ TasksSound
    /\ PassesSound
    /\ OnlyApprovalsTold

-----------------------------------------------------------------------------
(* The facts about a row that only ever grow. *)

TaskState == [phase : {"idle", "validate", "notify", "write", "rewrite"},
              id    : RequestIds \cup {None},
              copy  : Row \cup {None},
              patch : Patch \cup {None}]

\* The faults and the limit are numbers.
LEMMA LimitType ==
    ASSUME SyncTypeOK, NEW id
    PROVE  /\ commitFails \in Nat /\ crashes \in Nat /\ updateFails \in Nat
           /\ MAX_PENDING_SYNC_RETRIES \in Nat
           /\ limit(id) \in Nat
           /\ MAX_PENDING_SYNC_RETRIES <= limit(id)
           /\ 1 <= limit(id)
<1>1. /\ commitFails \in Nat /\ crashes \in Nat /\ updateFails \in Nat
      /\ MAX_PENDING_SYNC_RETRIES \in Nat /\ MAX_PENDING_SYNC_RETRIES >= 1
  BY SyncAssumption DEF SyncTypeOK
<1> QED BY <1>1 DEF limit

Grows(id) ==
    rows[id] # None =>
        /\ rows'[id] # None
        /\ limit(id) <= limit(id)'
        /\ NoneUndone' => NoneUndone
        /\ NoneUndone' /\ Approving(id) => Approving(id)'

\* What a step does to a row: it is not touched, its sync columns are written,
\* its approval is begun, committed or lost, or it is refused.
LEMMA GrowsByKind ==
    ASSUME SyncTypeOK, NEW id,
           {commitFails', crashes'} \subseteq Nat,
           commitFails <= commitFails', crashes <= crashes',
           rows[id] # None => rows'[id] # None,
           rows[id] # None /\ Approving(id) =>
              Approving(id)' \/ commitFails' # commitFails \/ crashes' # crashes,
           rows[id] # None /\ rows[id].status # "PENDING" => rows'[id].status # "PENDING"
    PROVE  Grows(id)
<1>1. PICK m \in Nat, f \in Nat, c \in Nat, f2 \in Nat, c2 \in Nat :
         /\ m = MAX_PENDING_SYNC_RETRIES /\ f = commitFails /\ c = crashes
         /\ f2 = commitFails' /\ c2 = crashes'
         /\ f <= f2 /\ c <= c2
  BY LimitType
<1>0. f <= f2 /\ c <= c2
  BY <1>1
<1>2. PICK e \in {0, 1}, e2 \in {0, 1} :
         /\ e = IF rows[id].status = "PENDING" /\ id \notin committing THEN 0 ELSE 1
         /\ e2 = IF rows'[id].status = "PENDING" /\ id \notin committing' THEN 0 ELSE 1
  OBVIOUS
<1>3. limit(id) = m + f + c + e /\ limit(id)' = m + f2 + c2 + e2
  BY <1>1, <1>2 DEF limit
<1>4. NoneUndone' => NoneUndone /\ f2 = f /\ c2 = c
  <2>1. f2 + c2 = 0 => f + c = 0 /\ f2 = f /\ c2 = c
    BY <1>0
  <2> QED BY <1>1, <2>1 DEF NoneUndone
<1>5. ASSUME rows[id] # None, e = 1
      PROVE  e2 = 1 \/ f2 # f \/ c2 # c
  <2>1. CASE rows[id].status # "PENDING"
    BY <1>2, <1>5, <2>1
  <2>2. CASE id \in committing
    <3>1. Approving(id)
      BY <2>2 DEF Approving
    <3>2. Approving(id)' => e2 = 1
      BY <1>2 DEF Approving
    <3> QED BY <1>1, <1>5, <3>1, <3>2
  <2> QED BY <1>2, <1>5, <2>1, <2>2
<1>6. rows[id] # None => m + f + c + e <= m + f2 + c2 + e2
  BY <1>0, <1>5
<1>7. rows[id] # None /\ NoneUndone' /\ Approving(id) => Approving(id)'
  BY <1>1, <1>4
<1> QED BY <1>3, <1>4, <1>6, <1>7 DEF Grows

\* A copy stays sound.
LEMMA SoundCopyGrows ==
    ASSUME NEW id, NEW copy, SoundCopy(id, copy), Grows(id)
    PROVE  SoundCopy(id, copy)'
BY DEF SoundCopy, Grows

\* What a task is doing stays sound.
LEMMA SoundGrows ==
    ASSUME SyncTypeOK, SyncTypeOK', NEW t \in Tasks, NEW v \in TaskState, Sound(t, v),
           v.phase # "idle" => Grows(v.id)
    PROVE  Sound(t, v)'
<1> SUFFICES ASSUME v.phase # "idle"
             PROVE  Sound(t, v)'
  BY DEF Sound
<1>1. SoundCopy(v.id, v.copy) /\ Grows(v.id)
  BY DEF Sound
<1>2. SoundCopy(v.id, v.copy)'
  BY <1>1, SoundCopyGrows
<1>3. limit(v.id) <= limit(v.id)'
  BY <1>1 DEF SoundCopy, Grows
<1>4. PICK n \in Nat, n2 \in Nat : n = limit(v.id) /\ n2 = limit(v.id)' /\ n <= n2
  <2>1. limit(v.id) \in Nat
    BY LimitType
  <2>2. limit(v.id)' \in Nat
    BY SyncAssumption DEF SyncTypeOK, limit
  <2> QED BY <1>3, <2>1, <2>2
<1>5. attemptsAfter(t, v.copy) \in Nat
  BY <1>1 DEF SoundCopy, Row, attemptsAfter
<1>6. v.patch \in Patch => v.patch.attempts \in Nat \cup {None}
  BY DEF Patch
<1>7. /\ v.phase = "notify" => v.copy.status = "APPROVED"
      /\ v.phase \in {"validate", "notify", "write"} => attemptsAfter(t, v.copy) <= n
      /\ v.phase \in {"write", "rewrite"} =>
            v.patch \in Patch /\ (v.patch.attempts # None => v.patch.attempts <= n)
  BY <1>4 DEF Sound
<1>8. /\ v.phase \in {"validate", "notify", "write"} => attemptsAfter(t, v.copy) <= n2
      /\ v.phase \in {"write", "rewrite"} =>
            v.patch \in Patch /\ (v.patch.attempts # None => v.patch.attempts <= n2)
  BY <1>4, <1>5, <1>6, <1>7
<1> QED BY <1>2, <1>4, <1>7, <1>8 DEF Sound, attemptsAfter

\* What is true of copies in flight stays true while rows grow, so that only
\* what a step adds has to be sound.
LEMMA CopiesKept ==
    ASSUME SyncInv, SyncTypeOK', \A id \in RequestIds : Grows(id),
           \A t \in Tasks : task'[t] = task[t] \/ Sound(t, task[t])',
           \A w \in Passes, id \in RequestIds :
              \/ pass'[w][id] = None
              \/ pass'[w][id] = pass[w][id]
              \/ SoundCopy(id, pass[w][id])' /\ pass'[w][id].attempts <= limit(id)'
    PROVE  TasksSound' /\ PassesSound'
<1>0. SyncTypeOK
  BY DEF SyncInv
<1>1. ASSUME NEW t \in Tasks
      PROVE  Sound(t, task[t])'
  <2>1. CASE task'[t] = task[t]
    <3>1. PICK u \in TaskState : u = task[t]
      BY <1>0 DEF SyncTypeOK, TaskState
    <3>2. Sound(t, u)
      BY <3>1 DEF SyncInv, TasksSound
    <3>3. u.phase # "idle" => Grows(u.id)
      BY <3>2 DEF Sound, SoundCopy
    <3>4. Sound(t, u)'
      BY <1>0, <3>2, <3>3, SoundGrows
    <3>5. task'[t] = u
      BY <2>1, <3>1
    <3> QED BY <3>4, <3>5
            DEF Sound, SoundCopy, Approving, limit, NoneUndone, attemptsAfter
  <2> QED BY <2>1
<1>2. ASSUME NEW w \in Passes, NEW id \in RequestIds, pass'[w][id] # None
      PROVE  SoundCopy(id, pass[w][id])' /\ pass'[w][id].attempts <= limit(id)'
  <2>1. CASE pass'[w][id] = pass[w][id]
    <3>1. PICK copy \in Row : copy = pass[w][id] /\ copy = pass'[w][id]
      BY <1>0, <1>2, <2>1 DEF SyncTypeOK
    <3>2. SoundCopy(id, copy) /\ copy.attempts <= limit(id)
      BY <1>2, <3>1, SyncAssumption DEF SyncInv, PassesSound
    <3>3. SoundCopy(id, copy)'
      BY <3>2, SoundCopyGrows
    <3>4. PICK n \in Nat, n2 \in Nat : n = limit(id) /\ n2 = limit(id)'
      <4>1. limit(id) \in Nat
        BY <1>0, LimitType
      <4>2. limit(id)' \in Nat
        BY SyncAssumption DEF SyncTypeOK, limit
      <4> QED BY <4>1, <4>2
    <3>5. copy.attempts <= n /\ n <= n2 /\ copy.attempts \in Nat
      BY <3>2, <3>4 DEF SoundCopy, Grows, Row
    <3>6. copy.attempts <= n2
      BY <3>5
    <3> QED BY <3>1, <3>3, <3>4, <3>6 DEF SoundCopy, Approving, NoneUndone
  <2> QED BY <1>2, <2>1
<1> QED BY <1>1, <1>2 DEF TasksSound, PassesSound

\* The patches of a task are typed and count its attempt.
LEMMA PatchType ==
    ASSUME NEW t, NEW copy \in Row, NEW sync \in HcmSyncStatus,
           NEW validated \in BOOLEAN \cup {None}
    PROVE  /\ PatchOf(t, copy, sync, validated) \in Patch
           /\ PatchOf(t, copy, sync, validated).attempts = attemptsAfter(t, copy)
           /\ attemptsAfter(t, copy) \in Nat
<1>1. attemptsAfter(t, copy) \in Nat
  BY DEF attemptsAfter, Row
<1> QED BY <1>1 DEF PatchOf, Patch

\* A task that is about to write what it counted.
LEMMA WriteSound ==
    ASSUME NEW t \in Tasks, NEW id, NEW copy, SoundCopy(id, copy),
           NEW sync \in HcmSyncStatus, NEW validated \in BOOLEAN \cup {None},
           attemptsAfter(t, copy) <= limit(id),
           NEW v, v = write(id, copy, PatchOf(t, copy, sync, validated))
    PROVE  v \in TaskState /\ Sound(t, v)
<1>1. id \in RequestIds /\ copy \in Row
  BY DEF SoundCopy
<1>2. PICK p \in Patch : p = PatchOf(t, copy, sync, validated)
                         /\ p.attempts = attemptsAfter(t, copy)
  BY <1>1, PatchType
<1>3. v = [phase |-> "write", id |-> id, copy |-> copy, patch |-> p]
  BY <1>2 DEF write
<1>4. v.phase = "write" /\ v.id = id /\ v.copy = copy /\ v.patch = p
  BY <1>3
<1>5. v \in TaskState
  BY <1>1, <1>3 DEF TaskState
<1> QED BY <1>2, <1>4, <1>5 DEF Sound

\* The same from the catch clause.
LEMMA RewriteSound ==
    ASSUME NEW t \in Tasks, NEW id, NEW copy, SoundCopy(id, copy),
           NEW p \in Patch, p.attempts # None => p.attempts <= limit(id),
           NEW v, v = [write(id, copy, p) EXCEPT !.phase = "rewrite"]
    PROVE  v \in TaskState /\ Sound(t, v)
<1>1. id \in RequestIds /\ copy \in Row
  BY DEF SoundCopy
<1>3. v = [phase |-> "rewrite", id |-> id, copy |-> copy, patch |-> p]
  BY DEF write
<1>4. v.phase = "rewrite" /\ v.id = id /\ v.copy = copy /\ v.patch = p
  BY <1>3
<1>5. [phase |-> "rewrite", id |-> id, copy |-> copy, patch |-> p] \in TaskState
  BY <1>1, Zenon DEF TaskState
<1>6. v \in TaskState
  BY <1>3, <1>5, Zenon
<1> QED BY <1>4, <1>6 DEF Sound

\* A task that awaits the HCM.
LEMMA AwaitSound ==
    ASSUME NEW t \in Tasks, NEW id, NEW copy, SoundCopy(id, copy),
           NEW phase \in {"validate", "notify"},
           phase = "notify" => copy.status = "APPROVED",
           attemptsAfter(t, copy) <= limit(id),
           NEW v, v = await(phase, id, copy)
    PROVE  v \in TaskState /\ Sound(t, v)
<1>1. id \in RequestIds /\ copy \in Row
  BY DEF SoundCopy
<1>3. v = [phase |-> phase, id |-> id, copy |-> copy, patch |-> None]
  BY DEF await
<1>4. v.phase = phase /\ v.id = id /\ v.copy = copy
  BY <1>3
<1>5. v \in TaskState
  BY <1>1, <1>3 DEF TaskState
<1> QED BY <1>4, <1>5 DEF Sound

\* A task that has ended.
LEMMA IdleSound ==
    ASSUME NEW t
    PROVE  Idle \in TaskState /\ Sound(t, Idle) /\ Sound(t, Idle)'
BY DEF Idle, TaskState, Sound

\* A row that nothing touches.
LEMMA UntouchedGrows ==
    ASSUME SyncTypeOK, UNCHANGED <<rows, committing, commitFails, crashes>>
    PROVE  \A id \in RequestIds : Grows(id)
<1>1. commitFails \in Nat /\ crashes \in Nat
  BY LimitType
<1>2. commitFails' = commitFails /\ crashes' = crashes /\ rows' = rows
      /\ committing' = committing
  OBVIOUS
<1> SUFFICES ASSUME NEW id \in RequestIds
             PROVE  Grows(id)
  OBVIOUS
<1>3. limit(id)' = limit(id) /\ limit(id) \in Nat
  BY <1>2, LimitType DEF limit
<1>4. limit(id) <= limit(id)'
  BY <1>3
<1> QED BY <1>2, <1>4 DEF Grows, NoneUndone, Approving

\* A step of a task that does not write a row: what it does next must be sound,
\* and whom it tells must be approved.
LEMMA TaskStepPreserves ==
    ASSUME SyncInv, NEW t \in Tasks, NEW v \in TaskState, Sound(t, v),
           task' = [task EXCEPT ![t] = v],
           UNCHANGED <<rows, committing, commitFails, crashes>>,
           updateFails' \in 0 .. MaxFaults,
           pass' \in [Passes -> [RequestIds -> Row \cup {None}]],
           \A w \in Passes, id \in RequestIds :
              pass'[w][id] = None \/ pass'[w][id] = pass[w][id],
           \A id \in told' : id \in told \/
              (id \in RequestIds /\ rows[id] # None /\ (NoneUndone => Approving(id)))
    PROVE  SyncInv'
<1>0. SyncTypeOK
  BY DEF SyncInv
<1>1. rows' = rows /\ committing' = committing
      /\ commitFails' = commitFails /\ crashes' = crashes
  OBVIOUS
<1>2. SyncTypeOK'
  <2>1. task' \in [Tasks -> TaskState]
    BY <1>0 DEF SyncTypeOK, TaskState
  <2>2. told' \subseteq RequestIds
    BY <1>0 DEF SyncTypeOK
  <2>3. {updateFails', commitFails', crashes'} \subseteq 0 .. MaxFaults
    BY <1>0, <1>1 DEF SyncTypeOK
  <2> QED BY <1>0, <1>1, <2>1, <2>2, <2>3 DEF SyncTypeOK, TaskState
<1>3. \A id \in RequestIds : Grows(id)
  BY <1>0, UntouchedGrows
<1>4. v.phase # "idle" => Grows(v.id)
  BY <1>3 DEF Sound, SoundCopy
<1>5. Sound(t, v)'
  BY <1>0, <1>2, <1>4, SoundGrows
<1>6. task'[t] = v /\ \A u \in Tasks : u # t => task'[u] = task[u]
  BY <1>0 DEF SyncTypeOK
<1>7. TasksSound' /\ PassesSound'
  <2>1. Sound(t, task[t])'
    BY <1>5, <1>6 DEF Sound, SoundCopy, Approving, limit, NoneUndone, attemptsAfter
  <2> QED BY <1>2, <1>3, <1>6, <2>1, CopiesKept
<1>8. RowsSound'
  <2>1. \A id \in RequestIds : limit(id)' = limit(id)
    BY <1>1 DEF limit
  <2>2. \A id \in RequestIds : rows'[id] # None => rows'[id].attempts <= limit(id)'
    BY <1>1, <2>1 DEF SyncInv, RowsSound
  <2>3. (\A id \in committing' : rows'[id] # None) /\ (\A id \in told' : rows'[id] # None)
    BY <1>1 DEF SyncInv, RowsSound
  <2> QED BY <2>2, <2>3 DEF RowsSound
<1>9. OnlyApprovalsTold'
  BY <1>1 DEF SyncInv, OnlyApprovalsTold, PendingNeverTouchedHcm, NoneUndone, Approving
<1> QED BY <1>2, <1>7, <1>8, <1>9 DEF SyncInv

\* Whom the HCM was told of stays approved.
LEMMA ToldKept ==
    ASSUME SyncInv, \A id \in RequestIds : Grows(id), told' = told
    PROVE  OnlyApprovalsTold' /\ \A id \in told' : rows'[id] # None
<1>1. told \subseteq RequestIds
  BY DEF SyncInv, SyncTypeOK
<1>2. \A id \in told : rows[id] # None /\ (NoneUndone => Approving(id))
  BY DEF SyncInv, RowsSound, OnlyApprovalsTold, PendingNeverTouchedHcm, NoneUndone,
         Approving
<1>3. \A id \in told : rows'[id] # None /\ (NoneUndone' => Approving(id)')
  BY <1>1, <1>2 DEF Grows
<1> QED BY <1>3 DEF OnlyApprovalsTold, PendingNeverTouchedHcm, NoneUndone, Approving

\* A row whose attempts are not written keeps within its limit.
LEMMA AttemptsKept ==
    ASSUME SyncInv, SyncTypeOK', NEW id \in RequestIds, Grows(id), rows[id] # None,
           rows'[id].attempts = rows[id].attempts
    PROVE  rows'[id].attempts <= limit(id)'
<1>1. PICK n \in Nat, n2 \in Nat : n = limit(id) /\ n2 = limit(id)'
  <2>1. limit(id) \in Nat
    BY LimitType DEF SyncInv
  <2>2. limit(id)' \in Nat
    BY SyncAssumption DEF SyncTypeOK, limit
  <2> QED BY <2>1, <2>2
<1>2. PICK a \in Nat : a = rows[id].attempts
  BY DEF SyncInv, SyncTypeOK, Row
<1>3. a <= n /\ n <= n2
  BY <1>1, <1>2 DEF SyncInv, RowsSound, Grows
<1>4. a <= n2
  BY <1>3
<1> QED BY <1>1, <1>2, <1>4

\* Writing the status of a row.
LEMMA StatusWritten ==
    ASSUME NEW r \in Row, NEW st \in Status
    PROVE  /\ [r EXCEPT !.status = st] \in Row
           /\ [r EXCEPT !.status = st].status = st
           /\ [r EXCEPT !.status = st].attempts = r.attempts
BY DEF Row

\* Marking a copy as validated.
LEMMA ValidatedWritten ==
    ASSUME NEW r \in Row
    PROVE  /\ [r EXCEPT !.validated = TRUE] \in Row
           /\ [r EXCEPT !.validated = TRUE].status = r.status
           /\ [r EXCEPT !.validated = TRUE].attempts = r.attempts
BY DEF Row

\* createRequest: the first copy is the row itself.
LEMMA CreatePreserves ==
    ASSUME SyncInv, NEW id \in RequestIds, createRequest(id)
    PROVE  SyncInv'
<1>0. SyncTypeOK
  BY DEF SyncInv
<1> DEFINE new == [status |-> "PENDING", sync |-> "PENDING", validated |-> FALSE,
                   attempts |-> 0]
           t == <<"create", id>>
           v == [phase |-> "validate", id |-> id, copy |-> new, patch |-> None]
<1>1. new \in Row /\ t \in Tasks
  BY DEF Row, Status, HcmSyncStatus, Tasks
<1>2. v \in TaskState
  BY <1>1 DEF TaskState
<1>3. /\ rows[id] = None
      /\ rows' = [rows EXCEPT ![id] = new]
      /\ task' = [task EXCEPT ![t] = v]
      /\ committing' = committing /\ pass' = pass /\ told' = told
      /\ updateFails' = updateFails /\ commitFails' = commitFails /\ crashes' = crashes
  BY DEF createRequest, await, counters
<1>4. SyncTypeOK'
  BY <1>0, <1>1, <1>2, <1>3 DEF SyncTypeOK, TaskState
<1>5. /\ rows'[id] = new /\ \A x \in RequestIds : x # id => rows'[x] = rows[x]
      /\ task'[t] = v /\ \A u \in Tasks : u # t => task'[u] = task[u]
  BY <1>0, <1>1, <1>3 DEF SyncTypeOK
<1>6. ASSUME NEW x \in RequestIds
      PROVE  Grows(x)
  <2>1. CASE x = id
    BY <1>3, <2>1 DEF Grows
  <2>2. CASE x # id
    <3>1. rows'[x] = rows[x] /\ (Approving(x)' <=> Approving(x))
      BY <1>3, <1>5, <2>2 DEF Approving
    <3>2. commitFails \in Nat /\ crashes \in Nat
      BY <1>0, LimitType
    <3> QED BY <1>0, <1>3, <3>1, <3>2, GrowsByKind
  <2> QED BY <2>1, <2>2
<1>7. id \notin committing
  BY <1>3 DEF SyncInv, RowsSound
<1>8. limit(id)' \in Nat /\ 1 <= limit(id)' /\ 0 <= limit(id)'
  <2>1. PICK m \in Nat, f \in Nat, c \in Nat :
           m = MAX_PENDING_SYNC_RETRIES /\ f = commitFails /\ c = crashes /\ m >= 1
    BY <1>0, LimitType, SyncAssumption
  <2>2. limit(id)' = m + f + c + 0
    BY <1>3, <1>5, <1>7, <2>1 DEF limit
  <2>3. m >= 1
    BY <2>1
  <2>4. m + f + c + 0 \in Nat /\ 1 <= m + f + c + 0 /\ 0 <= m + f + c + 0
    BY <2>3
  <2> QED BY <2>2, <2>4
<1>9. Sound(t, task[t])'
  <2>1. rows'[id] # None
    BY <1>1, <1>5, SyncAssumption
  <2>2. /\ v.phase = "validate" /\ v.id = id /\ v.copy = new /\ new.status = "PENDING"
        /\ attemptsAfter(t, new) = 1
    BY DEF attemptsAfter
  <2> HIDE DEF v, new, t
  <2>3. SoundCopy(id, new)'
    BY <1>1, <2>1, <2>2 DEF SoundCopy
  <2>4. Sound(t, v)'
    BY <1>8, <2>2, <2>3 DEF Sound, v, new, attemptsAfter
  <2> QED BY <1>5, <2>4 DEF Sound, SoundCopy, Approving, limit, NoneUndone, attemptsAfter,
                            v, new
<1>10. TasksSound' /\ PassesSound'
  BY <1>3, <1>4, <1>5, <1>6, <1>9, CopiesKept
<1>11. OnlyApprovalsTold' /\ \A x \in told' : rows'[x] # None
  BY <1>3, <1>6, ToldKept
<1>12. \A x \in RequestIds : rows'[x] # None => rows'[x].attempts <= limit(x)'
  BY <1>4, <1>5, <1>6, <1>8, AttemptsKept
<1>13. \A x \in committing' : rows'[x] # None
  <2>1. \A x \in committing : x \in RequestIds /\ rows[x] # None /\ Grows(x)
    BY <1>0, <1>6 DEF SyncInv, SyncTypeOK, RowsSound
  <2> QED BY <1>3, <2>1 DEF Grows
<1> QED BY <1>4, <1>10, <1>11, <1>12, <1>13 DEF SyncInv, RowsSound

\* approveRequest: the limit rises by the attempt that the task will count.
LEMMA ApprovePreserves ==
    ASSUME SyncInv, NEW id \in RequestIds, approveRequest(id)
    PROVE  SyncInv'
<1>0. SyncTypeOK
  BY DEF SyncInv
<1>1. /\ rows[id] # None /\ rows[id].status = "PENDING" /\ id \notin committing
      /\ rows[id] \in Row
  BY <1>0 DEF approveRequest, Pending, SyncTypeOK
<1>2. PICK copy \in Row : /\ copy = [rows[id] EXCEPT !.status = "APPROVED"]
                          /\ copy.status = "APPROVED"
                          /\ copy.attempts = rows[id].attempts
  <2>1. "APPROVED" \in Status
    BY DEF Status
  <2>2. PICK r \in Row, st \in Status : r = rows[id] /\ st = "APPROVED"
    BY <1>1, <2>1
  <2>3. /\ [r EXCEPT !.status = st] \in Row
        /\ [r EXCEPT !.status = st].status = st
        /\ [r EXCEPT !.status = st].attempts = r.attempts
    BY StatusWritten, Zenon
  <2> QED BY <2>2, <2>3, Zenon
<1>3. PICK phase \in {"validate", "notify"} :
         phase = IF copy.validated THEN "notify" ELSE "validate"
  OBVIOUS
<1> DEFINE t == <<"approve", id>>
           v == [phase |-> phase, id |-> id, copy |-> copy, patch |-> None]
<1>4. t \in Tasks /\ v \in TaskState
  BY DEF Tasks, TaskState
<1>5. /\ committing' = committing \cup {id}
      /\ task' = [task EXCEPT ![t] = v]
      /\ rows' = rows /\ pass' = pass /\ told' = told
      /\ updateFails' = updateFails /\ commitFails' = commitFails /\ crashes' = crashes
  BY <1>2, <1>3 DEF approveRequest, approvalFlow, await, counters
<1>6. SyncTypeOK'
  BY <1>0, <1>4, <1>5 DEF SyncTypeOK, TaskState
<1>7. task'[t] = v /\ \A u \in Tasks : u # t => task'[u] = task[u]
  BY <1>0, <1>4, <1>5 DEF SyncTypeOK
<1>8. ASSUME NEW x \in RequestIds
      PROVE  Grows(x)
  <2>1. rows'[x] = rows[x] /\ (Approving(x) => Approving(x)')
    BY <1>5 DEF Approving
  <2>2. commitFails \in Nat /\ crashes \in Nat
    BY <1>0, LimitType
  <2> QED BY <1>0, <1>5, <2>1, <2>2, GrowsByKind
<1>9. copy.attempts + 1 <= limit(id)'
  <2>1. PICK m \in Nat, f \in Nat, c \in Nat, a \in Nat :
           m = MAX_PENDING_SYNC_RETRIES /\ f = commitFails /\ c = crashes
           /\ a = rows[id].attempts
    BY <1>0, <1>1, LimitType DEF Row
  <2>2. limit(id) = m + f + c + 0 /\ limit(id)' = m + f + c + 1
    BY <1>1, <1>5, <2>1 DEF limit
  <2>3. a <= m + f + c + 0
    BY <1>1, <2>1, <2>2 DEF SyncInv, RowsSound
  <2>4. a + 1 <= m + f + c + 1
    BY <2>3
  <2> QED BY <1>2, <2>1, <2>2, <2>4
<1>10. Sound(t, task[t])'
  <2>1. v.phase = phase /\ v.id = id /\ v.copy = copy
    OBVIOUS
  <2>2. attemptsAfter(t, copy) = copy.attempts + 1
    BY DEF attemptsAfter
  <2> HIDE DEF t, v
  <2>3. SoundCopy(id, copy)'
    BY <1>1, <1>5 DEF SoundCopy, Approving
  <2>4. attemptsAfter(t, copy) <= limit(id)'
    BY <1>9, <2>2
  <2>5. /\ task'[t].phase = phase /\ task'[t].id = id /\ task'[t].copy = copy
    BY <1>7, <2>1
  <2>6. PICK d : d = task'[t]
    OBVIOUS
  <2>7. Sound(t, d)'
    BY <1>2, <2>3, <2>4, <2>5, <2>6 DEF Sound, attemptsAfter, t
  <2> QED BY <2>6, <2>7 DEF Sound, SoundCopy, Approving, limit, NoneUndone, attemptsAfter
<1>11. TasksSound' /\ PassesSound'
  BY <1>5, <1>6, <1>7, <1>8, <1>10, CopiesKept
<1>12. OnlyApprovalsTold' /\ \A x \in told' : rows'[x] # None
  BY <1>5, <1>8, ToldKept
<1>13. \A x \in RequestIds : rows'[x] # None => rows'[x].attempts <= limit(x)'
  BY <1>5, <1>6, <1>8, AttemptsKept
<1>14. \A x \in committing' : rows'[x] # None
  BY <1>1, <1>5 DEF SyncInv, RowsSound
<1> QED BY <1>6, <1>11, <1>12, <1>13, <1>14 DEF SyncInv, RowsSound

\* A step under which the rows grow, and what it adds is sound.
LEMMA GrowthPreserves ==
    ASSUME SyncInv, SyncTypeOK', \A id \in RequestIds : Grows(id), told' = told,
           \A t \in Tasks : task'[t] = task[t] \/ Sound(t, task[t])',
           \A w \in Passes, id \in RequestIds :
              \/ pass'[w][id] = None
              \/ pass'[w][id] = pass[w][id]
              \/ SoundCopy(id, pass[w][id])' /\ pass'[w][id].attempts <= limit(id)',
           \A id \in RequestIds : rows'[id] # None =>
              \/ rows[id] # None /\ rows'[id].attempts = rows[id].attempts
              \/ rows'[id].attempts <= limit(id)',
           committing' \subseteq committing
    PROVE  SyncInv'
<1>1. TasksSound' /\ PassesSound'
  BY CopiesKept
<1>2. OnlyApprovalsTold' /\ \A x \in told' : rows'[x] # None
  BY ToldKept
<1>3. \A x \in RequestIds : rows'[x] # None => rows'[x].attempts <= limit(x)'
  BY AttemptsKept
<1>4. \A x \in committing' : rows'[x] # None
  BY DEF SyncInv, SyncTypeOK, RowsSound, Grows
<1> QED BY <1>1, <1>2, <1>3, <1>4 DEF SyncInv, RowsSound

\* One fault more stays within the bound on faults.
LEMMA FaultCounts ==
    ASSUME SyncTypeOK, MayFail
    PROVE  /\ updateFails + 1 \in 0 .. MaxFaults
           /\ commitFails + 1 \in 0 .. MaxFaults
           /\ crashes + 1 \in 0 .. MaxFaults
<1>1. updateFails \in Nat /\ commitFails \in Nat /\ crashes \in Nat /\ MaxFaults \in Nat
  BY SyncAssumption DEF SyncTypeOK
<1> QED BY <1>1 DEF MayFail

\* The COMMIT of an approval.
LEMMA CommitPreserves ==
    ASSUME SyncInv, NEW id \in RequestIds, commit(id)
    PROVE  SyncInv'
<1>0. SyncTypeOK
  BY DEF SyncInv
<1>1. /\ id \in committing /\ committing' = committing \ {id}
      /\ rows' = [rows EXCEPT ![id].status = "APPROVED"]
      /\ task' = task /\ pass' = pass /\ told' = told
      /\ updateFails' = updateFails /\ commitFails' = commitFails /\ crashes' = crashes
  BY DEF commit, counters
<1>2. rows[id] \in Row /\ "APPROVED" \in Status
  BY <1>0, <1>1 DEF SyncInv, RowsSound, SyncTypeOK, Status
<1>3. PICK r \in Row : /\ r = [rows[id] EXCEPT !.status = "APPROVED"]
                       /\ r.status = "APPROVED" /\ r.attempts = rows[id].attempts
  BY <1>2, StatusWritten
<1>4. rows' = [rows EXCEPT ![id] = r]
  BY <1>1, <1>3
<1>5. rows'[id] = r /\ \A x \in RequestIds : x # id => rows'[x] = rows[x]
  BY <1>0, <1>4 DEF SyncTypeOK
<1>6. SyncTypeOK'
  BY <1>0, <1>1, <1>4 DEF SyncTypeOK
<1>7. r # None
  BY SyncAssumption
<1>8. ASSUME NEW x \in RequestIds
      PROVE  Grows(x)
  <2>2. rows[x] # None => rows'[x] # None
    BY <1>5, <1>7
  <2>3. rows[x].status # "PENDING" => rows'[x].status # "PENDING"
    BY <1>3, <1>5
  <2>4. Approving(x) => Approving(x)'
    BY <1>1, <1>3, <1>5 DEF Approving
  <2>5. commitFails \in Nat /\ crashes \in Nat
    BY <1>0, LimitType
  <2> QED BY <1>0, <1>1, <2>2, <2>3, <2>4, <2>5, GrowsByKind
<1>9. \A x \in RequestIds : rows'[x] # None =>
         rows[x] # None /\ rows'[x].attempts = rows[x].attempts
  BY <1>2, <1>3, <1>5, SyncAssumption
<1> QED BY <1>1, <1>6, <1>8, <1>9, GrowthPreserves

\* A COMMIT that fails: the approval is undone, and counted.
LEMMA CommitFailedPreserves ==
    ASSUME SyncInv, NEW id \in RequestIds, commitFailed(id)
    PROVE  SyncInv'
<1>0. SyncTypeOK
  BY DEF SyncInv
<1>1. /\ committing' = committing \ {id}
      /\ rows' = rows /\ task' = task /\ pass' = pass /\ told' = told
      /\ updateFails' = updateFails /\ commitFails' = commitFails + 1
      /\ crashes' = crashes
  BY DEF commitFailed
<1>2. commitFails + 1 \in 0 .. MaxFaults
  BY <1>0, FaultCounts DEF commitFailed
<1>3. SyncTypeOK'
  BY <1>0, <1>1, <1>2 DEF SyncTypeOK
<1>4. ASSUME NEW x \in RequestIds
      PROVE  Grows(x)
  <2>1. /\ commitFails \in Nat /\ crashes \in Nat
        /\ commitFails + 1 \in Nat /\ commitFails <= commitFails + 1
        /\ commitFails + 1 # commitFails
    BY <1>0, LimitType
  <2> QED BY <1>0, <1>1, <2>1, GrowsByKind
<1> QED BY <1>1, <1>3, <1>4, GrowthPreserves

\* rejectRequest and cancelRequest.
LEMMA RefusePreserves ==
    ASSUME SyncInv, NEW id \in RequestIds, NEW st \in {"REJECTED", "CANCELLED"},
           refuse(id, st)
    PROVE  SyncInv'
<1>0. SyncTypeOK
  BY DEF SyncInv
<1>1. /\ rows[id] # None /\ rows[id].status = "PENDING" /\ id \notin committing
      /\ rows' = [rows EXCEPT ![id].status = st]
      /\ committing' = committing /\ task' = task /\ pass' = pass /\ told' = told
      /\ updateFails' = updateFails /\ commitFails' = commitFails /\ crashes' = crashes
  BY DEF refuse, Pending, counters
<1>2. rows[id] \in Row /\ st \in Status
  BY <1>0, <1>1 DEF SyncTypeOK, Status
<1>3. PICK r \in Row : /\ r = [rows[id] EXCEPT !.status = st]
                       /\ r.status = st /\ r.attempts = rows[id].attempts
  BY <1>2, StatusWritten
<1>4. rows' = [rows EXCEPT ![id] = r]
  BY <1>1, <1>3
<1>5. rows'[id] = r /\ \A x \in RequestIds : x # id => rows'[x] = rows[x]
  BY <1>0, <1>4 DEF SyncTypeOK
<1>6. SyncTypeOK'
  BY <1>0, <1>1, <1>4 DEF SyncTypeOK
<1>7. ASSUME NEW x \in RequestIds
      PROVE  Grows(x)
  <2>1. rows[x] # None => rows'[x] # None
    BY <1>5, SyncAssumption
  <2>2. rows[x].status # "PENDING" => rows'[x].status # "PENDING"
    BY <1>1, <1>5
  <2>3. Approving(x) => Approving(x)'
    BY <1>1, <1>5 DEF Approving
  <2>4. commitFails \in Nat /\ crashes \in Nat
    BY <1>0, LimitType
  <2> QED BY <1>0, <1>1, <2>1, <2>2, <2>3, <2>4, GrowsByKind
<1>8. \A x \in RequestIds : rows'[x] # None =>
         rows[x] # None /\ rows'[x].attempts = rows[x].attempts
  BY <1>1, <1>3, <1>5
<1> QED BY <1>1, <1>6, <1>7, <1>8, GrowthPreserves

\* A pass begins with fresh copies.
LEMMA StartPassPreserves ==
    ASSUME SyncInv, NEW w \in Passes, startPass(w)
    PROVE  SyncInv'
<1>0. SyncTypeOK
  BY DEF SyncInv
<1>1. /\ rows' = rows /\ committing' = committing /\ task' = task /\ told' = told
      /\ updateFails' = updateFails /\ commitFails' = commitFails /\ crashes' = crashes
  BY DEF startPass, counters
<1>2. /\ \A x \in RequestIds : pass'[w][x] = None \/ (rows[x] # None /\ pass'[w][x] = rows[x])
      /\ \A u \in Passes : u # w => pass'[u] = pass[u]
      /\ pass' \in [Passes -> [RequestIds -> Row \cup {None}]]
  <2>1. PICK found \in SUBSET PendingSyncs :
           pass' = [pass EXCEPT ![w] =
                      [x \in RequestIds |-> IF x \in found THEN rows[x] ELSE None]]
    BY DEF startPass, PendingRequests
  <2>2. \A x \in found : rows[x] # None
    BY DEF PendingSyncs
  <2> QED BY <1>0, <2>1, <2>2 DEF SyncTypeOK
<1>3. SyncTypeOK'
  BY <1>0, <1>1, <1>2 DEF SyncTypeOK
<1>4. \A x \in RequestIds : Grows(x)
  BY <1>0, <1>1, UntouchedGrows
<1>5. ASSUME NEW x \in RequestIds, pass'[w][x] # None
      PROVE  SoundCopy(x, pass[w][x])' /\ pass'[w][x].attempts <= limit(x)'
  <2>1. rows[x] # None /\ pass'[w][x] = rows[x] /\ rows[x] \in Row
    BY <1>0, <1>2, <1>5 DEF SyncTypeOK
  <2>2. rows[x].attempts <= limit(x)
    BY <2>1 DEF SyncInv, RowsSound
  <2>3. limit(x)' = limit(x)
    BY <1>1 DEF limit
  <2> QED BY <1>1, <2>1, <2>2, <2>3 DEF SoundCopy, Approving
<1> QED BY <1>1, <1>2, <1>3, <1>4, <1>5, GrowthPreserves

\* The process restarts: no copy survives, and every open approval is undone.
LEMMA CrashPreserves ==
    ASSUME SyncInv, Crash
    PROVE  SyncInv'
<1>0. SyncTypeOK
  BY DEF SyncInv
<1>1. /\ committing' = {} /\ rows' = rows /\ told' = told
      /\ updateFails' = updateFails /\ commitFails' = commitFails
      /\ crashes' = crashes + 1
      /\ task' = [t \in Tasks |-> Idle]
      /\ pass' = [w \in Passes |-> NoCopies]
  BY DEF Crash
<1>2. crashes + 1 \in 0 .. MaxFaults
  BY <1>0, FaultCounts DEF Crash
<1>3. SyncTypeOK'
  <2>1. task' \in [Tasks -> TaskState]
    BY <1>1, IdleSound
  <2>2. pass' \in [Passes -> [RequestIds -> Row \cup {None}]]
    BY <1>1 DEF NoCopies
  <2> QED BY <1>0, <1>1, <1>2, <2>1, <2>2 DEF SyncTypeOK, TaskState
<1>4. ASSUME NEW x \in RequestIds
      PROVE  Grows(x)
  <2>1. /\ commitFails \in Nat /\ crashes \in Nat
        /\ crashes + 1 \in Nat /\ crashes <= crashes + 1
        /\ crashes + 1 # crashes
    BY <1>0, LimitType
  <2> QED BY <1>0, <1>1, <2>1, GrowsByKind
<1>5. ASSUME NEW t \in Tasks
      PROVE  Sound(t, task[t])'
  <2>1. task'[t].phase = "idle"
    BY <1>1 DEF Idle
  <2> QED BY <2>1 DEF Sound
<1>6. \A w \in Passes, x \in RequestIds : pass'[w][x] = None
  BY <1>1 DEF NoCopies
<1> QED BY <1>1, <1>3, <1>4, <1>5, <1>6, GrowthPreserves

\* What a pass does with a copy: it gives up without counting, or counts one
\* attempt below the maximum.
LEMMA HandleSound ==
    ASSUME SyncTypeOK, NEW w \in Passes, NEW t, t = <<"retry", w>>,
           NEW id, NEW copy, SoundCopy(id, copy), copy.attempts <= limit(id),
           NEW v, v = handle(t, id, copy)
    PROVE  v \in TaskState /\ Sound(t, v)
<1>1. t \in Tasks /\ copy \in Row /\ copy.attempts \in Nat /\ copy.status \in Status
  BY DEF Tasks, SoundCopy, Row
<1>2. CASE Exhausted(copy)
  <2>0. [sync |-> "FAILED", validated |-> None, attempts |-> None] \in Patch
    BY DEF Patch, HcmSyncStatus
  <2>1. PICK p \in Patch :
           /\ p = [sync |-> "FAILED", validated |-> None, attempts |-> None]
           /\ p.attempts = None
    BY <2>0
  <2>2. v = [write(id, copy, p) EXCEPT !.phase = "rewrite"]
    BY <1>2, <2>1 DEF handle
  <2> QED BY <1>1, <2>1, <2>2, RewriteSound
<1>3. CASE ~ Exhausted(copy)
  <2>1. attemptsAfter(t, copy) <= limit(id)
    <3>1. PICK a \in Nat, m \in Nat, n \in Nat :
             a = copy.attempts /\ m = MAX_PENDING_SYNC_RETRIES /\ n = limit(id)
      BY <1>1, LimitType
    <3>2. a < m /\ m <= n
      BY <1>3, <3>1, LimitType DEF Exhausted
    <3>3. a + 1 <= n
      BY <3>2
    <3>4. attemptsAfter(t, copy) = a + 1
      BY <3>1 DEF attemptsAfter
    <3> QED BY <3>1, <3>3, <3>4
  <2>2. CASE copy.status \in {"REJECTED", "CANCELLED"}
    <3>1. v = write(id, copy, PatchOf(t, copy, "SKIPPED", None))
      BY <1>3, <2>2 DEF handle
    <3>2. "SKIPPED" \in HcmSyncStatus
      BY DEF HcmSyncStatus
    <3> QED BY <1>1, <2>1, <3>1, <3>2, WriteSound
  <2>3. CASE copy.status = "PENDING"
    <3>1. v = IF copy.validated THEN write(id, copy, PatchOf(t, copy, "SUCCESS", TRUE))
                                ELSE await("validate", id, copy)
      BY <1>3, <2>3 DEF handle
    <3>2. "SUCCESS" \in HcmSyncStatus
      BY DEF HcmSyncStatus
    <3>3. CASE copy.validated
      <4>1. v = write(id, copy, PatchOf(t, copy, "SUCCESS", TRUE))
        BY <3>1, <3>3
      <4> QED BY <1>1, <2>1, <3>2, <4>1, WriteSound
    <3>4. CASE ~ copy.validated
      <4>1. v = await("validate", id, copy)
        BY <3>1, <3>4
      <4> QED BY <1>1, <2>1, <4>1, AwaitSound
    <3> QED BY <3>3, <3>4
  <2>4. CASE copy.status = "APPROVED"
    <3>1. PICK phase \in {"validate", "notify"} :
             phase = IF copy.validated THEN "notify" ELSE "validate"
      OBVIOUS
    <3>2. v = await(phase, id, copy)
      BY <1>3, <2>4, <3>1 DEF handle, approvalFlow
    <3> QED BY <1>1, <2>1, <2>4, <3>2, AwaitSound
  <2> QED BY <1>1, <2>2, <2>3, <2>4 DEF Status
<1> QED BY <1>2, <1>3

\* The next request of a pass.
LEMMA NextOfPassPreserves ==
    ASSUME SyncInv, NEW w \in Passes, nextOfPass(w)
    PROVE  SyncInv'
<1>0. SyncTypeOK
  BY DEF SyncInv
<1>1. PICK t \in Tasks : t = <<"retry", w>>
  BY DEF Tasks
<1>2. PICK id \in RequestIds :
         /\ pass[w][id] # None
         /\ pass' = [pass EXCEPT ![w][id] = None]
         /\ task' = [task EXCEPT ![t] = handle(t, id, pass[w][id])]
  BY <1>1 DEF nextOfPass
<1>3. PICK copy : copy = pass[w][id] /\ SoundCopy(id, copy) /\ copy.attempts <= limit(id)
  BY <1>2 DEF SyncInv, PassesSound
<1>4. PICK v : v = handle(t, id, copy)
  OBVIOUS
<1>5. v \in TaskState /\ Sound(t, v)
  BY <1>0, <1>1, <1>3, <1>4, HandleSound
<1>6. task' = [task EXCEPT ![t] = v]
  BY <1>2, <1>3, <1>4
<1>7. /\ rows' = rows /\ committing' = committing /\ told' = told
      /\ updateFails' = updateFails /\ commitFails' = commitFails /\ crashes' = crashes
  BY DEF nextOfPass, counters
<1>8. /\ pass' \in [Passes -> [RequestIds -> Row \cup {None}]]
      /\ \A u \in Passes, x \in RequestIds :
            pass'[u][x] = None \/ pass'[u][x] = pass[u][x]
  BY <1>0, <1>2 DEF SyncTypeOK
<1>9. updateFails' \in 0 .. MaxFaults
  BY <1>0, <1>7 DEF SyncTypeOK
<1> QED BY <1>5, <1>6, <1>7, <1>8, <1>9, TaskStepPreserves

\* What a task that is not idle holds.
LEMMA BusyTask ==
    ASSUME SyncInv, NEW t \in Tasks, task[t].phase # "idle"
    PROVE  /\ task[t].id \in RequestIds
           /\ task[t] \in TaskState
           /\ SoundCopy(task[t].id, task[t].copy)
           /\ Sound(t, task[t])
BY DEF SyncInv, SyncTypeOK, TaskState, TasksSound, Sound, SoundCopy

\* A step of a task that writes no row and leaves the passes alone.
LEMMA CallStepPreserves ==
    ASSUME SyncInv, NEW t \in Tasks, NEW v \in TaskState, Sound(t, v),
           task' = [task EXCEPT ![t] = v],
           UNCHANGED <<rows, committing, pass, counters>>,
           \A id \in told' : id \in told \/
              (id \in RequestIds /\ rows[id] # None /\ (NoneUndone => Approving(id)))
    PROVE  SyncInv'
<1>1. SyncTypeOK
  BY DEF SyncInv
<1>2. /\ rows' = rows /\ committing' = committing /\ pass' = pass
      /\ updateFails' = updateFails /\ commitFails' = commitFails /\ crashes' = crashes
  BY DEF counters
<1>3. /\ updateFails' \in 0 .. MaxFaults
      /\ pass' \in [Passes -> [RequestIds -> Row \cup {None}]]
  BY <1>1, <1>2 DEF SyncTypeOK
<1> QED BY <1>2, <1>3, TaskStepPreserves

\* The HCM answers a validation.
LEMMA ValidatePreserves ==
    ASSUME SyncInv, NEW t \in Tasks, validate(t)
    PROVE  SyncInv'
<1>1. task[t].phase = "validate"
  BY DEF validate
<1>2. PICK id, copy : id = task[t].id /\ copy = task[t].copy
  OBVIOUS
<1>3. SoundCopy(id, copy) /\ attemptsAfter(t, copy) <= limit(id) /\ copy \in Row
  BY <1>1, <1>2, BusyTask DEF Sound, SoundCopy
<1>4. /\ UNCHANGED <<rows, committing, pass, counters>>
      /\ told' = told
  BY DEF validate
<1>5. {"PENDING", "FAILED", "SUCCESS"} \subseteq HcmSyncStatus
  BY DEF HcmSyncStatus
<1>6. ASSUME NEW sync \in {"PENDING", "FAILED", "SUCCESS"},
             NEW validated \in BOOLEAN \cup {None},
             task' = [task EXCEPT ![t] = write(id, copy, PatchOf(t, copy, sync, validated))]
      PROVE  SyncInv'
  <2>1. PICK v : v = write(id, copy, PatchOf(t, copy, sync, validated))
    OBVIOUS
  <2>2. v \in TaskState /\ Sound(t, v)
    BY <1>3, <1>5, <2>1, WriteSound
  <2>3. task' = [task EXCEPT ![t] = v]
    BY <1>6, <2>1
  <2> QED BY <1>4, <2>2, <2>3, CallStepPreserves
<1>7. ASSUME copy.status = "APPROVED",
             task' = [task EXCEPT ![t] = await("notify", id, [copy EXCEPT !.validated = TRUE])]
      PROVE  SyncInv'
  <2>1. PICK c \in Row : /\ c = [copy EXCEPT !.validated = TRUE]
                         /\ c.status = copy.status /\ c.attempts = copy.attempts
    BY <1>3, ValidatedWritten
  <2>2. SoundCopy(id, c) /\ attemptsAfter(t, c) <= limit(id)
    BY <1>3, <2>1 DEF SoundCopy, attemptsAfter
  <2>3. PICK v : v = await("notify", id, c)
    OBVIOUS
  <2>4. v \in TaskState /\ Sound(t, v)
    BY <1>7, <2>1, <2>2, <2>3, AwaitSound
  <2>5. task' = [task EXCEPT ![t] = v]
    BY <1>7, <2>1, <2>3
  <2> QED BY <1>4, <2>4, <2>5, CallStepPreserves
<1>8. \/ task' = [task EXCEPT ![t] = write(id, copy, PatchOf(t, copy, "PENDING", None))]
      \/ task' = [task EXCEPT ![t] = write(id, copy, PatchOf(t, copy, "FAILED", FALSE))]
      \/ task' = [task EXCEPT ![t] = write(id, copy, PatchOf(t, copy, "SUCCESS", TRUE))]
      \/ /\ copy.status = "APPROVED"
         /\ task' = [task EXCEPT ![t] = await("notify", id, [copy EXCEPT !.validated = TRUE])]
  BY <1>2, Zenon DEF validate
<1> QED BY <1>6, <1>7, <1>8, Zenon

\* The HCM answers an announcement: it is told of an approval.
LEMMA NotifyPreserves ==
    ASSUME SyncInv, NEW t \in Tasks, notify(t)
    PROVE  SyncInv'
<1>1. task[t].phase = "notify"
  BY DEF notify
<1>2. PICK id, copy : id = task[t].id /\ copy = task[t].copy
  OBVIOUS
<1>3. SoundCopy(id, copy) /\ attemptsAfter(t, copy) <= limit(id)
      /\ copy.status = "APPROVED"
  BY <1>1, <1>2, BusyTask DEF Sound, SoundCopy
<1>4. UNCHANGED <<rows, committing, pass, counters>>
  BY DEF notify
<1>5. PICK sync \in {"SUCCESS", "PENDING"} :
         /\ told' \subseteq told \cup {id}
         /\ task' = [task EXCEPT ![t] = write(id, copy, PatchOf(t, copy, sync, TRUE))]
  <2>1. PICK applied \in BOOLEAN, acknowledged \in BOOLEAN :
           /\ told' = IF applied THEN told \cup {id} ELSE told
           /\ task' = [task EXCEPT ![t] =
                         write(id, copy,
                               PatchOf(t, copy,
                                       IF acknowledged THEN "SUCCESS" ELSE "PENDING",
                                       TRUE))]
    BY <1>2, Zenon DEF notify
  <2>2. PICK sync \in {"SUCCESS", "PENDING"} :
           sync = IF acknowledged THEN "SUCCESS" ELSE "PENDING"
    OBVIOUS
  <2>3. told' \subseteq told \cup {id}
    BY <2>1
  <2>4. task' = [task EXCEPT ![t] = write(id, copy, PatchOf(t, copy, sync, TRUE))]
    BY <2>1, <2>2, Zenon
  <2> QED BY <2>3, <2>4
<1>6. PICK v : v = write(id, copy, PatchOf(t, copy, sync, TRUE))
  OBVIOUS
<1>7. v \in TaskState /\ Sound(t, v)
  <2>1. sync \in HcmSyncStatus
    BY DEF HcmSyncStatus
  <2> QED BY <1>3, <1>6, <2>1, WriteSound
<1>8. task' = [task EXCEPT ![t] = v]
  BY <1>5, <1>6
<1>9. id \in RequestIds /\ rows[id] # None /\ (NoneUndone => Approving(id))
  BY <1>3 DEF SoundCopy
<1> QED BY <1>4, <1>5, <1>7, <1>8, <1>9, CallStepPreserves

\* What an UPDATE of the sync columns makes of a row.
LEMMA PatchedRow ==
    ASSUME NEW r \in Row, NEW p \in Patch
    PROVE  /\ patched(r, p) \in Row
           /\ patched(r, p).status = r.status
           /\ patched(r, p).attempts = IF p.attempts = None THEN r.attempts ELSE p.attempts
<1>1. PICK b \in BOOLEAN :
         b = IF p.validated = None THEN r.validated ELSE p.validated
  BY DEF Row, Patch
<1>2. PICK a \in Nat :
         a = IF p.attempts = None THEN r.attempts ELSE p.attempts
  BY DEF Row, Patch
<1>3. patched(r, p) = [r EXCEPT !.sync = p.sync, !.validated = b, !.attempts = a]
  BY <1>1, <1>2 DEF patched
<1>4. p.sync \in HcmSyncStatus
  BY DEF Patch
<1> HIDE DEF patched
<1> QED BY <1>2, <1>3, <1>4 DEF Row

\* The UPDATE: the patch, stale or not, is within the limit of the row.
LEMMA UpdatePreserves ==
    ASSUME SyncInv, NEW t \in Tasks, update(t)
    PROVE  SyncInv'
<1>0. SyncTypeOK
  BY DEF SyncInv
<1>1. task[t].phase \in {"write", "rewrite"}
  BY DEF update
<1>2. PICK id \in RequestIds : id = task[t].id /\ rows[id] # None
  BY <1>1, BusyTask DEF SoundCopy
<1>3. PICK p \in Patch : /\ p = task[t].patch
                         /\ p.attempts # None => p.attempts <= limit(id)
  BY <1>1, <1>2, BusyTask DEF Sound
<1>4. PICK r \in Row : /\ r = patched(rows[id], p) /\ r.status = rows[id].status
                       /\ r.attempts = IF p.attempts = None THEN rows[id].attempts
                                                              ELSE p.attempts
  <2>1. rows[id] \in Row
    BY <1>0, <1>2 DEF SyncTypeOK
  <2> QED BY <2>1, PatchedRow
<1>5. /\ rows' = [rows EXCEPT ![id] = r]
      /\ task' = [task EXCEPT ![t] = Idle]
      /\ committing' = committing /\ pass' = pass /\ told' = told
      /\ updateFails' = updateFails /\ commitFails' = commitFails /\ crashes' = crashes
  BY <1>2, <1>3, <1>4 DEF update, counters
<1>6. /\ rows'[id] = r /\ \A x \in RequestIds : x # id => rows'[x] = rows[x]
      /\ task'[t] = Idle /\ \A u \in Tasks : u # t => task'[u] = task[u]
  BY <1>0, <1>5 DEF SyncTypeOK
<1>7. SyncTypeOK'
  <2>1. task' \in [Tasks -> TaskState]
    BY <1>0, <1>5, IdleSound DEF SyncTypeOK, TaskState
  <2> QED BY <1>0, <1>5, <2>1 DEF SyncTypeOK, TaskState
<1>8. ASSUME NEW x \in RequestIds
      PROVE  Grows(x)
  <2>1. rows[x] # None => rows'[x] # None
    BY <1>6, SyncAssumption
  <2>2. rows'[x].status = rows[x].status
    BY <1>4, <1>6
  <2>3. Approving(x) => Approving(x)'
    BY <1>5, <2>2 DEF Approving
  <2>4. commitFails \in Nat /\ crashes \in Nat
    BY <1>0, LimitType
  <2> QED BY <1>0, <1>5, <2>1, <2>2, <2>3, <2>4, GrowsByKind
<1>9. limit(id)' = limit(id)
  BY <1>4, <1>5, <1>6 DEF limit
<1>10. rows'[id].attempts <= limit(id)'
  <2>1. rows[id].attempts <= limit(id)
    BY <1>2 DEF SyncInv, RowsSound
  <2> QED BY <1>3, <1>4, <1>6, <1>9, <2>1
<1>11. Sound(t, task[t])'
  <2>1. task'[t].phase = "idle"
    BY <1>6 DEF Idle
  <2> QED BY <2>1 DEF Sound
<1> QED BY <1>5, <1>6, <1>7, <1>8, <1>10, <1>11, GrowthPreserves

\* The UPDATE throws: once it is written again, twice the task gives up.
LEMMA UpdateFailedPreserves ==
    ASSUME SyncInv, NEW t \in Tasks, updateFailed(t)
    PROVE  SyncInv'
<1>0. SyncTypeOK
  BY DEF SyncInv
<1>1. /\ rows' = rows /\ committing' = committing /\ told' = told
      /\ commitFails' = commitFails /\ crashes' = crashes
      /\ updateFails' = updateFails + 1
  BY DEF updateFailed
<1>2. updateFails' \in 0 .. MaxFaults
  BY <1>0, <1>1, FaultCounts DEF updateFailed
<1>3. PICK id, copy : id = task[t].id /\ copy = task[t].copy
  OBVIOUS
<1>4. ASSUME task[t].phase = "write", pass' = pass,
             task' = [task EXCEPT ![t] =
                        [write(id, copy, PatchOf(t, copy, "PENDING", None))
                            EXCEPT !.phase = "rewrite"]]
      PROVE  SyncInv'
  <2>1. SoundCopy(id, copy) /\ attemptsAfter(t, copy) <= limit(id) /\ copy \in Row
    BY <1>3, <1>4, BusyTask DEF Sound, SoundCopy
  <2>2. PICK p \in Patch : /\ p = PatchOf(t, copy, "PENDING", None)
                           /\ p.attempts = attemptsAfter(t, copy)
    <3>1. "PENDING" \in HcmSyncStatus
      BY DEF HcmSyncStatus
    <3> QED BY <2>1, <3>1, PatchType
  <2>3. PICK v : v = [write(id, copy, p) EXCEPT !.phase = "rewrite"]
    OBVIOUS
  <2>4. v \in TaskState /\ Sound(t, v)
    BY <2>1, <2>2, <2>3, RewriteSound
  <2>5. task' = [task EXCEPT ![t] = v]
    BY <1>4, <2>2, <2>3
  <2>6. pass' \in [Passes -> [RequestIds -> Row \cup {None}]]
    BY <1>0, <1>4 DEF SyncTypeOK
  <2> QED BY <1>1, <1>2, <1>4, <2>4, <2>5, <2>6, TaskStepPreserves
<1>5. ASSUME task' = [task EXCEPT ![t] = Idle],
             pass' = IF t[1] = "retry" THEN [pass EXCEPT ![t[2]] = NoCopies] ELSE pass
      PROVE  SyncInv'
  <2>1. NoCopies \in [RequestIds -> Row \cup {None}]
        /\ \A x \in RequestIds : NoCopies[x] = None
    BY DEF NoCopies
  <2>2. /\ pass' \in [Passes -> [RequestIds -> Row \cup {None}]]
        /\ \A u \in Passes, x \in RequestIds :
              pass'[u][x] = None \/ pass'[u][x] = pass[u][x]
    BY <1>0, <1>5, <2>1 DEF SyncTypeOK
  <2>3. Idle \in TaskState /\ Sound(t, Idle)
    BY IdleSound
  <2> QED BY <1>1, <1>2, <1>5, <2>2, <2>3, TaskStepPreserves
<1>6. \/ /\ task[t].phase = "write" /\ pass' = pass
         /\ task' = [task EXCEPT ![t] =
                       [write(id, copy, PatchOf(t, copy, "PENDING", None))
                           EXCEPT !.phase = "rewrite"]]
      \/ /\ task' = [task EXCEPT ![t] = Idle]
         /\ pass' = IF t[1] = "retry" THEN [pass EXCEPT ![t[2]] = NoCopies] ELSE pass
  BY <1>3, Zenon DEF updateFailed
<1> QED BY <1>4, <1>5, <1>6, Zenon

-----------------------------------------------------------------------------
(* The theorems. *)

\* At the start there is no request, no task and no pass.
LEMMA InitEstablishes == Init => SyncInv
<1> SUFFICES ASSUME Init
             PROVE  SyncInv
  OBVIOUS
<1>1. SyncTypeOK
  <2>1. task \in [Tasks -> TaskState]
    BY IdleSound DEF Init
  <2>2. {updateFails, commitFails, crashes} \subseteq 0 .. MaxFaults
    BY SyncAssumption DEF Init
  <2>3. pass \in [Passes -> [RequestIds -> Row \cup {None}]]
    BY DEF Init, NoCopies
  <2> QED BY <2>1, <2>2, <2>3 DEF Init, SyncTypeOK, TaskState
<1>2. RowsSound /\ PassesSound
  BY DEF Init, RowsSound, PassesSound, NoCopies
<1>3. TasksSound
  <2> SUFFICES ASSUME NEW t \in Tasks
               PROVE  Sound(t, task[t])
    BY DEF TasksSound
  <2>1. task[t].phase = "idle"
    BY DEF Init, Idle
  <2> QED BY <2>1 DEF Sound
<1>4. OnlyApprovalsTold
  BY DEF Init, OnlyApprovalsTold, PendingNeverTouchedHcm
<1> QED BY <1>1, <1>2, <1>3, <1>4 DEF SyncInv

\* Every step preserves the invariant.
LEMMA NextPreserves == SyncInv /\ [Next]_vars => SyncInv'
<1> SUFFICES ASSUME SyncInv, [Next]_vars
             PROVE  SyncInv'
  OBVIOUS
<1>1. ASSUME NEW id \in RequestIds, Api(id)
      PROVE  SyncInv'
  BY <1>1, CreatePreserves, ApprovePreserves, RefusePreserves DEF Api
<1>2. ASSUME NEW id \in RequestIds, Finish(id)
      PROVE  SyncInv'
  BY <1>2, CommitPreserves, CommitFailedPreserves DEF Finish
<1>3. ASSUME NEW t \in Tasks, Step(t)
      PROVE  SyncInv'
  BY <1>3, ValidatePreserves, NotifyPreserves, UpdatePreserves, UpdateFailedPreserves
     DEF Step
<1>4. ASSUME NEW w \in Passes, Cron(w)
      PROVE  SyncInv'
  BY <1>4, StartPassPreserves, NextOfPassPreserves DEF Cron
<1>5. CASE UNCHANGED vars
  <2>1. /\ rows' = rows /\ committing' = committing /\ task' = task /\ pass' = pass
        /\ told' = told /\ updateFails' = updateFails /\ commitFails' = commitFails
        /\ crashes' = crashes
    BY <1>5 DEF vars, counters
  <2>2. SyncTypeOK /\ SyncTypeOK'
    BY <2>1 DEF SyncInv, SyncTypeOK
  <2>3. \A id \in RequestIds : Grows(id)
    BY <2>1, <2>2, UntouchedGrows
  <2>4. \A id \in RequestIds : rows'[id] # None =>
           rows[id] # None /\ rows'[id].attempts = rows[id].attempts
    BY <2>1
  <2> QED BY <2>1, <2>2, <2>3, <2>4, GrowthPreserves
<1> QED BY <1>1, <1>2, <1>3, <1>4, <1>5, CrashPreserves DEF Next

\* The invariant holds throughout.
THEOREM SyncInvariant == Spec => []SyncInv
BY InitEstablishes, NextPreserves, PTL DEF Spec

\* The sync columns, the tasks and their stale copies are well-typed.
THEOREM SyncTypeCorrect == Spec => []SyncTypeOK
<1>1. SyncInv => SyncTypeOK
  BY DEF SyncInv
<1> QED BY <1>1, SyncInvariant, PTL

\* As long as no COMMIT fails and the process does not die, notifyApproval only
\* ever announces requests that are, or are about to be, approved: whatever the
\* overlapping retry passes and the background tasks do with stale copies.
THEOREM OnlyApprovalsToldHolds == Spec => []OnlyApprovalsTold
<1>1. SyncInv => OnlyApprovalsTold
  BY DEF SyncInv
<1> QED BY <1>1, SyncInvariant, PTL

\* The attempts written to a row exceed MAX_PENDING_SYNC_RETRIES by at most one,
\* and one for each approval that a fault undid, however many passes overlap.
THEOREM AttemptsWithinBudgetHolds == Spec => []AttemptsWithinBudget
<1>1. SyncInv => AttemptsWithinBudget
  <2> SUFFICES ASSUME SyncInv, NEW id \in RequestIds, rows[id] # None
               PROVE  rows[id].attempts
                         <= MAX_PENDING_SYNC_RETRIES + 1 + commitFails + crashes
    BY DEF AttemptsWithinBudget
  <2>1. SyncTypeOK
    BY DEF SyncInv
  <2>2. rows[id].attempts \in Nat /\ rows[id].attempts <= limit(id)
    BY <2>1 DEF SyncInv, RowsSound, SyncTypeOK, Row
  <2>3. PICK m \in Nat, f \in Nat, c \in Nat :
           m = MAX_PENDING_SYNC_RETRIES /\ f = commitFails /\ c = crashes
    BY <2>1, LimitType
  <2>4. limit(id) = m + f + c + 0 \/ limit(id) = m + f + c + 1
    BY <2>3 DEF limit
  <2>5. rows[id].attempts <= m + 1 + f + c
    BY <2>2, <2>4
  <2> QED BY <2>3, <2>5
<1> QED BY <1>1, SyncInvariant, PTL

-----------------------------------------------------------------------------
\* Where SuccessMeansTold fails and where it does not: a task that knows the
\* request to be approved writes SUCCESS only when the HCM has acknowledged.
Acknowledged(v) ==
    /\ v.phase \in {"write", "rewrite"}
    /\ v.copy.status = "APPROVED"
    /\ v.patch.sync = "SUCCESS"
    => v.id \in told

SuccessAcknowledged == \A t \in Tasks : Acknowledged(task[t])

\* What a retry pass begins with a copy that is approved is a call or a write
\* of another status.
LEMMA HandleAcknowledged ==
    ASSUME NEW t, NEW id, NEW copy \in Row
    PROVE  Acknowledged(handle(t, id, copy))
<1>1. CASE Exhausted(copy)
  <2>1. handle(t, id, copy).patch.sync = "FAILED"
    BY <1>1 DEF handle, write
  <2> QED
    BY <2>1 DEF Acknowledged
<1>2. CASE ~ Exhausted(copy) /\ copy.status = "APPROVED"
  <2>1. handle(t, id, copy) = approvalFlow(id, copy)
    BY <1>2 DEF handle
  <2>2. handle(t, id, copy).phase \in {"notify", "validate"}
    BY <2>1 DEF approvalFlow, await
  <2> QED
    BY <2>2 DEF Acknowledged
<1>3. CASE ~ Exhausted(copy) /\ copy.status # "APPROVED"
  <2>1. handle(t, id, copy).copy = copy
    BY <1>3 DEF handle, write, await, Row, Status
  <2> QED
    BY <1>3, <2>1 DEF Acknowledged
<1> QED
  BY <1>1, <1>2, <1>3

\* One task moves on, and what the HCM was told stays told.
LEMMA OneTaskAcknowledged ==
    ASSUME SyncTypeOK, SuccessAcknowledged, NEW t \in Tasks, NEW v,
           task' = [task EXCEPT ![t] = v], told \subseteq told', Acknowledged(v)'
    PROVE  SuccessAcknowledged'
<1>1. task'[t] = v /\ \A u \in Tasks : u # t => task'[u] = task[u]
  BY DEF SyncTypeOK
<1>2. ASSUME NEW u \in Tasks PROVE Acknowledged(task[u])'
  <2>1. CASE u = t
    BY <1>1, <2>1 DEF Acknowledged
  <2>2. CASE u # t
    <3>1. task'[u] = task[u] /\ Acknowledged(task[u])
      BY <1>1, <2>2 DEF SuccessAcknowledged
    <3> QED
      BY <3>1 DEF Acknowledged
  <2> QED
    BY <2>1, <2>2
<1> QED
  BY <1>2 DEF SuccessAcknowledged

\* Every step keeps it: validate writes SUCCESS only for a copy that is not
\* approved, and notify only with the HCM's acknowledgement.
LEMMA AcknowledgedPreserved ==
    SyncInv /\ SuccessAcknowledged /\ [Next]_vars => SuccessAcknowledged'
<1> SUFFICES ASSUME SyncInv, SuccessAcknowledged, [Next]_vars PROVE SuccessAcknowledged'
  OBVIOUS
<1>0. SyncTypeOK
  BY DEF SyncInv
<1>1. ASSUME task' = task, told' = told PROVE SuccessAcknowledged'
  BY <1>1 DEF SuccessAcknowledged, Acknowledged
<1>2. ASSUME NEW t \in Tasks, NEW v, task' = [task EXCEPT ![t] = v], told' = told,
             v.phase \notin {"write", "rewrite"} \/ v.patch.sync # "SUCCESS"
                \/ v.copy.status # "APPROVED"
      PROVE  SuccessAcknowledged'
  <2>1. Acknowledged(v)'
    BY <1>2 DEF Acknowledged
  <2>2. told \subseteq told'
    BY <1>2
  <2> QED
    BY <1>0, <1>2, <2>1, <2>2, OneTaskAcknowledged
<1>3. ASSUME NEW id \in RequestIds, Api(id) \/ Finish(id) PROVE SuccessAcknowledged'
  <2>1. <<"create", id>> \in Tasks /\ <<"approve", id>> \in Tasks
    BY DEF Tasks
  <2>2. CASE createRequest(id)
    <3>1. PICK v : /\ v.phase = "validate"
                   /\ task' = [task EXCEPT ![<<"create", id>>] = v]
      BY <2>2 DEF createRequest, await
    <3>2. told' = told
      BY <2>2 DEF createRequest
    <3> QED
      BY <2>1, <3>1, <3>2, <1>2
  <2>3. CASE approveRequest(id)
    <3>1. PICK v : v = approvalFlow(id, [rows[id] EXCEPT !.status = "APPROVED"])
      OBVIOUS
    <3>2. v.phase \in {"notify", "validate"}
      BY <3>1 DEF approvalFlow, await
    <3>3. task' = [task EXCEPT ![<<"approve", id>>] = v] /\ told' = told
      BY <2>3, <3>1 DEF approveRequest
    <3> QED
      BY <2>1, <3>2, <3>3, <1>2
  <2>4. CASE (\E status \in {"REJECTED", "CANCELLED"} : refuse(id, status)) \/ Finish(id)
    BY <2>4, <1>1 DEF refuse, Finish, commit, commitFailed
  <2> QED
    BY <1>3, <2>2, <2>3, <2>4 DEF Api
<1>4. ASSUME NEW t \in Tasks, Step(t) PROVE SuccessAcknowledged'
  <2>1. PICK id, copy : id = task[t].id /\ copy = task[t].copy
    OBVIOUS
  <2>2. CASE validate(t)
    <3>1. told' = told
      BY <2>2 DEF validate
    <3>2. PICK v : /\ task' = [task EXCEPT ![t] = v]
                   /\ \/ v = write(id, copy, PatchOf(t, copy, "PENDING", None))
                      \/ v = write(id, copy, PatchOf(t, copy, "FAILED", FALSE))
                      \/ /\ copy.status # "APPROVED"
                         /\ v = write(id, copy, PatchOf(t, copy, "SUCCESS", TRUE))
                      \/ v = await("notify", id, [copy EXCEPT !.validated = TRUE])
      BY <2>1, <2>2 DEF validate
    <3>3. \/ v.phase \notin {"write", "rewrite"}
          \/ v.patch.sync # "SUCCESS"
          \/ v.copy.status # "APPROVED"
      BY <3>2 DEF write, await, PatchOf
    <3> QED
      BY <3>1, <3>2, <3>3, <1>2
  <2>3. CASE notify(t)
    <3>1. PICK applied \in BOOLEAN, acknowledged \in BOOLEAN :
              /\ acknowledged => applied
              /\ told' = IF applied THEN told \cup {id} ELSE told
              /\ task' = [task EXCEPT ![t] =
                            write(id, copy,
                                  PatchOf(t, copy,
                                          IF acknowledged THEN "SUCCESS" ELSE "PENDING",
                                          TRUE))]
      BY <2>1, <2>3 DEF notify
    <3>2. PICK v : v = write(id, copy,
                             PatchOf(t, copy,
                                     IF acknowledged THEN "SUCCESS" ELSE "PENDING", TRUE))
      OBVIOUS
    <3>3. v.id = id /\ (v.patch.sync = "SUCCESS" => acknowledged)
      BY <3>2 DEF write, PatchOf
    <3>4. told \subseteq told' /\ (acknowledged => id \in told')
      BY <3>1
    <3>5. Acknowledged(v)'
      BY <3>3, <3>4 DEF Acknowledged
    <3>6. task' = [task EXCEPT ![t] = v]
      BY <3>1, <3>2
    <3> QED
      BY <1>0, <3>4, <3>5, <3>6, OneTaskAcknowledged
  <2>4. CASE update(t)
    <3>1. task' = [task EXCEPT ![t] = Idle] /\ told' = told /\ Idle.phase = "idle"
      BY <2>4 DEF update, Idle
    <3> QED
      BY <3>1, <1>2
  <2>5. CASE updateFailed(t)
    <3>1. told' = told
      BY <2>5 DEF updateFailed
    <3>2. PICK v : /\ task' = [task EXCEPT ![t] = v]
                   /\ \/ v = [write(id, copy, PatchOf(t, copy, "PENDING", None))
                                EXCEPT !.phase = "rewrite"]
                      \/ v = Idle
      BY <2>1, <2>5 DEF updateFailed
    <3>3. v.phase \notin {"write", "rewrite"} \/ v.patch.sync # "SUCCESS"
      BY <3>2 DEF write, PatchOf, Idle
    <3> QED
      BY <3>1, <3>2, <3>3, <1>2
  <2> QED
    BY <1>4, <2>2, <2>3, <2>4, <2>5 DEF Step
<1>5. ASSUME NEW w \in Passes, Cron(w) PROVE SuccessAcknowledged'
  <2>1. CASE startPass(w)
    BY <2>1, <1>1 DEF startPass
  <2>2. CASE nextOfPass(w)
    <3>1. PICK id \in RequestIds :
             /\ pass[w][id] # None
             /\ task' = [task EXCEPT ![<<"retry", w>>] =
                           handle(<<"retry", w>>, id, pass[w][id])]
      BY <2>2 DEF nextOfPass
    <3>2. told' = told
      BY <2>2 DEF nextOfPass
    <3>3. <<"retry", w>> \in Tasks
      BY DEF Tasks
    <3>4. PICK copy : copy = pass[w][id]
      OBVIOUS
    <3>5. copy \in Row
      BY <1>0, <3>1, <3>4 DEF SyncTypeOK
    <3>6. PICK v : v = handle(<<"retry", w>>, id, copy)
      OBVIOUS
    <3>7. Acknowledged(v)
      BY <3>5, <3>6, HandleAcknowledged
    <3>8. Acknowledged(v)' /\ told \subseteq told'
      BY <3>2, <3>7 DEF Acknowledged
    <3>9. task' = [task EXCEPT ![<<"retry", w>>] = v]
      BY <3>1, <3>4, <3>6
    <3> QED
      BY <1>0, <3>3, <3>8, <3>9, OneTaskAcknowledged
  <2> QED
    BY <1>5, <2>1, <2>2 DEF Cron
<1>6. CASE Crash
  <2>1. \A t \in Tasks : task'[t] = Idle
    BY <1>6 DEF Crash
  <2> QED
    BY <2>1 DEF SuccessAcknowledged, Acknowledged, Idle
<1>7. CASE UNCHANGED vars
  BY <1>7, <1>1 DEF vars
<1> QED
  BY <1>3, <1>4, <1>5, <1>6, <1>7 DEF Next

\* "SUCCESS (upstream acknowledged)" is true of every write by a task that took
\* its copy of the row after the approval was begun, however stale the copy and
\* however many passes overlap.  The forgotten announcements of an approved
\* request come from tasks that took their copy before, and only from them.
THEOREM SuccessAcknowledgedHolds == Spec => []SuccessAcknowledged
<1>1. Init => SuccessAcknowledged
  <2>1. ASSUME Init, NEW t \in Tasks PROVE task[t] = Idle
    BY <2>1 DEF Init
  <2> QED
    BY <2>1 DEF SuccessAcknowledged, Acknowledged, Idle
<1> QED
  BY <1>1, AcknowledgedPreserved, SyncInvariant, PTL DEF Spec

=============================================================================
