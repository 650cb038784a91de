------------------------------ MODULE HcmSync ------------------------------
(***************************************************************************)
(* How a request reaches the HCM: the columns hcmSyncStatus, hcmValidated  *)
(* and hcmSyncAttempts of time_off_requests, and the three kinds of        *)
(* background task that write them (timeoff.service.js,                    *)
(* hcm-sync.service.js):                                                   *)
(*                                                                         *)
(*   create   _notifyHcmAsync, started when a request has been created;    *)
(*   approve  _notifyApprovalToHcmAsync, started inside the transaction    *)
(*            of approveRequest, before its COMMIT;                        *)
(*   retry    one pass of the cron job retryPendingHcmSyncs; nothing keeps *)
(*            two passes from overlapping.                                 *)
(*                                                                         *)
(* Each works on a copy of the row that it took when it began, and writes  *)
(* the columns it names whatever the row holds by then.  An HCM call, with *)
(* its retries, is one step.  Balances are the subject of LeaveLedger and  *)
(* are left out here.                                                      *)
(***************************************************************************)
EXTENDS Integers, FiniteSets

CONSTANTS
    RequestIds,
    Passes,                    \* retry passes that may be under way
    MAX_PENDING_SYNC_RETRIES,
    take,                      \* rows that one retry pass reads at most
    MaxFaults,                 \* bound: failed UPDATEs and COMMITs, and crashes
    None

Status == {"PENDING", "APPROVED", "REJECTED", "CANCELLED"}

HcmSyncStatus == {"PENDING", "SUCCESS", "FAILED", "SKIPPED"}

Row == [status : Status, sync : HcmSyncStatus, validated : BOOLEAN, attempts : Nat]

\* What an UPDATE sets; None stands for a column that it leaves alone.
Patch == [sync      : HcmSyncStatus,
          validated : BOOLEAN \cup {None},
          attempts  : Nat \cup {None}]

ASSUME SyncAssumption ==
    /\ MAX_PENDING_SYNC_RETRIES \in Nat \ {0}
    /\ take \in Nat \ {0}
    /\ MaxFaults \in Nat
    /\ None \notin Row \cup Patch \cup BOOLEAN \cup Nat \cup RequestIds

Tasks == ({"create", "approve"} \X RequestIds) \cup ({"retry"} \X Passes)

Idle == [phase |-> "idle", id |-> None, copy |-> None, patch |-> None]

VARIABLES
    rows,        \* RequestIds -> row of time_off_requests, or None
    committing,  \* requests whose approval awaits its COMMIT
    task,        \* what each task is doing, and with which copy
    pass,        \* Passes -> the copies the pass has still to handle
    told,        \* external: requests whose approval the HCM has applied
    updateFails, commitFails, crashes

counters == <<updateFails, commitFails, crashes>>
vars == <<rows, committing, task, pass, told, counters>>

MayFail == updateFails + commitFails + crashes < MaxFaults

NoCopies == [id \in RequestIds |-> None]

SyncTypeOK ==
    /\ rows \in [RequestIds -> Row \cup {None}]
    /\ committing \subseteq RequestIds
    /\ task \in [Tasks -> [phase : {"idle", "validate", "notify", "write", "rewrite"},
                           id    : RequestIds \cup {None},
                           copy  : Row \cup {None},
                           patch : Patch \cup {None}]]
    /\ pass \in [Passes -> [RequestIds -> Row \cup {None}]]
    /\ told \subseteq RequestIds
    /\ {updateFails, commitFails, crashes} \subseteq 0 .. MaxFaults

Init ==
    /\ rows = [id \in RequestIds |-> None]
    /\ committing = {}
    /\ task = [t \in Tasks |-> Idle]
    /\ pass = [w \in Passes |-> NoCopies]
    /\ told = {}
    /\ updateFails = 0 /\ commitFails = 0 /\ crashes = 0

-----------------------------------------------------------------------------
(* Patches.  The create task always counts its call as the first attempt;   *)
(* the others count on from their copy.                                     *)

\* Mutant: _updateSyncAttempt forgets to count.
attemptsKept(t, copy) == IF t[1] = "create" THEN 1 ELSE copy.attempts

attemptsAfter(t, copy) == IF t[1] = "create" THEN 1 ELSE copy.attempts + 1

PatchOf(t, copy, sync, validated) ==
    [sync |-> sync, validated |-> validated, attempts |-> attemptsAfter(t, copy)]

write(id, copy, patch) ==
    [phase |-> "write", id |-> id, copy |-> copy, patch |-> patch]

await(call, id, copy) ==
    [phase |-> call, id |-> id, copy |-> copy, patch |-> None]

\* A request not validated yet is validated before its approval is announced.
approvalFlow(id, copy) ==
    await(IF copy.validated THEN "notify" ELSE "validate", id, copy)

-----------------------------------------------------------------------------
(* The requests of the API. *)

createRequest(id) ==
    LET new == [status |-> "PENDING", sync |-> "PENDING", validated |-> FALSE,
                attempts |-> 0]
    IN  /\ rows[id] = None
        /\ rows' = [rows EXCEPT ![id] = new]
        /\ task' = [task EXCEPT ![<<"create", id>>] = await("validate", id, new)]
        /\ UNCHANGED <<committing, pass, told, counters>>

\* A request that a transaction may change.
Pending(id) ==
    /\ rows[id] # None
    /\ rows[id].status = "PENDING"
    /\ id \notin committing

\* The body of the transaction of approveRequest, up to its setImmediate.  Of
\* one request's approval tasks, one is under way at a time.
approveRequest(id) ==
    LET copy == [rows[id] EXCEPT !.status = "APPROVED"] IN
    /\ Pending(id)
    /\ task[<<"approve", id>>] = Idle
    /\ committing' = committing \cup {id}
    /\ task' = [task EXCEPT ![<<"approve", id>>] = approvalFlow(id, copy)]
    /\ UNCHANGED <<rows, pass, told, counters>>

commit(id) ==
    /\ id \in committing
    /\ committing' = committing \ {id}
    /\ rows' = [rows EXCEPT ![id].status = "APPROVED"]
    /\ UNCHANGED <<task, pass, told, counters>>

\* The database rolls back; the approval task is not called off.
commitFailed(id) ==
    /\ id \in committing
    /\ MayFail
    /\ commitFails' = commitFails + 1
    /\ committing' = committing \ {id}
    /\ UNCHANGED <<rows, task, pass, told, updateFails, crashes>>

\* rejectRequest and cancelRequest.  Neither touches the sync columns.
refuse(id, status) ==
    /\ Pending(id)
    /\ rows' = [rows EXCEPT ![id].status = status]
    /\ UNCHANGED <<committing, task, pass, told, counters>>

-----------------------------------------------------------------------------
(* retryPendingHcmSyncs. *)

PendingSyncs == {id \in RequestIds : rows[id] # None /\ rows[id].sync = "PENDING"}

\* What find may return: as many of the pending rows as it may take, those with
\* the fewest attempts first.  Of rows with as many attempts the oldest come
\* first; createdAt is left out, so that it may be any of them.
PendingRequests ==
    {found \in SUBSET PendingSyncs :
        /\ Cardinality(found) <= take
        /\ Cardinality(found) = take \/ found = PendingSyncs
        /\ \A id \in found, left \in PendingSyncs \ found :
              rows[id].attempts <= rows[left].attempts}

\* The cron job reads the rows whose sync is pending, if there are any.
startPass(w) ==
    /\ task[<<"retry", w>>] = Idle
    /\ pass[w] = NoCopies
    /\ \E found \in PendingRequests :
          /\ found # {}
          /\ pass' = [pass EXCEPT ![w] =
                        [id \in RequestIds |-> IF id \in found THEN rows[id] ELSE None]]
    /\ UNCHANGED <<rows, committing, task, told, counters>>

\* Mutant: the limit is passed before it is noticed.
ExhaustedLate(copy) == copy.attempts > MAX_PENDING_SYNC_RETRIES

Exhausted(copy) == copy.attempts >= MAX_PENDING_SYNC_RETRIES

\* What the pass does with one copy.  Giving up is written outside the try
\* block, as is the write in its catch clause ("rewrite"), and leaves the count
\* of attempts alone.
handle(t, id, copy) ==
    CASE Exhausted(copy) ->
           [write(id, copy, [sync |-> "FAILED", validated |-> None,
                             attempts |-> None]) EXCEPT !.phase = "rewrite"]
      [] ~ Exhausted(copy) /\ copy.status \in {"REJECTED", "CANCELLED"} ->
           write(id, copy, PatchOf(t, copy, "SKIPPED", None))
      [] ~ Exhausted(copy) /\ copy.status = "PENDING" ->
           IF copy.validated
           THEN write(id, copy, PatchOf(t, copy, "SUCCESS", TRUE))
           ELSE await("validate", id, copy)
      [] ~ Exhausted(copy) /\ copy.status = "APPROVED" ->
           approvalFlow(id, copy)

nextOfPass(w) ==
    LET t == <<"retry", w>> IN
    /\ task[t] = Idle
    /\ \E id \in RequestIds :
          /\ pass[w][id] # None
          /\ \A other \in RequestIds : pass[w][other] # None =>
                pass[w][id].attempts <= pass[w][other].attempts
          /\ pass' = [pass EXCEPT ![w][id] = None]
          /\ task' = [task EXCEPT ![t] = handle(t, id, pass[w][id])]
    /\ UNCHANGED <<rows, committing, told, counters>>

-----------------------------------------------------------------------------
(* The HCM calls, and the write that follows. *)

\* Mutant: whatever was validated is announced, approved or not.
validateThenNotify(t) ==
    LET id   == task[t].id
        copy == task[t].copy
    IN  /\ task[t].phase = "validate"
        /\ \/ task' = [task EXCEPT ![t] =
                         write(id, copy, PatchOf(t, copy, "PENDING", None))]
           \/ task' = [task EXCEPT ![t] =
                         await("notify", id, [copy EXCEPT !.validated = TRUE])]
        /\ UNCHANGED <<rows, committing, pass, told, counters>>

\* validateRequest answers null when the HCM is unavailable, or valid or not.
validate(t) ==
    LET id   == task[t].id
        copy == task[t].copy
    IN  /\ task[t].phase = "validate"
        /\ \/ task' = [task EXCEPT ![t] =
                         write(id, copy, PatchOf(t, copy, "PENDING", None))]
           \/ task' = [task EXCEPT ![t] =
                         write(id, copy, PatchOf(t, copy, "FAILED", FALSE))]
           \/ /\ copy.status # "APPROVED"
              /\ task' = [task EXCEPT ![t] =
                            write(id, copy, PatchOf(t, copy, "SUCCESS", TRUE))]
           \/ /\ copy.status = "APPROVED"
              /\ task' = [task EXCEPT ![t] =
                            await("notify", id, [copy EXCEPT !.validated = TRUE])]
        /\ UNCHANGED <<rows, committing, pass, told, counters>>

\* notifyApproval: applied and acknowledged, applied and the answer lost, or
\* not applied.
notify(t) ==
    LET id   == task[t].id
        copy == task[t].copy
    IN  /\ task[t].phase = "notify"
        /\ \E applied \in BOOLEAN, acknowledged \in BOOLEAN :
              /\ acknowledged => applied
              /\ told' = IF applied THEN told \cup {id} ELSE told
              /\ task' = [task EXCEPT ![t] =
                            write(id, copy,
                                  PatchOf(t, copy,
                                          IF acknowledged THEN "SUCCESS" ELSE "PENDING",
                                          TRUE))]
        /\ UNCHANGED <<rows, committing, pass, counters>>

\* Mutant: a column the patch does not name is set to null.
patchedWithNull(current, patch) ==
    [current EXCEPT !.sync = patch.sync,
                    !.validated = patch.validated,
                    !.attempts = patch.attempts]

patched(current, patch) ==
    [current EXCEPT !.sync = patch.sync,
                    !.validated = IF patch.validated = None THEN @ ELSE patch.validated,
                    !.attempts = IF patch.attempts = None THEN @ ELSE patch.attempts]

\* The UPDATE by id; it waits for a transaction that holds the row.
update(t) ==
    LET id == task[t].id IN
    /\ task[t].phase \in {"write", "rewrite"}
    /\ id \notin committing
    /\ rows' = [rows EXCEPT ![id] = patched(@, task[t].patch)]
    /\ task' = [task EXCEPT ![t] = Idle]
    /\ UNCHANGED <<committing, pass, told, counters>>

\* The UPDATE throws: the catch clause writes PENDING instead.  When that
\* fails too the task, and the rest of its pass, is abandoned.
updateFailed(t) ==
    LET id   == task[t].id
        copy == task[t].copy
    IN  /\ MayFail
        /\ updateFails' = updateFails + 1
        /\ \/ /\ task[t].phase = "write"
              /\ task' = [task EXCEPT ![t] =
                            [write(id, copy, PatchOf(t, copy, "PENDING", None))
                                EXCEPT !.phase = "rewrite"]]
              /\ UNCHANGED pass
           \/ /\ task[t].phase = "rewrite"
              /\ task' = [task EXCEPT ![t] = Idle]
              /\ pass' = IF t[1] = "retry" THEN [pass EXCEPT ![t[2]] = NoCopies]
                                           ELSE pass
        /\ UNCHANGED <<rows, committing, told, commitFails, crashes>>

\* The process restarts: tasks, passes and open transactions are lost.
Crash ==
    /\ MayFail
    /\ crashes' = crashes + 1
    /\ committing' = {}
    /\ task' = [t \in Tasks |-> Idle]
    /\ pass' = [w \in Passes |-> NoCopies]
    /\ UNCHANGED <<rows, told, updateFails, commitFails>>

-----------------------------------------------------------------------------
Api(id) ==
    \/ createRequest(id)
    \/ approveRequest(id)
    \/ \E status \in {"REJECTED", "CANCELLED"} : refuse(id, status)

Finish(id) == commit(id) \/ commitFailed(id)

Step(t) == validate(t) \/ notify(t) \/ update(t) \/ updateFailed(t)

Cron(w) == startPass(w) \/ nextOfPass(w)

Next ==
    \/ \E id \in RequestIds : Api(id) \/ Finish(id)
    \/ \E t \in Tasks : Step(t)
    \/ \E w \in Passes : Cron(w)
    \/ Crash

Spec == Init /\ [][Next]_vars

\* Every await of a task and of a COMMIT returns or throws, and the cron job
\* goes on firing.  What the HCM answers, and what the API is asked for, is
\* not assumed.
FairSpec ==
    /\ Spec
    /\ \A id \in RequestIds : WF_vars(Finish(id))
    /\ \A t \in Tasks : WF_vars(Step(t))
    /\ \A w \in Passes : WF_vars(Cron(w))

-----------------------------------------------------------------------------
\* The HCM deducts only what has been approved: "A PENDING request never
\* touched the upstream HCM balance" (timeoff.service.js, rejectRequest), so
\* that a rejection or a cancellation has nothing to refund.
PendingNeverTouchedHcm ==
    \A id \in told : rows[id].status = "APPROVED" \/ id \in committing

\* As long as no COMMIT fails and the process does not die, the HCM is told of
\* approvals only, whatever the tasks and passes of a request do with their
\* stale copies while it is approved, rejected or cancelled.
OnlyApprovalsTold == commitFails + crashes = 0 => PendingNeverTouchedHcm

\* The retry budget holds although every task counts on from a stale copy:
\* beyond the maximum there is at most the one attempt of each approval that
\* was begun, the approvals included whose transaction was lost.
AttemptsWithinBudget ==
    \A id \in RequestIds : rows[id] # None =>
        rows[id].attempts <= MAX_PENDING_SYNC_RETRIES + 1 + commitFails + crashes

\* No task or pass holds a copy of the row.
Quiet(id) ==
    /\ id \notin committing
    /\ \A t \in Tasks : task[t].id # id
    /\ \A w \in Passes : pass[w][id] = None

\* An approved request whose sync status is SUCCESS has been announced to the
\* HCM: TRD.md:83, "`SUCCESS` (upstream acknowledged)".
SuccessMeansTold ==
    \A id \in RequestIds :
        /\ rows[id] # None
        /\ rows[id].status = "APPROVED"
        /\ rows[id].sync = "SUCCESS"
        /\ Quiet(id)
        => id \in told

\* A pending sync is settled in the end, whether the HCM ever answers or not:
\* the retry job validates, announces, skips or gives up after its maximum,
\* although overlapping passes and late tasks write stale attempt counts back.
PendingSyncSettles ==
    \A id \in RequestIds :
        (rows[id] # None /\ rows[id].sync = "PENDING")
            ~> (rows[id] # None /\ rows[id].sync # "PENDING")

=============================================================================
