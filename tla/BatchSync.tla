----------------------------- MODULE BatchSync -----------------------------
(***************************************************************************)
(* HcmSyncService.runBatchSync and _reconcileRecord                        *)
(* (src/modules/hcm/hcm-sync.service.js), running beside the transactions  *)
(* of LeaveLedger.                                                         *)
(*                                                                         *)
(* A job is one invocation of runBatchSync, by the nightly cron or by      *)
(* triggerManualBatchSync.  It runs outside any transaction: each awaited  *)
(* repository call is one step, and transactions commit between a job's    *)
(* read of a row and its write.  Which columns a write sets, and which it  *)
(* leaves, is what the code's update calls say.                            *)
(***************************************************************************)
EXTENDS LeaveLedger

CONSTANTS Jobs,        \* invocations of runBatchSync that may be under way
          MaxLogFails  \* bound: how many sync_logs inserts may fail

ASSUME BatchAssumption ==
    /\ MaxLogFails \in Nat
    /\ None \notin Jobs

VARIABLES
    hcm,           \* external: HCM's total of each balance, or None
    batchRunning,  \* _batchRunning
    pc,            \* where each job is
    snapshot,      \* the payload of the job's /hcm/batch-sync call
    todo,          \* the balances its current loop has still to visit
    row,           \* the row it has read, with its key
    failed,        \* recordsFailed
    processed,     \* recordsProcessed
    syncLog,       \* status of the last row of sync_logs, None without one
    logFails       \* failed inserts into sync_logs so far

jobVars == <<pc, snapshot, todo, row, failed, processed>>
vars == <<balances, requests, hcm, batchRunning, jobVars, syncLog, logFails>>

NoRow == [key |-> None, balance |-> None]

BatchTypeOK ==
    /\ LedgerTypeOK
    /\ hcm \in [BalanceKeys -> Totals \cup {None}]
    /\ batchRunning \in BOOLEAN
    /\ pc \in [Jobs -> {"idle", "openLog", "fetch", "reconcile", "write",
                        "findLocals", "flagMissing", "closeLog", "failLog"}]
    /\ snapshot \in [Jobs -> [BalanceKeys -> Totals \cup {None}]]
    /\ todo \in [Jobs -> SUBSET BalanceKeys]
    /\ row \in [Jobs -> [key : BalanceKeys \cup {None},
                         balance : Balance \cup {None}]]
    /\ failed \in [Jobs -> Nat]
    /\ processed \in [Jobs -> Nat]
    /\ syncLog \in {None, "STARTED", "COMPLETED", "PARTIAL", "FAILED"}
    /\ logFails \in 0 .. MaxLogFails

NoSnapshot == [b \in BalanceKeys |-> None]

Init ==
    /\ LedgerInit
    /\ hcm \in [BalanceKeys -> Totals \cup {None}]
    /\ batchRunning = FALSE
    /\ pc = [j \in Jobs |-> "idle"]
    /\ snapshot = [j \in Jobs |-> NoSnapshot]
    /\ todo = [j \in Jobs |-> {}]
    /\ row = [j \in Jobs |-> NoRow]
    /\ failed = [j \in Jobs |-> 0]
    /\ processed = [j \in Jobs |-> 0]
    /\ syncLog = None
    /\ logFails = 0

goto(j, label) == pc' = [pc EXCEPT ![j] = label]

-----------------------------------------------------------------------------
(* The guard against overlapping runs, and the log. *)

\* Mutant: the flag is tested and never raised.
startWithoutFlag(j) ==
    /\ pc[j] = "idle"
    /\ ~ batchRunning
    /\ goto(j, "openLog")
    /\ UNCHANGED <<balances, requests, hcm, batchRunning, snapshot, todo, row,
                   failed, processed, syncLog, logFails>>

\* Test and set in one synchronous piece of code; otherwise the run is skipped.
runBatchSync(j) ==
    /\ pc[j] = "idle"
    /\ ~ batchRunning
    /\ batchRunning' = TRUE
    /\ goto(j, "openLog")
    /\ UNCHANGED <<balances, requests, hcm, snapshot, todo, row, failed,
                   processed, syncLog, logFails>>

openLog(j) ==
    /\ pc[j] = "openLog"
    /\ syncLog' = "STARTED"
    /\ goto(j, "fetch")
    /\ UNCHANGED <<balances, requests, hcm, batchRunning, snapshot, todo, row,
                   failed, processed, logFails>>

\* The insert stands before the try block, so its failure leaves the flag up.
openLogFails(j) ==
    /\ pc[j] = "openLog"
    /\ logFails < MaxLogFails
    /\ logFails' = logFails + 1
    /\ goto(j, "idle")
    /\ UNCHANGED <<balances, requests, hcm, batchRunning, snapshot, todo, row,
                   failed, processed, syncLog>>

\* The local variables of job j are gone.
forgetLocals(j) ==
    /\ goto(j, "idle")
    /\ snapshot' = [snapshot EXCEPT ![j] = NoSnapshot]
    /\ todo' = [todo EXCEPT ![j] = {}]
    /\ row' = [row EXCEPT ![j] = NoRow]
    /\ failed' = [failed EXCEPT ![j] = 0]
    /\ processed' = [processed EXCEPT ![j] = 0]

\* Mutant: the flag is left up.
leaveFlagUp(j) ==
    /\ forgetLocals(j)
    /\ UNCHANGED batchRunning

\* The finally block.
leave(j) ==
    /\ forgetLocals(j)
    /\ batchRunning' = FALSE

\* Mutant: the failed records are not looked at.
statusWithoutFailures(nFailed, nProcessed) ==
    IF nProcessed = 0 THEN "FAILED" ELSE "COMPLETED"

finalStatus(nFailed, nProcessed) ==
    IF nFailed = 0 THEN "COMPLETED"
    ELSE IF nFailed < nProcessed THEN "PARTIAL" ELSE "FAILED"

closeLog(j) ==
    /\ pc[j] = "closeLog"
    /\ syncLog' = finalStatus(failed[j], processed[j])
    /\ leave(j)
    /\ UNCHANGED <<balances, requests, hcm, logFails>>

\* The catch block.  Its own update may fail, and the log stays STARTED; the
\* finally block runs in either case.
failLog(j) ==
    /\ pc[j] = "failLog"
    /\ \/ syncLog' = "FAILED"
       \/ UNCHANGED syncLog
    /\ leave(j)
    /\ UNCHANGED <<balances, requests, hcm, logFails>>

-----------------------------------------------------------------------------
(* The reconciliation of the HCM snapshot. *)

\* Mutant: null is taken for a snapshot without records.
getBatchBalancesUnchecked(j) ==
    /\ pc[j] = "fetch"
    /\ \E answer \in {hcm, None} :
          /\ snapshot' = [snapshot EXCEPT ![j] = answer]
          /\ todo' = [todo EXCEPT ![j] =
                        {b \in BalanceKeys : answer # None /\ hcm[b] # None}]
    /\ goto(j, "reconcile")
    /\ UNCHANGED <<balances, requests, hcm, batchRunning, row, failed, processed,
                   syncLog, logFails>>

\* HcmService.getBatchBalances returns the snapshot, or null when HCM is
\* unavailable, which the job turns into an error.
getBatchBalances(j) ==
    /\ pc[j] = "fetch"
    /\ \/ /\ snapshot' = [snapshot EXCEPT ![j] = hcm]
          /\ todo' = [todo EXCEPT ![j] = {b \in BalanceKeys : hcm[b] # None}]
          /\ goto(j, "reconcile")
       \/ /\ goto(j, "failLog")
          /\ UNCHANGED <<snapshot, todo>>
    /\ UNCHANGED <<balances, requests, hcm, batchRunning, row, failed, processed,
                   syncLog, logFails>>

\* _reconcileRecord reads the row.
reconcileRead(j) ==
    /\ pc[j] = "reconcile"
    /\ \E b \in todo[j] :
          /\ row' = [row EXCEPT ![j] = [key |-> b, balance |-> balances[b]]]
          /\ todo' = [todo EXCEPT ![j] = @ \ {b}]
    /\ processed' = [processed EXCEPT ![j] = @ + 1]
    /\ goto(j, "write")
    /\ UNCHANGED <<balances, requests, hcm, batchRunning, snapshot, failed,
                   syncLog, logFails>>

\* Mutant: a total below the local one is applied too.
reconciledBothWays(current, stale, hcmTotal) ==
    LET drift == hcmTotal - localTotal(stale)
    IN  [current EXCEPT !.available = stale.available + drift,
                        !.total = hcmTotal,
                        !.hcmTotal = hcmTotal]

\* Mutant: the whole row is saved back instead of the columns that change.
reconciledWholeRow(current, stale, hcmTotal) ==
    applyHcmRealTimeUpdate(stale, hcmTotal)

\* The update sets columns of the current row from the row read before: with a
\* positive drift, available and total are overwritten with absolute values.
reconciled(current, stale, hcmTotal) ==
    LET drift == hcmTotal - localTotal(stale)
    IN  [current EXCEPT
            !.available = IF drift > 0 THEN stale.available + drift ELSE @,
            !.total = IF drift > 0 THEN hcmTotal ELSE @,
            !.hcmTotal = hcmTotal,
            !.hasDiscrepancy = drift < 0,
            !.discrepancyAmount = IF drift < 0 THEN -drift ELSE 0]

\* _reconcileRecord writes: a new row, which fails if someone else has inserted
\* it meanwhile, or an update.  Any database error counts as a failed record.
reconcileWrite(j) ==
    LET b   == row[j].key
        old == row[j].balance
    IN  /\ pc[j] = "write"
        /\ \/ /\ old = None
              /\ balances[b] = None
              /\ balances' = [balances EXCEPT ![b] = newBalance(snapshot[j][b])]
              /\ UNCHANGED failed
           \/ /\ old # None
              /\ balances' = [balances EXCEPT ![b] = reconciled(@, old, snapshot[j][b])]
              /\ UNCHANGED failed
           \/ /\ failed' = [failed EXCEPT ![j] = @ + 1]
              /\ UNCHANGED balances
        /\ row' = [row EXCEPT ![j] = NoRow]
        /\ goto(j, "reconcile")
        /\ UNCHANGED <<requests, hcm, batchRunning, snapshot, todo, processed,
                       syncLog, logFails>>

reconcileDone(j) ==
    /\ pc[j] = "reconcile"
    /\ todo[j] = {}
    /\ goto(j, "findLocals")
    /\ UNCHANGED <<balances, requests, hcm, batchRunning, snapshot, todo, row,
                   failed, processed, syncLog, logFails>>

-----------------------------------------------------------------------------
(* Local rows that the snapshot omits. *)

findLocals(j) ==
    /\ pc[j] = "findLocals"
    /\ todo' = [todo EXCEPT ![j] =
                  {b \in BalanceKeys : balances[b] # None /\ snapshot[j][b] = None}]
    /\ goto(j, "flagMissing")
    /\ UNCHANGED <<balances, requests, hcm, batchRunning, snapshot, row, failed,
                   processed, syncLog, logFails>>

\* The discrepancy amount is written back as it was read; only this job sets it.
flagMissing(j) ==
    /\ pc[j] = "flagMissing"
    /\ \E b \in todo[j] :
          /\ todo' = [todo EXCEPT ![j] = @ \ {b}]
          /\ balances' = [balances EXCEPT ![b].hasDiscrepancy = TRUE]
    /\ processed' = [processed EXCEPT ![j] = @ + 1]
    /\ failed' = [failed EXCEPT ![j] = @ + 1]
    /\ UNCHANGED <<requests, hcm, batchRunning, pc, snapshot, row, syncLog, logFails>>

flagDone(j) ==
    /\ pc[j] = "flagMissing"
    /\ todo[j] = {}
    /\ goto(j, "closeLog")
    /\ UNCHANGED <<balances, requests, hcm, batchRunning, snapshot, todo, row,
                   failed, processed, syncLog, logFails>>

\* A database error outside the per-record try goes to the outer catch.
databaseFails(j) ==
    /\ pc[j] \in {"findLocals", "flagMissing", "closeLog"}
    /\ goto(j, "failLog")
    /\ UNCHANGED <<balances, requests, hcm, batchRunning, snapshot, todo, row,
                   failed, processed, syncLog, logFails>>

-----------------------------------------------------------------------------
Step(j) ==
    \/ openLog(j) \/ openLogFails(j)
    \/ getBatchBalances(j)
    \/ reconcileRead(j) \/ reconcileWrite(j) \/ reconcileDone(j)
    \/ findLocals(j) \/ flagMissing(j) \/ flagDone(j)
    \/ closeLog(j) \/ databaseFails(j) \/ failLog(j)

\* The transactions that commit beside the jobs.
Others ==
    /\ \/ \E b \in BalanceKeys, total \in Totals : upsertBalance(b, total)
       \/ \E id \in RequestIds, dto \in Dto : createTransaction(id, dto)
       \/ Decide
    /\ UNCHANGED <<hcm, batchRunning, jobVars, syncLog, logFails>>

\* External: accruals, corrections and omissions in the HCM.
HcmChanges ==
    /\ \E b \in BalanceKeys, total \in Totals \cup {None} :
          hcm' = [hcm EXCEPT ![b] = total]
    /\ UNCHANGED <<balances, requests, batchRunning, jobVars, syncLog, logFails>>

\* The process restarts: the tables stay, the flag and the jobs are gone.
Crash ==
    /\ batchRunning' = FALSE
    /\ pc' = [j \in Jobs |-> "idle"]
    /\ snapshot' = [j \in Jobs |-> NoSnapshot]
    /\ todo' = [j \in Jobs |-> {}]
    /\ row' = [j \in Jobs |-> NoRow]
    /\ failed' = [j \in Jobs |-> 0]
    /\ processed' = [j \in Jobs |-> 0]
    /\ UNCHANGED <<balances, requests, hcm, syncLog, logFails>>

Next ==
    \/ \E j \in Jobs : runBatchSync(j) \/ Step(j)
    \/ Others
    \/ HcmChanges
    \/ Crash

Spec == Init /\ [][Next]_vars

\* A job under way goes on: every await of a repository call or of the HCM
\* call, which has a timeout, returns or throws.  When to start a job is the
\* scheduler's choice.
FairSpec == Spec /\ \A j \in Jobs : WF_vars(Step(j))

-----------------------------------------------------------------------------
\* Two batches never run at once, whoever starts them: runBatchSync tests and
\* sets _batchRunning without an await between, and every way out of a batch
\* that lowers the flag is the batch's own.
OneBatchAtATime ==
    \A i, j \in Jobs : pc[i] # "idle" /\ pc[j] # "idle" => i = j

\* The days promised never exceed the entitlement: README.md:113, "no race
\* condition can over-allocate leave".
NeverOverAllocated ==
    \A b \in BalanceKeys : balances[b] # None =>
        balances[b].pending + balances[b].used <= balances[b].total

ClosesTruthfully ==
    \A j \in Jobs :
        /\ syncLog' = "COMPLETED"
        /\ syncLog # "COMPLETED"
        /\ pc[j] # pc'[j]
        => \A b \in BalanceKeys : snapshot[j][b] # None =>
              /\ balances[b] # None
              /\ balances[b].hcmTotal = snapshot[j][b]

\* A batch logged as COMPLETED has brought every balance of its snapshot up to
\* it, although transactions committed and rows were inserted while it ran.
CompletedMeansReconciled == [][ClosesTruthfully]_vars

\* Every batch ends and lowers the flag, so that the next one is not skipped:
\* the finally block of runBatchSync, reached whether the HCM answers or not.
\* The one exception is the insert of the log, which stands before the try
\* block: when it fails the flag stays up until the process restarts.
BatchEnds == batchRunning ~> (~ batchRunning \/ logFails > 0)

=============================================================================
