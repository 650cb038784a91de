-------------------------- MODULE BatchSync_proofs --------------------------
(***************************************************************************)
(* Proofs about BatchSync: what the reconciliation of the HCM snapshot,    *)
(* which runs outside any transaction, leaves true of the ledger, for      *)
(* every number of jobs, balances and requests.                            *)
(*                                                                         *)
(* The stale write breaks BalanceInvariant, so the ledger contributes its  *)
(* LedgerCore.  What a job remembers between its steps is tied to the      *)
(* tables by JobInv: there is one job at most, the row it has read exists  *)
(* and was not overdrawn, and what it has visited is up to its snapshot    *)
(* unless it has counted a failure.                                        *)
(***************************************************************************)
EXTENDS BatchSync, LeaveLedger_proofs

\* A job under way holds the flag.
FlagUp == \A j \in Jobs : pc[j] # "idle" => batchRunning

\* The loops visit balances that exist in the snapshot, or in the table.
TodoKnown(j) ==
    \A b \in todo[j] :
        /\ pc[j] \in {"reconcile", "write"} => snapshot[j][b] # None
        /\ pc[j] = "flagMissing" => balances[b] # None

\* Rows are never deleted, and the row a job has read was not overdrawn.
RowRead(j) ==
    pc[j] = "write" =>
        /\ row[j].key \in BalanceKeys
        /\ snapshot[j][row[j].key] # None
        /\ row[j].balance # None =>
              /\ balances[row[j].key] # None
              /\ row[j].balance.available >= 0

UpToSnapshot(j, b) ==
    /\ balances[b] # None
    /\ balances[b].hcmTotal = snapshot[j][b]

\* As long as nothing has failed, what the job has left behind is up to its
\* snapshot.
VisitedReconciled(j) ==
    \A b \in BalanceKeys :
        /\ pc[j] \in {"reconcile", "write", "findLocals", "flagMissing", "closeLog"}
        /\ failed[j] = 0
        /\ snapshot[j][b] # None
        => \/ pc[j] \in {"reconcile", "write"} /\ b \in todo[j]
           \/ pc[j] = "write" /\ b = row[j].key
           \/ UpToSnapshot(j, b)

JobInv(j) == TodoKnown(j) /\ RowRead(j) /\ VisitedReconciled(j)

BatchInv ==
    /\ BatchTypeOK
    /\ LedgerCore
    /\ FlagUp
    /\ OneBatchAtATime
    /\ \A j \in Jobs : JobInv(j)

-----------------------------------------------------------------------------
(* What the writes of the reconciliation do to a row. *)

\* The update of _reconcileRecord keeps pending and used of the current row and
\* takes what is available from the row read before.
LEMMA ReconciledEffect ==
    ASSUME NEW r \in Balance, NEW old \in Balance, NEW n \in Int
    PROVE  /\ reconciled(r, old, n) \in Balance
           /\ reconciled(r, old, n).pending = r.pending
           /\ reconciled(r, old, n).used = r.used
           /\ reconciled(r, old, n).hcmTotal = n
           /\ \/ /\ n - localTotal(old) > 0
                 /\ reconciled(r, old, n).available = old.available + (n - localTotal(old))
              \/ reconciled(r, old, n).available = r.available
<1> DEFINE drift == n - localTotal(old)
           a == IF drift > 0 THEN old.available + drift ELSE r.available
           t == IF drift > 0 THEN n ELSE r.total
           x == drift < 0
           d == IF drift < 0 THEN -drift ELSE 0
<1>1. drift \in Int
  BY DEF Balance, localTotal
<1>2. a \in Int /\ t \in Int /\ d \in Int
  BY <1>1 DEF Balance
<1>3. x \in BOOLEAN
  BY <1>1
<1>4. reconciled(r, old, n) =
        [r EXCEPT !.available = a, !.total = t, !.hcmTotal = n,
                  !.hasDiscrepancy = x, !.discrepancyAmount = d]
  BY Zenon DEF reconciled
<1> HIDE DEF a, t, d, x
<1>5. reconciled(r, old, n) =
        [total |-> t, available |-> a, pending |-> r.pending, used |-> r.used,
         hcmTotal |-> n, hasDiscrepancy |-> x, discrepancyAmount |-> d]
  BY <1>2, <1>3, <1>4, Zenon DEF Balance
<1> QED BY <1>1, <1>2, <1>3, <1>5 DEF Balance, a, t

\* Flagging a row changes no amount.
LEMMA FlaggedEffect ==
    ASSUME NEW r \in Balance
    PROVE  LET u == [r EXCEPT !.hasDiscrepancy = TRUE]
           IN  /\ u \in Balance
               /\ u.available = r.available
               /\ u.pending = r.pending
               /\ u.used = r.used
BY Zenon DEF Balance

\* Every row stays, with the HCM total it has.
RowsKept ==
    \A b \in BalanceKeys : balances[b] # None =>
        /\ balances'[b] # None
        /\ balances'[b].hcmTotal = balances[b].hcmTotal

\* The transactions beside the jobs delete no row and leave its HCM total.
LEMMA TransactionKeepsRows ==
    ASSUME LedgerCore,
           \/ \E b \in BalanceKeys, total \in Totals : upsertBalance(b, total)
           \/ \E id \in RequestIds, dto \in Dto : createTransaction(id, dto)
           \/ Decide
    PROVE  RowsKept
<1>1. ASSUME NEW b \in BalanceKeys, NEW r \in Balance,
             balances' = [balances EXCEPT ![b] = r],
             balances[b] # None => r.hcmTotal = balances[b].hcmTotal
      PROVE  RowsKept
  <2>1. r # None
    BY LedgerAssumption
  <2>2. \A c \in BalanceKeys : balances'[c] = IF c = b THEN r ELSE balances[c]
    BY <1>1 DEF LedgerCore, LedgerTypeOK
  <2> QED BY <1>1, <2>1, <2>2 DEF RowsKept
<1>2. ASSUME NEW b \in BalanceKeys, NEW n \in Totals, upsertBalance(b, n)
      PROVE  RowsKept
  <2>1. newBalance(n) \in Balance
    BY LedgerAssumption, NewBalanceEffect
  <2>2. balances[b] = None /\ balances' = [balances EXCEPT ![b] = newBalance(n)]
    BY <1>2 DEF upsertBalance
  <2> QED BY <1>1, <2>1, <2>2
<1>3. ASSUME NEW id \in RequestIds, NEW dto \in Dto, createTransaction(id, dto)
      PROVE  RowsKept
  <2> DEFINE b == balanceKey(dto)
             r == atomicDeduct(balances[b], daysRequested(dto))
  <2>1. WellFormed(dto) /\ balances[b] # None /\ balances' = [balances EXCEPT ![b] = r]
    BY <1>3 DEF createTransaction
  <2>2. b \in BalanceKeys /\ balances[b] \in Balance /\ daysRequested(dto) \in Int
    BY <2>1, BalanceKeyType, DaysOfDto DEF LedgerCore, LedgerTypeOK
  <2>3. r \in Balance /\ r.hcmTotal = balances[b].hcmTotal
    BY <2>2, DeductEffect
  <2> HIDE DEF r
  <2> QED BY <1>1, <2>1, <2>2, <2>3
<1>4. ASSUME NEW id \in RequestIds,
             approveRequest(id) \/ rejectRequest(id) \/ cancelRequest(id)
      PROVE  RowsKept
  <2> DEFINE dto == requests[id].dto
             b   == balanceKey(dto)
             n   == daysRequested(dto)
  <2>1. /\ requests[id] # None /\ balances[b] # None
        /\ \/ balances' = [balances EXCEPT ![b] = finalizeUsed(balances[b], n)]
           \/ balances' = [balances EXCEPT ![b] = releaseFromPending(balances[b], n)]
    BY <1>4 DEF approveRequest, rejectRequest, cancelRequest, settle
  <2>2. dto \in Dto /\ WellFormed(dto)
    BY <2>1 DEF LedgerCore, LedgerTypeOK, Request, RequestsBacked
  <2>3. b \in BalanceKeys /\ balances[b] \in Balance /\ n \in Int
    BY <2>1, <2>2, BalanceKeyType, DaysOfDto DEF LedgerCore, LedgerTypeOK
  <2>4. /\ finalizeUsed(balances[b], n) \in Balance
        /\ finalizeUsed(balances[b], n).hcmTotal = balances[b].hcmTotal
        /\ releaseFromPending(balances[b], n) \in Balance
        /\ releaseFromPending(balances[b], n).hcmTotal = balances[b].hcmTotal
    BY <2>3, FinalizeEffect, ReleaseEffect
  <2> HIDE DEF n, b
  <2>5. CASE balances' = [balances EXCEPT ![b] = finalizeUsed(balances[b], n)]
    <3> DEFINE r == finalizeUsed(balances[b], n)
    <3>1. r \in Balance /\ r.hcmTotal = balances[b].hcmTotal /\ balances' = [balances EXCEPT ![b] = r]
      BY <2>4, <2>5
    <3> HIDE DEF r
    <3> QED BY <1>1, <2>3, <3>1
  <2>6. CASE balances' = [balances EXCEPT ![b] = releaseFromPending(balances[b], n)]
    <3> DEFINE r == releaseFromPending(balances[b], n)
    <3>1. r \in Balance /\ r.hcmTotal = balances[b].hcmTotal /\ balances' = [balances EXCEPT ![b] = r]
      BY <2>4, <2>6
    <3> HIDE DEF r
    <3> QED BY <1>1, <2>3, <3>1
  <2> QED BY <2>1, <2>5, <2>6
<1> QED BY <1>2, <1>3, <1>4 DEF Decide

-----------------------------------------------------------------------------
(* The steps of a job. *)

\* Tables that do not change keep their invariant.
LEMMA CoreUnchanged == LedgerCore /\ UNCHANGED ledgerVars => LedgerCore'
BY DEF ledgerVars, LedgerCore, LedgerTypeOK, RequestsBacked, NoDoubleBooking, Active,
       CountersMatchRequests, NeverOverdrawn

\* A job that moves, or that starts while the flag is down, is alone.
LEMMA OthersIdle ==
    ASSUME BatchInv, NEW j \in Jobs, pc[j] # "idle" \/ ~ batchRunning,
           NEW label, pc' = [pc EXCEPT ![j] = label],
           label # "idle" => batchRunning'
    PROVE  /\ FlagUp' /\ OneBatchAtATime'
           /\ pc'[j] = label
           /\ \A k \in Jobs : k # j => JobInv(k)'
<1>1. \A k \in Jobs : k # j => pc[k] = "idle"
  BY DEF BatchInv, FlagUp, OneBatchAtATime
<1>2. pc'[j] = label /\ \A k \in Jobs : k # j => pc'[k] = "idle"
  BY <1>1 DEF BatchInv, BatchTypeOK
<1>3. FlagUp' /\ OneBatchAtATime'
  BY <1>2 DEF FlagUp, OneBatchAtATime
<1>4. ASSUME NEW k \in Jobs, k # j PROVE JobInv(k)'
  BY <1>2, <1>4 DEF JobInv, TodoKnown, RowRead, VisitedReconciled
<1> QED BY <1>2, <1>3, <1>4

\* The steps of a job that change none of its tables, and none of what it
\* remembers: the flag, the log, and the ends of its loops.
LEMMA ControlPreserves ==
    ASSUME BatchInv, NEW j \in Jobs,
           \/ runBatchSync(j) \/ openLog(j) \/ openLogFails(j)
           \/ reconcileDone(j) \/ flagDone(j) \/ databaseFails(j)
    PROVE  BatchInv'
<1>1. UNCHANGED <<balances, requests, hcm, snapshot, todo, row, failed, processed>>
  BY DEF runBatchSync, openLog, openLogFails, reconcileDone, flagDone, databaseFails
<1>2. PICK label \in {"idle", "openLog", "fetch", "findLocals", "closeLog", "failLog"} :
         /\ pc' = [pc EXCEPT ![j] = label]
         /\ batchRunning' = TRUE \/ (batchRunning' = batchRunning /\ pc[j] # "idle")
         /\ pc[j] # "idle" \/ ~ batchRunning
         /\ label = "findLocals" => pc[j] = "reconcile" /\ todo[j] = {}
         /\ label = "closeLog" => pc[j] = "flagMissing" /\ todo[j] = {}
  BY DEF runBatchSync, openLog, openLogFails, reconcileDone, flagDone, databaseFails,
         goto, BatchInv, BatchTypeOK
<1>3. batchRunning' = TRUE
  BY <1>2 DEF BatchInv, FlagUp, BatchTypeOK
<1>4. BatchTypeOK'
  <2>1. /\ syncLog' \in {None, "STARTED", "COMPLETED", "PARTIAL", "FAILED"}
        /\ logFails' \in 0 .. MaxLogFails
    BY BatchAssumption
    DEF runBatchSync, openLog, openLogFails, reconcileDone, flagDone, databaseFails,
        BatchInv, BatchTypeOK
  <2>2. LedgerTypeOK'
    BY <1>1 DEF BatchInv, BatchTypeOK, LedgerTypeOK
  <2> QED BY <1>1, <1>2, <1>3, <2>1, <2>2 DEF BatchInv, BatchTypeOK
<1>5. LedgerCore'
  BY <1>1, CoreUnchanged DEF BatchInv, ledgerVars
<1>6. /\ FlagUp' /\ OneBatchAtATime'
      /\ pc'[j] = label
      /\ \A k \in Jobs : k # j => JobInv(k)'
  BY <1>2, <1>3, OthersIdle
<1>7. JobInv(j)'
  <2>1. JobInv(j) /\ pc'[j] = label
    BY <1>6 DEF BatchInv
  <2>2. TodoKnown(j)' /\ RowRead(j)'
    BY <2>1, <1>2 DEF TodoKnown, RowRead
  <2>3. VisitedReconciled(j)'
    <3> SUFFICES ASSUME NEW b \in BalanceKeys, label \in {"findLocals", "closeLog"},
                        failed[j] = 0, snapshot[j][b] # None
                 PROVE  balances[b] # None /\ balances[b].hcmTotal = snapshot[j][b]
      BY <1>1, <1>2, <2>1 DEF VisitedReconciled, UpToSnapshot
    <3> QED BY <1>2, <2>1 DEF JobInv, VisitedReconciled, UpToSnapshot
  <2> QED BY <2>2, <2>3 DEF JobInv
<1> QED BY <1>4, <1>5, <1>6, <1>7 DEF BatchInv

\* The finally block lowers the flag that the job itself has raised.
LEMMA LeavePreserves ==
    ASSUME BatchInv, NEW j \in Jobs, closeLog(j) \/ failLog(j)
    PROVE  BatchInv'
<1>1. /\ UNCHANGED <<balances, requests, hcm, logFails>>
      /\ pc[j] # "idle"
      /\ pc' = [pc EXCEPT ![j] = "idle"]
      /\ batchRunning' = FALSE
      /\ snapshot' = [snapshot EXCEPT ![j] = NoSnapshot]
      /\ todo' = [todo EXCEPT ![j] = {}]
      /\ row' = [row EXCEPT ![j] = NoRow]
      /\ failed' = [failed EXCEPT ![j] = 0]
      /\ processed' = [processed EXCEPT ![j] = 0]
  BY DEF closeLog, failLog, leave, forgetLocals, goto
<1>2. BatchTypeOK'
  <2>1. syncLog' \in {None, "STARTED", "COMPLETED", "PARTIAL", "FAILED"}
    BY DEF closeLog, failLog, finalStatus, BatchInv, BatchTypeOK
  <2>2. NoSnapshot \in [BalanceKeys -> Totals \cup {None}]
    BY DEF NoSnapshot
  <2>3. NoRow \in [key : BalanceKeys \cup {None}, balance : Balance \cup {None}]
    BY DEF NoRow
  <2>4. LedgerTypeOK'
    BY <1>1 DEF BatchInv, BatchTypeOK, LedgerTypeOK
  <2> QED BY <1>1, <2>1, <2>2, <2>3, <2>4 DEF BatchInv, BatchTypeOK
<1>3. LedgerCore'
  BY <1>1, CoreUnchanged DEF BatchInv, ledgerVars
<1>4. /\ FlagUp' /\ OneBatchAtATime'
      /\ pc'[j] = "idle"
      /\ \A k \in Jobs : k # j => JobInv(k)'
  BY <1>1, OthersIdle
<1>5. JobInv(j)'
  BY <1>4 DEF JobInv, TodoKnown, RowRead, VisitedReconciled
<1> QED BY <1>2, <1>3, <1>4, <1>5 DEF BatchInv

\* The snapshot is fetched: every balance it names is still to be visited.
LEMMA FetchPreserves ==
    ASSUME BatchInv, NEW j \in Jobs, getBatchBalances(j)
    PROVE  BatchInv'
<1>1. UNCHANGED <<balances, requests, hcm, batchRunning, row, failed, processed, syncLog, logFails>>
      /\ pc[j] # "idle"
  BY DEF getBatchBalances
<1>2. batchRunning'
  BY <1>1 DEF BatchInv, FlagUp
<1>3. LedgerCore'
  BY <1>1, CoreUnchanged DEF BatchInv, ledgerVars
<1>t. LedgerTypeOK'
  BY <1>3 DEF LedgerCore
<1>4. CASE /\ snapshot' = [snapshot EXCEPT ![j] = hcm]
           /\ todo' = [todo EXCEPT ![j] = {b \in BalanceKeys : hcm[b] # None}]
           /\ pc' = [pc EXCEPT ![j] = "reconcile"]
  <2>1. /\ FlagUp' /\ OneBatchAtATime'
        /\ pc'[j] = "reconcile"
        /\ \A k \in Jobs : k # j => JobInv(k)'
    BY <1>1, <1>2, <1>4, OthersIdle
  <2>2. BatchTypeOK'
    BY <1>1, <1>4, <1>t DEF BatchInv, BatchTypeOK
  <2>3. snapshot'[j] = hcm /\ todo'[j] = {b \in BalanceKeys : hcm[b] # None}
    BY <1>4 DEF BatchInv, BatchTypeOK
  <2>4. JobInv(j)'
    BY <2>1, <2>3 DEF JobInv, TodoKnown, RowRead, VisitedReconciled
  <2> QED BY <1>3, <2>1, <2>2, <2>4 DEF BatchInv
<1>5. CASE pc' = [pc EXCEPT ![j] = "failLog"] /\ UNCHANGED <<snapshot, todo>>
  <2>1. /\ FlagUp' /\ OneBatchAtATime'
        /\ pc'[j] = "failLog"
        /\ \A k \in Jobs : k # j => JobInv(k)'
    BY <1>1, <1>2, <1>5, OthersIdle
  <2>2. BatchTypeOK'
    BY <1>1, <1>5, <1>t DEF BatchInv, BatchTypeOK
  <2>3. JobInv(j)'
    BY <2>1 DEF JobInv, TodoKnown, RowRead, VisitedReconciled
  <2> QED BY <1>3, <2>1, <2>2, <2>3 DEF BatchInv
<1> QED BY <1>4, <1>5 DEF getBatchBalances, goto

\* _reconcileRecord reads the row of the next balance.
LEMMA ReadPreserves ==
    ASSUME BatchInv, NEW j \in Jobs, reconcileRead(j)
    PROVE  BatchInv'
<1>1. PICK b \in todo[j] :
         /\ row' = [row EXCEPT ![j] = [key |-> b, balance |-> balances[b]]]
         /\ todo' = [todo EXCEPT ![j] = todo[j] \ {b}]
  BY DEF reconcileRead
<1>2. /\ pc[j] = "reconcile"
      /\ pc' = [pc EXCEPT ![j] = "write"]
      /\ processed' = [processed EXCEPT ![j] = @ + 1]
      /\ UNCHANGED <<balances, requests, hcm, batchRunning, snapshot, failed, syncLog, logFails>>
  BY DEF reconcileRead, goto
<1>3. b \in BalanceKeys /\ balances[b] \in Balance \cup {None}
  BY DEF BatchInv, BatchTypeOK, LedgerTypeOK
<1>4. LedgerCore'
  BY <1>2, CoreUnchanged DEF BatchInv, ledgerVars
<1>5. BatchTypeOK'
  <2>1. LedgerTypeOK'
    BY <1>4 DEF LedgerCore
  <2>2. row' \in [Jobs -> [key : BalanceKeys \cup {None}, balance : Balance \cup {None}]]
    BY <1>1, <1>3 DEF BatchInv, BatchTypeOK
  <2>3. processed' \in [Jobs -> Nat]
    BY <1>2 DEF BatchInv, BatchTypeOK
  <2> QED BY <1>1, <1>2, <2>1, <2>2, <2>3 DEF BatchInv, BatchTypeOK
<1>6. /\ FlagUp' /\ OneBatchAtATime'
      /\ pc'[j] = "write"
      /\ \A k \in Jobs : k # j => JobInv(k)'
  BY <1>2, OthersIdle DEF BatchInv, FlagUp
<1>7. JobInv(j)'
  <2>1. /\ row'[j] = [key |-> b, balance |-> balances[b]]
        /\ todo'[j] = todo[j] \ {b}
    BY <1>1 DEF BatchInv, BatchTypeOK
  <2>2. row'[j].key = b /\ row'[j].balance = balances[b]
    BY <2>1
  <2>3. JobInv(j)
    BY DEF BatchInv
  <2>4. TodoKnown(j)'
    BY <1>2, <1>6, <2>1, <2>3 DEF JobInv, TodoKnown
  <2>5. RowRead(j)'
    BY <1>2, <1>3, <2>2, <2>3 DEF JobInv, TodoKnown, RowRead, BatchInv, LedgerCore, NeverOverdrawn
  <2>6. VisitedReconciled(j)'
    BY <1>2, <1>6, <2>1, <2>2, <2>3 DEF JobInv, VisitedReconciled, UpToSnapshot
  <2> QED BY <2>4, <2>5, <2>6 DEF JobInv
<1> QED BY <1>4, <1>5, <1>6, <1>7 DEF BatchInv

\* A write of one row by a job leaves the ledger's core in place if the row's
\* counters are those of the row it replaces, or of no request.
LEMMA JobWritePreserves ==
    ASSUME LedgerCore, NEW b \in BalanceKeys, NEW u \in Balance,
           balances' = [balances EXCEPT ![b] = u], UNCHANGED requests,
           u.available >= 0,
           balances[b] = None => u.pending = 0 /\ u.used = 0,
           balances[b] # None => /\ u.pending = balances[b].pending
                                 /\ u.used = balances[b].used
    PROVE  /\ LedgerCore'
           /\ \A c \in BalanceKeys : c # b => balances'[c] = balances[c]
           /\ balances'[b] = u
           /\ u # None
<1>1. /\ u.pending = Cardinality(HeldDays(requests, b, "PENDING"))
      /\ u.used = Cardinality(HeldDays(requests, b, "APPROVED"))
  <2>1. CASE balances[b] = None
    BY <2>1, NothingHeldWithoutRow DEF LedgerCore
  <2>2. CASE balances[b] # None
    BY <2>2 DEF LedgerCore, CountersMatchRequests
  <2> QED BY <2>1, <2>2
<1>2. LedgerCore'
  BY <1>1, RowWritePreserves
<1>3. /\ \A c \in BalanceKeys : c # b => balances'[c] = balances[c]
      /\ balances'[b] = u
  BY DEF LedgerCore, LedgerTypeOK
<1> QED BY <1>2, <1>3, LedgerAssumption

\* _reconcileRecord writes: the row of the balance is up to the snapshot, or
\* the record is counted as failed.
LEMMA WritePreserves ==
    ASSUME BatchInv, NEW j \in Jobs, reconcileWrite(j)
    PROVE  BatchInv'
<1> USE LedgerAssumption
<1>0. PICK b \in BalanceKeys, old \in Balance \cup {None}, n \in Totals :
         row[j].key = b /\ row[j].balance = old /\ snapshot[j][b] = n
  <2>1. pc[j] = "write"
    BY DEF reconcileWrite
  <2>2. row[j].key \in BalanceKeys /\ snapshot[j][row[j].key] # None
    BY <2>1 DEF BatchInv, JobInv, RowRead
  <2>3. row[j].balance \in Balance \cup {None}
    BY DEF BatchInv, BatchTypeOK
  <2>4. snapshot[j][row[j].key] \in Totals
    BY <2>2 DEF BatchInv, BatchTypeOK
  <2> QED BY <2>2, <2>3, <2>4
<1>1. /\ pc[j] = "write"
      /\ pc' = [pc EXCEPT ![j] = "reconcile"]
      /\ row' = [row EXCEPT ![j] = NoRow]
      /\ UNCHANGED <<requests, hcm, batchRunning, snapshot, todo, processed, syncLog, logFails>>
  BY DEF reconcileWrite, goto
<1>2. JobInv(j) /\ n \in Nat
  BY DEF BatchInv
<1>3. /\ failed' \in [Jobs -> Nat]
      /\ LedgerCore'
      /\ \A c \in BalanceKeys : c # b => balances'[c] = balances[c]
      /\ failed'[j] = 0 => /\ failed[j] = 0
                           /\ balances'[b] # None
                           /\ balances'[b].hcmTotal = n
  <2>1. CASE /\ old = None /\ balances[b] = None
             /\ balances' = [balances EXCEPT ![b] = newBalance(n)] /\ UNCHANGED failed
    <3> DEFINE u == newBalance(n)
    <3>1. /\ u \in Balance /\ u.pending = 0 /\ u.used = 0 /\ u.available = n
          /\ u.hcmTotal = n
      BY <1>2, NewBalanceEffect
    <3>2. balances' = [balances EXCEPT ![b] = u]
      BY <2>1
    <3> HIDE DEF u
    <3>3. u.available >= 0
      BY <1>2, <3>1
    <3>4. /\ LedgerCore'
          /\ \A c \in BalanceKeys : c # b => balances'[c] = balances[c]
          /\ balances'[b] = u
          /\ u # None
      BY <1>1, <2>1, <3>1, <3>2, <3>3, JobWritePreserves DEF BatchInv
    <3> QED BY <2>1, <3>1, <3>4 DEF BatchInv, BatchTypeOK
  <2>2. CASE /\ old # None
             /\ balances' = [balances EXCEPT ![b] = reconciled(balances[b], old, n)]
             /\ UNCHANGED failed
    <3> DEFINE r == balances[b]
               u == reconciled(r, old, n)
               drift == n - localTotal(old)
    <3>0. r # None /\ old.available >= 0
      BY <1>0, <1>1, <1>2, <2>2 DEF JobInv, RowRead
    <3>1. r \in Balance /\ old \in Balance /\ r.available >= 0
      BY <2>2, <3>0 DEF BatchInv, LedgerCore, LedgerTypeOK, NeverOverdrawn
    <3>2. /\ u \in Balance /\ u.pending = r.pending /\ u.used = r.used /\ u.hcmTotal = n
          /\ \/ drift > 0 /\ u.available = old.available + drift
             \/ u.available = r.available
      <4>1. n \in Int
        BY <1>2
      <4>2. r \in Balance /\ old \in Balance
        BY <3>1
      <4> HIDE DEF r
      <4> QED BY <4>1, <4>2, ReconciledEffect, Zenon
    <3>3. balances' = [balances EXCEPT ![b] = u]
      BY <2>2
    <3>4. drift \in Int /\ old.available \in Int
      BY <1>2, <3>1 DEF Balance, localTotal
    <3> HIDE DEF u, r, drift
    <3>5. u.available >= 0
      BY <3>0, <3>1, <3>2, <3>4
    <3>6. /\ LedgerCore'
          /\ \A c \in BalanceKeys : c # b => balances'[c] = balances[c]
          /\ balances'[b] = u
          /\ u # None
      BY <1>1, <3>0, <3>2, <3>3, <3>5, JobWritePreserves DEF BatchInv, r
    <3> QED BY <2>2, <3>2, <3>6 DEF BatchInv, BatchTypeOK
  <2>3. CASE failed' = [failed EXCEPT ![j] = @ + 1] /\ UNCHANGED balances
    <3>1. LedgerCore'
      BY <1>1, <2>3, CoreUnchanged DEF BatchInv, ledgerVars
    <3>2. failed' \in [Jobs -> Nat] /\ failed'[j] # 0
      BY <2>3 DEF BatchInv, BatchTypeOK
    <3> QED BY <2>3, <3>1, <3>2
  <2> QED BY <1>0, <2>1, <2>2, <2>3 DEF reconcileWrite
<1>4. BatchTypeOK'
  <2>1. LedgerTypeOK'
    BY <1>3 DEF LedgerCore
  <2>2. NoRow \in [key : BalanceKeys \cup {None}, balance : Balance \cup {None}]
    BY DEF NoRow
  <2> QED BY <1>1, <1>3, <2>1, <2>2 DEF BatchInv, BatchTypeOK
<1>5. /\ FlagUp' /\ OneBatchAtATime'
      /\ pc'[j] = "reconcile"
      /\ \A k \in Jobs : k # j => JobInv(k)'
  BY <1>1, OthersIdle DEF BatchInv, FlagUp
<1>6. JobInv(j)'
  <2>1. TodoKnown(j)' /\ RowRead(j)'
    BY <1>1, <1>2, <1>5 DEF JobInv, TodoKnown, RowRead
  <2>2. VisitedReconciled(j)'
    <3> SUFFICES ASSUME NEW c \in BalanceKeys, failed'[j] = 0, snapshot[j][c] # None,
                        c \notin todo[j]
                 PROVE  balances'[c] # None /\ balances'[c].hcmTotal = snapshot[j][c]
      BY <1>1, <1>5 DEF VisitedReconciled, UpToSnapshot
    <3>1. CASE c = b
      BY <1>0, <1>3, <3>1
    <3>2. CASE c # b
      BY <1>0, <1>1, <1>2, <1>3, <3>2 DEF JobInv, VisitedReconciled, UpToSnapshot
    <3> QED BY <3>1, <3>2
  <2> QED BY <2>1, <2>2 DEF JobInv
<1> QED BY <1>3, <1>4, <1>5, <1>6 DEF BatchInv

\* The job looks for rows the snapshot omits.
LEMMA FindLocalsPreserves ==
    ASSUME BatchInv, NEW j \in Jobs, findLocals(j)
    PROVE  BatchInv'
<1> DEFINE missing == {b \in BalanceKeys : balances[b] # None /\ snapshot[j][b] = None}
<1>1. /\ pc[j] = "findLocals"
      /\ todo' = [todo EXCEPT ![j] = missing]
      /\ pc' = [pc EXCEPT ![j] = "flagMissing"]
      /\ UNCHANGED <<balances, requests, hcm, batchRunning, snapshot, row, failed,
                     processed, syncLog, logFails>>
  BY DEF findLocals, goto
<1>2. LedgerCore' /\ LedgerTypeOK'
  BY <1>1, CoreUnchanged DEF BatchInv, ledgerVars, LedgerCore
<1>3. BatchTypeOK'
  BY <1>1, <1>2 DEF BatchInv, BatchTypeOK
<1>4. /\ FlagUp' /\ OneBatchAtATime'
      /\ pc'[j] = "flagMissing"
      /\ \A k \in Jobs : k # j => JobInv(k)'
  BY <1>1, OthersIdle DEF BatchInv, FlagUp
<1>5. todo'[j] = missing
  BY <1>1 DEF BatchInv, BatchTypeOK
<1>6. JobInv(j)'
  BY <1>1, <1>4, <1>5 DEF BatchInv, JobInv, TodoKnown, RowRead, VisitedReconciled, UpToSnapshot
<1> QED BY <1>2, <1>3, <1>4, <1>6 DEF BatchInv

\* Flagging a row counts as a failed record.
LEMMA FlagPreserves ==
    ASSUME BatchInv, NEW j \in Jobs, flagMissing(j)
    PROVE  BatchInv'
<1>1. PICK b \in todo[j] :
         /\ todo' = [todo EXCEPT ![j] = todo[j] \ {b}]
         /\ balances' = [balances EXCEPT ![b].hasDiscrepancy = TRUE]
  BY DEF flagMissing
<1>2. /\ pc[j] = "flagMissing"
      /\ processed' = [processed EXCEPT ![j] = @ + 1]
      /\ failed' = [failed EXCEPT ![j] = @ + 1]
      /\ UNCHANGED <<requests, hcm, batchRunning, pc, snapshot, row, syncLog, logFails>>
  BY DEF flagMissing
<1>3. /\ b \in BalanceKeys /\ balances[b] # None /\ balances[b] \in Balance
      /\ balances[b].available >= 0
  BY <1>2 DEF BatchInv, BatchTypeOK, LedgerTypeOK, JobInv, TodoKnown, LedgerCore,
              NeverOverdrawn
<1> DEFINE u == [balances[b] EXCEPT !.hasDiscrepancy = TRUE]
<1>4. /\ u \in Balance /\ u.available = balances[b].available
      /\ u.pending = balances[b].pending /\ u.used = balances[b].used
  BY <1>3, FlaggedEffect
<1>5. balances' = [balances EXCEPT ![b] = u]
  BY <1>1
<1> HIDE DEF u
<1>6. /\ LedgerCore'
      /\ \A c \in BalanceKeys : c # b => balances'[c] = balances[c]
      /\ balances'[b] = u
      /\ u # None
  BY <1>2, <1>3, <1>4, <1>5, JobWritePreserves DEF BatchInv
<1>7. BatchTypeOK'
  <2>1. LedgerTypeOK'
    BY <1>6 DEF LedgerCore
  <2>2. processed' \in [Jobs -> Nat] /\ failed' \in [Jobs -> Nat]
    BY <1>2 DEF BatchInv, BatchTypeOK
  <2> QED BY <1>1, <1>2, <2>1, <2>2 DEF BatchInv, BatchTypeOK
<1>8. pc' = [pc EXCEPT ![j] = "flagMissing"]
  BY <1>2 DEF BatchInv, BatchTypeOK
<1>9. /\ FlagUp' /\ OneBatchAtATime'
      /\ pc'[j] = "flagMissing"
      /\ \A k \in Jobs : k # j => JobInv(k)'
  BY <1>2, <1>8, OthersIdle DEF BatchInv, FlagUp
<1>10. JobInv(j)'
  <2>1. todo'[j] = todo[j] \ {b} /\ failed'[j] # 0
    BY <1>1, <1>2 DEF BatchInv, BatchTypeOK
  <2>2. todo[j] \subseteq BalanceKeys
    BY DEF BatchInv, BatchTypeOK
  <2>3. TodoKnown(j)'
    BY <1>2, <1>6, <1>9, <2>1, <2>2 DEF BatchInv, JobInv, TodoKnown
  <2> QED BY <1>9, <2>1, <2>3 DEF JobInv, RowRead, VisitedReconciled
<1> QED BY <1>6, <1>7, <1>9, <1>10 DEF BatchInv

-----------------------------------------------------------------------------
(* What happens beside the jobs. *)

\* Transactions that commit between two steps of a job leave what it
\* remembers in force: rows stay, and so does the HCM total it has written.
LEMMA OthersPreserve ==
    ASSUME BatchInv, Others
    PROVE  BatchInv'
<1>1. UNCHANGED <<hcm, batchRunning, pc, snapshot, todo, row, failed, processed, syncLog, logFails>>
  BY DEF Others, jobVars
<1>2. LedgerCore'
  BY UpsertPreserves, CreatePreserves, DecidePreserves DEF Others, Decide, BatchInv
<1>3. RowsKept
  BY TransactionKeepsRows DEF Others, BatchInv
<1>4. BatchTypeOK'
  BY <1>1, <1>2 DEF BatchInv, BatchTypeOK, LedgerCore
<1>5. FlagUp' /\ OneBatchAtATime'
  BY <1>1 DEF BatchInv, FlagUp, OneBatchAtATime
<1>6. ASSUME NEW j \in Jobs PROVE JobInv(j)'
  <2>1. JobInv(j) /\ todo[j] \subseteq BalanceKeys
    BY DEF BatchInv, BatchTypeOK
  <2>2. TodoKnown(j)'
    BY <1>1, <1>3, <2>1 DEF JobInv, TodoKnown, RowsKept
  <2>3. RowRead(j)'
    BY <1>1, <1>3, <2>1 DEF JobInv, RowRead, RowsKept
  <2>4. VisitedReconciled(j)'
    BY <1>1, <1>3, <2>1 DEF JobInv, VisitedReconciled, UpToSnapshot, RowsKept
  <2> QED BY <2>2, <2>3, <2>4 DEF JobInv
<1> QED BY <1>2, <1>4, <1>5, <1>6 DEF BatchInv

\* The HCM may change at any time: the job works on its snapshot.
LEMMA HcmChangesPreserve ==
    ASSUME BatchInv, HcmChanges
    PROVE  BatchInv'
<1>1. UNCHANGED <<balances, requests, batchRunning, pc, snapshot, todo, row, failed,
                  processed, syncLog, logFails>>
  BY DEF HcmChanges, jobVars
<1>2. LedgerCore' /\ LedgerTypeOK'
  BY <1>1, CoreUnchanged DEF BatchInv, ledgerVars, LedgerCore
<1>3. hcm' \in [BalanceKeys -> Totals \cup {None}]
  BY DEF HcmChanges, BatchInv, BatchTypeOK
<1>4. BatchTypeOK'
  BY <1>1, <1>2, <1>3 DEF BatchInv, BatchTypeOK
<1>5. FlagUp' /\ OneBatchAtATime' /\ \A j \in Jobs : JobInv(j)'
  BY <1>1 DEF BatchInv, FlagUp, OneBatchAtATime, JobInv, TodoKnown, RowRead,
              VisitedReconciled, UpToSnapshot
<1> QED BY <1>2, <1>4, <1>5 DEF BatchInv

\* A restart forgets every job and lowers the flag.
LEMMA CrashPreserves ==
    ASSUME BatchInv, Crash
    PROVE  BatchInv'
<1>1. LedgerCore' /\ LedgerTypeOK'
  BY CoreUnchanged DEF Crash, BatchInv, ledgerVars, LedgerCore
<1>2. BatchTypeOK'
  <2>1. NoSnapshot \in [BalanceKeys -> Totals \cup {None}]
    BY DEF NoSnapshot
  <2>2. NoRow \in [key : BalanceKeys \cup {None}, balance : Balance \cup {None}]
    BY DEF NoRow
  <2> QED BY <1>1, <2>1, <2>2 DEF Crash, BatchInv, BatchTypeOK
<1>3. \A j \in Jobs : pc'[j] = "idle"
  BY DEF Crash
<1> QED
  BY <1>1, <1>2, <1>3
  DEF BatchInv, FlagUp, OneBatchAtATime, JobInv, TodoKnown, RowRead, VisitedReconciled

-----------------------------------------------------------------------------
(* The theorems. *)

\* Every step of a job, of a transaction, of the HCM and every restart
\* preserves the invariant.
LEMMA BatchNextPreserves == BatchInv /\ [Next]_vars => BatchInv'
<1> SUFFICES ASSUME BatchInv, [Next]_vars PROVE BatchInv'
  OBVIOUS
<1>1. CASE UNCHANGED vars
  <2>1. LedgerCore' /\ LedgerTypeOK'
    BY <1>1, CoreUnchanged DEF BatchInv, vars, ledgerVars, LedgerCore
  <2>2. BatchTypeOK'
    BY <1>1, <2>1 DEF vars, jobVars, BatchInv, BatchTypeOK
  <2>3. FlagUp' /\ OneBatchAtATime' /\ \A j \in Jobs : JobInv(j)'
    BY <1>1 DEF vars, jobVars, BatchInv, FlagUp, OneBatchAtATime, JobInv, TodoKnown,
                RowRead, VisitedReconciled, UpToSnapshot
  <2> QED BY <2>1, <2>2, <2>3 DEF BatchInv
<1>2. ASSUME NEW j \in Jobs, runBatchSync(j) \/ Step(j) PROVE BatchInv'
  BY <1>2, ControlPreserves, LeavePreserves, FetchPreserves, ReadPreserves, WritePreserves,
     FindLocalsPreserves, FlagPreserves DEF Step
<1> QED
  BY <1>1, <1>2, OthersPreserve, HcmChangesPreserve, CrashPreserves DEF Next

\* The inductive invariant holds throughout, with the tables empty at first.
THEOREM BatchInvariant == Spec => []BatchInv
<1>1. Init => BatchInv
  <2> SUFFICES ASSUME Init PROVE BatchInv
    OBVIOUS
  <2>1. LedgerCore /\ LedgerTypeOK
    BY InitEstablishes DEF Init, LedgerInv, LedgerCore
  <2>2. BatchTypeOK
    <3>1. NoSnapshot \in [BalanceKeys -> Totals \cup {None}]
      BY DEF NoSnapshot
    <3>2. NoRow \in [key : BalanceKeys \cup {None}, balance : Balance \cup {None}]
      BY DEF NoRow
    <3>3. 0 \in 0 .. MaxLogFails
      BY BatchAssumption
    <3>4. /\ snapshot \in [Jobs -> [BalanceKeys -> Totals \cup {None}]]
          /\ row \in [Jobs -> [key : BalanceKeys \cup {None}, balance : Balance \cup {None}]]
      BY <3>1, <3>2 DEF Init
    <3> QED BY <2>1, <3>3, <3>4 DEF Init, BatchTypeOK
  <2>3. \A j \in Jobs : pc[j] = "idle"
    BY DEF Init
  <2> QED
    BY <2>1, <2>2, <2>3
    DEF BatchInv, FlagUp, OneBatchAtATime, JobInv, TodoKnown, RowRead, VisitedReconciled
<1> QED BY <1>1, BatchNextPreserves, PTL DEF Spec

\* Type correctness of the job state: in particular the snapshot and the row a
\* job has kept from an earlier step are always well formed.
THEOREM BatchTypeCorrect == Spec => []BatchTypeOK
<1>1. BatchInv => BatchTypeOK
  BY DEF BatchInv
<1> QED BY <1>1, BatchInvariant, PTL

\* The flag _batchRunning excludes: the nightly cron and manual triggers never
\* reconcile at once, however many of them there are and wherever they fail.
THEOREM OneBatchAtATimeHolds == Spec => []OneBatchAtATime
<1>1. BatchInv => OneBatchAtATime
  BY DEF BatchInv
<1> QED BY <1>1, BatchInvariant, PTL

\* The stale write of the reconciliation overdraws no balance.
THEOREM BatchNeverOverdraws == Spec => []NeverOverdrawn
<1>1. BatchInv => NeverOverdrawn
  BY DEF BatchInv, LedgerCore
<1> QED BY <1>1, BatchInvariant, PTL

\* The reconciliation writes only the columns it means to: pending and used
\* still count the days of the requests, although requests are made and decided
\* between its read and its write.
THEOREM BatchKeepsCounters == Spec => []CountersMatchRequests
<1>1. BatchInv => CountersMatchRequests
  BY DEF BatchInv, LedgerCore
<1> QED BY <1>1, BatchInvariant, PTL

\* A reconciliation under way never makes a PENDING request undecidable.
THEOREM BatchLeavesPendingSettleable == Spec => []PendingCanBeSettled
<1>1. BatchInv => PendingCanBeSettled
  BY CoreSettles DEF BatchInv
<1> QED BY <1>1, BatchInvariant, PTL

\* A batch logged as COMPLETED has brought every balance of its snapshot up to
\* it.
THEOREM CompletedMeansReconciledHolds == Spec => CompletedMeansReconciled
<1>1. BatchInv /\ [Next]_vars => [ClosesTruthfully]_vars
  <2> SUFFICES ASSUME BatchInv, Next, NEW j \in Jobs, syncLog' = "COMPLETED",
                      syncLog # "COMPLETED", pc[j] # pc'[j],
                      NEW b \in BalanceKeys, snapshot[j][b] # None
               PROVE  balances[b] # None /\ balances[b].hcmTotal = snapshot[j][b]
    BY DEF ClosesTruthfully
  <2>1. PICK k \in Jobs : runBatchSync(k) \/ Step(k)
    BY DEF Next, Others, HcmChanges, Crash
  <2>2. closeLog(k)
    BY <2>1 DEF Step, runBatchSync, openLog, openLogFails, getBatchBalances, reconcileRead,
                reconcileWrite, reconcileDone, findLocals, flagMissing, flagDone,
                databaseFails, failLog
  <2>3. j = k
    BY <2>2 DEF closeLog, leave, forgetLocals, goto, BatchInv, BatchTypeOK
  <2>4. pc[j] = "closeLog" /\ failed[j] = 0
    BY <2>2, <2>3 DEF closeLog, finalStatus
  <2> QED BY <2>4 DEF BatchInv, JobInv, VisitedReconciled, UpToSnapshot
<1> QED BY <1>1, BatchInvariant, PTL DEF Spec, CompletedMeansReconciled

\* The reconciliation, its failures and restarts touch no request.
THEOREM BatchKeepsSettled == Spec => SettledStaysSettled
<1>1. BatchInv /\ [Next]_vars => [KeepsSettled]_ledgerVars
  <2> SUFFICES ASSUME BatchInv, [Next]_vars, ~ UNCHANGED ledgerVars PROVE KeepsSettled
    OBVIOUS
  <2>1. CASE Others
    <3>1. LedgerNext
      BY <2>1 DEF Others, LedgerNext, Administer
    <3> QED BY <3>1, TransactionKeepsSettled DEF BatchInv, LedgerCore
  <2>2. CASE UNCHANGED requests
    BY <2>2 DEF KeepsSettled
  <2>3. ASSUME ~ Others PROVE UNCHANGED requests
    BY <2>3 DEF Next, vars, HcmChanges, Crash, runBatchSync, Step, openLog, openLogFails,
                getBatchBalances, reconcileRead, reconcileWrite, reconcileDone, findLocals,
                flagMissing, flagDone, closeLog, databaseFails, failLog
  <2> QED BY <2>1, <2>2, <2>3
<1> QED BY <1>1, BatchInvariant, PTL DEF Spec, SettledStaysSettled

-----------------------------------------------------------------------------
\* What BatchEnds rests on, as far as it is a matter of safety: a flag that is
\* up is that of a batch under way, which has still to lower it.
FlagHasOwner == batchRunning => logFails > 0 \/ \E j \in Jobs : pc[j] # "idle"

\* Whatever a job does next, it stays under way, lowers the flag, or has failed
\* to insert its log.
LEMMA FlagOwnerPreserved == BatchTypeOK /\ FlagHasOwner /\ [Next]_vars => FlagHasOwner'
<1> SUFFICES ASSUME BatchTypeOK, FlagHasOwner, [Next]_vars PROVE FlagHasOwner'
  OBVIOUS
<1>0. logFails \in Nat /\ pc = [j \in Jobs |-> pc[j]]
  BY BatchAssumption DEF BatchTypeOK
<1>1. ASSUME NEW j \in Jobs, NEW label, label # "idle", goto(j, label), logFails' = logFails
      PROVE  FlagHasOwner'
  <2>1. pc'[j] = label
    BY <1>0, <1>1 DEF goto
  <2> QED
    BY <1>1, <2>1 DEF FlagHasOwner
<1>2. ASSUME NEW j \in Jobs, runBatchSync(j) \/ Step(j) PROVE FlagHasOwner'
  <2>1. CASE runBatchSync(j)
    BY <1>1, <2>1 DEF runBatchSync
  <2>2. CASE openLog(j)
    BY <1>1, <2>2 DEF openLog
  <2>3. CASE openLogFails(j)
    BY <1>0, <2>3 DEF openLogFails, FlagHasOwner
  <2>4. CASE getBatchBalances(j)
    BY <1>1, <2>4 DEF getBatchBalances
  <2>5. CASE reconcileRead(j)
    BY <1>1, <2>5 DEF reconcileRead
  <2>6. CASE reconcileWrite(j)
    BY <1>1, <2>6 DEF reconcileWrite
  <2>7. CASE reconcileDone(j)
    BY <1>1, <2>7 DEF reconcileDone
  <2>8. CASE findLocals(j)
    BY <1>1, <2>8 DEF findLocals
  <2>9. CASE flagMissing(j)
    BY <2>9 DEF flagMissing, FlagHasOwner
  <2>10. CASE flagDone(j)
    BY <1>1, <2>10 DEF flagDone
  <2>11. CASE closeLog(j) \/ failLog(j)
    BY <2>11 DEF closeLog, failLog, leave, FlagHasOwner
  <2>12. CASE databaseFails(j)
    BY <1>1, <2>12 DEF databaseFails
  <2> QED
    BY <1>2, <2>1, <2>2, <2>3, <2>4, <2>5, <2>6, <2>7, <2>8, <2>9, <2>10, <2>11, <2>12
    DEF Step
<1>3. CASE Others \/ HcmChanges \/ UNCHANGED vars
  BY <1>3 DEF Others, HcmChanges, vars, jobVars, FlagHasOwner
<1>4. CASE Crash
  BY <1>4 DEF Crash, FlagHasOwner
<1> QED
  BY <1>2, <1>3, <1>4 DEF Next

\* The finally block of runBatchSync is on every way out of a batch but one: a
\* flag that is up without a batch under way, so that all later batches are
\* skipped, comes only from a failed insert into sync_logs, which stands before
\* the try block.
THEOREM FlagHasOwnerHolds == Spec => []FlagHasOwner
<1>1. Init => FlagHasOwner
  BY DEF Init, FlagHasOwner
<1> QED BY <1>1, FlagOwnerPreserved, BatchTypeCorrect, PTL DEF Spec

=============================================================================
