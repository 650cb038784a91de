------------------------------ MODULE Upstream ------------------------------
(***************************************************************************)
(* The upstream balance, as the mock HCM (mock-hcm/src/server.js) keeps    *)
(* it, composed with the ledger and its reconciliation: an approval that   *)
(* is announced lowers the total the next batch compares with.             *)
(*                                                                         *)
(* hcm, of BatchSync, is totalBalance; hcmAvailable is availableBalance.   *)
(* Announcements are applied once (their delivery is HcmSync), versions    *)
(* are left out, and the HCM's failures are those of BatchSync's fetch.    *)
(***************************************************************************)
EXTENDS BatchSync

CONSTANTS Grants,   \* the days an anniversary may bring, or a stranger take
          MaxTotal  \* bound: what the HCM's grants may add up to

VARIABLES
    hcmAvailable,  \* availableBalance of the HCM's record, None without one
    announced,     \* the requests whose approval the HCM has been told of
    entitled,      \* history: the days the HCM has granted, less those that
                   \* were taken through the HCM and not through the service
    entitledSeen   \* history: entitled when a job fetched its snapshot

upstreamVars == <<hcmAvailable, announced, entitled, entitledSeen>>

UpstreamInit ==
    /\ Init
    /\ hcmAvailable = hcm
    /\ announced = {}
    /\ entitled = hcm
    /\ entitledSeen = [j \in Jobs |-> NoSnapshot]

-----------------------------------------------------------------------------
\* ensureBalanceRecord: a record of no days is made where there is none.
ensureBalanceRecord(x) == IF x = None THEN 0 ELSE x

\* The HCM's record of b after delta days were added to it.
moved(b, delta) ==
    /\ hcm' = [hcm EXCEPT ![b] = ensureBalanceRecord(@) + delta]
    /\ hcmAvailable' = [hcmAvailable EXCEPT ![b] = ensureBalanceRecord(@) + delta]

Suffices(b, n) == ensureBalanceRecord(hcmAvailable[b]) >= n

\* PUT /hcm/balance with APPROVE, for an approved request.  With too few days
\* available it answers 422, having made the record if there was none.
putBalance(id) ==
    LET b == balanceKey(requests[id].dto)
        n == daysRequested(requests[id].dto)
    IN  /\ requests[id] # None
        /\ requests[id].status = "APPROVED"
        /\ id \notin announced
        /\ \/ /\ Suffices(b, n)
              /\ moved(b, -n)
              /\ announced' = announced \cup {id}
           \/ /\ ~ Suffices(b, n)
              /\ moved(b, 0)
              /\ UNCHANGED announced
        /\ UNCHANGED <<entitled, entitledSeen>>

\* POST /hcm/time-off: days taken past the service, refused in the same way.
postTimeOff(b, n) ==
    LET taken == IF Suffices(b, n) THEN n ELSE 0 IN
    /\ moved(b, -taken)
    /\ entitled' = [entitled EXCEPT ![b] = ensureBalanceRecord(@) - taken]
    /\ UNCHANGED <<announced, entitledSeen>>

\* x with n days more where the HCM has a record that matches.
grown(x, matching, n) ==
    [b \in BalanceKeys |-> IF b \in matching /\ hcm[b] # None THEN x[b] + n ELSE x[b]]

\* POST /admin/anniversary-refresh; the filter may match any of the records.
anniversaryRefresh(matching, grant) ==
    /\ \A b \in matching : ensureBalanceRecord(entitled[b]) + grant <= MaxTotal
    /\ hcm' = grown(hcm, matching, grant)
    /\ hcmAvailable' = grown(hcmAvailable, matching, grant)
    /\ entitled' = grown(entitled, matching, grant)
    /\ UNCHANGED <<announced, entitledSeen>>

\* POST /admin/inject
inject(b, total, available) ==
    /\ hcm' = [hcm EXCEPT ![b] = total]
    /\ hcmAvailable' = [hcmAvailable EXCEPT ![b] = available]
    /\ entitled' = [entitled EXCEPT ![b] = total]
    /\ UNCHANGED <<announced, entitledSeen>>

\* POST /admin/year-refresh
yearRefresh(total) ==
    LET refreshed == [b \in BalanceKeys |-> IF hcm[b] = None THEN None ELSE total]
    IN  /\ hcm' = refreshed
        /\ hcmAvailable' = refreshed
        /\ entitled' = refreshed
        /\ UNCHANGED <<announced, entitledSeen>>

HcmServes ==
    /\ \/ \E id \in RequestIds : putBalance(id)
       \/ \E b \in BalanceKeys, n \in Grants : postTimeOff(b, n)
       \/ \E matching \in SUBSET BalanceKeys, n \in Grants :
             anniversaryRefresh(matching, n)
       \/ \E b \in BalanceKeys, total, available \in Totals :
             inject(b, total, available)
       \/ \E total \in Totals : yearRefresh(total)
    /\ UNCHANGED <<balances, requests, batchRunning, jobVars, syncLog, logFails>>

-----------------------------------------------------------------------------
\* A job of BatchSync; its fetch notes what the HCM has granted by then.
JobStep(j) ==
    /\ runBatchSync(j) \/ Step(j)
    /\ entitledSeen' = IF snapshot'[j] # snapshot[j] /\ snapshot'[j] # NoSnapshot
                       THEN [entitledSeen EXCEPT ![j] = entitled]
                       ELSE entitledSeen
    /\ UNCHANGED <<hcmAvailable, announced, entitled>>

\* The ledger's transactions.  Rows are seeded with the HCM's own total.
Books ==
    /\ \/ \E b \in BalanceKeys : hcm[b] # None /\ upsertBalance(b, hcm[b])
       \/ \E id \in RequestIds, dto \in Dto : createTransaction(id, dto)
       \/ Decide
    /\ UNCHANGED <<hcm, batchRunning, jobVars, syncLog, logFails, upstreamVars>>

UpstreamNext ==
    \/ \E j \in Jobs : JobStep(j)
    \/ Books
    \/ HcmServes
    \/ Crash /\ UNCHANGED upstreamVars

UpstreamSpec == UpstreamInit /\ [][UpstreamNext]_<<vars, upstreamVars>>

-----------------------------------------------------------------------------
\* An accrual upstream reaches the ledger: once a batch has written a row that
\* nobody touched meanwhile, the row's days, used ones included, are at least
\* what the HCM had granted when the batch asked.  README.md:144, "Upstream
\* added 2 days", "increments `available` and `total` by 2".
AccrualReachesLedger ==
    \A j \in Jobs :
        LET b   == row[j].key
            old == row[j].balance
        IN  (pc[j] = "write" /\ old # None /\ balances[b] = old)
            => localTotal(reconciled(old, old, snapshot[j][b])) >= entitledSeen[j][b]

=============================================================================
