# LeaveLedger in TLA+

LeaveLedger is a NestJS service that books time off for employees. It keeps
their balances in its own database and keeps them in step with an external HR
system, the HCM. This directory holds TLA+ models of its core, the TLC runs that
check them, and proofs checked by TLAPS. Source paths below are relative to the
repository; line numbers are in `PROJECT.json`.

## 1. The system

| Component | State it keeps | Operations that change state | Model |
|---|---|---|---|
| Balance ledger: `src/modules/balance/` | table `employee_balances`: total, available, pending, used, the HCM's total, a discrepancy flag | `upsertBalance`, `atomicDeduct`, `releaseFromPending`, `finalizeUsed`, `applyHcmRealTimeUpdate` | `BalanceService`, `LeaveLedger` |
| Request lifecycle: `src/modules/timeoff/` | tables `time_off_requests`, `idempotency_records`; in memory `_createLocks` | `createRequest`, `approveRequest`, `rejectRequest`, `cancelRequest` | `LeaveLedger` (transactions), `TimeOffService` (handlers) |
| Dates: `src/common/utils/date.util.js` | none | pure | `DateUtil` |
| Batch reconciliation: `runBatchSync` of `hcm-sync.service.js` | table `sync_logs`; in memory `_batchRunning` | nightly job or manual trigger | `BatchSync` |
| HCM notification: `_notifyHcmAsync`, `_notifyApprovalToHcmAsync`, `retryPendingHcmSyncs` | columns `hcmSyncStatus`, `hcmValidated`, `hcmSyncAttempts` of a request | fire-and-forget tasks, a cron job | `HcmSync` |
| HCM client: `hcm.service.js`, `circuit-breaker.util.js`, `retry.util.js` | breaker state, failure count, time of opening | every HCM call | `HcmClient` |
| Upstream balance: `mock-hcm/src/server.js` | total and available of each balance | announced approvals, time off taken elsewhere, grants, resets | `Upstream` |
| Lock manager: `lock.util.js` | leases per resource | `acquireLock`, `releaseLock`, `withLock`, `isLocked`, `reset` | `LockManager` |
| Deduplicator, idempotency manager: `request-deduplication.util.js`, `idempotency.util.js` | cached promises; entries with a state and an expiry | `execute`, `clear`; `begin`, `complete`, `remove` | `RequestDeduplicator`, `IdempotencyManager` |
| Rate limiters: `token-bucket-limiter.util.js`, `rate-limiter.util.js` | tokens; timestamps per client | `tryConsume`; `check`, `reset`, `clear` | `TokenBucketLimiter`, `RateLimiter` |
| Priority queue: `priority-queue.util.js` | a binary heap | `enqueue`, `dequeue`, `drain`, `removeWhere` | `PriorityQueue`, `OrderedQueue` |
| Dead-letter queue: `dead-letter-queue.util.js` | quarantined messages | `enqueue`, `redrive`, `redriveEligible`, `delete`, `clear` | `DeadLetterQueue` |
| Event bus: `event-bus.util.js` | listeners, once-wrappers, history | `subscribe`, `subscribeOnce`, `unsubscribe`, `publish`, `clear` | `EventBus` |
| HTTP layer, health, hashing, metrics, audit log, RBAC, second circuit breaker | none, or counters | | not modelled |

How they interact. A controller calls `TimeOffService`; its `createRequest`
checks the idempotency key, queues behind the other creates of the same employee
and location (a *lane*), checks again, and runs one transaction that checks
overlaps, moves days from available to pending, and inserts the request and the
idempotency record. Approving, rejecting and cancelling are one transaction
each. Creating and approving then start background tasks that call the HCM
through `HcmService` and write the sync columns; the cron job
`retryPendingHcmSyncs` does so again for rows still `PENDING`. `runBatchSync`
fetches all totals of the HCM and writes them into the balances, outside any
transaction. All HCM calls share one circuit breaker. An approval the HCM
accepts lowers the total that the next batch compares with. The utilities from
the lock manager down are exported and tested, but no part of the application
calls them yet; they share no state with it or with each other.

What is hard here:

- handlers, background tasks and jobs interleave at every `await`, and several
  of them write values computed from a row they read earlier;
- clients retry, with the answer to the first call lost or still to come;
- the process dies between a commit and an answer, or before a commit;
- a transaction, an `UPDATE` or an HCM call fails and the error path has to
  leave locks, flags and sync states usable;
- answers of the HCM arrive after the breaker has changed its state;
- lock holders, deduplicated tasks, idempotent processors and redrives outlive
  the time they were given and act on the entry of their successor.

What makes each part correct: the ledger keeps `available + pending + used =
total`, is never overdrawn and agrees with its requests; creation is exclusive
per lane, answers every call and makes one request per key; the batch runs
alone, ends, and reports truthfully; a request's synchronisation is settled in
the end and tells the HCM of approvals only; the breaker trips at its threshold,
is judged by probes, and closes after an outage; an accrual upstream reaches the
ledger; a lock has one live holder, a key one task and one processor; limiters
bound a burst and do not starve a client; the heap is an ordered queue; dead
letters are settled after a bounded number of deliveries. `PROJECT.json` lists the
hazards with the properties that cover them.

## 2. The modules

```
DateUtil   BalanceService
      \      /
     LeaveLedger  (implements Entitlement, abstract)
      /       \
TimeOffService  BatchSync       HcmSync       HcmClient
(implements       |
 Entitlement)  Upstream

                                                 Loops
                                                /     \
LockManager  RequestDeduplicator       RateLimiter   PriorityQueue (implements
IdempotencyManager  TokenBucketLimiter                 OrderedQueue, abstract)
DeadLetterQueue     EventBus
      \            |            /
        MCToolkit (with HcmClient)
```

`MCx.tla` instantiates module `x` for TLC: symmetry and payload sets. `x_proofs`
holds the theorems about `x`; `Toolkit_proofs` those about the six utilities
without a proof module of their own and about the composition `MCToolkit`. The refinement mappings stand at the end of the
modules that implement an abstract one. Operators under a comment "Mutant:" are wrong variants of
the definition after them; no specification uses them. Substituting one for the
definition must break the property that `PROJECT.json` pairs it with.

**DateUtil, BalanceService.** Operators only. A date is a day number. Each
balance operation is a function from row to row, with the condition under which
the code throws as a separate operator (`CanDeduct`, `CanTakePending`). Amounts
are whole days, since requests always are, so the tolerances of 0.001 and 0.01
on drifts become zero. Columns nobody reads back (`hcmLastSync`, `hcmVersion`,
row versions, notes) are left out.

**LeaveLedger.** State: the two tables. One action is one *committed*
transaction: `upsertBalance`, `realTimeUpdate` (`applyHcmRealTimeUpdate`, an
operation of `BalanceService` that no endpoint calls at present),
`createTransaction`, `approveRequest`, `rejectRequest`, `cancelRequest`. A
transaction that throws is rolled back and is no step. That transactions are
atomic and serializable is assumed: it is what the code asks of the database
(`dataSource.transaction('SERIALIZABLE', ...)`). Seeded totals are taken to be
natural numbers; the seed endpoint does not validate them.

**Entitlement.** What the service promises, without counters: named bookings
within an entitlement, no day twice in a lane, each decided once. It is
implemented by `LeaveLedger` with request ids as names, and by `TimeOffService`
with *idempotency keys* as names.

**TimeOffService.** Extends `LeaveLedger` with the handlers of `createRequest`.
A step is the code between two awaits: `createRequest` (validation up to the
first await), `checkIdempotency`, `checkLocked` (the check repeated in the
lane), the four ends of a transaction (`transactionRefused`,
`transactionConstraint`, `transactionCommits`, `transactionTransient`),
`respond`, `recover` and `findExisting` (the two reads of
`_recoverAfterConstraint`), `databaseFails`. The promise chain of
`_withCreateLock` is the pair `createLocks` (the last handler of a lane) and
`previous` (whose gate a handler awaits). `Crash` clears handlers and lanes and
keeps the tables. `Others` are the transactions of the other endpoints. A
payload's SHA-256 hash is the payload itself, that is, collisions are ignored.
The time to live of idempotency records is a constant, `TTL`, as it is
configurable in the code.

**BatchSync.** Extends `LeaveLedger` with invocations of `runBatchSync`. The
read of a row (`reconcileRead`) and its write (`reconcileWrite`) are separate
steps, between which transactions commit; the write sets the columns the code's
`update` names, from the row read. The HCM's totals are external and change at
will.

**Upstream.** Extends `BatchSync` with the HCM's record as the mock keeps it.
`putBalance` is the announcement of an approval, `postTimeOff` time off taken
past the service, `anniversaryRefresh`, `inject` and `yearRefresh` the admin
endpoints. The first two make a missing record before they refuse, as
`ensureBalanceRecord` does. `entitled` is a history variable: what the HCM has
granted, less what was taken past the service.

**HcmSync.** The sync columns of requests and the three kinds of task that write
them, each from the copy of the row it began with. An HCM call with its retries
is one step with every outcome: unavailable, refused, accepted; for
`notifyApproval` also applied with the answer lost. The approval task starts
inside the transaction of `approveRequest`, before its `COMMIT`, as
`setImmediate` is called there; `commit` and `commitFailed` are therefore steps
of their own. An `UPDATE` waits while a transaction holds the row. A retry pass
reads the pending rows with the fewest attempts, `take` of them at most (50 in the
code) and in any order among equals, as creation times are left out. A pass that
finds the budget of a row used up writes its status and leaves its attempts alone.
Not modelled: a second approval task of one request while the first is under way.

**HcmClient.** The breaker, with each call's attempts admitted at one moment and
judged at a later one; an attempt may be answered with a 4xx at any time. `age` and `remaining` are the clocks of `_withTimeout` and
of the cooldown. The failure count saturates at the threshold, above which every
count acts alike. `probe` and `outages` are history variables: they constrain no
step.

**The utilities.** Each module has the in-memory maps of its class as state and
one action per method; time is a number of ticks left, counted down by a tick
action of its own, so that nothing grows without bound.

- `LockManager`: `lease` is a history variable, what `acquireLock` promised and
  has not yet run out or been reset. A worker may stay in its `withLock` body
  beyond it.
- `RequestDeduplicator`: a task may outlive its cache entry; `overran` is the
  history of the keys where one has.
- `IdempotencyManager`: `begin` is `beginNew` and `beginKnown`, both after
  `_cleanup`; `kept` and `outlived` are history.
- `TokenBucketLimiter`: amounts in units refilled one per tick. `watched` and
  `spent` are an observer who may start to watch at any time.
- `RateLimiter`: a timestamp is the time until it leaves the window.
- `PriorityQueue`: the heap as a sequence. `out` is what the last operation
  handed out or, on overflow, let go: without it a wrongly dropped entry would look
  like any other that was offered.
- `Loops`: the loops of the last two. `Rounds` lists the states of a loop after
  each of its rounds, as a recursive function; `siftUp`, `siftDown` and
  `buildHeap` are the state after enough rounds, with `rise` and `sink` for one
  round of the first two. A round in which the code would `break` changes nothing,
  so further rounds do no harm. `filtered` is `Array.prototype.filter`.
- `DeadLetterQueue`: the await of the processor splits `redrive` into its start
  and `processed` or `processingFails`. A pass fixes its `now` when it begins;
  after that letters can only cease to be due for it, which `due` records.
  Attempts saturate at `maxRetries`. `tries` and `contended` are history: how often
  a letter has been redriven, and the letters that two had in hand at once.
- `EventBus`: a listener is a handler or a wrapper of `subscribeOnce`; replays
  wait in a queue until their `setImmediate` callback runs. A cleared buffer
  stays with the callbacks that refer to it. A handler that throws ends the loop of
  `publish`, so any nonempty part of the listeners may be called; one that throws in
  a replay ends the process, which is left out.

## 3. The runs

| Run | Instance | Shows |
|---|---|---|
| `ledger` | 3 requests, 2 leave types, 3 days, totals 1 and 3 | counters, requests and calendar stay consistent, settled requests stay settled, only requests take days, and the ledger implements `Entitlement` |
| `lane` | 3 handlers, 1 lane, 1 key, 3 payloads; fair | one handler per lane; a duplicate gets the original and is never refused because of it; every call is answered |
| `keys` | 2 handlers, 2 lanes, 2 keys, 2 requests, midnight and expiry | a key makes one request at most and agrees with its record; the service implements `Entitlement` by key |
| `batch` | 2 jobs, 2 requests, 2 days, totals 1 and 2, one failing log insert; fair | one batch at a time; what survives the batch's stale writes: nothing is overdrawn and counters match requests; a `COMPLETED` log is true; a batch ends and lowers the flag unless its log insert failed |
| `sync` | 1 request, 2 overlapping retry passes, 1 fault; fair | the HCM is told of approvals only (while no COMMIT is lost), the retry budget holds, a pending sync is settled |
| `toolkit` | see below; fair | the HCM client: trips at the threshold, only probes judge the half-open state, every request ends, the breaker closes after an outage; and the properties of the utilities, one or two each |
| `expired_key`, `batch_over_allocates`, `accrual_lost`, `sync_phantom`, `sync_forgotten`, `breaker_client_errors` | the smallest that show it | violations, see section 5 |

Why the bounds are enough. *Ledger:* a conflict of two requests and a bystander
need three requests; three days give ranges that are equal, nested, touching and
apart; totals 1 and 3 give a balance that is exhausted, exceeded by one, and
raised. Lanes do not share rows, so one is enough, except where handlers of two
lanes meet in one key. *Handlers:* the lane's map goes wrong at the earliest with
a third handler, which finds the entry that the first deleted while the second
was inside; the race on a key takes two. `MaxAttempts` is 2 in `lane`, where the
retry loop matters, and 1 in `keys` (3 in the code): the loop has a first, a
further and a last attempt. *Batch:* at most one batch runs, so a second job is
there to be excluded. Two requests and totals 1 and 2 on two days let a booking or a release fall between a batch's read and its
write and the day be booked again. With one balance a batch ends `COMPLETED` or
`FAILED`; `PARTIAL`, which needs a second one, differs from `FAILED` in name
only. *Sync:* requests share
nothing but the places of a pass, so one is enough for what happens to a request;
that a full pass leaves requests for the next one is in the model and in the proofs,
which hold for any number of requests and every `take`, but not in this instance,
and starvation by requests that never cease to arrive is in neither. Two passes
overlap; a maximum of one retry still
lets a stale pass write a smaller attempt count back over a larger one; a single
fault of each kind reaches every error path. *Toolkit:*
the components share no state, so a behaviour of `MCToolkit` picks one (`focus`)
and runs it alone: their states add up and do not multiply. Two callers are an
attempt from before the outage and a probe, or two probes that disagree; the two
safety properties of the breaker are proved for any number. Three workers are a
late holder, its successor and one more that the late release would let in;
three tasks likewise. Two processors and two payloads let a late `complete` meet
the entry of another payload. A bucket of 4 and costs of 2 and 3 leave remainders.
A heap of 5 has three levels and a last parent with one child or two; six
entries overflow it. Three messages in a queue of two are evicted; the two
sweepers overlap, and one of them also redrives by hand. A history of two events and two wrappers of one handler are
enough for a replay and an event to race and for the first wrapper to stand for the
second. *Accrual:* one request of one day, a grant of one.

Symmetry is used only in runs without liveness properties and permutes sets
whose members the specification treats alike. Deadlock checking is off where a
bounded instance may come to rest: all requests used up and settled.

Fairness. `TimeOffService`, `BatchSync` and `HcmSync` assume weak fairness of a
handler's, job's or task's next step: Node runs every continuation that is
ready, database calls return or throw, and HCM calls have a timeout. `HcmSync`
also assumes that the cron job goes on firing, and `HcmClient` that it keeps
calling the HCM and that time passes. `RateLimiter` assumes that time passes and
that the client goes on asking, which is the premise of `KeepsAdmitting`;
`DeadLetterQueue` that time passes, passes are started again and again and
processors settle. `ToolkitSpec` states the same fairness for the component that
runs. Nothing else is assumed of clients, approvers or the HCM; that the HCM stays
healthy and that 4xx answers cease, which the breaker counts like outages, is the
premise of `ClosesAfterOutage` itself.

## 4. The proofs

TLC checks the instances above; TLAPS proves the following for every value of
the constants that meets the named assumptions: any number of requests, lanes,
handlers, jobs, tasks, callers and so on. No theorem rests on anything unproved
but those assumptions, which TLC evaluates in the runs. They are of two kinds:
limits and times are positive numbers, and the value that stands for "absent" is
not one of the values that may be present. Where more is assumed it is said
below.

**LeaveLedger_proofs** (`LedgerAssumption`). The inductive invariant is

    LedgerCore == LedgerTypeOK /\ RequestsBacked /\ NoDoubleBooking
                  /\ CountersMatchRequests /\ NeverOverdrawn
    LedgerInv  == LedgerCore /\ BalanceInvariant

`NeverOverdrawn` needs only itself and the types. `CountersMatchRequests` says
that pending and used are the *cardinalities* of the sets of days that requests
hold; a new request adds its length to such a set only if it is disjoint from
what is held, so it needs `NoDoubleBooking`, and the length of a range is its
cardinality only if its dates are in order, which is `RequestsBacked`.
`OverlapMeansSharedDay` ties `datesOverlap` to sets of days, `AddDays` and
`RemoveDays` give the cardinalities, one `...Effect` lemma per balance operation
says what it does to a row, one `...Preserves` lemma per transaction combines
them. Theorems: each conjunct that a run checks, `PendingCanBeSettledHolds` (a
pending request's days are a subset of those counted in pending, so the underflow
errors cannot be raised), the action properties `SettledStaysSettledHolds` and
`OnlyRequestsTakeDaysHolds`, and `LedgerRefinesEntitlement`: under the mapping
that reads a booking off each request and the grant off each balance, the ledger
implements `Entitlement`. That step is where the counters earn their keep: the
code compares a length with `available`, the abstract guard the number of days
held with the grant, and the two agree by `BalanceInvariant` and
`CountersMatchRequests` together.

**TimeOffService_proofs** (`ServiceAssumption`). That the promise chain of
`_withCreateLock` excludes does not follow from the gates alone, since they could
close in a circle. `LaneOrdered` says that the handlers chained in a lane can be
ranked so that `_createLocks` names the last, the one without a gate is the first
and each other waits for the one directly before it. `OneHandlerPerLaneHolds`
follows; so does `LanesOpenHolds`, the part of `EveryCallAnswered` that is not a
matter of fairness: a lane with handlers has one whose gate is open, every gate
that is awaited belongs to a handler that has still to open it, and the entry of
`_createLocks` is there exactly as long as somebody is chained. With exclusion, what a handler found under the lock stays true of its
own lane (`StillMissing`): a live record of its key can have been made only from
another lane. That gives `KeyedOnceHolds` (a key has one request at most, and its
record names it), `AnswerIsOwnRequestHolds` and the action property
`DuplicateNeverRefusedHolds`, for any number of handlers, crashes and expiries.
`ServiceImplementsLedger` shows that each step of a handler is a transaction of
the ledger or none, so that all of the ledger's theorems hold of the service;
`ServiceRefinesEntitlement` that the service implements `Entitlement` with
idempotency keys as the names of bookings, that is, retries included it books
once per key.

**BatchSync_proofs** (`BatchAssumption`). The stale write breaks
`BalanceInvariant` (section 5), which is why `LedgerCore` is stated without it.
What remains is proved: `BatchNeverOverdraws`, `BatchKeepsCounters`,
`BatchLeavesPendingSettleable`, `BatchKeepsSettled`. The row a job has read was
not overdrawn and rows are never deleted (`RowRead`), so whatever it writes is
not negative; it does not write pending and used. `OneBatchAtATimeHolds` needs
that a job that is not idle has the flag up. `CompletedMeansReconciledHolds` needs
`VisitedReconciled`: what the loop has left behind equals the snapshot as long as
no failure was counted, since none of the transactions that commit beside a batch
writes `hcmTotal` of a row that exists (`applyHcmRealTimeUpdate`, which would, has
no caller). `FlagHasOwnerHolds` is the part of `BatchEnds` that is not a matter of
fairness: `_batchRunning` is up only while a job is under way that has still to
lower it, or after an insert into `sync_logs` has failed.

**HcmSync_proofs** (`SyncAssumption`). Tasks act on stale copies, so an invariant
of the rows has to bound what every copy in flight may still write. Two facts
about a row only ever grow (`Grows`): while no fault undoes an approval, a row
that is approved or about to be stays so; and `limit`, the maximum of the retry
passes, plus one once an approval was begun, plus one per approval that a fault
undid. `Sound` bounds the copy and the patch of each task by them, `PassesSound`
the copies of each pass; as they only grow, a copy stays sound however long it is
kept, and each action needs an argument only for what it adds. Theorems:
`OnlyApprovalsToldHolds` and `AttemptsWithinBudgetHolds`, for any number of
overlapping passes, any maximum and any number of faults.
`SuccessAcknowledgedHolds` delimits the finding `sync_forgotten` (section 5): a task
whose copy of the row is approved writes `SUCCESS` only after the HCM has
acknowledged the approval, so what forgets one is always a task with an older copy.

**HcmClient_proofs** (`ClientAssumption`; it says that the timeout is shorter
than the cooldown; the defaults are 10 s and 30 s). The inductive invariant
`ClientInv` adds `AgesWithCooldown` to the two properties: while the breaker is
open, `age + remaining >= cooldown` for every attempt in flight, so when the
cooldown is over such an attempt would be older than its timeout. That is why
`OnlyProbesInHalfOpen` holds, and it fails without the assumption: with a timeout
as long as the cooldown a stray answer from before the outage may close or reopen
the breaker. `ClosedBelowThresholdHolds` is the other theorem.

**Toolkit_proofs**, each from the assumption of its own module. An invariant ties
what a caller believes it owns to the entry kept for it.
`OneLiveHolderHolds`: while a lease runs, the lock's entry has its token and its
time (`LeaseBacked`). `OneTaskPerKeyHolds`: a task within its time is the one its
entry was made for (`EntryOfTask`). `ProcessedOnceHolds`: for keys nobody has
outlived, at most one processor has the handle, and a promised response is still
there (`KeyTracked`). `BurstBoundHolds`: what was spent and what is left never
exceed the capacity and the time watched (`BudgetHolds`). `NeverPublishedTwiceHolds`:
a wrapper that has been called, by `publish` or by a replay, is on no channel any more
and is never put on one again (`OnceTracked`). `WindowNeverOverfull`: a client has at
most `maxRequests` requests in its window; it rests on what `filtered` returns, for
which see `PriorityQueue_proofs`. `OldestFirstHolds`: the window stays sorted under
filtering, appending and the passing of time, so `timestamps[0]`, from which
`check` computes `resetTimeMs`, is the next to leave it.

The composition `MCToolkit` is what the run `toolkit` checks. Its components share
no variable, so each of its steps is a step or a stutter of every component
(`EachTakesAStep`), and `ToolkitInv`, the conjunction of their inductive invariants,
is inductive. Hence `ToolkitTypeCorrect` (types and capacities of all of them),
`ToolkitSafe` (the seven other invariants of the run at once),
`ToolkitNeverPublishesTwice` (its action property) and `ToolkitQueueRefines` (the
refinement below, of the composition).

**DeadLetterQueue_proofs** (`DlqAssumption`). A letter is handed out before its
failure is counted, so deliveries run ahead of attempts. `Accounted` says by how
much: by the one under way, of a letter that no two have had in hand at once, and it
stays below `maxRetries` since the next retry needs a letter that is not poison. It
needs that what is due to a pass is not poison, however old the pass (`DueSound`), and
that ids are distinct, as keys of a Map are. `DeliveredWithinRetriesHolds` follows, for
any number of sweepers and operators; redrives by hand count as deliveries unless the
letter is poison already.

**PriorityQueue_proofs** (`QueueAssumption`: priorities are integers, the heap has
room for one entry). For every capacity, every set of priorities and any sequence
of operations the array stays a heap (`HeapStaysOrdered`), and the heap implements
`OrderedQueue` (`HeapRefinesOrderedQueue`): `dequeue` and `drain` hand entries out by
priority and then by arrival, an overflow lets one of the least urgent entries go,
the new one included, `removeWhere` keeps the rest. The argument:

- Induction. The library's induction theorems take an operator as a parameter,
  which the provers cannot instantiate; `NatSetInduction` and `RoundInduction` state
  induction for a *set* of numbers, from the well-foundedness of the order.
- Loops. `RunExists` and the `...RunUnfolds` lemmas show that the recursive function of
  `Rounds` exists and unfolds, whenever its rounds stay within a set of states. A
  loop's invariant is then a set of rounds.
- Heap order. An array that is in heap order but for one index is repaired upwards
  by `siftUp` and downwards by `siftDown`, since each round moves the one wrong place
  a level and ends when it is right; the index halves or grows, so as many rounds as
  entries suffice. `buildHeap` makes the subtrees heaps from the last parent back.
  Every operation permutes the entries.
- The root precedes all entries, and the last in order is a leaf, which is why
  `_findMaxIndex` may look at the second half of the array only.
- The inductive invariant `QueueInv` adds to the heap order that arrival numbers
  are distinct and below `_seq`. That makes the order strict and total, without
  which "the last" and "in order" would not be unique.

Only model-checked:

- liveness (`EveryCallAnswered`, `BatchEnds`, `PendingSyncSettles`,
  `ClosesAfterOutage`, `EveryCallEnds`, `KeepsAdmitting`, `EveryLetterSettles`):
  fairness is out of the prover's reach. Of the first two the safety part is proved
  (`LanesOpen`, `FlagHasOwner`): nothing is left waiting for somebody who has gone.

Every invariant, action property and refinement that a passing run checks is
stated by a theorem.

## 5. Where code and documents disagree

Each of the first six is a run that TLC answers with a counterexample.

- `batch_over_allocates` - `_reconcileRecord` writes an absolute
  `availableBalance` computed from a row it read before. A booking in between is
  lost from available and its days can be booked again; "no race condition can
  over-allocate leave" (README.md:113). By the same lost update
  `available + pending + used` differs from the total, and a cancellation in
  between costs the employee the days it gave back.
- `accrual_lost` - the batch compares the HCM's total, which announced approvals
  have lowered, with a local total that includes used days. A grant no larger than
  the days used then shows as no drift or a negative one and is not credited,
  where README.md:144 says "increments `available` and `total` by 2". With
  announcements taken out of the model the property holds, so this is the cause.
- `sync_phantom` - the approval is announced before its `COMMIT`. If that fails
  or the process dies first, the HCM has deducted days of a request that is
  still pending.
- `sync_forgotten` - the create task writes `SUCCESS` over whatever the row
  holds; if an approval has just failed to reach the HCM, nobody announces it
  again.
- `expired_key` - the unique key of a request outlives its idempotency record. A
  new payload under that key is answered 201 with the old request, not 409. The
  same answer is possible at once for a key used from two lanes, when the winner
  commits between the two reads of `_recoverAfterConstraint`.
- `breaker_client_errors` - 4xx answers count as failures, so that the breaker opens
  with fewer 5xx answers and timeouts in a row than its threshold, where
  README.md:125 says "5 Consecutive Upstream 5xx / Timeouts".

Seen while modelling, visible in the definitions, without a run: a duplicate
sent after midnight for a request that starts on the day before is refused by the
date check, which precedes the idempotency check (`createRequest`); a failed
insert into `sync_logs` leaves `_batchRunning` set until the process restarts
(`openLogFails`, excepted in `BatchEnds`); retries are outside the breaker, so
that two failing requests of three attempts open it, where hcm.service.js:20
says five (`retryOrGiveUp`).

Of the utilities, likewise:

- `EventBus`: a replay calls the wrapper of `subscribeOnce` for every buffered
  event, where event-bus.util.js:53 says "exactly one invocation";
  `NeverPublishedTwice` is about the calls of `publish` only. The replay also calls a
  listener that has been unsubscribed meanwhile. A handler once given to `subscribeOnce` is
  unsubscribed through its first wrapper for ever after, so its plain
  subscription, or a second wrapper, cannot be removed by reference.
- `RequestDeduplicator`, `IdempotencyManager`: whoever outlives its entry deletes,
  completes or removes the entry of its successor; `OneTaskPerKey` and
  `ProcessedOnce` except those keys until the matter has cleared.
- `DeadLetterQueue`: redrives that overlap deliver a letter more often than
  `maxRetries` ("Maximum delivery attempts before marking as POISON",
  dead-letter-queue.util.js:16), once more for each that has it in hand, since a
  failure is counted only when it is known; `DeliveredWithinRetries` is about letters
  that no two have redriven at once. A late failure brings back a letter that has been delivered, deleted or
  evicted; `redrive` of one message does not look at poison.
- `PriorityQueue`: the constructor's comment (priority-queue.util.js:29) says the
  "Oldest low-priority item is evicted"; the code evicts the newest among equals.
  `OrderedQueue` promises what the comment of `enqueue` (:75) says, that one of the
  highest priority value goes, and leaves open which.
- `RateLimiter`: the entries of clients that stop asking are never removed.

## 6. What is not modelled

Not modelled:

- the HTTP layer, validation decorators, logging, health, hashing, backoff,
  metrics, audit, RBAC and trace helpers: no state, or state nothing reads; and
  the second circuit breaker, unused and with the states of the first;
- reading endpoints;
- delivery of one approval to the HCM more than once: the HCM's handling of a
  repeated `referenceId` is unknown, the mock deducts again;
- the shared SQLite connection. How statements of two transactions interleave on
  it is decided in TypeORM and its driver, which are not in the repository, so that
  the atomicity of transactions stays an assumption;
- the mock's switches for faults, as the calls that meet them have every outcome
  already.

What would extend the development most is a statement of the isolation that the
database gives, in place of the assumption that transactions are atomic, and a
rule for repeated announcements of an approval; both need facts about systems
outside the repository.
