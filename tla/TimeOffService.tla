--------------------------- MODULE TimeOffService ---------------------------
(***************************************************************************)
(* src/modules/timeoff/timeoff.service.js: how POST /time-off/requests     *)
(* reaches the transactions of LeaveLedger.                                *)
(*                                                                         *)
(* A handler is one invocation of createRequest.  Its steps are the pieces *)
(* of code between two awaits, so handlers interleave exactly where Node   *)
(* lets them.  The database tables survive a crash; handlers and the map   *)
(* of lock lanes do not.  A client may send any payload under any key at   *)
(* any time, so that a retry or a duplicate needs no action of its own.    *)
(*                                                                         *)
(* The SHA-256 hash of a payload is the payload, the cached response body  *)
(* is the id it names, and time advances in ticks.                         *)
(***************************************************************************)
EXTENDS LeaveLedger

CONSTANTS
    Handlers,     \* invocations of createRequest that may be under way at once
    Keys,         \* values of X-Idempotency-Key
    Payloads,     \* the payloads clients send
    MaxAttempts,  \* maxAttempts of _runCreateTransactionWithRetry: 3
    TicksPerDay,  \* the clock's resolution
    TTL,          \* IDEMPOTENCY_TTL_MS in ticks: a day unless configured
    MaxNow        \* bound: the last tick of the clock

\* A row of idempotency_records.
Record == [dto : Dto, id : RequestIds, expiresAt : Nat]

ASSUME ServiceAssumption ==
    /\ Payloads \subseteq Dto
    /\ MaxAttempts \in Nat \ {0}
    /\ TicksPerDay \in Nat \ {0}
    /\ {TTL, MaxNow} \subseteq Nat
    /\ None \notin Keys \cup RequestIds \cup Handlers \cup Dto
    /\ None \notin Record

VARIABLES
    reqKey,       \* the idempotencyKey column of time_off_requests
    records,      \* idempotency_records by key
    createLocks,  \* _createLocks: the last handler of each lane's chain
    pc,           \* where each handler is
    call,         \* its arguments
    attempt,      \* its transaction attempts
    previous,     \* the handler whose gate it awaits, or None
    answer,       \* what it answered
    now           \* the clock

tables == <<balances, requests, reqKey, records>>
lockVars == <<createLocks, previous>>
handlerVars == <<pc, call, attempt, answer>>
vars == <<tables, lockVars, handlerVars, now>>

Errors == {"MISSING_IDEMPOTENCY_KEY", "INVALID_DATE_RANGE",
           "IDEMPOTENCY_CONFLICT", "OVERLAPPING_REQUEST", "BALANCE_NOT_FOUND",
           "INSUFFICIENT_BALANCE", "BALANCE_CONFLICT", "INTERNAL_ERROR"}

Call == [key : Keys \cup {None}, dto : Dto \cup {None}]
Answer == [code : Errors \cup {"CREATED", "NONE"}, id : RequestIds \cup {None}]

Created(id) == [code |-> "CREATED", id |-> id]
Error(code) == [code |-> code, id |-> None]

Today == 1 + now \div TicksPerDay

ServiceTypeOK ==
    /\ LedgerTypeOK
    /\ reqKey \in [RequestIds -> Keys \cup {None}]
    /\ records \in [Keys -> Record \cup {None}]
    /\ createLocks \in [Lanes -> Handlers \cup {None}]
    /\ pc \in [Handlers -> {"idle", "check", "queued", "transaction",
                            "committed", "constraint", "transient",
                            "findConstraint", "findTransient"}]
    /\ call \in [Handlers -> Call]
    /\ attempt \in [Handlers -> 0 .. MaxAttempts]
    /\ previous \in [Handlers -> Handlers \cup {None}]
    /\ answer \in [Handlers -> Answer]
    /\ now \in Nat

\* The volatile state of a process that has just started.
Fresh == [createLocks |-> [l \in Lanes |-> None],
          pc          |-> [h \in Handlers |-> "idle"],
          call        |-> [h \in Handlers |-> [key |-> None, dto |-> None]],
          attempt     |-> [h \in Handlers |-> 0],
          previous    |-> [h \in Handlers |-> None],
          answer      |-> [h \in Handlers |-> Error("NONE")]]

Init ==
    /\ LedgerInit
    /\ reqKey = [i \in RequestIds |-> None]
    /\ records = [k \in Keys |-> None]
    /\ createLocks = Fresh.createLocks /\ previous = Fresh.previous
    /\ pc = Fresh.pc /\ call = Fresh.call
    /\ attempt = Fresh.attempt /\ answer = Fresh.answer
    /\ now = 0

-----------------------------------------------------------------------------
(* Helpers: the lanes of _withCreateLock, _checkIdempotency. *)

lane(h) == call[h].dto.lane

\* A handler chains itself behind the lane's last one, if there is one.
joinLane(h) ==
    /\ previous' = [previous EXCEPT ![h] = createLocks[lane(h)]]
    /\ createLocks' = [createLocks EXCEPT ![lane(h)] = h]

\* Mutant: the lane's entry is deleted even when a later handler owns it.
deletesAlways(h) ==
    /\ previous' = [g \in Handlers |-> IF previous[g] = h THEN None ELSE previous[g]]
    /\ createLocks' = [createLocks EXCEPT ![lane(h)] = None]

\* Mutant: an error leaves the gate shut.
neverReleases(h) ==
    /\ createLocks' = [createLocks EXCEPT ![lane(h)] = IF @ = h THEN None ELSE @]
    /\ UNCHANGED previous

\* The finally block: open the gate for whoever awaits it, and delete the
\* lane's entry if nobody has joined since.
releaseLane(h) ==
    /\ previous' = [g \in Handlers |-> IF previous[g] = h THEN None ELSE previous[g]]
    /\ createLocks' = [createLocks EXCEPT ![lane(h)] = IF @ = h THEN None ELSE @]

Live(k) == records[k] # None /\ ~ (records[k].expiresAt < now)

\* _checkIdempotency misses, hits, or else throws a conflict.
Miss(h) == ~ Live(call[h].key)

\* Mutant: the payload hash is not compared.
HitAnyPayload(h) == Live(call[h].key)

Hit(h) == Live(call[h].key) /\ records[call[h].key].dto = call[h].dto

\* The answer of a check that did not miss.
checked(h) ==
    IF Hit(h) THEN Created(records[call[h].key].id)
              ELSE Error("IDEMPOTENCY_CONFLICT")

reply(h, a) ==
    /\ pc' = [pc EXCEPT ![h] = "idle"]
    /\ answer' = [answer EXCEPT ![h] = a]
    /\ UNCHANGED <<call, attempt>>

\* Leave the lane and answer.
finish(h, a) == reply(h, a) /\ releaseLane(h)

goto(h, label) ==
    /\ pc' = [pc EXCEPT ![h] = label]
    /\ UNCHANGED <<call, answer>>

-----------------------------------------------------------------------------
(* createRequest up to its first await. *)

Invalid(dto) == ~ isNotInPast(dto.startDate, Today) \/ dto.endDate < dto.startDate

createRequest(h, k, dto) ==
    /\ pc[h] = "idle"
    /\ call' = [call EXCEPT ![h] = [key |-> k, dto |-> dto]]
    /\ attempt' = [attempt EXCEPT ![h] = 0]
    /\ LET refusal == IF k = None THEN "MISSING_IDEMPOTENCY_KEY"
                      ELSE IF Invalid(dto) THEN "INVALID_DATE_RANGE" ELSE "NONE"
       IN  /\ pc' = [pc EXCEPT ![h] = IF refusal = "NONE" THEN "check" ELSE "idle"]
           /\ answer' = [answer EXCEPT ![h] = Error(refusal)]
    /\ UNCHANGED <<tables, lockVars, now>>

\* The check before the lane.
checkIdempotency(h) ==
    /\ pc[h] = "check"
    /\ \/ /\ Miss(h)
          /\ goto(h, "queued")
          /\ joinLane(h)
          /\ UNCHANGED attempt
       \/ /\ ~ Miss(h)
          /\ reply(h, checked(h))
          /\ UNCHANGED lockVars
    /\ UNCHANGED <<tables, now>>

AtGate(h) == pc[h] = "queued" /\ previous[h] = None

startTransaction(h) ==
    /\ goto(h, "transaction")
    /\ attempt' = [attempt EXCEPT ![h] = 1]
    /\ UNCHANGED lockVars

\* Mutant: the check is not repeated under the lock.
noRecheck(h) ==
    /\ AtGate(h)
    /\ startTransaction(h)
    /\ UNCHANGED <<tables, now>>

\* The check repeated once the lane is ours.
checkLocked(h) ==
    /\ AtGate(h)
    /\ \/ Miss(h) /\ startTransaction(h)
       \/ ~ Miss(h) /\ finish(h, checked(h))
    /\ UNCHANGED <<tables, now>>

-----------------------------------------------------------------------------
(* The transaction of createRequest, and how it may end. *)

\* Mutant: the indexes are not unique.
KeyNeverTaken(k) == FALSE

\* The unique indexes on time_off_requests and idempotency_records.
KeyTaken(k) == records[k] # None \/ \E i \in RequestIds : reqKey[i] = k

\* What the transaction body throws before its first insert.
refused(dto) ==
    LET b == balanceKey(dto) IN
    IF Overlaps(dto) THEN "OVERLAPPING_REQUEST"
    ELSE IF balances[b] = None THEN "BALANCE_NOT_FOUND"
    ELSE IF ~ CanDeduct(balances[b], daysRequested(dto)) THEN "INSUFFICIENT_BALANCE"
    ELSE "NONE"

transactionRefused(h) ==
    /\ pc[h] = "transaction"
    /\ refused(call[h].dto) # "NONE"
    /\ finish(h, Error(refused(call[h].dto)))
    /\ UNCHANGED <<tables, now>>

\* The insert meets the index; everything is rolled back.
transactionConstraint(h) ==
    /\ pc[h] = "transaction"
    /\ refused(call[h].dto) = "NONE"
    /\ KeyTaken(call[h].key)
    /\ goto(h, "constraint")
    /\ UNCHANGED <<tables, lockVars, attempt, now>>

newRecord(dto, id) == [dto |-> dto, id |-> id, expiresAt |-> now + TTL]

\* The request, its days and the idempotency record become visible at once.
commit(h, id) ==
    /\ createTransaction(id, call[h].dto)
    /\ reqKey' = [reqKey EXCEPT ![id] = call[h].key]
    /\ records' = [records EXCEPT ![call[h].key] = newRecord(call[h].dto, id)]

transactionCommits(h) ==
    /\ pc[h] = "transaction"
    /\ ~ KeyTaken(call[h].key)
    /\ \E id \in RequestIds : commit(h, id)
    /\ goto(h, "committed")
    /\ UNCHANGED <<lockVars, attempt, now>>

\* Only then does the handler answer; the HCM is told later (_notifyHcmAsync).
respond(h) ==
    /\ pc[h] = "committed"
    /\ \E id \in RequestIds :
          reqKey[id] = call[h].key /\ finish(h, Created(id))
    /\ UNCHANGED <<tables, now>>

\* Mutant: one attempt more than the maximum.
AttemptsLeftOffByOne(h) == attempt[h] <= MaxAttempts

AttemptsLeft(h) == attempt[h] < MaxAttempts

\* SQLITE_BUSY and its like: nothing is written; up to MaxAttempts attempts.
transactionTransient(h) ==
    /\ pc[h] = "transaction"
    /\ \/ /\ AttemptsLeft(h)
          /\ attempt' = [attempt EXCEPT ![h] = @ + 1]
          /\ UNCHANGED <<pc, call, answer>>
       \/ /\ ~ AttemptsLeft(h)
          /\ goto(h, "transient")
          /\ UNCHANGED attempt
    /\ UNCHANGED <<tables, lockVars, now>>

-----------------------------------------------------------------------------
(* _recoverAfterConstraint: the idempotency record, then the request. *)

recover(h) ==
    /\ pc[h] \in {"constraint", "transient"}
    /\ \/ /\ Miss(h)
          /\ goto(h, IF pc[h] = "constraint" THEN "findConstraint" ELSE "findTransient")
          /\ UNCHANGED <<lockVars, attempt>>
       \/ ~ Miss(h) /\ finish(h, checked(h))
    /\ UNCHANGED <<tables, now>>

\* Whatever its payload, the request stored under the key is the answer.
findExisting(h) ==
    /\ pc[h] \in {"findConstraint", "findTransient"}
    /\ \/ \E i \in RequestIds :
             /\ reqKey[i] = call[h].key
             /\ finish(h, Created(i))
       \/ /\ \A i \in RequestIds : reqKey[i] # call[h].key
          /\ finish(h, Error(IF pc[h] = "findTransient" THEN "BALANCE_CONFLICT"
                                                       ELSE "INTERNAL_ERROR"))
    /\ UNCHANGED <<tables, now>>

\* Any other failure of a database call is rethrown.
databaseFails(h) ==
    /\ \/ pc[h] = "check" /\ reply(h, Error("INTERNAL_ERROR")) /\ UNCHANGED lockVars
       \/ /\ \/ AtGate(h)
             \/ pc[h] \in {"transaction", "constraint", "transient",
                           "findConstraint", "findTransient"}
          /\ finish(h, Error("INTERNAL_ERROR"))
    /\ UNCHANGED <<tables, now>>

-----------------------------------------------------------------------------
Step(h) ==
    \/ checkIdempotency(h)
    \/ checkLocked(h)
    \/ transactionRefused(h)
    \/ transactionConstraint(h)
    \/ transactionCommits(h)
    \/ respond(h)
    \/ transactionTransient(h)
    \/ recover(h)
    \/ findExisting(h)
    \/ databaseFails(h)

\* The transactions of the other endpoints.
Others ==
    /\ Administer \/ Decide
    /\ UNCHANGED <<reqKey, records, lockVars, handlerVars, now>>

\* The process dies and starts again: handlers and lanes are gone, the tables
\* stay, and no client gets the answers that were under way.
Crash ==
    /\ createLocks' = Fresh.createLocks /\ previous' = Fresh.previous
    /\ pc' = Fresh.pc /\ call' = Fresh.call
    /\ attempt' = Fresh.attempt /\ answer' = Fresh.answer
    /\ UNCHANGED <<tables, now>>

Tick ==
    /\ now < MaxNow
    /\ now' = now + 1
    /\ UNCHANGED <<tables, lockVars, handlerVars>>

Next ==
    \/ \E h \in Handlers, k \in Keys \cup {None}, dto \in Payloads :
          createRequest(h, k, dto)
    \/ \E h \in Handlers : Step(h)
    \/ Others
    \/ Crash
    \/ Tick

Spec == Init /\ [][Next]_vars

\* Node runs every continuation that is ready, so a handler whose next step is
\* enabled takes it; nothing makes clients call, approvers decide or time pass.
FairSpec == Spec /\ \A h \in Handlers : WF_vars(Step(h))

-----------------------------------------------------------------------------
InLane(h) ==
    \/ AtGate(h)
    \/ pc[h] \in {"transaction", "committed", "constraint", "transient",
                  "findConstraint", "findTransient"}

\* The chain of promises in _withCreateLock is a mutual exclusion: at most one
\* handler of an employee and location is past its gate.
OneHandlerPerLane ==
    \A g, h \in Handlers :
        (InLane(g) /\ InLane(h) /\ lane(g) = lane(h)) => g = h

\* One key makes at most one request, and a request and its idempotency record
\* appear together and agree: "exactly-once processing" (Guarantee 1).
KeyedOnce ==
    \A k \in Keys :
        /\ \A i, j \in RequestIds : reqKey[i] = k /\ reqKey[j] = k => i = j
        /\ IF records[k] = None
           THEN \A i \in RequestIds : reqKey[i] # k
           ELSE /\ reqKey[records[k].id] = k
                /\ requests[records[k].id] # None
                /\ requests[records[k].id].dto = records[k].dto

\* Who is answered 201 is given the request of its own key, and, among the
\* handlers of one lane, the request it asked for as long as the key's record
\* lives.  Across lanes, and after the record has expired, the fallback of
\* _recoverAfterConstraint may answer with the request of another payload: see
\* AnswerMatchesPayload.
AnswerIsOwnRequest ==
    \A h \in Handlers : answer[h].code = "CREATED" =>
        LET id == answer[h].id
            k  == call[h].key
        IN  /\ reqKey[id] = k
            /\ requests[id] # None
            /\ \/ requests[id].dto = call[h].dto
               \/ requests[id].dto.lane # call[h].dto.lane
               \/ ~ Live(k)

\* TRD.md:158, "Hash mismatch on same key returns `409` conflict": who is
\* answered 201 is given a request with the payload it sent.
AnswerMatchesPayload ==
    \A h \in Handlers : answer[h].code = "CREATED" =>
        requests[answer[h].id].dto = call[h].dto

\* Handler h is answered with the given code in this step.
Answers(h, code) == answer'[h] # answer[h] /\ answer'[h].code = code

\* The key of h already has its request, made from this very payload.
IsDuplicate(h) == call'[h].key # None /\ Live(call'[h].key)
                  /\ records[call'[h].key].dto = call'[h].dto

RetriesSafely ==
    \A h \in Handlers :
        IsDuplicate(h) => \A code \in {"OVERLAPPING_REQUEST", "BALANCE_NOT_FOUND",
                                       "INSUFFICIENT_BALANCE", "BALANCE_CONFLICT",
                                       "IDEMPOTENCY_CONFLICT"} : ~ Answers(h, code)

\* A duplicate or a retry, concurrent with the original or after a crash, is
\* never refused because of the request its own key has made: not as an
\* overlap with itself, not for the days it took itself (the repeated check
\* under the lock and _recoverAfterConstraint).  The date check, which comes
\* before the key is looked at, does refuse a duplicate after midnight.
DuplicateNeverRefused == [][RetriesSafely]_vars

\* Every call is answered, or the process crashes: no lane is ever left shut,
\* whichever way its handlers end.
EveryCallAnswered ==
    \A h \in Handlers : pc[h] # "idle" ~> pc[h] = "idle"

-----------------------------------------------------------------------------
\* The request a key has made.
booking(k) ==
    IF \E i \in RequestIds : reqKey[i] = k
    THEN requests[CHOOSE i \in RequestIds : reqKey[i] = k]
    ELSE None

Keyed == INSTANCE Entitlement WITH
            Names       <- Keys,
            entitlement <- [b \in BalanceKeys |-> daysGranted(b)],
            bookings    <- [k \in Keys |-> booking(k)]

\* Through concurrent handlers, duplicates, retries and crashes, a key books
\* its leave at most once and within the entitlement.
ServiceImplementsEntitlement == Keyed!Spec

=============================================================================
