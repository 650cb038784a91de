----------------------------- MODULE HcmClient -----------------------------
(***************************************************************************)
(* HcmService._callWithResilience (src/modules/hcm/hcm.service.js): every  *)
(* call to the HCM is retried by withRetry (retry.util.js), and every      *)
(* attempt goes through the one CircuitBreaker (circuit-breaker.util.js)   *)
(* that all callers share.                                                 *)
(*                                                                         *)
(* Several requests are in flight at once; each attempt is admitted or     *)
(* refused at one moment and judged at a later one, when the breaker may   *)
(* have changed its state.  Time is counted in ticks: how long an attempt  *)
(* has been in flight, and how much of the cooldown is left.               *)
(***************************************************************************)
EXTENDS Integers

CONSTANTS
    Callers,           \* requests to the HCM that may be under way
    retryMaxAttempts,
    failureThreshold,
    cooldown,          \* resetTimeoutMs, in ticks
    timeout            \* after which _withTimeout gives an attempt up

\* The defaults are 3 attempts, 5 failures, 30 s and 10 s.
ASSUME ClientAssumption ==
    /\ retryMaxAttempts \in Nat \ {0}
    /\ failureThreshold \in Nat \ {0}
    /\ timeout \in Nat \ {0}
    /\ cooldown \in Nat
    /\ timeout < cooldown

VARIABLES
    state,         \* _state
    failureCount,  \* _failureCount
    remaining,     \* what is left of the cooldown since _openedAt
    pc,            \* idle, about to attempt, or in flight
    attempt,       \* the attempt withRetry is at
    age,           \* how long the attempt has been in flight
    probe,         \* history: the attempt was admitted in HALF_OPEN
    doomed,        \* external: the attempt was sent during an outage
    healthy,       \* external: attempts sent now are answered, with 2xx or 4xx
    outages        \* history: 5xx answers and timeouts in a row

breaker == <<state, failureCount, remaining>>
calls == <<pc, attempt, age, probe, doomed>>
vars == <<breaker, calls, healthy, outages>>

ClientTypeOK ==
    /\ state \in {"CLOSED", "OPEN", "HALF_OPEN"}
    /\ failureCount \in 0 .. failureThreshold
    /\ remaining \in 0 .. cooldown
    /\ pc \in [Callers -> {"idle", "ready", "inFlight"}]
    /\ attempt \in [Callers -> 1 .. retryMaxAttempts]
    /\ age \in [Callers -> 0 .. timeout]
    /\ probe \in [Callers -> BOOLEAN]
    /\ doomed \in [Callers -> BOOLEAN]
    /\ healthy \in BOOLEAN
    /\ outages \in 0 .. failureThreshold

Init ==
    /\ state = "CLOSED"
    /\ failureCount = 0
    /\ remaining = 0
    /\ pc = [c \in Callers |-> "idle"]
    /\ attempt = [c \in Callers |-> 1]
    /\ age = [c \in Callers |-> 0]
    /\ probe = [c \in Callers |-> FALSE]
    /\ doomed = [c \in Callers |-> FALSE]
    /\ healthy \in BOOLEAN
    /\ outages = 0

counted(n) == IF n < failureThreshold THEN n + 1 ELSE n

-----------------------------------------------------------------------------
(* The breaker. *)

\* Mutant: the half-open probe is let through without waiting.
CooledAtOnce == TRUE

Cooled == remaining = 0

\* Mutant: a successful probe clears the count and does not close the breaker.
onSuccessStaysHalfOpen ==
    /\ failureCount' = 0
    /\ UNCHANGED <<state, remaining>>

\* _onSuccess.  In the OPEN state, where a late answer may arrive, it clears
\* the count and leaves the state.
onSuccess ==
    /\ failureCount' = 0
    /\ state' = IF state = "HALF_OPEN" THEN "CLOSED" ELSE state
    /\ remaining' = IF state = "HALF_OPEN" THEN 0 ELSE remaining

\* Mutant: one failure more than the threshold is tolerated.
TripsLate == state = "HALF_OPEN" \/ failureCount + 1 > failureThreshold

Trips == state = "HALF_OPEN" \/ failureCount + 1 >= failureThreshold

\* The count stops at the threshold: above it every count acts alike.
nextCount == counted(failureCount)

\* _onFailure.  A late failure in the OPEN state starts the cooldown again.
onFailure ==
    /\ failureCount' = nextCount
    /\ state' = IF Trips THEN "OPEN" ELSE state
    /\ remaining' = IF Trips THEN cooldown ELSE remaining

\* reset()
reset ==
    /\ state' = "CLOSED"
    /\ failureCount' = 0
    /\ remaining' = 0
    /\ UNCHANGED <<calls, healthy, outages>>

-----------------------------------------------------------------------------
(* The calls. *)

begin(c) ==
    /\ pc[c] = "idle"
    /\ pc' = [pc EXCEPT ![c] = "ready"]
    /\ attempt' = [attempt EXCEPT ![c] = 1]
    /\ UNCHANGED <<breaker, age, probe, doomed, healthy, outages>>

\* The request of c is over.
end(c) ==
    /\ pc' = [pc EXCEPT ![c] = "idle"]
    /\ attempt' = [attempt EXCEPT ![c] = 1]
    /\ age' = [age EXCEPT ![c] = 0]
    /\ probe' = [probe EXCEPT ![c] = FALSE]
    /\ doomed' = [doomed EXCEPT ![c] = FALSE]

\* CircuitBreaker.call refuses; CIRCUIT_OPEN is not retryable, and the caller
\* gets null.
refused(c) ==
    /\ pc[c] = "ready"
    /\ state = "OPEN"
    /\ ~ Cooled
    /\ end(c)
    /\ UNCHANGED <<breaker, healthy, outages>>

\* CircuitBreaker.call lets the attempt through.
admitted(c) ==
    /\ pc[c] = "ready"
    /\ state = "OPEN" => Cooled
    /\ state' = IF state = "OPEN" THEN "HALF_OPEN" ELSE state
    /\ pc' = [pc EXCEPT ![c] = "inFlight"]
    /\ age' = [age EXCEPT ![c] = 0]
    /\ probe' = [probe EXCEPT ![c] = state' = "HALF_OPEN"]
    /\ doomed' = [doomed EXCEPT ![c] = ~ healthy]
    /\ UNCHANGED <<failureCount, remaining, attempt, healthy, outages>>

succeeds(c) ==
    /\ pc[c] = "inFlight"
    /\ onSuccess
    /\ end(c)
    /\ outages' = 0
    /\ UNCHANGED healthy

\* Mutant: the attempts are not counted.
retryForever(c, isRetryable) ==
    \/ /\ isRetryable
       /\ pc' = [pc EXCEPT ![c] = "ready"]
       /\ age' = [age EXCEPT ![c] = 0]
       /\ probe' = [probe EXCEPT ![c] = FALSE]
       /\ doomed' = [doomed EXCEPT ![c] = FALSE]
       /\ UNCHANGED attempt
    \/ ~ isRetryable /\ end(c)

\* Mutant: the last attempt is followed by another one.
retryOnceMore(c, isRetryable) ==
    /\ pc' = [pc EXCEPT ![c] = "ready"]
    /\ attempt' = [attempt EXCEPT ![c] = @ + 1]
    /\ age' = [age EXCEPT ![c] = 0]
    /\ probe' = [probe EXCEPT ![c] = FALSE]
    /\ doomed' = [doomed EXCEPT ![c] = FALSE]

\* withRetry: one attempt more, after a pause, if the error is retryable and
\* attempts are left; otherwise null.
retryOrGiveUp(c, isRetryable) ==
    \/ /\ isRetryable
       /\ attempt[c] < retryMaxAttempts
       /\ pc' = [pc EXCEPT ![c] = "ready"]
       /\ attempt' = [attempt EXCEPT ![c] = @ + 1]
       /\ age' = [age EXCEPT ![c] = 0]
       /\ probe' = [probe EXCEPT ![c] = FALSE]
       /\ doomed' = [doomed EXCEPT ![c] = FALSE]
    \/ /\ ~ isRetryable \/ attempt[c] = retryMaxAttempts
       /\ end(c)

\* A 5xx answer, a network error or a timeout.
outage(c) ==
    /\ pc[c] = "inFlight"
    /\ doomed[c] \/ ~ healthy
    /\ onFailure
    /\ retryOrGiveUp(c, TRUE)
    /\ outages' = counted(outages)
    /\ UNCHANGED healthy

\* A 4xx answer, such as the 422 for an insufficient balance: an HCM that works
\* may give it at any time.
clientError(c) ==
    /\ pc[c] = "inFlight"
    /\ onFailure
    /\ retryOrGiveUp(c, FALSE)
    /\ outages' = 0
    /\ UNCHANGED healthy

\* Time passes, but no attempt outlives its timeout.
Tick ==
    /\ \A c \in Callers : pc[c] = "inFlight" => age[c] < timeout
    /\ age' = [c \in Callers |-> IF pc[c] = "inFlight" THEN age[c] + 1 ELSE 0]
    /\ remaining' = IF remaining > 0 THEN remaining - 1 ELSE 0
    /\ UNCHANGED <<state, failureCount, pc, attempt, probe, doomed, healthy, outages>>

\* External: the HCM goes down and comes back.
HcmTurns ==
    /\ healthy' = ~ healthy
    /\ UNCHANGED <<breaker, calls, outages>>

-----------------------------------------------------------------------------
Step(c) ==
    refused(c) \/ admitted(c) \/ succeeds(c) \/ outage(c) \/ clientError(c)

Next ==
    \/ \E c \in Callers : begin(c) \/ Step(c)
    \/ reset
    \/ Tick
    \/ HcmTurns

Spec == Init /\ [][Next]_vars

\* Every attempt ends, time passes, and the retry job keeps calling the HCM.
FairSpec ==
    /\ Spec
    /\ \A c \in Callers : WF_vars(begin(c)) /\ WF_vars(Step(c))
    /\ WF_vars(Tick)

-----------------------------------------------------------------------------
\* A closed breaker has seen fewer failures than its threshold, whatever late
\* answers arrive: it trips at the threshold and not after it.
ClosedBelowThreshold == state = "CLOSED" => failureCount < failureThreshold

\* Only a probe decides whether a half-open breaker closes or opens again: an
\* attempt admitted before the outage has been timed out by the time the
\* cooldown ends (README.md:134, "Probe Request Succeeds").
OnlyProbesInHalfOpen ==
    state = "HALF_OPEN" =>
        \A c \in Callers : pc[c] = "inFlight" => probe[c]

\* While the breaker is open an attempt in flight ages as the cooldown runs
\* down, so that none is left when the cooldown ends.
AgesWithCooldown ==
    state = "OPEN" =>
        \A c \in Callers : pc[c] = "inFlight" => age[c] + remaining >= cooldown

\* The inductive invariant of HcmClient_proofs.
ClientInv ==
    /\ ClientTypeOK
    /\ ClosedBelowThreshold
    /\ OnlyProbesInHalfOpen
    /\ AgesWithCooldown

ClientErrors == \E c \in Callers : clientError(c)

\* Once the HCM stays healthy the breaker closes and stays closed, although
\* attempts of the outage, and other probes, are still in flight.  It takes an
\* HCM that in the end answers no more 4xx: each one counts as a failure.
ClosesAfterOutage ==
    <>[] healthy /\ <>[][~ ClientErrors]_vars => <>[] (state = "CLOSED")

\* Every request to the HCM ends, with an answer or with null.
EveryCallEnds == \A c \in Callers : pc[c] # "idle" ~> pc[c] = "idle"

OpensOnOutage ==
    state = "CLOSED" /\ state' = "OPEN" => outages' >= failureThreshold

\* The breaker opens on outages only: README.md:125, "Closed --> Open : 5
\* Consecutive Upstream 5xx / Timeouts".
OpensOnlyOnOutage == [][OpensOnOutage]_vars

=============================================================================
