-------------------------- MODULE HcmClient_proofs --------------------------
(***************************************************************************)
(* The safety of the circuit breaker for every number of callers, every    *)
(* threshold, and every timeout shorter than the cooldown.                 *)
(***************************************************************************)
EXTENDS HcmClient, TLAPS

\* The initial state satisfies the invariant: CircuitBreaker's constructor.
LEMMA InitEstablishes == Init => ClientInv
  BY ClientAssumption
  DEF Init, ClientInv, ClientTypeOK, ClosedBelowThreshold, OnlyProbesInHalfOpen,
      AgesWithCooldown

\* _onFailure keeps its two counters in range, trips at the threshold and
\* starts the cooldown when it trips.
LEMMA OnFailureEffect ==
    ASSUME ClientInv, onFailure
    PROVE  /\ state' \in {"CLOSED", "OPEN"}
           /\ failureCount' \in 0 .. failureThreshold
           /\ remaining' \in 0 .. cooldown
           /\ state' = "CLOSED" => failureCount' < failureThreshold
           /\ state' = "OPEN" =>
                 \/ remaining' = cooldown
                 \/ state = "OPEN" /\ remaining' = remaining
  BY ClientAssumption
  DEF ClientInv, ClientTypeOK, ClosedBelowThreshold, onFailure, nextCount, counted,
      Trips

\* _onSuccess clears the count, and never opens the breaker.
LEMMA OnSuccessEffect ==
    ASSUME ClientInv, onSuccess
    PROVE  /\ state' \in {"CLOSED", "OPEN"}
           /\ failureCount' = 0
           /\ remaining' \in 0 .. cooldown
           /\ state' = "OPEN" => state = "OPEN" /\ remaining' = remaining
  BY ClientAssumption
  DEF ClientInv, ClientTypeOK, onSuccess

\* When a request ends or retries, the attempts in flight afterwards were in
\* flight before and have not aged.
LEMMA EndEffect ==
    ASSUME ClientInv, NEW c \in Callers, end(c)
    PROVE  /\ pc' \in [Callers -> {"idle", "ready", "inFlight"}]
           /\ attempt' \in [Callers -> 1 .. retryMaxAttempts]
           /\ age' \in [Callers -> 0 .. timeout]
           /\ probe' \in [Callers -> BOOLEAN]
           /\ doomed' \in [Callers -> BOOLEAN]
           /\ \A d \in Callers : pc'[d] = "inFlight" =>
                 pc[d] = "inFlight" /\ age'[d] = age[d] /\ probe'[d] = probe[d]
  <1>1. 1 \in 1 .. retryMaxAttempts /\ 0 \in 0 .. timeout
    BY ClientAssumption
  <1> QED
    BY <1>1 DEF ClientInv, ClientTypeOK, end

\* The same for the two outcomes of a failed attempt in withRetry.
LEMMA RetryEffect ==
    ASSUME ClientInv, NEW c \in Callers, NEW r \in BOOLEAN, retryOrGiveUp(c, r)
    PROVE  /\ pc' \in [Callers -> {"idle", "ready", "inFlight"}]
           /\ attempt' \in [Callers -> 1 .. retryMaxAttempts]
           /\ age' \in [Callers -> 0 .. timeout]
           /\ probe' \in [Callers -> BOOLEAN]
           /\ doomed' \in [Callers -> BOOLEAN]
           /\ \A d \in Callers : pc'[d] = "inFlight" =>
                 pc[d] = "inFlight" /\ age'[d] = age[d] /\ probe'[d] = probe[d]
  <1>1. CASE r /\ attempt[c] < retryMaxAttempts /\ ~ end(c)
    <2>1. attempt[c] + 1 \in 1 .. retryMaxAttempts /\ 0 \in 0 .. timeout
      BY <1>1, ClientAssumption DEF ClientInv, ClientTypeOK
    <2>2. /\ pc' = [pc EXCEPT ![c] = "ready"]
          /\ attempt' = [attempt EXCEPT ![c] = @ + 1]
          /\ age' = [age EXCEPT ![c] = 0]
          /\ probe' = [probe EXCEPT ![c] = FALSE]
          /\ doomed' = [doomed EXCEPT ![c] = FALSE]
      BY <1>1 DEF retryOrGiveUp
    <2> QED
      BY <2>1, <2>2 DEF ClientInv, ClientTypeOK
  <1>2. CASE end(c)
    BY <1>2, EndEffect
  <1> QED
    BY <1>1, <1>2 DEF retryOrGiveUp

\* A failed attempt preserves the invariant: outage and clientError.
LEMMA FailurePreserves ==
    ASSUME ClientInv, NEW c \in Callers, NEW r \in BOOLEAN,
           onFailure, retryOrGiveUp(c, r), UNCHANGED healthy,
           outages' \in 0 .. failureThreshold
    PROVE  ClientInv'
  <1>1. ClientTypeOK'
    BY OnFailureEffect, RetryEffect DEF ClientInv, ClientTypeOK
  <1>2. ClosedBelowThreshold'
    BY OnFailureEffect DEF ClosedBelowThreshold
  <1>3. OnlyProbesInHalfOpen'
    BY OnFailureEffect DEF OnlyProbesInHalfOpen
  <1>4. AgesWithCooldown'
    <2> SUFFICES ASSUME state' = "OPEN", NEW d \in Callers, pc'[d] = "inFlight"
                 PROVE  age'[d] + remaining' >= cooldown
      BY DEF AgesWithCooldown
    <2>1. pc[d] = "inFlight" /\ age'[d] = age[d] /\ age[d] \in 0 .. timeout
      BY RetryEffect DEF ClientInv, ClientTypeOK
    <2> QED
      BY <2>1, OnFailureEffect, ClientAssumption
      DEF ClientInv, ClientTypeOK, AgesWithCooldown
  <1> QED
    BY <1>1, <1>2, <1>3, <1>4 DEF ClientInv

\* An attempt ages by a tick while at most a tick of the cooldown runs down.
LEMMA AgesAsCooldownRuns ==
    \A a, r, rNext, k \in Int :
        a + r >= k /\ rNext + 1 >= r => (a + 1) + rNext >= k
  OBVIOUS

\* Every step of Next preserves the invariant.
LEMMA NextPreserves == ClientInv /\ [Next]_vars => ClientInv'
  <1> SUFFICES ASSUME ClientInv, [Next]_vars PROVE ClientInv'
    OBVIOUS
  <1>1. ASSUME NEW c \in Callers, begin(c) PROVE ClientInv'
    <2>1. 1 \in 1 .. retryMaxAttempts
      BY ClientAssumption
    <2> QED
      BY <1>1, <2>1
      DEF begin, breaker, ClientInv, ClientTypeOK, ClosedBelowThreshold,
          OnlyProbesInHalfOpen, AgesWithCooldown
  <1>2. ASSUME NEW c \in Callers, refused(c) PROVE ClientInv'
    <2>1. ClientTypeOK'
      BY <1>2, EndEffect DEF refused, breaker, ClientInv, ClientTypeOK
    <2>2. ClosedBelowThreshold' /\ OnlyProbesInHalfOpen'
      BY <1>2 DEF refused, breaker, ClientInv, ClosedBelowThreshold,
                  OnlyProbesInHalfOpen
    <2>3. AgesWithCooldown'
      BY <1>2, EndEffect DEF refused, breaker, ClientInv, AgesWithCooldown
    <2> QED
      BY <2>1, <2>2, <2>3 DEF ClientInv
  <1>3. ASSUME NEW c \in Callers, admitted(c) PROVE ClientInv'
    <2>1. ClientTypeOK'
      <3>1. 0 \in 0 .. timeout
        BY ClientAssumption
      <3>2. (state' = "HALF_OPEN") \in BOOLEAN /\ (~ healthy) \in BOOLEAN
        OBVIOUS
      <3> QED
        BY <1>3, <3>1, <3>2 DEF admitted, ClientInv, ClientTypeOK
    <2>2. ClosedBelowThreshold'
      BY <1>3 DEF admitted, ClientInv, ClosedBelowThreshold
    <2>3. OnlyProbesInHalfOpen'
      <3> SUFFICES ASSUME state' = "HALF_OPEN", NEW d \in Callers, pc'[d] = "inFlight"
                   PROVE  probe'[d]
        BY DEF OnlyProbesInHalfOpen
      <3>1. CASE d = c
        BY <1>3, <3>1 DEF admitted, ClientInv, ClientTypeOK
      <3>2. CASE d # c /\ state = "HALF_OPEN"
        BY <1>3, <3>2 DEF admitted, ClientInv, ClientTypeOK, OnlyProbesInHalfOpen
      <3>3. CASE d # c /\ state = "OPEN"
        <4>1. pc[d] = "inFlight" /\ remaining = 0
          BY <1>3, <3>3 DEF admitted, Cooled, ClientInv, ClientTypeOK
        <4>2. age[d] >= cooldown /\ age[d] \in 0 .. timeout
          BY <3>3, <4>1, ClientAssumption DEF ClientInv, ClientTypeOK, AgesWithCooldown
        <4> QED
          BY <4>2, ClientAssumption
      <3> QED
        BY <1>3, <3>1, <3>2, <3>3 DEF admitted, ClientInv, ClientTypeOK
    <2>4. AgesWithCooldown'
      BY <1>3 DEF admitted, ClientInv, AgesWithCooldown
    <2> QED
      BY <2>1, <2>2, <2>3, <2>4 DEF ClientInv
  <1>4. ASSUME NEW c \in Callers, succeeds(c) PROVE ClientInv'
    <2>1. ClientTypeOK'
      <3>1. outages' \in 0 .. failureThreshold /\ failureCount' \in 0 .. failureThreshold
        BY <1>4, OnSuccessEffect, ClientAssumption DEF succeeds
      <3> QED
        BY <1>4, <3>1, OnSuccessEffect, EndEffect DEF succeeds, ClientInv, ClientTypeOK
    <2>2. ClosedBelowThreshold' /\ OnlyProbesInHalfOpen'
      BY <1>4, OnSuccessEffect, ClientAssumption
      DEF succeeds, ClosedBelowThreshold, OnlyProbesInHalfOpen
    <2>3. AgesWithCooldown'
      BY <1>4, OnSuccessEffect, EndEffect DEF succeeds, ClientInv, AgesWithCooldown
    <2> QED
      BY <2>1, <2>2, <2>3 DEF ClientInv
  <1>5. ASSUME NEW c \in Callers, outage(c) PROVE ClientInv'
    <2>1. outages' \in 0 .. failureThreshold
      BY <1>5, ClientAssumption DEF outage, counted, ClientInv, ClientTypeOK
    <2> QED
      BY <1>5, <2>1, FailurePreserves DEF outage
  <1>6. ASSUME NEW c \in Callers, clientError(c) PROVE ClientInv'
    <2>1. outages' \in 0 .. failureThreshold
      BY <1>6, ClientAssumption DEF clientError
    <2> QED
      BY <1>6, <2>1, FailurePreserves DEF clientError
  <1>7. CASE reset
    BY <1>7, ClientAssumption
    DEF reset, calls, ClientInv, ClientTypeOK, ClosedBelowThreshold,
        OnlyProbesInHalfOpen, AgesWithCooldown
  <1>8. CASE Tick
    <2>1. \A d \in Callers :
            /\ age'[d] \in 0 .. timeout
            /\ pc[d] = "inFlight" => age'[d] = age[d] + 1
      BY <1>8, ClientAssumption DEF Tick, ClientInv, ClientTypeOK
    <2>2. /\ remaining' \in 0 .. cooldown
          /\ remaining' + 1 >= remaining
      BY <1>8, ClientAssumption DEF Tick, ClientInv, ClientTypeOK
    <2>3. ClientTypeOK'
      <3>1. age' \in [Callers -> 0 .. timeout]
        BY <1>8, <2>1 DEF Tick
      <3> QED
        BY <1>8, <2>2, <3>1 DEF Tick, ClientInv, ClientTypeOK
    <2>4. ClosedBelowThreshold' /\ OnlyProbesInHalfOpen'
      BY <1>8 DEF Tick, ClientInv, ClosedBelowThreshold, OnlyProbesInHalfOpen
    <2>5. AgesWithCooldown'
      <3> SUFFICES ASSUME state = "OPEN", NEW d \in Callers, pc[d] = "inFlight"
                   PROVE  age'[d] + remaining' >= cooldown
        BY <1>8 DEF Tick, AgesWithCooldown
      <3>1. age[d] + remaining >= cooldown /\ age[d] \in 0 .. timeout
        BY DEF ClientInv, ClientTypeOK, AgesWithCooldown
      <3>2. age'[d] = age[d] + 1
        BY <2>1
      <3>3. /\ remaining \in Int /\ remaining' \in Int
            /\ age[d] \in Int /\ cooldown \in Int
        BY <2>2, <3>1, ClientAssumption DEF ClientInv, ClientTypeOK
      <3>4. (age[d] + 1) + remaining' >= cooldown
        BY <2>2, <3>1, <3>3, AgesAsCooldownRuns
      <3> QED
        BY <3>2, <3>4
    <2> QED
      BY <2>3, <2>4, <2>5 DEF ClientInv
  <1>9. CASE HcmTurns
    BY <1>9
    DEF HcmTurns, breaker, calls, ClientInv, ClientTypeOK, ClosedBelowThreshold,
        OnlyProbesInHalfOpen, AgesWithCooldown
  <1>10. CASE UNCHANGED vars
    BY <1>10
    DEF vars, breaker, calls, ClientInv, ClientTypeOK, ClosedBelowThreshold,
        OnlyProbesInHalfOpen, AgesWithCooldown
  <1> QED
    BY <1>1, <1>2, <1>3, <1>4, <1>5, <1>6, <1>7, <1>8, <1>9, <1>10 DEF Next, Step

\* ClientInv is an invariant of the breaker and its callers.
THEOREM ClientInvariant == Spec => []ClientInv
  BY InitEstablishes, NextPreserves, PTL DEF Spec

\* The breaker trips at its threshold, whatever late answers it is given.
THEOREM ClosedBelowThresholdHolds == Spec => []ClosedBelowThreshold
  <1>1. ClientInv => ClosedBelowThreshold
    BY DEF ClientInv
  <1> QED
    BY <1>1, ClientInvariant, PTL

\* A half-open breaker is judged by probes only, for every timeout that is
\* shorter than the cooldown.
THEOREM OnlyProbesInHalfOpenHolds == Spec => []OnlyProbesInHalfOpen
  <1>1. ClientInv => OnlyProbesInHalfOpen
    BY DEF ClientInv
  <1> QED
    BY <1>1, ClientInvariant, PTL

=============================================================================
