----------------------- MODULE TimeOffService_proofs -----------------------
(***************************************************************************)
(* Proofs about TimeOffService for every number of handlers, keys, lanes   *)
(* and payloads.                                                           *)
(*                                                                         *)
(* That the chain of promises of _withCreateLock excludes is not visible   *)
(* in the gates alone: a handler that finds its lane's entry to be its own *)
(* deletes it because nobody has joined behind it, which says nothing of   *)
(* handlers that might wait on each other in a circle.  The invariant      *)
(* therefore ranks the handlers of a lane in the order they joined.  From  *)
(* the exclusion it follows that what a handler has found out under the    *)
(* lock about its key stays true as far as its own lane is concerned       *)
(* (StillMissing), and from that what it answers.                          *)
(***************************************************************************)
EXTENDS TimeOffService, LeaveLedger_proofs

Chained == {"queued", "transaction", "committed", "constraint", "transient",
            "findConstraint", "findTransient"}

\* The handlers chained in lane l.
Member(h, l) == pc[h] \in Chained /\ lane(h) = l

\* rank orders the chain of each lane: _createLocks names its last handler, the
\* one without a gate is its first, and every other waits for the one directly
\* before it.
LaneOrder(rank) ==
    \A l \in Lanes :
        /\ createLocks[l] = None => \A h \in Handlers : ~ Member(h, l)
        /\ createLocks[l] # None =>
              /\ Member(createLocks[l], l)
              /\ \A h \in Handlers : Member(h, l) => rank[h] <= rank[createLocks[l]]
        /\ \A g, h \in Handlers : Member(g, l) /\ Member(h, l) =>
              /\ rank[g] = rank[h] => g = h
              /\ previous[g] = None => rank[g] <= rank[h]
              /\ previous[g] # None => rank[h] <= rank[previous[g]] \/ rank[g] <= rank[h]
        /\ \A g \in Handlers : Member(g, l) /\ previous[g] # None =>
              /\ pc[g] = "queued"
              /\ Member(previous[g], l)
              /\ rank[previous[g]] < rank[g]

LaneOrdered == \E rank \in [Handlers -> Nat] : LaneOrder(rank)

\* A handler under way has passed the checks of its arguments and has not
\* answered.
CallUnderWay ==
    \A h \in Handlers : pc[h] # "idle" =>
        /\ call[h].key \in Keys
        /\ call[h].dto \in Payloads
        /\ WellFormed(call[h].dto)
        /\ answer[h].code = "NONE"

\* Only a call with a key is answered 201.
AnsweredKeyed ==
    \A h \in Handlers : answer[h].code = "CREATED" =>
        answer[h].id \in RequestIds /\ call[h].key \in Keys

\* A handler past its check under the lock has found no live record of its key,
\* and none has been made in its lane since.
StillMissing ==
    \A h \in Handlers :
        /\ pc[h] \in {"transaction", "constraint", "transient", "findConstraint",
                      "findTransient"}
        /\ Live(call[h].key)
        => records[call[h].key].dto.lane # lane(h)

\* A handler that has committed has made the record of its key.
CommittedOwn ==
    \A h \in Handlers : pc[h] = "committed" =>
        /\ records[call[h].key] # None
        /\ records[call[h].key].dto = call[h].dto

ServiceInv ==
    /\ ServiceTypeOK
    /\ LedgerInv
    /\ CallUnderWay
    /\ AnsweredKeyed
    /\ LaneOrdered
    /\ KeyedOnce
    /\ StillMissing
    /\ CommittedOwn
    /\ AnswerIsOwnRequest

-----------------------------------------------------------------------------
(* The lanes of _withCreateLock. *)

\* A chain with an order lets only its first handler past its gate.
LEMMA OrderExcludes ==
    ASSUME ServiceTypeOK, CallUnderWay, LaneOrdered
    PROVE  OneHandlerPerLane
<1>1. PICK rank \in [Handlers -> Nat] : LaneOrder(rank)
  BY DEF LaneOrdered
<1>2. SUFFICES ASSUME NEW g \in Handlers, NEW h \in Handlers,
                      InLane(g), InLane(h), lane(g) = lane(h)
               PROVE  g = h
  BY DEF OneHandlerPerLane
<1> DEFINE l == lane(h)
<1>3. l \in Lanes
  <2>1. pc[h] # "idle"
    BY <1>2 DEF InLane, AtGate
  <2>2. call[h].dto \in Dto
    BY <2>1, ServiceAssumption DEF CallUnderWay
  <2> QED BY <2>2 DEF Dto, lane
<1>4. Member(g, l) /\ Member(h, l)
  BY <1>2 DEF Member, InLane, AtGate, Chained
<1>5. previous[g] = None /\ previous[h] = None
  BY <1>1, <1>2, <1>3, <1>4 DEF LaneOrder, InLane, AtGate
<1>6. rank[g] <= rank[h] /\ rank[h] <= rank[g]
  BY <1>1, <1>3, <1>4, <1>5 DEF LaneOrder
<1>7. rank[g] = rank[h]
  BY <1>6
<1> QED BY <1>1, <1>3, <1>4, <1>7 DEF LaneOrder

\* The last handler of a lane is the one to wait for: joining keeps the order.
LEMMA JoinKeepsOrder ==
    ASSUME ServiceTypeOK, LaneOrdered, NEW h \in Handlers,
           pc[h] = "check", lane(h) \in Lanes,
           joinLane(h), pc' = [pc EXCEPT ![h] = "queued"], UNCHANGED call
    PROVE  LaneOrdered'
<1>1. PICK rank \in [Handlers -> Nat] : LaneOrder(rank)
  BY DEF LaneOrdered
<1>2. PICK L \in Lanes : L = lane(h)
  OBVIOUS
<1>3. PICK t \in Handlers \cup {None} : t = createLocks[L]
  BY <1>2 DEF ServiceTypeOK
<1>4. t # None => t \in Handlers /\ Member(t, L)
  BY <1>1, <1>2, <1>3 DEF LaneOrder
<1>5. PICK n \in Nat : n = IF t = None THEN 0 ELSE rank[t] + 1
  BY <1>1, <1>4
<1> DEFINE r2 == [rank EXCEPT ![h] = n]
<1>6. /\ r2 \in [Handlers -> Nat]
      /\ r2[h] = n
      /\ \A g \in Handlers : g # h => r2[g] = rank[g]
  BY <1>1
<1>7. /\ previous'[h] = t
      /\ \A g \in Handlers : g # h => previous'[g] = previous[g]
      /\ createLocks'[L] = h
      /\ \A l \in Lanes : l # L => createLocks'[l] = createLocks[l]
      /\ pc'[h] = "queued"
      /\ \A g \in Handlers : g # h => pc'[g] = pc[g]
  BY <1>2, <1>3 DEF joinLane, ServiceTypeOK
<1>8. \A l \in Lanes : ~ Member(h, l)
  BY DEF Member, Chained
<1>9. \A g \in Handlers, l \in Lanes : g # h => (Member(g, l)' <=> Member(g, l))
  BY <1>7 DEF Member, lane
<1>10. \A l \in Lanes : Member(h, l)' <=> l = L
  BY <1>2, <1>7 DEF Member, lane, Chained
<1>11. None \notin Handlers
  BY ServiceAssumption
<1>12. \A g \in Handlers : previous[g] # None => previous[g] \in Handlers
  BY DEF ServiceTypeOK
<1>13. \A l \in Lanes : createLocks[l] # None => createLocks[l] \in Handlers
  BY DEF ServiceTypeOK
<1>14. \A g \in Handlers : Member(g, L) => rank[g] < n
  BY <1>1, <1>2, <1>3, <1>4, <1>5 DEF LaneOrder
<1> HIDE DEF r2
<1>15. ASSUME NEW l \in Lanes
       PROVE  /\ createLocks'[l] = None => \A g \in Handlers : ~ Member(g, l)'
              /\ createLocks'[l] # None =>
                   /\ \E u \in Handlers : u = createLocks'[l] /\ Member(u, l)'
                   /\ \A g \in Handlers : Member(g, l)' => r2[g] <= r2[createLocks'[l]]
  <2>1. CASE l = L
    BY <1>1, <1>6, <1>7, <1>9, <1>11, <1>14, <1>10, <2>1
  <2>2. CASE l # L
    BY <1>1, <1>6, <1>7, <1>9, <1>10, <1>8, <1>13, <2>2 DEF LaneOrder
  <2> QED BY <2>1, <2>2
<1>16. ASSUME NEW l \in Lanes, NEW g \in Handlers, Member(g, l)',
              previous'[g] # None
       PROVE  /\ pc'[g] = "queued"
              /\ previous'[g] \in Handlers
              /\ \E u \in Handlers : u = previous'[g] /\ Member(u, l)'
              /\ r2[previous'[g]] < r2[g]
  <2>1. CASE g = h
    BY <1>4, <1>6, <1>7, <1>8, <1>9, <1>10, <1>14, <1>16, <2>1
  <2>2. CASE g # h
    BY <1>1, <1>6, <1>7, <1>8, <1>9, <1>12, <1>16, <2>2 DEF LaneOrder
  <2> QED BY <2>1, <2>2
<1>17. ASSUME NEW l \in Lanes, NEW g \in Handlers, NEW x \in Handlers,
              Member(g, l)', Member(x, l)'
       PROVE  /\ r2[g] = r2[x] => g = x
              /\ previous'[g] = None => r2[g] <= r2[x]
              /\ previous'[g] # None => r2[x] <= r2[previous'[g]] \/ r2[g] <= r2[x]
  <2>1. CASE g = h /\ x = h
    BY <1>6, <2>1
  <2>2. CASE g = h /\ x # h
    <3>1. Member(x, L) /\ rank[x] < n
      BY <1>9, <1>10, <1>14, <1>17, <2>2
    <3>2. t # None
      BY <1>1, <1>3, <3>1 DEF LaneOrder
    <3>3. rank[x] <= rank[t] /\ t # h
      BY <1>1, <1>3, <1>4, <1>8, <3>1, <3>2 DEF LaneOrder
    <3> QED BY <1>1, <1>4, <1>6, <1>7, <2>2, <3>1, <3>2, <3>3
  <2>3. CASE g # h /\ x = h
    <3>1. Member(g, L) /\ rank[g] < n
      BY <1>9, <1>10, <1>14, <1>17, <2>3
    <3> QED BY <1>1, <1>6, <1>7, <2>3, <3>1
  <2>4. CASE g # h /\ x # h
    <3>1. Member(g, l) /\ Member(x, l)
      BY <1>9, <1>17, <2>4
    <3>2. previous[g] # None => previous[g] \in Handlers /\ previous[g] # h
      BY <1>1, <1>8, <1>12, <3>1 DEF LaneOrder
    <3> QED BY <1>1, <1>6, <1>7, <2>4, <3>1, <3>2 DEF LaneOrder
  <2> QED BY <2>1, <2>2, <2>3, <2>4
<1>18. LaneOrder(r2)'
  BY <1>15, <1>16, <1>17 DEF LaneOrder
<1> QED BY <1>6, <1>18 DEF LaneOrdered

\* The handler past its gate is the first; when it leaves, the one that waits
\* for it is the first, and a lane is empty only when it was the last as well.
LEMMA ReleaseKeepsOrder ==
    ASSUME ServiceTypeOK, LaneOrdered, NEW h \in Handlers,
           pc[h] \in Chained, previous[h] = None, lane(h) \in Lanes,
           releaseLane(h), pc' = [pc EXCEPT ![h] = "idle"], UNCHANGED call
    PROVE  LaneOrdered'
<1>1. PICK rank \in [Handlers -> Nat] : LaneOrder(rank)
  BY DEF LaneOrdered
<1>2. PICK L \in Lanes : L = lane(h)
  OBVIOUS
<1>3. /\ \A g \in Handlers :
            previous'[g] = IF previous[g] = h THEN None ELSE previous[g]
      /\ createLocks'[L] = IF createLocks[L] = h THEN None ELSE createLocks[L]
      /\ \A l \in Lanes : l # L => createLocks'[l] = createLocks[l]
      /\ pc'[h] = "idle"
      /\ \A g \in Handlers : g # h => pc'[g] = pc[g]
  BY <1>2 DEF releaseLane, ServiceTypeOK
<1>4. \A l \in Lanes : Member(h, l) <=> l = L
  BY <1>2 DEF Member
<1>5. \A g \in Handlers, l \in Lanes : Member(g, l)' <=> g # h /\ Member(g, l)
  BY <1>3 DEF Member, lane, Chained
<1>6. \A g \in Handlers : Member(g, L) => rank[h] <= rank[g]
  BY <1>1, <1>4 DEF LaneOrder
<1>7. \A g \in Handlers : Member(g, L) /\ g # h => rank[h] < rank[g]
  BY <1>1, <1>4, <1>6 DEF LaneOrder
<1>8. None \notin Handlers
  BY ServiceAssumption
<1>9. \A g \in Handlers : previous[g] # None => previous[g] \in Handlers
  BY DEF ServiceTypeOK
<1>10. \A l \in Lanes : createLocks[l] # None => createLocks[l] \in Handlers
  BY DEF ServiceTypeOK
<1>11. ASSUME NEW l \in Lanes
       PROVE  /\ createLocks'[l] = None => \A g \in Handlers : ~ Member(g, l)'
              /\ createLocks'[l] # None =>
                   /\ \E u \in Handlers : u = createLocks'[l] /\ Member(u, l)'
                   /\ \A g \in Handlers : Member(g, l)' => rank[g] <= rank[createLocks'[l]]
  <2>1. CASE l = L /\ createLocks[L] = h
    <3>1. \A g \in Handlers : Member(g, L) => rank[g] <= rank[h]
      BY <1>1, <1>8, <2>1 DEF LaneOrder
    <3>2. \A g \in Handlers : Member(g, L) => g = h
      BY <1>1, <1>7, <3>1
    <3> QED BY <1>3, <1>5, <2>1, <3>2
  <2>2. CASE l = L /\ createLocks[L] # h
    BY <1>1, <1>3, <1>4, <1>5, <1>10, <2>2 DEF LaneOrder
  <2>3. CASE l # L
    BY <1>1, <1>3, <1>4, <1>5, <1>10, <2>3 DEF LaneOrder
  <2> QED BY <2>1, <2>2, <2>3
<1>12. ASSUME NEW l \in Lanes, NEW g \in Handlers, Member(g, l)',
              previous'[g] # None
       PROVE  /\ pc'[g] = "queued"
              /\ previous'[g] \in Handlers
              /\ \E u \in Handlers : u = previous'[g] /\ Member(u, l)'
              /\ rank[previous'[g]] < rank[g]
  <2>1. g # h /\ Member(g, l) /\ previous[g] # h /\ previous[g] # None
        /\ previous'[g] = previous[g]
    BY <1>3, <1>5, <1>12
  <2> QED BY <1>1, <1>3, <1>5, <1>9, <2>1 DEF LaneOrder
<1>13. ASSUME NEW l \in Lanes, NEW g \in Handlers, NEW x \in Handlers,
              Member(g, l)', Member(x, l)'
       PROVE  /\ rank[g] = rank[x] => g = x
              /\ previous'[g] = None => rank[g] <= rank[x]
              /\ previous'[g] # None => rank[x] <= rank[previous'[g]] \/ rank[g] <= rank[x]
  <2>1. Member(g, l) /\ Member(x, l) /\ g # h /\ x # h
    BY <1>5, <1>13
  <2>2. CASE previous[g] = h
    <3>1. l = L
      BY <1>1, <1>4, <1>8, <2>1, <2>2 DEF LaneOrder
    <3>2. rank[x] <= rank[h] \/ rank[g] <= rank[x]
      BY <1>1, <1>8, <2>1, <2>2 DEF LaneOrder
    <3>3. rank[h] < rank[x]
      BY <1>7, <2>1, <3>1
    <3>4. rank[g] <= rank[x]
      BY <1>1, <3>2, <3>3
    <3> QED BY <1>1, <1>3, <2>1, <2>2, <3>4 DEF LaneOrder
  <2>3. CASE previous[g] # h
    BY <1>1, <1>3, <2>1, <2>3 DEF LaneOrder
  <2> QED BY <2>2, <2>3
<1>14. LaneOrder(rank)'
  BY <1>11, <1>12, <1>13 DEF LaneOrder
<1> QED BY <1>1, <1>14 DEF LaneOrdered

\* Nobody joins or leaves, and only a handler past its gate moves.
LEMMA StayKeepsOrder ==
    ASSUME ServiceTypeOK, LaneOrdered, UNCHANGED lockVars,
           \A g \in Handlers :
              /\ pc'[g] \in Chained <=> pc[g] \in Chained
              /\ pc[g] \in Chained => call'[g] = call[g]
              /\ pc'[g] = pc[g] \/ previous[g] = None \/ pc[g] \notin Chained
    PROVE  LaneOrdered'
<1>1. PICK rank \in [Handlers -> Nat] : LaneOrder(rank)
  BY DEF LaneOrdered
<1>2. \A g \in Handlers, l \in Lanes : Member(g, l)' <=> Member(g, l)
  BY DEF Member, lane
<1>3. createLocks' = createLocks /\ previous' = previous
  BY DEF lockVars
<1>4. \A g \in Handlers : previous[g] # None => previous[g] \in Handlers
  BY DEF ServiceTypeOK
<1>5. \A l \in Lanes : createLocks[l] # None => createLocks[l] \in Handlers
  BY DEF ServiceTypeOK
<1>6. ASSUME NEW l \in Lanes
      PROVE  /\ createLocks'[l] = None => \A g \in Handlers : ~ Member(g, l)'
             /\ createLocks'[l] # None =>
                  /\ \E u \in Handlers : u = createLocks'[l] /\ Member(u, l)'
                  /\ \A g \in Handlers : Member(g, l)' => rank[g] <= rank[createLocks'[l]]
  BY <1>1, <1>2, <1>3, <1>5 DEF LaneOrder
<1>7. ASSUME NEW l \in Lanes, NEW g \in Handlers, Member(g, l)',
             previous'[g] # None
      PROVE  /\ pc'[g] = "queued"
             /\ previous'[g] \in Handlers
             /\ \E u \in Handlers : u = previous'[g] /\ Member(u, l)'
             /\ rank[previous'[g]] < rank[g]
  <2>1. Member(g, l) /\ pc[g] \in Chained /\ previous[g] # None
    BY <1>2, <1>3, <1>7 DEF Member
  <2> QED BY <1>1, <1>2, <1>3, <1>4, <2>1 DEF LaneOrder
<1>8. ASSUME NEW l \in Lanes, NEW g \in Handlers, NEW x \in Handlers,
             Member(g, l)', Member(x, l)'
      PROVE  /\ rank[g] = rank[x] => g = x
             /\ previous'[g] = None => rank[g] <= rank[x]
             /\ previous'[g] # None => rank[x] <= rank[previous'[g]] \/ rank[g] <= rank[x]
  BY <1>1, <1>2, <1>3, <1>8 DEF LaneOrder
<1>9. LaneOrder(rank)'
  BY <1>6, <1>7, <1>8 DEF LaneOrder
<1> QED BY <1>1, <1>9 DEF LaneOrdered

-----------------------------------------------------------------------------
(* The parts of a handler's step. *)

\* What a handler under way has brought along.
LEMMA UnderWay ==
    ASSUME CallUnderWay, NEW h \in Handlers, pc[h] # "idle"
    PROVE  /\ call[h].key \in Keys
           /\ call[h].key # None
           /\ call[h].dto \in Dto
           /\ lane(h) \in Lanes
<1>1. call[h].key \in Keys /\ call[h].dto \in Dto
  BY ServiceAssumption DEF CallUnderWay
<1> QED BY <1>1, ServiceAssumption DEF Dto, lane

\* Only a queued handler has somebody to wait for.
LEMMA PastGate ==
    ASSUME CallUnderWay, LaneOrdered, NEW h \in Handlers,
           pc[h] \in Chained, pc[h] # "queued"
    PROVE  previous[h] = None
<1>1. lane(h) \in Lanes /\ Member(h, lane(h))
  BY UnderWay DEF Chained, Member
<1> QED BY <1>1 DEF LaneOrdered, LaneOrder

\* A check that does not miss answers with the record or a conflict.
LEMMA CheckedAnswers ==
    ASSUME ServiceTypeOK, CallUnderWay, NEW h \in Handlers, pc[h] # "idle",
           ~ Miss(h)
    PROVE  /\ checked(h) \in Answer
           /\ checked(h).code \in {"CREATED", "IDEMPOTENCY_CONFLICT"}
           /\ checked(h).code = "CREATED" =>
                 /\ Hit(h)
                 /\ checked(h).id = records[call[h].key].id
                 /\ checked(h).id \in RequestIds
<1>1. records[call[h].key] \in Record
  BY UnderWay DEF Miss, Live, ServiceTypeOK
<1>2. records[call[h].key].id \in RequestIds
  BY <1>1 DEF Record
<1> QED BY <1>2 DEF checked, Created, Error, Answer, Errors

\* The answer of reply is the handler's, and nobody else's changes.
LEMMA ReplyTypes ==
    ASSUME ServiceTypeOK, NEW h \in Handlers, NEW a \in Answer, reply(h, a)
    PROVE  /\ pc' \in [Handlers -> {"idle", "check", "queued", "transaction",
                                    "committed", "constraint", "transient",
                                    "findConstraint", "findTransient"}]
           /\ call' \in [Handlers -> Call]
           /\ attempt' \in [Handlers -> 0 .. MaxAttempts]
           /\ answer' \in [Handlers -> Answer]
BY DEF ServiceTypeOK, reply

\* Leaving a lane keeps the types of the chain.
LEMMA ReleaseTypes ==
    ASSUME ServiceTypeOK, NEW h \in Handlers, releaseLane(h)
    PROVE  /\ createLocks' \in [Lanes -> Handlers \cup {None}]
           /\ previous' \in [Handlers -> Handlers \cup {None}]
BY DEF ServiceTypeOK, releaseLane

\* The parts of ServiceTypeOK that are the service's own.
OwnTypes ==
    /\ reqKey \in [RequestIds -> Keys \cup {None}]
    /\ records \in [Keys -> Record \cup {None}]
    /\ createLocks \in [Lanes -> Handlers \cup {None}]
    /\ pc \in [Handlers -> {"idle", "check", "queued", "transaction",
                            "committed", "constraint", "transient",
                            "findConstraint", "findTransient"}]
    /\ call \in [Handlers -> Call]
    /\ attempt \in [Handlers -> 0 .. MaxAttempts]
    /\ previous \in [Handlers -> Handlers \cup {None}]
    /\ answer \in [Handlers -> Answer]
    /\ now \in Nat

\* A handler that leaves its lane with an answer keeps the types.
LEMMA FinishTypes ==
    ASSUME ServiceTypeOK, NEW h \in Handlers, NEW a \in Answer, finish(h, a),
           UNCHANGED <<tables, now>>
    PROVE  OwnTypes'
<1>1. UNCHANGED <<reqKey, records, now>>
  BY DEF tables
<1> QED BY <1>1, ReplyTypes, ReleaseTypes DEF finish, OwnTypes, ServiceTypeOK

\* Every error is an answer.
LEMMA ErrorTypes ==
    ASSUME NEW e \in Errors \cup {"NONE"}
    PROVE  /\ Error(e) \in Answer
           /\ Error(e).code = e
           /\ Error(e).code # "CREATED"
BY DEF Error, Answer, Errors

\* The body of the transaction throws one of its three errors.
LEMMA RefusedTypes ==
    ASSUME NEW dto
    PROVE  refused(dto) \in {"OVERLAPPING_REQUEST", "BALANCE_NOT_FOUND",
                             "INSUFFICIENT_BALANCE", "NONE"}
BY DEF refused

\* Every step keeps the types of the service's own state.
LEMMA TypesPreserved ==
    ASSUME ServiceTypeOK, CallUnderWay, Next
    PROVE  OwnTypes'
<1>1. ASSUME NEW h \in Handlers, NEW k \in Keys \cup {None}, NEW dto \in Payloads,
             createRequest(h, k, dto)
      PROVE  OwnTypes'
  <2>1. [key |-> k, dto |-> dto] \in Call
    BY ServiceAssumption DEF Call
  <2>2. UNCHANGED <<reqKey, records, createLocks, previous, now>>
    BY <1>1 DEF createRequest, tables, lockVars
  <2>3. PICK e \in Errors \cup {"NONE"} :
           answer' = [answer EXCEPT ![h] = Error(e)]
    BY <1>1 DEF createRequest, Errors
  <2>4. answer' \in [Handlers -> Answer]
    BY <2>3, ErrorTypes DEF ServiceTypeOK
  <2>5. 0 \in 0 .. MaxAttempts
    BY ServiceAssumption
  <2>6. /\ call' \in [Handlers -> Call]
        /\ attempt' \in [Handlers -> 0 .. MaxAttempts]
    BY <1>1, <2>1, <2>5 DEF createRequest, ServiceTypeOK
  <2>7. pc' \in [Handlers -> {"idle", "check", "queued", "transaction",
                              "committed", "constraint", "transient",
                              "findConstraint", "findTransient"}]
    BY <1>1 DEF createRequest, ServiceTypeOK
  <2> QED BY <2>2, <2>4, <2>6, <2>7 DEF OwnTypes, ServiceTypeOK
<1>2. ASSUME NEW h \in Handlers, checkIdempotency(h)
      PROVE  OwnTypes'
  <2>1. lane(h) \in Lanes /\ UNCHANGED <<reqKey, records, now>>
    BY <1>2, UnderWay DEF checkIdempotency, tables
  <2>2. CASE Miss(h)
    BY <1>2, <2>1, <2>2
    DEF checkIdempotency, goto, joinLane, OwnTypes, ServiceTypeOK
  <2>3. CASE ~ Miss(h)
    <3>1. reply(h, checked(h)) /\ checked(h) \in Answer /\ UNCHANGED lockVars
      BY <1>2, <2>3, CheckedAnswers DEF checkIdempotency
    <3> QED BY <2>1, <3>1, ReplyTypes DEF lockVars, OwnTypes, ServiceTypeOK
  <2> QED BY <2>2, <2>3
<1>3. ASSUME NEW h \in Handlers, checkLocked(h)
      PROVE  OwnTypes'
  <2>1. pc[h] # "idle" /\ UNCHANGED <<tables, now>>
    BY <1>3 DEF checkLocked, AtGate
  <2>2. CASE Miss(h)
    BY <1>3, <2>1, <2>2, ServiceAssumption
    DEF checkLocked, goto, startTransaction, lockVars, tables, OwnTypes, ServiceTypeOK
  <2>3. CASE ~ Miss(h)
    BY <1>3, <2>1, <2>3, CheckedAnswers, FinishTypes DEF checkLocked
  <2> QED BY <2>2, <2>3
<1>4. ASSUME NEW h \in Handlers, transactionRefused(h)
      PROVE  OwnTypes'
  <2>1. Error(refused(call[h].dto)) \in Answer
    BY RefusedTypes, ErrorTypes DEF Errors
  <2> QED BY <1>4, <2>1, FinishTypes DEF transactionRefused
<1>5. ASSUME NEW h \in Handlers, transactionConstraint(h)
      PROVE  OwnTypes'
  BY <1>5 DEF transactionConstraint, goto, tables, lockVars, OwnTypes, ServiceTypeOK
<1>6. ASSUME NEW h \in Handlers, transactionCommits(h)
      PROVE  OwnTypes'
  <2>1. /\ call[h].key \in Keys
        /\ call[h].dto \in Dto
    BY <1>6, UnderWay DEF transactionCommits
  <2>2. PICK id \in RequestIds : commit(h, id)
    BY <1>6 DEF transactionCommits
  <2>3. newRecord(call[h].dto, id) \in Record
    BY <2>1, ServiceAssumption DEF newRecord, Record, ServiceTypeOK
  <2>4. /\ reqKey' \in [RequestIds -> Keys \cup {None}]
        /\ records' \in [Keys -> Record \cup {None}]
    BY <2>1, <2>2, <2>3 DEF commit, ServiceTypeOK
  <2> QED BY <1>6, <2>4
          DEF transactionCommits, goto, lockVars, OwnTypes, ServiceTypeOK
<1>7. ASSUME NEW h \in Handlers, respond(h)
      PROVE  OwnTypes'
  <2>1. PICK id \in RequestIds : finish(h, Created(id))
    BY <1>7 DEF respond
  <2>2. Created(id) \in Answer
    BY DEF Created, Answer
  <2> QED BY <1>7, <2>1, <2>2, FinishTypes DEF respond
<1>8. ASSUME NEW h \in Handlers, transactionTransient(h)
      PROVE  OwnTypes'
  <2>1. attempt[h] \in 0 .. MaxAttempts
    BY DEF ServiceTypeOK
  <2>2. AttemptsLeft(h) => attempt[h] + 1 \in 0 .. MaxAttempts
    BY <2>1, ServiceAssumption DEF AttemptsLeft
  <2> QED BY <1>8, <2>2
          DEF transactionTransient, goto, tables, lockVars, OwnTypes, ServiceTypeOK
<1>9. ASSUME NEW h \in Handlers, recover(h)
      PROVE  OwnTypes'
  <2>1. pc[h] # "idle" /\ UNCHANGED <<tables, now>>
    BY <1>9 DEF recover
  <2>2. CASE Miss(h)
    BY <1>9, <2>1, <2>2
    DEF recover, goto, lockVars, tables, OwnTypes, ServiceTypeOK
  <2>3. CASE ~ Miss(h)
    BY <1>9, <2>1, <2>3, CheckedAnswers, FinishTypes DEF recover
  <2> QED BY <2>2, <2>3
<1>10. ASSUME NEW h \in Handlers, findExisting(h)
       PROVE  OwnTypes'
  <2>1. ASSUME NEW id \in RequestIds
        PROVE  Created(id) \in Answer
    BY DEF Created, Answer
  <2>2. /\ Error("BALANCE_CONFLICT") \in Answer
        /\ Error("INTERNAL_ERROR") \in Answer
    BY ErrorTypes DEF Errors
  <2>3. PICK a \in Answer : finish(h, a) /\ UNCHANGED <<tables, now>>
    BY <1>10, <2>1, <2>2 DEF findExisting
  <2> QED BY <2>3, FinishTypes
<1>11. ASSUME NEW h \in Handlers, databaseFails(h)
       PROVE  OwnTypes'
  <2>1. Error("INTERNAL_ERROR") \in Answer
    BY ErrorTypes DEF Errors
  <2>2. CASE finish(h, Error("INTERNAL_ERROR"))
    BY <1>11, <2>1, <2>2, FinishTypes DEF databaseFails
  <2>3. CASE reply(h, Error("INTERNAL_ERROR")) /\ UNCHANGED lockVars
    BY <1>11, <2>1, <2>3, ReplyTypes
    DEF databaseFails, lockVars, tables, OwnTypes, ServiceTypeOK
  <2> QED BY <1>11, <2>2, <2>3 DEF databaseFails
<1>12. CASE Others
  BY <1>12 DEF Others, lockVars, handlerVars, OwnTypes, ServiceTypeOK
<1>13. CASE Crash
  <2>1. /\ Error("NONE") \in Answer
        /\ 0 \in 0 .. MaxAttempts
        /\ [key |-> None, dto |-> None] \in Call
    BY ErrorTypes, ServiceAssumption DEF Call
  <2> QED BY <1>13, <2>1 DEF Crash, Fresh, tables, OwnTypes, ServiceTypeOK
<1>14. CASE Tick
  BY <1>14 DEF Tick, tables, lockVars, handlerVars, OwnTypes, ServiceTypeOK
<1> QED BY <1>1, <1>2, <1>3, <1>4, <1>5, <1>6, <1>7, <1>8, <1>9, <1>10, <1>11,
           <1>12, <1>13, <1>14 DEF Next, Step

-----------------------------------------------------------------------------
(* How a handler comes to be where a step leaves it. *)

PastCheck == {"transaction", "constraint", "transient", "findConstraint",
              "findTransient"}

Refusals == {"OVERLAPPING_REQUEST", "BALANCE_NOT_FOUND", "INSUFFICIENT_BALANCE",
             "BALANCE_CONFLICT", "IDEMPOTENCY_CONFLICT"}

\* Under way with checked arguments and no answer.
UnderWayNext(h) ==
    pc'[h] # "idle" =>
        /\ call'[h].key \in Keys
        /\ call'[h].dto \in Payloads
        /\ WellFormed(call'[h].dto)
        /\ answer'[h].code = "NONE"

\* Past the check under the lock: it was there before, or it has just missed.
PastCheckNext(h) ==
    pc'[h] \in PastCheck =>
        /\ call'[h] = call[h]
        /\ pc[h] \in PastCheck \/ (Miss(h) /\ UNCHANGED <<records, now>>)
        /\ pc[h] \in Chained

\* Committed: it was, or its transaction is the step.
CommittedNext(h) ==
    pc'[h] = "committed" =>
        /\ call'[h] = call[h]
        /\ pc[h] # "idle"
        /\ \/ pc[h] = "committed"
           \/ records'[call[h].key] # None /\ records'[call[h].key].dto = call[h].dto

\* Answered 201: it was, or the step found the request by its key.
AnsweredNext(h) ==
    answer'[h].code = "CREATED" =>
        /\ call'[h] = call[h]
        /\ \/ answer'[h] = answer[h]
           \/ /\ UNCHANGED <<requests, reqKey, records, now>>
              /\ pc[h] # "idle"
              /\ answer'[h].id \in RequestIds
              /\ \/ Hit(h) /\ answer'[h].id = records[call[h].key].id
                 \/ /\ pc[h] \in {"committed", "findConstraint", "findTransient"}
                    /\ reqKey[answer'[h].id] = call[h].key

\* Refused: by a check, by its transaction, or for want of a request.
RefusedNext(h) ==
    (answer'[h] # answer[h] /\ answer'[h].code \in Refusals) =>
        /\ call'[h] = call[h]
        /\ pc[h] # "idle"
        /\ \/ ~ Miss(h) /\ ~ Hit(h)
           \/ pc[h] = "transaction"
           \/ \A i \in RequestIds : reqKey[i] # call[h].key

Moves(h) ==
    /\ UnderWayNext(h)
    /\ PastCheckNext(h)
    /\ CommittedNext(h)
    /\ AnsweredNext(h)
    /\ RefusedNext(h)

\* A handler the step leaves alone.
LEMMA UntouchedMoves ==
    ASSUME CallUnderWay, NEW h \in Handlers,
           pc'[h] = pc[h], call'[h] = call[h], answer'[h] = answer[h]
    PROVE  Moves(h)
<1>1. UnderWayNext(h)
  BY DEF CallUnderWay, UnderWayNext
<1>2. PastCheckNext(h) /\ CommittedNext(h)
  BY DEF PastCheckNext, CommittedNext, PastCheck, Chained
<1>3. AnsweredNext(h) /\ RefusedNext(h)
  BY DEF AnsweredNext, RefusedNext
<1> QED BY <1>1, <1>2, <1>3 DEF Moves

\* A handler that moves on without an answer.
LEMMA GotoMoves ==
    ASSUME ServiceTypeOK, CallUnderWay, NEW h \in Handlers, pc[h] # "idle",
           NEW label, goto(h, label),
           label \in PastCheck =>
              /\ pc[h] \in PastCheck \/ (Miss(h) /\ UNCHANGED <<records, now>>)
              /\ pc[h] \in Chained,
           label = "committed" => records'[call[h].key] # None
                                  /\ records'[call[h].key].dto = call[h].dto
    PROVE  \A g \in Handlers : Moves(g)
<1> SUFFICES ASSUME NEW g \in Handlers
             PROVE  Moves(g)
  OBVIOUS
<1>1. pc'[h] = label /\ call' = call /\ answer' = answer
  BY DEF goto, ServiceTypeOK
<1>2. CASE g # h
  BY <1>1, <1>2, UntouchedMoves DEF goto, ServiceTypeOK
<1>3. CASE g = h
  <2>1. UnderWayNext(h)
    BY <1>1 DEF CallUnderWay, UnderWayNext
  <2>2. PastCheckNext(h) /\ CommittedNext(h)
    BY <1>1 DEF PastCheckNext, CommittedNext
  <2>3. AnsweredNext(h) /\ RefusedNext(h)
    BY <1>1 DEF AnsweredNext, RefusedNext
  <2> QED BY <1>3, <2>1, <2>2, <2>3 DEF Moves
<1> QED BY <1>2, <1>3

\* A handler that answers.
LEMMA ReplyMoves ==
    ASSUME ServiceTypeOK, CallUnderWay, NEW h \in Handlers, pc[h] # "idle",
           UNCHANGED <<tables, now>>, NEW a, reply(h, a),
           a.code = "CREATED" =>
              /\ a.id \in RequestIds
              /\ \/ Hit(h) /\ a.id = records[call[h].key].id
                 \/ /\ pc[h] \in {"committed", "findConstraint", "findTransient"}
                    /\ reqKey[a.id] = call[h].key,
           a.code \in Refusals =>
              \/ ~ Miss(h) /\ ~ Hit(h)
              \/ pc[h] = "transaction"
              \/ \A i \in RequestIds : reqKey[i] # call[h].key
    PROVE  \A g \in Handlers : Moves(g)
<1> SUFFICES ASSUME NEW g \in Handlers
             PROVE  Moves(g)
  OBVIOUS
<1>1. pc'[h] = "idle" /\ answer'[h] = a /\ call' = call
  BY DEF reply, ServiceTypeOK
<1>2. UNCHANGED <<requests, reqKey, records, now>>
  BY DEF tables
<1>3. CASE g # h
  BY <1>1, <1>3, UntouchedMoves DEF reply, ServiceTypeOK
<1>4. CASE g = h
  <2>1. UnderWayNext(h) /\ PastCheckNext(h) /\ CommittedNext(h)
    BY <1>1 DEF UnderWayNext, PastCheckNext, CommittedNext, PastCheck
  <2>2. AnsweredNext(h)
    BY <1>1, <1>2 DEF AnsweredNext
  <2>3. RefusedNext(h)
    BY <1>1 DEF RefusedNext
  <2> QED BY <1>4, <2>1, <2>2, <2>3 DEF Moves
<1> QED BY <1>3, <1>4

\* The answer of a check that did not miss.
LEMMA CheckedMoves ==
    ASSUME ServiceTypeOK, CallUnderWay, NEW h \in Handlers, pc[h] # "idle",
           UNCHANGED <<tables, now>>, ~ Miss(h), reply(h, checked(h))
    PROVE  \A g \in Handlers : Moves(g)
<1>1. /\ checked(h).code = "CREATED" =>
           /\ Hit(h) /\ checked(h).id = records[call[h].key].id
           /\ checked(h).id \in RequestIds
      /\ checked(h).code = "IDEMPOTENCY_CONFLICT" => ~ Hit(h)
      /\ checked(h).code \in {"CREATED", "IDEMPOTENCY_CONFLICT"}
  BY CheckedAnswers DEF checked, Created
<1>2. checked(h).code \in Refusals => ~ Hit(h)
  BY <1>1 DEF Refusals
<1> HIDE DEF checked
<1> QED BY <1>1, <1>2, ReplyMoves

\* Every step moves every handler in one of these ways.
LEMMA HandlersMove ==
    ASSUME ServiceTypeOK, CallUnderWay, Next
    PROVE  \A g \in Handlers : Moves(g)
<1>1. ASSUME NEW h \in Handlers, NEW k \in Keys \cup {None}, NEW dto \in Payloads,
             createRequest(h, k, dto)
      PROVE  \A g \in Handlers : Moves(g)
  <2>1. /\ call'[h].key = k /\ call'[h].dto = dto
        /\ pc'[h] \in {"idle", "check"}
        /\ pc'[h] = "check" => k # None /\ ~ Invalid(dto) /\ answer'[h] = Error("NONE")
        /\ answer'[h] \in {Error("MISSING_IDEMPOTENCY_KEY"),
                           Error("INVALID_DATE_RANGE"), Error("NONE")}
    BY <1>1 DEF createRequest, ServiceTypeOK
  <2>2. \A g \in Handlers : g # h =>
           pc'[g] = pc[g] /\ call'[g] = call[g] /\ answer'[g] = answer[g]
    BY <1>1 DEF createRequest, ServiceTypeOK
  <2>3. /\ answer'[h].code \in {"MISSING_IDEMPOTENCY_KEY", "INVALID_DATE_RANGE", "NONE"}
        /\ pc'[h] = "check" => answer'[h].code = "NONE"
    BY <2>1 DEF Error
  <2>4. ~ Invalid(dto) => WellFormed(dto)
    BY ServiceAssumption, LedgerAssumption DEF Invalid, WellFormed, Dto, Days
  <2>5. UnderWayNext(h)
    BY <2>1, <2>3, <2>4 DEF UnderWayNext
  <2>6. PastCheckNext(h) /\ CommittedNext(h)
    BY <2>1 DEF PastCheckNext, CommittedNext, PastCheck
  <2>7. AnsweredNext(h) /\ RefusedNext(h)
    BY <2>3 DEF AnsweredNext, RefusedNext, Refusals
  <2> QED BY <2>2, <2>5, <2>6, <2>7, UntouchedMoves DEF Moves
<1>2. ASSUME NEW h \in Handlers, checkIdempotency(h)
      PROVE  \A g \in Handlers : Moves(g)
  <2>1. CASE Miss(h)
    <3>1. goto(h, "queued") /\ pc[h] # "idle"
      BY <1>2, <2>1 DEF checkIdempotency
    <3> QED BY <3>1, GotoMoves DEF PastCheck
  <2>2. CASE ~ Miss(h)
    BY <1>2, <2>2, CheckedMoves DEF checkIdempotency
  <2> QED BY <2>1, <2>2
<1>3. ASSUME NEW h \in Handlers, checkLocked(h)
      PROVE  \A g \in Handlers : Moves(g)
  <2>1. pc[h] = "queued" /\ UNCHANGED <<tables, now>>
    BY <1>3 DEF checkLocked, AtGate
  <2>2. CASE Miss(h)
    <3>1. goto(h, "transaction") /\ UNCHANGED <<records, now>>
      BY <1>3, <2>1, <2>2 DEF checkLocked, startTransaction, tables
    <3> QED BY <2>1, <2>2, <3>1, GotoMoves DEF Chained
  <2>3. CASE ~ Miss(h)
    BY <1>3, <2>1, <2>3, CheckedMoves DEF checkLocked, finish
  <2> QED BY <2>2, <2>3
<1>4. ASSUME NEW h \in Handlers, transactionRefused(h)
      PROVE  \A g \in Handlers : Moves(g)
  <2>1. PICK a : /\ a = Error(refused(call[h].dto))
                 /\ a.code # "CREATED"
    BY RefusedTypes, ErrorTypes DEF Errors
  <2> QED BY <1>4, <2>1, ReplyMoves DEF transactionRefused, finish
<1>5. ASSUME NEW h \in Handlers, transactionConstraint(h)
      PROVE  \A g \in Handlers : Moves(g)
  BY <1>5, GotoMoves DEF transactionConstraint, PastCheck, Chained
<1>6. ASSUME NEW h \in Handlers, transactionCommits(h)
      PROVE  \A g \in Handlers : Moves(g)
  <2>1. PICK id \in RequestIds :
           records' = [records EXCEPT ![call[h].key] = newRecord(call[h].dto, id)]
    BY <1>6 DEF transactionCommits, commit
  <2>2. records'[call[h].key] = newRecord(call[h].dto, id)
    BY <1>6, <2>1, UnderWay DEF transactionCommits, ServiceTypeOK
  <2>3. call[h].dto \in Dto
    BY <1>6, UnderWay DEF transactionCommits
  <2>4. records'[call[h].key] # None /\ records'[call[h].key].dto = call[h].dto
    <3>1. newRecord(call[h].dto, id) \in Record
      BY <2>3, ServiceAssumption DEF newRecord, Record, ServiceTypeOK
    <3> QED BY <2>2, <3>1, ServiceAssumption DEF newRecord
  <2> QED BY <1>6, <2>4, GotoMoves DEF transactionCommits, PastCheck
<1>7. ASSUME NEW h \in Handlers, respond(h)
      PROVE  \A g \in Handlers : Moves(g)
  <2>1. PICK id \in RequestIds : reqKey[id] = call[h].key /\ finish(h, Created(id))
    BY <1>7 DEF respond
  <2>2. Created(id).code = "CREATED" /\ Created(id).id = id
    BY DEF Created
  <2> HIDE DEF Created
  <2> QED BY <1>7, <2>1, <2>2, ReplyMoves DEF respond, finish, Refusals
<1>8. ASSUME NEW h \in Handlers, transactionTransient(h)
      PROVE  \A g \in Handlers : Moves(g)
  <2>1. CASE AttemptsLeft(h)
    BY <1>8, <2>1, UntouchedMoves DEF transactionTransient
  <2>2. CASE ~ AttemptsLeft(h)
    BY <1>8, <2>2, GotoMoves DEF transactionTransient, PastCheck, Chained
  <2> QED BY <2>1, <2>2
<1>9. ASSUME NEW h \in Handlers, recover(h)
      PROVE  \A g \in Handlers : Moves(g)
  <2>1. CASE Miss(h)
    BY <1>9, <2>1, GotoMoves DEF recover, PastCheck, Chained
  <2>2. CASE ~ Miss(h)
    BY <1>9, <2>2, CheckedMoves DEF recover, finish
  <2> QED BY <2>1, <2>2
<1>10. ASSUME NEW h \in Handlers, findExisting(h)
       PROVE  \A g \in Handlers : Moves(g)
  <2>1. ASSUME NEW i \in RequestIds, reqKey[i] = call[h].key, finish(h, Created(i))
        PROVE  \A g \in Handlers : Moves(g)
    <3>1. Created(i).code = "CREATED" /\ Created(i).id = i
      BY DEF Created
    <3> HIDE DEF Created
    <3> QED BY <1>10, <2>1, <3>1, ReplyMoves DEF findExisting, finish, Refusals
  <2>2. ASSUME \A i \in RequestIds : reqKey[i] # call[h].key,
               NEW a, a \in {Error("BALANCE_CONFLICT"), Error("INTERNAL_ERROR")},
               finish(h, a)
        PROVE  \A g \in Handlers : Moves(g)
    <3>1. a.code # "CREATED"
      BY <2>2 DEF Error
    <3> QED BY <1>10, <2>2, <3>1, ReplyMoves DEF findExisting, finish
  <2> QED BY <1>10, <2>1, <2>2 DEF findExisting
<1>11. ASSUME NEW h \in Handlers, databaseFails(h)
       PROVE  \A g \in Handlers : Moves(g)
  <2>1. Error("INTERNAL_ERROR").code = "INTERNAL_ERROR"
    BY DEF Error
  <2>2. /\ reply(h, Error("INTERNAL_ERROR"))
        /\ pc[h] # "idle"
        /\ UNCHANGED <<tables, now>>
    BY <1>11 DEF databaseFails, finish, AtGate
  <2> HIDE DEF Error
  <2> QED BY <2>1, <2>2, ReplyMoves DEF Refusals
<1>12. CASE Others
  BY <1>12, UntouchedMoves DEF Others, handlerVars
<1>13. CASE Crash
  <2>1. ASSUME NEW g \in Handlers
        PROVE  pc'[g] = "idle" /\ answer'[g] = Error("NONE")
    BY <1>13 DEF Crash, Fresh
  <2>2. Error("NONE").code = "NONE"
    BY DEF Error
  <2> HIDE DEF Error
  <2> QED BY <2>1, <2>2 DEF Moves, UnderWayNext, PastCheckNext, CommittedNext,
                            AnsweredNext, RefusedNext, PastCheck, Refusals
<1>14. CASE Tick
  BY <1>14, UntouchedMoves DEF Tick, handlerVars
<1> QED BY <1>1, <1>2, <1>3, <1>4, <1>5, <1>6, <1>7, <1>8, <1>9, <1>10, <1>11,
           <1>12, <1>13, <1>14 DEF Next, Step

\* Lanes without handlers are in order.
LEMMA EmptyLanes ==
    ASSUME \A l \in Lanes : createLocks[l] = None,
           \A g \in Handlers : pc[g] = "idle"
    PROVE  LaneOrdered
<1>1. PICK rank \in [Handlers -> Nat] : TRUE
  <2>1. [h \in Handlers |-> 0] \in [Handlers -> Nat]
    OBVIOUS
  <2> QED BY <2>1
<1>2. \A g \in Handlers, l \in Lanes : ~ Member(g, l)
  BY DEF Member, Chained
<1>3. LaneOrder(rank)
  BY <1>2 DEF LaneOrder
<1> QED BY <1>3 DEF LaneOrdered

\* The same in the next state.
LEMMA EmptyLanesPrime ==
    ASSUME \A l \in Lanes : createLocks'[l] = None,
           \A g \in Handlers : pc'[g] = "idle"
    PROVE  LaneOrdered'
<1>1. PICK rank \in [Handlers -> Nat] : TRUE
  <2>1. [h \in Handlers |-> 0] \in [Handlers -> Nat]
    OBVIOUS
  <2> QED BY <2>1
<1>2. \A g \in Handlers, l \in Lanes : ~ Member(g, l)'
  BY DEF Member, Chained
<1>3. LaneOrder(rank)'
  BY <1>2 DEF LaneOrder
<1> QED BY <1>3 DEF LaneOrdered

-----------------------------------------------------------------------------
(* The invariant is inductive. *)

\* A handler that answers from past its gate leaves the order in place.
LEMMA FinishKeepsOrder ==
    ASSUME ServiceTypeOK, CallUnderWay, LaneOrdered, NEW h \in Handlers,
           AtGate(h) \/ (pc[h] \in Chained /\ pc[h] # "queued"),
           NEW a, finish(h, a)
    PROVE  LaneOrdered'
<1>1. pc[h] \in Chained /\ previous[h] = None
  BY PastGate DEF AtGate, Chained
<1>2. lane(h) \in Lanes
  BY <1>1, UnderWay DEF Chained
<1> QED BY <1>1, <1>2, ReleaseKeepsOrder DEF finish, reply

\* A handler that moves on within its lane leaves the order in place.
LEMMA GotoKeepsOrder ==
    ASSUME ServiceTypeOK, CallUnderWay, LaneOrdered, NEW h \in Handlers,
           AtGate(h) \/ (pc[h] \in Chained /\ pc[h] # "queued"),
           UNCHANGED lockVars, NEW label \in Chained, goto(h, label)
    PROVE  LaneOrdered'
<1>1. pc[h] \in Chained /\ previous[h] = None
  BY PastGate DEF AtGate, Chained
<1>2. \A g \in Handlers :
         /\ pc'[g] \in Chained <=> pc[g] \in Chained
         /\ pc[g] \in Chained => call'[g] = call[g]
         /\ pc'[g] = pc[g] \/ previous[g] = None \/ pc[g] \notin Chained
  BY <1>1 DEF goto, ServiceTypeOK
<1> QED BY <1>2, StayKeepsOrder

\* Every step keeps the lanes in order.
LEMMA LanesPreserved ==
    ASSUME ServiceTypeOK, CallUnderWay, LaneOrdered, Next
    PROVE  LaneOrdered'
<1>1. ASSUME NEW h \in Handlers, NEW k \in Keys \cup {None}, NEW dto \in Payloads,
             createRequest(h, k, dto)
      PROVE  LaneOrdered'
  <2>1. \A g \in Handlers :
           /\ pc'[g] \in Chained <=> pc[g] \in Chained
           /\ pc[g] \in Chained => call'[g] = call[g]
           /\ pc'[g] = pc[g] \/ previous[g] = None \/ pc[g] \notin Chained
    BY <1>1 DEF createRequest, ServiceTypeOK, Chained
  <2> QED BY <1>1, <2>1, StayKeepsOrder DEF createRequest
<1>2. ASSUME NEW h \in Handlers, checkIdempotency(h)
      PROVE  LaneOrdered'
  <2>1. CASE Miss(h)
    <3>1. lane(h) \in Lanes
      BY <1>2, UnderWay DEF checkIdempotency
    <3> QED BY <1>2, <2>1, <3>1, JoinKeepsOrder DEF checkIdempotency, goto
  <2>2. CASE ~ Miss(h)
    <3>1. \A g \in Handlers :
             /\ pc'[g] \in Chained <=> pc[g] \in Chained
             /\ pc[g] \in Chained => call'[g] = call[g]
             /\ pc'[g] = pc[g] \/ previous[g] = None \/ pc[g] \notin Chained
      BY <1>2, <2>2 DEF checkIdempotency, reply, ServiceTypeOK, Chained
    <3> QED BY <1>2, <2>2, <3>1, StayKeepsOrder DEF checkIdempotency
  <2> QED BY <2>1, <2>2
<1>3. ASSUME NEW h \in Handlers, checkLocked(h)
      PROVE  LaneOrdered'
  <2>1. "transaction" \in Chained
    BY DEF Chained
  <2> QED BY <1>3, <2>1, FinishKeepsOrder, GotoKeepsOrder
          DEF checkLocked, startTransaction
<1>4. ASSUME NEW h \in Handlers, transactionRefused(h)
      PROVE  LaneOrdered'
  BY <1>4, FinishKeepsOrder DEF transactionRefused, Chained
<1>5. ASSUME NEW h \in Handlers, transactionConstraint(h)
      PROVE  LaneOrdered'
  BY <1>5, GotoKeepsOrder DEF transactionConstraint, Chained
<1>6. ASSUME NEW h \in Handlers, transactionCommits(h)
      PROVE  LaneOrdered'
  BY <1>6, GotoKeepsOrder DEF transactionCommits, Chained
<1>7. ASSUME NEW h \in Handlers, respond(h)
      PROVE  LaneOrdered'
  BY <1>7, FinishKeepsOrder DEF respond, Chained
<1>8. ASSUME NEW h \in Handlers, transactionTransient(h)
      PROVE  LaneOrdered'
  <2>1. CASE AttemptsLeft(h)
    BY <1>8, <2>1, StayKeepsOrder DEF transactionTransient
  <2>2. CASE ~ AttemptsLeft(h)
    BY <1>8, <2>2, GotoKeepsOrder DEF transactionTransient, Chained
  <2> QED BY <2>1, <2>2
<1>9. ASSUME NEW h \in Handlers, recover(h)
      PROVE  LaneOrdered'
  <2>1. CASE Miss(h)
    BY <1>9, <2>1, GotoKeepsOrder DEF recover, Chained
  <2>2. CASE ~ Miss(h)
    BY <1>9, <2>2, FinishKeepsOrder DEF recover, Chained
  <2> QED BY <2>1, <2>2
<1>10. ASSUME NEW h \in Handlers, findExisting(h)
       PROVE  LaneOrdered'
  BY <1>10, FinishKeepsOrder DEF findExisting, Chained
<1>11. ASSUME NEW h \in Handlers, databaseFails(h)
       PROVE  LaneOrdered'
  <2>1. CASE pc[h] = "check"
    <3>1. /\ UNCHANGED lockVars
          /\ \A g \in Handlers :
               /\ pc'[g] \in Chained <=> pc[g] \in Chained
               /\ pc[g] \in Chained => call'[g] = call[g]
               /\ pc'[g] = pc[g] \/ previous[g] = None \/ pc[g] \notin Chained
      BY <1>11, <2>1 DEF databaseFails, AtGate, reply, ServiceTypeOK, Chained
    <3> QED BY <3>1, StayKeepsOrder
  <2>2. CASE pc[h] # "check"
    BY <1>11, <2>2, FinishKeepsOrder DEF databaseFails, Chained
  <2> QED BY <2>1, <2>2
<1>12. CASE Others
  BY <1>12, StayKeepsOrder DEF Others, handlerVars
<1>13. CASE Crash
  <2>1. /\ \A l \in Lanes : createLocks'[l] = None
        /\ \A g \in Handlers : pc'[g] = "idle"
    BY <1>13 DEF Crash, Fresh
  <2> QED BY <2>1, EmptyLanesPrime
<1>14. CASE Tick
  BY <1>14, StayKeepsOrder DEF Tick, handlerVars
<1> QED BY <1>1, <1>2, <1>3, <1>4, <1>5, <1>6, <1>7, <1>8, <1>9, <1>10, <1>11,
           <1>12, <1>13, <1>14 DEF Next, Step

\* Every step of the service is a transaction of the ledger or none.
LEMMA StepsAreTransactions ==
    ASSUME ServiceTypeOK, CallUnderWay, [Next]_vars
    PROVE  [LedgerNext]_ledgerVars
<1>1. ASSUME NEW h \in Handlers, transactionCommits(h)
      PROVE  LedgerNext
  <2>1. call[h].dto \in Dto
    BY <1>1, UnderWay DEF transactionCommits
  <2> QED BY <1>1, <2>1 DEF transactionCommits, commit, LedgerNext
<1>2. CASE Others
  BY <1>2 DEF Others, LedgerNext
<1>3. CASE UNCHANGED tables
  BY <1>3 DEF tables, ledgerVars
<1>4. CASE UNCHANGED vars
  BY <1>3, <1>4 DEF vars
<1>5. ASSUME NEW h \in Handlers, NEW k \in Keys \cup {None}, NEW dto \in Payloads,
             createRequest(h, k, dto)
      PROVE  UNCHANGED tables
  BY <1>5 DEF createRequest
<1>6. ASSUME NEW h \in Handlers, Step(h), ~ transactionCommits(h)
      PROVE  UNCHANGED tables
  BY <1>6 DEF Step, checkIdempotency, checkLocked, transactionRefused,
     transactionConstraint, respond, transactionTransient, recover, findExisting,
     databaseFails
<1>7. CASE Crash \/ Tick
  BY <1>3, <1>7 DEF Crash, Tick
<1> QED BY <1>1, <1>2, <1>3, <1>4, <1>5, <1>6, <1>7 DEF Next

\* A step commits one handler's transaction, runs another endpoint's, or leaves
\* the tables alone.
LEMMA StepKinds ==
    ASSUME Next
    PROVE  \/ \E h \in Handlers : transactionCommits(h)
           \/ Others
           \/ UNCHANGED tables
BY DEF Next, Step, createRequest, checkIdempotency, checkLocked, transactionRefused,
       transactionConstraint, respond, transactionTransient, recover, findExisting,
       databaseFails, Crash, Tick

\* No step turns the clock back.
LEMMA ClockAdvances ==
    ASSUME ServiceTypeOK, Next
    PROVE  now' = now \/ now' = now + 1
BY DEF Next, Step, createRequest, checkIdempotency, checkLocked, transactionRefused,
       transactionConstraint, transactionCommits, respond, transactionTransient,
       recover, findExisting, databaseFails, Others, Crash, Tick

\* A key that a request carries has a record, and it names that request.
LEMMA KeyHasRecord ==
    ASSUME ServiceTypeOK, KeyedOnce, NEW i \in RequestIds, NEW k \in Keys,
           reqKey[i] = k
    PROVE  /\ records[k] # None
           /\ records[k].id = i
           /\ requests[i] # None
           /\ requests[i].dto = records[k].dto
<1>1. records[k] # None
  BY DEF KeyedOnce
<1>2. records[k].id \in RequestIds
  BY <1>1 DEF ServiceTypeOK, Record
<1>3. records[k].id = i
  BY <1>1, <1>2 DEF KeyedOnce
<1> QED BY <1>1, <1>3 DEF KeyedOnce

\* What a commit does to the two key columns.
LEMMA CommitEffect ==
    ASSUME ServiceTypeOK, CallUnderWay, KeyedOnce, NEW h \in Handlers,
           transactionCommits(h)
    PROVE  \E id \in RequestIds :
              /\ reqKey[id] = None
              /\ requests'[id] # None
              /\ requests'[id].dto = call[h].dto
              /\ reqKey' = [reqKey EXCEPT ![id] = call[h].key]
              /\ records' = [records EXCEPT ![call[h].key] = newRecord(call[h].dto, id)]
              /\ newRecord(call[h].dto, id) \in Record
<1>1. PICK id \in RequestIds : commit(h, id)
  BY DEF transactionCommits
<1>2. requests[id] = None
  BY <1>1 DEF commit, createTransaction
<1>3. reqKey[id] = None
  BY <1>2, KeyHasRecord DEF ServiceTypeOK
<1>4. call[h].dto \in Dto
  BY UnderWay DEF transactionCommits
<1>5. requests'[id] = [dto |-> call[h].dto, status |-> "PENDING"]
  BY <1>1 DEF commit, createTransaction, ServiceTypeOK, LedgerTypeOK
<1>6. [dto |-> call[h].dto, status |-> "PENDING"] \in Request
  BY <1>4 DEF Request, Status
<1>7. requests'[id] # None /\ requests'[id].dto = call[h].dto
  BY <1>5, <1>6, LedgerAssumption
<1>8. newRecord(call[h].dto, id) \in Record
  BY <1>4, ServiceAssumption DEF newRecord, Record, ServiceTypeOK
<1> QED BY <1>1, <1>3, <1>7, <1>8 DEF commit

\* Neither a key of a request nor a record is ever changed or taken away, and a
\* record is made by a handler in its transaction.
RowsKept ==
    /\ KeepsSettled
    /\ \A k \in Keys : records[k] # None => records'[k] = records[k]
    /\ \A i \in RequestIds : reqKey[i] # None => reqKey'[i] = reqKey[i]
    /\ \A k \in Keys : records[k] = None /\ records'[k] # None =>
          \E g \in Handlers :
             /\ pc[g] = "transaction" /\ pc'[g] = "committed"
             /\ call[g].key = k
             /\ records'[k].dto = call[g].dto

\* Every step keeps the rows: the unique indexes refuse a second write of a key.
LEMMA TablesKept ==
    ASSUME ServiceTypeOK, CallUnderWay, KeyedOnce, Next
    PROVE  RowsKept
<1>1. KeepsSettled
  <2>1. CASE LedgerNext
    BY <2>1, TransactionKeepsSettled DEF ServiceTypeOK
  <2>2. CASE UNCHANGED ledgerVars
    BY <2>2 DEF ledgerVars, KeepsSettled
  <2> QED BY <2>1, <2>2, StepsAreTransactions
<1>2. CASE UNCHANGED <<reqKey, records>>
  BY <1>1, <1>2 DEF RowsKept
<1>3. ASSUME NEW h \in Handlers, transactionCommits(h)
      PROVE  RowsKept
  <2>1. call[h].key \in Keys /\ records[call[h].key] = None
    BY <1>3, UnderWay DEF transactionCommits, KeyTaken
  <2>2. PICK id \in RequestIds :
           /\ reqKey[id] = None
           /\ reqKey' = [reqKey EXCEPT ![id] = call[h].key]
           /\ records' = [records EXCEPT ![call[h].key] = newRecord(call[h].dto, id)]
    BY <1>3, CommitEffect
  <2>3. \A i \in RequestIds : reqKey[i] # None => reqKey'[i] = reqKey[i]
    BY <2>2 DEF ServiceTypeOK
  <2>4. \A k \in Keys : records[k] # None => records'[k] = records[k]
    BY <2>1, <2>2 DEF ServiceTypeOK
  <2>5. pc[h] = "transaction" /\ pc'[h] = "committed"
    BY <1>3 DEF transactionCommits, goto, ServiceTypeOK
  <2>6. records'[call[h].key].dto = call[h].dto
    BY <2>1, <2>2 DEF newRecord, ServiceTypeOK
  <2>7. \A k \in Keys : records[k] = None /\ records'[k] # None => k = call[h].key
    BY <2>2 DEF ServiceTypeOK
  <2> QED BY <1>1, <2>3, <2>4, <2>5, <2>6, <2>7 DEF RowsKept
<1> QED BY <1>2, <1>3, StepKinds DEF Others, tables

\* A key makes at most one request: the commit that would make the second meets
\* the unique indexes.
LEMMA KeysPreserved ==
    ASSUME ServiceTypeOK, CallUnderWay, KeyedOnce, Next
    PROVE  KeyedOnce'
<1>0. RowsKept
  BY TablesKept
<1> SUFFICES ASSUME NEW k \in Keys
             PROVE  /\ \A i, j \in RequestIds : reqKey'[i] = k /\ reqKey'[j] = k => i = j
                    /\ IF records'[k] = None
                       THEN \A i \in RequestIds : reqKey'[i] # k
                       ELSE /\ reqKey'[records'[k].id] = k
                            /\ requests'[records'[k].id] # None
                            /\ requests'[records'[k].id].dto = records'[k].dto
  BY DEF KeyedOnce
<1>1. records[k] # None => records[k].id \in RequestIds
  BY DEF ServiceTypeOK, Record
<1>2. CASE UNCHANGED <<reqKey, records>>
  BY <1>0, <1>1, <1>2 DEF RowsKept, KeepsSettled, KeyedOnce
<1>3. ASSUME NEW h \in Handlers, transactionCommits(h)
      PROVE  /\ \A i, j \in RequestIds : reqKey'[i] = k /\ reqKey'[j] = k => i = j
             /\ IF records'[k] = None
                THEN \A i \in RequestIds : reqKey'[i] # k
                ELSE /\ reqKey'[records'[k].id] = k
                     /\ requests'[records'[k].id] # None
                     /\ requests'[records'[k].id].dto = records'[k].dto
  <2>1. /\ call[h].key \in Keys
        /\ records[call[h].key] = None
        /\ \A i \in RequestIds : reqKey[i] # call[h].key
    BY <1>3, UnderWay DEF transactionCommits, KeyTaken
  <2>2. PICK id \in RequestIds :
           /\ reqKey[id] = None
           /\ requests'[id] # None
           /\ requests'[id].dto = call[h].dto
           /\ reqKey' = [reqKey EXCEPT ![id] = call[h].key]
           /\ records' = [records EXCEPT ![call[h].key] = newRecord(call[h].dto, id)]
           /\ newRecord(call[h].dto, id) \in Record
    BY <1>3, CommitEffect
  <2>3. /\ reqKey'[id] = call[h].key
        /\ \A i \in RequestIds : i # id => reqKey'[i] = reqKey[i]
        /\ records'[call[h].key] = newRecord(call[h].dto, id)
        /\ k # call[h].key => records'[k] = records[k]
    BY <2>1, <2>2 DEF ServiceTypeOK
  <2>4. CASE k = call[h].key
    <3>1. records'[k] # None /\ records'[k].id = id /\ records'[k].dto = call[h].dto
      BY <2>2, <2>3, <2>4, ServiceAssumption DEF newRecord
    <3> QED BY <2>1, <2>2, <2>3, <2>4, <3>1
  <2>5. CASE k # call[h].key
    <3>1. \A i \in RequestIds : reqKey'[i] = k => i # id /\ reqKey[i] = k
      BY <2>3, <2>5
    <3>2. records[k] # None => records[k].id # id
      BY <2>2, <1>1, ServiceAssumption DEF KeyedOnce
    <3> QED BY <1>0, <1>1, <2>3, <2>5, <3>1, <3>2
            DEF RowsKept, KeepsSettled, KeyedOnce
  <2> QED BY <2>4, <2>5
<1> QED BY <1>2, <1>3, StepKinds DEF Others, tables

\* An expired record stays expired.
LEMMA ExpiredStays ==
    ASSUME ServiceTypeOK, RowsKept, Next, NEW k \in Keys,
           records[k] # None, ~ Live(k)
    PROVE  ~ Live(k)'
<1>1. records'[k] = records[k] /\ records[k].expiresAt \in Nat
  BY DEF RowsKept, ServiceTypeOK, Record
<1>2. now \in Nat /\ records[k].expiresAt < now
  BY DEF Live, ServiceTypeOK
<1>3. now' = now \/ now' = now + 1
  BY ClockAdvances
<1>4. \A n, m \in Nat : n < m => n < m + 1
  OBVIOUS
<1>5. records[k].expiresAt < now'
  BY <1>1, <1>2, <1>3, <1>4
<1> QED BY <1>1, <1>5 DEF Live

\* What a handler has found missing under its lock nobody in its lane makes.
LEMMA MissingPreserved ==
    ASSUME ServiceInv, Next, RowsKept, \A g \in Handlers : Moves(g)
    PROVE  StillMissing'
<1> SUFFICES ASSUME NEW h \in Handlers, pc'[h] \in PastCheck,
                    Live(call[h].key)'
             PROVE  records'[call[h].key].dto.lane # lane(h)
  <2>1. \A h \in Handlers : pc'[h] \in PastCheck => call'[h] = call[h]
    BY DEF Moves, PastCheckNext
  <2> QED BY <2>1 DEF StillMissing, PastCheck, Live, lane
<1>1. /\ call'[h] = call[h]
      /\ pc[h] \in PastCheck \/ (Miss(h) /\ UNCHANGED <<records, now>>)
      /\ pc[h] \in Chained
  BY DEF Moves, PastCheckNext
<1>2. PICK k \in Keys : k = call[h].key
  BY <1>1, UnderWay DEF ServiceInv, Chained
<1>3. Live(k)'
  BY <1>1, <1>2 DEF Live
<1>4. records'[k] # None
  BY <1>3 DEF Live
<1>5. pc[h] \in PastCheck
  BY <1>1, <1>2, <1>3 DEF Miss, Live
<1>6. CASE Live(k)
  <2>1. records[k].dto.lane # lane(h)
    BY <1>2, <1>5, <1>6 DEF ServiceInv, StillMissing, PastCheck
  <2>2. records'[k] = records[k]
    BY <1>6 DEF Live, RowsKept
  <2> QED BY <1>2, <2>1, <2>2
<1>7. CASE ~ Live(k)
  <2>1. records[k] = None
    BY <1>3, <1>7, ExpiredStays DEF ServiceInv
  <2>2. PICK g \in Handlers : /\ pc[g] = "transaction" /\ pc'[g] = "committed"
                              /\ records'[k].dto = call[g].dto
    BY <1>4, <2>1 DEF RowsKept
  <2>3. g # h
    BY <2>2 DEF PastCheck
  <2>4. InLane(g) /\ InLane(h)
    BY <1>5, <2>2 DEF InLane, PastCheck
  <2>5. lane(g) # lane(h)
    BY <2>3, <2>4, OrderExcludes DEF ServiceInv, OneHandlerPerLane
  <2> QED BY <1>2, <2>2, <2>5 DEF lane
<1> QED BY <1>6, <1>7

\* The record a handler has committed stays.
LEMMA CommittedPreserved ==
    ASSUME ServiceInv, RowsKept, \A g \in Handlers : Moves(g)
    PROVE  CommittedOwn'
<1> SUFFICES ASSUME NEW h \in Handlers, pc'[h] = "committed"
             PROVE  /\ records'[call'[h].key] # None
                    /\ records'[call'[h].key].dto = call'[h].dto
  BY DEF CommittedOwn
<1>1. /\ call'[h] = call[h]
      /\ pc[h] # "idle"
      /\ \/ pc[h] = "committed"
         \/ records'[call[h].key] # None /\ records'[call[h].key].dto = call[h].dto
  BY DEF Moves, CommittedNext
<1>2. call[h].key \in Keys
  BY <1>1, UnderWay DEF ServiceInv
<1> QED BY <1>1, <1>2 DEF ServiceInv, CommittedOwn, RowsKept

\* An answer stays the request of its own key, and a new one is.
LEMMA AnswersPreserved ==
    ASSUME ServiceInv, Next, RowsKept, \A g \in Handlers : Moves(g)
    PROVE  AnsweredKeyed' /\ AnswerIsOwnRequest'
<1>1. ASSUME NEW h \in Handlers, answer'[h].code = "CREATED"
      PROVE  /\ answer'[h].id \in RequestIds
             /\ call'[h].key \in Keys
             /\ reqKey'[answer'[h].id] = call'[h].key
             /\ requests'[answer'[h].id] # None
             /\ \/ requests'[answer'[h].id].dto = call'[h].dto
                \/ requests'[answer'[h].id].dto.lane # call'[h].dto.lane
                \/ ~ Live(call[h].key)'
             /\ call'[h] = call[h]
  <2>1. /\ call'[h] = call[h]
        /\ \/ answer'[h] = answer[h]
           \/ /\ UNCHANGED <<requests, reqKey, records, now>>
              /\ pc[h] # "idle"
              /\ answer'[h].id \in RequestIds
              /\ \/ Hit(h) /\ answer'[h].id = records[call[h].key].id
                 \/ /\ pc[h] \in {"committed", "findConstraint", "findTransient"}
                    /\ reqKey[answer'[h].id] = call[h].key
    BY <1>1 DEF Moves, AnsweredNext
  <2>2. CASE answer'[h] = answer[h]
    <3>1. PICK id \in RequestIds, k \in Keys :
             id = answer[h].id /\ k = call[h].key
      BY <1>1, <2>2 DEF ServiceInv, AnsweredKeyed
    <3>2. /\ reqKey[id] = k
          /\ requests[id] # None
          /\ \/ requests[id].dto = call[h].dto
             \/ requests[id].dto.lane # call[h].dto.lane
             \/ ~ Live(k)
      BY <1>1, <2>2, <3>1 DEF ServiceInv, AnswerIsOwnRequest
    <3>3. requests'[id] # None /\ requests'[id].dto = requests[id].dto
      BY <3>2 DEF RowsKept, KeepsSettled
    <3>4. reqKey'[id] = k
      BY <3>2, ServiceAssumption DEF RowsKept
    <3>5. records[k] # None
      BY <3>2, KeyHasRecord DEF ServiceInv
    <3>6. ~ Live(k) => ~ Live(k)'
      BY <3>5, ExpiredStays DEF ServiceInv
    <3>7. Live(call[h].key)' <=> Live(k)'
      BY <2>1, <3>1 DEF Live
    <3> QED BY <2>1, <2>2, <3>1, <3>2, <3>3, <3>4, <3>6, <3>7
  <2>3. CASE answer'[h] # answer[h]
    <3>1. UNCHANGED <<requests, reqKey, records, now>> /\ pc[h] # "idle"
      BY <2>1, <2>3
    <3>2. PICK id \in RequestIds, k \in Keys :
             id = answer'[h].id /\ k = call[h].key
      BY <2>1, <2>3, UnderWay DEF ServiceInv
    <3>3. Live(k)' <=> Live(k)
      BY <3>1 DEF Live
    <3>4. Live(call[h].key)' <=> Live(k)'
      BY <2>1, <3>2 DEF Live
    <3>5. CASE Hit(h) /\ id = records[k].id
      <4>1. records[k] # None /\ records[k].dto = call[h].dto
        BY <3>2, <3>5 DEF Hit, Live
      <4>2. reqKey[id] = k /\ requests[id] # None /\ requests[id].dto = call[h].dto
        BY <3>5, <4>1 DEF ServiceInv, KeyedOnce
      <4> QED BY <2>1, <3>1, <3>2, <4>2
    <3>6. CASE /\ pc[h] \in {"committed", "findConstraint", "findTransient"}
               /\ reqKey[id] = k
      <4>1. requests[id] # None /\ requests[id].dto = records[k].dto
        BY <3>6, KeyHasRecord DEF ServiceInv
      <4>2. pc[h] = "committed" => records[k].dto = call[h].dto
        BY <3>2 DEF ServiceInv, CommittedOwn
      <4>3. pc[h] # "committed" => records[k].dto.lane # lane(h) \/ ~ Live(k)
        BY <3>2, <3>6 DEF ServiceInv, StillMissing
      <4> QED BY <2>1, <3>1, <3>2, <3>3, <3>4, <3>6, <4>1, <4>2, <4>3 DEF lane
    <3> QED BY <2>1, <2>3, <3>2, <3>5, <3>6
  <2> QED BY <2>2, <2>3
<1>2. AnsweredKeyed'
  BY <1>1 DEF AnsweredKeyed
<1>3. AnswerIsOwnRequest'
  BY <1>1 DEF AnswerIsOwnRequest, Live
<1> QED BY <1>2, <1>3

\* The invariant holds at the start.
LEMMA ServiceInitEstablishes == Init => ServiceInv
<1> SUFFICES ASSUME Init
             PROVE  ServiceInv
  OBVIOUS
<1>1. LedgerInv
  BY InitEstablishes DEF Init
<1>2. /\ \A l \in Lanes : createLocks[l] = None
      /\ \A h \in Handlers : /\ pc[h] = "idle"
                             /\ answer[h] = Error("NONE")
      /\ \A k \in Keys : records[k] = None
      /\ \A i \in RequestIds : reqKey[i] = None
  BY DEF Init, Fresh
<1>3. ServiceTypeOK
  <2>1. /\ Error("NONE") \in Answer
        /\ 0 \in 0 .. MaxAttempts
        /\ [key |-> None, dto |-> None] \in Call
    BY ErrorTypes, ServiceAssumption DEF Call
  <2> QED BY <1>1, <2>1 DEF Init, Fresh, ServiceTypeOK, LedgerInv, LedgerCore
<1>4. Error("NONE").code = "NONE"
  BY DEF Error
<1>5. CallUnderWay /\ AnsweredKeyed /\ AnswerIsOwnRequest /\ StillMissing
      /\ CommittedOwn
  BY <1>2, <1>4 DEF CallUnderWay, AnsweredKeyed, AnswerIsOwnRequest, StillMissing,
                    CommittedOwn
<1>6. LaneOrdered
  BY <1>2, EmptyLanes
<1>7. KeyedOnce
  BY <1>2, ServiceAssumption DEF KeyedOnce
<1> QED BY <1>1, <1>3, <1>5, <1>6, <1>7 DEF ServiceInv

\* Every step preserves it.
LEMMA ServiceNextPreserves == ServiceInv /\ [Next]_vars => ServiceInv'
<1> SUFFICES ASSUME ServiceInv, [Next]_vars
             PROVE  ServiceInv'
  OBVIOUS
<1>1. CASE Next
  <2>1. LedgerInv'
    BY StepsAreTransactions, NextPreserves DEF ServiceInv
  <2>2. ServiceTypeOK'
    BY <1>1, <2>1, TypesPreserved
    DEF ServiceInv, OwnTypes, ServiceTypeOK, LedgerInv, LedgerCore
  <2>3. \A g \in Handlers : Moves(g)
    BY <1>1, HandlersMove DEF ServiceInv
  <2>4. CallUnderWay'
    BY <2>3 DEF Moves, UnderWayNext, CallUnderWay
  <2>5. RowsKept /\ KeyedOnce' /\ LaneOrdered'
    BY <1>1, TablesKept, KeysPreserved, LanesPreserved DEF ServiceInv
  <2>6. StillMissing' /\ CommittedOwn' /\ AnsweredKeyed' /\ AnswerIsOwnRequest'
    BY <1>1, <2>3, <2>5, MissingPreserved, CommittedPreserved, AnswersPreserved
  <2> QED BY <2>1, <2>2, <2>4, <2>5, <2>6 DEF ServiceInv
<1>2. CASE UNCHANGED vars
  <2>1. /\ UNCHANGED <<balances, requests, reqKey, records, now>>
        /\ UNCHANGED <<createLocks, previous, pc, call, attempt, answer>>
    BY <1>2 DEF vars, tables, lockVars, handlerVars
  <2>2. LedgerInv'
    BY StepsAreTransactions, NextPreserves DEF ServiceInv
  <2>3. ServiceTypeOK'
    BY <2>1, <2>2 DEF ServiceInv, ServiceTypeOK, LedgerInv, LedgerCore
  <2>4. CallUnderWay' /\ AnsweredKeyed' /\ KeyedOnce' /\ CommittedOwn'
    BY <2>1 DEF ServiceInv, CallUnderWay, AnsweredKeyed, KeyedOnce, CommittedOwn
  <2>5. StillMissing' /\ AnswerIsOwnRequest'
    BY <2>1 DEF ServiceInv, StillMissing, AnswerIsOwnRequest, Live, lane
  <2>6. LaneOrdered'
    BY <2>1, StayKeepsOrder DEF ServiceInv, lockVars
  <2> QED BY <2>2, <2>3, <2>4, <2>5, <2>6 DEF ServiceInv
<1> QED BY <1>1, <1>2

-----------------------------------------------------------------------------
(* What follows. *)

\* The inductive invariant of the service.
THEOREM ServiceInvariant == Spec => []ServiceInv
<1>1. Init => ServiceInv
  BY ServiceInitEstablishes
<1>2. ServiceInv /\ [Next]_vars => ServiceInv'
  BY ServiceNextPreserves
<1> QED BY <1>1, <1>2, PTL DEF Spec

\* Type correctness of the tables, the lanes and the handlers, the attempts of
\* _runCreateTransactionWithRetry within their maximum included.
THEOREM ServiceTypeCorrect == Spec => []ServiceTypeOK
<1>1. ServiceInv => ServiceTypeOK
  BY DEF ServiceInv
<1> QED BY <1>1, ServiceInvariant, PTL

\* _withCreateLock excludes, whatever the number of handlers and however they
\* end, crashes included.
THEOREM OneHandlerPerLaneHolds == Spec => []OneHandlerPerLane
<1>1. ServiceInv => OneHandlerPerLane
  BY OrderExcludes DEF ServiceInv
<1> QED BY <1>1, ServiceInvariant, PTL

\* Guarantee 1: a key makes at most one request, and its record agrees with it.
THEOREM KeyedOnceHolds == Spec => []KeyedOnce
<1>1. ServiceInv => KeyedOnce
  BY DEF ServiceInv
<1> QED BY <1>1, ServiceInvariant, PTL

\* A 201 of createRequest names the request of the caller's key and, while the
\* key's record lives and within a lane, the one the caller asked for.
THEOREM AnswerIsOwnRequestHolds == Spec => []AnswerIsOwnRequest
<1>1. ServiceInv => AnswerIsOwnRequest
  BY DEF ServiceInv
<1> QED BY <1>1, ServiceInvariant, PTL

\* No duplicate is refused because of what its own key has made: the check
\* under the lock and _recoverAfterConstraint close every window.
THEOREM DuplicateNeverRefusedHolds == Spec => DuplicateNeverRefused
<1>1. ServiceInv /\ [Next]_vars => [RetriesSafely]_vars
  <2> SUFFICES ASSUME ServiceInv, Next
               PROVE  RetriesSafely
    OBVIOUS
  <2> SUFFICES ASSUME NEW h \in Handlers, IsDuplicate(h),
                      answer'[h] # answer[h], answer'[h].code \in Refusals
               PROVE  FALSE
    BY DEF RetriesSafely, Answers, Refusals
  <2>1. /\ call'[h] = call[h]
        /\ pc[h] # "idle"
        /\ \/ ~ Miss(h) /\ ~ Hit(h)
           \/ pc[h] = "transaction"
           \/ \A i \in RequestIds : reqKey[i] # call[h].key
    BY HandlersMove DEF ServiceInv, Moves, RefusedNext
  <2>2. PICK k \in Keys : k = call[h].key
    BY <2>1, UnderWay DEF ServiceInv
  <2>3. Live(k) /\ records[k].dto = call[h].dto
    BY <2>1, <2>2 DEF IsDuplicate
  <2>4. Hit(h)
    BY <2>2, <2>3 DEF Hit
  <2>5. CASE pc[h] = "transaction"
    BY <2>2, <2>3, <2>5 DEF ServiceInv, StillMissing, lane
  <2>6. CASE \A i \in RequestIds : reqKey[i] # k
    <3>1. records[k] \in Record
      BY <2>3 DEF Live, ServiceInv, ServiceTypeOK
    <3>2. records[k].id \in RequestIds /\ records[k] # None
      BY <2>3, <3>1 DEF Record, Live
    <3> QED BY <2>6, <3>2 DEF ServiceInv, KeyedOnce
  <2> QED BY <2>1, <2>2, <2>4, <2>5, <2>6
<1> QED BY <1>1, ServiceInvariant, PTL DEF Spec, DuplicateNeverRefused

\* Under handlers that interleave, retry, time out and crash, the two tables
\* only ever see the transactions of LeaveLedger, whole and one at a time.
THEOREM ServiceImplementsLedger == Spec => LedgerSpec
<1>1. Init => LedgerInit
  BY DEF Init
<1>2. ServiceInv /\ [Next]_vars => [LedgerNext]_ledgerVars
  BY StepsAreTransactions DEF ServiceInv
<1> QED BY <1>1, <1>2, ServiceInvariant, PTL DEF Spec, LedgerSpec

-----------------------------------------------------------------------------
(* The refinement of Entitlement, with idempotency keys for names. *)

\* The booking of a key is the request that carries the key.
LEMMA BookingOfKey ==
    ASSUME KeyedOnce, NEW k \in Keys
    PROVE  /\ \A i \in RequestIds : reqKey[i] = k => booking(k) = requests[i]
           /\ (\A i \in RequestIds : reqKey[i] # k) => booking(k) = None
<1>1. ASSUME NEW i \in RequestIds, reqKey[i] = k
      PROVE  booking(k) = requests[i]
  <2> DEFINE j == CHOOSE x \in RequestIds : reqKey[x] = k
  <2>1. j \in RequestIds /\ reqKey[j] = k
    BY <1>1
  <2>2. j = i
    BY <1>1, <2>1 DEF KeyedOnce
  <2> QED BY <1>1, <2>2 DEF booking
<1> QED BY <1>1 DEF booking

\* The same in the next state.
LEMMA BookingOfKeyPrime ==
    ASSUME KeyedOnce', NEW k \in Keys
    PROVE  /\ \A i \in RequestIds : reqKey'[i] = k => booking(k)' = requests'[i]
           /\ (\A i \in RequestIds : reqKey'[i] # k) => booking(k)' = None
<1>1. ASSUME NEW i \in RequestIds, reqKey'[i] = k
      PROVE  booking(k)' = requests'[i]
  <2> DEFINE j == CHOOSE x \in RequestIds : reqKey'[x] = k
  <2>1. j \in RequestIds /\ reqKey'[j] = k
    BY <1>1
  <2>2. j = i
    BY <1>1, <2>1 DEF KeyedOnce
  <2> QED BY <1>1, <2>2 DEF booking
<1> QED BY <1>1 DEF booking

\* Entitlement counts as the ledger does.
LEMMA KeyedCounts ==
    ASSUME NEW S
    PROVE  Keyed!Cardinality(S) = Cardinality(S)
BY DEF Keyed!Cardinality, Cardinality

\* The days of a key's booking are days of a request.
LEMMA KeyedHeld ==
    ASSUME KeyedOnce, NEW b, NEW d \in Keyed!HeldIn(b, {"PENDING", "APPROVED"})
    PROVE  \E i \in RequestIds : /\ requests[i] # None
                                 /\ requests[i].status \in {"PENDING", "APPROVED"}
                                 /\ balanceKey(requests[i].dto) = b
                                 /\ d \in daysOf(requests[i].dto)
                                 /\ d \in Days
<1>1. PICK k \in Keys :
         /\ booking(k) # None
         /\ <<booking(k).dto.lane, booking(k).dto.leaveType>> = b
         /\ booking(k).status \in {"PENDING", "APPROVED"}
         /\ d \in Keyed!Range(booking(k).dto)
         /\ d \in Days
  BY DEF Keyed!HeldIn, Days
<1>2. PICK i \in RequestIds : booking(k) = requests[i]
  BY <1>1, BookingOfKey
<1> QED BY <1>1, <1>2 DEF Keyed!Range, daysOf, balanceKey

\* Through any number of handlers, duplicates, retries and crashes, a key books
\* its leave at most once, days nobody holds, and within what was granted.
THEOREM ServiceRefinesEntitlement == Spec => ServiceImplementsEntitlement
<1> DEFINE ent == [b \in BalanceKeys |-> daysGranted(b)]
           bk  == [k \in Keys |-> booking(k)]
<1>1. Init => Keyed!Init
  <2> SUFFICES ASSUME Init
               PROVE  Keyed!Init
    OBVIOUS
  <2>1. \A b \in BalanceKeys : daysGranted(b) = None
    BY DEF Init, LedgerInit, daysGranted
  <2>2. \A k \in Keys : booking(k) = None
    BY ServiceAssumption DEF Init, booking
  <2> QED BY <2>1, <2>2 DEF Keyed!Init, BalanceKeys
<1>2. ServiceInv /\ ServiceInv' /\ [Next]_vars => [Keyed!Next]_(Keyed!vars)
  <2> SUFFICES ASSUME ServiceInv, KeyedOnce', [Next]_vars
               PROVE  [Keyed!Next]_(Keyed!vars)
    BY DEF ServiceInv
  <2>0. /\ LedgerInv /\ LedgerTypeOK /\ ServiceTypeOK /\ KeyedOnce /\ CallUnderWay
    BY DEF ServiceInv, LedgerInv, LedgerCore
  <2>1. ASSUME \A k \in Keys : booking(k)' = booking(k),
               \A c \in BalanceKeys : daysGranted(c)' = daysGranted(c)
        PROVE  UNCHANGED Keyed!vars
    BY <2>1 DEF Keyed!vars
  <2>2. ASSUME UNCHANGED <<requests, reqKey>>
        PROVE  \A k \in Keys : booking(k)' = booking(k)
    BY <2>2 DEF booking
  <2>3. ASSUME NEW b \in BalanceKeys, NEW n \in Totals,
               daysGranted(b) = None \/ daysGranted(b) < n,
               \A c \in BalanceKeys :
                  daysGranted(c)' = IF c = b THEN n ELSE daysGranted(c),
               UNCHANGED <<requests, reqKey>>
        PROVE  Keyed!Next
    <3>1. ent' = [ent EXCEPT ![b] = n]
      BY <2>3
    <3>2. bk' = bk
      BY <2>2, <2>3
    <3>3. Keyed!Grant(b, n)
      BY <2>3, <3>1, <3>2 DEF Keyed!Grant
    <3> QED BY <3>3 DEF Keyed!Next, BalanceKeys
  <2>4. ASSUME NEW b \in BalanceKeys, NEW n \in Totals, upsertBalance(b, n),
               UNCHANGED reqKey
        PROVE  Keyed!Next
    BY <2>0, <2>3, <2>4, UpsertGrants DEF upsertBalance
  <2>5. ASSUME NEW b \in BalanceKeys, NEW n \in Totals, realTimeUpdate(b, n),
               UNCHANGED reqKey
        PROVE  [Keyed!Next]_(Keyed!vars)
    BY <2>0, <2>1, <2>2, <2>3, <2>5, UpdateGrants DEF realTimeUpdate
  <2>6. ASSUME NEW id \in RequestIds, UNCHANGED reqKey,
               approveRequest(id) \/ rejectRequest(id) \/ cancelRequest(id)
        PROVE  [Keyed!Next]_(Keyed!vars)
    <3>1. PICK st \in Settled :
             /\ \A c \in BalanceKeys : daysGranted(c)' = daysGranted(c)
             /\ requests[id] # None
             /\ requests[id].status = "PENDING"
             /\ requests' = [requests EXCEPT ![id].status = st]
      BY <2>0, <2>6, DecideSettles
    <3>2. /\ requests'[id] = [requests[id] EXCEPT !.status = st]
          /\ \A i \in RequestIds : i # id => requests'[i] = requests[i]
      BY <2>0, <3>1 DEF LedgerTypeOK
    <3>3. ASSUME NEW k \in Keys, reqKey[id] # k
          PROVE  booking(k)' = booking(k)
      <4>1. CASE \E i \in RequestIds : reqKey[i] = k
        <5>1. PICK i \in RequestIds : reqKey[i] = k
          BY <4>1
        <5>2. booking(k) = requests[i] /\ booking(k)' = requests'[i]
          BY <2>0, <2>6, <5>1, BookingOfKey, BookingOfKeyPrime
        <5> QED BY <3>2, <3>3, <5>1, <5>2
      <4>2. CASE \A i \in RequestIds : reqKey[i] # k
        BY <2>0, <2>6, <4>2, BookingOfKey, BookingOfKeyPrime
      <4> QED BY <4>1, <4>2
    <3>4. ent' = ent
      BY <3>1
    <3>5. CASE reqKey[id] \in Keys
      <4>1. PICK k \in Keys : k = reqKey[id]
        BY <3>5
      <4>2. booking(k) = requests[id] /\ booking(k)' = requests'[id]
        BY <2>0, <2>6, <4>1, BookingOfKey, BookingOfKeyPrime
      <4>3. bk' = [bk EXCEPT ![k] = [booking(k) EXCEPT !.status = st]]
        BY <3>2, <3>3, <4>1, <4>2
      <4>4. bk[k] = booking(k)
        OBVIOUS
      <4>5. bk' = [bk EXCEPT ![k].status = st]
        BY <4>3, <4>4
      <4>6. bk[k] # None /\ bk[k].status = "PENDING"
        BY <3>1, <4>2
      <4>7. Keyed!Decide(k, st)
        BY <3>4, <4>5, <4>6 DEF Keyed!Decide
      <4> QED BY <4>7 DEF Keyed!Next, Settled
    <3>6. CASE reqKey[id] \notin Keys
      BY <2>1, <3>1, <3>3, <3>6
    <3> QED BY <3>5, <3>6
  <2>7. ASSUME NEW h \in Handlers, transactionCommits(h)
        PROVE  Keyed!Next
    <3>1. PICK k \in Keys, dto \in Dto : k = call[h].key /\ dto = call[h].dto
      BY <2>0, <2>7, UnderWay DEF transactionCommits
    <3>2. PICK id \in RequestIds :
             /\ createTransaction(id, dto)
             /\ reqKey' = [reqKey EXCEPT ![id] = k]
      BY <2>7, <3>1 DEF transactionCommits, commit
    <3>3. \A i \in RequestIds : reqKey[i] # k
      BY <2>7, <3>1 DEF transactionCommits, KeyTaken
    <3> DEFINE b == balanceKey(dto)
               held == HeldDays(requests, b, "PENDING")
                          \cup HeldDays(requests, b, "APPROVED") \cup daysOf(dto)
    <3>4. /\ \A c \in BalanceKeys : daysGranted(c)' = daysGranted(c)
          /\ requests[id] = None
          /\ requests' = [requests EXCEPT ![id] = [dto |-> dto, status |-> "PENDING"]]
          /\ daysOf(dto) # {}
          /\ \A i \in RequestIds :
                Active(i) /\ requests[i].dto.lane = dto.lane
                   => daysOf(dto) \cap daysOf(requests[i].dto) = {}
          /\ daysGranted(b) # None
          /\ IsFiniteSet(held)
          /\ Cardinality(held) <= daysGranted(b)
      BY <2>0, <3>2, CreateBooks
    <3>5. b \in BalanceKeys /\ b = <<dto.lane, dto.leaveType>>
      BY BalanceKeyType DEF balanceKey
    <3>6. Keyed!Range(dto) = daysOf(dto)
      BY DEF Keyed!Range, daysOf
    <3>7. daysOf(dto) \cap Keyed!HeldInLane(dto.lane) = {}
      <4> SUFFICES ASSUME NEW d \in daysOf(dto), d \in Keyed!HeldInLane(dto.lane)
                   PROVE  FALSE
        OBVIOUS
      <4>1. PICK t \in LeaveTypes :
               d \in Keyed!HeldIn(<<dto.lane, t>>, {"PENDING", "APPROVED"})
        BY DEF Keyed!HeldInLane
      <4>2. PICK i \in RequestIds : /\ requests[i] # None
                                    /\ requests[i].status \in {"PENDING", "APPROVED"}
                                    /\ balanceKey(requests[i].dto) = <<dto.lane, t>>
                                    /\ d \in daysOf(requests[i].dto)
        BY <2>0, <4>1, KeyedHeld
      <4>3. Active(i) /\ requests[i].dto.lane = dto.lane
        BY <4>2 DEF Active, balanceKey
      <4> QED BY <3>4, <4>2, <4>3
    <3> DEFINE theirs == Keyed!HeldIn(b, {"PENDING", "APPROVED"}) \cup daysOf(dto)
    <3>8. theirs \subseteq held
      BY <2>0, KeyedHeld DEF HeldDays
    <3>9. Cardinality(theirs) <= daysGranted(b)
      <4> HIDE DEF theirs, held
      <4>1. Cardinality(theirs) <= Cardinality(held) /\ IsFiniteSet(theirs)
        BY <3>4, <3>8, FS_Subset
      <4>2. Cardinality(theirs) \in Nat /\ Cardinality(held) \in Nat
        BY <3>4, <4>1, FS_CardinalityType
      <4>3. daysGranted(b) \in Int
        <5>1. balances[b] # None
          BY <3>4 DEF daysGranted
        <5> QED BY <2>0, <3>5, <5>1, GrantedDays
      <4> QED BY <3>4, <4>1, <4>2, <4>3
    <3>10. booking(k) = None
      BY <2>0, <3>3, BookingOfKey
    <3>11. reqKey[id] = None
      BY <2>0, <3>4, KeyHasRecord DEF ServiceTypeOK
    <3>12. ASSUME NEW x \in Keys
           PROVE  booking(x)' = IF x = k THEN [dto |-> dto, status |-> "PENDING"]
                                         ELSE booking(x)
      <4>0. /\ reqKey'[id] = k
            /\ requests'[id] = [dto |-> dto, status |-> "PENDING"]
            /\ \A i \in RequestIds : i # id => /\ reqKey'[i] = reqKey[i]
                                               /\ requests'[i] = requests[i]
        BY <2>0, <3>2, <3>4 DEF ServiceTypeOK, LedgerTypeOK
      <4>1. CASE x = k
        BY <4>0, <4>1, BookingOfKeyPrime
      <4>2. CASE x # k /\ \E i \in RequestIds : reqKey[i] = x
        <5>1. PICK i \in RequestIds : reqKey[i] = x
          BY <4>2
        <5>2. i # id
          BY <3>11, <5>1, ServiceAssumption
        <5>3. booking(x) = requests[i] /\ booking(x)' = requests'[i]
          BY <2>0, <4>0, <5>1, <5>2, BookingOfKey, BookingOfKeyPrime
        <5> QED BY <4>0, <4>2, <5>2, <5>3
      <4>3. CASE x # k /\ \A i \in RequestIds : reqKey[i] # x
        <5>1. \A i \in RequestIds : reqKey'[i] # x
          BY <4>0, <4>3
        <5> QED BY <2>0, <4>3, <5>1, BookingOfKey, BookingOfKeyPrime
      <4> QED BY <4>1, <4>2, <4>3
    <3>13. bk' = [bk EXCEPT ![k] = [dto |-> dto, status |-> "PENDING"]]
      BY <3>12
    <3>14. ent' = ent /\ ent[b] = daysGranted(b) /\ bk[k] = None
      BY <3>4, <3>5, <3>10
    <3> HIDE DEF b, ent, bk
    <3>15. /\ bk[k] = None
           /\ Keyed!Range(dto) # {}
           /\ Keyed!Range(dto) \cap Keyed!HeldInLane(dto.lane) = {}
           /\ ent[<<dto.lane, dto.leaveType>>] # None
           /\ Cardinality(Keyed!HeldIn(<<dto.lane, dto.leaveType>>,
                                       {"PENDING", "APPROVED"}) \cup Keyed!Range(dto))
                 <= ent[<<dto.lane, dto.leaveType>>]
           /\ bk' = [bk EXCEPT ![k] = [dto |-> dto, status |-> "PENDING"]]
           /\ UNCHANGED ent
      BY <3>4, <3>5, <3>6, <3>7, <3>9, <3>13, <3>14
    <3>16. Keyed!Book(k, dto)
      BY <3>15, KeyedCounts DEF Keyed!Book, ent, bk
    <3> QED BY <3>16 DEF Keyed!Next, Dto, Days
  <2>8. CASE Others
    BY <2>4, <2>5, <2>6, <2>8 DEF Others, Administer, Decide
  <2>9. CASE UNCHANGED tables
    <3>1. UNCHANGED <<requests, reqKey>>
      BY <2>9 DEF tables
    <3>2. \A c \in BalanceKeys : daysGranted(c)' = daysGranted(c)
      BY <2>9 DEF tables, daysGranted
    <3> QED BY <2>1, <2>2, <3>1, <3>2
  <2>10. CASE UNCHANGED vars
    BY <2>9, <2>10 DEF vars
  <2> QED BY <2>7, <2>8, <2>9, <2>10, StepKinds
<1> QED BY <1>1, <1>2, ServiceInvariant, PTL
        DEF Spec, ServiceImplementsEntitlement, Keyed!Spec

-----------------------------------------------------------------------------
\* What EveryCallAnswered rests on, as far as it is a matter of safety: as long
\* as handlers are chained in a lane, one of them has its gate open, and every
\* gate that is awaited is that of a handler which has still to open it; and the
\* lane's entry of _createLocks is there for just as long.
LanesOpen ==
    \A l \in Lanes :
        /\ createLocks[l] # None <=> \E h \in Handlers : Member(h, l)
        /\ \A h \in Handlers : Member(h, l) =>
              /\ \E g \in Handlers : Member(g, l) /\ previous[g] = None
              /\ previous[h] # None => previous[h] \in Handlers /\ Member(previous[h], l)

\* Ranks are natural numbers, so every chain has a first handler.
LEMMA ChainHasFirst ==
    ASSUME NEW rank \in [Handlers -> Nat], NEW S \in SUBSET Handlers, S # {}
    PROVE  \E g \in S : \A h \in S : rank[g] <= rank[h]
<1> DEFINE T == {rank[h] : h \in S}
           R == {ss \in Nat \X Nat : ss[1] < ss[2]}
<1>1. T \subseteq Nat /\ T # {}
  OBVIOUS
<1>2. IsWellFoundedOn(R, Nat)
  BY NatLessThanWellFounded DEF OpToRel
<1>3. PICK x \in T : \A y \in T : <<y, x>> \notin R
  <2> HIDE DEF R, T
  <2> QED
    BY <1>1, <1>2, WFMin
<1>4. PICK g \in S : rank[g] = x
  BY <1>3
<1>5. ASSUME NEW h \in S PROVE rank[g] <= rank[h]
  <2>1. rank[h] \in T /\ rank[h] \in Nat /\ rank[g] \in Nat
    OBVIOUS
  <2>2. <<rank[h], x>> \notin R
    BY <1>3, <2>1
  <2>3. ~ (rank[h] < rank[g])
    BY <1>4, <2>1, <2>2
  <2> QED
    BY <2>1, <2>3
<1> QED
  BY <1>4, <1>5

\* In an ordered chain the first handler awaits nobody, for it would await one
\* before it.
LEMMA OrderOpens ==
    ASSUME ServiceTypeOK, LaneOrdered
    PROVE  LanesOpen
<1>1. PICK rank \in [Handlers -> Nat] : LaneOrder(rank)
  BY DEF LaneOrdered
<1>2. SUFFICES ASSUME NEW l \in Lanes
               PROVE  /\ createLocks[l] # None <=> \E h \in Handlers : Member(h, l)
                      /\ \A h \in Handlers : Member(h, l) =>
                            /\ \E g \in Handlers : Member(g, l) /\ previous[g] = None
                            /\ previous[h] # None =>
                                  previous[h] \in Handlers /\ Member(previous[h], l)
  BY DEF LanesOpen
<1>3. createLocks[l] \in Handlers \cup {None}
  BY DEF ServiceTypeOK
<1>4. createLocks[l] # None <=> \E h \in Handlers : Member(h, l)
  BY <1>1, <1>3 DEF LaneOrder
<1>5. ASSUME NEW h \in Handlers, Member(h, l), previous[h] # None
      PROVE  previous[h] \in Handlers /\ Member(previous[h], l)
  BY <1>1, <1>5 DEF LaneOrder, ServiceTypeOK
<1>6. ASSUME NEW h \in Handlers, Member(h, l)
      PROVE  \E g \in Handlers : Member(g, l) /\ previous[g] = None
  <2>1. PICK S : S = {g \in Handlers : Member(g, l)}
    OBVIOUS
  <2>2. S \in SUBSET Handlers /\ S # {}
    BY <1>6, <2>1
  <2>3. PICK g \in S : \A k \in S : rank[g] <= rank[k]
    BY <2>2, ChainHasFirst
  <2>4. g \in Handlers /\ Member(g, l)
    BY <2>1, <2>3
  <2>5. ASSUME previous[g] # None PROVE FALSE
    <3>1. previous[g] \in S /\ previous[g] \in Handlers
      BY <1>5, <2>1, <2>4, <2>5
    <3>2. rank[previous[g]] < rank[g]
      BY <1>1, <2>4, <2>5 DEF LaneOrder
    <3>3. rank[g] <= rank[previous[g]] /\ rank[g] \in Nat /\ rank[previous[g]] \in Nat
      BY <2>3, <2>4, <3>1
    <3> QED
      BY <3>2, <3>3
  <2> QED
    BY <2>4, <2>5
<1> QED
  BY <1>4, <1>5, <1>6

\* No lane of _withCreateLock is ever left shut, or its entry left behind,
\* however its handlers end: the finally block opens the gate of whoever waits,
\* nobody waits for a handler that has gone, and no circle of waiting closes.
THEOREM LanesOpenHolds == Spec => []LanesOpen
<1>1. ServiceInv => LanesOpen
  BY OrderOpens DEF ServiceInv
<1> QED BY <1>1, ServiceInvariant, PTL

=============================================================================
