------------------------- MODULE LeaveLedger_proofs -------------------------
(***************************************************************************)
(* Proofs about LeaveLedger for every set of employees, leave types and    *)
(* request ids and every calendar.                                         *)
(*                                                                         *)
(* BalanceInvariant alone is not inductive: that an approval or a release  *)
(* may take its days from pending needs pending to be at least those days, *)
(* which needs the counters to match the requests, which needs the ranges  *)
(* of the active requests of a balance to be disjoint (their days are then *)
(* added and removed as sets).  LedgerInv is that conjunction.             *)
(***************************************************************************)
EXTENDS LeaveLedger, FiniteSetTheorems, TLAPS

-----------------------------------------------------------------------------
(* Ranges of days. *)

\* The days of a well-formed payload are days of the calendar, and
\* calculateDaysRequested counts them.
LEMMA DaysOfDto ==
    ASSUME NEW dto \in Dto, WellFormed(dto)
    PROVE  /\ daysOf(dto) \subseteq Days
           /\ daysOf(dto) # {}
           /\ IsFiniteSet(daysOf(dto))
           /\ daysRequested(dto) \in Nat
           /\ Cardinality(daysOf(dto)) = daysRequested(dto)
<1> DEFINE s == dto.startDate
           e == dto.endDate
<1>1. s \in Int /\ e \in Int /\ s <= e /\ 1 <= s /\ e <= MaxDay
  BY LedgerAssumption DEF Dto, Days, WellFormed
<1>2. IsFiniteSet(s .. e) /\ Cardinality(s .. e) = e - s + 1
  BY <1>1, FS_Interval
<1>3. daysRequested(dto) = e - s + 1
  BY <1>1 DEF daysRequested, calculateDaysRequested
<1> QED
  BY <1>1, <1>2, <1>3, LedgerAssumption DEF daysOf, Days

\* datesOverlap answers for well-formed ranges whether they share a day.
LEMMA OverlapMeansSharedDay ==
    ASSUME NEW p \in Dto, WellFormed(p), NEW q \in Dto, WellFormed(q)
    PROVE  datesOverlap(p.startDate, p.endDate, q.startDate, q.endDate)
              <=> daysOf(p) \cap daysOf(q) # {}
<1>1. /\ p.startDate \in Int /\ p.endDate \in Int /\ p.startDate <= p.endDate
      /\ q.startDate \in Int /\ q.endDate \in Int /\ q.startDate <= q.endDate
  BY LedgerAssumption DEF Dto, Days, WellFormed
<1>2. ASSUME datesOverlap(p.startDate, p.endDate, q.startDate, q.endDate)
      PROVE  daysOf(p) \cap daysOf(q) # {}
  <2>1. CASE p.startDate <= q.startDate
    <3>1. q.startDate \in daysOf(p) /\ q.startDate \in daysOf(q)
      BY <1>1, <1>2, <2>1 DEF datesOverlap, daysOf
    <3> QED BY <3>1
  <2>2. CASE q.startDate <= p.startDate
    <3>1. p.startDate \in daysOf(p) /\ p.startDate \in daysOf(q)
      BY <1>1, <1>2, <2>2 DEF datesOverlap, daysOf
    <3> QED BY <3>1
  <2> QED BY <1>1, <2>1, <2>2
<1>3. ASSUME daysOf(p) \cap daysOf(q) # {}
      PROVE  datesOverlap(p.startDate, p.endDate, q.startDate, q.endDate)
  <2>1. PICK d : d \in daysOf(p) /\ d \in daysOf(q)
    BY <1>3
  <2> QED BY <1>1, <2>1 DEF daysOf, datesOverlap
<1> QED BY <1>2, <1>3

\* What requests hold of a balance is a finite set of days.
LEMMA HeldDaysFinite ==
    ASSUME NEW rs, NEW b, NEW status
    PROVE  /\ IsFiniteSet(HeldDays(rs, b, status))
           /\ Cardinality(HeldDays(rs, b, status)) \in Nat
<1>1. IsFiniteSet(Days)
  BY LedgerAssumption, FS_Interval DEF Days
<1>2. HeldDays(rs, b, status) \in SUBSET Days
  BY DEF HeldDays
<1> QED BY <1>1, <1>2, FS_Subset, FS_CardinalityType

\* Sizes of disjoint sets of days add.
LEMMA AddDays ==
    ASSUME NEW A, IsFiniteSet(A), NEW B, IsFiniteSet(B), A \cap B = {}
    PROVE  Cardinality(A \cup B) = Cardinality(A) + Cardinality(B)
<1>1. Cardinality(A) \in Nat /\ Cardinality(B) \in Nat
  BY FS_CardinalityType
<1>2. Cardinality(A \cup B) =
          Cardinality(A) + Cardinality(B) - Cardinality(A \cap B)
  BY FS_Union
<1>3. Cardinality(A \cap B) = 0
  BY FS_EmptySet
<1> QED BY <1>1, <1>2, <1>3

\* A union is at most as large as its parts together.
LEMMA UnionAtMost ==
    ASSUME NEW A, IsFiniteSet(A), NEW B, IsFiniteSet(B)
    PROVE  /\ IsFiniteSet(A \cup B)
           /\ Cardinality(A \cup B) <= Cardinality(A) + Cardinality(B)
<1>1. IsFiniteSet(A \cap B)
  BY FS_Intersection
<1>2. Cardinality(A) \in Nat /\ Cardinality(B) \in Nat /\ Cardinality(A \cap B) \in Nat
  BY <1>1, FS_CardinalityType
<1>3. /\ IsFiniteSet(A \cup B)
      /\ Cardinality(A \cup B) =
            Cardinality(A) + Cardinality(B) - Cardinality(A \cap B)
  BY FS_Union
<1> QED BY <1>2, <1>3

\* Taking a subset out subtracts its size.
LEMMA RemoveDays ==
    ASSUME NEW A, IsFiniteSet(A), NEW B, IsFiniteSet(B), B \subseteq A
    PROVE  /\ Cardinality(A \ B) = Cardinality(A) - Cardinality(B)
           /\ Cardinality(B) <= Cardinality(A)
<1>1. A \cap B = B
  OBVIOUS
<1>2. Cardinality(A \ B) = Cardinality(A) - Cardinality(A \cap B)
  BY FS_Difference
<1>3. B \in SUBSET A
  OBVIOUS
<1>4. Cardinality(B) <= Cardinality(A)
  BY <1>3, FS_Subset
<1> QED BY <1>1, <1>2, <1>4

-----------------------------------------------------------------------------
(* Initialisation and types. *)

\* The empty tables satisfy the invariant.
LEMMA InitEstablishes == LedgerInit => LedgerInv
<1> SUFFICES ASSUME LedgerInit PROVE LedgerInv
  OBVIOUS
<1>1. LedgerTypeOK
  BY DEF LedgerInit, LedgerTypeOK
<1>2. \A i \in RequestIds : requests[i] = None
  BY DEF LedgerInit
<1>3. \A b \in BalanceKeys : balances[b] = None
  BY DEF LedgerInit
<1> QED
  BY <1>1, <1>2, <1>3
  DEF LedgerInv, LedgerCore, RequestsBacked, NoDoubleBooking, Active,
      CountersMatchRequests, BalanceInvariant, NeverOverdrawn

\* The balance a payload names is one of the balances.
LEMMA BalanceKeyType ==
    ASSUME NEW dto \in Dto
    PROVE  balanceKey(dto) \in BalanceKeys
BY DEF Dto, balanceKey, BalanceKeys

-----------------------------------------------------------------------------
(* What each operation of BalanceService does to a row. *)

\* A seeded row has its whole total available and nothing held.
LEMMA NewBalanceEffect ==
    ASSUME NEW n \in Int
    PROVE  /\ newBalance(n) \in Balance
           /\ newBalance(n).total = n
           /\ newBalance(n).available = n
           /\ newBalance(n).pending = 0
           /\ newBalance(n).used = 0
           /\ newBalance(n).hcmTotal = n
BY DEF newBalance, Balance

\* atomicDeduct moves days from available to pending.
LEMMA DeductEffect ==
    ASSUME NEW r \in Balance, NEW n \in Int
    PROVE  /\ atomicDeduct(r, n) \in Balance
           /\ atomicDeduct(r, n).total = r.total
           /\ atomicDeduct(r, n).available = r.available - n
           /\ atomicDeduct(r, n).pending = r.pending + n
           /\ atomicDeduct(r, n).used = r.used
           /\ atomicDeduct(r, n).hcmTotal = r.hcmTotal
<1>1. r.available - n \in Int /\ r.pending + n \in Int
  BY DEF Balance
<1> QED BY <1>1, Zenon DEF Balance, atomicDeduct

\* releaseFromPending moves days from pending back to available.
LEMMA ReleaseEffect ==
    ASSUME NEW r \in Balance, NEW n \in Int
    PROVE  /\ releaseFromPending(r, n) \in Balance
           /\ releaseFromPending(r, n).total = r.total
           /\ releaseFromPending(r, n).available = r.available + n
           /\ releaseFromPending(r, n).pending = r.pending - n
           /\ releaseFromPending(r, n).used = r.used
           /\ releaseFromPending(r, n).hcmTotal = r.hcmTotal
<1>1. r.available + n \in Int /\ r.pending - n \in Int
  BY DEF Balance
<1> QED BY <1>1, Zenon DEF Balance, releaseFromPending

\* finalizeUsed moves days from pending to used.
LEMMA FinalizeEffect ==
    ASSUME NEW r \in Balance, NEW n \in Int
    PROVE  /\ finalizeUsed(r, n) \in Balance
           /\ finalizeUsed(r, n).total = r.total
           /\ finalizeUsed(r, n).available = r.available
           /\ finalizeUsed(r, n).pending = r.pending - n
           /\ finalizeUsed(r, n).used = r.used + n
           /\ finalizeUsed(r, n).hcmTotal = r.hcmTotal
<1>1. r.used + n \in Int /\ r.pending - n \in Int
  BY DEF Balance
<1> QED BY <1>1, Zenon DEF Balance, finalizeUsed

\* A positive drift is added to available and total; any other leaves both.
LEMMA HcmUpdateEffect ==
    ASSUME NEW r \in Balance, NEW n \in Int
    PROVE  LET u     == applyHcmRealTimeUpdate(r, n)
               drift == n - localTotal(r)
           IN  /\ u \in Balance
               /\ u.pending = r.pending
               /\ u.used = r.used
               /\ drift > 0 => u.available = r.available + drift /\ u.total = n
               /\ ~ (drift > 0) => u.available = r.available /\ u.total = r.total
<1> DEFINE drift == n - localTotal(r)
           a == IF drift > 0 THEN r.available + drift ELSE r.available
           t == IF drift > 0 THEN n ELSE r.total
           x == drift < 0
           d == IF drift < 0 THEN -drift ELSE 0
<1>1. drift \in Int
  BY DEF Balance, localTotal
<1>2. a \in Int /\ t \in Int /\ d \in Int
  BY <1>1 DEF Balance
<1>3. x \in BOOLEAN
  BY <1>1
<1>4. applyHcmRealTimeUpdate(r, n) =
        [r EXCEPT !.available = a, !.total = t, !.hcmTotal = n,
                  !.hasDiscrepancy = x, !.discrepancyAmount = d]
  BY Zenon DEF applyHcmRealTimeUpdate
<1> HIDE DEF a, t, d, x
<1>5. applyHcmRealTimeUpdate(r, n) =
        [total |-> t, available |-> a, pending |-> r.pending, used |-> r.used,
         hcmTotal |-> n, hasDiscrepancy |-> x, discrepancyAmount |-> d]
  BY <1>2, <1>3, <1>4, Zenon DEF Balance
<1> QED BY <1>1, <1>2, <1>3, <1>5 DEF Balance, a, t

-----------------------------------------------------------------------------
(* Steps that write one balance row and no request. *)

\* The invariant of one row of employee_balances.
RowInv(b) ==
    balances[b] # None =>
        /\ balances[b].pending = Cardinality(HeldDays(requests, b, "PENDING"))
        /\ balances[b].used = Cardinality(HeldDays(requests, b, "APPROVED"))
        /\ balances[b].available >= 0

\* The two invariants on counters, row by row.
LEMMA RowInvEquivalent ==
    (\A b \in BalanceKeys : RowInv(b)) <=>
        CountersMatchRequests /\ NeverOverdrawn
BY DEF RowInv, CountersMatchRequests, NeverOverdrawn

\* The same in the next state.
LEMMA RowInvEquivalentPrime ==
    (\A b \in BalanceKeys : RowInv(b)') <=>
        CountersMatchRequests' /\ NeverOverdrawn'
BY DEF RowInv, CountersMatchRequests, NeverOverdrawn

\* A row that keeps its value and its held days keeps its invariant.
LEMMA RowInvUnchanged ==
    ASSUME NEW b \in BalanceKeys, RowInv(b),
           balances'[b] = balances[b],
           HeldDays(requests', b, "PENDING") = HeldDays(requests, b, "PENDING"),
           HeldDays(requests', b, "APPROVED") = HeldDays(requests, b, "APPROVED")
    PROVE  RowInv(b)'
BY DEF RowInv

\* No request holds days of a balance that does not exist.
LEMMA NothingHeldWithoutRow ==
    ASSUME RequestsBacked, NEW b \in BalanceKeys, balances[b] = None, NEW status
    PROVE  Cardinality(HeldDays(requests, b, status)) = 0
<1>1. HeldDays(requests, b, status) = {}
  BY DEF RequestsBacked, HeldDays
<1> QED BY <1>1, FS_EmptySet

\* A write of a row whose parts add up to its total keeps them adding up
\* everywhere.
LEMMA RowWriteBalances ==
    ASSUME LedgerTypeOK, BalanceInvariant, NEW b \in BalanceKeys, NEW r,
           balances' = [balances EXCEPT ![b] = r],
           r.total = r.available + r.pending + r.used
    PROVE  BalanceInvariant'
<1> SUFFICES ASSUME NEW c \in BalanceKeys, balances'[c] # None
             PROVE  balances'[c].total =
                      balances'[c].available + balances'[c].pending + balances'[c].used
  BY DEF BalanceInvariant
<1>1. balances'[c] = IF c = b THEN r ELSE balances[c]
  BY DEF LedgerTypeOK
<1> QED BY <1>1 DEF BalanceInvariant

\* A write of one row, the requests left alone.
LEMMA RowWritePreserves ==
    ASSUME LedgerCore, NEW b \in BalanceKeys, NEW r \in Balance,
           balances' = [balances EXCEPT ![b] = r],
           UNCHANGED requests,
           r.pending = Cardinality(HeldDays(requests, b, "PENDING")),
           r.used = Cardinality(HeldDays(requests, b, "APPROVED")),
           r.available >= 0
    PROVE  LedgerCore'
<1>1. LedgerTypeOK'
  BY DEF LedgerCore, LedgerTypeOK
<1>2. r # None /\ balances'[b] = r
  BY LedgerAssumption DEF LedgerCore, LedgerTypeOK
<1>3. RequestsBacked'
  <2> SUFFICES ASSUME NEW i \in RequestIds, requests[i] # None
               PROVE  /\ WellFormed(requests[i].dto)
                      /\ balances'[balanceKey(requests[i].dto)] # None
    BY DEF RequestsBacked
  <2>1. requests[i].dto \in Dto
    BY DEF LedgerCore, LedgerTypeOK, Request
  <2> QED
    BY <1>2, <2>1, BalanceKeyType DEF LedgerCore, LedgerTypeOK, RequestsBacked
<1>4. NoDoubleBooking'
  BY DEF LedgerCore, NoDoubleBooking, Active
<1>5. ASSUME NEW c \in BalanceKeys PROVE RowInv(c)'
  <2>1. RowInv(c)
    BY RowInvEquivalent DEF LedgerCore
  <2>2. CASE c = b
    BY <1>2, <2>2 DEF RowInv
  <2>3. CASE c # b
    BY <2>1, <2>3, RowInvUnchanged DEF LedgerCore, LedgerTypeOK
  <2> QED BY <2>2, <2>3
<1> QED BY <1>1, <1>3, <1>4, <1>5, RowInvEquivalentPrime DEF LedgerCore

\* upsertBalance preserves the invariant: no request holds days of a balance
\* that did not exist.
LEMMA UpsertPreserves ==
    ASSUME LedgerCore, NEW b \in BalanceKeys, NEW n \in Totals,
           upsertBalance(b, n)
    PROVE  LedgerCore' /\ (BalanceInvariant => BalanceInvariant')
<1>1. n \in Nat
  BY LedgerAssumption
<1>2. /\ Cardinality(HeldDays(requests, b, "PENDING")) = 0
      /\ Cardinality(HeldDays(requests, b, "APPROVED")) = 0
  BY NothingHeldWithoutRow DEF LedgerCore, upsertBalance
<1>3. /\ newBalance(n) \in Balance
      /\ newBalance(n).pending = 0 /\ newBalance(n).used = 0
      /\ newBalance(n).total = n /\ newBalance(n).available = n
  BY <1>1, NewBalanceEffect
<1>4. balances' = [balances EXCEPT ![b] = newBalance(n)] /\ UNCHANGED requests
  BY DEF upsertBalance
<1> DEFINE r == newBalance(n)
<1>5. /\ r.pending = Cardinality(HeldDays(requests, b, "PENDING"))
      /\ r.used = Cardinality(HeldDays(requests, b, "APPROVED"))
      /\ r.total = r.available + r.pending + r.used
      /\ r.available >= 0
  BY <1>1, <1>2, <1>3
<1>6. r \in Balance /\ balances' = [balances EXCEPT ![b] = r]
  BY <1>3, <1>4
<1> HIDE DEF r
<1>7. LedgerCore'
  BY <1>4, <1>5, <1>6, RowWritePreserves
<1>8. BalanceInvariant => BalanceInvariant'
  BY <1>5, <1>6, RowWriteBalances DEF LedgerCore
<1> QED BY <1>7, <1>8

\* applyHcmRealTimeUpdate preserves the invariant: it moves available and total
\* by the same amount, or neither.
LEMMA RealTimeUpdatePreserves ==
    ASSUME LedgerCore, NEW b \in BalanceKeys, NEW n \in Totals,
           realTimeUpdate(b, n)
    PROVE  LedgerCore' /\ (BalanceInvariant => BalanceInvariant')
<1> DEFINE r == balances[b]
           u == applyHcmRealTimeUpdate(r, n)
<1>1. n \in Int /\ r \in Balance
  BY LedgerAssumption DEF LedgerCore, LedgerTypeOK, realTimeUpdate
<1>2. /\ r.pending = Cardinality(HeldDays(requests, b, "PENDING"))
      /\ r.used = Cardinality(HeldDays(requests, b, "APPROVED"))
      /\ r.available >= 0
  BY DEF LedgerCore, CountersMatchRequests, NeverOverdrawn,
         realTimeUpdate
<1>3. u \in Balance /\ u.pending = r.pending /\ u.used = r.used
  BY <1>1, HcmUpdateEffect
<1>4. /\ u.available >= 0
      /\ BalanceInvariant => u.total = u.available + u.pending + u.used
  <2>1. r.total \in Int /\ r.available \in Int /\ r.pending \in Int /\ r.used \in Int
    BY <1>1 DEF Balance
  <2>2. CASE n - localTotal(r) > 0
    <3>1. u.available = r.available + (n - localTotal(r)) /\ u.total = n
      BY <1>1, <2>2, HcmUpdateEffect
    <3> HIDE DEF u, r
    <3> QED BY <1>1, <1>2, <1>3, <2>1, <2>2, <3>1 DEF localTotal
  <2>3. CASE ~ (n - localTotal(r) > 0)
    <3>1. u.available = r.available /\ u.total = r.total
      BY <1>1, <2>3, HcmUpdateEffect
    <3> QED
      BY <1>2, <1>3, <3>1 DEF BalanceInvariant, realTimeUpdate
  <2> QED BY <2>2, <2>3
<1>5. balances' = [balances EXCEPT ![b] = u] /\ UNCHANGED requests
  BY DEF realTimeUpdate
<1> HIDE DEF u, r
<1>6. LedgerCore'
  BY <1>2, <1>3, <1>4, <1>5, RowWritePreserves
<1>7. BalanceInvariant => BalanceInvariant'
  BY <1>4, <1>5, RowWriteBalances DEF LedgerCore
<1> QED BY <1>6, <1>7

-----------------------------------------------------------------------------
(* The transaction of createRequest. *)

\* The transaction of createRequest preserves the invariant: its days are new
\* to the lane, so that pending grows by exactly the days it takes.
LEMMA CreatePreserves ==
    ASSUME LedgerCore, NEW id \in RequestIds, NEW dto \in Dto,
           createTransaction(id, dto)
    PROVE  LedgerCore' /\ (BalanceInvariant => BalanceInvariant')
<1> DEFINE b == balanceKey(dto)
           n == daysRequested(dto)
           new == [dto |-> dto, status |-> "PENDING"]
<1>1. /\ WellFormed(dto)
      /\ requests[id] = None
      /\ ~ Overlaps(dto)
      /\ balances[b] # None
      /\ balances[b].available >= n
      /\ balances' = [balances EXCEPT ![b] = atomicDeduct(balances[b], n)]
      /\ requests' = [requests EXCEPT ![id] = new]
  BY DEF createTransaction, CanDeduct
<1>2. b \in BalanceKeys /\ balances[b] \in Balance
  BY <1>1, BalanceKeyType DEF LedgerCore, LedgerTypeOK
<1>3. /\ daysOf(dto) \subseteq Days
      /\ IsFiniteSet(daysOf(dto))
      /\ n \in Nat
      /\ Cardinality(daysOf(dto)) = n
  BY <1>1, DaysOfDto
<1>4. new \in Request /\ new # None
  BY LedgerAssumption DEF Request, Status
<1>5. /\ atomicDeduct(balances[b], n) \in Balance
      /\ atomicDeduct(balances[b], n) # None
  BY <1>2, <1>3, DeductEffect, LedgerAssumption
<1>6. LedgerTypeOK'
  BY <1>1, <1>2, <1>4, <1>5 DEF LedgerCore, LedgerTypeOK
<1>7. requests'[id] = new /\ \A i \in RequestIds : i # id => requests'[i] = requests[i]
  BY <1>1 DEF LedgerCore, LedgerTypeOK
<1>8. /\ balances'[b] = atomicDeduct(balances[b], n)
      /\ \A c \in BalanceKeys : c # b => balances'[c] = balances[c]
  BY <1>1, <1>2 DEF LedgerCore, LedgerTypeOK
<1>9. RequestsBacked'
  <2> SUFFICES ASSUME NEW i \in RequestIds, requests'[i] # None
               PROVE  /\ WellFormed(requests'[i].dto)
                      /\ balances'[balanceKey(requests'[i].dto)] # None
    BY DEF RequestsBacked
  <2>1. CASE i = id
    BY <1>1, <1>5, <1>7, <1>8, <2>1
  <2>2. CASE i # id
    <3>1. requests[i].dto \in Dto /\ requests'[i] = requests[i]
      BY <1>7, <2>2 DEF LedgerCore, LedgerTypeOK, Request
    <3> QED
      BY <1>5, <1>8, <3>1, BalanceKeyType DEF LedgerCore, RequestsBacked
  <2> QED BY <2>1, <2>2
<1>10. ASSUME NEW i \in RequestIds, Active(i), requests[i].dto.lane = dto.lane
       PROVE  daysOf(requests[i].dto) \cap daysOf(dto) = {}
  <2>1. requests[i].dto \in Dto /\ WellFormed(requests[i].dto)
    BY <1>10 DEF LedgerCore, LedgerTypeOK, Request, RequestsBacked, Active
  <2>2. ~ datesOverlap(dto.startDate, dto.endDate,
                       requests[i].dto.startDate, requests[i].dto.endDate)
    BY <1>1, <1>10 DEF Overlaps
  <2> QED BY <1>1, <2>1, <2>2, OverlapMeansSharedDay
<1>11. NoDoubleBooking'
  <2> SUFFICES ASSUME NEW i \in RequestIds, NEW j \in RequestIds, i # j,
                      Active(i)', Active(j)',
                      requests'[i].dto.lane = requests'[j].dto.lane
               PROVE  daysOf(requests'[i].dto) \cap daysOf(requests'[j].dto) = {}
    BY DEF NoDoubleBooking
  <2>1. CASE i = id
    BY <1>7, <1>10, <2>1 DEF Active
  <2>2. CASE j = id
    BY <1>7, <1>10, <2>2 DEF Active
  <2>3. CASE i # id /\ j # id
    BY <1>7, <2>3 DEF LedgerCore, NoDoubleBooking, Active
  <2> QED BY <2>1, <2>2, <2>3
<1>12. ASSUME NEW c \in BalanceKeys, NEW st \in Status, c # b \/ st # "PENDING"
       PROVE  HeldDays(requests', c, st) = HeldDays(requests, c, st)
  BY <1>1, <1>4, <1>7, <1>12 DEF HeldDays
<1>13. HeldDays(requests', b, "PENDING") = HeldDays(requests, b, "PENDING") \cup daysOf(dto)
  BY <1>1, <1>3, <1>4, <1>7 DEF HeldDays
<1>14. HeldDays(requests, b, "PENDING") \cap daysOf(dto) = {}
  <2> SUFFICES ASSUME NEW d \in HeldDays(requests, b, "PENDING"), d \in daysOf(dto)
               PROVE  FALSE
    OBVIOUS
  <2>1. PICK i \in RequestIds :
           /\ requests[i] # None
           /\ balanceKey(requests[i].dto) = b
           /\ requests[i].status = "PENDING"
           /\ d \in daysOf(requests[i].dto)
    BY DEF HeldDays
  <2>2. Active(i) /\ requests[i].dto.lane = dto.lane
    BY <2>1 DEF Active, balanceKey
  <2> QED BY <1>10, <2>1, <2>2
<1>15. ASSUME NEW c \in BalanceKeys PROVE RowInv(c)'
  <2>1. RowInv(c)
    BY RowInvEquivalent DEF LedgerCore
  <2>2. CASE c # b
    BY <1>8, <1>12, <2>1, <2>2, RowInvUnchanged DEF Status
  <2>3. CASE c = b
    <3>1. Cardinality(HeldDays(requests', b, "PENDING"))
             = Cardinality(HeldDays(requests, b, "PENDING")) + n
      BY <1>3, <1>13, <1>14, HeldDaysFinite, AddDays
    <3>2. HeldDays(requests', b, "APPROVED") = HeldDays(requests, b, "APPROVED")
      BY <1>2, <1>12 DEF Status
    <3>3. /\ balances'[b].total = balances[b].total
          /\ balances'[b].available = balances[b].available - n
          /\ balances'[b].pending = balances[b].pending + n
          /\ balances'[b].used = balances[b].used
      BY <1>2, <1>3, <1>8, DeductEffect
    <3>4. /\ balances[b].total \in Int /\ balances[b].available \in Int
          /\ balances[b].pending \in Int /\ balances[b].used \in Int
      BY <1>2 DEF Balance
    <3>5. /\ balances[b].pending = Cardinality(HeldDays(requests, b, "PENDING"))
          /\ balances[b].used = Cardinality(HeldDays(requests, b, "APPROVED"))
      BY <1>1, <2>1, <2>3 DEF RowInv
    <3>6. /\ balances'[b].pending = Cardinality(HeldDays(requests', b, "PENDING"))
          /\ balances'[b].used = Cardinality(HeldDays(requests', b, "APPROVED"))
      BY <3>1, <3>2, <3>3, <3>5
    <3>7. balances'[b].available >= 0
      BY <1>1, <1>3, <3>3, <3>4
    <3> QED BY <2>3, <3>6, <3>7 DEF RowInv
  <2> QED BY <2>2, <2>3
<1>16. LedgerCore'
  BY <1>6, <1>9, <1>11, <1>15, RowInvEquivalentPrime DEF LedgerCore
<1>17. BalanceInvariant => BalanceInvariant'
  <2> DEFINE r == atomicDeduct(balances[b], n)
  <2>1. /\ r.total = balances[b].total
        /\ r.available = balances[b].available - n
        /\ r.pending = balances[b].pending + n
        /\ r.used = balances[b].used
    BY <1>2, <1>3, DeductEffect
  <2>2. /\ balances[b].total \in Int /\ balances[b].available \in Int
        /\ balances[b].pending \in Int /\ balances[b].used \in Int
    BY <1>2 DEF Balance
  <2>3. balances' = [balances EXCEPT ![b] = r]
    BY <1>1
  <2> HIDE DEF r
  <2>4. BalanceInvariant => r.total = r.available + r.pending + r.used
    BY <1>1, <1>2, <1>3, <2>1, <2>2 DEF BalanceInvariant
  <2> QED BY <1>2, <2>3, <2>4, RowWriteBalances DEF LedgerCore
<1> QED BY <1>16, <1>17

-----------------------------------------------------------------------------
(* approveRequest, rejectRequest and cancelRequest. *)

Settled == {"APPROVED", "REJECTED", "CANCELLED"}

\* The days of the request leave the days held as pending and, on approval,
\* join those held as used (step <1>3).  The row that settle writes must move
\* them out of pending, into used on approval and back to available otherwise.
LEMMA SettlePreserves ==
    ASSUME LedgerCore, NEW id \in RequestIds, NEW st \in Settled,
           requests[id] # None, requests[id].status = "PENDING",
           requests' = [requests EXCEPT ![id].status = st],
           NEW dto, dto = requests[id].dto,
           NEW b, b = balanceKey(dto),
           NEW n, n = daysRequested(dto),
           balances[b] # None,
           NEW r \in Balance,
           balances' = [balances EXCEPT ![b] = r],
           r.total = balances[b].total,
           r.pending = balances[b].pending - n,
           st = "APPROVED" => /\ r.used = balances[b].used + n
                              /\ r.available = balances[b].available,
           st # "APPROVED" => /\ r.used = balances[b].used
                              /\ r.available = balances[b].available + n
    PROVE  LedgerCore' /\ (BalanceInvariant => BalanceInvariant')
<1>1. dto \in Dto /\ WellFormed(dto)
  BY DEF LedgerCore, LedgerTypeOK, Request, RequestsBacked
<1>2. b \in BalanceKeys /\ balances[b] \in Balance
  BY <1>1, BalanceKeyType DEF LedgerCore, LedgerTypeOK
<1>3. /\ requests' \in [RequestIds -> Request \cup {None}]
      /\ \A i \in RequestIds : i # id => requests'[i] = requests[i]
      /\ requests'[id].dto = dto
      /\ daysOf(dto) \subseteq HeldDays(requests, b, "PENDING")
      /\ HeldDays(requests', b, "PENDING") = HeldDays(requests, b, "PENDING") \ daysOf(dto)
      /\ HeldDays(requests, b, "APPROVED") \cap daysOf(dto) = {}
      /\ st = "APPROVED" => HeldDays(requests', b, "APPROVED") =
                               HeldDays(requests, b, "APPROVED") \cup daysOf(dto)
      /\ st # "APPROVED" => HeldDays(requests', b, "APPROVED") = HeldDays(requests, b, "APPROVED")
      /\ \A c \in BalanceKeys, s \in Status :
            c # b => HeldDays(requests', c, s) = HeldDays(requests, c, s)
  <2>1. requests[id] \in Request /\ dto \in Dto /\ WellFormed(dto)
    BY DEF LedgerCore, LedgerTypeOK, Request, RequestsBacked
  <2> DEFINE new == [requests[id] EXCEPT !.status = st]
  <2>2. new \in Request /\ new.dto = dto /\ new.status = st
    BY <2>1 DEF Request, Status, Settled
  <2>3. new # None
    BY <2>2, LedgerAssumption
  <2>4. /\ requests' = [requests EXCEPT ![id] = new]
        /\ requests \in [RequestIds -> Request \cup {None}]
    BY DEF LedgerCore, LedgerTypeOK
  <2>5. /\ requests' \in [RequestIds -> Request \cup {None}]
        /\ requests'[id] = new
        /\ \A i \in RequestIds : i # id => requests'[i] = requests[i]
    BY <2>2, <2>4
  <2> HIDE DEF new
  <2>6. daysOf(dto) \subseteq Days
    BY <2>1, DaysOfDto
  <2>7. daysOf(dto) \subseteq HeldDays(requests, b, "PENDING")
    BY <2>6 DEF HeldDays
  <2>8. ASSUME NEW i \in RequestIds, i # id, requests[i] # None,
               requests[i].status \in {"PENDING", "APPROVED"},
               balanceKey(requests[i].dto) = b
        PROVE  daysOf(requests[i].dto) \cap daysOf(dto) = {}
    <3>1. Active(i) /\ Active(id)
      BY <2>8 DEF Active
    <3>2. requests[i].dto.lane = dto.lane
      BY <2>8 DEF balanceKey
    <3>3. NoDoubleBooking
      BY DEF LedgerCore
    <3> QED
      BY <2>8, <3>1, <3>2, <3>3 DEF NoDoubleBooking
  <2>9. HeldDays(requests', b, "PENDING") = HeldDays(requests, b, "PENDING") \ daysOf(dto)
    <3>1. ASSUME NEW d \in HeldDays(requests', b, "PENDING")
          PROVE  d \in HeldDays(requests, b, "PENDING") \ daysOf(dto)
      <4>1. PICK i \in RequestIds :
               /\ requests'[i] # None
               /\ balanceKey(requests'[i].dto) = b
               /\ requests'[i].status = "PENDING"
               /\ d \in daysOf(requests'[i].dto)
        BY <3>1 DEF HeldDays
      <4>2. i # id
        BY <2>2, <2>5, <4>1 DEF Settled
      <4>3. requests'[i] = requests[i]
        BY <2>5, <4>2
      <4>4. d \notin daysOf(dto)
        BY <2>8, <4>1, <4>2, <4>3
      <4>5. d \in HeldDays(requests, b, "PENDING")
        BY <3>1, <4>1, <4>3 DEF HeldDays
      <4> QED BY <4>4, <4>5
    <3>2. ASSUME NEW d \in HeldDays(requests, b, "PENDING"), d \notin daysOf(dto)
          PROVE  d \in HeldDays(requests', b, "PENDING")
      <4>1. PICK i \in RequestIds :
               /\ requests[i] # None
               /\ balanceKey(requests[i].dto) = b
               /\ requests[i].status = "PENDING"
               /\ d \in daysOf(requests[i].dto)
        BY <3>2 DEF HeldDays
      <4>2. i # id
        BY <3>2, <4>1
      <4>3. requests'[i] = requests[i]
        BY <2>5, <4>2
      <4> QED BY <3>2, <4>1, <4>3 DEF HeldDays
    <3> QED BY <3>1, <3>2
  <2>10. HeldDays(requests, b, "APPROVED") \cap daysOf(dto) = {}
    <3> SUFFICES ASSUME NEW d \in HeldDays(requests, b, "APPROVED"), d \in daysOf(dto)
                 PROVE  FALSE
      OBVIOUS
    <3>1. PICK i \in RequestIds :
             /\ requests[i] # None
             /\ balanceKey(requests[i].dto) = b
             /\ requests[i].status = "APPROVED"
             /\ d \in daysOf(requests[i].dto)
      BY DEF HeldDays
    <3> QED BY <2>8, <3>1
  <2>11. ASSUME st = "APPROVED"
         PROVE  HeldDays(requests', b, "APPROVED") = HeldDays(requests, b, "APPROVED") \cup daysOf(dto)
    BY <2>2, <2>3, <2>5, <2>6, <2>11 DEF HeldDays
  <2>12. ASSUME st # "APPROVED"
         PROVE  HeldDays(requests', b, "APPROVED") = HeldDays(requests, b, "APPROVED")
    BY <2>2, <2>5, <2>12 DEF HeldDays
  <2>13. ASSUME NEW c \in BalanceKeys, NEW s \in Status, c # b
         PROVE  HeldDays(requests', c, s) = HeldDays(requests, c, s)
    BY <2>2, <2>5, <2>13 DEF HeldDays
  <2> QED
    BY <2>2, <2>3, <2>5, <2>7, <2>9, <2>10, <2>11, <2>12, <2>13
<1>4. /\ r # None /\ balances'[b] = r
      /\ \A c \in BalanceKeys : c # b => balances'[c] = balances[c]
  BY <1>2, LedgerAssumption DEF LedgerCore, LedgerTypeOK
<1>5. LedgerTypeOK'
  BY <1>2, <1>3 DEF LedgerCore, LedgerTypeOK
<1>6. \A i \in RequestIds :
         requests'[i] # None => /\ requests[i] # None
                                /\ requests'[i].dto = requests[i].dto
  BY <1>3
<1>7. RequestsBacked'
  <2> SUFFICES ASSUME NEW i \in RequestIds, requests'[i] # None
               PROVE  /\ WellFormed(requests'[i].dto)
                      /\ balances'[balanceKey(requests'[i].dto)] # None
    BY DEF RequestsBacked
  <2>1. requests[i] # None /\ requests'[i].dto = requests[i].dto
    BY <1>6
  <2>2. requests[i].dto \in Dto
    BY <2>1 DEF LedgerCore, LedgerTypeOK, Request
  <2> QED
    BY <1>4, <2>1, <2>2, BalanceKeyType DEF LedgerCore, RequestsBacked
<1>8. \A i \in RequestIds : Active(i)' => Active(i)
  BY <1>3, <1>6 DEF Active
<1>9. NoDoubleBooking'
  BY <1>6, <1>8 DEF LedgerCore, NoDoubleBooking, Active
<1>10. ASSUME NEW c \in BalanceKeys PROVE RowInv(c)'
  <2>1. RowInv(c)
    BY RowInvEquivalent DEF LedgerCore
  <2>2. CASE c # b
    BY <1>3, <1>4, <2>1, <2>2, RowInvUnchanged DEF Status
  <2>3. CASE c = b
    <3>1. IsFiniteSet(daysOf(dto)) /\ Cardinality(daysOf(dto)) = n /\ n \in Nat
      BY <1>1, DaysOfDto
    <3>2. Cardinality(HeldDays(requests', b, "PENDING"))
             = Cardinality(HeldDays(requests, b, "PENDING")) - n
      <4>1. IsFiniteSet(HeldDays(requests, b, "PENDING"))
        BY HeldDaysFinite
      <4>2. Cardinality(HeldDays(requests, b, "PENDING") \ daysOf(dto))
               = Cardinality(HeldDays(requests, b, "PENDING"))
                    - Cardinality(daysOf(dto))
        BY <1>3, <3>1, <4>1, RemoveDays
      <4> QED BY <1>3, <3>1, <4>2
    <3>3. st = "APPROVED" => Cardinality(HeldDays(requests', b, "APPROVED"))
                                = Cardinality(HeldDays(requests, b, "APPROVED")) + n
      <4>1. IsFiniteSet(HeldDays(requests, b, "APPROVED"))
        BY HeldDaysFinite
      <4>2. Cardinality(HeldDays(requests, b, "APPROVED") \cup daysOf(dto))
               = Cardinality(HeldDays(requests, b, "APPROVED"))
                    + Cardinality(daysOf(dto))
        BY <1>3, <3>1, <4>1, AddDays
      <4> QED BY <1>3, <3>1, <4>2
    <3>4. /\ balances[b].total \in Int /\ balances[b].available \in Int
          /\ balances[b].pending \in Int /\ balances[b].used \in Int
      BY <1>2 DEF Balance
    <3>5. /\ balances[b].pending = Cardinality(HeldDays(requests, b, "PENDING"))
          /\ balances[b].used = Cardinality(HeldDays(requests, b, "APPROVED"))
          /\ balances[b].available >= 0
      BY <2>1, <2>3 DEF RowInv
    <3>6. /\ r.pending = Cardinality(HeldDays(requests', b, "PENDING"))
          /\ r.used = Cardinality(HeldDays(requests', b, "APPROVED"))
      BY <1>3, <3>2, <3>3, <3>5
    <3>7. r.available >= 0
      BY <3>1, <3>4, <3>5
    <3> QED BY <1>4, <2>3, <3>6, <3>7 DEF RowInv
  <2> QED BY <2>2, <2>3
<1>11. LedgerCore'
  BY <1>5, <1>7, <1>9, <1>10, RowInvEquivalentPrime DEF LedgerCore
<1>12. BalanceInvariant => BalanceInvariant'
  <2>1. /\ balances[b].total \in Int /\ balances[b].available \in Int
        /\ balances[b].pending \in Int /\ balances[b].used \in Int /\ n \in Nat
    BY <1>1, <1>2, DaysOfDto DEF Balance
  <2>2. BalanceInvariant => r.total = r.available + r.pending + r.used
    BY <1>2, <2>1 DEF BalanceInvariant
  <2> QED BY <1>2, <2>2, RowWriteBalances DEF LedgerCore
<1> QED BY <1>11, <1>12

\* A settled request was PENDING: VALID_TRANSITIONS has no other way out.
LEMMA SettleFromPending ==
    ASSUME NEW st, NEW status, st \in VALID_TRANSITIONS(status)
    PROVE  status = "PENDING" /\ st \in Settled
BY DEF VALID_TRANSITIONS, Settled

\* approveRequest, rejectRequest and cancelRequest preserve the invariant.
LEMMA DecidePreserves ==
    ASSUME LedgerCore, NEW id \in RequestIds,
           approveRequest(id) \/ rejectRequest(id) \/ cancelRequest(id)
    PROVE  LedgerCore' /\ (BalanceInvariant => BalanceInvariant')
<1> DEFINE dto == requests[id].dto
           b   == balanceKey(dto)
           n   == daysRequested(dto)
<1>1. requests[id] # None /\ requests[id].status = "PENDING" /\ balances[b] # None
  BY SettleFromPending DEF approveRequest, rejectRequest, cancelRequest, settle
<1>2. dto \in Dto /\ WellFormed(dto)
  BY <1>1 DEF LedgerCore, LedgerTypeOK, Request, RequestsBacked
<1>3. balances[b] \in Balance /\ n \in Int
  BY <1>1, <1>2, BalanceKeyType, DaysOfDto DEF LedgerCore, LedgerTypeOK
<1>4. CASE approveRequest(id)
  <2>1. /\ requests' = [requests EXCEPT ![id].status = "APPROVED"]
        /\ balances' = [balances EXCEPT ![b] = finalizeUsed(balances[b], n)]
    BY <1>4 DEF approveRequest, settle
  <2> DEFINE r == finalizeUsed(balances[b], n)
  <2>2. /\ r \in Balance
        /\ r.total = balances[b].total
        /\ r.pending = balances[b].pending - n
        /\ r.used = balances[b].used + n
        /\ r.available = balances[b].available
    BY <1>3, FinalizeEffect
  <2> HIDE DEF r
  <2> QED BY <1>1, <2>1, <2>2, SettlePreserves DEF Settled, r
<1>5. ASSUME NEW st \in {"REJECTED", "CANCELLED"},
             requests' = [requests EXCEPT ![id].status = st],
             balances' = [balances EXCEPT ![b] = releaseFromPending(balances[b], n)]
      PROVE  LedgerCore' /\ (BalanceInvariant => BalanceInvariant')
  <2> DEFINE r == releaseFromPending(balances[b], n)
  <2>1. /\ r \in Balance
        /\ r.total = balances[b].total
        /\ r.pending = balances[b].pending - n
        /\ r.used = balances[b].used
        /\ r.available = balances[b].available + n
    BY <1>3, ReleaseEffect
  <2>2. st \in Settled /\ st # "APPROVED"
    BY DEF Settled
  <2> HIDE DEF r
  <2> QED BY <1>1, <1>5, <2>1, <2>2, SettlePreserves DEF r
<1>6. CASE rejectRequest(id)
  BY <1>5, <1>6 DEF rejectRequest, settle
<1>7. CASE cancelRequest(id)
  BY <1>5, <1>7 DEF cancelRequest, settle
<1> QED BY <1>4, <1>6, <1>7

\* Pending holds the days of each PENDING request, so that it can be decided.
LEMMA CoreSettles == LedgerCore => PendingCanBeSettled
<1> SUFFICES ASSUME LedgerCore, NEW i \in RequestIds,
                    requests[i] # None, requests[i].status = "PENDING"
             PROVE  /\ balances[balanceKey(requests[i].dto)] # None
                    /\ CanTakePending(balances[balanceKey(requests[i].dto)],
                                      daysRequested(requests[i].dto))
  BY DEF PendingCanBeSettled
<1> DEFINE dto == requests[i].dto
           b   == balanceKey(dto)
           held == HeldDays(requests, b, "PENDING")
<1>1. dto \in Dto /\ WellFormed(dto) /\ balances[b] # None
  BY DEF LedgerCore, LedgerTypeOK, Request, RequestsBacked
<1>2. /\ daysOf(dto) \subseteq Days
      /\ IsFiniteSet(daysOf(dto))
      /\ Cardinality(daysOf(dto)) = daysRequested(dto)
  BY <1>1, DaysOfDto
<1>3. daysOf(dto) \subseteq held
  BY <1>2 DEF HeldDays
<1>4. Cardinality(daysOf(dto)) <= Cardinality(held)
  BY <1>2, <1>3, HeldDaysFinite, RemoveDays
<1>5. balances[b].pending = Cardinality(held)
  BY <1>1, BalanceKeyType DEF LedgerCore, CountersMatchRequests
<1> QED BY <1>1, <1>2, <1>4, <1>5 DEF CanTakePending

-----------------------------------------------------------------------------
(* The theorems. *)

\* Every transaction preserves the invariant.
LEMMA NextPreserves == LedgerInv /\ [LedgerNext]_ledgerVars => LedgerInv'
<1> SUFFICES ASSUME LedgerInv, [LedgerNext]_ledgerVars PROVE LedgerInv'
  OBVIOUS
<1>1. CASE Administer
  BY <1>1, UpsertPreserves, RealTimeUpdatePreserves DEF Administer, LedgerInv
<1>2. CASE \E id \in RequestIds, dto \in Dto : createTransaction(id, dto)
  BY <1>2, CreatePreserves DEF LedgerInv
<1>3. CASE Decide
  BY <1>3, DecidePreserves DEF Decide, LedgerInv
<1>4. CASE UNCHANGED ledgerVars
  BY <1>4 DEF ledgerVars, LedgerInv, LedgerCore, LedgerTypeOK, RequestsBacked,
              NoDoubleBooking, Active, CountersMatchRequests,
              BalanceInvariant, NeverOverdrawn
<1> QED BY <1>1, <1>2, <1>3, <1>4 DEF LedgerNext

\* The inductive invariant holds in every reachable state of the ledger.
THEOREM LedgerInvariant == LedgerSpec => []LedgerInv
<1>1. LedgerInit => LedgerInv
  BY InitEstablishes
<1>2. LedgerInv /\ [LedgerNext]_ledgerVars => LedgerInv'
  BY NextPreserves
<1> QED BY <1>1, <1>2, PTL DEF LedgerSpec

\* Type correctness of the two tables.
THEOREM TypeCorrect == LedgerSpec => []LedgerTypeOK
<1>1. LedgerInv => LedgerTypeOK
  BY DEF LedgerInv, LedgerCore
<1> QED BY <1>1, LedgerInvariant, PTL

\* Guarantee 2 of README.md for every employee, leave type and calendar:
\* available + pending + used = total after any sequence of transactions.
THEOREM BalanceInvariantHolds == LedgerSpec => []BalanceInvariant
<1>1. LedgerInv => BalanceInvariant
  BY DEF LedgerInv
<1> QED BY <1>1, LedgerInvariant, PTL

\* "Never Overdraw" of docs/ARCHITECTURE.md.
THEOREM NeverOverdrawnHolds == LedgerSpec => []NeverOverdrawn
<1>1. LedgerInv => NeverOverdrawn
  BY DEF LedgerInv, LedgerCore
<1> QED BY <1>1, LedgerInvariant, PTL

\* pending and used always count the days that PENDING and APPROVED requests
\* hold.
THEOREM CountersMatchRequestsHolds == LedgerSpec => []CountersMatchRequests
<1>1. LedgerInv => CountersMatchRequests
  BY DEF LedgerInv, LedgerCore
<1> QED BY <1>1, LedgerInvariant, PTL

\* No employee has a calendar day booked twice at a location.
THEOREM NoDoubleBookingHolds == LedgerSpec => []NoDoubleBooking
<1>1. LedgerInv => NoDoubleBooking
  BY DEF LedgerInv, LedgerCore
<1> QED BY <1>1, LedgerInvariant, PTL

\* A PENDING request can always be decided: the underflow errors of
\* releaseFromPending and finalizeUsed are unreachable.
THEOREM PendingCanBeSettledHolds == LedgerSpec => []PendingCanBeSettled
<1>1. LedgerInv => PendingCanBeSettled
  BY CoreSettles DEF LedgerInv
<1> QED BY <1>1, LedgerInvariant, PTL

-----------------------------------------------------------------------------
(* What a step may never do. *)

\* A decision changes the status of one PENDING request and nothing else.
LEMMA DecideKeepsSettled ==
    ASSUME LedgerTypeOK, NEW id \in RequestIds, NEW st,
           requests[id] # None,
           st \in VALID_TRANSITIONS(requests[id].status),
           requests' = [requests EXCEPT ![id].status = st]
    PROVE  KeepsSettled
<1>1. /\ requests[id] # None /\ requests[id].status = "PENDING"
      /\ requests' = [requests EXCEPT ![id].status = st]
      /\ requests \in [RequestIds -> Request \cup {None}]
  BY SettleFromPending DEF LedgerTypeOK
<1> DEFINE new == [requests[id] EXCEPT !.status = st]
<1>2. st \in Status
  BY DEF VALID_TRANSITIONS, Status
<1>3. requests[id] \in Request
  BY <1>1
<1>4. new \in Request /\ new.dto = requests[id].dto
  BY <1>2, <1>3 DEF Request
<1>5. new # None
  BY <1>4, LedgerAssumption
<1>6. requests'[id] = new /\ \A i \in RequestIds : i # id => requests'[i] = requests[i]
  BY <1>1
<1> HIDE DEF new
<1> QED BY <1>1, <1>4, <1>5, <1>6 DEF KeepsSettled

\* No transaction deletes or reopens a request, or changes what it asks for.
LEMMA TransactionKeepsSettled ==
    ASSUME LedgerTypeOK, LedgerNext
    PROVE  KeepsSettled
<1>1. CASE Administer
  BY <1>1 DEF Administer, upsertBalance, realTimeUpdate, KeepsSettled
<1>2. CASE \E id \in RequestIds, dto \in Dto : createTransaction(id, dto)
  BY <1>2 DEF createTransaction, KeepsSettled, LedgerTypeOK
<1>3. CASE Decide
  BY <1>3, DecideKeepsSettled
  DEF Decide, approveRequest, rejectRequest, cancelRequest, settle
<1> QED BY <1>1, <1>2, <1>3 DEF LedgerNext

\* APPROVED, REJECTED and CANCELLED are terminal, and no request is deleted or
\* changes what it asks for.
THEOREM SettledStaysSettledHolds == LedgerSpec => SettledStaysSettled
<1>1. LedgerInv /\ [LedgerNext]_ledgerVars => [KeepsSettled]_ledgerVars
  BY TransactionKeepsSettled DEF LedgerInv, LedgerCore
<1> QED BY <1>1, LedgerInvariant, PTL DEF LedgerSpec, SettledStaysSettled

\* A step that writes one row and does not lower its available takes no days.
LEMMA RowWriteTakesNoDays ==
    ASSUME LedgerTypeOK, NEW b \in BalanceKeys, NEW r \in Balance,
           balances' = [balances EXCEPT ![b] = r],
           balances[b] # None => r.available >= balances[b].available
    PROVE  TakesDaysForRequest
<1> SUFFICES ASSUME NEW c \in BalanceKeys, balances[c] # None
             PROVE  ~ (balances'[c].available < balances[c].available)
  BY DEF TakesDaysForRequest
<1>1. balances[c] \in Balance /\ balances[c].available \in Int
  BY DEF LedgerTypeOK, Balance
<1>2. r.available \in Int
  BY DEF Balance
<1>3. balances'[c] = IF c = b THEN r ELSE balances[c]
  BY DEF LedgerTypeOK
<1> QED BY <1>1, <1>2, <1>3

\* A decision never lowers what is available.
LEMMA DecideTakesNoDays ==
    ASSUME LedgerCore, NEW id \in RequestIds,
           approveRequest(id) \/ rejectRequest(id) \/ cancelRequest(id)
    PROVE  TakesDaysForRequest
<1> DEFINE dto == requests[id].dto
           b   == balanceKey(dto)
           n   == daysRequested(dto)
<1>1. requests[id] # None /\ balances[b] # None
  BY DEF approveRequest, rejectRequest, cancelRequest, settle
<1>2. dto \in Dto /\ WellFormed(dto)
  BY <1>1 DEF LedgerCore, LedgerTypeOK, Request, RequestsBacked
<1>3. b \in BalanceKeys /\ balances[b] \in Balance /\ n \in Nat
  BY <1>1, <1>2, BalanceKeyType, DaysOfDto DEF LedgerCore, LedgerTypeOK
<1>4. balances[b].available \in Int
  BY <1>3 DEF Balance
<1>5. PICK r \in Balance :
         /\ balances' = [balances EXCEPT ![b] = r]
         /\ r.available = balances[b].available \/
            r.available = balances[b].available + n
  <2>1. CASE balances' = [balances EXCEPT ![b] = finalizeUsed(balances[b], n)]
    <3> DEFINE f == finalizeUsed(balances[b], n)
    <3>1. f \in Balance /\ f.available = balances[b].available
      BY <1>3, FinalizeEffect
    <3> HIDE DEF f
    <3> QED BY <2>1, <3>1 DEF f
  <2>2. CASE balances' = [balances EXCEPT ![b] = releaseFromPending(balances[b], n)]
    <3> DEFINE f == releaseFromPending(balances[b], n)
    <3>1. f \in Balance /\ f.available = balances[b].available + n
      BY <1>3, ReleaseEffect
    <3> HIDE DEF f
    <3> QED BY <2>2, <3>1 DEF f
  <2> QED
    BY <2>1, <2>2 DEF approveRequest, rejectRequest, cancelRequest, settle
<1>6. r.available >= balances[b].available
  BY <1>3, <1>4, <1>5
<1> QED BY <1>3, <1>5, <1>6, RowWriteTakesNoDays DEF LedgerCore

\* No decision and no total reported by HCM takes available days away: only a
\* new request does.
THEOREM OnlyRequestsTakeDaysHolds == LedgerSpec => OnlyRequestsTakeDays
<1>1. LedgerInv /\ [LedgerNext]_ledgerVars => [TakesDaysForRequest]_ledgerVars
  <2> SUFFICES ASSUME LedgerCore, LedgerTypeOK, LedgerNext PROVE TakesDaysForRequest
    BY DEF LedgerInv, LedgerCore
  <2>1. ASSUME NEW b \in BalanceKeys, NEW n \in Totals, upsertBalance(b, n)
        PROVE  TakesDaysForRequest
    <3>1. newBalance(n) \in Balance
      BY LedgerAssumption, NewBalanceEffect
    <3>2. balances[b] = None /\ balances' = [balances EXCEPT ![b] = newBalance(n)]
      BY <2>1 DEF upsertBalance
    <3> QED BY <3>1, <3>2, RowWriteTakesNoDays
  <2>2. ASSUME NEW b \in BalanceKeys, NEW n \in Totals, realTimeUpdate(b, n)
        PROVE  TakesDaysForRequest
    <3> DEFINE r == balances[b]
               u == applyHcmRealTimeUpdate(r, n)
    <3>1. n \in Int /\ r \in Balance
      BY <2>2, LedgerAssumption DEF LedgerTypeOK, realTimeUpdate
    <3>2. u \in Balance
      BY <3>1, HcmUpdateEffect
    <3>3. u.available >= r.available
      <4>1. r.available \in Int /\ n - localTotal(r) \in Int
        BY <3>1 DEF Balance, localTotal
      <4>2. CASE n - localTotal(r) > 0
        <5>1. u.available = r.available + (n - localTotal(r))
          BY <3>1, <4>2, HcmUpdateEffect
        <5> HIDE DEF u, r
        <5> QED BY <4>1, <4>2, <5>1
      <4>3. CASE ~ (n - localTotal(r) > 0)
        <5>1. u.available = r.available
          BY <3>1, <4>3, HcmUpdateEffect
        <5> HIDE DEF u, r
        <5> QED BY <4>1, <5>1
      <4> QED BY <4>2, <4>3
    <3>4. balances' = [balances EXCEPT ![b] = u]
      BY <2>2 DEF realTimeUpdate
    <3> HIDE DEF u
    <3> QED BY <3>2, <3>3, <3>4, RowWriteTakesNoDays
  <2>3. ASSUME NEW id \in RequestIds, NEW dto \in Dto, createTransaction(id, dto)
        PROVE  TakesDaysForRequest
    <3> DEFINE b == balanceKey(dto)
    <3>1. /\ requests[id] = None
          /\ requests'[id] = [dto |-> dto, status |-> "PENDING"]
          /\ requests'[id] # None
      BY <2>3, LedgerAssumption
      DEF createTransaction, LedgerTypeOK, Request, Status
    <3>2. \A c \in BalanceKeys : c # b => balances'[c] = balances[c]
      BY <2>3 DEF createTransaction, LedgerTypeOK
    <3>3. \A c \in BalanceKeys :
             balances[c] # None => balances[c].available \in Int
      BY DEF LedgerTypeOK, Balance
    <3>4. balanceKey(requests'[id].dto) = b
      BY <3>1
    <3> HIDE DEF b
    <3> QED BY <3>1, <3>2, <3>3, <3>4 DEF TakesDaysForRequest
  <2> QED
    BY <2>1, <2>2, <2>3, DecideTakesNoDays DEF LedgerNext, Administer, Decide
<1> QED BY <1>1, LedgerInvariant, PTL DEF LedgerSpec, OnlyRequestsTakeDays

-----------------------------------------------------------------------------
(* The refinement of Entitlement: what each transaction does to the days     *)
(* granted, in the terms of the ledger, and then the mapping.                *)

\* A write of one row grants that balance its total and no other anything.
LEMMA RowWriteGrants ==
    ASSUME LedgerTypeOK, NEW b \in BalanceKeys, NEW r \in Balance,
           balances' = [balances EXCEPT ![b] = r]
    PROVE  \A c \in BalanceKeys :
              daysGranted(c)' = IF c = b THEN r.total ELSE daysGranted(c)
<1>1. /\ balances'[b] = r /\ r # None
      /\ \A c \in BalanceKeys : c # b => balances'[c] = balances[c]
  BY LedgerAssumption DEF LedgerTypeOK
<1> QED BY <1>1 DEF daysGranted

\* A balance that exists has been granted a number of days.
LEMMA GrantedDays ==
    ASSUME LedgerTypeOK, NEW b \in BalanceKeys, balances[b] # None
    PROVE  /\ daysGranted(b) = balances[b].total
           /\ daysGranted(b) \in Int
           /\ daysGranted(b) # None
<1>1. balances[b].total \in Int
  BY DEF LedgerTypeOK, Balance
<1> QED BY <1>1, LedgerAssumption DEF daysGranted

\* upsertBalance grants the first days of a balance.
LEMMA UpsertGrants ==
    ASSUME LedgerTypeOK, NEW b \in BalanceKeys, NEW n \in Totals,
           upsertBalance(b, n)
    PROVE  /\ daysGranted(b) = None
           /\ \A c \in BalanceKeys :
                 daysGranted(c)' = IF c = b THEN n ELSE daysGranted(c)
<1>1. newBalance(n) \in Balance /\ newBalance(n).total = n
  BY NewBalanceEffect, LedgerAssumption
<1>2. balances[b] = None /\ balances' = [balances EXCEPT ![b] = newBalance(n)]
  BY DEF upsertBalance
<1> HIDE DEF newBalance
<1>3. \A c \in BalanceKeys :
         daysGranted(c)' = IF c = b THEN newBalance(n).total ELSE daysGranted(c)
  BY <1>1, <1>2, RowWriteGrants
<1> QED BY <1>1, <1>2, <1>3 DEF daysGranted

\* A total reported by HCM adds days or leaves the grant as it is.
LEMMA UpdateGrants ==
    ASSUME LedgerInv, NEW b \in BalanceKeys, NEW n \in Totals,
           realTimeUpdate(b, n)
    PROVE  \/ /\ daysGranted(b) < n
              /\ \A c \in BalanceKeys :
                    daysGranted(c)' = IF c = b THEN n ELSE daysGranted(c)
           \/ \A c \in BalanceKeys : daysGranted(c)' = daysGranted(c)
<1> DEFINE r == balances[b]
           u == applyHcmRealTimeUpdate(r, n)
<1>0. LedgerTypeOK
  BY DEF LedgerInv, LedgerCore
<1>1. n \in Int /\ r \in Balance /\ r # None
  BY <1>0, LedgerAssumption DEF LedgerTypeOK, realTimeUpdate
<1>2. daysGranted(b) = r.total
  BY <1>0, <1>1, GrantedDays
<1>3. r.total = localTotal(r) /\ r.total \in Int
  <2>1. r.total = r.available + r.pending + r.used
    BY <1>1 DEF LedgerInv, BalanceInvariant
  <2>2. r.total \in Int /\ r.available \in Int /\ r.pending \in Int /\ r.used \in Int
    BY <1>1 DEF Balance
  <2> HIDE DEF r
  <2> QED BY <2>1, <2>2 DEF localTotal
<1>4. u \in Balance /\ balances' = [balances EXCEPT ![b] = u]
  BY <1>1, HcmUpdateEffect DEF realTimeUpdate
<1>5. \A c \in BalanceKeys :
         daysGranted(c)' = IF c = b THEN u.total ELSE daysGranted(c)
  <2> HIDE DEF u
  <2> QED BY <1>0, <1>4, RowWriteGrants
<1>6. CASE n - localTotal(r) > 0
  <2>1. u.total = n
    BY <1>1, <1>6, HcmUpdateEffect
  <2>2. r.total < n
    <3> HIDE DEF r
    <3> QED BY <1>1, <1>3, <1>6
  <2> QED BY <1>2, <1>5, <2>1, <2>2
<1>7. CASE ~ (n - localTotal(r) > 0)
  <2>1. u.total = r.total
    BY <1>1, <1>7, HcmUpdateEffect
  <2> HIDE DEF u
  <2> QED BY <1>2, <1>5, <2>1
<1> QED BY <1>6, <1>7

\* createTransaction books days that nobody holds and that were granted: with
\* the counters adding up to the total, what is available is what is left.
LEMMA CreateBooks ==
    ASSUME LedgerInv, NEW id \in RequestIds, NEW dto \in Dto,
           createTransaction(id, dto),
           NEW b, b = balanceKey(dto)
    PROVE  /\ \A c \in BalanceKeys : daysGranted(c)' = daysGranted(c)
           /\ requests[id] = None
           /\ requests' = [requests EXCEPT ![id] = [dto |-> dto, status |-> "PENDING"]]
           /\ daysOf(dto) # {}
           /\ \A i \in RequestIds :
                 Active(i) /\ requests[i].dto.lane = dto.lane
                    => daysOf(dto) \cap daysOf(requests[i].dto) = {}
           /\ daysGranted(b) # None
           /\ IsFiniteSet(HeldDays(requests, b, "PENDING")
                             \cup HeldDays(requests, b, "APPROVED") \cup daysOf(dto))
           /\ Cardinality(HeldDays(requests, b, "PENDING")
                             \cup HeldDays(requests, b, "APPROVED") \cup daysOf(dto))
                 <= daysGranted(b)
<1> DEFINE n == daysRequested(dto)
           p == HeldDays(requests, b, "PENDING")
           q == HeldDays(requests, b, "APPROVED")
           d == daysOf(dto)
<1>0. LedgerTypeOK /\ LedgerCore
  BY DEF LedgerInv, LedgerCore
<1>1. /\ WellFormed(dto)
      /\ requests[id] = None
      /\ ~ Overlaps(dto)
      /\ balances[b] # None
      /\ balances[b].available >= n
      /\ balances' = [balances EXCEPT ![b] = atomicDeduct(balances[b], n)]
      /\ requests' = [requests EXCEPT ![id] = [dto |-> dto, status |-> "PENDING"]]
  BY DEF createTransaction, CanDeduct
<1>2. b \in BalanceKeys
  BY BalanceKeyType
<1>3. balances[b] \in Balance
  BY <1>0, <1>1, <1>2 DEF LedgerTypeOK
<1>4. /\ d # {} /\ IsFiniteSet(d) /\ n \in Nat /\ Cardinality(d) = n
  BY <1>1, DaysOfDto
<1>5. daysGranted(b) = balances[b].total /\ daysGranted(b) # None
  BY <1>0, <1>1, <1>2, GrantedDays
<1>6. \A c \in BalanceKeys : daysGranted(c)' = daysGranted(c)
  <2> DEFINE r == atomicDeduct(balances[b], n)
  <2>1. r \in Balance /\ r.total = balances[b].total
    BY <1>3, <1>4, DeductEffect
  <2> HIDE DEF r
  <2>2. balances' = [balances EXCEPT ![b] = r]
    BY <1>1 DEF r
  <2> QED BY <1>0, <1>2, <1>5, <2>1, <2>2, RowWriteGrants
<1>7. ASSUME NEW i \in RequestIds, Active(i), requests[i].dto.lane = dto.lane
      PROVE  daysOf(dto) \cap daysOf(requests[i].dto) = {}
  <2>1. requests[i].dto \in Dto /\ WellFormed(requests[i].dto)
    BY <1>0, <1>7 DEF Active, LedgerCore, LedgerTypeOK, Request, RequestsBacked
  <2> QED BY <1>1, <1>7, <2>1, OverlapMeansSharedDay DEF Overlaps
<1>8. IsFiniteSet(p) /\ IsFiniteSet(q) /\ Cardinality(p) \in Nat /\ Cardinality(q) \in Nat
  BY HeldDaysFinite
<1>9. /\ balances[b].pending = Cardinality(p)
      /\ balances[b].used = Cardinality(q)
  BY <1>0, <1>1, <1>2 DEF LedgerCore, CountersMatchRequests
<1>10. balances[b].total = balances[b].available + Cardinality(p) + Cardinality(q)
  BY <1>1, <1>2, <1>9 DEF LedgerInv, BalanceInvariant
<1>11. balances[b].available \in Int
  BY <1>3 DEF Balance
<1> HIDE DEF n, p, q, d
<1>12. IsFiniteSet(p \cup q) /\ Cardinality(p \cup q) <= Cardinality(p) + Cardinality(q)
  BY <1>8, UnionAtMost
<1>13. /\ IsFiniteSet((p \cup q) \cup d)
       /\ Cardinality((p \cup q) \cup d) <= Cardinality(p \cup q) + Cardinality(d)
  BY <1>4, <1>12, UnionAtMost
<1>14. Cardinality(p \cup q) \in Nat /\ Cardinality((p \cup q) \cup d) \in Nat
  BY <1>12, <1>13, FS_CardinalityType
<1>15. Cardinality(p \cup q) + Cardinality(d) <= balances[b].total
  BY <1>1, <1>4, <1>8, <1>10, <1>11, <1>12, <1>14
<1>16. Cardinality((p \cup q) \cup d) <= balances[b].total
  <2>1. balances[b].total \in Int
    BY <1>3 DEF Balance
  <2> QED BY <1>4, <1>13, <1>14, <1>15, <2>1
<1> QED BY <1>1, <1>4, <1>5, <1>6, <1>7, <1>13, <1>16 DEF p, q, d

\* A decision settles one PENDING request and grants nothing.
LEMMA DecideSettles ==
    ASSUME LedgerInv, NEW id \in RequestIds,
           approveRequest(id) \/ rejectRequest(id) \/ cancelRequest(id)
    PROVE  /\ \A c \in BalanceKeys : daysGranted(c)' = daysGranted(c)
           /\ requests[id] # None
           /\ requests[id].status = "PENDING"
           /\ \E st \in Settled : requests' = [requests EXCEPT ![id].status = st]
<1> DEFINE dto == requests[id].dto
           b   == balanceKey(dto)
           n   == daysRequested(dto)
<1>0. LedgerTypeOK /\ LedgerCore
  BY DEF LedgerInv, LedgerCore
<1>1. /\ requests[id] # None /\ balances[b] # None
      /\ requests[id].status = "PENDING"
      /\ \E st \in Settled : requests' = [requests EXCEPT ![id].status = st]
  BY SettleFromPending DEF approveRequest, rejectRequest, cancelRequest, settle
<1>2. dto \in Dto /\ WellFormed(dto)
  BY <1>0, <1>1 DEF LedgerCore, LedgerTypeOK, Request, RequestsBacked
<1>3. b \in BalanceKeys /\ balances[b] \in Balance /\ n \in Nat
  BY <1>0, <1>1, <1>2, BalanceKeyType, DaysOfDto DEF LedgerTypeOK
<1>4. PICK r \in Balance : /\ balances' = [balances EXCEPT ![b] = r]
                           /\ r.total = balances[b].total
  <2>1. CASE balances' = [balances EXCEPT ![b] = finalizeUsed(balances[b], n)]
    <3> DEFINE f == finalizeUsed(balances[b], n)
    <3>1. f \in Balance /\ f.total = balances[b].total
      BY <1>3, FinalizeEffect
    <3> HIDE DEF f
    <3> QED BY <2>1, <3>1 DEF f
  <2>2. CASE balances' = [balances EXCEPT ![b] = releaseFromPending(balances[b], n)]
    <3> DEFINE f == releaseFromPending(balances[b], n)
    <3>1. f \in Balance /\ f.total = balances[b].total
      BY <1>3, ReleaseEffect
    <3> HIDE DEF f
    <3> QED BY <2>2, <3>1 DEF f
  <2> QED
    BY <2>1, <2>2 DEF approveRequest, rejectRequest, cancelRequest, settle
<1>5. daysGranted(b) = r.total
  BY <1>0, <1>1, <1>3, <1>4, GrantedDays
<1>6. \A c \in BalanceKeys : daysGranted(c)' = daysGranted(c)
  <2> HIDE DEF b
  <2> QED BY <1>0, <1>3, <1>4, <1>5, RowWriteGrants
<1> QED BY <1>1, <1>6

\* Entitlement counts as the ledger does.
LEMMA EntitlementCounts ==
    ASSUME NEW S
    PROVE  E!Cardinality(S) = Cardinality(S)
BY DEF E!Cardinality, Cardinality

\* The days a booking of Entitlement names are the days of its request.
LEMMA EntitlementDays ==
    ASSUME NEW dto
    PROVE  E!Range(dto) = daysOf(dto)
BY DEF E!Range, daysOf

\* Entitlement's days held are the ledger's, over both statuses.
LEMMA EntitlementHeld ==
    ASSUME NEW b
    PROVE  E!HeldIn(b, {"PENDING", "APPROVED"}) =
              HeldDays(requests, b, "PENDING") \cup HeldDays(requests, b, "APPROVED")
BY DEF E!HeldIn, E!Range, HeldDays, daysOf, balanceKey, Days

\* A day held in a lane is a day of one of its active requests.
LEMMA EntitlementLane ==
    ASSUME NEW l, NEW d \in E!HeldInLane(l)
    PROVE  \E i \in RequestIds : /\ Active(i)
                                 /\ requests[i].dto.lane = l
                                 /\ d \in daysOf(requests[i].dto)
<1>1. PICK t \in LeaveTypes : d \in E!HeldIn(<<l, t>>, {"PENDING", "APPROVED"})
  BY DEF E!HeldInLane
<1>2. PICK i \in RequestIds :
         /\ requests[i] # None
         /\ <<requests[i].dto.lane, requests[i].dto.leaveType>> = <<l, t>>
         /\ requests[i].status \in {"PENDING", "APPROVED"}
         /\ d \in daysOf(requests[i].dto)
  BY <1>1 DEF E!HeldIn, E!Range, daysOf
<1>3. requests[i].dto.lane = l
  BY <1>2
<1> QED BY <1>2, <1>3 DEF Active

\* The counters of BalanceService implement Entitlement: every transaction
\* grants days, books days nobody holds within what was granted, decides a
\* booking once, or changes neither.
THEOREM LedgerRefinesEntitlement == LedgerSpec => LedgerImplementsEntitlement
<1> DEFINE ent == [b \in BalanceKeys |-> daysGranted(b)]
<1>1. LedgerInit => E!Init
  BY DEF LedgerInit, E!Init, daysGranted, BalanceKeys
<1>2. LedgerInv /\ [LedgerNext]_ledgerVars => [E!Next]_(E!vars)
  <2> SUFFICES ASSUME LedgerInv, [LedgerNext]_ledgerVars
               PROVE  [E!Next]_(E!vars)
    OBVIOUS
  <2>0. LedgerTypeOK
    BY DEF LedgerInv, LedgerCore
  <2>1. ASSUME UNCHANGED requests,
               \A c \in BalanceKeys : daysGranted(c)' = daysGranted(c)
        PROVE  UNCHANGED E!vars
    BY <2>1 DEF E!vars
  <2>2. ASSUME NEW b \in BalanceKeys, NEW n \in Totals,
               daysGranted(b) = None \/ daysGranted(b) < n,
               \A c \in BalanceKeys :
                  daysGranted(c)' = IF c = b THEN n ELSE daysGranted(c),
               UNCHANGED requests
        PROVE  E!Next
    <3>1. ent' = [ent EXCEPT ![b] = n]
      BY <2>2
    <3>2. E!Grant(b, n)
      BY <2>2, <3>1 DEF E!Grant
    <3> QED BY <3>2 DEF E!Next, BalanceKeys
  <2>3. ASSUME NEW b \in BalanceKeys, NEW n \in Totals, upsertBalance(b, n)
        PROVE  E!Next
    BY <2>0, <2>2, <2>3, UpsertGrants DEF upsertBalance
  <2>4. ASSUME NEW b \in BalanceKeys, NEW n \in Totals, realTimeUpdate(b, n)
        PROVE  [E!Next]_(E!vars)
    BY <2>1, <2>2, <2>4, UpdateGrants DEF realTimeUpdate
  <2>5. ASSUME NEW id \in RequestIds, NEW dto \in Dto, createTransaction(id, dto)
        PROVE  E!Next
    <3> DEFINE b == balanceKey(dto)
               held == E!HeldIn(b, {"PENDING", "APPROVED"})
    <3>1. /\ \A c \in BalanceKeys : daysGranted(c)' = daysGranted(c)
          /\ requests[id] = None
          /\ requests' = [requests EXCEPT ![id] = [dto |-> dto, status |-> "PENDING"]]
          /\ daysOf(dto) # {}
          /\ \A i \in RequestIds :
                Active(i) /\ requests[i].dto.lane = dto.lane
                   => daysOf(dto) \cap daysOf(requests[i].dto) = {}
          /\ daysGranted(b) # None
          /\ Cardinality(held \cup daysOf(dto)) <= daysGranted(b)
      BY <2>5, CreateBooks, EntitlementHeld
    <3>2. daysOf(dto) \cap E!HeldInLane(dto.lane) = {}
      BY <3>1, EntitlementLane
    <3>3. b \in BalanceKeys /\ b = <<dto.lane, dto.leaveType>>
      BY BalanceKeyType DEF balanceKey
    <3>4. ent' = ent
      BY <3>1
    <3>5. E!Range(dto) = daysOf(dto)
      BY EntitlementDays
    <3>6. ent[b] = daysGranted(b)
      BY <3>3
    <3> HIDE DEF b, ent
    <3>7. /\ requests[id] = None
          /\ E!Range(dto) # {}
          /\ E!Range(dto) \cap E!HeldInLane(dto.lane) = {}
          /\ ent[<<dto.lane, dto.leaveType>>] # None
          /\ Cardinality(E!HeldIn(<<dto.lane, dto.leaveType>>, {"PENDING", "APPROVED"})
                            \cup E!Range(dto)) <= ent[<<dto.lane, dto.leaveType>>]
          /\ requests' = [requests EXCEPT ![id] = [dto |-> dto, status |-> "PENDING"]]
          /\ UNCHANGED ent
      BY <3>1, <3>2, <3>3, <3>4, <3>5, <3>6
    <3>8. E!Book(id, dto)
      BY <3>7, EntitlementCounts DEF E!Book, ent
    <3> QED BY <3>8 DEF E!Next, Dto, Days
  <2>6. ASSUME NEW id \in RequestIds,
               approveRequest(id) \/ rejectRequest(id) \/ cancelRequest(id)
        PROVE  E!Next
    <3>1. PICK st \in Settled :
             /\ \A c \in BalanceKeys : daysGranted(c)' = daysGranted(c)
             /\ requests[id] # None
             /\ requests[id].status = "PENDING"
             /\ requests' = [requests EXCEPT ![id].status = st]
      BY <2>6, DecideSettles
    <3>2. ent' = ent
      BY <3>1
    <3>3. E!Decide(id, st)
      BY <3>1, <3>2 DEF E!Decide
    <3> QED BY <3>3 DEF E!Next, Settled
  <2>7. CASE LedgerNext
    BY <2>3, <2>4, <2>5, <2>6, <2>7 DEF LedgerNext, Administer, Decide
  <2>8. CASE UNCHANGED ledgerVars
    <3>1. UNCHANGED requests /\ \A c \in BalanceKeys : daysGranted(c)' = daysGranted(c)
      BY <2>8 DEF ledgerVars, daysGranted
    <3> QED BY <2>1, <3>1
  <2> QED BY <2>7, <2>8
<1> QED BY <1>1, <1>2, LedgerInvariant, PTL
        DEF LedgerSpec, LedgerImplementsEntitlement, E!Spec

=============================================================================
