------------------------ MODULE PriorityQueue_proofs ------------------------
(***************************************************************************)
(* Proofs about the heap of src/common/utils/priority-queue.util.js, for   *)
(* every capacity, every set of priorities and any number of operations:   *)
(* the heap implements the ordered queue.                                  *)
(*                                                                         *)
(* The loops are recursive functions of the number of rounds.  What they   *)
(* compute is shown by induction, in the form of a set of numbers that     *)
(* holds 0 and, with each number, the next.                                *)
(***************************************************************************)
EXTENDS PriorityQueue, FiniteSetTheorems, SequenceTheorems, TLAPS

-----------------------------------------------------------------------------
\* Induction.

\* A set that holds 0 and, with each number, the next one, holds them all: the
\* least number outside it would have a predecessor inside.
LEMMA NatSetInduction ==
    ASSUME NEW P, 0 \in P, \A n \in Nat : n \in P => n + 1 \in P
    PROVE  \A n \in Nat : n \in P
<1> DEFINE T == Nat \ P
           R == {ss \in Nat \X Nat : ss[1] < ss[2]}
<1>1. SUFFICES ASSUME T # {} PROVE FALSE
  OBVIOUS
<1>2. IsWellFoundedOn(R, Nat)
  BY NatLessThanWellFounded DEF OpToRel
<1>3. PICK x \in T : \A y \in T : <<y, x>> \notin R
  <2> HIDE DEF R
  <2> QED
    BY <1>1, <1>2, WFMin, T \subseteq Nat
<1>4. x \in Nat /\ x # 0
  OBVIOUS
<1>5. x - 1 \in Nat /\ x - 1 \in T
  BY <1>4
<1>6. <<x - 1, x>> \in R
  BY <1>4, <1>5
<1> QED
  BY <1>3, <1>5, <1>6

\* The same for the rounds of a loop that has a last one.
LEMMA RoundInduction ==
    ASSUME NEW N \in Nat, NEW P, 0 \in P, \A n \in 1 .. N : n - 1 \in P => n \in P
    PROVE  \A n \in 0 .. N : n \in P
<1> DEFINE Q == {n \in Nat : n <= N => n \in P}
<1>1. 0 \in Q
  OBVIOUS
<1>2. ASSUME NEW n \in Nat, n \in Q PROVE n + 1 \in Q
  <2>1. SUFFICES ASSUME n + 1 <= N PROVE n + 1 \in P
    OBVIOUS
  <2>2. n + 1 \in 1 .. N /\ (n + 1) - 1 = n /\ n \in P
    BY <2>1, <1>2
  <2> QED
    BY <2>2
<1>3. \A n \in Nat : n \in Q
  <2> HIDE DEF Q
  <2> QED
    BY <1>1, <1>2, NatSetInduction
<1> QED
  BY <1>3

-----------------------------------------------------------------------------
\* Loops.

\* f lists the states of the loop that starts in s0 and takes step[n] as its
\* round n.
IsRun(f, N, S, s0, step) ==
    /\ f \in [0 .. N -> S]
    /\ f[0] = s0
    /\ \A n \in 1 .. N : f[n] = step[n][f[n - 1]]

\* Every loop whose rounds stay within a set of states has a run.
LEMMA RunExists ==
    ASSUME NEW N \in Nat, NEW S, NEW s0 \in S, NEW step \in [1 .. N -> [S -> S]]
    PROVE  \E f : IsRun(f, N, S, s0, step)
<1> DEFINE P == {n \in 0 .. N : \E f : IsRun(f, n, S, s0, step)}
<1>1. 0 \in P
  <2> DEFINE f == [n \in 0 .. 0 |-> s0]
  <2>1. IsRun(f, 0, S, s0, step)
    BY DEF IsRun
  <2> QED
    BY <2>1
<1>2. ASSUME NEW n \in 1 .. N, n - 1 \in P PROVE n \in P
  <2>1. PICK g : IsRun(g, n - 1, S, s0, step)
    BY <1>2
  <2> DEFINE f == [m \in 0 .. n |-> IF m < n THEN g[m] ELSE step[n][g[n - 1]]]
  <2>2. f \in [0 .. n -> S]
    BY <2>1 DEF IsRun
  <2>3. f[0] = s0
    BY <2>1 DEF IsRun
  <2>4. \A m \in 1 .. n : f[m] = step[m][f[m - 1]]
    BY <2>1 DEF IsRun
  <2>5. IsRun(f, n, S, s0, step)
    <3> HIDE DEF f
    <3> QED
      BY <2>2, <2>3, <2>4 DEF IsRun
  <2> QED
    BY <2>5
<1>3. \A n \in 0 .. N : n \in P
  <2> HIDE DEF P
  <2> QED
    BY <1>1, <1>2, RoundInduction
<1> QED
  BY <1>3

-----------------------------------------------------------------------------
\* The order of the entries.

QueueEntry == [priority : Priorities, value : Values, insertSeq : 0 .. MaxSeq]

\* The comparator orders X strictly and leaves no two of its entries equal.
LinedUp(X) ==
    /\ \A a \in X : ~ Precedes(a, a)
    /\ \A a, b, c \in X : Precedes(a, b) /\ Precedes(b, c) => Precedes(a, c)
    /\ \A a, b \in X : a = b \/ Precedes(a, b) \/ Precedes(b, a)

\* Entries of different insertSeq are never equal to the comparator.
LEMMA DistinctLinedUp ==
    ASSUME NEW X \in SUBSET QueueEntry,
           \A a, b \in X : a.insertSeq = b.insertSeq => a = b
    PROVE  LinedUp(X)
<1>1. \A a \in X : a.priority \in Int /\ a.insertSeq \in Int
  <2>1. SUFFICES ASSUME NEW a \in X PROVE a.priority \in Int /\ a.insertSeq \in Int
    OBVIOUS
  <2>2. a \in QueueEntry
    OBVIOUS
  <2>3. a.priority \in Priorities /\ a.insertSeq \in 0 .. MaxSeq
    BY <2>2 DEF QueueEntry
  <2>4. Priorities \subseteq Int /\ MaxSeq \in Nat
    BY QueueAssumption
  <2>5. \A x \in 0 .. MaxSeq : x \in Int
    BY <2>4
  <2> QED
    BY <2>3, <2>4, <2>5, Zenon
<1>2. \A a \in X : ~ Precedes(a, a)
  BY <1>1 DEF Precedes
<1>3. \A a, b, c \in X : Precedes(a, b) /\ Precedes(b, c) => Precedes(a, c)
  BY <1>1 DEF Precedes
<1>4. \A a, b \in X : a = b \/ Precedes(a, b) \/ Precedes(b, a)
  BY <1>1 DEF Precedes
<1> QED
  BY <1>2, <1>3, <1>4 DEF LinedUp

\* The arrays of length N that hold every entry of X once.
Arrays(N, X) ==
    {g \in Seq(X) :
        /\ Len(g) = N
        /\ \A i, j \in 1 .. N : g[i] = g[j] => i = j
        /\ \A e \in X : \E i \in 1 .. N : g[i] = e}

\* An array is a function of its indices.
LEMMA ArrayFacts ==
    ASSUME NEW N \in Nat, NEW X, NEW g \in Arrays(N, X)
    PROVE  /\ g \in Seq(X) /\ Len(g) = N /\ DOMAIN g = 1 .. N
           /\ \A i \in 1 .. N : g[i] \in X
           /\ \A i, j \in 1 .. N : g[i] = g[j] => i = j
           /\ \A e \in X : \E i \in 1 .. N : g[i] = e
  BY DEF Arrays

\* A swap keeps the entries of the array.
LEMMA SwapKeeps ==
    ASSUME NEW N \in Nat, NEW X, NEW g \in Arrays(N, X), NEW i \in 1 .. N, NEW j \in 1 .. N
    PROVE  swapped(g, i, j) \in Arrays(N, X)
<1> DEFINE w == swapped(g, i, j)
<1>0. g \in Seq(X) /\ Len(g) = N /\ DOMAIN g = 1 .. N /\ \A k \in 1 .. N : g[k] \in X
  BY ArrayFacts
<1>1. w \in Seq(X) /\ Len(w) = N
  BY <1>0 DEF swapped
<1>2. w[i] = g[j] /\ w[j] = g[i] /\ \A k \in 1 .. N : k # i /\ k # j => w[k] = g[k]
  BY <1>0 DEF swapped
<1> HIDE DEF w
<1>3. \A k, l \in 1 .. N : w[k] = w[l] => k = l
  BY <1>2, ArrayFacts
<1>4. ASSUME NEW e \in X PROVE \E k \in 1 .. N : w[k] = e
  <2>1. PICK k \in 1 .. N : g[k] = e
    BY ArrayFacts
  <2>2. w[IF k = i THEN j ELSE IF k = j THEN i ELSE k] = e
    BY <2>1, <1>2
  <2> QED
    BY <2>2
<1> QED
  BY <1>1, <1>3, <1>4 DEF Arrays, w

-----------------------------------------------------------------------------
\* _siftUp.

\* The states a sift goes through: an arrangement of the same entries and an
\* index of it.
SiftStates(N, X) == [array : Arrays(N, X), idx : 1 .. N]

\* A round of _siftUp stays among them.
LEMMA RiseType ==
    ASSUME NEW N \in Nat, NEW X, NEW s \in SiftStates(N, X), NEW n
    PROVE  rise(s, n) \in SiftStates(N, X)
<1> DEFINE parent == s.idx \div 2
<1>1. s.array \in Arrays(N, X) /\ s.idx \in 1 .. N
  BY DEF SiftStates
<1>2. CASE s.idx > 1 /\ Precedes(s.array[s.idx], s.array[parent])
  <2>1. parent \in 1 .. N
    BY <1>1, <1>2
  <2>2. swapped(s.array, s.idx, parent) \in Arrays(N, X)
    BY <1>1, <2>1, SwapKeeps
  <2> QED
    BY <1>2, <2>1, <2>2 DEF rise, SiftStates
<1>3. CASE ~ (s.idx > 1 /\ Precedes(s.array[s.idx], s.array[parent]))
  BY <1>3 DEF rise
<1> QED
  BY <1>2, <1>3

UpRun(h, i) == Rounds(rise, [array |-> h, idx |-> i], Len(h))

\* The rounds of _siftUp are well defined, and each is a round of the loop.
LEMMA UpRunUnfolds ==
    ASSUME NEW N \in Nat, NEW X, NEW h \in Arrays(N, X), NEW i \in 1 .. N
    PROVE  /\ UpRun(h, i)[0] = [array |-> h, idx |-> i]
           /\ \A n \in 0 .. N : UpRun(h, i)[n] \in SiftStates(N, X)
           /\ \A n \in 1 .. N : UpRun(h, i)[n] = rise(UpRun(h, i)[n - 1], n)
<1> DEFINE S == SiftStates(N, X)
           s0 == [array |-> h, idx |-> i]
           step == [n \in 1 .. N |-> [s \in S |-> rise(s, n)]]
           Unfolds(f) == f = [n \in 0 .. N |-> IF n = 0 THEN s0 ELSE rise(f[n - 1], n)]
<1>1. s0 \in S
  BY DEF SiftStates
<1>2. step \in [1 .. N -> [S -> S]]
  BY RiseType
<1>3. \E f : IsRun(f, N, S, s0, step)
  <2> HIDE DEF S, s0, step
  <2> QED
    BY <1>1, <1>2, RunExists
<1>4. PICK f : IsRun(f, N, S, s0, step)
  BY <1>3
<1>5. Unfolds(f)
  <2> HIDE DEF S, s0
  <2>1. f \in [0 .. N -> S] /\ f[0] = s0
    BY <1>4 DEF IsRun
  <2>2. ASSUME NEW n \in 1 .. N PROVE f[n] = rise(f[n - 1], n)
    <3>1. f[n - 1] \in S
      BY <2>1
    <3>2. f[n] = step[n][f[n - 1]]
      BY <1>4 DEF IsRun
    <3> QED
      BY <3>1, <3>2
  <2> QED
    BY <2>1, <2>2
<1>6. UpRun(h, i) = CHOOSE g : Unfolds(g)
  BY ArrayFacts DEF UpRun, Rounds
<1>7. Unfolds(UpRun(h, i))
  <2> HIDE DEF Unfolds
  <2> QED
    BY <1>5, <1>6
<1> DEFINE r == UpRun(h, i)
<1>8. r[0] = s0 /\ \A n \in 1 .. N : r[n] = rise(r[n - 1], n)
  <2> HIDE DEF r, s0
  <2> QED
    BY <1>7 DEF r
<1>9. \A n \in 0 .. N : r[n] \in S
  <2> DEFINE P == {n \in 0 .. N : r[n] \in S}
  <2>1. 0 \in P
    BY <1>8, <1>1
  <2>2. ASSUME NEW n \in 1 .. N, n - 1 \in P PROVE n \in P
    BY <1>8, <2>2, RiseType
  <2>3. \A n \in 0 .. N : n \in P
    <3> HIDE DEF P
    <3> QED
      BY <2>1, <2>2, RoundInduction
  <2> QED
    BY <2>3
<1> QED
  BY <1>8, <1>9

\* Every entry of the array but the root comes after its parent.
HeapOrdered(g, N) == \A k \in 2 .. N : Precedes(g[k \div 2], g[k])

\* After n rounds of _siftUp only the entry at idx may precede its parent; its
\* own children come after that parent; and the index has moved up n times,
\* unless the loop is over.
UpInv(s, n, N) ==
    /\ \A k \in 2 .. N : k # s.idx => Precedes(s.array[k \div 2], s.array[k])
    /\ \A k \in 2 .. N : k \div 2 = s.idx /\ s.idx > 1
                            => Precedes(s.array[s.idx \div 2], s.array[k])
    /\ s.idx <= N - n \/ HeapOrdered(s.array, N)

\* The laws of the order, at the entries of an array.
LEMMA ArrayOrder ==
    ASSUME NEW N \in Nat, NEW X, LinedUp(X), NEW g \in Arrays(N, X)
    PROVE  /\ \A i \in 1 .. N : ~ Precedes(g[i], g[i])
           /\ \A i, j, k \in 1 .. N : Precedes(g[i], g[j]) /\ Precedes(g[j], g[k])
                                         => Precedes(g[i], g[k])
           /\ \A i, j \in 1 .. N : i # j => Precedes(g[i], g[j]) \/ Precedes(g[j], g[i])
  BY ArrayFacts DEF LinedUp

\* A round that swaps the entry with its parent keeps the invariant.
LEMMA RiseSwaps ==
    ASSUME NEW N \in Nat, NEW X, LinedUp(X), NEW g \in Arrays(N, X), NEW j \in 2 .. N,
           NEW p \in 1 .. N, p = j \div 2, p < j, Precedes(g[j], g[p]),
           \A k \in 2 .. N : k # j => Precedes(g[k \div 2], g[k]),
           \A k \in 2 .. N : k \div 2 = j => Precedes(g[p], g[k]),
           NEW w, w[j] = g[p], w[p] = g[j],
           \A k \in 1 .. N : k # j /\ k # p => w[k] = g[k]
    PROVE  /\ \A k \in 2 .. N : k # p => Precedes(w[k \div 2], w[k])
           /\ \A k \in 2 .. N : k \div 2 = p /\ p > 1 => Precedes(w[p \div 2], w[k])
<1>4. ASSUME NEW k \in 2 .. N, k # p PROVE Precedes(w[k \div 2], w[k])
  <2>1. PICK q \in 1 .. N : q = k \div 2 /\ q < k
    OBVIOUS
  <2>2. CASE k = j
    BY <2>2, <2>1
  <2>3. CASE k # j /\ q = p
    <3>1. Precedes(g[p], g[k])
      BY <2>1, <2>3
    <3>2. Precedes(g[j], g[k])
      BY <3>1, ArrayOrder
    <3> QED
      BY <3>2, <2>1, <2>3, <1>4
  <2>4. CASE k # j /\ q = j
    <3>1. Precedes(g[p], g[k])
      BY <2>1, <2>4
    <3> QED
      BY <3>1, <2>1, <2>4, <1>4
  <2>5. CASE k # j /\ q # p /\ q # j
    <3>1. Precedes(g[q], g[k])
      BY <2>1, <2>5
    <3> QED
      BY <3>1, <2>1, <2>5, <1>4
  <2> QED
    BY <2>2, <2>3, <2>4, <2>5
<1>5. ASSUME NEW k \in 2 .. N, k \div 2 = p, p > 1 PROVE Precedes(w[p \div 2], w[k])
  <2>1. PICK q \in 1 .. N : q = p \div 2 /\ q < p
    BY <1>5
  <2>2. Precedes(g[q], g[p])
    BY <2>1, <1>5
  <2>3. w[q] = g[q]
    BY <2>1
  <2>4. CASE k = j
    BY <2>1, <2>2, <2>3, <2>4
  <2>5. CASE k # j
    <3>1. Precedes(g[p], g[k])
      BY <1>5, <2>5
    <3>2. Precedes(g[q], g[k])
      BY <3>1, <2>2, ArrayOrder
    <3>3. w[k] = g[k]
      BY <2>5, <1>5
    <3> QED
      BY <3>2, <3>3, <2>1, <2>3
  <2> QED
    BY <2>4, <2>5
<1> QED
  BY <1>4, <1>5

\* Every round of _siftUp keeps the invariant.
LEMMA RiseKeeps ==
    ASSUME NEW N \in Nat, NEW X, LinedUp(X), NEW s \in SiftStates(N, X), NEW n \in 1 .. N,
           UpInv(s, n - 1, N)
    PROVE  UpInv(rise(s, n), n, N)
<1>1. PICK g, j : g = s.array /\ j = s.idx
  OBVIOUS
<1>2. g \in Arrays(N, X) /\ j \in 1 .. N
  BY <1>1 DEF SiftStates
<1>3. /\ \A k \in 2 .. N : k # j => Precedes(g[k \div 2], g[k])
      /\ \A k \in 2 .. N : k \div 2 = j /\ j > 1 => Precedes(g[j \div 2], g[k])
      /\ j <= N - (n - 1) \/ HeapOrdered(g, N)
  BY <1>1 DEF UpInv
<1>4. CASE j > 1 /\ Precedes(g[j], g[j \div 2])
  <2>1. PICK p \in 1 .. N : p = j \div 2 /\ p < j
    BY <1>2, <1>4
  <2>2. PICK w : w = swapped(g, j, p)
    OBVIOUS
  <2>3. /\ w[j] = g[p] /\ w[p] = g[j]
        /\ \A k \in 1 .. N : k # j /\ k # p => w[k] = g[k]
    <3>1. DOMAIN g = 1 .. N
      BY <1>2, ArrayFacts
    <3> QED
      BY <3>1, <2>1, <2>2, <1>2 DEF swapped
  <2>4. rise(s, n) = [array |-> w, idx |-> p]
    BY <2>1, <2>2, <1>1, <1>4 DEF rise
  <2>5. j \in 2 .. N /\ Precedes(g[j], g[p])
    BY <2>1, <1>2, <1>4
  <2>6. \A k \in 2 .. N : k \div 2 = j => Precedes(g[p], g[k])
    BY <2>1, <1>3, <1>4
  <2>7. /\ \A k \in 2 .. N : k # p => Precedes(w[k \div 2], w[k])
        /\ \A k \in 2 .. N : k \div 2 = p /\ p > 1 => Precedes(w[p \div 2], w[k])
    BY <2>1, <2>3, <2>5, <2>6, <1>2, <1>3, RiseSwaps
  <2>8. ~ HeapOrdered(g, N)
    <3>1. ASSUME Precedes(g[p], g[j]) PROVE FALSE
      BY <3>1, <2>1, <2>5, <1>2, ArrayOrder
    <3> QED
      BY <3>1, <2>1, <2>5 DEF HeapOrdered
  <2>9. p <= N - n
    BY <2>1, <2>8, <1>2, <1>3
  <2> QED
    BY <2>4, <2>7, <2>9 DEF UpInv
<1>5. CASE ~ (j > 1 /\ Precedes(g[j], g[j \div 2]))
  <2>1. rise(s, n) = s
    BY <1>1, <1>5 DEF rise
  <2>2. HeapOrdered(g, N)
    <3>1. ASSUME NEW k \in 2 .. N, k = j PROVE Precedes(g[k \div 2], g[k])
      <4>1. k \div 2 \in 1 .. N /\ k \div 2 # k /\ k \in 1 .. N
        OBVIOUS
      <4>2. ~ Precedes(g[k], g[k \div 2])
        BY <3>1, <1>5
      <4> QED
        BY <4>1, <4>2, <1>2, ArrayOrder
    <3> QED
      BY <3>1, <1>3 DEF HeapOrdered
  <2> QED
    BY <2>1, <2>2, <1>1, <1>3 DEF UpInv
<1> QED
  BY <1>4, <1>5

\* _siftUp: an array that is in heap order up to its last entry comes to be in
\* heap order, with the same entries.
LEMMA SiftUpOrders ==
    ASSUME NEW N \in Nat, N > 0, NEW X, LinedUp(X), NEW h \in Arrays(N, X),
           HeapOrdered(h, N - 1)
    PROVE  siftUp(h, N) \in Arrays(N, X) /\ HeapOrdered(siftUp(h, N), N)
<1> DEFINE r == UpRun(h, N)
           P == {n \in 0 .. N : UpInv(r[n], n, N)}
<1>1. N \in 1 .. N /\ Len(h) = N
  BY ArrayFacts
<1>2. /\ r[0] = [array |-> h, idx |-> N]
      /\ \A n \in 0 .. N : r[n] \in SiftStates(N, X)
      /\ \A n \in 1 .. N : r[n] = rise(r[n - 1], n)
  BY <1>1, UpRunUnfolds
<1> HIDE DEF r
<1>3. 0 \in P
  <2>1. \A k \in 2 .. N : k # N => Precedes(h[k \div 2], h[k])
    BY DEF HeapOrdered
  <2>2. \A k \in 2 .. N : k \div 2 # N
    OBVIOUS
  <2> QED
    BY <2>1, <2>2, <1>2 DEF UpInv
<1>4. ASSUME NEW n \in 1 .. N, n - 1 \in P PROVE n \in P
  <2>1. n - 1 \in 0 .. N /\ r[n - 1] \in SiftStates(N, X)
    BY <1>2
  <2>2. UpInv(rise(r[n - 1], n), n, N)
    BY <2>1, <1>4, RiseKeeps
  <2> QED
    BY <2>2, <1>2
<1>5. \A n \in 0 .. N : n \in P
  <2> HIDE DEF P
  <2> QED
    BY <1>3, <1>4, RoundInduction
<1>6. UpInv(r[N], N, N) /\ r[N] \in SiftStates(N, X)
  BY <1>5, <1>2
<1>7. siftUp(h, N) = r[N].array
  BY <1>1 DEF siftUp, UpRun, r
<1>8. r[N].idx \in 1 .. N /\ r[N].array \in Arrays(N, X)
  BY <1>6 DEF SiftStates
<1>9. HeapOrdered(r[N].array, N)
  <2>1. PICK j : j = r[N].idx
    OBVIOUS
  <2>2. j \in 1 .. N /\ (j <= N - N \/ HeapOrdered(r[N].array, N))
    BY <2>1, <1>6, <1>8 DEF UpInv
  <2> QED
    BY <2>2
<1> QED
  BY <1>7, <1>8, <1>9

-----------------------------------------------------------------------------
\* _siftDown.

\* smallest picks the entry or the child of it that precedes the others.
LEMMA SmallestFacts ==
    ASSUME NEW N \in Nat, NEW X, LinedUp(X), NEW g \in Arrays(N, X), NEW i \in 1 .. N
    PROVE  /\ smallest(g, i) \in 1 .. N
           /\ smallest(g, i) \in {i, 2 * i, 2 * i + 1}
           /\ smallest(g, i) # i => Precedes(g[smallest(g, i)], g[i])
           /\ \A k \in 2 .. N : k \div 2 = i /\ k # smallest(g, i)
                                   => Precedes(g[smallest(g, i)], g[k])
<1> DEFINE family == {i, 2 * i, 2 * i + 1} \cap DOMAIN g
           First(j) == j \in family /\ \A k \in family \ {j} : Precedes(g[j], g[k])
<1>1. DOMAIN g = 1 .. N
  BY ArrayFacts
<1>2. \E j : First(j)
  <2>1. \A j, k \in family : j # k => Precedes(g[j], g[k]) \/ Precedes(g[k], g[j])
    BY <1>1, ArrayOrder
  <2>2. \A j, k, l \in family : Precedes(g[j], g[k]) /\ Precedes(g[k], g[l])
                                   => Precedes(g[j], g[l])
    BY <1>1, ArrayOrder
  <2>3. i \in family /\ \A j \in family : j \in {i, 2 * i, 2 * i + 1}
    BY <1>1
  <2> HIDE DEF family
  <2>4. First(i) \/ First(2 * i) \/ First(2 * i + 1)
    BY <2>1, <2>2, <2>3
  <2> QED
    BY <2>4
<1>3. smallest(g, i) = CHOOSE j : First(j)
  BY DEF smallest
<1>4. First(smallest(g, i))
  <2> HIDE DEF First
  <2> QED
    BY <1>2, <1>3
<1>5. \A k \in 2 .. N : k \div 2 = i => k \in family
  BY <1>1
<1>6. i \in family
  BY <1>1
<1> QED
  BY <1>1, <1>4, <1>5, <1>6

\* A round of _siftDown stays among the states of a sift.
LEMMA SinkType ==
    ASSUME NEW N \in Nat, NEW X, LinedUp(X), NEW s \in SiftStates(N, X), NEW n
    PROVE  sink(s, n) \in SiftStates(N, X)
<1> DEFINE j == smallest(s.array, s.idx)
<1>1. s.array \in Arrays(N, X) /\ s.idx \in 1 .. N
  BY DEF SiftStates
<1>2. j \in 1 .. N
  BY <1>1, SmallestFacts
<1>3. swapped(s.array, s.idx, j) \in Arrays(N, X)
  BY <1>1, <1>2, SwapKeeps
<1> HIDE DEF j
<1>4. sink(s, n) = IF j = s.idx THEN s ELSE [array |-> swapped(s.array, s.idx, j), idx |-> j]
  BY DEF sink, j
<1> QED
  BY <1>2, <1>3, <1>4 DEF SiftStates

DownRun(h, i) == Rounds(sink, [array |-> h, idx |-> i], Len(h))

\* The rounds of _siftDown are well defined, and each is a round of the loop.
LEMMA DownRunUnfolds ==
    ASSUME NEW N \in Nat, NEW X, LinedUp(X), NEW h \in Arrays(N, X), NEW i \in 1 .. N
    PROVE  /\ DownRun(h, i)[0] = [array |-> h, idx |-> i]
           /\ \A n \in 0 .. N : DownRun(h, i)[n] \in SiftStates(N, X)
           /\ \A n \in 1 .. N : DownRun(h, i)[n] = sink(DownRun(h, i)[n - 1], n)
<1> DEFINE S == SiftStates(N, X)
           s0 == [array |-> h, idx |-> i]
           step == [n \in 1 .. N |-> [s \in S |-> sink(s, n)]]
           Unfolds(f) == f = [n \in 0 .. N |-> IF n = 0 THEN s0 ELSE sink(f[n - 1], n)]
<1>1. s0 \in S
  BY DEF SiftStates
<1>2. step \in [1 .. N -> [S -> S]]
  BY SinkType
<1>3. \E f : IsRun(f, N, S, s0, step)
  <2> HIDE DEF S, s0, step
  <2> QED
    BY <1>1, <1>2, RunExists
<1>4. PICK f : IsRun(f, N, S, s0, step)
  BY <1>3
<1>5. Unfolds(f)
  <2> HIDE DEF S, s0
  <2>1. f \in [0 .. N -> S] /\ f[0] = s0
    BY <1>4 DEF IsRun
  <2>2. ASSUME NEW n \in 1 .. N PROVE f[n] = sink(f[n - 1], n)
    <3>1. f[n - 1] \in S
      BY <2>1
    <3>2. f[n] = step[n][f[n - 1]]
      BY <1>4 DEF IsRun
    <3> QED
      BY <3>1, <3>2
  <2> QED
    BY <2>1, <2>2
<1>6. DownRun(h, i) = CHOOSE g : Unfolds(g)
  BY ArrayFacts DEF DownRun, Rounds
<1>7. Unfolds(DownRun(h, i))
  <2> HIDE DEF Unfolds
  <2> QED
    BY <1>5, <1>6
<1> DEFINE r == DownRun(h, i)
<1>8. r[0] = s0 /\ \A n \in 1 .. N : r[n] = sink(r[n - 1], n)
  <2> HIDE DEF r, s0
  <2> QED
    BY <1>7 DEF r
<1>9. \A n \in 0 .. N : r[n] \in S
  <2> DEFINE P == {n \in 0 .. N : r[n] \in S}
  <2>1. 0 \in P
    BY <1>8, <1>1
  <2>2. ASSUME NEW n \in 1 .. N, n - 1 \in P PROVE n \in P
    BY <1>8, <2>2, SinkType
  <2>3. \A n \in 0 .. N : n \in P
    <3> HIDE DEF P
    <3> QED
      BY <2>1, <2>2, RoundInduction
  <2> QED
    BY <2>3
<1> QED
  BY <1>8, <1>9

\* Heap order below index i: the children of i and of every later index come
\* after their parent.
HeapFrom(g, i, N) == \A k \in 2 .. N : k \div 2 >= i => Precedes(g[k \div 2], g[k])

\* After n rounds of a _siftDown that began at i, heap order holds below i but
\* for the children of idx; those come after the parent of idx; and the index
\* has moved down n times, unless the loop is over.
DownInv(s, n, i, N) ==
    /\ s.idx >= i
    /\ \A k \in 2 .. N : k \div 2 >= i /\ k \div 2 # s.idx
                            => Precedes(s.array[k \div 2], s.array[k])
    /\ \A k \in 2 .. N : k \div 2 = s.idx /\ s.idx \div 2 >= i
                            => Precedes(s.array[s.idx \div 2], s.array[k])
    /\ s.idx >= i + n \/ HeapFrom(s.array, i, N)

\* A round that swaps the entry with its first child keeps the invariant.
LEMMA SinkSwaps ==
    ASSUME NEW N \in Nat, NEW X, LinedUp(X), NEW g \in Arrays(N, X), NEW i \in 1 .. N,
           NEW j \in 1 .. N, j >= i, NEW c \in 2 .. N, c \div 2 = j, c > j,
           Precedes(g[c], g[j]),
           \A k \in 2 .. N : k \div 2 = j /\ k # c => Precedes(g[c], g[k]),
           \A k \in 2 .. N : k \div 2 >= i /\ k \div 2 # j => Precedes(g[k \div 2], g[k]),
           \A k \in 2 .. N : k \div 2 = j /\ j \div 2 >= i => Precedes(g[j \div 2], g[k]),
           NEW w, w[j] = g[c], w[c] = g[j],
           \A k \in 1 .. N : k # j /\ k # c => w[k] = g[k]
    PROVE  /\ \A k \in 2 .. N : k \div 2 >= i /\ k \div 2 # c => Precedes(w[k \div 2], w[k])
           /\ \A k \in 2 .. N : k \div 2 = c /\ c \div 2 >= i => Precedes(w[c \div 2], w[k])
<1>1. ASSUME NEW k \in 2 .. N, k \div 2 >= i, k \div 2 # c PROVE Precedes(w[k \div 2], w[k])
  <2>1. PICK q \in 1 .. N : q = k \div 2 /\ q < k
    OBVIOUS
  <2>2. CASE q = j /\ k = c
    BY <2>1, <2>2
  <2>3. CASE q = j /\ k # c
    <3>1. Precedes(g[c], g[k]) /\ w[k] = g[k]
      BY <2>1, <2>3
    <3> QED
      BY <3>1, <2>1, <2>3
  <2>4. CASE q # j /\ k = j
    <3>1. Precedes(g[q], g[c]) /\ w[q] = g[q]
      BY <2>1, <2>4, <1>1
    <3> QED
      BY <3>1, <2>1, <2>4
  <2>5. CASE q # j /\ k # j
    <3>1. Precedes(g[q], g[k]) /\ w[q] = g[q] /\ w[k] = g[k]
      BY <2>1, <2>5, <1>1
    <3> QED
      BY <3>1, <2>1
  <2> QED
    BY <2>2, <2>3, <2>4, <2>5
<1>2. ASSUME NEW k \in 2 .. N, k \div 2 = c, c \div 2 >= i PROVE Precedes(w[c \div 2], w[k])
  <2>1. Precedes(g[c], g[k])
    BY <1>2
  <2>2. w[k] = g[k] /\ w[c \div 2] = g[c]
    BY <1>2
  <2> QED
    BY <2>1, <2>2
<1> QED
  BY <1>1, <1>2

\* Every round of _siftDown keeps the invariant.
LEMMA SinkKeeps ==
    ASSUME NEW N \in Nat, NEW X, LinedUp(X), NEW s \in SiftStates(N, X), NEW n \in 1 .. N,
           NEW i \in 1 .. N, DownInv(s, n - 1, i, N)
    PROVE  DownInv(sink(s, n), n, i, N)
<1>1. PICK g, j : g = s.array /\ j = s.idx
  OBVIOUS
<1>2. g \in Arrays(N, X) /\ j \in 1 .. N
  BY <1>1 DEF SiftStates
<1>3. /\ j >= i
      /\ \A k \in 2 .. N : k \div 2 >= i /\ k \div 2 # j => Precedes(g[k \div 2], g[k])
      /\ \A k \in 2 .. N : k \div 2 = j /\ j \div 2 >= i => Precedes(g[j \div 2], g[k])
      /\ j >= i + (n - 1) \/ HeapFrom(g, i, N)
  BY <1>1 DEF DownInv
<1>4. PICK c : c = smallest(g, j)
  OBVIOUS
<1>5. /\ c \in 1 .. N /\ c \in {j, 2 * j, 2 * j + 1}
      /\ c # j => Precedes(g[c], g[j])
      /\ \A k \in 2 .. N : k \div 2 = j /\ k # c => Precedes(g[c], g[k])
  BY <1>2, <1>4, SmallestFacts
<1>6. CASE c # j
  <2>1. PICK w : w = swapped(g, j, c)
    OBVIOUS
  <2>2. /\ w[j] = g[c] /\ w[c] = g[j]
        /\ \A k \in 1 .. N : k # j /\ k # c => w[k] = g[k]
    <3>1. DOMAIN g = 1 .. N
      BY <1>2, ArrayFacts
    <3> QED
      BY <3>1, <2>1, <1>2, <1>5 DEF swapped
  <2>3. sink(s, n) = [array |-> w, idx |-> c]
    BY <2>1, <1>1, <1>4, <1>6 DEF sink
  <2>4. c \in 2 .. N /\ c \div 2 = j /\ c > j /\ c >= j + 1
    BY <1>2, <1>5, <1>6
  <2>5. Precedes(g[c], g[j])
    BY <1>5, <1>6
  <2>6. /\ \A k \in 2 .. N : k \div 2 >= i /\ k \div 2 # c => Precedes(w[k \div 2], w[k])
        /\ \A k \in 2 .. N : k \div 2 = c /\ c \div 2 >= i => Precedes(w[c \div 2], w[k])
    <3>1. j >= i /\ c \in 2 .. N /\ c \div 2 = j /\ c > j
      BY <2>4, <1>3
    <3>2. /\ \A k \in 2 .. N : k \div 2 = j /\ k # c => Precedes(g[c], g[k])
          /\ \A k \in 2 .. N : k \div 2 >= i /\ k \div 2 # j => Precedes(g[k \div 2], g[k])
          /\ \A k \in 2 .. N : k \div 2 = j /\ j \div 2 >= i => Precedes(g[j \div 2], g[k])
      BY <1>3, <1>5, Zenon
    <3> QED
      BY <3>1, <3>2, <2>2, <2>5, <1>2, SinkSwaps
  <2>7. ~ HeapFrom(g, i, N)
    <3>1. ASSUME Precedes(g[j], g[c]) PROVE FALSE
      BY <3>1, <2>4, <2>5, <1>2, ArrayOrder
    <3> QED
      BY <3>1, <2>4, <1>3 DEF HeapFrom
  <2>8. c >= i + n /\ c >= i
    BY <2>4, <2>7, <1>2, <1>3
  <2> QED
    BY <2>3, <2>6, <2>8 DEF DownInv
<1>7. CASE c = j
  <2>1. sink(s, n) = s
    BY <1>1, <1>4, <1>7 DEF sink
  <2>2. ASSUME NEW k \in 2 .. N, k \div 2 >= i PROVE Precedes(g[k \div 2], g[k])
    <3>1. CASE k \div 2 = j
      <4>1. k # c
        BY <3>1, <1>7
      <4>2. Precedes(g[c], g[k])
        BY <4>1, <3>1, <1>5
      <4> QED
        BY <4>2, <3>1, <1>7
    <3> QED
      BY <2>2, <3>1, <1>3
  <2>3. HeapFrom(g, i, N)
    BY <2>2 DEF HeapFrom
  <2> QED
    BY <2>1, <2>3, <1>1, <1>3 DEF DownInv
<1> QED
  BY <1>6, <1>7

\* _siftDown: heap order below the children of i becomes heap order below i,
\* with the same entries.
LEMMA SiftDownOrders ==
    ASSUME NEW N \in Nat, NEW X, LinedUp(X), NEW h \in Arrays(N, X), NEW i \in 1 .. N,
           HeapFrom(h, i + 1, N)
    PROVE  siftDown(h, i) \in Arrays(N, X) /\ HeapFrom(siftDown(h, i), i, N)
<1> DEFINE r == DownRun(h, i)
           P == {n \in 0 .. N : DownInv(r[n], n, i, N)}
<1>1. Len(h) = N
  BY ArrayFacts
<1>2. /\ r[0] = [array |-> h, idx |-> i]
      /\ \A n \in 0 .. N : r[n] \in SiftStates(N, X)
      /\ \A n \in 1 .. N : r[n] = sink(r[n - 1], n)
  BY DownRunUnfolds
<1> HIDE DEF r
<1>3. 0 \in P
  <2>1. \A k \in 2 .. N : k \div 2 >= i /\ k \div 2 # i => Precedes(h[k \div 2], h[k])
    BY DEF HeapFrom
  <2>2. ~ (i \div 2 >= i)
    OBVIOUS
  <2> QED
    BY <2>1, <2>2, <1>2 DEF DownInv
<1>4. ASSUME NEW n \in 1 .. N, n - 1 \in P PROVE n \in P
  <2>1. n - 1 \in 0 .. N /\ r[n - 1] \in SiftStates(N, X)
    BY <1>2
  <2>2. DownInv(sink(r[n - 1], n), n, i, N)
    BY <2>1, <1>4, SinkKeeps
  <2> QED
    BY <2>2, <1>2
<1>5. \A n \in 0 .. N : n \in P
  <2> HIDE DEF P
  <2> QED
    BY <1>3, <1>4, RoundInduction
<1>6. DownInv(r[N], N, i, N) /\ r[N] \in SiftStates(N, X)
  BY <1>5, <1>2
<1>7. siftDown(h, i) = r[N].array
  BY <1>1 DEF siftDown, DownRun, r
<1>8. r[N].idx \in 1 .. N /\ r[N].array \in Arrays(N, X)
  BY <1>6 DEF SiftStates
<1>9. HeapFrom(r[N].array, i, N)
  <2>1. PICK j : j = r[N].idx
    OBVIOUS
  <2>2. j \in 1 .. N /\ (j >= i + N \/ HeapFrom(r[N].array, i, N))
    BY <2>1, <1>6, <1>8 DEF DownInv
  <2> QED
    BY <2>2
<1> QED
  BY <1>7, <1>8, <1>9

\* _siftDown keeps the entries, whatever the order of the array.
LEMMA SiftDownKeeps ==
    ASSUME NEW N \in Nat, NEW X, LinedUp(X), NEW h \in Arrays(N, X), NEW i \in 1 .. N
    PROVE  siftDown(h, i) \in Arrays(N, X)
<1>1. Len(h) = N
  BY ArrayFacts
<1>2. DownRun(h, i)[N] \in SiftStates(N, X)
  <2>1. \A n \in 0 .. N : DownRun(h, i)[n] \in SiftStates(N, X)
    BY DownRunUnfolds
  <2> QED
    BY <2>1
<1>3. siftDown(h, i) = DownRun(h, i)[N].array
  BY <1>1 DEF siftDown, DownRun
<1> QED
  BY <1>2, <1>3 DEF SiftStates

\* Heap order below the root is heap order.
LEMMA HeapFromRoot ==
    ASSUME NEW N \in Nat, NEW g
    PROVE  HeapFrom(g, 1, N) <=> HeapOrdered(g, N)
<1>1. \A k \in 2 .. N : k \div 2 >= 1
  OBVIOUS
<1> QED
  BY <1>1 DEF HeapFrom, HeapOrdered

-----------------------------------------------------------------------------
\* _buildHeap.

\* The rounds of _buildHeap: a _siftDown from each parent, last one first.
BuildRun(h) ==
    LET heapify(g, n) == siftDown(g, Len(h) \div 2 + 1 - n)
    IN  Rounds(heapify, h, Len(h) \div 2)

\* They are well defined, and round n sifts down parent number n from the end.
LEMMA BuildRunUnfolds ==
    ASSUME NEW N \in Nat, NEW X, LinedUp(X), NEW h \in Arrays(N, X),
           NEW M \in Nat, M = N \div 2
    PROVE  /\ BuildRun(h)[0] = h
           /\ \A n \in 0 .. M : BuildRun(h)[n] \in Arrays(N, X)
           /\ \A n \in 1 .. M : BuildRun(h)[n] = siftDown(BuildRun(h)[n - 1], M + 1 - n)
<1> DEFINE S == Arrays(N, X)
           step == [n \in 1 .. M |-> [g \in S |-> siftDown(g, M + 1 - n)]]
           Unfolds(f) == f = [n \in 0 .. M |-> IF n = 0 THEN h ELSE siftDown(f[n - 1], M + 1 - n)]
<1>1. \A n \in 1 .. M : M + 1 - n \in 1 .. N
  OBVIOUS
<1>2. \A n \in 1 .. M : \A g \in S : siftDown(g, M + 1 - n) \in S
  BY <1>1, SiftDownKeeps
<1>3. step \in [1 .. M -> [S -> S]]
  BY <1>2
<1>4. \E f : IsRun(f, M, S, h, step)
  <2>1. h \in S
    OBVIOUS
  <2> HIDE DEF S, step
  <2> QED
    BY <1>3, <2>1, RunExists
<1>5. PICK f : IsRun(f, M, S, h, step)
  BY <1>4
<1>6. Unfolds(f)
  <2> HIDE DEF S
  <2>1. f \in [0 .. M -> S] /\ f[0] = h
    BY <1>5 DEF IsRun
  <2>2. ASSUME NEW n \in 1 .. M PROVE f[n] = siftDown(f[n - 1], M + 1 - n)
    <3>1. f[n - 1] \in S
      BY <2>1
    <3>2. f[n] = step[n][f[n - 1]]
      BY <1>5 DEF IsRun
    <3> QED
      BY <3>1, <3>2
  <2> QED
    BY <2>1, <2>2
<1>7. BuildRun(h) = CHOOSE g : Unfolds(g)
  <2>1. Len(h) \div 2 = M
    BY ArrayFacts
  <2> QED
    BY <2>1 DEF BuildRun, Rounds
<1>8. Unfolds(BuildRun(h))
  <2> HIDE DEF Unfolds
  <2> QED
    BY <1>6, <1>7
<1> DEFINE r == BuildRun(h)
<1>9. r[0] = h /\ \A n \in 1 .. M : r[n] = siftDown(r[n - 1], M + 1 - n)
  <2> HIDE DEF r
  <2> QED
    BY <1>8 DEF r
<1>10. \A n \in 0 .. M : r[n] \in S
  <2> DEFINE P == {n \in 0 .. M : r[n] \in S}
  <2>1. 0 \in P
    BY <1>9
  <2>2. ASSUME NEW n \in 1 .. M, n - 1 \in P PROVE n \in P
    BY <1>9, <1>2, <2>2
  <2>3. \A n \in 0 .. M : n \in P
    <3> HIDE DEF P
    <3> QED
      BY <2>1, <2>2, RoundInduction
  <2> QED
    BY <2>3
<1> QED
  BY <1>9, <1>10

\* _buildHeap puts any array in heap order, with the same entries.
LEMMA BuildHeapOrders ==
    ASSUME NEW N \in Nat, NEW X, LinedUp(X), NEW h \in Arrays(N, X)
    PROVE  buildHeap(h) \in Arrays(N, X) /\ HeapOrdered(buildHeap(h), N)
<1>1. PICK M \in Nat : M = N \div 2
  OBVIOUS
<1>2. Len(h) \div 2 = M
  BY <1>1, ArrayFacts
<1> DEFINE r == BuildRun(h)
           P == {n \in 0 .. M : HeapFrom(r[n], M + 1 - n, N)}
<1>3. /\ r[0] = h
      /\ \A n \in 0 .. M : r[n] \in Arrays(N, X)
      /\ \A n \in 1 .. M : r[n] = siftDown(r[n - 1], M + 1 - n)
  BY <1>1, BuildRunUnfolds
<1>4. buildHeap(h) = r[M]
  BY <1>2 DEF buildHeap, BuildRun
<1> HIDE DEF r
<1>5. 0 \in P
  <2>1. \A k \in 2 .. N : ~ (k \div 2 >= M + 1 - 0)
    BY <1>1
  <2> QED
    BY <2>1 DEF HeapFrom
<1>6. ASSUME NEW n \in 1 .. M, n - 1 \in P PROVE n \in P
  <2>1. PICK i \in 1 .. N : i = M + 1 - n
    BY <1>1
  <2>2. n - 1 \in 0 .. M /\ M + 1 - (n - 1) = i + 1
    BY <2>1
  <2>3. r[n - 1] \in Arrays(N, X) /\ HeapFrom(r[n - 1], i + 1, N)
    BY <2>2, <1>3, <1>6
  <2>4. HeapFrom(siftDown(r[n - 1], i), i, N)
    BY <2>1, <2>3, SiftDownOrders
  <2> QED
    BY <2>1, <2>4, <1>3
<1>7. \A n \in 0 .. M : n \in P
  <2> HIDE DEF P
  <2> QED
    BY <1>5, <1>6, RoundInduction
<1>8. M \in 0 .. M /\ M + 1 - M = 1
  OBVIOUS
<1>9. HeapFrom(r[M], 1, N)
  BY <1>7, <1>8
<1> QED
  BY <1>3, <1>4, <1>8, <1>9, HeapFromRoot

-----------------------------------------------------------------------------
\* The ends of the order.

\* In a heap the root precedes every other entry: the first that it did not
\* precede would come after its parent, which the root precedes or is.
LEMMA RootFirst ==
    ASSUME NEW N \in Nat, NEW X, LinedUp(X), NEW g \in Arrays(N, X), HeapOrdered(g, N)
    PROVE  \A i \in 2 .. N : Precedes(g[1], g[i])
<1> DEFINE P == {n \in 0 .. N : \A i \in 2 .. n : Precedes(g[1], g[i])}
<1>1. 0 \in P
  OBVIOUS
<1>2. ASSUME NEW n \in 1 .. N, n - 1 \in P PROVE n \in P
  <2>1. \A i \in 2 .. n - 1 : Precedes(g[1], g[i])
    BY <1>2
  <2>2. ASSUME n >= 2 PROVE Precedes(g[1], g[n])
    <3>1. PICK p \in 1 .. N : p = n \div 2 /\ p <= n - 1
      BY <2>2
    <3>2. Precedes(g[p], g[n])
      BY <2>2, <3>1 DEF HeapOrdered
    <3>3. CASE p = 1
      BY <3>2, <3>3
    <3>4. CASE p # 1
      <4>1. Precedes(g[1], g[p])
        BY <2>1, <3>1, <3>4
      <4> QED
        BY <4>1, <3>1, <3>2, <2>2, ArrayOrder
    <3> QED
      BY <3>3, <3>4
  <2> QED
    BY <2>1, <2>2
<1>3. \A n \in 0 .. N : n \in P
  <2> HIDE DEF P
  <2> QED
    BY <1>1, <1>2, RoundInduction
<1> QED
  BY <1>3

\* Some entry of a stretch of the array comes last.
LEMMA LastOfStretch ==
    ASSUME NEW N \in Nat, NEW X, LinedUp(X), NEW g \in Arrays(N, X), NEW a \in 1 .. N
    PROVE  \E i \in a .. N : \A j \in a .. N : ~ Precedes(g[i], g[j])
<1> DEFINE HasLast(n) == \E i \in a .. n : \A j \in a .. n : ~ Precedes(g[i], g[j])
           P == {n \in 0 .. N : n >= a => HasLast(n)}
<1>1. 0 \in P
  OBVIOUS
<1>2. ASSUME NEW n \in 1 .. N, n - 1 \in P PROVE n \in P
  <2>1. CASE n < a
    BY <2>1
  <2>2. CASE n = a
    <3>1. ~ Precedes(g[n], g[n])
      BY ArrayOrder
    <3> QED
      BY <2>2, <3>1
  <2>3. CASE n > a
    <3>1. PICK i \in a .. n - 1 : \A j \in a .. n - 1 : ~ Precedes(g[i], g[j])
      BY <2>3, <1>2
    <3>2. CASE Precedes(g[i], g[n])
      <4>1. ASSUME NEW j \in a .. n PROVE ~ Precedes(g[n], g[j])
        <5>1. ~ Precedes(g[n], g[n])
          BY ArrayOrder
        <5>2. ASSUME j # n, Precedes(g[n], g[j]) PROVE FALSE
          <6>1. Precedes(g[i], g[j])
            BY <3>2, <5>2, ArrayOrder
          <6> QED
            BY <6>1, <3>1, <5>2
        <5> QED
          BY <5>1, <5>2
      <4> QED
        BY <4>1, <2>3
    <3>3. CASE ~ Precedes(g[i], g[n])
      BY <3>1, <3>3, <2>3
    <3> QED
      BY <3>2, <3>3
  <2> QED
    BY <2>1, <2>2, <2>3
<1>3. \A n \in 0 .. N : n \in P
  <2> HIDE DEF P
  <2> QED
    BY <1>1, <1>2, RoundInduction
<1>4. N \in 0 .. N /\ N >= a
  OBVIOUS
<1>5. N \in P
  <2> HIDE DEF P
  <2> QED
    BY <1>3, <1>4
<1> QED
  BY <1>4, <1>5

\* _findMaxIndex: in a heap the last of the leaves comes after every other
\* entry, because below every entry there is a leaf that comes after it.
LEMMA MaxIndexLast ==
    ASSUME NEW N \in Nat, N > 0, NEW X, LinedUp(X), NEW g \in Arrays(N, X),
           HeapOrdered(g, N)
    PROVE  /\ findMaxIndex(g) \in 1 .. N
           /\ \A i \in 1 .. N : i # findMaxIndex(g) => Precedes(g[i], g[findMaxIndex(g)])
<1>1. PICK a \in 1 .. N : a = N \div 2 + 1
  OBVIOUS
<1> DEFINE Worst(i) == i \in a .. N /\ \A j \in a .. N : ~ Precedes(g[i], g[j])
<1>2. findMaxIndex(g) = CHOOSE i : Worst(i)
  <2>1. Len(g) = N
    BY ArrayFacts
  <2> QED
    BY <2>1, <1>1 DEF findMaxIndex
<1>3. \E i : Worst(i)
  BY LastOfStretch
<1>4. Worst(findMaxIndex(g))
  <2> HIDE DEF Worst
  <2> QED
    BY <1>2, <1>3
<1>5. PICK m \in 1 .. N : m = findMaxIndex(g)
  BY <1>4
<1>6. \A j \in a .. N : ~ Precedes(g[m], g[j])
  BY <1>4, <1>5
<1> DEFINE P == {n \in 0 .. N : \A i \in 1 .. N : i >= N - n /\ i # m => Precedes(g[i], g[m])}
<1>7. \A j \in a .. N : j # m => Precedes(g[j], g[m])
  BY <1>6, ArrayOrder
<1>8. 0 \in P
  BY <1>7, <1>1
<1>9. ASSUME NEW n \in 1 .. N, n - 1 \in P PROVE n \in P
  <2>1. \A i \in 1 .. N : i >= N - (n - 1) /\ i # m => Precedes(g[i], g[m])
    BY <1>9
  <2>2. ASSUME NEW i \in 1 .. N, i = N - n, i # m, i < a PROVE Precedes(g[i], g[m])
    <3>1. PICK c \in 2 .. N : c = 2 * i /\ c \div 2 = i /\ c >= N - (n - 1)
      BY <2>2, <1>1
    <3>2. Precedes(g[i], g[c])
      BY <3>1 DEF HeapOrdered
    <3>3. CASE c = m
      BY <3>2, <3>3
    <3>4. CASE c # m
      <4>1. Precedes(g[c], g[m])
        BY <2>1, <3>1, <3>4
      <4> QED
        BY <4>1, <3>1, <3>2, ArrayOrder
    <3> QED
      BY <3>3, <3>4
  <2>3. \A i \in 1 .. N : i >= N - n => i >= N - (n - 1) \/ i = N - n
    OBVIOUS
  <2> QED
    BY <2>1, <2>2, <2>3, <1>7
<1>10. \A n \in 0 .. N : n \in P
  <2> HIDE DEF P
  <2> QED
    BY <1>8, <1>9, RoundInduction
<1>11. \A i \in 1 .. N : i # m => Precedes(g[i], g[m])
  BY <1>10
<1> QED
  BY <1>5, <1>11

-----------------------------------------------------------------------------
\* Arrays that grow and shrink.

\* A sequence is one of the elements it has.
LEMMA SeqOfItsElements ==
    ASSUME NEW X, NEW Y, NEW N \in Nat, NEW w \in Seq(X), Len(w) = N,
           \A i \in 1 .. N : w[i] \in Y
    PROVE  w \in Seq(Y)
  OBVIOUS

\* An assignment to an element of a sequence leaves the others.
LEMMA SeqAssign ==
    ASSUME NEW X, NEW f \in Seq(X), NEW i \in 1 .. Len(f), NEW x \in X
    PROVE  /\ [f EXCEPT ![i] = x] \in Seq(X)
           /\ Len([f EXCEPT ![i] = x]) = Len(f)
           /\ [f EXCEPT ![i] = x][i] = x
           /\ \A j \in 1 .. Len(f) : j # i => [f EXCEPT ![i] = x][j] = f[j]
  OBVIOUS

\* The array with an entry at its end.
Extended(h, e) == Append(h, e)

\* push adds one entry and moves none.
LEMMA AppendArray ==
    ASSUME NEW N \in Nat, NEW X, NEW h \in Arrays(N, X), NEW e, e \notin X
    PROVE  /\ Extended(h, e) \in Arrays(N + 1, X \cup {e})
           /\ \A i \in 1 .. N : Extended(h, e)[i] = h[i]
<1>0. PICK w : w = Append(h, e)
  OBVIOUS
<1>1. /\ h \in Seq(X) /\ Len(h) = N
      /\ \A i \in 1 .. N : h[i] \in X
      /\ \A i, j \in 1 .. N : h[i] = h[j] => i = j
      /\ \A x \in X : \E i \in 1 .. N : h[i] = x
  BY ArrayFacts
<1>2. h \in Seq(X \cup {e})
  BY <1>1
<1>3. /\ w \in Seq(X \cup {e}) /\ Len(w) = N + 1
      /\ w[N + 1] = e
      /\ \A i \in 1 .. N : w[i] = h[i]
  BY <1>0, <1>1, <1>2
<1>4. \A i, j \in 1 .. N + 1 : w[i] = w[j] => i = j
  <2>1. \A i \in 1 .. N + 1 : i = N + 1 \/ i \in 1 .. N
    OBVIOUS
  <2>2. \A i \in 1 .. N : w[i] # e
    BY <1>1, <1>3
  <2> QED
    BY <1>1, <1>3, <2>1, <2>2
<1>5. \A x \in X \cup {e} : \E i \in 1 .. N + 1 : w[i] = x
  BY <1>1, <1>3
<1>6. w \in Arrays(N + 1, X \cup {e})
  BY <1>3, <1>4, <1>5 DEF Arrays
<1> QED
  BY <1>0, <1>3, <1>6 DEF Extended

\* The array with its last entry in the place of the root.
Uprooted(h) == [Front(h) EXCEPT ![1] = Last(h)]

\* With pop and the assignment to the root, dequeue loses the root alone.
LEMMA PopArray ==
    ASSUME NEW N \in Nat, N > 1, NEW X, NEW h \in Arrays(N, X)
    PROVE  /\ Uprooted(h) \in Arrays(N - 1, X \ {h[1]})
           /\ \A i \in 2 .. N - 1 : Uprooted(h)[i] = h[i]
<1>0. PICK w : w = Uprooted(h)
  OBVIOUS
<1>1. /\ h \in Seq(X) /\ Len(h) = N
      /\ \A i \in 1 .. N : h[i] \in X
      /\ \A i, j \in 1 .. N : h[i] = h[j] => i = j
      /\ \A x \in X : \E i \in 1 .. N : h[i] = x
  BY ArrayFacts
<1>2. PICK f : f = Front(h)
  OBVIOUS
<1>3. f \in Seq(X) /\ Len(f) = N - 1 /\ \A i \in 1 .. N - 1 : f[i] = h[i]
  BY <1>1, <1>2 DEF Front
<1>4. Last(h) = h[N]
  BY <1>1 DEF Last
<1>5. w = [f EXCEPT ![1] = h[N]]
  BY <1>0, <1>2, <1>4 DEF Uprooted
<1>6. /\ Len(w) = N - 1 /\ w \in Seq(X)
      /\ w[1] = h[N]
      /\ \A i \in 2 .. N - 1 : w[i] = h[i]
  <2>1. h[N] \in X /\ 1 \in 1 .. Len(f) /\ DOMAIN f = 1 .. N - 1
    BY <1>1, <1>3
  <2>2. w \in Seq(X) /\ Len(w) = Len(f)
    <3>1. [f EXCEPT ![1] = h[N]] \in Seq(X) /\ Len([f EXCEPT ![1] = h[N]]) = Len(f)
      BY <2>1, <1>3, SeqAssign
    <3> QED
      BY <3>1, <1>5, Zenon
  <2>3. w[1] = h[N] /\ \A i \in 2 .. N - 1 : w[i] = f[i]
    BY <2>1, <1>5
  <2>4. \A i \in 2 .. N - 1 : f[i] = h[i]
    BY <1>3
  <2> QED
    BY <2>2, <2>3, <2>4, <1>3
<1>7. \A i \in 1 .. N - 1 : w[i] \in X \ {h[1]}
  <2>1. \A i \in 1 .. N - 1 : i = 1 \/ i \in 2 .. N - 1
    OBVIOUS
  <2> QED
    BY <1>1, <1>6, <2>1
<1>8. w \in Seq(X \ {h[1]})
  <2>1. PICK M \in Nat : M = N - 1
    OBVIOUS
  <2>2. w \in Seq(X) /\ Len(w) = M /\ \A i \in 1 .. M : w[i] \in X \ {h[1]}
    BY <2>1, <1>6, <1>7
  <2> QED
    BY <2>1, <2>2, SeqOfItsElements
<1>9. \A i, j \in 1 .. N - 1 : w[i] = w[j] => i = j
  <2>1. \A i \in 1 .. N - 1 : i = 1 \/ i \in 2 .. N - 1
    OBVIOUS
  <2> QED
    BY <1>1, <1>6, <2>1
<1>10. ASSUME NEW x \in X \ {h[1]} PROVE \E i \in 1 .. N - 1 : w[i] = x
  <2>1. PICK i \in 1 .. N : h[i] = x
    BY <1>1
  <2>2. i # 1
    BY <2>1
  <2>3. CASE i = N
    BY <2>1, <2>3, <1>6
  <2>4. CASE i # N
    <3>1. i \in 2 .. N - 1 /\ i \in 1 .. N - 1
      BY <2>2, <2>4
    <3> QED
      BY <3>1, <2>1, <1>6
  <2> QED
    BY <2>3, <2>4
<1>11. w \in Arrays(N - 1, X \ {h[1]})
  BY <1>6, <1>8, <1>9, <1>10 DEF Arrays
<1> QED
  BY <1>0, <1>6, <1>11

\* splice takes one entry out and moves the later ones up.
LEMMA RemoveArray ==
    ASSUME NEW N \in Nat, NEW X, NEW h \in Arrays(N, X), NEW m \in 1 .. N
    PROVE  RemoveAt(h, m) \in Arrays(N - 1, X \ {h[m]})
<1>1. /\ h \in Seq(X) /\ Len(h) = N
      /\ \A i \in 1 .. N : h[i] \in X
      /\ \A i, j \in 1 .. N : h[i] = h[j] => i = j
      /\ \A x \in X : \E i \in 1 .. N : h[i] = x
  BY ArrayFacts
<1>2. PICK w : w = RemoveAt(h, m)
  OBVIOUS
<1>3. /\ w \in Seq(X) /\ Len(w) = N - 1
      /\ \A i \in 1 .. N - 1 : w[i] = IF i < m THEN h[i] ELSE h[i + 1]
  <2> DEFINE l == SubSeq(h, 1, m - 1)
             t == SubSeq(h, m + 1, N)
  <2>1. l \in Seq(X) /\ Len(l) = m - 1 /\ \A i \in 1 .. m - 1 : l[i] = h[i]
    BY <1>1
  <2>2. t \in Seq(X) /\ Len(t) = N - m /\ \A i \in 1 .. N - m : t[i] = h[i + m]
    BY <1>1
  <2>3. w = l \o t
    BY <1>1, <1>2 DEF RemoveAt
  <2> HIDE DEF l, t
  <2>4. /\ w \in Seq(X) /\ Len(w) = N - 1
        /\ \A i \in 1 .. (m - 1) + (N - m) : w[i] = IF i <= m - 1 THEN l[i] ELSE t[i - (m - 1)]
    BY <2>1, <2>2, <2>3, ConcatProperties
  <2>5. ASSUME NEW i \in 1 .. N - 1 PROVE w[i] = IF i < m THEN h[i] ELSE h[i + 1]
    <3>1. CASE i < m
      BY <3>1, <2>1, <2>4
    <3>2. CASE ~ (i < m)
      <4>1. w[i] = t[i - (m - 1)]
        BY <3>2, <2>4
      <4>2. i - (m - 1) \in 1 .. N - m /\ (i - (m - 1)) + m = i + 1
        BY <3>2
      <4>3. t[i - (m - 1)] = h[(i - (m - 1)) + m]
        BY <4>2, <2>2
      <4> QED
        BY <3>2, <4>1, <4>2, <4>3
    <3> QED
      BY <3>1, <3>2
  <2> QED
    BY <2>4, <2>5
<1>4. \A i \in 1 .. N - 1 : w[i] \in X \ {h[m]}
  BY <1>1, <1>3
<1>5. w \in Seq(X \ {h[m]})
  BY <1>3, <1>4
<1>6. ASSUME NEW i \in 1 .. N - 1, NEW j \in 1 .. N - 1, w[i] = w[j] PROVE i = j
  <2>1. PICK k \in 1 .. N : k = IF i < m THEN i ELSE i + 1
    OBVIOUS
  <2>2. PICK l \in 1 .. N : l = IF j < m THEN j ELSE j + 1
    OBVIOUS
  <2>3. w[i] = h[k] /\ w[j] = h[l]
    BY <2>1, <2>2, <1>3
  <2>4. k = l
    BY <2>3, <1>1, <1>6
  <2> QED
    BY <2>1, <2>2, <2>4
<1>7. ASSUME NEW x \in X \ {h[m]} PROVE \E i \in 1 .. N - 1 : w[i] = x
  <2>1. PICK i \in 1 .. N : h[i] = x
    BY <1>1
  <2>2. i # m
    BY <2>1
  <2>3. CASE i < m
    <3>1. i \in 1 .. N - 1
      BY <2>3
    <3>2. w[i] = h[i]
      BY <3>1, <2>3, <1>3
    <3> QED
      BY <3>1, <3>2, <2>1
  <2>4. CASE i > m
    <3>1. i - 1 \in 1 .. N - 1 /\ ~ (i - 1 < m) /\ (i - 1) + 1 = i
      BY <2>4
    <3> QED
      BY <3>1, <2>1, <1>3
  <2> QED
    BY <2>2, <2>3, <2>4
<1> QED
  BY <1>2, <1>3, <1>5, <1>6, <1>7 DEF Arrays

\* The order of a set is the order of its subsets.
LEMMA LinedUpSubset ==
    ASSUME NEW X, LinedUp(X), NEW Y \in SUBSET X
    PROVE  LinedUp(Y)
  BY DEF LinedUp

\* push and _siftUp: the heap with one entry more.
LEMMA PushOrders ==
    ASSUME NEW N \in Nat, NEW X, NEW h \in Arrays(N, X), HeapOrdered(h, N),
           NEW e, e \notin X, LinedUp(X \cup {e})
    PROVE  push(h, e) \in Arrays(N + 1, X \cup {e}) /\ HeapOrdered(push(h, e), N + 1)
<1>1. PICK w : w = Extended(h, e)
  OBVIOUS
<1>2. w \in Arrays(N + 1, X \cup {e}) /\ \A i \in 1 .. N : w[i] = h[i]
  BY <1>1, AppendArray
<1>3. PICK M \in Nat : M = N + 1 /\ M > 0 /\ M - 1 = N
  OBVIOUS
<1>4. PICK Y : Y = X \cup {e}
  OBVIOUS
<1>5. HeapOrdered(w, N)
  <2>1. ASSUME NEW k \in 2 .. N PROVE Precedes(w[k \div 2], w[k])
    <3>1. k \div 2 \in 1 .. N /\ k \in 1 .. N
      OBVIOUS
    <3>2. Precedes(h[k \div 2], h[k])
      BY DEF HeapOrdered
    <3>3. w[k \div 2] = h[k \div 2] /\ w[k] = h[k]
      BY <3>1, <1>2
    <3> QED
      BY <3>2, <3>3
  <2> QED
    BY <2>1 DEF HeapOrdered
<1>6. w \in Arrays(M, Y) /\ LinedUp(Y) /\ HeapOrdered(w, M - 1)
  BY <1>2, <1>3, <1>4, <1>5
<1>7. siftUp(w, M) \in Arrays(M, Y) /\ HeapOrdered(siftUp(w, M), M)
  BY <1>3, <1>6, SiftUpOrders
<1>8. push(h, e) = siftUp(w, M)
  <2>1. Len(h) = N
    BY ArrayFacts
  <2> QED
    BY <2>1, <1>1, <1>3 DEF push, Extended
<1> QED
  BY <1>3, <1>4, <1>7, <1>8

\* dequeue: the heap without its root.
LEMMA PoppedOrders ==
    ASSUME NEW N \in Nat, N > 0, NEW X, LinedUp(X), NEW h \in Arrays(N, X),
           HeapOrdered(h, N)
    PROVE  popped(h) \in Arrays(N - 1, X \ {h[1]}) /\ HeapOrdered(popped(h), N - 1)
<1>1. Len(h) = N
  BY ArrayFacts
<1>2. CASE N = 1
  <2>1. popped(h) = <<>>
    BY <1>1, <1>2 DEF popped
  <2>2. X \ {h[1]} = {}
    BY <1>2, ArrayFacts
  <2>3. <<>> \in Seq(X \ {h[1]}) /\ Len(<<>>) = 0
    OBVIOUS
  <2>4. N - 1 = 0
    BY <1>2
  <2>5. <<>> \in Arrays(0, X \ {h[1]})
    BY <2>2, <2>3 DEF Arrays
  <2>6. HeapOrdered(<<>>, 0)
    BY DEF HeapOrdered
  <2> QED
    BY <2>1, <2>4, <2>5, <2>6
<1>3. CASE N # 1
  <2>1. PICK M \in Nat : M = N - 1 /\ 1 \in 1 .. M
    BY <1>3
  <2>2. PICK Y : Y = X \ {h[1]}
    OBVIOUS
  <2>3. PICK w : w = Uprooted(h)
    OBVIOUS
  <2>4. w \in Arrays(M, Y) /\ \A i \in 2 .. M : w[i] = h[i]
    BY <2>1, <2>2, <2>3, <1>3, PopArray
  <2>5. HeapFrom(w, 1 + 1, M)
    <3>1. ASSUME NEW k \in 2 .. M, k \div 2 >= 2 PROVE Precedes(w[k \div 2], w[k])
      <4>1. k \div 2 \in 2 .. M /\ k \in 2 .. M /\ k \in 2 .. N
        BY <3>1, <2>1
      <4>2. Precedes(h[k \div 2], h[k])
        BY <4>1 DEF HeapOrdered
      <4>3. w[k \div 2] = h[k \div 2] /\ w[k] = h[k]
        BY <4>1, <2>4
      <4> QED
        BY <4>2, <4>3
    <3> QED
      BY <3>1 DEF HeapFrom
  <2>6. LinedUp(Y)
    BY <2>2, LinedUpSubset
  <2>7. siftDown(w, 1) \in Arrays(M, Y) /\ HeapFrom(siftDown(w, 1), 1, M)
    BY <2>1, <2>4, <2>5, <2>6, SiftDownOrders
  <2>8. popped(h) = siftDown(w, 1)
    BY <2>3, <1>1, <1>3 DEF popped, Uprooted
  <2> QED
    BY <2>1, <2>2, <2>7, <2>8, HeapFromRoot
<1> QED
  BY <1>2, <1>3

-----------------------------------------------------------------------------
\* filter.

FilterRun(s, T) ==
    LET keep(taken, n) == IF s[n] \in T THEN Append(taken, s[n]) ELSE taken
    IN  Rounds(keep, <<>>, Len(s))

\* The rounds of filter are well defined, and round n looks at element n.
LEMMA FilterRunUnfolds ==
    ASSUME NEW N \in Nat, NEW X, NEW s \in Seq(X), Len(s) = N, NEW T
    PROVE  /\ FilterRun(s, T)[0] = <<>>
           /\ \A n \in 0 .. N : FilterRun(s, T)[n] \in Seq(X)
           /\ \A n \in 1 .. N : FilterRun(s, T)[n] =
                 IF s[n] \in T THEN Append(FilterRun(s, T)[n - 1], s[n])
                 ELSE FilterRun(s, T)[n - 1]
<1> DEFINE S == Seq(X)
           Keep(taken, n) == IF s[n] \in T THEN Append(taken, s[n]) ELSE taken
           step == [n \in 1 .. N |-> [g \in S |-> Keep(g, n)]]
           Unfolds(f) == f = [n \in 0 .. N |-> IF n = 0 THEN <<>> ELSE Keep(f[n - 1], n)]
<1>1. \A n \in 1 .. N : \A g \in S : Keep(g, n) \in S
  OBVIOUS
<1>2. FilterRun(s, T) = CHOOSE g : Unfolds(g)
  BY DEF FilterRun, Rounds
<1> HIDE DEF Keep
<1>3. step \in [1 .. N -> [S -> S]]
  BY <1>1
<1>4. \E f : IsRun(f, N, S, <<>>, step)
  <2> DEFINE s0 == <<>>
  <2>1. s0 \in S
    OBVIOUS
  <2> HIDE DEF S, step, s0
  <2>2. \E f : IsRun(f, N, S, s0, step)
    BY <1>3, <2>1, RunExists
  <2> QED
    BY <2>2 DEF s0
<1>5. PICK f : IsRun(f, N, S, <<>>, step)
  BY <1>4
<1>6. Unfolds(f)
  <2> HIDE DEF S
  <2>1. f \in [0 .. N -> S] /\ f[0] = <<>>
    BY <1>5 DEF IsRun
  <2>2. ASSUME NEW n \in 1 .. N PROVE f[n] = Keep(f[n - 1], n)
    <3>1. f[n - 1] \in S
      BY <2>1
    <3>2. f[n] = step[n][f[n - 1]]
      BY <1>5 DEF IsRun
    <3> QED
      BY <3>1, <3>2
  <2> QED
    BY <2>1, <2>2
<1>7. Unfolds(FilterRun(s, T))
  <2> HIDE DEF Unfolds
  <2> QED
    BY <1>2, <1>6
<1> DEFINE r == FilterRun(s, T)
<1>8. r[0] = <<>> /\ \A n \in 1 .. N : r[n] = Keep(r[n - 1], n)
  <2> HIDE DEF r
  <2> QED
    BY <1>7 DEF r
<1>9. \A n \in 0 .. N : r[n] \in S
  <2> DEFINE P == {n \in 0 .. N : r[n] \in S}
  <2>0. <<>> \in S /\ 0 \in 0 .. N
    OBVIOUS
  <2>1. 0 \in P
    <3> HIDE DEF S, r
    <3> QED
      BY <2>0, <1>8
  <2>2. ASSUME NEW n \in 1 .. N, n - 1 \in P PROVE n \in P
    BY <1>8, <1>1, <2>2
  <2>3. \A n \in 0 .. N : n \in P
    <3> HIDE DEF P
    <3> QED
      BY <2>1, <2>2, RoundInduction
  <2> QED
    BY <2>3
<1> QED
  BY <1>8, <1>9 DEF Keep

\* What filter has taken after it has looked at n elements: those of the first n
\* that are in T, and none twice if s has none twice.
FilterInv(t, n, s, T) ==
    /\ Len(t) <= n
    /\ \A i \in 1 .. Len(t) : t[i] \in T /\ \E j \in 1 .. n : s[j] = t[i]
    /\ \A j \in 1 .. n : s[j] \in T => \E i \in 1 .. Len(t) : t[i] = s[j]
    /\ (\A i, j \in 1 .. Len(s) : s[i] = s[j] => i = j)
          => \A i, j \in 1 .. Len(t) : t[i] = t[j] => i = j

\* A round of filter keeps it.
LEMMA FilterStep ==
    ASSUME NEW X, NEW s \in Seq(X), NEW T, NEW n \in 1 .. Len(s),
           NEW t \in Seq(X), FilterInv(t, n - 1, s, T),
           NEW u, u = IF s[n] \in T THEN Append(t, s[n]) ELSE t
    PROVE  FilterInv(u, n, s, T)
<1>1. PICK L \in Nat : L = Len(t)
  OBVIOUS
<1>2. /\ L <= n - 1
      /\ \A i \in 1 .. L : t[i] \in T /\ \E j \in 1 .. n - 1 : s[j] = t[i]
      /\ \A j \in 1 .. n - 1 : s[j] \in T => \E i \in 1 .. L : t[i] = s[j]
      /\ (\A i, j \in 1 .. Len(s) : s[i] = s[j] => i = j)
            => \A i, j \in 1 .. L : t[i] = t[j] => i = j
  BY <1>1 DEF FilterInv
<1>3. \A j \in 1 .. n : j = n \/ j \in 1 .. n - 1
  OBVIOUS
<1>4. CASE s[n] \notin T
  <2>1. u = t
    BY <1>4
  <2>2. ASSUME NEW i \in 1 .. L PROVE \E j \in 1 .. n : s[j] = t[i]
    <3>1. PICK j \in 1 .. n - 1 : s[j] = t[i]
      BY <1>2
    <3>2. j \in 1 .. n
      BY <3>1
    <3> QED
      BY <3>1, <3>2, Zenon
  <2>3. \A j \in 1 .. n : s[j] \in T => \E i \in 1 .. L : t[i] = s[j]
    BY <1>2, <1>3, <1>4
  <2> QED
    BY <2>1, <2>2, <2>3, <1>1, <1>2 DEF FilterInv
<1>5. CASE s[n] \in T
  <2>1. /\ Len(u) = L + 1 /\ u[L + 1] = s[n]
        /\ \A i \in 1 .. L : u[i] = t[i]
    BY <1>1, <1>5
  <2>2. \A i \in 1 .. L + 1 : i = L + 1 \/ i \in 1 .. L
    OBVIOUS
  <2>3. \A i \in 1 .. L + 1 : u[i] \in T /\ \E j \in 1 .. n : s[j] = u[i]
    <3>1. SUFFICES ASSUME NEW i \in 1 .. L + 1
                   PROVE  u[i] \in T /\ \E j \in 1 .. n : s[j] = u[i]
      OBVIOUS
    <3>2. CASE i = L + 1
      BY <3>2, <2>1, <1>5
    <3>3. CASE i \in 1 .. L
      <4>1. u[i] = t[i] /\ t[i] \in T
        BY <3>3, <2>1, <1>2
      <4>2. PICK j \in 1 .. n - 1 : s[j] = t[i]
        BY <3>3, <1>2
      <4>3. j \in 1 .. n
        BY <4>2
      <4>4. s[j] = u[i]
        BY <4>1, <4>2, Zenon
      <4> QED
        BY <4>1, <4>3, <4>4, Zenon
    <3> QED
      BY <3>2, <3>3, <2>2
  <2>4. ASSUME NEW j \in 1 .. n, s[j] \in T PROVE \E i \in 1 .. L + 1 : u[i] = s[j]
    <3>1. CASE j = n
      BY <3>1, <2>1
    <3>2. CASE j \in 1 .. n - 1
      <4>1. PICK i \in 1 .. L : t[i] = s[j]
        BY <3>2, <2>4, <1>2
      <4> QED
        BY <4>1, <2>1
    <3> QED
      BY <3>1, <3>2, <1>3
  <2>5. ASSUME \A i, j \in 1 .. Len(s) : s[i] = s[j] => i = j,
               NEW i \in 1 .. L + 1, NEW j \in 1 .. L + 1, u[i] = u[j]
        PROVE  i = j
    <3>1. \A k \in 1 .. L : u[k] # s[n]
      <4>1. SUFFICES ASSUME NEW k \in 1 .. L, u[k] = s[n] PROVE FALSE
        OBVIOUS
      <4>2. PICK m \in 1 .. n - 1 : s[m] = t[k]
        BY <1>2
      <4>3. s[m] = s[n] /\ m \in 1 .. Len(s) /\ n \in 1 .. Len(s) /\ m # n
        BY <4>1, <4>2, <2>1
      <4> QED
        BY <4>3, <2>5
    <3>2. \A k, l \in 1 .. L : t[k] = t[l] => k = l
      BY <2>5, <1>2
    <3> QED
      BY <3>1, <3>2, <2>1, <2>2, <2>5
  <2>6. Len(u) <= n
    BY <2>1, <1>2
  <2>7. \A i \in 1 .. Len(u) : u[i] \in T /\ \E j \in 1 .. n : s[j] = u[i]
    BY <2>1, <2>3, Zenon
  <2>8. \A j \in 1 .. n : s[j] \in T => \E i \in 1 .. Len(u) : u[i] = s[j]
    BY <2>1, <2>4, Zenon
  <2>9. (\A i, j \in 1 .. Len(s) : s[i] = s[j] => i = j)
           => \A i, j \in 1 .. Len(u) : u[i] = u[j] => i = j
    BY <2>1, <2>5, Zenon
  <2> QED
    BY <2>6, <2>7, <2>8, <2>9, Zenon DEF FilterInv
<1> QED
  BY <1>4, <1>5

\* filter returns the elements of s that are in T.
LEMMA FilteredFacts ==
    ASSUME NEW X, NEW s \in Seq(X), NEW T
    PROVE  filtered(s, T) \in Seq(X) /\ FilterInv(filtered(s, T), Len(s), s, T)
<1>1. PICK N \in Nat : N = Len(s)
  OBVIOUS
<1> DEFINE r == FilterRun(s, T)
           P == {n \in 0 .. N : FilterInv(r[n], n, s, T)}
<1>2. /\ r[0] = <<>>
      /\ \A n \in 0 .. N : r[n] \in Seq(X)
      /\ \A n \in 1 .. N : r[n] = IF s[n] \in T THEN Append(r[n - 1], s[n]) ELSE r[n - 1]
  BY <1>1, FilterRunUnfolds
<1>3. filtered(s, T) = r[N]
  BY <1>1 DEF filtered, FilterRun
<1> HIDE DEF r
<1>4. 0 \in P
  <2>1. FilterInv(<<>>, 0, s, T)
    BY DEF FilterInv
  <2> QED
    BY <2>1, <1>2
<1>5. ASSUME NEW n \in 1 .. N, n - 1 \in P PROVE n \in P
  <2>1. PICK t : t = r[n - 1]
    OBVIOUS
  <2>2. PICK u : u = r[n]
    OBVIOUS
  <2>3. t \in Seq(X) /\ FilterInv(t, n - 1, s, T)
    BY <2>1, <1>2, <1>5
  <2>4. u = IF s[n] \in T THEN Append(t, s[n]) ELSE t
    BY <2>1, <2>2, <1>2
  <2>5. n \in 1 .. Len(s)
    BY <1>1
  <2>6. FilterInv(u, n, s, T)
    BY <2>3, <2>4, <2>5, FilterStep
  <2> QED
    BY <2>2, <2>6
<1>6. \A n \in 0 .. N : n \in P
  <2> HIDE DEF P
  <2> QED
    BY <1>4, <1>5, RoundInduction
<1>7. N \in 0 .. N
  OBVIOUS
<1>8. FilterInv(r[N], N, s, T) /\ r[N] \in Seq(X)
  BY <1>2, <1>6, <1>7
<1> QED
  BY <1>1, <1>3, <1>8

\* Of an array it keeps the entries that are in T.
LEMMA FilterArray ==
    ASSUME NEW N \in Nat, NEW X, NEW h \in Arrays(N, X), NEW T \in SUBSET X
    PROVE  \E M \in 0 .. N : filtered(h, T) \in Arrays(M, T)
<1>1. /\ h \in Seq(X) /\ Len(h) = N
      /\ \A i, j \in 1 .. N : h[i] = h[j] => i = j
      /\ \A x \in X : \E i \in 1 .. N : h[i] = x
  BY ArrayFacts
<1>2. PICK f : f = filtered(h, T)
  OBVIOUS
<1>3. f \in Seq(X) /\ FilterInv(f, N, h, T)
  BY <1>1, <1>2, FilteredFacts
<1>4. PICK M \in Nat : M = Len(f)
  BY <1>3
<1>5. /\ M <= N
      /\ \A i \in 1 .. M : f[i] \in T
      /\ \A j \in 1 .. N : h[j] \in T => \E i \in 1 .. M : f[i] = h[j]
      /\ \A i, j \in 1 .. M : f[i] = f[j] => i = j
  BY <1>1, <1>3, <1>4 DEF FilterInv
<1>6. f \in Seq(T)
  BY <1>3, <1>4, <1>5, SeqOfItsElements
<1>7. \A e \in T : \E i \in 1 .. M : f[i] = e
  BY <1>1, <1>5
<1>8. f \in Arrays(M, T)
  BY <1>4, <1>5, <1>6, <1>7 DEF Arrays
<1> QED
  BY <1>2, <1>5, <1>8

-----------------------------------------------------------------------------
\* drain.

DrainRun(h) ==
    LET pop(g, n) == popped(g)
    IN  Rounds(pop, h, Len(h))

\* The heaps over some of the entries of X.
HeapsOver(X) ==
    {g \in Seq(X) : \E M \in Nat : \E Y \in SUBSET X : g \in Arrays(M, Y) /\ HeapOrdered(g, M)}

\* dequeue stays among them.
LEMMA PoppedType ==
    ASSUME NEW X, LinedUp(X), NEW g \in HeapsOver(X)
    PROVE  popped(g) \in HeapsOver(X)
<1>1. PICK M \in Nat : \E Y \in SUBSET X : g \in Arrays(M, Y) /\ HeapOrdered(g, M)
  BY DEF HeapsOver
<1>2. PICK Y \in SUBSET X : g \in Arrays(M, Y) /\ HeapOrdered(g, M)
  BY <1>1
<1>3. LinedUp(Y)
  BY <1>2, LinedUpSubset
<1>4. CASE M = 0
  <2>1. Len(g) = 0
    BY <1>2, <1>4, ArrayFacts
  <2>2. popped(g) = <<>> /\ g = <<>>
    BY <2>1 DEF popped, HeapsOver
  <2> QED
    BY <2>2
<1>5. CASE M # 0
  <2>1. PICK L \in Nat : L = M - 1
    BY <1>5
  <2>2. PICK Z \in SUBSET X : Z = Y \ {g[1]}
    BY <1>2
  <2>3. popped(g) \in Arrays(L, Z) /\ HeapOrdered(popped(g), L)
    BY <2>1, <2>2, <1>1, <1>2, <1>3, <1>5, PoppedOrders
  <2>4. popped(g) \in Seq(X)
    <3>1. popped(g) \in Seq(Z)
      BY <2>1, <2>3, ArrayFacts
    <3> QED
      BY <3>1, <2>2
  <2> QED
    BY <2>1, <2>2, <2>3, <2>4 DEF HeapsOver
<1> QED
  BY <1>4, <1>5

\* The rounds of drain are well defined, and each is a dequeue.
LEMMA DrainRunUnfolds ==
    ASSUME NEW N \in Nat, NEW X, LinedUp(X), NEW h \in Arrays(N, X), HeapOrdered(h, N)
    PROVE  /\ DrainRun(h)[0] = h
           /\ \A n \in 1 .. N : DrainRun(h)[n] = popped(DrainRun(h)[n - 1])
<1> DEFINE S == HeapsOver(X)
           step == [n \in 1 .. N |-> [g \in S |-> popped(g)]]
           Unfolds(f) == f = [n \in 0 .. N |-> IF n = 0 THEN h ELSE popped(f[n - 1])]
<1>1. h \in S
  BY ArrayFacts DEF HeapsOver
<1>2. step \in [1 .. N -> [S -> S]]
  BY PoppedType
<1>3. \E f : IsRun(f, N, S, h, step)
  <2> HIDE DEF S, step
  <2> QED
    BY <1>1, <1>2, RunExists
<1>4. PICK f : IsRun(f, N, S, h, step)
  BY <1>3
<1>5. Unfolds(f)
  <2> HIDE DEF S
  <2>1. f \in [0 .. N -> S] /\ f[0] = h
    BY <1>4 DEF IsRun
  <2>2. ASSUME NEW n \in 1 .. N PROVE f[n] = popped(f[n - 1])
    <3>1. f[n - 1] \in S
      BY <2>1
    <3>2. f[n] = step[n][f[n - 1]]
      BY <1>4 DEF IsRun
    <3> QED
      BY <3>1, <3>2
  <2> QED
    BY <2>1, <2>2
<1>6. DrainRun(h) = CHOOSE g : Unfolds(g)
  BY ArrayFacts DEF DrainRun, Rounds
<1>7. Unfolds(DrainRun(h))
  <2> HIDE DEF Unfolds
  <2> QED
    BY <1>5, <1>6
<1> DEFINE r == DrainRun(h)
<1>8. r[0] = h /\ \A n \in 1 .. N : r[n] = popped(r[n - 1])
  <2> HIDE DEF r
  <2> QED
    BY <1>7 DEF r
<1> QED
  BY <1>8

\* What the first n rounds of drain leave of X.
LeftOf(X, r, n) == {x \in X : \A m \in 1 .. n : x # r[m - 1][1]}

\* After n rounds of drain the heap holds all but the n roots handed out.
LEMMA DrainLeaves ==
    ASSUME NEW N \in Nat, NEW X, LinedUp(X), NEW h \in Arrays(N, X), HeapOrdered(h, N),
           NEW r, r[0] = h, \A n \in 1 .. N : r[n] = popped(r[n - 1])
    PROVE  \A n \in 0 .. N : /\ r[n] \in Arrays(N - n, LeftOf(X, r, n))
                             /\ HeapOrdered(r[n], N - n)
<1> DEFINE P == {n \in 0 .. N : /\ r[n] \in Arrays(N - n, LeftOf(X, r, n))
                                /\ HeapOrdered(r[n], N - n)}
<1>1. 0 \in P
  <2>1. LeftOf(X, r, 0) = X /\ N - 0 = N /\ 0 \in 0 .. N
    BY DEF LeftOf
  <2> QED
    BY <2>1
<1>2. ASSUME NEW n \in 1 .. N, n - 1 \in P PROVE n \in P
  <2>1. PICK M \in Nat : M = N - (n - 1) /\ M > 0 /\ M - 1 = N - n
    OBVIOUS
  <2>2. PICK Y : Y = LeftOf(X, r, n - 1)
    OBVIOUS
  <2>3. PICK g : g = r[n - 1]
    OBVIOUS
  <2>4. g \in Arrays(M, Y) /\ HeapOrdered(g, M)
    BY <2>1, <2>2, <2>3, <1>2
  <2>5. LinedUp(Y)
    BY <2>2, LinedUpSubset DEF LeftOf
  <2>6. popped(g) \in Arrays(M - 1, Y \ {g[1]}) /\ HeapOrdered(popped(g), M - 1)
    BY <2>1, <2>4, <2>5, PoppedOrders
  <2>7. Y \ {g[1]} = LeftOf(X, r, n)
    <3>1. \A m \in 1 .. n : m = n \/ m \in 1 .. n - 1
      OBVIOUS
    <3>2. \A m \in 1 .. n - 1 : m \in 1 .. n
      OBVIOUS
    <3>3. n \in 1 .. n
      OBVIOUS
    <3> QED
      BY <3>1, <3>2, <3>3, <2>2, <2>3, Zenon DEF LeftOf
  <2>8. r[n] = popped(g)
    BY <2>3
  <2> QED
    BY <2>1, <2>6, <2>7, <2>8
<1>3. \A n \in 0 .. N : n \in P
  <2> HIDE DEF P
  <2> QED
    BY <1>1, <1>2, RoundInduction
<1> QED
  BY <1>3

\* An array in order.
InSequence(d, N) == \A i, j \in 1 .. N : i < j => Precedes(d[i], d[j])

\* drain hands out every entry once, in order: each root precedes all that the
\* heap still held.
LEMMA DrainedInSequence ==
    ASSUME NEW N \in Nat, NEW X, LinedUp(X), NEW h \in Arrays(N, X), HeapOrdered(h, N)
    PROVE  drained(h) \in Arrays(N, X) /\ InSequence(drained(h), N)
<1>1. PICK r : r = DrainRun(h)
  OBVIOUS
<1>2. r[0] = h /\ \A n \in 1 .. N : r[n] = popped(r[n - 1])
  BY <1>1, DrainRunUnfolds
<1>3. \A n \in 0 .. N : r[n] \in Arrays(N - n, LeftOf(X, r, n)) /\ HeapOrdered(r[n], N - n)
  BY <1>2, DrainLeaves
<1>4. PICK d : d = drained(h)
  OBVIOUS
<1>5. d = [n \in 1 .. N |-> r[n - 1][1]]
  <2>1. Len(h) = N
    BY ArrayFacts
  <2> QED
    BY <2>1, <1>1, <1>4 DEF drained, DrainRun
<1>6. ASSUME NEW n \in 1 .. N
      PROVE  /\ d[n] \in LeftOf(X, r, n - 1)
             /\ \A x \in LeftOf(X, r, n - 1) : x # d[n] => Precedes(d[n], x)
  <2>1. PICK M \in Nat : M = N - (n - 1) /\ M > 0
    OBVIOUS
  <2>2. PICK Y : Y = LeftOf(X, r, n - 1)
    OBVIOUS
  <2>3. PICK g : g = r[n - 1]
    OBVIOUS
  <2>4. g \in Arrays(M, Y) /\ HeapOrdered(g, M)
    BY <2>1, <2>2, <2>3, <1>3
  <2>5. LinedUp(Y)
    BY <2>2, LinedUpSubset DEF LeftOf
  <2>6. \A i \in 2 .. M : Precedes(g[1], g[i])
    BY <2>1, <2>4, <2>5, RootFirst
  <2>7. d[n] = g[1] /\ g[1] \in Y
    BY <2>1, <2>3, <2>4, <1>5, ArrayFacts
  <2>8. ASSUME NEW x \in Y, x # g[1] PROVE Precedes(g[1], x)
    <3>1. PICK i \in 1 .. M : g[i] = x
      BY <2>1, <2>4, ArrayFacts
    <3>2. i \in 2 .. M
      BY <3>1, <2>8
    <3> QED
      BY <3>1, <3>2, <2>6
  <2> QED
    BY <2>2, <2>7, <2>8
<1>7. ASSUME NEW i \in 1 .. N, NEW j \in 1 .. N, i < j PROVE Precedes(d[i], d[j])
  <2>1. d[j] \in X /\ \A m \in 1 .. j - 1 : d[j] # r[m - 1][1]
    BY <1>6 DEF LeftOf
  <2>2. d[j] \in LeftOf(X, r, i - 1)
    <3>1. \A m \in 1 .. i - 1 : m \in 1 .. j - 1
      BY <1>7
    <3> QED
      BY <2>1, <3>1 DEF LeftOf
  <2>3. d[j] # d[i]
    <3>1. i \in 1 .. j - 1
      BY <1>7
    <3> QED
      BY <2>1, <3>1, <1>5
  <2> QED
    BY <2>2, <2>3, <1>6
<1>8. \A i \in 1 .. N : d[i] \in X
  BY <1>6 DEF LeftOf
<1>9. d \in Seq(X) /\ Len(d) = N
  BY <1>5, <1>8
<1>10. ASSUME NEW i \in 1 .. N, NEW j \in 1 .. N, d[i] = d[j] PROVE i = j
  <2>1. ~ Precedes(d[i], d[j]) /\ ~ Precedes(d[j], d[i])
    BY <1>8, <1>10 DEF LinedUp
  <2>2. i < j \/ j < i \/ i = j
    OBVIOUS
  <2> QED
    BY <2>1, <2>2, <1>7
<1>11. ASSUME NEW x \in X PROVE \E i \in 1 .. N : d[i] = x
  <2>1. PICK Y : Y = LeftOf(X, r, N)
    OBVIOUS
  <2>2. N \in 0 .. N /\ N - N = 0
    OBVIOUS
  <2>3. r[N] \in Arrays(0, Y)
    BY <2>1, <2>2, <1>3
  <2>4. \A y \in Y : \E i \in 1 .. 0 : r[N][i] = y
    BY <2>3, ArrayFacts
  <2>5. x \notin Y
    BY <2>4
  <2>6. PICK m \in 1 .. N : x = r[m - 1][1]
    BY <2>1, <2>5 DEF LeftOf
  <2> QED
    BY <2>6, <1>5
<1>12. d \in Arrays(N, X)
  BY <1>9, <1>10, <1>11 DEF Arrays
<1>13. InSequence(d, N)
  BY <1>7 DEF InSequence
<1> QED
  BY <1>4, <1>12, <1>13

-----------------------------------------------------------------------------
\* The abstract queue.

\* The abstract queue orders the entries as the comparator does.
LEMMA BeforeIsPrecedes == \A a, b : Ordered!Before(a, b) <=> Precedes(a, b)
  BY DEF Ordered!Before, Precedes

\* It counts as this module does.
LEMMA SameCardinality == \A S : Ordered!Cardinality(S) = Cardinality(S)
  BY DEF Ordered!Cardinality, Cardinality, Ordered!IsFiniteSet, IsFiniteSet

\* The first M elements of d.
Firsts(d, M) == {d[i] : i \in 1 .. M}

\* M different elements make a set of M.
LEMMA ElementsCounted ==
    ASSUME NEW M \in Nat, NEW d, \A i, j \in 1 .. M : d[i] = d[j] => i = j
    PROVE  Cardinality(Firsts(d, M)) = M
<1> DEFINE T == {d[i] : i \in 1 .. M}
           f == [i \in 1 .. M |-> d[i]]
<1>1. f \in Bijection(1 .. M, T)
  <2>1. f \in [1 .. M -> T]
    OBVIOUS
  <2>2. \A i, j \in 1 .. M : f[i] = f[j] => i = j
    OBVIOUS
  <2>3. \A t \in T : \E i \in 1 .. M : f[i] = t
    OBVIOUS
  <2> HIDE DEF f, T
  <2> QED
    BY <2>1, <2>2, <2>3 DEF Bijection, Injection, Surjection, IsInjective
<1>2. ExistsBijection(1 .. M, T)
  <2> HIDE DEF f, T
  <2> QED
    BY <1>1 DEF ExistsBijection
<1>3. IsFiniteSet(1 .. M) /\ Cardinality(1 .. M) = M
  BY FS_Interval
<1> HIDE DEF T
<1>4. Cardinality(T) = M
  BY <1>2, <1>3, FS_Bijection
<1> QED
  BY <1>4 DEF T, Firsts

\* An array in order is the order of its entries: the entries before number i
\* are the i - 1 earlier ones.
LEMMA SequenceIsInOrder ==
    ASSUME NEW N \in Nat, NEW X, LinedUp(X), NEW d \in Arrays(N, X), InSequence(d, N)
    PROVE  Cardinality(X) = N /\ Ordered!InOrder(X) = d
<1>1. /\ d \in Seq(X) /\ Len(d) = N /\ DOMAIN d = 1 .. N
      /\ \A i \in 1 .. N : d[i] \in X
      /\ \A i, j \in 1 .. N : d[i] = d[j] => i = j
      /\ \A x \in X : \E i \in 1 .. N : d[i] = x
  BY ArrayFacts
<1>2. X = Firsts(d, N)
  BY <1>1 DEF Firsts
<1>3. Cardinality(X) = N
  <2>1. Cardinality(Firsts(d, N)) = N
    BY <1>1, ElementsCounted
  <2> QED
    BY <1>2, <2>1
<1> DEFINE Earlier(e) == {f \in X : Ordered!Before(f, e)}
<1>4. ASSUME NEW i \in 1 .. N PROVE Ordered!Cardinality(Earlier(d[i])) = i - 1
  <2>1. PICK M \in Nat : M = i - 1
    OBVIOUS
  <2>2. Earlier(d[i]) = Firsts(d, M)
    <3>1. ASSUME NEW j \in 1 .. N PROVE Precedes(d[j], d[i]) <=> j \in 1 .. M
      <4>1. CASE j < i
        BY <4>1, <2>1 DEF InSequence
      <4>2. CASE j = i
        BY <4>2, <2>1, ArrayOrder
      <4>3. CASE i < j
        <5>1. Precedes(d[i], d[j])
          BY <4>3 DEF InSequence
        <5>2. ~ Precedes(d[j], d[i])
          BY <5>1, ArrayOrder
        <5> QED
          BY <4>3, <5>2, <2>1
      <4> QED
        BY <4>1, <4>2, <4>3
    <3>2. \A j \in 1 .. M : j \in 1 .. N
      BY <2>1
    <3> QED
      BY <3>1, <3>2, <1>1, BeforeIsPrecedes DEF Firsts
  <2>3. \A j, k \in 1 .. M : d[j] = d[k] => j = k
    BY <2>1, <1>1
  <2>4. Cardinality(Firsts(d, M)) = M
    BY <2>1, <2>3, ElementsCounted
  <2> QED
    BY <2>1, <2>2, <2>4, SameCardinality
<1> DEFINE Nth(i) == CHOOSE e \in X : Ordered!Cardinality(Earlier(e)) = i - 1
<1>5. ASSUME NEW i \in 1 .. N PROVE Nth(i) = d[i]
  <2>1. ASSUME NEW e \in X, Ordered!Cardinality(Earlier(e)) = i - 1 PROVE e = d[i]
    <3>1. PICK j \in 1 .. N : d[j] = e
      BY <1>1
    <3>2. Ordered!Cardinality(Earlier(e)) = j - 1
      BY <3>1, <1>4
    <3>3. j = i
      BY <3>2, <2>1
    <3> QED
      BY <3>1, <3>3
  <2>2. d[i] \in X /\ Ordered!Cardinality(Earlier(d[i])) = i - 1
    BY <1>1, <1>4
  <2> HIDE DEF Earlier
  <2> QED
    BY <2>1, <2>2
<1>6. Ordered!InOrder(X) = [i \in 1 .. N |-> Nth(i)]
  <2>1. Ordered!InOrder(X) = [i \in 1 .. Ordered!Cardinality(X) |-> Nth(i)]
    BY DEF Ordered!InOrder
  <2>2. Ordered!Cardinality(X) = N
    BY <1>3, SameCardinality
  <2> HIDE DEF Nth
  <2> QED
    BY <2>1, <2>2, Zenon
<1>7. [i \in 1 .. N |-> Nth(i)] = [i \in 1 .. N |-> d[i]]
  <2> HIDE DEF Nth
  <2> QED
    BY <1>5
<1>8. [i \in 1 .. N |-> d[i]] = d
  BY <1>1
<1> HIDE DEF Nth
<1> QED
  BY <1>3, <1>6, <1>7, <1>8

-----------------------------------------------------------------------------
\* The operations, on a heap h of the entries X when q have been offered.

\* The heap holds N entries in heap order, within the capacity, and all of them
\* were offered at different times before now.
HeapState(h, X, q, N) ==
    /\ h \in Arrays(N, X) /\ HeapOrdered(h, N)
    /\ N <= queueSize
    /\ X \in SUBSET QueueEntry
    /\ \A a \in X : a.insertSeq < q
    /\ \A a, b \in X : a.insertSeq = b.insertSeq => a = b

\* The entries of a heap are lined up, and drain would hand them out in order.
LEMMA HeapStateInOrder ==
    ASSUME NEW N \in Nat, NEW h, NEW X, NEW q, HeapState(h, X, q, N)
    PROVE  LinedUp(X) /\ Ordered!InOrder(X) = drained(h)
<1>1. LinedUp(X)
  BY DistinctLinedUp DEF HeapState
<1>2. drained(h) \in Arrays(N, X) /\ InSequence(drained(h), N)
  BY <1>1, DrainedInSequence DEF HeapState
<1> QED
  BY <1>1, <1>2, SequenceIsInOrder

\* An entry that all others precede is one of the least urgent.
LEMMA LastIsLeastUrgent ==
    ASSUME NEW Z \in SUBSET QueueEntry, NEW l \in Z,
           \A x \in Z : x # l => Precedes(x, l)
    PROVE  l \in Ordered!LeastUrgent(Z)
<1>1. ASSUME NEW x \in Z PROVE x.priority <= l.priority
  <2>1. x.priority \in Int /\ l.priority \in Int
    BY QueueAssumption DEF QueueEntry
  <2>2. CASE x = l
    BY <2>1, <2>2
  <2>3. CASE x # l
    <3>1. Precedes(x, l)
      BY <2>3
    <3> QED
      BY <2>1, <3>1 DEF Precedes
  <2> QED
    BY <2>2, <2>3
<1> QED
  BY <1>1 DEF Ordered!LeastUrgent

\* The entry that enqueue makes is new to the queue and can be lined up with it.
LEMMA NewEntry ==
    ASSUME NEW N \in Nat, NEW h, NEW X, NEW q \in 0 .. MaxSeq - 1, HeapState(h, X, q, N),
           NEW value \in Values, NEW priority \in Priorities,
           NEW e, e = [priority |-> priority, value |-> value, insertSeq |-> q]
    PROVE  /\ e \notin X /\ e.insertSeq = q
           /\ X \cup {e} \in SUBSET QueueEntry
           /\ \A a \in X \cup {e} : a.insertSeq < q + 1
           /\ \A a, b \in X \cup {e} : a.insertSeq = b.insertSeq => a = b
           /\ LinedUp(X \cup {e})
<1>1. /\ X \in SUBSET QueueEntry
      /\ \A a \in X : a.insertSeq < q
      /\ \A a, b \in X : a.insertSeq = b.insertSeq => a = b
  BY DEF HeapState
<1>2. e.insertSeq = q /\ MaxSeq \in Nat
  BY QueueAssumption
<1>3. \A a \in X : a.insertSeq \in Int /\ a.insertSeq # q
  <2>1. \A a \in X : a.insertSeq \in 0 .. MaxSeq
    BY <1>1 DEF QueueEntry
  <2> QED
    BY <1>1, <1>2, <2>1
<1>4. e \notin X
  BY <1>2, <1>3
<1>5. e \in QueueEntry
  BY <1>2 DEF QueueEntry
<1>6. X \cup {e} \in SUBSET QueueEntry
  BY <1>1, <1>5
<1>7. \A a \in X \cup {e} : a.insertSeq < q + 1
  BY <1>1, <1>2, <1>3
<1>8. \A a, b \in X \cup {e} : a.insertSeq = b.insertSeq => a = b
  BY <1>1, <1>2, <1>3
<1>9. LinedUp(X \cup {e})
  BY <1>6, <1>8, DistinctLinedUp
<1> QED
  BY <1>2, <1>4, <1>6, <1>7, <1>8, <1>9

\* The heap that enqueue leaves.
enqueued(h, e) ==
    IF Len(h) < queueSize THEN push(h, e)
    ELSE IF ~ Precedes(e, h[findMaxIndex(h)]) THEN h
    ELSE push(buildHeap(RemoveAt(h, findMaxIndex(h))), e)

\* What enqueue lets go.
letGo(h, e) ==
    IF Len(h) < queueSize THEN <<>>
    ELSE IF ~ Precedes(e, h[findMaxIndex(h)]) THEN <<e>>
    ELSE <<h[findMaxIndex(h)]>>

\* The ordered queue may keep the entries Y, and let o go, when it is offered Z.
Kept(Z, Y, o) ==
    \/ Ordered!Cardinality(Z) <= queueSize /\ Y = Z /\ o = <<>>
    \/ /\ Ordered!Cardinality(Z) > queueSize
       /\ \E gone \in Ordered!LeastUrgent(Z) : Y = Z \ {gone} /\ o = <<gone>>

\* enqueue leaves the entries it had and the new one, without the last in order
\* if they are too many, in heap order.
LEMMA EnqueueStep ==
    ASSUME NEW N \in Nat, NEW h, NEW X, NEW q \in 0 .. MaxSeq - 1, HeapState(h, X, q, N),
           NEW value \in Values, NEW priority \in Priorities,
           NEW e, e = [priority |-> priority, value |-> value, insertSeq |-> q]
    PROVE  \E M \in Nat : \E Y :
              HeapState(enqueued(h, e), Y, q + 1, M) /\ Kept(X \cup {e}, Y, letGo(h, e))
<1>1. /\ h \in Arrays(N, X) /\ HeapOrdered(h, N) /\ N <= queueSize
      /\ queueSize \in Nat /\ queueSize # 0
      /\ Len(h) = N
  BY ArrayFacts, QueueAssumption DEF HeapState
<1>2. PICK Z : Z = X \cup {e}
  OBVIOUS
<1>3. /\ e \notin X
      /\ Z \in SUBSET QueueEntry
      /\ \A a \in Z : a.insertSeq < q + 1
      /\ \A a, b \in Z : a.insertSeq = b.insertSeq => a = b
      /\ LinedUp(Z)
  BY <1>2, NewEntry
<1>4. LinedUp(X)
  BY HeapStateInOrder
<1>5. PICK K \in Nat : K = N + 1 /\ K - 1 = N
  OBVIOUS
<1>6. push(h, e) \in Arrays(K, Z) /\ HeapOrdered(push(h, e), K)
  BY <1>1, <1>2, <1>3, <1>5, PushOrders
<1>7. PICK d : d = drained(push(h, e))
  OBVIOUS
<1>8. d \in Arrays(K, Z) /\ InSequence(d, K)
  BY <1>3, <1>5, <1>6, <1>7, DrainedInSequence
<1>9. Ordered!Cardinality(Z) = K
  <2>1. Cardinality(Z) = K
    BY <1>3, <1>5, <1>8, SequenceIsInOrder
  <2> QED
    BY <2>1, SameCardinality
<1>10. PICK m : m = findMaxIndex(h)
  OBVIOUS
<1>11. CASE N < queueSize
  <2>1. enqueued(h, e) = push(h, e) /\ letGo(h, e) = <<>>
    BY <1>1, <1>11 DEF enqueued, letGo
  <2>2. HeapState(enqueued(h, e), Z, q + 1, K)
    BY <2>1, <1>1, <1>3, <1>5, <1>6, <1>11 DEF HeapState
  <2>3. Kept(Z, Z, letGo(h, e))
    BY <2>1, <1>1, <1>5, <1>9, <1>11 DEF Kept
  <2> QED
    BY <2>2, <2>3, <1>2, <1>5
<1>12. CASE ~ (N < queueSize)
  <2>1. N = queueSize /\ N > 0
    BY <1>1, <1>12
  <2>2. m \in 1 .. N /\ \A i \in 1 .. N : i # m => Precedes(h[i], h[m])
    BY <2>1, <1>1, <1>4, <1>10, MaxIndexLast
  <2>3. h[m] \in X /\ \A x \in X : x # h[m] => Precedes(x, h[m])
    <3>1. h[m] \in X /\ \A x \in X : \E i \in 1 .. N : h[i] = x
      BY <2>2, <1>1, ArrayFacts
    <3> QED
      BY <3>1, <2>2
  <2>4. ASSUME NEW l \in Z, \A x \in Z : x # l => Precedes(x, l)
        PROVE  Kept(Z, Z \ {l}, <<l>>)
    <3>1. l \in Ordered!LeastUrgent(Z)
      BY <2>4, <1>3, LastIsLeastUrgent
    <3>2. Ordered!Cardinality(Z) > queueSize
      BY <2>1, <1>1, <1>5, <1>9
    <3> QED
      BY <3>1, <3>2 DEF Kept
  <2>5. CASE ~ Precedes(e, h[m])
    <3>1. enqueued(h, e) = h /\ letGo(h, e) = <<e>>
      BY <2>5, <1>1, <1>10, <1>12 DEF enqueued, letGo
    <3>2. ASSUME NEW x \in Z, x # e PROVE Precedes(x, e)
      <4>1. x \in X /\ h[m] \in Z /\ e \in Z /\ h[m] # e
        BY <3>2, <2>3, <1>2, <1>3
      <4>2. Precedes(h[m], e)
        BY <4>1, <2>5, <1>3 DEF LinedUp
      <4>3. CASE x = h[m]
        BY <4>2, <4>3
      <4>4. CASE x # h[m]
        <5>1. Precedes(x, h[m])
          BY <4>1, <4>4, <2>3
        <5> QED
          BY <5>1, <4>1, <4>2, <1>3 DEF LinedUp
      <4> QED
        BY <4>3, <4>4
    <3>3. X = Z \ {e} /\ e \in Z
      BY <1>2, <1>3
    <3>4. Kept(Z, X, letGo(h, e))
      BY <3>1, <3>2, <3>3, <2>4
    <3>5. HeapState(enqueued(h, e), X, q + 1, N)
      <4>1. X \in SUBSET Z
        BY <3>3
      <4> QED
        BY <4>1, <3>1, <1>1, <1>3 DEF HeapState
    <3> QED
      BY <3>4, <3>5, <1>2
  <2>6. CASE Precedes(e, h[m])
    <3>1. PICK L \in Nat : L = N - 1 /\ L + 1 = N
      BY <2>1
    <3>2. PICK W : W = X \ {h[m]}
      OBVIOUS
    <3>3. PICK g : g = buildHeap(RemoveAt(h, m))
      OBVIOUS
    <3>4. enqueued(h, e) = push(g, e) /\ letGo(h, e) = <<h[m]>>
      BY <3>3, <2>6, <1>1, <1>10, <1>12 DEF enqueued, letGo
    <3>5. RemoveAt(h, m) \in Arrays(L, W)
      BY <3>1, <3>2, <2>2, <1>1, RemoveArray
    <3>6. LinedUp(W)
      BY <3>2, <1>4, LinedUpSubset
    <3>7. g \in Arrays(L, W) /\ HeapOrdered(g, L)
      BY <3>1, <3>3, <3>5, <3>6, BuildHeapOrders
    <3>8. e \notin W /\ W \cup {e} = Z \ {h[m]} /\ W \cup {e} \in SUBSET Z
      BY <3>2, <2>3, <1>2, <1>3
    <3>9. LinedUp(W \cup {e})
      BY <3>8, <1>3, LinedUpSubset
    <3>10. push(g, e) \in Arrays(L + 1, W \cup {e}) /\ HeapOrdered(push(g, e), L + 1)
      BY <3>1, <3>7, <3>8, <3>9, PushOrders
    <3>11. h[m] \in Z /\ \A x \in Z : x # h[m] => Precedes(x, h[m])
      BY <2>3, <2>6, <1>2
    <3>12. Kept(Z, Z \ {h[m]}, <<h[m]>>)
      BY <3>11, <2>4
    <3>13. HeapState(enqueued(h, e), W \cup {e}, q + 1, N)
      BY <3>1, <3>4, <3>8, <3>10, <1>1, <1>3 DEF HeapState
    <3>14. Kept(Z, W \cup {e}, letGo(h, e))
      BY <3>4, <3>8, <3>12
    <3> QED
      BY <3>13, <3>14, <1>2
  <2> QED
    BY <2>5, <2>6
<1> QED
  BY <1>11, <1>12

\* The entries of an array, and their number.
LEMMA ArrayToSet ==
    ASSUME NEW N \in Nat, NEW X, NEW h \in Arrays(N, X)
    PROVE  ToSet(h) = X /\ Len(h) = N
<1>1. /\ Len(h) = N /\ DOMAIN h = 1 .. N
      /\ \A i \in 1 .. N : h[i] \in X
      /\ \A x \in X : \E i \in 1 .. N : h[i] = x
  BY ArrayFacts
<1> QED
  BY <1>1 DEF ToSet

\* dequeue hands out the first entry in order and leaves a heap of the others.
LEMMA DequeueStep ==
    ASSUME NEW N \in Nat, N > 0, NEW h, NEW X, NEW q, HeapState(h, X, q, N)
    PROVE  /\ h[1] = Ordered!InOrder(X)[1] /\ h[1] \in X
           /\ HeapState(popped(h), X \ {h[1]}, q, N - 1)
<1>1. /\ h \in Arrays(N, X) /\ HeapOrdered(h, N) /\ N <= queueSize
      /\ queueSize \in Nat /\ Len(h) = N
  BY ArrayFacts, QueueAssumption DEF HeapState
<1>2. LinedUp(X) /\ Ordered!InOrder(X) = drained(h)
  BY HeapStateInOrder
<1>3. drained(h)[1] = h[1]
  <2>1. DrainRun(h)[0] = h
    BY <1>1, <1>2, DrainRunUnfolds
  <2>2. drained(h) = [n \in 1 .. N |-> DrainRun(h)[n - 1][1]]
    BY <1>1 DEF drained, DrainRun
  <2>3. drained(h)[1] = DrainRun(h)[0][1]
    <3>1. 1 \in 1 .. N /\ 1 - 1 = 0
      OBVIOUS
    <3> QED
      BY <2>2, <3>1
  <2> QED
    BY <2>1, <2>3
<1>4. popped(h) \in Arrays(N - 1, X \ {h[1]}) /\ HeapOrdered(popped(h), N - 1)
  BY <1>1, <1>2, PoppedOrders
<1>5. h[1] \in X
  BY <1>1, ArrayFacts
<1>6. HeapState(popped(h), X \ {h[1]}, q, N - 1)
  <2>1. PICK Y : Y = X \ {h[1]}
    OBVIOUS
  <2>2. /\ Y \in SUBSET QueueEntry
        /\ \A a \in Y : a.insertSeq < q
        /\ \A a, b \in Y : a.insertSeq = b.insertSeq => a = b
    BY <2>1 DEF HeapState
  <2>3. N - 1 <= queueSize
    BY <1>1
  <2> QED
    BY <2>1, <2>2, <2>3, <1>4 DEF HeapState
<1> QED
  BY <1>2, <1>3, <1>5, <1>6

\* removeWhere leaves a heap of the entries it keeps.
LEMMA RemoveStep ==
    ASSUME NEW N \in Nat, NEW h, NEW X, NEW q, HeapState(h, X, q, N), NEW T \in SUBSET X
    PROVE  \E M \in Nat : HeapState(buildHeap(filtered(h, T)), T, q, M)
<1>1. /\ h \in Arrays(N, X) /\ N <= queueSize /\ queueSize \in Nat
  BY QueueAssumption DEF HeapState
<1>2. PICK M \in 0 .. N : filtered(h, T) \in Arrays(M, T)
  BY <1>1, FilterArray
<1>3. LinedUp(T)
  BY HeapStateInOrder, LinedUpSubset
<1>4. PICK f : f = filtered(h, T)
  OBVIOUS
<1>5. M \in Nat /\ M <= queueSize
  BY <1>1, <1>2
<1>6. buildHeap(f) \in Arrays(M, T) /\ HeapOrdered(buildHeap(f), M)
  BY <1>2, <1>3, <1>4, <1>5, BuildHeapOrders
<1>7. /\ T \in SUBSET QueueEntry
      /\ \A a \in T : a.insertSeq < q
      /\ \A a, b \in T : a.insertSeq = b.insertSeq => a = b
  BY DEF HeapState
<1>8. HeapState(buildHeap(f), T, q, M)
  BY <1>5, <1>6, <1>7 DEF HeapState
<1> QED
  BY <1>4, <1>5, <1>8

-----------------------------------------------------------------------------
\* The queue's behaviour.

\* The inductive invariant: the array is in heap order, within the capacity, and
\* no two of its entries were offered at the same time.
QueueInv ==
    /\ seq \in 0 .. MaxSeq
    /\ HeapState(heap, ToSet(heap), seq, Len(heap))

\* A heap that an operation leaves, with the entries X, has the invariant's form.
LEMMA LeavesHeap ==
    ASSUME NEW N \in Nat, NEW h, NEW X, NEW q, HeapState(h, X, q, N)
    PROVE  ToSet(h) = X /\ Len(h) = N /\ HeapState(h, ToSet(h), q, Len(h))
<1>1. h \in Arrays(N, X)
  BY DEF HeapState
<1>2. ToSet(h) = X /\ Len(h) = N
  BY <1>1, ArrayToSet
<1> QED
  BY <1>2, Zenon

\* The array is a sequence, so its length is a number.
LEMMA HeapLength ==
    ASSUME QueueInv
    PROVE  Len(heap) \in Nat /\ heap \in Arrays(Len(heap), ToSet(heap))
<1>1. heap \in Arrays(Len(heap), ToSet(heap))
  BY DEF QueueInv, HeapState
<1>2. heap \in Seq(ToSet(heap))
  BY <1>1 DEF Arrays
<1> QED
  BY <1>1, <1>2, LenProperties

\* The empty queue.
LEMMA EmptyHeap ==
    ASSUME NEW q
    PROVE  HeapState(<<>>, {}, q, 0)
<1>1. <<>> \in Seq({}) /\ Len(<<>>) = 0
  OBVIOUS
<1>2. <<>> \in Arrays(0, {})
  BY <1>1 DEF Arrays
<1> QED
  BY <1>2, QueueAssumption DEF HeapState, HeapOrdered

\* An empty array holds nothing.
LEMMA QueueInitOK == QueueInit => QueueInv /\ Ordered!Init
<1>1. SUFFICES ASSUME QueueInit PROVE QueueInv /\ Ordered!Init
  OBVIOUS
<1>2. HeapState(heap, {}, seq, 0)
  BY <1>1, EmptyHeap DEF QueueInit
<1>3. ToSet(heap) = {} /\ HeapState(heap, ToSet(heap), seq, Len(heap))
  BY <1>2, LeavesHeap
<1>4. seq \in 0 .. MaxSeq
  BY <1>1, QueueAssumption DEF QueueInit
<1> QED
  BY <1>1, <1>3, <1>4 DEF QueueInv, QueueInit, Ordered!Init

\* enqueue.
LEMMA EnqueueOK ==
    ASSUME QueueInv, NEW value \in Values, NEW priority \in Priorities,
           enqueue(value, priority)
    PROVE  QueueInv' /\ Ordered!Enqueue(value, priority)
<1>1. PICK e : e = [priority |-> priority, value |-> value, insertSeq |-> seq]
  OBVIOUS
<1>2. /\ seq < MaxSeq /\ seq' = seq + 1
      /\ heap' = enqueued(heap, e) /\ out' = letGo(heap, e)
  BY <1>1, HeapLength, QueueAssumption DEF enqueue, enqueued, letGo
<1>3. seq \in 0 .. MaxSeq - 1 /\ seq' \in 0 .. MaxSeq
  BY <1>2, QueueAssumption DEF QueueInv
<1>4. PICK N \in Nat : N = Len(heap)
  BY HeapLength
<1>5. PICK X : X = ToSet(heap)
  OBVIOUS
<1>6. HeapState(heap, X, seq, N)
  BY <1>4, <1>5 DEF QueueInv
<1>7. PICK M \in Nat : \E Y :
         /\ HeapState(enqueued(heap, e), Y, seq + 1, M)
         /\ Kept(X \cup {e}, Y, letGo(heap, e))
  BY <1>1, <1>3, <1>4, <1>6, EnqueueStep
<1>8. PICK Y : /\ HeapState(enqueued(heap, e), Y, seq + 1, M)
               /\ Kept(X \cup {e}, Y, letGo(heap, e))
  BY <1>7
<1>9. HeapState(heap', Y, seq', M) /\ M \in Nat
  BY <1>2, <1>8
<1>10. ToSet(heap') = Y /\ HeapState(heap', ToSet(heap'), seq', Len(heap'))
  BY <1>9, LeavesHeap
<1>11. QueueInv'
  BY <1>3, <1>10 DEF QueueInv
<1>12. Ordered!Enqueue(value, priority)
  BY <1>1, <1>2, <1>5, <1>8, <1>10 DEF Ordered!Enqueue, Kept
<1> QED
  BY <1>11, <1>12

\* dequeue.
LEMMA DequeueOK ==
    ASSUME QueueInv, dequeue
    PROVE  QueueInv' /\ Ordered!Dequeue
<1>1. heap # <<>> /\ out' = <<heap[1]>> /\ heap' = popped(heap) /\ seq' = seq
  BY DEF dequeue
<1>2. PICK N \in Nat : N = Len(heap)
  BY HeapLength
<1>3. PICK X : X = ToSet(heap)
  OBVIOUS
<1>4. HeapState(heap, X, seq, N) /\ seq \in 0 .. MaxSeq
  BY <1>2, <1>3 DEF QueueInv
<1>5. N > 0
  <2>1. heap \in Seq(ToSet(heap))
    BY HeapLength DEF Arrays
  <2> QED
    BY <2>1, <1>1, <1>2, EmptySeq
<1>6. PICK M \in Nat : M = N - 1
  BY <1>5
<1>7. PICK x : x = heap[1]
  OBVIOUS
<1>8. PICK Y : Y = X \ {x}
  OBVIOUS
<1>9. x = Ordered!InOrder(X)[1] /\ x \in X /\ HeapState(popped(heap), Y, seq, M)
  BY <1>4, <1>5, <1>6, <1>7, <1>8, DequeueStep
<1>10. HeapState(heap', Y, seq', M)
  BY <1>1, <1>9
<1>11. ToSet(heap') = Y /\ HeapState(heap', ToSet(heap'), seq', Len(heap'))
  BY <1>6, <1>10, LeavesHeap
<1>12. QueueInv'
  BY <1>1, <1>4, <1>11 DEF QueueInv
<1>13. Ordered!Dequeue
  <2>1. ToSet(heap) # {}
    BY <1>3, <1>9
  <2>2. out' = <<Ordered!InOrder(ToSet(heap))[1]>>
    BY <1>1, <1>3, <1>7, <1>9
  <2>3. ToSet(heap') = ToSet(heap) \ {Ordered!InOrder(ToSet(heap))[1]}
    BY <1>3, <1>8, <1>9, <1>11
  <2> QED
    BY <2>1, <2>2, <2>3, <1>1 DEF Ordered!Dequeue
<1> QED
  BY <1>12, <1>13

\* drain.
LEMMA DrainOK ==
    ASSUME QueueInv, drain
    PROVE  QueueInv' /\ Ordered!Drain
<1>1. out' = drained(heap) /\ heap' = <<>> /\ seq' = seq
  BY DEF drain
<1>2. Ordered!InOrder(ToSet(heap)) = drained(heap)
  BY HeapLength, HeapStateInOrder DEF QueueInv
<1>3. HeapState(heap', {}, seq', 0)
  BY <1>1, EmptyHeap
<1>4. ToSet(heap') = {} /\ HeapState(heap', ToSet(heap'), seq', Len(heap'))
  BY <1>3, LeavesHeap
<1>5. QueueInv'
  BY <1>1, <1>4 DEF QueueInv
<1>6. Ordered!Drain
  BY <1>1, <1>2, <1>4 DEF Ordered!Drain
<1> QED
  BY <1>5, <1>6

\* removeWhere.
LEMMA RemoveWhereOK ==
    ASSUME QueueInv, NEW values \in SUBSET Values, removeWhere(values)
    PROVE  QueueInv' /\ Ordered!RemoveWhere(values)
<1>1. PICK T : T = {e \in ToSet(heap) : e.value \notin values}
  OBVIOUS
<1>2. heap' = buildHeap(filtered(heap, T)) /\ out' = <<>> /\ seq' = seq
  BY <1>1 DEF removeWhere
<1>3. PICK N \in Nat : N = Len(heap)
  BY HeapLength
<1>4. PICK X : X = ToSet(heap)
  OBVIOUS
<1>5. HeapState(heap, X, seq, N) /\ seq \in 0 .. MaxSeq
  BY <1>3, <1>4 DEF QueueInv
<1>6. T \in SUBSET X
  BY <1>1, <1>4
<1>7. PICK M \in Nat : HeapState(buildHeap(filtered(heap, T)), T, seq, M)
  BY <1>5, <1>6, RemoveStep
<1>8. HeapState(heap', T, seq', M)
  BY <1>2, <1>7
<1>9. ToSet(heap') = T /\ HeapState(heap', ToSet(heap'), seq', Len(heap'))
  BY <1>7, <1>8, LeavesHeap
<1>10. QueueInv'
  BY <1>2, <1>5, <1>9 DEF QueueInv
<1>11. Ordered!RemoveWhere(values)
  BY <1>1, <1>2, <1>9 DEF Ordered!RemoveWhere
<1> QED
  BY <1>10, <1>11

\* Every step of the queue keeps the invariant and is a step of the ordered
\* queue, or changes nothing that the ordered queue sees.
LEMMA QueueStepOK ==
    QueueInv /\ [QueueNext]_queueVars => QueueInv' /\ [Ordered!Next]_Ordered!orderedVars
<1>1. SUFFICES ASSUME QueueInv, [QueueNext]_queueVars
               PROVE  QueueInv' /\ [Ordered!Next]_Ordered!orderedVars
  OBVIOUS
<1>2. CASE \E value \in Values, priority \in Priorities : enqueue(value, priority)
  BY <1>1, <1>2, EnqueueOK DEF Ordered!Next
<1>3. CASE dequeue
  BY <1>1, <1>3, DequeueOK DEF Ordered!Next
<1>4. CASE drain
  BY <1>1, <1>4, DrainOK DEF Ordered!Next
<1>5. CASE \E values \in SUBSET Values : removeWhere(values)
  BY <1>1, <1>5, RemoveWhereOK DEF Ordered!Next
<1>6. CASE UNCHANGED queueVars
  BY <1>1, <1>6 DEF queueVars, QueueInv, Ordered!orderedVars
<1> QED
  BY <1>1, <1>2, <1>3, <1>4, <1>5, <1>6 DEF QueueNext

\* The array stays in heap order, holds at most queueSize entries and no entry
\* twice, whatever sequence of insertions, evictions, removals and extractions
\* it has been through: _siftUp, _siftDown, _buildHeap and _findMaxIndex are
\* right for every array length.
THEOREM HeapStaysOrdered == QueueSpec => []QueueInv
<1>1. QueueInit => QueueInv
  BY QueueInitOK
<1>2. QueueInv /\ [QueueNext]_queueVars => QueueInv'
  BY QueueStepOK
<1> QED
  BY <1>1, <1>2, PTL DEF QueueSpec

\* The invariant bounds the array and types its entries.
LEMMA QueueInvType == QueueInv => QueueTypeOK
<1>1. SUFFICES ASSUME QueueInv PROVE QueueTypeOK
  OBVIOUS
<1>2. heap \in Seq(ToSet(heap))
  BY <1>1, HeapLength DEF Arrays
<1>3. ToSet(heap) \subseteq QueueEntry /\ Len(heap) <= queueSize /\ seq \in 0 .. MaxSeq
  BY <1>1 DEF QueueInv, HeapState
<1>4. heap \in Seq(QueueEntry)
  BY <1>2, <1>3
<1> QED
  BY <1>3, <1>4 DEF QueueTypeOK, QueueEntry

\* Type correctness of the queue, with its bound on the array.
THEOREM QueueTypeCorrect == QueueSpec => []QueueTypeOK
  BY QueueInvType, HeapStaysOrdered, PTL

\* The heap implements the ordered queue: dequeue and drain hand the entries out
\* by priority and then by arrival, an overflow evicts one of the least urgent
\* entries or drops the new one if it is one of them, and removeWhere keeps the
\* others.
THEOREM HeapRefinesOrderedQueue == QueueSpec => HeapImplementsOrderedQueue
<1>1. QueueInit => Ordered!Init
  BY QueueInitOK
<1>2. QueueInv /\ [QueueNext]_queueVars => [Ordered!Next]_Ordered!orderedVars
  BY QueueStepOK
<1> QED
  BY <1>1, <1>2, HeapStaysOrdered, PTL DEF QueueSpec, HeapImplementsOrderedQueue, Ordered!Spec

=============================================================================
