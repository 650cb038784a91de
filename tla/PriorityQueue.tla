--------------------------- MODULE PriorityQueue ---------------------------
(***************************************************************************)
(* PriorityQueue (src/common/utils/priority-queue.util.js): a binary       *)
(* min-heap in an array, with the default comparator.  Index i of the      *)
(* sequence is index i - 1 of the array.  OrderedQueue says what it is     *)
(* for; peek, size and metrics read the heap and change nothing.           *)
(***************************************************************************)
EXTENDS Integers, Sequences, SequencesExt, Loops

CONSTANTS
    Values, Priorities,
    queueSize,   \* _maxSize
    MaxSeq       \* bound: entries offered in one behaviour

ASSUME QueueAssumption ==
    /\ Priorities \subseteq Int
    /\ queueSize \in Nat \ {0}
    /\ MaxSeq \in Nat

VARIABLES
    heap,   \* _heap
    seq,    \* _seq
    out     \* the entries the last operation handed out or let go

queueVars == <<heap, seq, out>>

QueueTypeOK ==
    /\ heap \in Seq([priority : Priorities, value : Values, insertSeq : 0 .. MaxSeq])
    /\ Len(heap) <= queueSize
    /\ seq \in 0 .. MaxSeq

QueueInit ==
    /\ heap = <<>>
    /\ seq = 0
    /\ out = <<>>

\* _comparator(a, b) < 0
Precedes(a, b) ==
    a.priority < b.priority \/ (a.priority = b.priority /\ a.insertSeq < b.insertSeq)

swapped(h, i, j) == [h EXCEPT ![i] = h[j], ![j] = h[i]]

\* One round of _siftUp, on the array and the index it has come to; a round
\* that would break changes nothing.
rise(s, n) ==
    LET parent == s.idx \div 2 IN
    IF s.idx > 1 /\ Precedes(s.array[s.idx], s.array[parent])
    THEN [array |-> swapped(s.array, s.idx, parent), idx |-> parent]
    ELSE s

siftUp(h, i) == Rounds(rise, [array |-> h, idx |-> i], Len(h))[Len(h)].array

\* The index, among i and its children, of the entry that precedes the others.
smallest(h, i) ==
    LET family == {i, 2 * i, 2 * i + 1} \cap DOMAIN h
    IN  CHOOSE j \in family : \A k \in family \ {j} : Precedes(h[j], h[k])

\* One round of _siftDown.
sink(s, n) ==
    LET j == smallest(s.array, s.idx)
    IN  IF j = s.idx THEN s ELSE [array |-> swapped(s.array, s.idx, j), idx |-> j]

siftDown(h, i) == Rounds(sink, [array |-> h, idx |-> i], Len(h))[Len(h)].array

\* _buildHeap: from the last parent back to the root.
buildHeap(h) ==
    LET parents == Len(h) \div 2
        heapify(g, n) == siftDown(g, parents + 1 - n)
    IN  Rounds(heapify, h, parents)[parents]

\* Mutant: the last element of the array is taken for the worst.
findLastIndex(h) == Len(h)

\* _findMaxIndex: only a leaf can come last in the order.
findMaxIndex(h) ==
    LET leaves == Len(h) \div 2 + 1 .. Len(h)
    IN  CHOOSE i \in leaves : \A j \in leaves : ~ Precedes(h[i], h[j])

push(h, entry) == siftUp(Append(h, entry), Len(h) + 1)

\* On overflow the worst entry is evicted, or the new one dropped.
enqueue(value, priority) ==
    LET entry == [priority |-> priority, value |-> value, insertSeq |-> seq]
        worst == findMaxIndex(heap)
    IN  /\ seq < MaxSeq
        /\ seq' = seq + 1
        /\ \/ /\ Len(heap) < queueSize
              /\ heap' = push(heap, entry)
              /\ out' = <<>>
           \/ /\ Len(heap) >= queueSize
              /\ Precedes(entry, heap[worst])
              /\ heap' = push(buildHeap(RemoveAt(heap, worst)), entry)
              /\ out' = <<heap[worst]>>
           \/ /\ Len(heap) >= queueSize
              /\ ~ Precedes(entry, heap[worst])
              /\ heap' = heap
              /\ out' = <<entry>>

\* The heap without its root.
popped(h) ==
    IF Len(h) <= 1 THEN <<>>
    ELSE siftDown([Front(h) EXCEPT ![1] = Last(h)], 1)

dequeue ==
    /\ heap # <<>>
    /\ out' = <<heap[1]>>
    /\ heap' = popped(heap)
    /\ UNCHANGED seq

\* The roots of the heaps that dequeue leaves one after another.
drained(h) ==
    LET pop(g, n) == popped(g)
    IN  [n \in 1 .. Len(h) |-> Rounds(pop, h, Len(h))[n - 1][1]]

drain ==
    /\ out' = drained(heap)
    /\ heap' = <<>>
    /\ UNCHANGED seq

\* The predicate is the set of values it holds of.
removeWhere(values) ==
    /\ heap' = buildHeap(filtered(heap, {e \in ToSet(heap) : e.value \notin values}))
    /\ out' = <<>>
    /\ UNCHANGED seq

QueueNext ==
    \/ \E value \in Values, priority \in Priorities : enqueue(value, priority)
    \/ dequeue
    \/ drain
    \/ \E values \in SUBSET Values : removeWhere(values)

QueueSpec == QueueInit /\ [][QueueNext]_queueVars

-----------------------------------------------------------------------------
Ordered == INSTANCE OrderedQueue WITH entries <- ToSet(heap), arrived <- seq

\* Whatever sequence of insertions, evictions, removals and extractions the
\* heap has been through, entries leave it in order, and on overflow one of
\* "the highest priority value" (priority-queue.util.js:75) goes, the new one
\* included.  Which one of several is not stated: the constructor's comment has
\* the oldest evicted, and _findMaxIndex finds the newest.
HeapImplementsOrderedQueue == Ordered!Spec

=============================================================================
