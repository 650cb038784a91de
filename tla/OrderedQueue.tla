---------------------------- MODULE OrderedQueue ----------------------------
(***************************************************************************)
(* What the priority queue promises, without a heap: a bounded set of      *)
(* entries that are handed out in the order of their priorities and, among *)
(* equals, first come first served.  When it is full, one of the least     *)
(* urgent entries goes, or the new one if it is among them; which of them  *)
(* is left open.                                                           *)
(***************************************************************************)
EXTENDS Integers, FiniteSets, Sequences

CONSTANTS Values, Priorities, queueSize, MaxSeq

VARIABLES
    entries,  \* the set of entries that wait
    arrived,  \* how many were ever offered
    out       \* the entries the last operation handed out or let go

orderedVars == <<entries, arrived, out>>

Before(a, b) ==
    a.priority < b.priority \/ (a.priority = b.priority /\ a.insertSeq < b.insertSeq)

\* The entries of S in order.
InOrder(S) ==
    [i \in 1 .. Cardinality(S) |->
        CHOOSE e \in S : Cardinality({f \in S : Before(f, e)}) = i - 1]

Init ==
    /\ entries = {}
    /\ arrived = 0
    /\ out = <<>>

\* The entries of S with the highest priority value.
LeastUrgent(S) == {e \in S : \A f \in S : f.priority <= e.priority}

Enqueue(value, priority) ==
    LET entry   == [priority |-> priority, value |-> value, insertSeq |-> arrived]
        offered == entries \cup {entry}
    IN  /\ arrived < MaxSeq
        /\ arrived' = arrived + 1
        /\ \/ /\ Cardinality(offered) <= queueSize
              /\ entries' = offered
              /\ out' = <<>>
           \/ /\ Cardinality(offered) > queueSize
              /\ \E gone \in LeastUrgent(offered) :
                    /\ entries' = offered \ {gone}
                    /\ out' = <<gone>>

Dequeue ==
    /\ entries # {}
    /\ out' = <<InOrder(entries)[1]>>
    /\ entries' = entries \ {InOrder(entries)[1]}
    /\ UNCHANGED arrived

Drain ==
    /\ out' = InOrder(entries)
    /\ entries' = {}
    /\ UNCHANGED arrived

RemoveWhere(values) ==
    /\ entries' = {e \in entries : e.value \notin values}
    /\ out' = <<>>
    /\ UNCHANGED arrived

Next ==
    \/ \E value \in Values, priority \in Priorities : Enqueue(value, priority)
    \/ Dequeue
    \/ Drain
    \/ \E values \in SUBSET Values : RemoveWhere(values)

Spec == Init /\ [][Next]_orderedVars

=============================================================================
