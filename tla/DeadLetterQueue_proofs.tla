----------------------- MODULE DeadLetterQueue_proofs -----------------------
(***************************************************************************)
(* Proofs about DeadLetterQueue for any number of messages, operators and  *)
(* sweepers whose passes overlap, and any limit on retries and capacity.   *)
(*                                                                         *)
(* A letter is handed out before its failure is counted, so that its       *)
(* deliveries run ahead of its attempts: by the one that is under way, if  *)
(* no two ever were.  And a letter that is due is not poison yet, whatever *)
(* happened since its pass began.                                          *)
(***************************************************************************)
EXTENDS DeadLetterQueue, SequenceTheorems, TLAPS

Letter == [id : Messages, attempts : 1 .. maxRetries, wait : 0 .. maxWait]

\* Somebody has m in hand when f tells what each one has.
InHand(f, m) == \E d \in Sweepers \cup Operators : f[d] = m

\* The deliveries of a letter, which tr counts, against its attempts, unless it
\* is one of those in con.
Accounted(letter, tr, f, con) ==
    letter.id \notin con =>
        /\ tr[letter.id] <= maxRetries - 1
        /\ \/ tr[letter.id] <= letter.attempts - 1
           \/ tr[letter.id] <= letter.attempts /\ InHand(f, letter.id)

\* The keys of a Map are distinct.
Distinct(list) == \A i, j \in DOMAIN list : list[i].id = list[j].id => i = j

\* What is due is not poison.
DueSound ==
    \A s \in Sweepers, i \in DOMAIN letters :
        letters[i].id \in due[s] => letters[i].attempts < maxRetries

AllAccounted ==
    \A i \in DOMAIN letters : Accounted(letters[i], tries, sending, contended)

DlqInv ==
    /\ DlqTypeOK
    /\ Distinct(letters)
    /\ DueSound
    /\ AllAccounted

-----------------------------------------------------------------------------
(* One letter. *)

\* A failure counts one attempt, whoever puts the letter down.
LEMMA AccountedRenewed ==
    ASSUME NEW old \in Letter, NEW new \in Letter, new.id = old.id,
           new.attempts = IF old.attempts < maxRetries THEN old.attempts + 1
                                                       ELSE old.attempts,
           NEW tr, NEW tr2, tr2[old.id] = tr[old.id], tr[old.id] \in Nat,
           NEW f, NEW f2, NEW con, NEW con2, old.id \in con => old.id \in con2,
           Accounted(old, tr, f, con)
    PROVE  Accounted(new, tr2, f2, con2)
<1> SUFFICES ASSUME old.id \notin con2
             PROVE  /\ tr[old.id] <= maxRetries - 1
                    /\ tr[old.id] <= new.attempts - 1
  BY DEF Accounted
<1>1. PICK a \in Nat, n \in Nat, M \in Nat :
         /\ a = old.attempts /\ n = tr[old.id] /\ M = maxRetries
         /\ a <= M
  BY DlqAssumption DEF Letter
<1>2. n <= M - 1 /\ n <= a
  BY <1>1 DEF Accounted
<1>3. PICK a2 \in Nat : a2 = new.attempts /\ a2 = IF a < M THEN a + 1 ELSE a
  BY <1>1
<1>4. n <= a2 - 1
  BY <1>1, <1>2, <1>3
<1> QED BY <1>1, <1>2, <1>3, <1>4

\* A new letter has not been redriven.
LEMMA AccountedNew ==
    ASSUME NEW new \in Letter, new.attempts = 1, NEW tr, tr[new.id] = 0, NEW f, NEW con
    PROVE  Accounted(new, tr, f, con)
<1>1. 0 <= maxRetries - 1 /\ 0 <= 1 - 1
  BY DlqAssumption
<1> QED BY <1>1 DEF Accounted

-----------------------------------------------------------------------------
(* The steps that store letters. *)

\* The ids of a list are messages.
LEMMA IdType ==
    ASSUME NEW list \in Seq(Letter), NEW i \in DOMAIN list
    PROVE  /\ list[i] \in Letter /\ list[i].id \in Messages
           /\ list[i].id \in idsOf(list)
<1>1. list[i] \in Letter
  OBVIOUS
<1> QED BY <1>1 DEF Letter, idsOf

\* The map becomes next, each letter of which is as it was, has failed once
\* more, or is new.
LEMMA MapUpdatePreserves ==
    ASSUME DlqInv, NEW next \in Seq(Letter), Len(next) <= maxCapacity, Distinct(next),
           NEW renewed, update(next, renewed),
           NEW f2 \in [Sweepers \cup Operators -> Messages \cup {NoMessage}],
           sending' = f2,
           \A i \in DOMAIN next :
              \/ /\ next[i].id \notin Quarantined
                 /\ next[i].attempts = 1
                 /\ next[i].id \in renewed
              \/ \E j \in DOMAIN letters :
                    /\ next[i].id = letters[j].id
                    /\ \/ /\ next[i] = letters[j]
                          /\ InHand(sending, next[i].id) => InHand(f2, next[i].id)
                       \/ /\ next[i].attempts = IF letters[j].attempts < maxRetries
                                                THEN letters[j].attempts + 1
                                                ELSE letters[j].attempts
                          /\ next[i].id \in renewed
    PROVE  DlqInv'
<1>0. DlqTypeOK /\ letters \in Seq(Letter)
  BY DEF DlqInv, DlqTypeOK, Letter
<1>1. PICK tr2, con2 : tr2 = tries' /\ con2 = contended'
  OBVIOUS
<1>2. /\ letters' = next
      /\ due' = [s \in Sweepers |-> (due[s] \cap idsOf(next)) \ renewed]
      /\ tr2 = [m \in Messages |->
                   IF m \in Quarantined \cap idsOf(next) THEN tries[m] ELSE 0]
      /\ con2 = contended \cap Quarantined \cap idsOf(next)
  BY <1>1 DEF update
<1>3. DlqTypeOK'
  <2>1. due' \in [Sweepers -> SUBSET Messages]
    BY <1>0, <1>2 DEF DlqTypeOK
  <2>2. tr2 \in [Messages -> Nat] /\ con2 \subseteq Messages
    BY <1>0, <1>2 DEF DlqTypeOK
  <2> QED BY <1>1, <1>2, <2>1, <2>2 DEF DlqTypeOK, Letter
<1>4. DueSound'
  <2> SUFFICES ASSUME NEW s \in Sweepers, NEW i \in DOMAIN next, next[i].id \in due'[s]
               PROVE  next[i].attempts < maxRetries
    BY <1>2 DEF DueSound
  <2>1. next[i].id \in due[s] /\ next[i].id \notin renewed
    BY <1>2
  <2>2. PICK j \in DOMAIN letters : next[i].id = letters[j].id /\ next[i] = letters[j]
    BY <2>1
  <2> QED BY <2>1, <2>2 DEF DlqInv, DueSound
<1>5. ASSUME NEW i \in DOMAIN next
      PROVE  Accounted(next[i], tr2, f2, con2)
  <2>0. PICK l \in Letter : l = next[i] /\ l.id \in Messages /\ l.id \in idsOf(next)
    BY IdType
  <2>1. CASE l.id \notin Quarantined /\ l.attempts = 1
    <3>1. tr2[l.id] = 0
      BY <1>2, <2>0, <2>1
    <3> QED BY <2>0, <2>1, <3>1, AccountedNew
  <2>2. ASSUME NEW j \in DOMAIN letters, l.id = letters[j].id
        PROVE  /\ letters[j] \in Letter /\ tr2[l.id] = tries[l.id]
               /\ tries[l.id] \in Nat /\ (l.id \in contended => l.id \in con2)
               /\ Accounted(letters[j], tries, sending, contended)
    <3>1. letters[j] \in Letter /\ l.id \in Quarantined
      BY <1>0, <2>2, IdType DEF Quarantined
    <3> QED BY <1>0, <1>2, <2>0, <3>1 DEF DlqInv, AllAccounted, DlqTypeOK
  <2>3. ASSUME NEW j \in DOMAIN letters, l = letters[j],
               InHand(sending, l.id) => InHand(f2, l.id)
        PROVE  Accounted(l, tr2, f2, con2)
    <3>1. /\ tr2[l.id] = tries[l.id] /\ (l.id \in contended => l.id \in con2)
          /\ Accounted(l, tries, sending, contended)
      BY <2>2, <2>3
    <3> QED BY <2>3, <3>1 DEF Accounted
  <2>4. ASSUME NEW j \in DOMAIN letters, l.id = letters[j].id,
               l.attempts = IF letters[j].attempts < maxRetries
                            THEN letters[j].attempts + 1 ELSE letters[j].attempts
        PROVE  Accounted(l, tr2, f2, con2)
    <3>1. PICK old \in Letter : old = letters[j]
      BY <2>2, <2>4
    <3>2. /\ tr2[old.id] = tries[old.id] /\ tries[old.id] \in Nat
          /\ (old.id \in contended => old.id \in con2)
          /\ Accounted(old, tries, sending, contended)
      BY <2>2, <2>4, <3>1
    <3> QED BY <2>4, <3>1, <3>2, AccountedRenewed
  <2> QED BY <2>0, <2>1, <2>3, <2>4
<1>6. AllAccounted'
  BY <1>1, <1>2, <1>5 DEF AllAccounted, Accounted
<1> QED BY <1>2, <1>3, <1>4, <1>6 DEF DlqInv, Distinct

\* What is left of a list without its p-th element.
LEMMA RemoveAtEffect ==
    ASSUME NEW T, NEW list \in Seq(T), NEW p \in 1 .. Len(list)
    PROVE  /\ RemoveAt(list, p) \in Seq(T)
           /\ Len(RemoveAt(list, p)) = Len(list) - 1
           /\ DOMAIN RemoveAt(list, p) = 1 .. Len(list) - 1
           /\ \A i \in 1 .. Len(list) - 1 :
                 RemoveAt(list, p)[i] = IF i < p THEN list[i] ELSE list[i + 1]
<1>0. Len(list) \in Nat
  OBVIOUS
<1>1. PICK a \in Seq(T) : /\ a = SubSeq(list, 1, p - 1) /\ Len(a) = p - 1
                          /\ \A i \in 1 .. p - 1 : a[i] = list[i]
  <2>1. /\ SubSeq(list, 1, p - 1) \in Seq(T)
        /\ Len(SubSeq(list, 1, p - 1)) = p - 1
        /\ \A i \in 1 .. p - 1 : SubSeq(list, 1, p - 1)[i] = list[i]
    BY <1>0
  <2> QED BY <2>1
<1>2. PICK c \in Seq(T) : /\ c = SubSeq(list, p + 1, Len(list)) /\ Len(c) = Len(list) - p
                          /\ \A i \in 1 .. Len(list) - p : c[i] = list[p + i]
  <2>1. /\ SubSeq(list, p + 1, Len(list)) \in Seq(T)
        /\ Len(SubSeq(list, p + 1, Len(list))) = Len(list) - p
        /\ \A i \in 1 .. Len(list) - p : SubSeq(list, p + 1, Len(list))[i] = list[p + i]
    BY <1>0
  <2> QED BY <2>1
<1>3. RemoveAt(list, p) = a \o c
  BY <1>1, <1>2 DEF RemoveAt
<1>4. PICK r : r = a \o c
  OBVIOUS
<1>5. /\ r \in Seq(T) /\ Len(r) = Len(list) - 1
      /\ \A i \in 1 .. Len(list) - 1 :
            r[i] = IF i <= p - 1 THEN a[i] ELSE c[i - (p - 1)]
  <2>1. /\ r \in Seq(T) /\ Len(r) = Len(a) + Len(c)
        /\ \A i \in 1 .. Len(a) + Len(c) : r[i] = IF i <= Len(a) THEN a[i] ELSE c[i - Len(a)]
    BY <1>4, ConcatProperties
  <2>2. Len(a) = p - 1 /\ Len(c) = Len(list) - p
    BY <1>1, <1>2
  <2>3. (p - 1) + (Len(list) - p) = Len(list) - 1
    BY <1>0
  <2>4. Len(a) + Len(c) = Len(list) - 1
    BY <2>2, <2>3
  <2> QED BY <2>1, <2>2, <2>4
<1>6. ASSUME NEW i \in 1 .. Len(list) - 1
      PROVE  r[i] = IF i < p THEN list[i] ELSE list[i + 1]
  <2>1. CASE i < p
    BY <1>0, <1>1, <1>5, <2>1
  <2>2. CASE ~ (i < p)
    <3>1. i - (p - 1) \in 1 .. Len(list) - p /\ p + (i - (p - 1)) = i + 1
      BY <1>0, <2>2
    <3>2. c[i - (p - 1)] = list[i + 1]
      BY <1>2, <3>1
    <3> QED BY <1>5, <2>2, <3>2
  <2> QED BY <2>1, <2>2
<1>7. DOMAIN r = 1 .. Len(list) - 1
  BY <1>5
<1> QED BY <1>3, <1>4, <1>5, <1>6, <1>7

\* Storing a failure: the letter of m is bumped, or a new one takes the place
\* of the oldest.
LEMMA EnqueuePreserves ==
    ASSUME DlqInv, NEW m \in Messages, enqueueLetter(m),
           NEW f2 \in [Sweepers \cup Operators -> Messages \cup {NoMessage}],
           sending' = f2,
           \A x \in Messages : x # m => (InHand(sending, x) => InHand(f2, x))
    PROVE  DlqInv'
<1>0. letters \in Seq(Letter) /\ Len(letters) <= maxCapacity
  BY DEF DlqInv, DlqTypeOK, Letter
<1>1. PICK wait \in 1 .. maxWait :
         update(IF m \in Quarantined
                THEN [i \in DOMAIN letters |->
                        IF letters[i].id = m THEN bumped(letters[i], wait) ELSE letters[i]]
                ELSE added(m, wait),
                {m})
  BY DEF enqueueLetter
<1>2. maxRetries \in Nat /\ maxRetries >= 1 /\ maxCapacity \in Nat /\ maxCapacity >= 1
      /\ maxWait \in Nat /\ wait \in 0 .. maxWait
  BY DlqAssumption
<1>3. CASE m \in Quarantined
  <2> DEFINE next == [i \in DOMAIN letters |->
                        IF letters[i].id = m THEN bumped(letters[i], wait) ELSE letters[i]]
  <2>1. ASSUME NEW l \in Letter
        PROVE  /\ bumped(l, wait) \in Letter /\ bumped(l, wait).id = l.id
               /\ bumped(l, wait).attempts = IF l.attempts < maxRetries
                                             THEN l.attempts + 1 ELSE l.attempts
    <3>1. PICK a \in 1 .. maxRetries :
             a = IF l.attempts < maxRetries THEN l.attempts + 1 ELSE l.attempts
      BY <1>2 DEF Letter
    <3>2. bumped(l, wait) = [l EXCEPT !.attempts = a, !.wait = wait]
      BY <3>1 DEF bumped
    <3>3. /\ [l EXCEPT !.attempts = a, !.wait = wait] \in Letter
          /\ [l EXCEPT !.attempts = a, !.wait = wait].id = l.id
          /\ [l EXCEPT !.attempts = a, !.wait = wait].attempts = a
      BY <1>2 DEF Letter
    <3> QED BY <3>1, <3>2, <3>3
  <2>2. \A i \in DOMAIN letters : letters[i] \in Letter /\ letters[i].id \in Messages
    BY <1>0, IdType
  <2>3. \A i \in DOMAIN letters : next[i] \in Letter /\ next[i].id = letters[i].id
    BY <2>1, <2>2
  <2>4. \A i \in DOMAIN letters : letters[i].id = m =>
           next[i].attempts = IF letters[i].attempts < maxRetries
                              THEN letters[i].attempts + 1 ELSE letters[i].attempts
    BY <2>1, <2>2
  <2>5. \A i \in DOMAIN letters : letters[i].id # m => next[i] = letters[i]
    OBVIOUS
  <2>6. DOMAIN next = DOMAIN letters /\ DOMAIN letters = 1 .. Len(letters)
        /\ Len(letters) \in Nat
    BY <1>0
  <2>7. update(next, {m})
    BY <1>1, <1>3
  <2>8. next = [i \in 1 .. Len(letters) |-> next[i]]
    BY <2>6
  <2> HIDE DEF next
  <2>9. next \in Seq(Letter) /\ Len(next) = Len(letters)
    BY <2>3, <2>6, <2>8
  <2>10. Distinct(next)
    BY <2>3, <2>6 DEF Distinct, DlqInv
  <2>11. \A i \in DOMAIN next :
            \E j \in DOMAIN letters :
               /\ next[i].id = letters[j].id
               /\ \/ /\ next[i] = letters[j]
                     /\ InHand(sending, next[i].id) => InHand(f2, next[i].id)
                  \/ /\ next[i].attempts = IF letters[j].attempts < maxRetries
                                           THEN letters[j].attempts + 1
                                           ELSE letters[j].attempts
                     /\ next[i].id \in {m}
    <3> SUFFICES ASSUME NEW i \in DOMAIN letters
                 PROVE  /\ next[i].id = letters[i].id
                        /\ \/ /\ next[i] = letters[i]
                              /\ InHand(sending, next[i].id) => InHand(f2, next[i].id)
                           \/ /\ next[i].attempts = IF letters[i].attempts < maxRetries
                                                    THEN letters[i].attempts + 1
                                                    ELSE letters[i].attempts
                              /\ next[i].id \in {m}
      BY <2>6
    <3>1. CASE letters[i].id = m
      BY <2>3, <2>4, <3>1
    <3>2. CASE letters[i].id # m
      BY <2>2, <2>3, <2>5, <3>2
    <3> QED BY <3>1, <3>2
  <2>12. Len(next) <= maxCapacity
    BY <1>0, <2>9
  <2> QED BY <2>7, <2>9, <2>10, <2>11, <2>12, MapUpdatePreserves
<1>4. CASE m \notin Quarantined
  <2> DEFINE new == [id |-> m, attempts |-> 1, wait |-> wait]
             left == IF Len(letters) < maxCapacity THEN letters ELSE Tail(letters)
             next == Append(left, new)
  <2>1. new \in Letter /\ new.id = m /\ new.attempts = 1
    BY <1>2 DEF Letter
  <2>2. PICK k \in {0, 1} : /\ left \in Seq(Letter)
                            /\ Len(left) + 1 <= maxCapacity
                            /\ \A i \in 1 .. Len(left) : /\ i + k \in DOMAIN letters
                                                         /\ left[i] = letters[i + k]
    <3>1. Len(letters) \in Nat
      BY <1>0
    <3>2. CASE Len(letters) < maxCapacity
      <4>1. left = letters
        BY <3>2
      <4>2. 0 \in {0, 1} /\ \A i \in 1 .. Len(left) : /\ i + 0 \in DOMAIN letters
                                                      /\ left[i] = letters[i + 0]
        BY <1>0, <4>1
      <4> QED BY <1>0, <1>2, <3>1, <3>2, <4>1, <4>2
    <3>3. CASE ~ (Len(letters) < maxCapacity)
      <4>1. left = Tail(letters) /\ letters # <<>>
        BY <1>0, <1>2, <3>3
      <4>2. /\ Tail(letters) \in Seq(Letter) /\ Len(Tail(letters)) = Len(letters) - 1
            /\ \A i \in 1 .. Len(letters) - 1 : /\ i + 1 \in DOMAIN letters
                                                /\ Tail(letters)[i] = letters[i + 1]
        BY <1>0, <3>1, <4>1
      <4> HIDE DEF left
      <4>3. left \in Seq(Letter) /\ Len(left) = Len(letters) - 1
        BY <4>1, <4>2
      <4>4. Len(left) + 1 <= maxCapacity
        BY <1>0, <1>2, <3>1, <4>3
      <4>5. \A i \in 1 .. Len(left) : i + 1 \in DOMAIN letters /\ left[i] = letters[i + 1]
        BY <4>1, <4>2, <4>3
      <4> QED BY <4>3, <4>4, <4>5
    <3> QED BY <3>2, <3>3
  <2>3. update(next, {m})
    BY <1>1, <1>4 DEF added
  <2> HIDE DEF left, new
  <2>4. /\ next \in Seq(Letter) /\ Len(next) = Len(left) + 1 /\ Len(left) \in Nat
        /\ next[Len(left) + 1] = new
        /\ \A i \in 1 .. Len(left) : next[i] = left[i]
        /\ DOMAIN next = 1 .. Len(left) + 1
    BY <2>1, <2>2
  <2>5. \A i \in DOMAIN next : i = Len(left) + 1 \/ i \in 1 .. Len(left)
    BY <2>4
  <2> HIDE DEF next
  <2>6. \A i \in 1 .. Len(left) :
           /\ i + k \in DOMAIN letters /\ next[i] = letters[i + k]
           /\ letters[i + k].id \in Messages /\ letters[i + k].id # m
    <3> SUFFICES ASSUME NEW i \in 1 .. Len(left)
                 PROVE  /\ i + k \in DOMAIN letters /\ next[i] = letters[i + k]
                        /\ letters[i + k].id \in Messages /\ letters[i + k].id # m
      OBVIOUS
    <3>1. i + k \in DOMAIN letters /\ next[i] = letters[i + k]
      BY <2>2, <2>4
    <3>2. letters[i + k].id \in Messages /\ letters[i + k].id \in idsOf(letters)
      BY <1>0, <3>1, IdType
    <3> QED BY <1>4, <3>1, <3>2 DEF Quarantined
  <2>7. Distinct(next)
    <3> SUFFICES ASSUME NEW i \in DOMAIN next, NEW j \in DOMAIN next,
                        next[i].id = next[j].id
                 PROVE  i = j
      BY DEF Distinct
    <3>1. CASE i \in 1 .. Len(left) /\ j \in 1 .. Len(left)
      <4>1. i + k = j + k
        BY <2>6, <3>1 DEF DlqInv, Distinct
      <4> QED BY <3>1, <4>1
    <3>2. CASE i = Len(left) + 1 /\ j \in 1 .. Len(left)
      BY <2>1, <2>4, <2>6, <3>2
    <3>3. CASE j = Len(left) + 1 /\ i \in 1 .. Len(left)
      BY <2>1, <2>4, <2>6, <3>3
    <3> QED BY <2>5, <3>1, <3>2, <3>3
  <2>8. ASSUME NEW i \in DOMAIN next
        PROVE  \/ /\ next[i].id \notin Quarantined
                  /\ next[i].attempts = 1
                  /\ next[i].id \in {m}
               \/ \E j \in DOMAIN letters :
                     /\ next[i].id = letters[j].id
                     /\ next[i] = letters[j]
                     /\ InHand(sending, next[i].id) => InHand(f2, next[i].id)
    <3>1. CASE i = Len(left) + 1
      BY <1>4, <2>1, <2>4, <3>1
    <3>2. CASE i \in 1 .. Len(left)
      BY <2>6, <3>2
    <3> QED BY <2>5, <3>1, <3>2
  <2>9. Len(next) <= maxCapacity
    BY <2>2, <2>4
  <2>10. \A i \in DOMAIN next :
            \/ /\ next[i].id \notin Quarantined
               /\ next[i].attempts = 1
               /\ next[i].id \in {m}
            \/ \E j \in DOMAIN letters :
                  /\ next[i].id = letters[j].id
                  /\ \/ /\ next[i] = letters[j]
                        /\ InHand(sending, next[i].id) => InHand(f2, next[i].id)
                     \/ /\ next[i].attempts = IF letters[j].attempts < maxRetries
                                              THEN letters[j].attempts + 1
                                              ELSE letters[j].attempts
                        /\ next[i].id \in {m}
    BY <2>8, Zenon
  <2> QED BY <2>3, <2>4, <2>7, <2>9, <2>10, MapUpdatePreserves
<1> QED BY <1>3, <1>4

\* Taking the letter of m out.
LEMMA RemovePreserves ==
    ASSUME DlqInv, NEW m \in Messages, removeLetter(m),
           NEW f2 \in [Sweepers \cup Operators -> Messages \cup {NoMessage}],
           sending' = f2,
           \A x \in Messages : x # m => (InHand(sending, x) => InHand(f2, x))
    PROVE  DlqInv'
<1>0. letters \in Seq(Letter) /\ Len(letters) <= maxCapacity /\ Len(letters) \in Nat
      /\ maxCapacity \in Nat /\ Distinct(letters)
  BY DlqAssumption DEF DlqInv, DlqTypeOK, Letter
<1>1. \A i \in DOMAIN letters : letters[i].id \in Messages /\ letters[i].id \in Quarantined
  BY <1>0, IdType DEF Quarantined
<1>2. CASE m \notin Quarantined
  <2>1. PICK next, none : next = letters /\ none = {} /\ update(next, none)
    BY <1>2 DEF removeLetter
  <2>2. \A i \in DOMAIN letters : InHand(sending, letters[i].id) => InHand(f2, letters[i].id)
    BY <1>1, <1>2
  <2>3. next \in Seq(Letter) /\ Len(next) <= maxCapacity /\ Distinct(next)
        /\ update(next, none)
    BY <1>0, <2>1
  <2>4. \A i \in DOMAIN next :
           \/ /\ next[i].id \notin Quarantined
              /\ next[i].attempts = 1
              /\ next[i].id \in none
           \/ \E j \in DOMAIN letters :
                 /\ next[i].id = letters[j].id
                 /\ \/ /\ next[i] = letters[j]
                       /\ InHand(sending, next[i].id) => InHand(f2, next[i].id)
                    \/ /\ next[i].attempts = IF letters[j].attempts < maxRetries
                                             THEN letters[j].attempts + 1
                                             ELSE letters[j].attempts
                       /\ next[i].id \in none
    BY <2>1, <2>2, Zenon
  <2> QED BY <2>3, <2>4, MapUpdatePreserves
<1>3. CASE m \in Quarantined
  <2>1. PICK p \in 1 .. Len(letters) : p = indexOf(m) /\ letters[p].id = m
    <3>1. \E i \in DOMAIN letters : letters[i].id = m
      BY <1>3 DEF Quarantined, idsOf
    <3> QED BY <1>0, <3>1 DEF indexOf
  <2> DEFINE next == RemoveAt(letters, p)
  <2>2. PICK none : none = {} /\ update(next, none)
    BY <1>3, <2>1 DEF removeLetter
  <2>5. /\ next \in Seq(Letter) /\ Len(next) = Len(letters) - 1
        /\ DOMAIN next = 1 .. Len(letters) - 1
        /\ \A i \in 1 .. Len(letters) - 1 :
              next[i] = IF i < p THEN letters[i] ELSE letters[i + 1]
    BY <1>0, RemoveAtEffect
  <2> HIDE DEF next
  <2>7. ASSUME NEW i \in DOMAIN next
        PROVE  \E j \in DOMAIN letters : next[i] = letters[j] /\ j # p
                  /\ j = IF i < p THEN i ELSE i + 1
    <3>1. PICK j \in DOMAIN letters : j = IF i < p THEN i ELSE i + 1
      BY <1>0, <2>5
    <3>2. next[i] = letters[j] /\ j # p
      BY <2>5, <3>1
    <3> QED BY <3>1, <3>2
  <2>8. Distinct(next)
    <3> SUFFICES ASSUME NEW i \in DOMAIN next, NEW j \in DOMAIN next,
                        next[i].id = next[j].id
                 PROVE  i = j
      BY DEF Distinct
    <3>1. PICK i2 \in DOMAIN letters : next[i] = letters[i2] /\ i2 # p
                                      /\ i2 = IF i < p THEN i ELSE i + 1
      BY <2>7
    <3>2. PICK j2 \in DOMAIN letters : next[j] = letters[j2] /\ j2 # p
                                      /\ j2 = IF j < p THEN j ELSE j + 1
      BY <2>7
    <3>3. i2 = j2
      BY <1>0, <3>1, <3>2 DEF Distinct
    <3> QED BY <2>5, <3>1, <3>2, <3>3
  <2>9. ASSUME NEW i \in DOMAIN next
        PROVE  \E j \in DOMAIN letters :
                  /\ next[i].id = letters[j].id /\ next[i] = letters[j]
                  /\ InHand(sending, next[i].id) => InHand(f2, next[i].id)
    <3>1. PICK j \in DOMAIN letters : next[i] = letters[j] /\ j # p
      BY <2>7
    <3>2. letters[j].id # m /\ letters[j].id \in Messages
      BY <1>0, <1>1, <2>1, <3>1 DEF Distinct
    <3> QED BY <3>1, <3>2
  <2>10. Len(next) <= maxCapacity
    BY <1>0, <2>5
  <2>11. \A i \in DOMAIN next :
            \/ /\ next[i].id \notin Quarantined
               /\ next[i].attempts = 1
               /\ next[i].id \in none
            \/ \E j \in DOMAIN letters :
                  /\ next[i].id = letters[j].id
                  /\ \/ /\ next[i] = letters[j]
                        /\ InHand(sending, next[i].id) => InHand(f2, next[i].id)
                     \/ /\ next[i].attempts = IF letters[j].attempts < maxRetries
                                              THEN letters[j].attempts + 1
                                              ELSE letters[j].attempts
                        /\ next[i].id \in none
    BY <2>9, Zenon
  <2>12. next \in Seq(Letter) /\ update(next, none)
    BY <2>2, <2>5
  <2> QED BY <2>8, <2>10, <2>11, <2>12, MapUpdatePreserves
<1> QED BY <1>2, <1>3

-----------------------------------------------------------------------------
(* The actions. *)

\* A failure seen elsewhere, a letter deleted by hand, or all of them.
LEMMA OutsidePreserves ==
    ASSUME DlqInv, NEW m \in Messages,
           deliveryFails(m) \/ deleteLetter(m) \/ clearLetters
    PROVE  DlqInv'
<1>1. PICK f2 \in [Sweepers \cup Operators -> Messages \cup {NoMessage}] :
         f2 = sending /\ sending' = f2
  BY DEF DlqInv, DlqTypeOK, deliveryFails, deleteLetter, clearLetters
<1>2. \A x \in Messages : x # m => (InHand(sending, x) => InHand(f2, x))
  BY <1>1
<1>4. CASE deliveryFails(m)
  BY <1>1, <1>2, <1>4, EnqueuePreserves DEF deliveryFails
<1>5. CASE deleteLetter(m)
  BY <1>1, <1>2, <1>5, RemovePreserves DEF deleteLetter
<1>6. CASE clearLetters
  <2>0. <<>> \in Seq(Letter) /\ update(<<>>, {})
    BY <1>6 DEF clearLetters
  <2>1. PICK next \in Seq(Letter) : next = <<>> /\ update(next, {})
    BY <2>0, Zenon
  <2>2. Len(next) = 0 /\ DOMAIN next = {}
    BY <2>1
  <2>3. Len(next) <= maxCapacity /\ Distinct(next)
    BY <2>2, DlqAssumption DEF Distinct
  <2>4. update(next, {})
    BY <2>1
  <2> QED BY <1>1, <2>2, <2>3, <2>4, MapUpdatePreserves
<1> QED BY <1>4, <1>5, <1>6

\* The processor settles: whoever had the letter puts it down.
LEMMA SettlePreserves ==
    ASSUME DlqInv, NEW d \in Sweepers \cup Operators, settle(d)
    PROVE  DlqInv'
<1>0. sending \in [Sweepers \cup Operators -> Messages \cup {NoMessage}]
      /\ DOMAIN sending = Sweepers \cup Operators
  BY DEF DlqInv, DlqTypeOK
<1>1. PICK m \in Messages : m = sending[d]
  BY <1>0 DEF settle, processed, processingFails
<1>2. PICK f2 \in [Sweepers \cup Operators -> Messages \cup {NoMessage}] :
         f2 = [sending EXCEPT ![d] = NoMessage] /\ sending' = f2
  BY <1>0 DEF settle, processed, processingFails
<1>3. \A x \in Messages : x # NoMessage
  BY DlqAssumption
<1>5. ASSUME NEW x \in Messages, x # m
      PROVE  InHand(sending, x) => InHand(f2, x)
  <2>1. \A e \in Sweepers \cup Operators : sending[e] = x => f2[e] = x
    BY <1>0, <1>1, <1>2, <1>3, <1>5
  <2> QED BY <2>1 DEF InHand
<1>6. CASE processed(d)
  BY <1>1, <1>2, <1>5, <1>6, RemovePreserves DEF processed
<1>7. CASE processingFails(d)
  BY <1>1, <1>2, <1>5, <1>7, EnqueuePreserves DEF processingFails
<1> QED BY <1>6, <1>7 DEF settle

\* A letter that is not poison, if that counts, is handed out: nobody has it in
\* hand and now one does, or it is contended from now on.
LEMMA HandOutPreserves ==
    ASSUME DlqInv, NEW d \in Sweepers \cup Operators, NEW m \in Messages,
           NEW counts \in BOOLEAN, handOut(d, m, counts),
           counts => \A i \in DOMAIN letters : letters[i].id = m =>
                        letters[i].attempts < maxRetries,
           letters' = letters,
           due' \in [Sweepers -> SUBSET Messages],
           \A s \in Sweepers : due'[s] \subseteq due[s]
    PROVE  DlqInv'
<1>0. DlqTypeOK /\ letters \in Seq(Letter)
  BY DEF DlqInv, DlqTypeOK, Letter
<1>1. PICK f, f2, tr, tr2, con, con2 :
         /\ f = sending /\ f2 = [f EXCEPT ![d] = m] /\ sending' = f2
         /\ con = contended /\ con2 = contended'
         /\ con2 = IF InHand(f, m) THEN con \cup {m} ELSE con
         /\ tr = tries /\ tr2 = tries'
         /\ tr2 = IF counts /\ m \notin con2 THEN [tr EXCEPT ![m] = @ + 1] ELSE tr
  BY DEF handOut, Held, InHand
<1>2. f[d] = NoMessage
  BY <1>1 DEF handOut
<1>3. /\ f \in [Sweepers \cup Operators -> Messages \cup {NoMessage}]
      /\ tr \in [Messages -> Nat] /\ con \subseteq Messages
  BY <1>0, <1>1 DEF DlqTypeOK
<1>4. DlqTypeOK'
  <2>1. /\ f2 \in [Sweepers \cup Operators -> Messages \cup {NoMessage}]
        /\ tr2 \in [Messages -> Nat] /\ con2 \subseteq Messages
    BY <1>1, <1>3
  <2> QED BY <1>0, <1>1, <2>1 DEF DlqTypeOK
<1>5. DueSound'
  BY DEF DlqInv, DueSound
<1>6. ASSUME NEW i \in DOMAIN letters
      PROVE  Accounted(letters[i], tr2, f2, con2)
  <2>1. PICK l \in Letter : l = letters[i] /\ l.id \in Messages
    BY <1>0, IdType
  <2>2. Accounted(l, tr, f, con)
    BY <1>1, <2>1 DEF DlqInv, AllAccounted
  <2> SUFFICES ASSUME l.id \notin con2
               PROVE  Accounted(l, tr2, f2, con2)
    BY <2>1 DEF Accounted
  <2>3. l.id \notin con /\ (l.id = m => ~ InHand(f, m))
    BY <1>1
  <2>4. CASE l.id = m /\ counts
    <3>1. l.attempts < maxRetries
      BY <2>1, <2>4
    <3>2. tr[m] <= l.attempts - 1 /\ tr2[m] = tr[m] + 1
      BY <1>1, <1>3, <2>2, <2>3, <2>4 DEF Accounted
    <3>3. InHand(f2, m)
      BY <1>1, <1>3 DEF InHand
    <3>4. PICK a \in Nat, n \in Nat, M \in Nat : a = l.attempts /\ n = tr[m] /\ M = maxRetries
      BY <1>3, DlqAssumption DEF Letter
    <3>5. n + 1 <= M - 1 /\ n + 1 <= a
      BY <3>1, <3>2, <3>4
    <3> QED BY <2>4, <3>2, <3>3, <3>4, <3>5 DEF Accounted
  <2>5. CASE ~ (l.id = m /\ counts)
    <3>1. tr2[l.id] = tr[l.id]
      BY <1>1, <1>3, <2>1, <2>5
    <3>2. InHand(f, l.id) => InHand(f2, l.id)
      BY <1>1, <1>2, <1>3, <2>1, DlqAssumption DEF InHand
    <3> QED BY <2>2, <2>3, <3>1, <3>2 DEF Accounted
  <2> QED BY <2>4, <2>5
<1>7. AllAccounted'
  BY <1>1, <1>6 DEF AllAccounted
<1> QED BY <1>4, <1>5, <1>7 DEF DlqInv, Distinct

\* An operator takes a letter, which counts unless it is poison.
LEMMA RedrivePreserves ==
    ASSUME DlqInv, NEW o \in Operators, NEW m \in Messages, redrive(o, m)
    PROVE  DlqInv'
<1>0. DlqTypeOK /\ letters \in Seq(Letter)
  BY DEF DlqInv, DlqTypeOK, Letter
<1>1. PICK counts \in BOOLEAN :
         /\ counts = \E i \in DOMAIN letters : letters[i].id = m /\ ~ Poison(letters[i])
         /\ handOut(o, m, counts)
  BY DEF redrive
<1>2. ASSUME counts, NEW i \in DOMAIN letters, letters[i].id = m
      PROVE  letters[i].attempts < maxRetries
  <2>1. PICK j \in DOMAIN letters : letters[j].id = m /\ ~ Poison(letters[j])
    BY <1>1, <1>2
  <2>2. i = j
    BY <1>2, <2>1 DEF DlqInv, Distinct
  <2>3. letters[i] \in Letter
    BY <1>0, IdType
  <2> QED BY <2>1, <2>2, <2>3, DlqAssumption DEF Poison, Letter
<1>3. letters' = letters /\ due' = due
  BY DEF redrive
<1>4. due' \in [Sweepers -> SUBSET Messages] /\ \A s \in Sweepers : due'[s] \subseteq due[s]
  BY <1>0, <1>3 DEF DlqTypeOK
<1> QED BY <1>1, <1>2, <1>3, <1>4, HandOutPreserves

\* A pass begins with what may be retried.
LEMMA EligiblePreserves ==
    ASSUME DlqInv, NEW s \in Sweepers, redriveEligible(s)
    PROVE  DlqInv'
<1>0. DlqTypeOK /\ letters \in Seq(Letter)
  BY DEF DlqInv, DlqTypeOK, Letter
<1> DEFINE ids == {letters[i].id : i \in {j \in DOMAIN letters : canRetry(letters[j])}}
<1>1. /\ due' = [due EXCEPT ![s] = ids]
      /\ letters' = letters /\ sending' = sending /\ contended' = contended
      /\ tries' = tries
  BY DEF redriveEligible
<1>2. ids \subseteq Messages
  BY <1>0, IdType
<1>3. ASSUME NEW i \in DOMAIN letters, letters[i].id \in ids
      PROVE  letters[i].attempts < maxRetries
  <2>1. PICK j \in DOMAIN letters : canRetry(letters[j]) /\ letters[j].id = letters[i].id
    BY <1>3
  <2>2. i = j
    BY <2>1 DEF DlqInv, Distinct
  <2>3. letters[i] \in Letter
    BY <1>0, IdType
  <2> QED BY <2>1, <2>2, <2>3, DlqAssumption DEF canRetry, Poison, Letter
<1> HIDE DEF ids
<1>4. DlqTypeOK'
  BY <1>0, <1>1, <1>2 DEF DlqTypeOK
<1>5. DueSound'
  BY <1>0, <1>1, <1>3 DEF DlqInv, DueSound, DlqTypeOK
<1>6. AllAccounted'
  BY <1>1 DEF DlqInv, AllAccounted, Accounted
<1> QED BY <1>1, <1>4, <1>5, <1>6 DEF DlqInv, Distinct

\* A sweeper takes the next letter, which is due and so not poison.
LEMMA NextLetterPreserves ==
    ASSUME DlqInv, NEW s \in Sweepers, nextLetter(s)
    PROVE  DlqInv'
<1>0. DlqTypeOK /\ letters \in Seq(Letter)
  BY DEF DlqInv, DlqTypeOK, Letter
<1>1. PICK p \in DOMAIN letters :
         /\ letters[p].id \in due[s]
         /\ handOut(s, letters[p].id, TRUE)
         /\ due' = [due EXCEPT ![s] = @ \ {letters[p].id}]
  BY DEF nextLetter
<1>2. PICK m \in Messages : m = letters[p].id
  BY <1>0, IdType
<1>3. letters' = letters
  BY DEF nextLetter
<1>4. due' \in [Sweepers -> SUBSET Messages] /\ \A u \in Sweepers : due'[u] \subseteq due[u]
  BY <1>0, <1>1 DEF DlqTypeOK
<1>5. \A i \in DOMAIN letters : letters[i].id = m => letters[i].attempts < maxRetries
  BY <1>1, <1>2 DEF DlqInv, DueSound
<1>6. handOut(s, m, TRUE)
  BY <1>1, <1>2
<1> QED BY <1>3, <1>4, <1>5, <1>6, HandOutPreserves

\* Time passes: only the waits change.
LEMMA TickPreserves ==
    ASSUME DlqInv, dlqTick
    PROVE  DlqInv'
<1>0. DlqTypeOK /\ letters \in Seq(Letter) /\ Len(letters) \in Nat
      /\ DOMAIN letters = 1 .. Len(letters)
  BY DEF DlqInv, DlqTypeOK, Letter
<1>1. PICK next : next = [i \in DOMAIN letters |->
                           [letters[i] EXCEPT !.wait = IF @ > 0 THEN @ - 1 ELSE 0]]
  OBVIOUS
<1>2. /\ letters' = next /\ due' = due /\ sending' = sending
      /\ contended' = contended /\ tries' = tries
  BY <1>1 DEF dlqTick
<1>3. ASSUME NEW i \in DOMAIN letters
      PROVE  /\ next[i] \in Letter /\ next[i].id = letters[i].id
             /\ next[i].attempts = letters[i].attempts
  <2>1. PICK l \in Letter : l = letters[i]
    BY <1>0, IdType
  <2>2. PICK w \in 0 .. maxWait : w = IF l.wait > 0 THEN l.wait - 1 ELSE 0
    BY DlqAssumption DEF Letter
  <2>3. next[i] = [l EXCEPT !.wait = w]
    BY <1>1, <2>1, <2>2
  <2>4. /\ [l EXCEPT !.wait = w] \in Letter /\ [l EXCEPT !.wait = w].id = l.id
        /\ [l EXCEPT !.wait = w].attempts = l.attempts
    BY DEF Letter
  <2> QED BY <2>1, <2>3, <2>4
<1>4. next = [i \in 1 .. Len(letters) |-> next[i]] /\ DOMAIN next = DOMAIN letters
  BY <1>0, <1>1
<1>5. next \in Seq(Letter) /\ Len(next) = Len(letters)
  BY <1>0, <1>3, <1>4
<1>6. DlqTypeOK'
  BY <1>0, <1>2, <1>5 DEF DlqTypeOK, Letter
<1>7. Distinct(next)
  BY <1>3, <1>4 DEF DlqInv, Distinct
<1>8. DueSound'
  BY <1>2, <1>3, <1>4 DEF DlqInv, DueSound
<1>9. \A i \in DOMAIN next : Accounted(next[i], tries, sending, contended)
  BY <1>3, <1>4 DEF DlqInv, AllAccounted, Accounted
<1>10. AllAccounted'
  BY <1>2, <1>9 DEF AllAccounted, Accounted
<1> QED BY <1>2, <1>6, <1>7, <1>8, <1>10 DEF DlqInv, Distinct

-----------------------------------------------------------------------------
(* The theorems. *)

\* The constructor's empty queue satisfies the invariant.
LEMMA DlqInitEstablishes == DlqInit => DlqInv
<1> SUFFICES ASSUME DlqInit
             PROVE  DlqInv
  OBVIOUS
<1>1. letters = <<>> /\ Len(letters) = 0 /\ DOMAIN letters = {}
  BY DEF DlqInit
<1>2. DlqTypeOK
  BY <1>1, DlqAssumption DEF DlqInit, DlqTypeOK
<1> QED BY <1>1, <1>2 DEF DlqInv, Distinct, DueSound, AllAccounted

\* Every step preserves the invariant.
LEMMA DlqNextPreserves == DlqInv /\ [DlqNext]_dlqVars => DlqInv'
<1> SUFFICES ASSUME DlqInv, [DlqNext]_dlqVars
             PROVE  DlqInv'
  OBVIOUS
<1>1. CASE clearLetters
  <2>1. CASE \E m : m \in Messages
    BY <1>1, <2>1, OutsidePreserves
  <2>2. CASE Messages = {}
    <3>1. letters = <<>>
      BY <2>2 DEF DlqInv, DlqTypeOK
    <3> QED BY <1>1, <2>2, <3>1
            DEF clearLetters, update, DlqInv, DlqTypeOK, Distinct, DueSound, AllAccounted
  <2> QED BY <2>1, <2>2
<1>2. CASE UNCHANGED dlqVars
  <2>1. /\ letters' = letters /\ due' = due /\ sending' = sending
        /\ contended' = contended /\ tries' = tries
    BY <1>2 DEF dlqVars
  <2> QED BY <2>1 DEF DlqInv, DlqTypeOK, Distinct, DueSound, AllAccounted, Accounted
<1> QED BY <1>1, <1>2, OutsidePreserves, RedrivePreserves, EligiblePreserves,
           NextLetterPreserves, SettlePreserves, TickPreserves DEF DlqNext

\* The letters are kept under distinct ids, what a pass has still to redrive is
\* not poison, and the deliveries of a letter run ahead of its attempts by the
\* one that is under way, if no two ever were.
THEOREM DlqInvariant == DlqSpec => []DlqInv
BY DlqInitEstablishes, DlqNextPreserves, PTL DEF DlqSpec

\* The map never holds more than maxCapacity letters, and the state of the
\* passes is well-typed.
THEOREM DlqTypeCorrect == DlqSpec => []DlqTypeOK
<1>1. DlqInv => DlqTypeOK
  BY DEF DlqInv
<1> QED BY <1>1, DlqInvariant, PTL

\* Attempts end at maxRetries, which bounds the deliveries.
LEMMA DlqInvBounds == DlqInv => DeliveredWithinRetries
<1> SUFFICES ASSUME DlqInv, NEW i \in DOMAIN letters, letters[i].id \notin contended
             PROVE  1 + tries[letters[i].id] <= maxRetries
  BY DEF DeliveredWithinRetries, Quarantined, idsOf
<1>1. letters \in Seq(Letter)
  BY DEF DlqInv, DlqTypeOK, Letter
<1>2. tries[letters[i].id] \in Nat
  BY <1>1, IdType DEF DlqInv, DlqTypeOK
<1>3. tries[letters[i].id] <= maxRetries - 1
  BY DEF DlqInv, AllAccounted, Accounted
<1> QED BY <1>2, <1>3, DlqAssumption

\* A letter that is not redriven by two at a time is delivered at most
\* maxRetries times, by sweepers and operators together, before enqueue marks it
\* as poison.
THEOREM DeliveredWithinRetriesHolds == DlqSpec => []DeliveredWithinRetries
  BY DlqInvBounds, DlqInvariant, PTL

=============================================================================
