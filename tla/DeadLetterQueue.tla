-------------------------- MODULE DeadLetterQueue --------------------------
(***************************************************************************)
(* DeadLetterQueue (src/common/utils/dead-letter-queue.util.js).           *)
(*                                                                         *)
(* Failed messages are quarantined and redriven through an asynchronous    *)
(* processor, one by one by an operator's redrive(id) or all the eligible  *)
(* ones by a sweeper's redriveEligible; nothing keeps two of these from    *)
(* overlapping.  nextRetryAt is the number of ticks until then; backoff    *)
(* and jitter make it any number from 1 to maxWait.  Errors, payloads and  *)
(* statistics are left out.                                                *)
(***************************************************************************)
EXTENDS Integers, Sequences, SequencesExt

CONSTANTS
    Messages, Sweepers, Operators,
    maxRetries, maxCapacity, maxWait,
    NoMessage

ASSUME DlqAssumption ==
    /\ maxRetries \in Nat \ {0}
    /\ maxCapacity \in Nat \ {0}
    /\ maxWait \in Nat \ {0}
    /\ NoMessage \notin Messages

VARIABLES
    letters,   \* _messages: [id, attempts, wait], in insertion order
    due,       \* the letters each redriveEligible has still to redrive
    sending,   \* the message in the hands of each one's processor
    contended, \* history: letters redriven while they were being redriven
    tries      \* history: how often each other letter has been redriven

dlqVars == <<letters, due, sending, contended, tries>>

DlqTypeOK ==
    /\ letters \in Seq([id : Messages, attempts : 1 .. maxRetries, wait : 0 .. maxWait])
    /\ Len(letters) <= maxCapacity
    /\ due \in [Sweepers -> SUBSET Messages]
    /\ sending \in [Sweepers \cup Operators -> Messages \cup {NoMessage}]
    /\ contended \subseteq Messages
    /\ tries \in [Messages -> Nat]

DlqInit ==
    /\ letters = <<>>
    /\ due = [s \in Sweepers |-> {}]
    /\ sending = [d \in Sweepers \cup Operators |-> NoMessage]
    /\ contended = {}
    /\ tries = [m \in Messages |-> 0]

idsOf(list) == {list[i].id : i \in DOMAIN list}

Quarantined == idsOf(letters)

\* isPoison; the attempts above maxRetries are not told apart.
Poison(letter) == letter.attempts >= maxRetries

-----------------------------------------------------------------------------
\* Mutant: every failure is stored as the first one.
bumpedToOne(letter, wait) == [letter EXCEPT !.attempts = 1, !.wait = wait]

bumped(letter, wait) ==
    [letter EXCEPT !.attempts = IF @ < maxRetries THEN @ + 1 ELSE @, !.wait = wait]

\* The oldest letter makes room for a new one.
added(m, wait) ==
    Append(IF Len(letters) < maxCapacity THEN letters ELSE Tail(letters),
           [id |-> m, attempts |-> 1, wait |-> wait])

\* The map becomes next, in which the letters of renewed are stored anew.  A
\* pass skips a letter that is gone, and one stored since it began, whose
\* nextRetryAt lies after its now.
update(next, renewed) ==
    /\ letters' = next
    /\ due' = [s \in Sweepers |-> (due[s] \cap idsOf(next)) \ renewed]
    /\ contended' = contended \cap Quarantined \cap idsOf(next)
    /\ tries' = [m \in Messages |->
                   IF m \in Quarantined \cap idsOf(next) THEN tries[m] ELSE 0]

\* enqueue
enqueueLetter(m) ==
    \E wait \in 1 .. maxWait :
        update(IF m \in Quarantined
               THEN [i \in DOMAIN letters |->
                       IF letters[i].id = m THEN bumped(letters[i], wait) ELSE letters[i]]
               ELSE added(m, wait),
               {m})

indexOf(m) == CHOOSE i \in DOMAIN letters : letters[i].id = m

\* Map.delete(id)
removeLetter(m) ==
    update(IF m \in Quarantined THEN RemoveAt(letters, indexOf(m)) ELSE letters, {})

\* The first failure of a message, or another one seen elsewhere.
deliveryFails(m) ==
    /\ enqueueLetter(m)
    /\ UNCHANGED sending

-----------------------------------------------------------------------------
Held(m) == \E d \in Sweepers \cup Operators : sending[d] = m

\* The processor of d gets m; counts says whether that is a retry.
handOut(d, m, counts) ==
    /\ sending[d] = NoMessage
    /\ sending' = [sending EXCEPT ![d] = m]
    /\ contended' = IF Held(m) THEN contended \cup {m} ELSE contended
    /\ tries' = IF counts /\ m \notin contended' THEN [tries EXCEPT ![m] = @ + 1] ELSE tries

\* redrive(id) up to the await of the processor.  Poison may be redriven by
\* hand, which is no retry.
redrive(o, m) ==
    /\ m \in Quarantined
    /\ handOut(o, m, \E i \in DOMAIN letters : letters[i].id = m /\ ~ Poison(letters[i]))
    /\ UNCHANGED <<letters, due>>

\* Mutant: poison is not looked at.
canRetryPoison(letter) == letter.wait = 0

canRetry(letter) == ~ Poison(letter) /\ letter.wait = 0

\* A pass fixes its now when it begins: from then on letters only cease to be
\* due.  With none due it is over.
redriveEligible(s) ==
    LET eligible == {i \in DOMAIN letters : canRetry(letters[i])} IN
    /\ due[s] = {} /\ sending[s] = NoMessage
    /\ due' = [due EXCEPT ![s] = {letters[i].id : i \in eligible}]
    /\ UNCHANGED <<letters, sending, contended, tries>>

\* The loop goes on to the next letter, in the order of the map.
nextLetter(s) ==
    /\ \E i \in DOMAIN letters :
          LET m == letters[i].id IN
          /\ m \in due[s] /\ \A j \in 1 .. i - 1 : letters[j].id \notin due[s]
          /\ handOut(s, m, TRUE)
          /\ due' = [due EXCEPT ![s] = @ \ {m}]
    /\ UNCHANGED letters

\* The processor is done: the letter goes, whoever stored it last.
processed(d) ==
    /\ sending[d] # NoMessage
    /\ removeLetter(sending[d])
    /\ sending' = [sending EXCEPT ![d] = NoMessage]

\* The processor throws: the letter is stored again, even if it is gone.
processingFails(d) ==
    /\ sending[d] # NoMessage
    /\ enqueueLetter(sending[d])
    /\ sending' = [sending EXCEPT ![d] = NoMessage]

settle(d) == processed(d) \/ processingFails(d)

-----------------------------------------------------------------------------
\* delete(id)
deleteLetter(m) ==
    /\ m \in Quarantined
    /\ removeLetter(m)
    /\ UNCHANGED sending

\* clear()
clearLetters ==
    /\ update(<<>>, {})
    /\ UNCHANGED sending

dlqTick ==
    /\ letters' = [i \in DOMAIN letters |->
                     [letters[i] EXCEPT !.wait = IF @ > 0 THEN @ - 1 ELSE 0]]
    /\ UNCHANGED <<due, sending, contended, tries>>

DlqNext ==
    \/ \E m \in Messages : deliveryFails(m) \/ deleteLetter(m)
    \/ \E o \in Operators, m \in Messages : redrive(o, m)
    \/ \E s \in Sweepers : redriveEligible(s) \/ nextLetter(s)
    \/ \E d \in Sweepers \cup Operators : settle(d)
    \/ clearLetters
    \/ dlqTick

\* Time passes, the outbox sweeps again and again, and processors settle.
DlqSpec ==
    /\ DlqInit
    /\ [][DlqNext]_dlqVars
    /\ \A s \in Sweepers : WF_dlqVars(redriveEligible(s)) /\ WF_dlqVars(nextLetter(s))
    /\ \A d \in Sweepers \cup Operators : WF_dlqVars(settle(d))
    /\ WF_dlqVars(dlqTick)

-----------------------------------------------------------------------------
\* A message is delivered at most maxRetries times before it is poison, the
\* delivery that first failed and the operators' redrives included: "Maximum
\* delivery attempts before marking as POISON" (dead-letter-queue.util.js:16).
\* This is said of letters that were never redriven by two at a time, and
\* whatever else happens to them: failures seen elsewhere, evictions, deletions
\* and the late failures that bring them back.
DeliveredWithinRetries ==
    \A m \in Quarantined \ contended : 1 + tries[m] <= maxRetries

\* Every letter leaves the queue or turns out to be poison: none is retried
\* for ever, and none is passed over by the passes for ever, although other
\* letters are stored, evicted and redriven around it.
EveryLetterSettles ==
    \A m \in Messages :
        m \in Quarantined ~>
            \/ m \notin Quarantined
            \/ \E i \in DOMAIN letters : letters[i].id = m /\ Poison(letters[i])

=============================================================================
