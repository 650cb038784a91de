------------------------- MODULE IdempotencyManager -------------------------
(***************************************************************************)
(* IdempotencyManager (src/common/utils/idempotency.util.js): begin(key,   *)
(* payload) answers NEW to one caller, who processes the payload and then  *)
(* calls complete, or remove if that failed; the others are told IN_FLIGHT *)
(* or given the response.                                                  *)
(*                                                                         *)
(* A fingerprint is the payload itself, and so is the response: it stands  *)
(* for the outcome of processing that payload.  Times are what is left of  *)
(* them, in ticks.                                                         *)
(***************************************************************************)
EXTENDS Integers

CONSTANTS IdemKeys, Payloads, Processors,
          idemTtl,   \* _ttlMs
          NoEntry

ASSUME IdemAssumption ==
    /\ idemTtl \in Nat \ {0}
    /\ NoEntry \notin IdemKeys \cup Payloads
    /\ NoEntry \notin [fingerprint : Payloads, response : Payloads \cup {NoEntry},
                       left : 0 .. idemTtl]

VARIABLES
    store,     \* _store; an entry is COMPLETED when it has a response
    handles,   \* the key each processor was told is NEW
    body,      \* and the payload that came with it
    kept,      \* history: how long the last response is promised to be kept
    outlived   \* history: keys with a processor whose entry was swept away

idemVars == <<store, handles, body, kept, outlived>>

Entry == [fingerprint : Payloads, response : Payloads \cup {NoEntry}, left : 0 .. idemTtl]

IdemTypeOK ==
    /\ store \in [IdemKeys -> Entry \cup {NoEntry}]
    /\ handles \in [Processors -> IdemKeys \cup {NoEntry}]
    /\ body \in [Processors -> Payloads \cup {NoEntry}]
    /\ kept \in [IdemKeys -> 0 .. idemTtl]
    /\ outlived \in SUBSET IdemKeys

IdemInit ==
    /\ store = [k \in IdemKeys |-> NoEntry]
    /\ handles = [p \in Processors |-> NoEntry]
    /\ body = [p \in Processors |-> NoEntry]
    /\ kept = [k \in IdemKeys |-> 0]
    /\ outlived = {}

Handled == {handles[p] : p \in Processors}

\* Mutant: a request is forgotten as soon as it is COMPLETED.
sweptCompleted ==
    [k \in IdemKeys |->
        IF store[k] # NoEntry /\ store[k].response # NoEntry
        THEN NoEntry ELSE store[k]]

\* _cleanup.
swept ==
    [k \in IdemKeys |->
        IF store[k] # NoEntry /\ store[k].left = 0 THEN NoEntry ELSE store[k]]

\* The keys whose processors lose their entry to the sweep.
losers == {k \in IdemKeys : k \in Handled /\ store[k] # NoEntry /\ swept[k] = NoEntry}

\* What begin looks up after _cleanup is not there: NEW.
beginNew(p, k, payload) ==
    /\ handles[p] = NoEntry
    /\ swept[k] = NoEntry
    /\ store' = [swept EXCEPT ![k] = [fingerprint |-> payload, response |-> NoEntry,
                                      left |-> idemTtl]]
    /\ handles' = [handles EXCEPT ![p] = k]
    /\ body' = [body EXCEPT ![p] = payload]
    /\ outlived' = outlived \cup losers
    /\ UNCHANGED kept

\* An error for another payload, IN_FLIGHT, or the response; whichever it is,
\* the expired entries are gone.
beginKnown(k) ==
    /\ swept[k] # NoEntry
    /\ store' = swept
    /\ outlived' = outlived \cup losers
    /\ UNCHANGED <<handles, body, kept>>

\* The processor is done.  A key is no longer outlived when nothing is left of
\* it: no entry, no other processor and no promise.
stops(p) ==
    /\ handles' = [handles EXCEPT ![p] = NoEntry]
    /\ body' = [body EXCEPT ![p] = NoEntry]
    /\ outlived' = {k \in outlived :
                      \/ store'[k] # NoEntry
                      \/ kept'[k] > 0
                      \/ \E q \in Processors \ {p} : handles[q] = k}

\* The entry of the key gets the response, whoever made it.
complete(p) ==
    /\ handles[p] # NoEntry
    /\ IF store[handles[p]] = NoEntry
       THEN UNCHANGED <<store, kept>>
       ELSE /\ store' = [store EXCEPT ![handles[p]].response = body[p]]
            /\ kept' = [kept EXCEPT ![handles[p]] = store[handles[p]].left]
    /\ stops(p)

remove(p) ==
    /\ handles[p] # NoEntry
    /\ store' = [store EXCEPT ![handles[p]] = NoEntry]
    /\ UNCHANGED kept
    /\ stops(p)

idemTick ==
    /\ store' = [k \in IdemKeys |->
                    IF store[k] # NoEntry /\ store[k].left > 0
                    THEN [store[k] EXCEPT !.left = @ - 1] ELSE store[k]]
    /\ kept' = [k \in IdemKeys |-> IF kept[k] > 0 THEN kept[k] - 1 ELSE 0]
    /\ UNCHANGED <<handles, body, outlived>>

IdemNext ==
    \/ \E p \in Processors, k \in IdemKeys, payload \in Payloads : beginNew(p, k, payload)
    \/ \E k \in IdemKeys : beginKnown(k)
    \/ \E p \in Processors : complete(p) \/ remove(p)
    \/ idemTick

IdemSpec == IdemInit /\ [][IdemNext]_idemVars

-----------------------------------------------------------------------------
\* "Prevents double-processing of identical client requests" (idempotency.
\* util.js:7): one processor at most is at a key, none as long as a response
\* to it is promised, and the response kept is the one to the payload kept.
\* All of it is lost while a processor outlives its entry: its late complete
\* or remove hits the entry of the request that took its place.
ProcessedOnce ==
    \A k \in IdemKeys \ outlived :
        /\ \A p, q \in Processors : handles[p] = k /\ handles[q] = k => p = q
        /\ k \in Handled => kept[k] = 0
        /\ store[k] # NoEntry /\ store[k].response # NoEntry =>
              store[k].response = store[k].fingerprint

=============================================================================
