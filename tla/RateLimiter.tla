---------------------------- MODULE RateLimiter ----------------------------
(***************************************************************************)
(* RateLimiter (src/common/utils/rate-limiter.util.js): a sliding window   *)
(* of the requests each client has been allowed.                           *)
(*                                                                         *)
(* A timestamp is kept as the ticks left until it leaves the window, 0     *)
(* when it has; it is dropped by the next check of its key.                *)
(***************************************************************************)
EXTENDS Integers, Sequences, Loops

CONSTANTS
    Clients,       \* keys
    windowTicks,   \* windowMs
    maxRequests

ASSUME RateAssumption ==
    /\ windowTicks \in Nat \ {0}
    /\ maxRequests \in Nat \ {0}

VARIABLES
    hits,     \* timestamps of the allowed requests of each key, oldest first
    allowed   \* the answer to the last request of each key

rateVars == <<hits, allowed>>

RateTypeOK ==
    /\ hits \in [Clients -> UNION {[1 .. n -> 0 .. windowTicks] : n \in 0 .. maxRequests}]
    /\ allowed \in [Clients -> BOOLEAN]

RateInit ==
    /\ hits = [k \in Clients |-> <<>>]
    /\ allowed = [k \in Clients |-> TRUE]

inWindow == 1 .. windowTicks

recent(k) == filtered(hits[k], inWindow)

\* Mutant: a refused request counts as one, in place of the oldest.
afterRefusalCounted(k) == Append(Tail(recent(k)), windowTicks)

\* A refused request is not recorded.
afterRefusal(k) == recent(k)

check(k) ==
    LET room == Len(recent(k)) < maxRequests IN
    /\ hits' = [hits EXCEPT ![k] =
                  IF room THEN Append(recent(k), windowTicks) ELSE afterRefusal(k)]
    /\ allowed' = [allowed EXCEPT ![k] = room]

\* reset(key)
resetClient(k) ==
    /\ hits[k] # <<>>
    /\ hits' = [hits EXCEPT ![k] = <<>>]
    /\ UNCHANGED allowed

\* clear()
clearClients ==
    /\ hits' = [k \in Clients |-> <<>>]
    /\ UNCHANGED allowed

rateTick ==
    /\ hits' = [k \in Clients |-> [i \in DOMAIN hits[k] |->
                    IF hits[k][i] > 0 THEN hits[k][i] - 1 ELSE 0]]
    /\ UNCHANGED allowed

RateNext ==
    \/ \E k \in Clients : check(k) \/ resetClient(k)
    \/ clearClients
    \/ rateTick

\* Time passes, and the clients go on asking.
RateSpec ==
    /\ RateInit
    /\ [][RateNext]_rateVars
    /\ \A k \in Clients : WF_rateVars(check(k))
    /\ WF_rateVars(rateTick)

-----------------------------------------------------------------------------
\* A client that goes on asking, however fast, is allowed again and again: its
\* refused requests do not push the window ahead of it.
KeepsAdmitting == \A k \in Clients : []<> allowed[k]

=============================================================================
