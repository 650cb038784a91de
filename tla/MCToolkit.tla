----------------------------- MODULE MCToolkit -----------------------------
(***************************************************************************)
(* The HCM client and the utilities of src/common/utils for TLC.           *)
(*                                                                         *)
(* They share no state, so each behaviour picks one of them and runs it    *)
(* alone, with the others at rest: the states of the components add up and *)
(* do not multiply.                                                        *)
(***************************************************************************)
EXTENDS HcmClient, LockManager, RequestDeduplicator, IdempotencyManager,
        TokenBucketLimiter, RateLimiter, PriorityQueue, DeadLetterQueue, EventBus

VARIABLE focus   \* the component that runs

Components == {"client", "locks", "dedup", "idempotency", "bucket", "rate", "queue",
               "letters", "bus"}

ToolkitTypeOK ==
    /\ focus \in Components
    /\ ClientTypeOK /\ LockTypeOK /\ DedupTypeOK /\ IdemTypeOK /\ BucketTypeOK
    /\ RateTypeOK /\ QueueTypeOK /\ DlqTypeOK /\ BusTypeOK

ToolkitInit ==
    /\ focus \in Components
    /\ Init /\ LockInit /\ DedupInit /\ IdemInit /\ BucketInit
    /\ RateInit /\ QueueInit /\ DlqInit /\ BusInit
    /\ focus # "client" => healthy

rests(c, v) == focus # c /\ UNCHANGED v

ToolkitNext ==
    /\ UNCHANGED focus
    /\ rests("client", vars) \/ (focus = "client" /\ Next)
    /\ rests("locks", lockVars) \/ (focus = "locks" /\ LockNext)
    /\ rests("dedup", dedupVars) \/ (focus = "dedup" /\ DedupNext)
    /\ rests("idempotency", idemVars) \/ (focus = "idempotency" /\ IdemNext)
    /\ rests("bucket", bucketVars) \/ (focus = "bucket" /\ BucketNext)
    /\ rests("rate", rateVars) \/ (focus = "rate" /\ RateNext)
    /\ rests("queue", queueVars) \/ (focus = "queue" /\ QueueNext)
    /\ rests("letters", dlqVars) \/ (focus = "letters" /\ DlqNext)
    /\ rests("bus", busVars) \/ (focus = "bus" /\ BusNext)

toolkitVars == <<focus, vars, lockVars, dedupVars, idemVars, bucketVars, rateVars,
                 queueVars, dlqVars, busVars>>

\* The fairness of HcmClient, RateLimiter and DeadLetterQueue, for the one that
\* runs.
ToolkitSpec ==
    /\ ToolkitInit
    /\ [][ToolkitNext]_toolkitVars
    /\ \A c \in Callers : /\ WF_vars(focus = "client" /\ begin(c))
                          /\ WF_vars(focus = "client" /\ Step(c))
    /\ WF_vars(focus = "client" /\ Tick)
    /\ \A k \in Clients : WF_rateVars(focus = "rate" /\ check(k))
    /\ WF_rateVars(focus = "rate" /\ rateTick)
    /\ \A s \in Sweepers : /\ WF_dlqVars(focus = "letters" /\ redriveEligible(s))
                           /\ WF_dlqVars(focus = "letters" /\ nextLetter(s))
    /\ \A d \in Sweepers \cup Operators : WF_dlqVars(focus = "letters" /\ settle(d))
    /\ WF_dlqVars(focus = "letters" /\ dlqTick)

=============================================================================
