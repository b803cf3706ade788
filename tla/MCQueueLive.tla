----------------------------- MODULE MCQueueLive -----------------------------
(***************************************************************************)
(* One process that meets one disruption, in four settings.  "stream": two *)
(* jobs travel through the dispatch stream.  "direct": two jobs, no        *)
(* stream, room for one.  "replay" and "conflict": as "direct", and the    *)
(* two calls carry one key, with the same payload or another one.          *)
(***************************************************************************)
EXTENDS MCTaskQueue

Replay == INSTANCE TaskQueue WITH
    DurableDispatch <- FALSE, Traced <- {}, DelayedRetry <- TRUE,
    ReadsClockFirst <- FALSE, KeyOf <- SameKey, PrintOf <- SamePrint
Conflict == INSTANCE TaskQueue WITH
    DurableDispatch <- FALSE, Traced <- {}, DelayedRetry <- TRUE,
    ReadsClockFirst <- FALSE, KeyOf <- SameKey

LiveInit ==
    \/ part = "stream" /\ Init
    \/ part = "direct" /\ Direct!Init
    \/ part = "replay" /\ Replay!Init
    \/ part = "conflict" /\ Conflict!Init

LiveNext ==
    /\ \/ part = "stream" /\ Next
       \/ part = "direct" /\ Direct!Next
       \/ part = "replay" /\ Replay!Next
       \/ part = "conflict" /\ Conflict!Next
    /\ UNCHANGED part

(* The steps that Fairness names, with the constants of the setting: only  *)
(* the calls tell "replay" and "conflict" from "direct".                   *)
Submits(r) ==
    \/ part = "stream" /\ Submit(r)
    \/ part = "direct" /\ Direct!Submit(r)
    \/ part = "replay" /\ Replay!Submit(r)
    \/ part = "conflict" /\ Conflict!Submit(r)
Locked(p) == IF part = "stream" THEN Reserved(p) ELSE Direct!Reserved(p)
Recovers(p) == IF part = "stream" THEN RecoverNext(p) ELSE Direct!RecoverNext(p)
Works(p, j) == IF part = "stream" THEN Worker(p, j) ELSE Direct!Worker(p, j)
Renews(p, j) ==
    \E t \in 1..MaxClaims :
        IF part = "stream" THEN BeatRenew(p, j, t) ELSE Direct!BeatRenew(p, j, t)

LiveFairness ==
    /\ \A r \in Job : SF_vars(Submits(r))
    /\ \A p \in Proc : /\ WF_vars(Locked(p)) /\ WF_vars(RecoverPage(p)) /\ WF_vars(Recovers(p))
                       /\ WF_vars(CloseExecutor(p)) /\ WF_vars(StopHeartbeat(p))
                       /\ WF_vars(Exit(p)) /\ WF_vars(Restart(p))
    /\ \A p \in Proc, j \in Job :
          /\ WF_vars(Works(p, j)) /\ WF_vars(Deliver(p, j)) /\ WF_vars(Renews(p, j))
          /\ WF_vars(\E t \in 1..MaxClaims : TaskReleased(p, j, t))
    /\ \A j \in Job : WF_vars(LeaseLapses(j))

LiveSpec == LiveInit /\ [][LiveNext]_<<vars, part>> /\ LiveFairness

\* CapacityConserved of TaskQueue, in every setting.
PermitsConserved ==
    /\ part = "stream" => CapacityConserved
    /\ part # "stream" => Direct!CapacityConserved

\* OneJobPerKey of TaskQueue, where the calls carry a key.
KeyedOnce ==
    /\ part = "replay" => Replay!OneJobPerKey
    /\ part = "conflict" => Conflict!OneJobPerKey
=============================================================================
