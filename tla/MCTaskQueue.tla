---------------------------- MODULE MCTaskQueue ----------------------------
(***************************************************************************)
(* One job that is taken over between two processes, which meet two        *)
(* disruptions, in two settings: the job travels through the dispatch      *)
(* stream ("stream"), or the process that accepts it runs it ("direct").   *)
(***************************************************************************)
EXTENDS TaskQueue, TLC

CONSTANTS p1, p2, r1, r2, k1, noKey, a, b

VARIABLE part      \* the setting

Symmetry == Permutations(Proc)

\* One job.
OneJob == {r1}
OneKey == (r1 :> noKey)
OnePrint == (r1 :> a)

\* Two independent jobs.
TwoJobs == {r1, r2}
TwoKeys == (r1 :> noKey) @@ (r2 :> noKey)
TwoPrints == (r1 :> a) @@ (r2 :> b)

\* One key sent twice, with the same payload or with another one.
SameKey == (r1 :> k1) @@ (r2 :> k1)
SamePrint == (r1 :> a) @@ (r2 :> a)

-----------------------------------------------------------------------------
Direct == INSTANCE TaskQueue WITH
    DurableDispatch <- FALSE, Traced <- {}, DelayedRetry <- TRUE,
    ReadsClockFirst <- FALSE

TakeoverInit ==
    \/ part = "stream" /\ Init
    \/ part = "direct" /\ Direct!Init

TakeoverNext ==
    /\ \/ part = "stream" /\ Next
       \/ part = "direct" /\ Direct!Next
    /\ UNCHANGED part

TakeoverSpec == TakeoverInit /\ [][TakeoverNext]_<<vars, part>>
=============================================================================
