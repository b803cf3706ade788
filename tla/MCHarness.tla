------------------------------ MODULE MCHarness ------------------------------
(***************************************************************************)
(* Two kernels race to create a run and to make its first move ("create"), *)
(* or to lead a running run to its end ("race"); or one of them, `part',   *)
(* leads a running run to its end through candidates, checkpoints, a       *)
(* refused usage and a crash or a failing issuer.                          *)
(***************************************************************************)
EXTENDS HarnessKernel, TLC

CONSTANT c1        \* a candidate

VARIABLE part      \* the setting

\* The stream of a run that was never created, and of one that an undisturbed
\* kernel has led to the running state.
NewRun == <<>>

Undisturbed(n) ==
    LET path == <<"created", "admitted", "planned", "ready", "running">>
        Body(i) == Payload(path[i], "none", NoCandidate, "none", 0)
    IN  [e \in 1 .. 2 * n - 1 |->
            IF e % 2 = 1 THEN TransitionEvent((e - 1) \div 2, Body((e + 1) \div 2))
                         ELSE AuthorityEvent(e \div 2, e \div 2, Body(e \div 2 + 1))]

RunningRun == Undisturbed(5)

\* The processes run the same code on the same store.
Replicas == Permutations(Kernels)

-----------------------------------------------------------------------------
\* Kernels that race have no candidate, checkpoint or fault.
Fresh == INSTANCE HarnessKernel WITH
    Prior <- NewRun, Candidates <- {}, Usages <- {"synthetic"},
    MaxCheckpoints <- 0, MaxRejects <- 0, MaxFaults <- 0

Race == INSTANCE HarnessKernel WITH
    Prior <- RunningRun, Candidates <- {}, Usages <- {"synthetic"},
    MaxCheckpoints <- 0, MaxRejects <- 0, MaxFaults <- 0

\* What a racing kernel does.  create returns the run there is, and resume takes
\* no lock and writes nothing another process reads: both are left to the other
\* settings.
Racing(k) == Race!Advance(k) \/ Race!Cancel(k) \/ Race!Step(k)

\* Bound: the events of a run that was created and admitted.
FirstEvents == 3

HarnessInit ==
    \/ part = "create" /\ Fresh!Init
    \/ part = "race" /\ Race!Init
    \/ part \in Kernels /\ Init

HarnessNext ==
    /\ \/ /\ part = "create"
          /\ IF Len(events) < FirstEvents THEN Fresh!Next ELSE UNCHANGED vars
       \/ part = "race" /\ \E k \in Kernels : Racing(k)
       \/ \E k \in Kernels : part = k /\ Kernel(k)
    /\ UNCHANGED part

HarnessSpec == HarnessInit /\ [][HarnessNext]_<<vars, part>>

\* Two kernels race on the stream that Prior names.
RaceSpec == part = "race" /\ Init /\ [][Next /\ UNCHANGED part]_<<vars, part>>

-----------------------------------------------------------------------------
\* What one kernel leaves in the stream, whatever stopped it, a kernel started
\* afresh can take over: every charge replays (_restore_budget_from_events) and
\* a candidate has one applied decision to return (_committed_candidate).
TakenOver == part \in Kernels => RestartReplays /\ AnsweredOnce
=============================================================================
