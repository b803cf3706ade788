---------------------------- MODULE ResultCommit ----------------------------
(***************************************************************************)
(* From a delivered job to a committed result:                             *)
(* HarnessWorkflowApplication.execute (workflow_harness_application.py),   *)
(* the durable result journal (workflow_result_store.py), the production   *)
(* commit (workflow_production_application.py), the memory writer          *)
(* (workflow_memory_result_writer.py) and the candidate pipeline           *)
(* (workflow_memory_candidate_pipeline.py), for one workflow.              *)
(*                                                                         *)
(* The job is delivered until an execution returns, it has failed for good *)
(* or its attempts are used up.  An execution may die between any two of   *)
(* its steps, and its lease may be lost: it looks at the fence before each *)
(* effect, so one effect may still follow a loss.                          *)
(* The kernel is the one of HarnessKernel, seen through its run state, the *)
(* result its terminal receipt names, and whether a checkpoint is durable. *)
(***************************************************************************)
EXTENDS Naturals

CONSTANTS
  Owners,         \* executions of the job that may be alive together
  Outcomes,       \* results a run of the workflow may produce
  MaxDeliveries,  \* max_attempts of the job
  MaxLosses       \* bound: deaths, losses of the lease and calls that raise

ASSUME OwnersAssumption == "none" \notin Owners

VARIABLES
  kernel,     \* [state, accepted, checkpoint]
  journal,    \* the row of the workflow: [staged, proof, committed]
  records,    \* memory: proof of the event, decision and outcome, and the candidate
  app,        \* app[o]: the execution of owner o
  holder,     \* the owner whose lease holds, or "none"
  job,        \* "pending" until an execution returns ("done"), or "failed" for good
  deliveries, \* attempts begun
  signal,     \* the cancellation signal
  stamp,      \* the next accepted_at
  losses

commit == <<kernel, journal, records, app, holder, job, deliveries, signal, stamp, losses>>

NoApp == [at |-> "idle", seen |-> "none", done |-> FALSE, result |-> "none", proof |-> 0,
          armed |-> FALSE]
Terminal == {"succeeded", "degraded", "cancelled"}
Stages == {"idle", "load", "create", "run", "invoke", "stage", "advance", "settled", "bind",
           "event", "decision", "outcome", "propose", "marker", "mark", "return"}

CommitTypeOK ==
  /\ kernel.state \in {"absent", "running"} \cup Terminal
  /\ {kernel.accepted, journal.staged} \subseteq Outcomes \cup {"none"}
  /\ \A o \in Owners : app[o].at \in Stages
  /\ journal.committed => journal.proof > 0
  /\ \A o \in Owners : app[o].armed => holder # o

CommitInit ==
  /\ kernel = [state |-> "absent", accepted |-> "none", checkpoint |-> FALSE]
  /\ journal = [staged |-> "none", proof |-> 0, committed |-> FALSE]
  /\ records = [event |-> 0, decision |-> 0, outcome |-> 0, candidate |-> "none"]
  /\ app = [o \in Owners |-> NoApp] /\ holder = "none" /\ job = "pending" /\ deliveries = 0
  /\ signal = FALSE /\ stamp = 1 /\ losses = 0

-----------------------------------------------------------------------------
(* An owner may act while its lease holds, or once more if it had already  *)
(* looked when the lease was lost.                                         *)
May(o) == holder = o \/ app[o].armed
Step(o, s) == app' = [app EXCEPT ![o] = [s EXCEPT !.armed = FALSE]] /\ UNCHANGED job
Stop(o) == app' = [app EXCEPT ![o] = NoApp]
Lose == losses < MaxLosses /\ losses' = losses + 1

(* RetryableTaskError: the job is tried again, if an attempt is left.      *)
Retried(o) ==
  /\ Stop(o)
  /\ job' = IF holder = o /\ deliveries = MaxDeliveries THEN "failed" ELSE job

(* The queue delivers the job to an idle owner; while another is alive     *)
(* that is a takeover.  A job whose attempts are used up is failed instead.*)
Redelivery == holder \in Owners => app[holder].at = "idle"
Deliver(o) ==
  /\ job = "pending" /\ app[o].at = "idle" /\ deliveries < MaxDeliveries
  /\ IF Redelivery
     THEN /\ app' = [app EXCEPT ![o] = [NoApp EXCEPT !.at = "load"]] /\ UNCHANGED losses
     ELSE /\ Lose
          /\ \E b \in BOOLEAN :
               app' = [app EXCEPT ![o] = [NoApp EXCEPT !.at = "load"], ![holder].armed = b]
  /\ holder' = o /\ deliveries' = deliveries + 1
  /\ UNCHANGED <<kernel, journal, records, job, signal, stamp>>
Exhausted ==
  /\ job = "pending" /\ deliveries = MaxDeliveries
  /\ IF Redelivery THEN UNCHANGED <<app, losses>>
     ELSE Lose /\ \E b \in BOOLEAN : app' = [app EXCEPT ![holder].armed = b]
  /\ job' = "failed" /\ holder' = "none"
  /\ UNCHANGED <<kernel, journal, records, deliveries, signal, stamp>>

(* The process dies, or the lost lease is noticed, and the job stays       *)
(* pending; or a call raises, and the job is failed for good: the error is *)
(* not retryable, this was the last attempt, or the retry could not be     *)
(* recorded or was cut short by a shutdown.                                *)
Die(o) ==
  /\ app[o].at # "idle"
  /\ IF May(o) THEN Lose ELSE UNCHANGED losses
  /\ Stop(o)
  /\ UNCHANGED job \/ (holder = o /\ job' = "failed")
  /\ UNCHANGED <<kernel, journal, records, holder, deliveries, signal, stamp>>

Cancel ==
  /\ ~signal /\ signal' = TRUE
  /\ UNCHANGED <<kernel, journal, records, app, holder, job, deliveries, stamp, losses>>

-----------------------------------------------------------------------------
(* execute: what an earlier delivery staged replaces the run.              *)
LoadResult(o) ==
  /\ app[o].at = "load" /\ May(o)
  /\ Step(o, [app[o] EXCEPT !.at = "create", !.seen = journal.staged,
                            !.result = journal.staged, !.done = journal.committed])
  /\ UNCHANGED <<kernel, journal, records, holder, deliveries, signal, stamp, losses>>

(* A run that has ended is not entered again.                              *)
Create(o) ==
  /\ app[o].at = "create" /\ May(o)
  /\ kernel' = IF kernel.state = "absent" THEN [kernel EXCEPT !.state = "running"] ELSE kernel
  /\ Step(o, [app[o] EXCEPT !.at = IF kernel'.state = "running" THEN "run" ELSE "settled"])
  /\ UNCHANGED <<journal, records, holder, deliveries, signal, stamp, losses>>

(* Cancelled before it starts, prepared, interrupted, or to be run.        *)
Run(o) ==
  LET a == app[o] IN
  /\ a.at = "run" /\ May(o)
  /\ kernel' = IF signal /\ kernel.state = "running" THEN [kernel EXCEPT !.state = "cancelled"]
               ELSE kernel
  /\ Step(o, [a EXCEPT !.at = IF ~signal /\ a.seen = "none" /\ ~kernel.checkpoint
                              THEN "invoke" ELSE "advance"])
  /\ UNCHANGED <<journal, records, holder, deliveries, signal, stamp, losses>>

(* The workflow runs: it leaves checkpoints, and a result or an error.     *)
RecordCheckpoint(o) ==
  /\ app[o].at = "invoke" /\ May(o) /\ ~kernel.checkpoint /\ kernel.state = "running"
  /\ kernel' = [kernel EXCEPT !.checkpoint = TRUE]
  /\ Step(o, app[o])
  /\ UNCHANGED <<journal, records, holder, deliveries, signal, stamp, losses>>
Invoke(o) ==
  /\ app[o].at = "invoke" /\ May(o)
  /\ \/ \E r \in Outcomes : Step(o, [app[o] EXCEPT !.at = "stage", !.result = r])
     \/ Step(o, [app[o] EXCEPT !.at = "advance", !.result = "none"])
  /\ UNCHANGED <<kernel, journal, records, holder, deliveries, signal, stamp, losses>>

(* The journal keeps the first execution staged; another is refused and    *)
(* the job retried.                                                        *)
\* Mutant: the result is staged when it has been accepted.
Stage_Late(o) ==
  /\ app[o].at = "stage" /\ May(o)
  /\ Step(o, [app[o] EXCEPT !.at = "advance"])
  /\ UNCHANGED <<kernel, journal, records, holder, deliveries, signal, stamp, losses>>
Stage(o) ==
  /\ app[o].at = "stage" /\ May(o)
  /\ journal' = IF journal.staged = "none" THEN [journal EXCEPT !.staged = app[o].result]
                ELSE journal
  /\ IF journal'.staged = app[o].result
     THEN Step(o, [app[o] EXCEPT !.at = "advance", !.seen = app[o].result, !.done = journal.committed])
     ELSE Retried(o)
  /\ UNCHANGED <<kernel, records, holder, deliveries, signal, stamp, losses>>
(* The kernel settles the run: accepted, degraded or cancelled.            *)
Advance(o) ==
  /\ app[o].at = "advance" /\ May(o)
  /\ IF kernel.state # "running" THEN UNCHANGED kernel
     ELSE IF signal THEN kernel' = [kernel EXCEPT !.state = "cancelled"]
     ELSE \/ kernel' = [kernel EXCEPT !.state = "degraded"]
          \/ app[o].result # "none"
               /\ kernel' = [kernel EXCEPT !.state = "succeeded", !.accepted = app[o].result]
  /\ Step(o, [app[o] EXCEPT !.at = "settled"])
  /\ UNCHANGED <<journal, records, holder, deliveries, signal, stamp, losses>>

(* A success with no result at hand is retried; one that was cancelled     *)
(* meanwhile is returned and not committed.                                *)
Settled(o) ==
  LET a == app[o] IN
  /\ a.at = "settled" /\ May(o)
  /\ IF kernel.state = "succeeded" /\ a.result = "none" THEN Retried(o)
     ELSE Step(o, [a EXCEPT !.at = IF kernel.state = "succeeded" /\ ~signal
                                   THEN "bind" ELSE "return"])
  /\ UNCHANGED <<kernel, journal, records, holder, deliveries, signal, stamp, losses>>

(* bind_proof: the receipt must name the result; the first proof stays,    *)
(* with its time of acceptance.                                            *)
Bound(o) == IF journal.proof > 0 THEN journal.proof ELSE stamp
Bind(o) ==
  LET a == app[o] IN
  /\ a.at = "bind" /\ May(o)
  /\ IF kernel.accepted = a.result /\ journal.staged = a.result
     THEN /\ journal' = [journal EXCEPT !.proof = Bound(o)]
          /\ stamp' = IF Bound(o) = stamp THEN stamp + 1 ELSE stamp
          /\ Step(o, [a EXCEPT !.at = IF a.done THEN "return" ELSE "event", !.proof = Bound(o)])
     ELSE Retried(o) /\ UNCHANGED <<journal, stamp>>
  /\ UNCHANGED <<kernel, records, holder, deliveries, signal, losses>>

-----------------------------------------------------------------------------
(* The memory writer appends the event, the decision and the outcome under *)
(* keys of the workflow: an equal record is a replay, another a conflict.  *)
AppendRecord(o, kind, next) ==
  /\ app[o].at = kind /\ May(o)
  /\ IF records[kind] \in {0, app[o].proof}
     THEN /\ records' = [records EXCEPT ![kind] = app[o].proof]
          /\ Step(o, [app[o] EXCEPT !.at = next])
     ELSE Retried(o) /\ UNCHANGED records
  /\ UNCHANGED <<kernel, journal, holder, deliveries, signal, stamp, losses>>
WriteRecords(o) ==
  \/ AppendRecord(o, "event", "decision")
  \/ AppendRecord(o, "decision", "outcome")
  \/ AppendRecord(o, "outcome", "propose")

(* Extraction proposes the candidate, then leaves the completion marker;   *)
(* if it raises, the commit goes on without it.                            *)
ProposeCandidate(o) ==
  /\ app[o].at = "propose" /\ May(o)
  /\ \/ records' = [records EXCEPT !.candidate = IF @ = "none" THEN "proposed" ELSE @]
        /\ Step(o, [app[o] EXCEPT !.at = "marker"]) /\ UNCHANGED losses
     \/ Lose /\ Step(o, [app[o] EXCEPT !.at = "mark"]) /\ UNCHANGED records
  /\ UNCHANGED <<kernel, journal, holder, deliveries, signal, stamp>>
Marker(o) ==
  /\ app[o].at = "marker" /\ May(o)
  /\ records' = [records EXCEPT !.candidate = "completed"]
  /\ Step(o, [app[o] EXCEPT !.at = "mark"])
  /\ UNCHANGED <<kernel, journal, holder, deliveries, signal, stamp, losses>>

(* retry_pending, from the maintenance loop: every recorded outcome        *)
(* without a marker is extracted again.                                    *)
RetryPending ==
  /\ records.outcome > 0 /\ records.candidate # "completed"
  /\ records' = [records EXCEPT !.candidate = "completed"]
  /\ UNCHANGED <<kernel, journal, app, holder, job, deliveries, signal, stamp, losses>>

MarkCommitted(o) ==
  /\ app[o].at = "mark" /\ May(o)
  /\ IF journal.proof = app[o].proof
     THEN journal' = [journal EXCEPT !.committed = TRUE] /\ Step(o, [app[o] EXCEPT !.at = "return"])
     ELSE Retried(o) /\ UNCHANGED journal
  /\ UNCHANGED <<kernel, records, holder, deliveries, signal, stamp, losses>>

Return(o) ==
  /\ app[o].at = "return" /\ May(o)
  /\ job' = IF holder = o THEN "done" ELSE job
  /\ Stop(o)
  /\ UNCHANGED <<kernel, journal, records, holder, deliveries, signal, stamp, losses>>

Execute(o) ==
  \/ LoadResult(o) \/ Create(o) \/ Run(o) \/ Invoke(o) \/ Stage(o) \/ Advance(o) \/ Settled(o)
  \/ Bind(o) \/ WriteRecords(o) \/ ProposeCandidate(o) \/ Marker(o) \/ MarkCommitted(o) \/ Return(o)

CommitNext ==
  \/ Cancel \/ RetryPending \/ Exhausted
  \/ \E o \in Owners : Deliver(o) \/ Execute(o) \/ RecordCheckpoint(o) \/ Die(o)

(* The queue delivers or fails a pending job that nobody runs, a live      *)
(* execution goes on, and the maintenance loop comes round.                *)
Delivery == Redelivery /\ (Exhausted \/ \E o \in Owners : Deliver(o))
CommitFair ==
  /\ WF_commit(Delivery)
  /\ \A o \in Owners : WF_commit(Execute(o))
  /\ WF_commit(RetryPending)
CommitSpec == CommitInit /\ [][CommitNext]_commit /\ CommitFair

-----------------------------------------------------------------------------
(* An accepted result can be recovered: when the kernel has accepted, the  *)
(* journal holds exactly the result the receipt names, so a crash before   *)
(* the commit loses nothing and a second run cannot take its place.        *)
Recoverable == kernel.state = "succeeded" => journal.staged = kernel.accepted

(* However often the commit is replayed, and by whichever owner, memory    *)
(* holds records of one proof only, the one in the journal, and no replay  *)
(* is refused as a conflict.                                               *)
OneProof ==
  /\ {records.event, records.decision, records.outcome} \ {0} \subseteq {journal.proof} \ {0}
  /\ journal.committed => records.outcome = journal.proof

(* What the kernel accepted is committed in the end, unless the workflow   *)
(* is cancelled after it was accepted, or its job failed for good: then an *)
(* execution of it died, lost its lease or met an error.                   *)
EventuallyCommitted ==
  kernel.state = "succeeded" ~> journal.committed \/ signal \/ (job = "failed" /\ losses > 0)

(* Every outcome written to memory is extracted in the end, also when the  *)
(* extraction raised or its process died.                                  *)
EventuallyExtracted == records.outcome > 0 ~> records.candidate = "completed"
=============================================================================
