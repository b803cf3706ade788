----------------------------- MODULE TaskQueue -----------------------------
(***************************************************************************)
(* BackgroundTaskQueue (market_agent/backend/task_queue.py) in several     *)
(* processes that share one job table.  Every database transaction is a    *)
(* step of its own, and so is every piece of local work between two of     *)
(* them; a fence check belongs to the local work before the write it       *)
(* guards, so that the fence may be latched between check and write.       *)
(*                                                                         *)
(* A disruption is what the environment may do to the system and what the  *)
(* code is written to survive: a process crash, an orderly shutdown, a     *)
(* database or broker call that raises (its effect applied or not), a      *)
(* heartbeat too late for its lease.  Their number is bounded.             *)
(***************************************************************************)
EXTENDS JobRepository

CONSTANTS Proc,            \* processes that run a BackgroundTaskQueue
          Workers,         \* max_workers
          Capacity,        \* _capacity_limit = max_workers + queue_capacity
          DurableDispatch, \* jobs travel through the Redis dispatch stream
          Traced,          \* jobs whose payload carries a valid trace_id
          DelayedRetry,    \* retry_delay_seconds > 0
          MaxDisruptions   \* bound: disruptions in one behaviour

ASSUME QueueAssumption ==
    /\ Workers \in Nat \ {0}
    /\ Capacity \in Nat /\ Workers <= Capacity
    /\ DurableDispatch \in BOOLEAN
    /\ Traced \subseteq Job
    /\ DelayedRetry \in BOOLEAN
    /\ MaxDisruptions \in Nat

VARIABLES
    mode,         \* "up", "draining" (shutdown event set), "closed" (executor
                  \* shut down), "stopped" (heartbeat told to stop) or "down"
    permits,      \* value of the _capacity semaphore
    holder,       \* what the thread inside _submission_lock is doing
    exec,         \* per process and job, the active execution
    returning,    \* executions that left the active set, lease unreleased
    beat,         \* leases the heartbeat has snapshotted but not renewed
    silent,       \* processes with _lease_stop_event set: no new heartbeat
    req,          \* the clients' submit calls
    mail,         \* jobs with an unacknowledged task.dispatch message
    disruptions   \* disruptions still to come

queueVars == <<mode, permits, holder, exec, returning, beat, silent, req, mail>>
vars == <<jobVars, queueVars, disruptions>>

\* An operation on job 0 is no operation: the _submission_lock is free.
NoJob == 0
Holding(kind, j, pc, page) ==
    [kind |-> kind, job |-> j, pc |-> pc, tok |-> NoToken, raised |-> FALSE, page |-> page]
Free == Holding("none", NoJob, "page", {})
Idle == [pc |-> "none", tok |-> NoToken, attempt |-> 0, lost |-> FALSE]

Init ==
    /\ JobInit
    /\ mode = [p \in Proc |-> "up"]
    /\ permits = [p \in Proc |-> Capacity]
    /\ holder = [p \in Proc |-> Free]
    /\ exec = [p \in Proc |-> [j \in Job |-> Idle]]
    /\ returning = [p \in Proc |-> {}]
    /\ beat = [p \in Proc |-> {}]
    /\ silent = {}
    /\ req = [r \in Job |-> [pc |-> "new", at |-> "none", job |-> NoJob]]
    /\ mail = {}
    /\ disruptions = MaxDisruptions

Alive(p) == mode[p] # "down"
IsActive(p, j) == exec[p][j].pc # "none"       \* _active_job_ids
LockFree(p) == Alive(p) /\ holder[p] = Free

Disrupt == disruptions > 0 /\ disruptions' = disruptions - 1

\* A database call with effect A raises: its transaction committed and the
\* answer was lost, or it did not commit.
Raises(A) == Disrupt /\ (A \/ UNCHANGED jobVars)

Answer(r, pc, j) == req' = [req EXCEPT ![r] = [@ EXCEPT !.pc = pc, !.job = j]]
Goto(p, j, pc) == exec' = [exec EXCEPT ![p][j] = [@ EXCEPT !.pc = pc]]
Unlock(p) == holder' = [holder EXCEPT ![p] = Free]
Return(p) == permits' = [permits EXCEPT ![p] = @ + 1]

(***************************************************************************)
(* submit                                                                  *)
(***************************************************************************)

\* Reserve capacity.  With durable dispatch no permit is needed here; when
\* the queue is full only a replay of an idempotency key can be served.
SubmitBegin(r, p) ==
    /\ req[r].pc = "new" /\ mode[p] = "up"
    /\ LET Go(pc) == req' = [req EXCEPT ![r] = [pc |-> pc, at |-> p, job |-> NoJob]]
       IN  \/ /\ DurableDispatch
              /\ Go("waiting") /\ UNCHANGED permits
           \/ /\ ~DurableDispatch /\ permits[p] > 0
              /\ permits' = [permits EXCEPT ![p] = @ - 1]
              /\ Go("waiting")
           \/ /\ ~DurableDispatch /\ permits[p] = 0
              /\ Go(IF KeyOf[r] = NoKey THEN "full" ELSE "lookup")
              /\ UNCHANGED permits
    /\ UNCHANGED <<jobVars, mode, silent, holder, exec, returning, beat, mail, disruptions>>

\* find_idempotent_job of a submission that found the queue full.
SubmitLookup(r) ==
    /\ req[r].pc = "lookup" /\ LockFree(req[r].at)
    /\ \/ /\ WithKeyOf(r) = {}
          /\ Answer(r, "full", NoJob) /\ UNCHANGED disruptions
       \/ \E j \in WithKeyOf(r) :
          /\ Answer(r, IF Conflicts(r, j) THEN "conflict" ELSE "reused", j)
          /\ UNCHANGED disruptions
       \/ Disrupt /\ Answer(r, "unavailable", NoJob)
    /\ UNCHANGED <<jobVars, mode, silent, permits, holder, exec, returning, beat, mail>>

\* submit gives back its permit (its `finally' clause).
SubmitReturn(p) == IF DurableDispatch THEN UNCHANGED permits ELSE Return(p)

\* create_or_get_job under the lock: the key is known; or the row is inserted
\* and the lock stays held; or the call raises.
SubmitInsert(r) ==
    LET p == req[r].at IN
    /\ req[r].pc = "waiting" /\ LockFree(p)
    /\ \/ /\ \E j \in WithKeyOf(r) :
                Answer(r, IF Conflicts(r, j) THEN "conflict" ELSE "reused", j)
          /\ SubmitReturn(p)
          /\ UNCHANGED <<jobVars, holder, disruptions>>
       \/ /\ CreateJob(r)
          /\ Answer(r, "inside", r)
          /\ holder' = [holder EXCEPT ![p] =
                Holding("submit", r, IF DurableDispatch THEN "publish" ELSE "claim", {})]
          /\ UNCHANGED <<permits, disruptions>>
       \/ /\ Raises(CreateJob(r))
          /\ Answer(r, "unavailable", NoJob)
          /\ SubmitReturn(p)
          /\ UNCHANGED holder
    /\ UNCHANGED <<mode, silent, exec, returning, beat, mail>>

\* _publish_dispatch: a job without a trace id, or a broker that fails,
\* leaves the accepted row to the recovery loop.
PublishDispatch(p) ==
    LET j == holder[p].job IN
    /\ Alive(p) /\ holder[p].pc = "publish"
    /\ \/ /\ j \in Traced
          /\ mail' = mail \cup {j}
          /\ Answer(j, "accepted", j) /\ UNCHANGED disruptions
       \/ /\ j \in Traced /\ Disrupt
          /\ mail' \in {mail, mail \cup {j}}
          /\ Answer(j, "unavailable", NoJob)
       \/ /\ j \notin Traced
          /\ Answer(j, "unavailable", NoJob) /\ UNCHANGED <<mail, disruptions>>
    /\ Unlock(p)
    /\ UNCHANGED <<jobVars, mode, silent, permits, exec, returning, beat>>

(***************************************************************************)
(* _submit_reserved, called with _submission_lock held by submit, by the   *)
(* recovery loop and by the dispatch consumer.                             *)
(***************************************************************************)

\* Mutant: the permit is given back in every case.
PermitBack_Always(p, scheduled) == Return(p)

\* `if not scheduled: self._capacity.release()'
PermitBack(p, scheduled) == IF scheduled THEN UNCHANGED permits ELSE Return(p)

\* What each caller does with the permit, the lock and the answer.
Returned(p, scheduled) ==
    LET h == holder[p] IN
    /\ PermitBack(p, scheduled)
    /\ IF h.kind = "recovery"
       THEN holder' = [holder EXCEPT ![p] = Holding("recovery", NoJob, "page", h.page)]
       ELSE Unlock(p)
    /\ IF h.kind = "submit" THEN Answer(h.job, "accepted", h.job) ELSE UNCHANGED req
    /\ mail' = IF h.kind = "dispatch" THEN mail \ {h.job} ELSE mail

\* The exception leaves the message pending and aborts a recovery page.
Raised(p) ==
    LET h == holder[p] IN
    /\ PermitBack(p, FALSE)
    /\ Unlock(p)
    /\ IF h.kind = "submit" THEN Answer(h.job, "unavailable", NoJob) ELSE UNCHANGED req
    /\ UNCHANGED mail

\* Mutants: attempts are not counted at recovery; off by one.
AttemptsLeft_Always(j) == TRUE
AttemptsLeft_OneLess(j) == attempts[j] + 1 < MaxAttempts

AttemptsLeft(j) == attempts[j] < MaxAttempts

\* The claim is refused when the job is active here, or when somebody else
\* holds or has finished it.
ClaimRefused(p) ==
    LET j == holder[p].job IN
    /\ Alive(p) /\ holder[p].pc = "claim"
    /\ IsActive(p, j) \/ ~Claimable(j, holder[p].kind # "submit")
    /\ Returned(p, FALSE)
    /\ UNCHANGED <<jobVars, mode, silent, exec, returning, beat, disruptions>>

\* A claimed job becomes active, unless its attempts are spent.
ClaimGranted(p) ==
    LET j == holder[p].job IN
    /\ Alive(p) /\ holder[p].pc = "claim" /\ ~IsActive(p, j)
    /\ ClaimJob(j, holder[p].kind # "submit")
    /\ \/ /\ AttemptsLeft(j)
          /\ exec' = [exec EXCEPT ![p][j] = [pc |-> "admitted", tok |-> drawn[j] + 1,
                                             attempt |-> attempts[j] + 1, lost |-> FALSE]]
          /\ holder' = [holder EXCEPT ![p] = [@ EXCEPT !.pc = "schedule"]]
       \/ /\ ~AttemptsLeft(j)
          /\ holder' = [holder EXCEPT ![p] = [@ EXCEPT !.pc = "exhausted", !.tok = drawn[j] + 1]]
          /\ UNCHANGED exec
    /\ UNCHANGED <<mode, silent, permits, returning, beat, req, mail, disruptions>>

ClaimRaises(p) ==
    LET j == holder[p].job IN
    /\ Alive(p) /\ holder[p].pc = "claim" /\ ~IsActive(p, j)
    /\ Raises(ClaimJob(j, holder[p].kind # "submit"))
    /\ Raised(p)
    /\ UNCHANGED <<mode, silent, exec, returning, beat>>

\* mark_failed(RecoveryExhausted); whatever happens the lease is released next.
FailExhausted(p) ==
    LET j == holder[p].job
        t == holder[p].tok
        Next(r) == holder' = [holder EXCEPT ![p] = [@ EXCEPT !.pc = "release", !.raised = r]]
    IN
    /\ Alive(p) /\ holder[p].pc = "exhausted"
    /\ \/ MarkFailed(j, "exhausted", t) /\ Next(FALSE) /\ UNCHANGED disruptions
       \/ /\ ~CanMove(j, "failed", t)
          /\ Next(TRUE) /\ UNCHANGED <<jobVars, disruptions>>
       \/ Raises(MarkFailed(j, "exhausted", t)) /\ Next(TRUE)
    /\ UNCHANGED <<mode, silent, permits, exec, returning, beat, req, mail>>

ReleaseExhausted(p) ==
    LET j == holder[p].job IN
    /\ Alive(p) /\ holder[p].pc = "release"
    /\ \/ /\ ReleaseLease(j, holder[p].tok)
          /\ IF holder[p].raised THEN Raised(p) ELSE Returned(p, FALSE)
          /\ UNCHANGED disruptions
       \/ Raises(ReleaseLease(j, holder[p].tok)) /\ Raised(p)
    /\ UNCHANGED <<mode, silent, exec, returning, beat>>

\* executor.submit
Schedule(p) ==
    LET j == holder[p].job IN
    /\ mode[p] \in {"up", "draining"} /\ holder[p].pc = "schedule"
    /\ Goto(p, j, "queued")
    /\ Returned(p, TRUE)
    /\ UNCHANGED <<jobVars, mode, silent, returning, beat, disruptions>>

\* The executor was shut down meanwhile: the job is given up again.
ScheduleRaises(p) ==
    LET j == holder[p].job
        t == exec[p][j].tok
    IN
    /\ mode[p] \in {"closed", "stopped"} /\ holder[p].pc = "schedule"
    /\ \/ ReleaseLease(j, t) /\ UNCHANGED disruptions
       \/ Raises(ReleaseLease(j, t))
    /\ exec' = [exec EXCEPT ![p][j] = Idle]
    /\ Raised(p)
    /\ UNCHANGED <<mode, silent, returning, beat>>

(***************************************************************************)
(* _recover_registered_tasks and _handle_dispatch_message                  *)
(***************************************************************************)

RecoveryPageSize == Capacity + 1

\* One poll.  An empty page changes nothing and is left out.
RecoverPage(p) ==
    /\ mode[p] = "up" /\ LockFree(p)
    /\ Recoverable(RecoveryPageSize) # {}
    /\ holder' = [holder EXCEPT ![p] =
          Holding("recovery", NoJob, "page", Recoverable(RecoveryPageSize))]
    /\ UNCHANGED <<jobVars, mode, silent, permits, exec, returning, beat, req, mail, disruptions>>

\* Mutant: recovery waits for capacity with the lock held.
StopPage_Spins(p) == UNCHANGED holder

\* Without capacity the page is given up until the next poll.
StopPage(p) == Unlock(p)

\* The oldest job of the page: stop at shutdown or without capacity, skip a
\* job that is active here, else reserve a permit for it.
RecoverNext(p) ==
    LET page == holder[p].page
        first == {j \in page : \A i \in page \ {j} : Older(j, i)}
        rest(pc, i, j) == [holder EXCEPT ![p] = Holding("recovery", i, pc, page \ {j})]
    IN
    /\ Alive(p) /\ holder[p].kind = "recovery" /\ holder[p].pc = "page"
    /\ \/ /\ page = {} \/ mode[p] # "up"
          /\ Unlock(p) /\ UNCHANGED permits
       \/ \E j \in first :
          /\ mode[p] = "up" /\ ~IsActive(p, j) /\ permits[p] = 0
          /\ StopPage(p) /\ UNCHANGED permits
       \/ \E j \in first :
          /\ mode[p] = "up" /\ IsActive(p, j)
          /\ holder' = rest("page", NoJob, j) /\ UNCHANGED permits
       \/ \E j \in first :
          /\ mode[p] = "up" /\ ~IsActive(p, j) /\ permits[p] > 0
          /\ permits' = [permits EXCEPT ![p] = @ - 1]
          /\ holder' = rest("claim", j, j)
    /\ UNCHANGED <<jobVars, mode, silent, exec, returning, beat, req, mail, disruptions>>

\* A delivery of the message of job j.  Without capacity the consumer keeps
\* the message pending, which changes nothing here.
Deliver(p, j) ==
    /\ j \in mail /\ mode[p] = "up" /\ LockFree(p)
    /\ \/ /\ status[j] \in Terminal \/ IsActive(p, j)
          /\ mail' = mail \ {j}
          /\ UNCHANGED <<permits, holder>>
       \/ /\ status[j] \in Active /\ ~IsActive(p, j) /\ permits[p] > 0
          /\ permits' = [permits EXCEPT ![p] = @ - 1]
          /\ holder' = [holder EXCEPT ![p] = Holding("dispatch", j, "claim", {})]
          /\ UNCHANGED mail
    /\ UNCHANGED <<jobVars, mode, silent, exec, returning, beat, req, disruptions>>

(***************************************************************************)
(* _run_task_guarded: the worker of process p that executes job j          *)
(***************************************************************************)

At(p, j, pc) == Alive(p) /\ exec[p][j].pc = pc

\* ExecutionLeaseLostError: the fence is latched and the worker gives up.
GiveUp(p, j) == exec' = [exec EXCEPT ![p][j] = [@ EXCEPT !.pc = "done", !.lost = TRUE]]

\* _check_execution_fence before going on to pc.
CheckFence(p, j, pc) == IF exec[p][j].lost THEN GiveUp(p, j) ELSE Goto(p, j, pc)

WorkerFrame == UNCHANGED <<mode, silent, permits, holder, returning, beat, req, mail>>

\* A database write A of the worker commits and B follows; or the edge is
\* legal but the lease is lost; or the call raises, as an illegal edge does,
\* and _record_terminal_failure takes over.
Write(p, j, A, target, B) ==
    /\ \/ A /\ B /\ UNCHANGED disruptions
       \/ /\ Legal(j, target) /\ ~LeaseHeld(j, exec[p][j].tok)
          /\ GiveUp(p, j) /\ UNCHANGED <<jobVars, disruptions>>
       \/ /\ ~Legal(j, target)
          /\ Goto(p, j, "infra") /\ UNCHANGED <<jobVars, disruptions>>
       \/ Raises(A) /\ Goto(p, j, "infra")
    /\ WorkerFrame

Running(p) == {j \in Job : exec[p][j].pc \notin {"none", "admitted", "queued"}}

\* Mutant: executions queued before a shutdown are not started.
WorkerFree_OnlyUp(p) == mode[p] = "up" /\ Cardinality(Running(p)) < Workers

WorkerFree(p) == Cardinality(Running(p)) < Workers

StartWorker(p, j) ==
    /\ At(p, j, "queued") /\ WorkerFree(p)
    /\ CheckFence(p, j, "renew")
    /\ UNCHANGED <<jobVars, disruptions>> /\ WorkerFrame

\* _ensure_execution_lease
EnsureLease(p, j) ==
    LET t == exec[p][j].tok IN
    /\ At(p, j, "renew")
    /\ \/ RenewLease(j, t) /\ CheckFence(p, j, "start") /\ UNCHANGED disruptions
       \/ RenewRefused(j, t) /\ GiveUp(p, j) /\ UNCHANGED disruptions
       \/ Raises(RenewLease(j, t)) /\ GiveUp(p, j)
    /\ WorkerFrame

StartAttempt(p, j) ==
    /\ At(p, j, "start")
    /\ Write(p, j, MarkRunning(j, exec[p][j].attempt, exec[p][j].tok), "running",
             CheckFence(p, j, "handler"))

\* The handler returns, raises a retryable or another error, or observes the
\* fence through ensure_execution_active.  The last attempt is not retried.
HandlerEnds(p, j) ==
    /\ At(p, j, "handler")
    /\ \/ CheckFence(p, j, "succeed")
       \/ CheckFence(p, j, IF exec[p][j].attempt < MaxAttempts THEN "retry" ELSE "fail")
       \/ CheckFence(p, j, "fail")
    /\ UNCHANGED <<jobVars, disruptions>> /\ WorkerFrame

Succeed(p, j) ==
    /\ At(p, j, "succeed")
    /\ Write(p, j, MarkSucceeded(j, exec[p][j].attempt, exec[p][j].tok), "succeeded",
             Goto(p, j, "done"))

Fail(p, j) ==
    /\ At(p, j, "fail")
    /\ Write(p, j, MarkFailed(j, "handler", exec[p][j].tok), "failed",
             Goto(p, j, "done"))

ScheduleRetry(p, j) ==
    /\ At(p, j, "retry")
    /\ Write(p, j, MarkRetryScheduled(j, exec[p][j].tok), "accepted",
             Goto(p, j, "backoff"))

\* The back-off ends: at once when the queue is shutting down.
EndBackoff(p, j) ==
    /\ At(p, j, "backoff")
    /\ IF DelayedRetry /\ mode[p] # "up"
       THEN CheckFence(p, j, "abandon")
       ELSE IF exec[p][j].lost
            THEN GiveUp(p, j)
            ELSE exec' = [exec EXCEPT ![p][j] = [@ EXCEPT !.pc = "renew",
                              !.attempt = exec[p][j].attempt + 1]]
    /\ UNCHANGED <<jobVars, disruptions>> /\ WorkerFrame

AbandonRetry(p, j) ==
    /\ At(p, j, "abandon")
    /\ Write(p, j, MarkFailed(j, "shutdown", exec[p][j].tok), "failed",
             Goto(p, j, "done"))

\* _record_terminal_failure: look at the row, then mark it failed.
InspectRow(p, j) ==
    /\ At(p, j, "infra")
    /\ \/ /\ IF status[j] \in Active
             THEN CheckFence(p, j, "bury")
             ELSE Goto(p, j, "done")
          /\ UNCHANGED disruptions
       \/ Disrupt /\ Goto(p, j, "done")
    /\ UNCHANGED jobVars /\ WorkerFrame

RecordFailure(p, j) ==
    LET A == MarkFailed(j, "infrastructure", exec[p][j].tok) IN
    /\ At(p, j, "bury")
    /\ \/ A /\ UNCHANGED disruptions
       \/ ~CanMove(j, "failed", exec[p][j].tok) /\ UNCHANGED <<jobVars, disruptions>>
       \/ Raises(A)
    /\ Goto(p, j, "done")
    /\ WorkerFrame

\* _task_done: the job leaves the active set before its lease is released.
\* The last one of a queue that shuts down stops the heartbeat.
TaskDone(p, j) ==
    /\ At(p, j, "done")
    /\ returning' = [returning EXCEPT ![p] = @ \cup {<<j, exec[p][j].tok>>}]
    /\ exec' = [exec EXCEPT ![p][j] = Idle]
    /\ silent' = IF mode[p] # "up" /\ \A i \in Job \ {j} : ~IsActive(p, i)
                 THEN silent \cup {p} ELSE silent
    /\ UNCHANGED <<jobVars, mode, permits, holder, beat, req, mail, disruptions>>

TaskReleased(p, j, t) ==
    /\ Alive(p) /\ <<j, t>> \in returning[p]
    /\ \/ ReleaseLease(j, t) /\ UNCHANGED disruptions
       \/ Raises(ReleaseLease(j, t))
    /\ returning' = [returning EXCEPT ![p] = @ \ {<<j, t>>}]
    /\ Return(p)
    /\ UNCHANGED <<mode, silent, holder, exec, beat, req, mail>>

(***************************************************************************)
(* _renew_leases: the heartbeat thread                                     *)
(***************************************************************************)

Owned(p) == {<<j, exec[p][j].tok>> : j \in {i \in Job : IsActive(p, i) /\ ~exec[p][i].lost}}

BeatSnapshot(p) ==
    /\ Alive(p) /\ p \notin silent /\ beat[p] = {}
    /\ Owned(p) # {}
    /\ beat' = [beat EXCEPT ![p] = Owned(p)]
    /\ UNCHANGED <<jobVars, mode, silent, permits, holder, exec, returning, req, mail, disruptions>>

\* _latch_execution_lost, for the execution that still has this token.
Latch(p, j, t) ==
    IF IsActive(p, j) /\ exec[p][j].tok = t
    THEN exec' = [exec EXCEPT ![p][j] = [@ EXCEPT !.lost = TRUE]]
    ELSE UNCHANGED exec

BeatRenew(p, j, t) ==
    /\ Alive(p) /\ <<j, t>> \in beat[p]
    /\ \/ RenewLease(j, t) /\ UNCHANGED <<exec, disruptions>>
       \/ RenewRefused(j, t) /\ Latch(p, j, t) /\ UNCHANGED disruptions
       \/ Raises(RenewLease(j, t)) /\ Latch(p, j, t)
    /\ beat' = [beat EXCEPT ![p] = @ \ {<<j, t>>}]
    /\ UNCHANGED <<mode, silent, permits, holder, returning, req, mail>>

(***************************************************************************)
(* Process life cycle and time                                             *)
(***************************************************************************)

\* shutdown(wait=True) sets the shutdown event ...
Shutdown(p) ==
    /\ mode[p] = "up" /\ Disrupt
    /\ mode' = [mode EXCEPT ![p] = "draining"]
    /\ UNCHANGED <<jobVars, permits, holder, exec, returning, beat, silent, req, mail>>

\* ... joins the recovery thread and shuts down the executor ...
CloseExecutor(p) ==
    /\ mode[p] = "draining" /\ holder[p].kind # "recovery"
    /\ mode' = [mode EXCEPT ![p] = "closed"]
    /\ UNCHANGED <<jobVars, permits, holder, exec, returning, beat, silent, req, mail, disruptions>>

\* ... which waits for the scheduled executions; then the heartbeat is told
\* to stop ...
StopHeartbeat(p) ==
    /\ mode[p] = "closed" /\ returning[p] = {}
    /\ \A j \in Job : exec[p][j].pc \in {"none", "admitted"}
    /\ mode' = [mode EXCEPT ![p] = "stopped"]
    /\ silent' = silent \cup {p}
    /\ UNCHANGED <<jobVars, permits, holder, exec, returning, beat, req, mail, disruptions>>

InFlight == {"waiting", "lookup", "inside"}

\* The process ends: its memory, and its callers' connections, are gone.
Forget(p) ==
    /\ holder' = [holder EXCEPT ![p] = Free]
    /\ exec' = [exec EXCEPT ![p] = [j \in Job |-> Idle]]
    /\ returning' = [returning EXCEPT ![p] = {}]
    /\ beat' = [beat EXCEPT ![p] = {}]
    /\ silent' = silent \ {p}
    /\ req' = [r \in Job |-> IF req[r].at = p /\ req[r].pc \in InFlight
                             THEN [req[r] EXCEPT !.pc = "unavailable", !.job = NoJob]
                             ELSE req[r]]
    /\ UNCHANGED <<jobVars, permits, mail>>

Crash(p) ==
    /\ Alive(p) /\ Disrupt
    /\ mode' = [mode EXCEPT ![p] = "down"]
    /\ Forget(p)

\* ... and joined: it ends after the pass it is in.
Exit(p) ==
    /\ mode[p] = "stopped" /\ beat[p] = {}
    /\ mode' = [mode EXCEPT ![p] = "down"]
    /\ Forget(p) /\ UNCHANGED disruptions

Restart(p) ==
    /\ mode[p] = "down"
    /\ mode' = [mode EXCEPT ![p] = "up"]
    /\ permits' = [permits EXCEPT ![p] = Capacity]
    /\ UNCHANGED <<jobVars, holder, exec, returning, beat, silent, req, mail, disruptions>>

\* A lease that a running heartbeat still renews, or that was claimed a
\* moment ago by _submit_reserved, lapses only when that thread is delayed
\* past lease_seconds.
Attended(j) ==
    \E p \in Proc : \/ /\ Alive(p) /\ p \notin silent
                       /\ <<j, token[j]>> \in Owned(p)
                    \/ holder[p].job = j /\ holder[p].tok = token[j]

LeaseLapses(j) ==
    /\ Lapse(j)
    /\ IF Attended(j) THEN Disrupt ELSE UNCHANGED disruptions
    /\ UNCHANGED queueVars

(***************************************************************************)
(* The specification                                                       *)
(***************************************************************************)

Submit(r) == SubmitLookup(r) \/ SubmitInsert(r)

Reserved(p) ==
    \/ PublishDispatch(p)
    \/ ClaimRefused(p) \/ ClaimGranted(p) \/ ClaimRaises(p)
    \/ FailExhausted(p) \/ ReleaseExhausted(p)
    \/ Schedule(p) \/ ScheduleRaises(p)

Worker(p, j) ==
    \/ StartWorker(p, j) \/ EnsureLease(p, j) \/ StartAttempt(p, j)
    \/ HandlerEnds(p, j) \/ Succeed(p, j) \/ Fail(p, j)
    \/ ScheduleRetry(p, j) \/ EndBackoff(p, j) \/ AbandonRetry(p, j)
    \/ InspectRow(p, j) \/ RecordFailure(p, j) \/ TaskDone(p, j)

\* Every call is answered, every job finished, every resource returned: the
\* queue waits for clients.
Quiescent ==
    /\ \A r \in Job : req[r].pc \notin {"new"} \cup InFlight /\ status[r] \notin Active
    /\ \A p \in Proc : /\ mode[p] = "up" /\ holder[p] = Free
                       /\ permits[p] = Capacity /\ beat[p] = {}
    /\ mail = {}
    /\ UNCHANGED vars

Next ==
    \/ \E r \in Job : Submit(r) \/ \E p \in Proc : SubmitBegin(r, p)
    \/ \E p \in Proc : Reserved(p) \/ RecoverPage(p) \/ RecoverNext(p)
    \/ \E p \in Proc, j \in Job : Deliver(p, j) \/ Worker(p, j)
    \/ \E p \in Proc : \E x \in returning[p] : TaskReleased(p, x[1], x[2])
    \/ \E p \in Proc : BeatSnapshot(p) \/ \E x \in beat[p] : BeatRenew(p, x[1], x[2])
    \/ \E p \in Proc : Shutdown(p) \/ CloseExecutor(p) \/ StopHeartbeat(p)
                       \/ Crash(p) \/ Exit(p) \/ Restart(p)
    \/ \E j \in Job : LeaseLapses(j)
    \/ Quiescent

Spec == Init /\ [][Next]_vars

\* Every thread of a running process keeps running, a supervisor restarts a
\* process that ended, and time passes.  The recovery loop leaves the lock
\* free for recovery_poll_seconds between two polls, so a thread that waits
\* for it is let in (strong fairness).  Which client calls are made, and
\* every disruption, is left open.
Fairness ==
    /\ \A r \in Job : SF_vars(Submit(r))
    /\ \A p \in Proc : /\ WF_vars(Reserved(p))
                       /\ WF_vars(RecoverPage(p)) /\ WF_vars(RecoverNext(p))
                       /\ WF_vars(CloseExecutor(p)) /\ WF_vars(StopHeartbeat(p))
                       /\ WF_vars(Exit(p)) /\ WF_vars(Restart(p))
    /\ \A p \in Proc, j \in Job :
          /\ WF_vars(Worker(p, j)) /\ WF_vars(Deliver(p, j))
          /\ WF_vars(\E t \in 1..MaxClaims : TaskReleased(p, j, t))
          /\ WF_vars(\E t \in 1..MaxClaims : BeatRenew(p, j, t))
    /\ \A j \in Job : WF_vars(LeaseLapses(j))

FairSpec == Spec /\ Fairness

(***************************************************************************)
(* Properties                                                              *)
(***************************************************************************)

ExecPc == {"none", "admitted", "queued", "renew", "start", "handler", "succeed",
           "fail", "retry", "backoff", "abandon", "infra", "bury", "done"}
HolderPc == {"page", "publish", "claim", "exhausted", "release", "schedule"}
ReqPc == {"new", "accepted", "reused", "conflict", "full", "unavailable"} \cup InFlight

Holder == [kind : {"none", "submit", "recovery", "dispatch"}, job : Job \cup {NoJob},
           pc : HolderPc, tok : Nat, raised : BOOLEAN, page : SUBSET Job]
Execution == [pc : ExecPc, tok : Nat, attempt : 0..MaxAttempts, lost : BOOLEAN]
Request == [pc : ReqPc, at : Proc \cup {"none"}, job : Job \cup {NoJob}]

QueueTypeOK ==
    /\ mode \in [Proc -> {"up", "draining", "closed", "stopped", "down"}]
    /\ permits \in [Proc -> Int]
    /\ holder \in [Proc -> Holder]
    /\ exec \in [Proc -> [Job -> Execution]]
    /\ returning \in [Proc -> SUBSET (Job \X Nat)]
    /\ beat \in [Proc -> SUBSET (Job \X Nat)]
    /\ silent \in SUBSET Proc
    /\ req \in [Job -> Request]
    /\ mail \in SUBSET Job
    /\ disruptions \in Nat

\* The variables have the types of the code's columns and fields; no attempt
\* number exceeds max_attempts, in the row or in a worker.
TypeOK == JobTypeOK /\ QueueTypeOK

\* However often a job is claimed again after crashes, lost leases and lost
\* answers, it is started at most max_attempts times, and each start has a
\* number of its own (_run_task, _submit_reserved).
AttemptsBounded ==
    \A j \in Job : started[j] = attempts[j] /\ attempts[j] <= MaxAttempts

\* A worker that lost its lease never decides the job: the result of a
\* succeeded job is that of the attempt started last (mark_succeeded behind
\* _check_lease).
ResultIsLatest ==
    \A j \in Job : status[j] = "succeeded" => result[j] = attempts[j] /\ result[j] > 0

\* A job is failed as RecoveryExhausted only when every attempt it was
\* promised has been started (_submit_reserved).
ExhaustedIsSpent ==
    \A j \in Job : error[j] = "exhausted" => attempts[j] = MaxAttempts

\* The attempts of a job are accounted for: it is never started once more than
\* promised, and never given up one start too early.
AttemptsAccounted == AttemptsBounded /\ ExhaustedIsSpent

\* Two executions never hold the row's current token, in one process or in
\* two, and a token is never handed out twice (claim_job).
OneOwner ==
    \A j \in Job : \A p, q \in Proc :
        /\ IsActive(p, j) /\ IsActive(q, j) /\ exec[p][j].tok = exec[q][j].tok
              => p = q
        /\ IsActive(p, j) => <<j, exec[p][j].tok>> \notin returning[q]

\* The permits a process has handed out are exactly those held by its
\* submissions, by the thread inside the lock and by its executions: none is
\* leaked on an error path and none is released twice.
HolderPermits(p) ==
    IF holder[p].kind \in {"recovery", "dispatch"} /\ holder[p].pc # "page" THEN 1 ELSE 0

RequestPermits(p) ==
    IF DurableDispatch THEN 0
    ELSE Cardinality({r \in Job : req[r].at = p /\ req[r].pc \in {"waiting", "inside"}})

CapacityConserved ==
    \A p \in Proc : Alive(p) =>
        /\ permits[p] >= 0
        /\ permits[p] + HolderPermits(p) + RequestPermits(p)
            + Cardinality({j \in Job : exec[p][j].pc \notin {"none", "admitted"}})
            + Cardinality(returning[p]) = Capacity

\* Two calls with one idempotency key that both got a job got the same one,
\* and it has the payload both of them sent (create_or_get_job).
OneJobPerKey ==
    \A r, s \in Job :
        /\ req[r].pc \in {"accepted", "reused"} /\ req[s].pc \in {"accepted", "reused"}
        /\ KeyOf[r] = KeyOf[s] /\ KeyOf[r] # NoKey
        => req[r].job = req[s].job /\ PrintOf[r] = PrintOf[s]

\* A job that succeeded or failed never changes again, whoever still works
\* on it (_allowed_transitions).
TerminalIsFinal ==
    [][\A j \in Job : status[j] \in Terminal =>
          /\ status'[j] = status[j] /\ result'[j] = result[j]
          /\ error'[j] = error[j] /\ attempts'[j] = attempts[j]]_vars

\* Every call of submit that was begun is answered.
EveryCallAnswered == \A r \in Job : req[r].pc \in InFlight ~> req[r].pc \notin InFlight

\* An orderly shutdown comes to its end: nothing it waits for waits for it.
ShutdownEnds == \A p \in Proc : mode[p] = "draining" ~> mode[p] = "down"

\* The queue implements the contract of JobContract: the rows, read through
\* this mapping, behave as that specification says.
Contract == INSTANCE JobContract WITH
    phase <- [j \in Job |-> IF status[j] = "absent" THEN "absent"
                            ELSE IF status[j] \in Active THEN "pending" ELSE "decided"],
    tries <- started,
    outcome <- [j \in Job |-> CASE status[j] = "succeeded" -> <<"success", result[j]>>
                                [] status[j] = "failed" -> <<"failure", 0>>
                                [] OTHER -> <<"undecided", 0>>]

ImplementsContract == Contract!ContractSpec
=============================================================================
