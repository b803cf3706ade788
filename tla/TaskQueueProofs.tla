-------------------------- MODULE TaskQueueProofs --------------------------
(***************************************************************************)
(* What TaskQueue guarantees for every number of processes, jobs, workers, *)
(* attempts and disruptions.                                               *)
(***************************************************************************)
EXTENDS TaskQueue, FiniteSetTheorems, TLAPS

(***************************************************************************)
(* Type correctness.  The bound on attempt numbers rests on two facts      *)
(* about workers: an execution that may be retried has an attempt left,    *)
(* and the execution the lock holder schedules is one it has admitted.     *)
(***************************************************************************)

RetryOK ==
    \A p \in Proc, j \in Job :
        exec[p][j].pc \in {"retry", "backoff"} => exec[p][j].attempt < MaxAttempts

HolderOK ==
    \A p \in Proc :
        /\ holder[p].pc # "page" => holder[p].job \in Job
        /\ holder[p].pc = "schedule" => exec[p][holder[p].job].pc = "admitted"

TypeInv == TypeOK /\ RetryOK /\ HolderOK

USE JobAssumption, BoundsAssumption, QueueAssumption

\* The initial state is well typed.
LEMMA InitTypeInv == Init => TypeInv
  BY DEF Init, JobInit, TypeInv, TypeOK, JobTypeOK, QueueTypeOK, RetryOK, HolderOK,
         Free, Holding, Idle, Status, Active, Terminal, ErrorKind, ExecPc, HolderPc, ReqPc,
         InFlight, NoToken, NoJob, Execution, Holder, Request

\* Every transaction of the job table keeps the table well typed.
LEMMA RowTypes ==
  ASSUME JobTypeOK, NEW j \in Job, NEW t \in Nat, NEW n \in 0..MaxAttempts,
         NEW e \in ErrorKind, NEW recovery \in BOOLEAN,
         \/ UNCHANGED jobVars
         \/ CreateJob(j) \/ ClaimJob(j, recovery) \/ Lapse(j)
         \/ RenewLease(j, t) \/ RenewRefused(j, t) \/ ReleaseLease(j, t)
         \/ MarkRunning(j, n, t) \/ MarkRetryScheduled(j, t)
         \/ MarkSucceeded(j, n, t) \/ MarkFailed(j, e, t)
  PROVE  JobTypeOK'
<1> USE DEF JobTypeOK, Status, Active, Terminal, ErrorKind, NoToken
<1>1. CASE UNCHANGED jobVars \/ RenewRefused(j, t)
  BY <1>1 DEF jobVars, RenewRefused
<1>2. CASE CreateJob(j)
  <2>1. status' \in [Job -> Status] /\ created' \in Seq(Job)
    BY <1>2 DEF CreateJob
  <2> QED
    BY <1>2, <2>1 DEF CreateJob
<1>3. CASE ClaimJob(j, recovery)
  <2>1. status' \in [Job -> Status] /\ live' \in [Job -> BOOLEAN]
    BY <1>3 DEF ClaimJob
  <2>2. drawn' \in [Job -> Nat] /\ token' \in [Job -> Nat]
    <3> DEFINE d == drawn[j] + 1
    <3>1. drawn' = [drawn EXCEPT ![j] = d] /\ token' = [token EXCEPT ![j] = d]
      BY <1>3 DEF ClaimJob
    <3>2. d \in Nat
      OBVIOUS
    <3> HIDE DEF d
    <3> QED
      BY <3>1, <3>2
  <2> HIDE DEF Status, Active, Terminal, ErrorKind
  <2> QED
    BY <1>3, <2>1, <2>2 DEF ClaimJob
<1>4. CASE Lapse(j) \/ RenewLease(j, t)
  BY <1>4 DEF Lapse, RenewLease
<1>5. CASE ReleaseLease(j, t)
  <2>1. CASE UNCHANGED jobVars
    BY <2>1 DEF jobVars
  <2>2. CASE /\ token' = [token EXCEPT ![j] = NoToken]
             /\ live' = [live EXCEPT ![j] = FALSE]
             /\ UNCHANGED <<status, attempts, result, error, created, drawn, started>>
    BY <2>2
  <2> QED
    BY <1>5, <2>1, <2>2 DEF ReleaseLease
<1>6. CASE MarkRunning(j, n, t)
  BY <1>6, SMTT(30) DEF MarkRunning, Transition
<1>7. CASE MarkRetryScheduled(j, t)
  BY <1>7 DEF MarkRetryScheduled, Transition
<1>8. CASE MarkSucceeded(j, n, t)
  <2>1. result' \in [Job -> Nat]
    <3>1. result' = [result EXCEPT ![j] = n] /\ n \in Nat
      BY <1>8 DEF MarkSucceeded, Transition
    <3> QED
      BY <3>1
  <2>4. UNCHANGED <<attempts, started, created, drawn>>
    BY <1>8 DEF MarkSucceeded, Transition
  <2>2. status' \in [Job -> Status] /\ error' \in [Job -> ErrorKind]
    BY <1>8 DEF MarkSucceeded, Transition
  <2>3. token' \in [Job -> Nat] /\ live' \in [Job -> BOOLEAN]
    BY <1>8 DEF MarkSucceeded, Transition
  <2> HIDE DEF Status, Active, Terminal, ErrorKind
  <2> QED
    BY <2>1, <2>2, <2>3, <2>4
<1>9. CASE MarkFailed(j, e, t)
  BY <1>9 DEF MarkFailed, Transition
<1> QED
  BY <1>1, <1>2, <1>3, <1>4, <1>5, <1>6, <1>7, <1>8, <1>9

\* A claim (claim_job), or none, keeps the columns well typed.
LEMMA ClaimTypes ==
  ASSUME JobTypeOK, NEW j \in Job, NEW kind,
         UNCHANGED jobVars \/ ClaimJob(j, kind # "submit")
  PROVE  JobTypeOK'
<1>1. CASE UNCHANGED jobVars
  BY <1>1 DEF jobVars, JobTypeOK
<1>2. CASE ClaimJob(j, kind # "submit")
  <2>1. (kind # "submit") \in BOOLEAN /\ 0 \in Nat /\ 0 \in 0..MaxAttempts
        /\ "none" \in ErrorKind
    BY DEF ErrorKind
  <2> QED
    BY <1>2, <2>1, RowTypes
<1> QED
  BY <1>1, <1>2

\* So does the release of a lease (release_job_lease).
LEMMA ReleaseTypes ==
  ASSUME JobTypeOK, NEW j \in Job, NEW t \in Nat,
         UNCHANGED jobVars \/ ReleaseLease(j, t)
  PROVE  JobTypeOK'
<1> 0 \in 0..MaxAttempts /\ "none" \in ErrorKind /\ TRUE \in BOOLEAN
  BY DEF ErrorKind
<1> QED
  BY RowTypes

\* The budget of disruptions stays a natural number.
LEMMA DisruptTypes == QueueTypeOK /\ (Disrupt \/ UNCHANGED disruptions) => disruptions' \in Nat
  BY DEF QueueTypeOK, Disrupt

\* The local types of an execution and of the lock holder.
LEMMA LocalTypes ==
  ASSUME TypeInv, NEW p \in Proc, NEW j \in Job
  PROVE  /\ exec[p][j] \in Execution /\ holder[p] \in Holder
         /\ exec[p][j].tok \in Nat /\ exec[p][j].attempt \in 0..MaxAttempts
         /\ holder[p].tok \in Nat /\ holder[p].page \in SUBSET Job
         /\ attempts[j] \in 0..MaxAttempts /\ drawn[j] \in Nat
<1>1. exec[p][j] \in Execution /\ holder[p] \in Holder
  BY DEF TypeInv, TypeOK, QueueTypeOK
<1>2. exec[p][j].tok \in Nat /\ exec[p][j].attempt \in 0..MaxAttempts
  BY <1>1 DEF Execution
<1>3. holder[p].tok \in Nat /\ holder[p].page \in SUBSET Job
  BY <1>1 DEF Holder
<1>4. attempts[j] \in 0..MaxAttempts /\ drawn[j] \in Nat
  BY DEF TypeInv, TypeOK, JobTypeOK
<1> QED
  BY <1>1, <1>2, <1>3, <1>4

\* The execution of job j in process p, and no other, changes to e.
Becomes(p, j, e) ==
    /\ exec' \in [Proc -> [Job -> Execution]]
    /\ exec'[p][j] = e
    /\ \A q \in Proc, k \in Job : q # p \/ k # j => exec'[q][k] = exec[q][k]

\* It goes to the control point pc and keeps its token and attempt.
MovesTo(p, j, pc) ==
    \E e \in Execution : /\ Becomes(p, j, e)
                         /\ e.pc = pc
                         /\ e.tok = exec[p][j].tok
                         /\ e.attempt = exec[p][j].attempt

\* An update of one execution is an update of that execution only.
LEMMA ExecUpdate ==
  ASSUME exec \in [Proc -> [Job -> Execution]], NEW p \in Proc, NEW j \in Job,
         NEW e \in Execution, exec' = [exec EXCEPT ![p][j] = e]
  PROVE  Becomes(p, j, e)
  BY DEF Becomes

\* The moves of a worker: to its next control point ...
LEMMA GotoMoves ==
  ASSUME exec \in [Proc -> [Job -> Execution]], NEW p \in Proc, NEW j \in Job,
         NEW pc \in ExecPc, Goto(p, j, pc)
  PROVE  MovesTo(p, j, pc)
<1> DEFINE e == [exec[p][j] EXCEPT !.pc = pc]
<1>1. exec[p][j] \in Execution
  OBVIOUS
<1>2. /\ e \in Execution /\ e.pc = pc /\ e.tok = exec[p][j].tok
      /\ e.attempt = exec[p][j].attempt
  BY <1>1 DEF Execution
<1>3. exec' = [exec EXCEPT ![p][j] = e]
  BY DEF Goto
<1> HIDE DEF e
<1> QED
  BY <1>2, <1>3, ExecUpdate DEF MovesTo

\* ... out of the attempt when its lease is lost ...
LEMMA GiveUpMoves ==
  ASSUME exec \in [Proc -> [Job -> Execution]], NEW p \in Proc, NEW j \in Job,
         GiveUp(p, j)
  PROVE  MovesTo(p, j, "done")
<1> DEFINE e == [exec[p][j] EXCEPT !.pc = "done", !.lost = TRUE]
<1>1. exec[p][j] \in Execution
  OBVIOUS
<1>2. /\ e \in Execution /\ e.pc = "done" /\ e.tok = exec[p][j].tok
      /\ e.attempt = exec[p][j].attempt
  BY <1>1 DEF Execution, ExecPc
<1>3. exec' = [exec EXCEPT ![p][j] = e]
  BY DEF GiveUp
<1> HIDE DEF e
<1> QED
  BY <1>2, <1>3, ExecUpdate DEF MovesTo

\* ... nowhere, when the heartbeat latches its fence ...
LEMMA LatchMoves ==
  ASSUME exec \in [Proc -> [Job -> Execution]], NEW p \in Proc, NEW j \in Job,
         NEW t, Latch(p, j, t)
  PROVE  exec' = exec \/ MovesTo(p, j, exec[p][j].pc)
<1> DEFINE e == [exec[p][j] EXCEPT !.lost = TRUE]
<1>1. exec[p][j] \in Execution
  OBVIOUS
<1>2. /\ e \in Execution /\ e.pc = exec[p][j].pc /\ e.tok = exec[p][j].tok
      /\ e.attempt = exec[p][j].attempt
  BY <1>1 DEF Execution
<1>3. exec' = exec \/ exec' = [exec EXCEPT ![p][j] = e]
  BY DEF Latch
<1> HIDE DEF e
<1> QED
  BY <1>2, <1>3, ExecUpdate DEF MovesTo

\* ... and past a fence check, which may end the attempt.
LEMMA FenceMoves ==
  ASSUME exec \in [Proc -> [Job -> Execution]], NEW p \in Proc, NEW j \in Job,
         NEW pc \in ExecPc, CheckFence(p, j, pc)
  PROVE  MovesTo(p, j, pc) \/ MovesTo(p, j, "done")
  BY GotoMoves, GiveUpMoves DEF CheckFence

(***************************************************************************)
(* The steps of a worker: its control point, its attempt and the           *)
(* transaction it makes.                                                   *)
(***************************************************************************)

WorkerStep(p, j) ==
    LET pc == exec[p][j].pc
        n == exec[p][j].attempt
        t == exec[p][j].tok
        Goes(S) == \E c \in S : MovesTo(p, j, c)
    IN  \/ pc = "queued" /\ UNCHANGED jobVars /\ Goes({"renew", "done"})
        \/ pc = "renew" /\ Goes({"start", "done"})
             /\ (UNCHANGED jobVars \/ RenewLease(j, t))
        \/ pc = "start" /\ MarkRunning(j, n, t)
             /\ Goes({"handler", "infra", "done"})
        \/ pc = "start" /\ UNCHANGED jobVars /\ Goes({"infra", "done"})
        \/ pc = "handler" /\ UNCHANGED jobVars /\ Goes({"succeed", "fail", "done"})
        \/ pc = "handler" /\ n < MaxAttempts /\ UNCHANGED jobVars /\ MovesTo(p, j, "retry")
        \/ pc = "succeed" /\ Goes({"infra", "done"})
             /\ (UNCHANGED jobVars \/ MarkSucceeded(j, n, t))
        \/ pc = "retry" /\ Goes({"backoff", "infra", "done"})
             /\ (UNCHANGED jobVars \/ MarkRetryScheduled(j, t))
        \/ pc = "backoff" /\ UNCHANGED jobVars /\ Goes({"abandon", "done"})
        \/ pc = "backoff" /\ UNCHANGED jobVars
             /\ Becomes(p, j, [exec[p][j] EXCEPT !.pc = "renew", !.attempt = n + 1])
        \/ pc \in {"fail", "abandon", "infra", "bury"}
             /\ Goes({"infra", "bury", "done"})
             /\ \/ UNCHANGED jobVars
                \/ \E e \in ErrorKind \ {"exhausted"} : MarkFailed(j, e, t)
        \/ pc = "done" /\ UNCHANGED jobVars /\ Becomes(p, j, Idle)

\* Every step of _run_task_guarded is one of these.
LEMMA WorkerSteps ==
  ASSUME TypeInv, NEW p \in Proc, NEW j \in Job, Worker(p, j)
  PROVE  WorkerStep(p, j)
<1> USE LocalTypes DEF TypeInv, TypeOK, QueueTypeOK
<1>0. exec \in [Proc -> [Job -> Execution]]
  OBVIOUS
<1>a. /\ "renew" \in ExecPc /\ "start" \in ExecPc /\ "handler" \in ExecPc
      /\ "succeed" \in ExecPc /\ "fail" \in ExecPc /\ "retry" \in ExecPc
      /\ "backoff" \in ExecPc /\ "abandon" \in ExecPc /\ "infra" \in ExecPc
      /\ "bury" \in ExecPc /\ "done" \in ExecPc
  BY DEF ExecPc
<1>b. /\ \A pc \in ExecPc : Goto(p, j, pc) => MovesTo(p, j, pc)
      /\ GiveUp(p, j) => MovesTo(p, j, "done")
      /\ \A pc \in ExecPc : CheckFence(p, j, pc) =>
            MovesTo(p, j, pc) \/ MovesTo(p, j, "done")
  <2>1. \A pc \in ExecPc : Goto(p, j, pc) => MovesTo(p, j, pc)
    BY <1>0, GotoMoves
  <2>2. GiveUp(p, j) => MovesTo(p, j, "done")
    BY <1>0, GiveUpMoves
  <2>3. \A pc \in ExecPc : CheckFence(p, j, pc) =>
            MovesTo(p, j, pc) \/ MovesTo(p, j, "done")
    BY <1>0, FenceMoves
  <2> QED
    BY <2>1, <2>2, <2>3
<1>1. CASE StartWorker(p, j)
  BY <1>1, <1>a, <1>b DEF StartWorker, At, WorkerStep
<1>2. CASE EnsureLease(p, j)
  BY <1>2, <1>a, <1>b DEF EnsureLease, At, WorkerStep, Raises, RenewRefused
<1>3. CASE StartAttempt(p, j)
  BY <1>3, <1>a, <1>b DEF StartAttempt, Write, At, WorkerStep, Raises
<1>4. CASE HandlerEnds(p, j)
  BY <1>4, <1>a, <1>b DEF HandlerEnds, At, WorkerStep
<1>5. CASE Succeed(p, j)
  BY <1>5, <1>a, <1>b DEF Succeed, Write, At, WorkerStep, Raises
<1>6. CASE Fail(p, j) \/ AbandonRetry(p, j)
  BY <1>6, <1>a, <1>b DEF Fail, AbandonRetry, Write, At, WorkerStep, Raises, ErrorKind
<1>7. CASE ScheduleRetry(p, j)
  BY <1>7, <1>a, <1>b DEF ScheduleRetry, Write, At, WorkerStep, Raises
<1>8. CASE EndBackoff(p, j)
  <2> DEFINE m == exec[p][j].attempt + 1
             e == [exec[p][j] EXCEPT !.pc = "renew", !.attempt = m]
  <2>a. exec[p][j].pc = "backoff"
    BY <1>8 DEF EndBackoff, At
  <2>b. m \in 0..MaxAttempts
    BY <2>a DEF RetryOK
  <2>2. e \in Execution
    <3> HIDE DEF m
    <3>1. exec[p][j] \in Execution
      OBVIOUS
    <3> QED
      BY ONLY <3>1, <2>b, <1>a DEF Execution
  <2>3. CASE exec' = [exec EXCEPT ![p][j] = e]
    <3>1. Becomes(p, j, e)
      <4> HIDE DEF e
      <4> QED
        BY <2>2, <2>3, ExecUpdate
    <3> QED
      BY <1>8, <2>a, <3>1 DEF EndBackoff, WorkerStep
  <2>4. CASE CheckFence(p, j, "abandon") \/ GiveUp(p, j)
    BY <1>8, <2>a, <2>4, <1>a, <1>b DEF EndBackoff, WorkerStep
  <2>5. exec' = [exec EXCEPT ![p][j] = e] \/ CheckFence(p, j, "abandon") \/ GiveUp(p, j)
    BY <1>8 DEF EndBackoff
  <2> QED
    BY <2>3, <2>4, <2>5
<1>9. CASE InspectRow(p, j)
  BY <1>9, <1>a, <1>b DEF InspectRow, At, WorkerStep
<1>10. CASE RecordFailure(p, j)
  BY <1>10, <1>a, <1>b DEF RecordFailure, At, WorkerStep, Raises, ErrorKind
<1>11. CASE TaskDone(p, j)
  <2>1. Idle \in Execution
    BY DEF Idle, Execution, ExecPc, NoToken
  <2> QED
    BY <1>11, <2>1, ExecUpdate DEF TaskDone, At, WorkerStep
<1> QED
  BY <1>1, <1>2, <1>3, <1>4, <1>5, <1>6, <1>7, <1>8, <1>9, <1>10, <1>11 DEF Worker

\* Besides the row and its execution a worker changes only what it returns,
\* and whether its process still has a heartbeat.
LEMMA WorkerFrames ==
  ASSUME TypeInv, NEW p \in Proc, NEW j \in Job, Worker(p, j)
  PROVE  /\ UNCHANGED <<mode, permits, holder, beat, req, mail>>
         /\ returning' \in [Proc -> SUBSET (Job \X Nat)]
         /\ silent' \in SUBSET Proc
         /\ disruptions' \in Nat
<1>1. CASE TaskDone(p, j)
  BY <1>1, LocalTypes DEF TaskDone, TypeInv, TypeOK, QueueTypeOK
<1>2. CASE ~TaskDone(p, j)
  BY <1>2 DEF Worker, StartWorker, EnsureLease, StartAttempt, HandlerEnds, Succeed, Fail,
       ScheduleRetry, EndBackoff, AbandonRetry, InspectRow, RecordFailure, Write,
       WorkerFrame, Raises, Disrupt, TypeInv, TypeOK, QueueTypeOK
<1> QED
  BY <1>1, <1>2

\* A step of a worker keeps the type invariant.
LEMMA WorkerTypes ==
  ASSUME TypeInv, NEW p \in Proc, NEW j \in Job, Worker(p, j)
  PROVE  TypeInv'
<1>0. WorkerStep(p, j)
  BY WorkerSteps
<1>1. JobTypeOK'
  BY <1>0, RowTypes, LocalTypes DEF WorkerStep, TypeInv, TypeOK, ErrorKind
<1>2. QueueTypeOK'
  BY <1>0, WorkerFrames DEF WorkerStep, MovesTo, Becomes, TypeInv, TypeOK, QueueTypeOK
<1>3. PICK e \in Execution : /\ Becomes(p, j, e)
                             /\ e.pc \in {"retry", "backoff"} => e.attempt < MaxAttempts
  <2>1. Idle \in Execution /\ Idle.pc = "none"
    BY DEF Idle, Execution, ExecPc, NoToken
  <2> DEFINE r == [exec[p][j] EXCEPT !.pc = "renew", !.attempt = exec[p][j].attempt + 1]
  <2>2. r.pc = "renew"
    BY LocalTypes DEF Execution
  <2>3. Becomes(p, j, r) => r \in Execution
    BY DEF Becomes
  <2> HIDE DEF r
  <2>4. \/ \E c \in ExecPc : MovesTo(p, j, c) /\ c \notin {"retry", "backoff"}
        \/ exec[p][j].attempt < MaxAttempts /\ \E c \in {"retry", "backoff"} : MovesTo(p, j, c)
        \/ Becomes(p, j, r) \/ Becomes(p, j, Idle)
    BY <1>0, LocalTypes DEF WorkerStep, r, ExecPc, TypeInv, RetryOK
  <2> QED
    BY <2>1, <2>2, <2>3, <2>4 DEF MovesTo
<1>4. RetryOK'
  BY <1>3 DEF Becomes, TypeInv, RetryOK
<1>5. HolderOK'
  <2>1. exec[p][j].pc # "admitted"
    BY <1>0 DEF WorkerStep
  <2>2. holder' = holder
    BY WorkerFrames
  <2> QED
    BY <1>3, <2>1, <2>2 DEF Becomes, TypeInv, HolderOK
<1> QED
  BY <1>1, <1>2, <1>4, <1>5 DEF TypeInv, TypeOK

(***************************************************************************)
(* The threads that submit.                                                *)
(***************************************************************************)

\* The records the actions build have their types.
LEMMA RecordTypes ==
  /\ Free \in Holder /\ Free.pc = "page"
  /\ Idle \in Execution /\ Idle.pc = "none"
  BY DEF Free, Holding, Idle, Holder, Execution, HolderPc, ExecPc, NoJob, NoToken

\* A thread that takes the submission lock has a well-typed task in hand.
LEMMA HoldingTypes ==
  ASSUME NEW kind \in {"none", "submit", "recovery", "dispatch"},
         NEW j \in Job \cup {NoJob}, NEW pc \in HolderPc, NEW page \in SUBSET Job
  PROVE  /\ Holding(kind, j, pc, page) \in Holder
         /\ Holding(kind, j, pc, page).job = j
         /\ Holding(kind, j, pc, page).pc = pc
  BY DEF Holding, Holder, NoToken

\* An answer to a client is well typed.
LEMMA AnswerTypes ==
  ASSUME req \in [Job -> Request], NEW r \in Job, NEW pc \in ReqPc,
         NEW j \in Job \cup {NoJob}, Answer(r, pc, j)
  PROVE  req' \in [Job -> Request]
<1>1. req[r] \in Request
  OBVIOUS
<1>2. [req[r] EXCEPT !.pc = pc, !.job = j] \in Request
  BY ONLY <1>1, pc \in ReqPc, j \in Job \cup {NoJob} DEF Request
<1> QED
  BY <1>2 DEF Answer

\* submit keeps the type invariant.
LEMMA SubmitTypes ==
  ASSUME TypeInv, NEW r \in Job, Submit(r) \/ \E p \in Proc : SubmitBegin(r, p)
  PROVE  TypeInv'
<1> USE DEF TypeInv, TypeOK
<1>0. /\ \A pc \in {"waiting", "inside", "full", "lookup", "conflict", "reused",
                    "unavailable", "accepted"} : pc \in ReqPc
      /\ req \in [Job -> Request]
  BY DEF ReqPc, InFlight, QueueTypeOK
<1>1. CASE \E p \in Proc : SubmitBegin(r, p)
  <2> PICK p \in Proc : SubmitBegin(r, p)
    BY <1>1
  <2>1. JobTypeOK'
    BY DEF SubmitBegin, jobVars, JobTypeOK
  <2>2. req' \in [Job -> Request]
    <3>1. PICK pc \in ReqPc :
             req' = [req EXCEPT ![r] = [pc |-> pc, at |-> p, job |-> NoJob]]
      BY <1>0 DEF SubmitBegin
    <3>2. [pc |-> pc, at |-> p, job |-> NoJob] \in Request
      BY DEF Request
    <3> QED
      BY <1>0, <3>1, <3>2
  <2>3. permits' \in [Proc -> Int]
    BY DEF SubmitBegin, QueueTypeOK
  <2>4. QueueTypeOK'
    BY <2>2, <2>3 DEF SubmitBegin, QueueTypeOK
  <2>5. RetryOK' /\ HolderOK'
    BY DEF SubmitBegin, RetryOK, HolderOK
  <2> QED
    BY <2>1, <2>4, <2>5
<1>2. CASE SubmitLookup(r)
  <2>1. JobTypeOK'
    BY <1>2 DEF SubmitLookup, jobVars, JobTypeOK
  <2>2. req' \in [Job -> Request]
    BY <1>0, <1>2, AnswerTypes DEF SubmitLookup, WithKeyOf
  <2>3. QueueTypeOK'
    BY <1>2, <2>2 DEF SubmitLookup, QueueTypeOK, Disrupt
  <2>4. RetryOK' /\ HolderOK'
    BY <1>2 DEF SubmitLookup, RetryOK, HolderOK
  <2> QED
    BY <2>1, <2>3, <2>4
<1>3. CASE SubmitInsert(r)
  <2>1. JobTypeOK'
    BY <1>3, RowTypes DEF SubmitInsert, Raises, ErrorKind
  <2>2. req' \in [Job -> Request]
    BY <1>0, <1>3, AnswerTypes DEF SubmitInsert, WithKeyOf
  <2>3. permits' \in [Proc -> Int] /\ disruptions' \in Nat
    BY <1>3 DEF SubmitInsert, QueueTypeOK, SubmitReturn, Return, Raises, Disrupt
  <2>a. \A pc \in HolderPc : /\ Holding("submit", r, pc, {}) \in Holder
                             /\ Holding("submit", r, pc, {}).job = r
                             /\ Holding("submit", r, pc, {}).pc = pc
    BY HoldingTypes
  <2>b. \/ holder' = holder
        \/ \E pc \in {"publish", "claim"}, p \in Proc \cup {"none"} :
              holder' = [holder EXCEPT ![p] = Holding("submit", r, pc, {})]
    BY <1>0, <1>3 DEF SubmitInsert, Request
  <2>4. holder' \in [Proc -> Holder]
    BY <2>a, <2>b DEF QueueTypeOK, HolderPc
  <2>5. QueueTypeOK'
    BY <1>3, <2>2, <2>3, <2>4 DEF SubmitInsert, QueueTypeOK
  <2>6. RetryOK'
    BY <1>3 DEF SubmitInsert, RetryOK
  <2>7. HolderOK'
    <3>1. exec' = exec
      BY <1>3 DEF SubmitInsert
    <3>2. ASSUME NEW q \in Proc
          PROVE  \/ holder'[q] = holder[q]
                 \/ holder'[q].pc \in {"publish", "claim"} /\ holder'[q].job = r
      BY <2>a, <2>b DEF QueueTypeOK, HolderPc
    <3> QED
      BY <3>1, <3>2 DEF HolderOK
  <2> QED
    BY <2>1, <2>5, <2>6, <2>7
<1> QED
  BY <1>1, <1>2, <1>3 DEF Submit

\* _submit_reserved returns to its caller, or raises: the lock is released or
\* the recovery page continues.
LEMMA ReturnTypes ==
  ASSUME TypeInv, NEW p \in Proc, NEW b \in BOOLEAN, holder[p].pc # "page",
         Returned(p, b) \/ Raised(p)
  PROVE  /\ holder' \in [Proc -> Holder] /\ holder'[p].pc = "page"
         /\ \A q \in Proc : q # p => holder'[q] = holder[q]
         /\ permits' \in [Proc -> Int]
         /\ req' \in [Job -> Request]
         /\ mail' \in SUBSET Job
<1> USE DEF TypeInv, TypeOK, QueueTypeOK
<1>0. /\ holder \in [Proc -> Holder] /\ holder[p] \in Holder /\ holder[p].page \in SUBSET Job
      /\ holder[p].job \in Job /\ "page" \in HolderPc
  BY DEF Holder, HolderOK, HolderPc
<1>1. PICK h \in Holder : h.pc = "page" /\ holder' = [holder EXCEPT ![p] = h]
  <2>1. Free \in Holder /\ Free.pc = "page"
    BY RecordTypes
  <2>2. /\ Holding("recovery", NoJob, "page", holder[p].page) \in Holder
        /\ Holding("recovery", NoJob, "page", holder[p].page).pc = "page"
    BY <1>0 DEF Holding, Holder, NoToken
  <2> QED
    BY <2>1, <2>2 DEF Returned, Raised, Unlock
<1>2. permits' \in [Proc -> Int]
  BY DEF Returned, Raised, PermitBack, Return
<1>3. req' \in [Job -> Request]
  <2>1. "accepted" \in ReqPc /\ "unavailable" \in ReqPc /\ NoJob \in Job \cup {NoJob}
    BY DEF ReqPc
  <2> QED
    BY <1>0, <2>1, AnswerTypes DEF Returned, Raised
<1>4. mail' \in SUBSET Job
  BY DEF Returned, Raised
<1> QED
  BY <1>0, <1>1, <1>2, <1>3, <1>4

\* The thread inside the submission lock keeps the type invariant.
LEMMA ReservedTypes ==
  ASSUME TypeInv, NEW p \in Proc, Reserved(p)
  PROVE  TypeInv'
<1> USE DEF TypeInv, TypeOK
<1> DEFINE j == holder[p].job
           h == holder[p]
<1>0. /\ h.pc # "page" => j \in Job
      /\ h.pc = "schedule" => exec[p][j].pc = "admitted"
      /\ h \in Holder /\ h.tok \in Nat
      /\ holder \in [Proc -> Holder] /\ exec \in [Proc -> [Job -> Execution]]
      /\ \A k \in Job : exec[p][k] \in Execution /\ exec[p][k].tok \in Nat
  BY LocalTypes DEF HolderOK, Holder, QueueTypeOK, Execution
<1>1. CASE PublishDispatch(p)
  <2>1. h.pc = "publish" /\ j \in Job
    BY <1>0, <1>1 DEF PublishDispatch
  <2>2. JobTypeOK'
    BY <1>1 DEF PublishDispatch, jobVars, JobTypeOK
  <2>3. req' \in [Job -> Request]
    BY <1>1, <2>1, AnswerTypes DEF PublishDispatch, ReqPc, QueueTypeOK
  <2>4. holder' = [holder EXCEPT ![p] = Free] /\ Free \in Holder /\ Free.pc = "page"
    BY <1>1, RecordTypes DEF PublishDispatch, Unlock, Free, Holding
  <2>5. QueueTypeOK'
    BY <1>1, <2>1, <2>3, <2>4 DEF PublishDispatch, QueueTypeOK, Disrupt
  <2>6. RetryOK' /\ HolderOK'
    BY <1>0, <1>1, <2>4 DEF PublishDispatch, RetryOK, HolderOK
  <2> QED
    BY <2>2, <2>5, <2>6
<1>2. CASE ClaimRefused(p) \/ ClaimRaises(p)
  <2>1. h.pc = "claim" /\ j \in Job
    BY <1>0, <1>2 DEF ClaimRefused, ClaimRaises
  <2>2. JobTypeOK'
    BY <1>2, <2>1, ClaimTypes DEF ClaimRefused, ClaimRaises, Raises
  <2>3. Returned(p, FALSE) \/ Raised(p)
    BY <1>2 DEF ClaimRefused, ClaimRaises
  <2>4. UNCHANGED <<mode, silent, exec, returning, beat>> /\ disruptions' \in Nat
    BY <1>2, DisruptTypes DEF ClaimRefused, ClaimRaises, Raises
  <2>5. QueueTypeOK'
    BY <2>1, <2>3, <2>4, ReturnTypes DEF QueueTypeOK
  <2>6. RetryOK'
    BY <2>4 DEF RetryOK
  <2>7. HolderOK'
    <3>1. holder'[p].pc = "page" /\ \A q \in Proc : q # p => holder'[q] = holder[q]
      BY <2>1, <2>3, ReturnTypes
    <3> QED
      BY <2>4, <3>1 DEF HolderOK
  <2> QED
    BY <2>2, <2>5, <2>6, <2>7
<1>3. CASE ClaimGranted(p)
  <2>1. h.pc = "claim" /\ j \in Job
    BY <1>0, <1>3 DEF ClaimGranted
  <2>2. JobTypeOK'
    BY <1>3, <2>1, ClaimTypes DEF ClaimGranted
  <2>3. CASE AttemptsLeft(j)
    <3> DEFINE e == [pc |-> "admitted", tok |-> drawn[j] + 1,
                     attempt |-> attempts[j] + 1, lost |-> FALSE]
               g == [h EXCEPT !.pc = "schedule"]
    <3>1. e \in Execution /\ e.pc = "admitted"
      BY <2>1, <2>3, LocalTypes DEF AttemptsLeft, Execution, ExecPc
    <3>a. "schedule" \in HolderPc /\ h \in Holder
      BY <1>0 DEF HolderPc
    <3>2. g \in Holder /\ g.pc = "schedule" /\ g.job = j
      BY ONLY <3>a DEF Holder
    <3>3. exec' = [exec EXCEPT ![p][j] = e] /\ holder' = [holder EXCEPT ![p] = g]
      BY <1>3, <2>3 DEF ClaimGranted
    <3> HIDE DEF e, g
    <3>4. Becomes(p, j, e)
      BY <1>0, <2>1, <3>1, <3>3, ExecUpdate
    <3>5. QueueTypeOK'
      BY <1>3, <3>2, <3>3, <3>4 DEF ClaimGranted, QueueTypeOK, Becomes
    <3>6. RetryOK'
      BY <2>1, <3>1, <3>4 DEF RetryOK, Becomes
    <3>7. HolderOK'
      BY <1>0, <2>1, <3>1, <3>2, <3>3, <3>4 DEF HolderOK, Becomes
    <3> QED
      BY <2>2, <3>5, <3>6, <3>7
  <2>4. CASE ~AttemptsLeft(j)
    <3> DEFINE t == drawn[j] + 1
               g == [h EXCEPT !.pc = "exhausted", !.tok = t]
    <3>a. t \in Nat /\ "exhausted" \in HolderPc /\ h \in Holder
      BY <1>0, <2>1, LocalTypes DEF HolderPc
    <3>1. g \in Holder /\ g.pc = "exhausted" /\ g.job = j
      <4> HIDE DEF t
      <4> QED
        BY ONLY <3>a DEF Holder
    <3>2. exec' = exec /\ holder' = [holder EXCEPT ![p] = g]
      BY <1>3, <2>4 DEF ClaimGranted
    <3> HIDE DEF g
    <3>3. QueueTypeOK'
      BY <1>3, <3>1, <3>2 DEF ClaimGranted, QueueTypeOK
    <3>4. RetryOK' /\ HolderOK'
      BY <1>0, <2>1, <3>1, <3>2 DEF RetryOK, HolderOK
    <3> QED
      BY <2>2, <3>3, <3>4
  <2> QED
    BY <2>3, <2>4
<1>4. CASE FailExhausted(p)
  <2>1. h.pc = "exhausted" /\ j \in Job
    BY <1>0, <1>4 DEF FailExhausted
  <2>2. JobTypeOK'
    BY <1>0, <1>4, <2>1, RowTypes DEF FailExhausted, Raises, ErrorKind
  <2>3. PICK b \in BOOLEAN : holder' = [holder EXCEPT ![p] = [h EXCEPT !.pc = "release", !.raised = b]]
    BY <1>4 DEF FailExhausted
  <2> DEFINE g == [h EXCEPT !.pc = "release", !.raised = b]
  <2>4. g \in Holder /\ g.pc = "release" /\ g.job = j
    <3>1. "release" \in HolderPc /\ h \in Holder /\ b \in BOOLEAN
      BY <1>0 DEF HolderPc
    <3> QED
      BY ONLY <3>1 DEF Holder
  <2>5. holder' = [holder EXCEPT ![p] = g]
    BY <2>3
  <2> HIDE DEF g
  <2>6. UNCHANGED <<mode, silent, permits, exec, returning, beat, req, mail>> /\ disruptions' \in Nat
    BY <1>4 DEF FailExhausted, Raises, Disrupt, QueueTypeOK
  <2>7. QueueTypeOK'
    BY <2>4, <2>5, <2>6 DEF QueueTypeOK
  <2>8. RetryOK' /\ HolderOK'
    BY <1>0, <2>1, <2>4, <2>5, <2>6 DEF RetryOK, HolderOK
  <2> QED
    BY <2>2, <2>7, <2>8
<1>5. CASE ReleaseExhausted(p)
  <2>1. h.pc = "release" /\ j \in Job
    BY <1>0, <1>5 DEF ReleaseExhausted
  <2>2. JobTypeOK'
    BY <1>0, <1>5, <2>1, ReleaseTypes DEF ReleaseExhausted, Raises
  <2>3. Returned(p, FALSE) \/ Raised(p)
    BY <1>5 DEF ReleaseExhausted
  <2>4. UNCHANGED <<mode, silent, exec, returning, beat>> /\ disruptions' \in Nat
    BY <1>5, DisruptTypes DEF ReleaseExhausted, Raises
  <2>5. QueueTypeOK'
    BY <2>1, <2>3, <2>4, ReturnTypes DEF QueueTypeOK
  <2>6. RetryOK'
    BY <2>4 DEF RetryOK
  <2>7. HolderOK'
    <3>1. holder'[p].pc = "page" /\ \A q \in Proc : q # p => holder'[q] = holder[q]
      BY <2>1, <2>3, ReturnTypes
    <3> QED
      BY <2>4, <3>1 DEF HolderOK
  <2> QED
    BY <2>2, <2>5, <2>6, <2>7
<1>6. CASE Schedule(p) \/ ScheduleRaises(p)
  <2>1. h.pc = "schedule" /\ j \in Job
    BY <1>0, <1>6 DEF Schedule, ScheduleRaises
  <2>2. JobTypeOK'
    BY <1>0, <1>6, <2>1, ReleaseTypes DEF Schedule, ScheduleRaises, Raises
  <2>3. Returned(p, TRUE) \/ Raised(p)
    BY <1>6 DEF Schedule, ScheduleRaises
  <2>4. UNCHANGED <<mode, silent, returning, beat>> /\ disruptions' \in Nat
    BY <1>6, DisruptTypes DEF Schedule, ScheduleRaises, Raises
  <2>5. PICK e \in Execution : Becomes(p, j, e) /\ e.pc \in {"none", "queued"}
    <3>1. CASE Schedule(p)
      BY <1>0, <2>1, <3>1, GotoMoves DEF Schedule, MovesTo, ExecPc
    <3>2. CASE ScheduleRaises(p)
      BY <1>0, <2>1, <3>2, ExecUpdate, RecordTypes DEF ScheduleRaises, Idle
    <3> QED
      BY <1>6, <3>1, <3>2
  <2>6. QueueTypeOK'
    BY <2>1, <2>3, <2>4, <2>5, ReturnTypes DEF QueueTypeOK, Becomes
  <2>7. RetryOK'
    BY <2>5 DEF RetryOK, Becomes
  <2>8. HolderOK'
    <3>1. holder'[p].pc = "page" /\ \A q \in Proc : q # p => holder'[q] = holder[q]
      BY <2>1, <2>3, ReturnTypes
    <3> QED
      BY <2>5, <3>1 DEF HolderOK, Becomes
  <2> QED
    BY <2>2, <2>6, <2>7, <2>8
<1> QED
  BY <1>1, <1>2, <1>3, <1>4, <1>5, <1>6 DEF Reserved

\* The recovery loop and the dispatch consumer keep the type invariant.
LEMMA IntakeTypes ==
  ASSUME TypeInv, NEW p \in Proc,
         RecoverPage(p) \/ RecoverNext(p) \/ \E j \in Job : Deliver(p, j)
  PROVE  TypeInv'
<1> USE DEF TypeInv, TypeOK
<1>1. PICK h \in Holder : /\ h.pc # "page" => h.job \in Job
                          /\ h.pc # "schedule"
                          /\ holder' = [holder EXCEPT ![p] = h] \/ holder' = holder
  <2>0. /\ holder[p].page \in SUBSET Job /\ "page" \in HolderPc /\ "claim" \in HolderPc
        /\ Recoverable(RecoveryPageSize) \in SUBSET Job
    BY LocalTypes DEF HolderPc, Recoverable, Oldest
  <2>1. CASE RecoverPage(p)
    <3>1. Holding("recovery", NoJob, "page", Recoverable(RecoveryPageSize)) \in Holder
      BY <2>0, HoldingTypes
    <3>2. Holding("recovery", NoJob, "page", Recoverable(RecoveryPageSize)).pc = "page"
      BY DEF Holding
    <3> QED
      BY <2>1, <3>1, <3>2 DEF RecoverPage
  <2>2. CASE RecoverNext(p)
    <3>1. ASSUME NEW j \in Job
          PROVE  /\ Holding("recovery", NoJob, "page", holder[p].page \ {j}) \in Holder
                 /\ Holding("recovery", NoJob, "page", holder[p].page \ {j}).pc = "page"
                 /\ Holding("recovery", j, "claim", holder[p].page \ {j}) \in Holder
                 /\ Holding("recovery", j, "claim", holder[p].page \ {j}).pc = "claim"
                 /\ Holding("recovery", j, "claim", holder[p].page \ {j}).job = j
      BY <2>0 DEF Holding, Holder, NoToken
    <3>2. \/ holder' = [holder EXCEPT ![p] = Free]
          \/ \E j \in Job : holder' = [holder EXCEPT ![p] =
                Holding("recovery", NoJob, "page", holder[p].page \ {j})]
          \/ \E j \in Job : holder' = [holder EXCEPT ![p] =
                Holding("recovery", j, "claim", holder[p].page \ {j})]
      BY <2>0, <2>2 DEF RecoverNext, Unlock, StopPage
    <3>3. ASSUME NEW j \in Job, holder' = [holder EXCEPT ![p] =
                Holding("recovery", NoJob, "page", holder[p].page \ {j})]
          PROVE  \E h \in Holder : /\ h.pc # "page" => h.job \in Job
                                   /\ h.pc # "schedule"
                                   /\ holder' = [holder EXCEPT ![p] = h] \/ holder' = holder
      <4> Holding("recovery", NoJob, "page", holder[p].page \ {j}) \in Holder
        BY <3>1
      <4> WITNESS Holding("recovery", NoJob, "page", holder[p].page \ {j}) \in Holder
      <4> QED
        BY <3>1, <3>3
    <3>4. ASSUME NEW j \in Job, holder' = [holder EXCEPT ![p] =
                Holding("recovery", j, "claim", holder[p].page \ {j})]
          PROVE  \E h \in Holder : /\ h.pc # "page" => h.job \in Job
                                   /\ h.pc # "schedule"
                                   /\ holder' = [holder EXCEPT ![p] = h] \/ holder' = holder
      <4> Holding("recovery", j, "claim", holder[p].page \ {j}) \in Holder
        BY <3>1
      <4> WITNESS Holding("recovery", j, "claim", holder[p].page \ {j}) \in Holder
      <4> QED
        BY <3>1, <3>4
    <3> QED
      BY <3>2, <3>3, <3>4, RecordTypes
  <2>3. CASE \E j \in Job : Deliver(p, j)
    <3> PICK j \in Job : Deliver(p, j)
      BY <2>3
    <3>1. /\ Holding("dispatch", j, "claim", {}) \in Holder
          /\ Holding("dispatch", j, "claim", {}).pc = "claim"
          /\ Holding("dispatch", j, "claim", {}).job = j
      BY <2>0 DEF Holding, Holder, NoToken
    <3> QED
      BY <3>1, RecordTypes DEF Deliver
  <2> QED
    BY <2>1, <2>2, <2>3
<1>2. /\ UNCHANGED <<jobVars, mode, silent, exec, returning, beat, req, disruptions>>
      /\ mail' \in SUBSET Job
  BY DEF RecoverPage, RecoverNext, Deliver, QueueTypeOK
<1>3. permits' \in [Proc -> Int]
  <2>1. permits' = permits \/ permits' = [permits EXCEPT ![p] = @ - 1]
    BY DEF RecoverPage, RecoverNext, Deliver
  <2> QED
    BY <2>1 DEF QueueTypeOK
<1>4. JobTypeOK'
  BY <1>2 DEF jobVars, JobTypeOK
<1>5. QueueTypeOK'
  BY <1>1, <1>2, <1>3 DEF QueueTypeOK
<1>6. RetryOK'
  BY <1>2 DEF RetryOK
<1>7. HolderOK'
  BY <1>1, <1>2 DEF HolderOK, QueueTypeOK
<1> QED
  BY <1>4, <1>5, <1>6, <1>7

\* Releases and the heartbeat keep the type invariant.
LEMMA LeaseThreadTypes ==
  ASSUME TypeInv, NEW p \in Proc,
         \/ \E x \in returning[p] : TaskReleased(p, x[1], x[2])
         \/ BeatSnapshot(p)
         \/ \E x \in beat[p] : BeatRenew(p, x[1], x[2])
  PROVE  TypeInv'
<1> USE DEF TypeInv, TypeOK
<1>0. returning[p] \subseteq Job \X Nat /\ beat[p] \subseteq Job \X Nat
  BY DEF QueueTypeOK
<1>1. CASE \E x \in returning[p] : TaskReleased(p, x[1], x[2])
  <2>0. PICK j \in Job, t \in Nat : TaskReleased(p, j, t)
    BY <1>0, <1>1
  <2>1. JobTypeOK'
    BY <2>0, ReleaseTypes DEF TaskReleased, Raises
  <2>2. disruptions' \in Nat
    BY <2>0, DisruptTypes DEF TaskReleased, Raises
  <2>3. QueueTypeOK'
    BY <2>0, <2>2 DEF TaskReleased, QueueTypeOK, Return
  <2>4. RetryOK' /\ HolderOK'
    BY <2>0 DEF TaskReleased, RetryOK, HolderOK
  <2> QED
    BY <2>1, <2>3, <2>4
<1>2. CASE BeatSnapshot(p)
  <2>1. JobTypeOK'
    BY <1>2 DEF BeatSnapshot, jobVars, JobTypeOK
  <2>2. Owned(p) \subseteq Job \X Nat
    BY LocalTypes DEF Owned
  <2>3. QueueTypeOK'
    BY <1>2, <2>2 DEF BeatSnapshot, QueueTypeOK
  <2>4. RetryOK' /\ HolderOK'
    BY <1>2 DEF BeatSnapshot, RetryOK, HolderOK
  <2> QED
    BY <2>1, <2>3, <2>4
<1>3. CASE \E x \in beat[p] : BeatRenew(p, x[1], x[2])
  <2>0. PICK j \in Job, t \in Nat : BeatRenew(p, j, t)
    BY <1>0, <1>3
  <2>1. JobTypeOK'
    <3>1. 0 \in 0..MaxAttempts /\ "none" \in ErrorKind /\ TRUE \in BOOLEAN
      BY DEF ErrorKind
    <3> QED
      BY <2>0, <3>1, RowTypes DEF BeatRenew, Raises
  <2>2. disruptions' \in Nat
    BY <2>0, DisruptTypes DEF BeatRenew, Raises
  <2>3. exec' = exec \/ MovesTo(p, j, exec[p][j].pc)
    BY <2>0, LatchMoves DEF BeatRenew, QueueTypeOK
  <2>4. QueueTypeOK'
    <3>1. exec' \in [Proc -> [Job -> Execution]]
      BY <2>3 DEF QueueTypeOK, MovesTo, Becomes
    <3> QED
      BY <2>0, <2>2, <3>1 DEF BeatRenew, QueueTypeOK
  <2>5. RetryOK'
    BY <2>3 DEF RetryOK, MovesTo, Becomes
  <2>6. HolderOK'
    <3>1. holder' = holder
      BY <2>0 DEF BeatRenew
    <3> QED
      BY <2>3, <3>1 DEF HolderOK, MovesTo, Becomes
  <2> QED
    BY <2>1, <2>4, <2>5, <2>6
<1> QED
  BY <1>1, <1>2, <1>3

\* Life cycle steps keep the type invariant.
LEMMA LifeCycleTypes ==
  ASSUME TypeInv, NEW p \in Proc,
         \/ Shutdown(p) \/ CloseExecutor(p) \/ StopHeartbeat(p)
         \/ Crash(p) \/ Exit(p) \/ Restart(p)
  PROVE  TypeInv'
<1> USE DEF TypeInv, TypeOK
<1>0. Disrupt \/ UNCHANGED disruptions
  BY DEF Shutdown, CloseExecutor, StopHeartbeat, Crash, Exit, Restart
<1>1. CASE Shutdown(p) \/ CloseExecutor(p) \/ StopHeartbeat(p) \/ Restart(p)
  <2>1. JobTypeOK' /\ RetryOK' /\ HolderOK'
    BY <1>1 DEF Shutdown, CloseExecutor, StopHeartbeat, Restart, jobVars, JobTypeOK,
                RetryOK, HolderOK
  <2>a. disruptions' \in Nat
    BY <1>0, DisruptTypes
  <2>b. UNCHANGED <<holder, exec, returning, req, mail>>
    BY <1>1 DEF Shutdown, CloseExecutor, StopHeartbeat, Restart
  <2>c. PICK m \in {"up", "draining", "closed", "stopped", "down"} : mode' = [mode EXCEPT ![p] = m]
    BY <1>1 DEF Shutdown, CloseExecutor, StopHeartbeat, Restart
  <2>d. /\ permits' \in [Proc -> Int] /\ beat' \in [Proc -> SUBSET (Job \X Nat)]
        /\ silent' \in SUBSET Proc
    BY <1>1 DEF Shutdown, CloseExecutor, StopHeartbeat, Restart, QueueTypeOK
  <2>2. QueueTypeOK'
    BY <2>a, <2>b, <2>c, <2>d DEF QueueTypeOK
  <2> QED
    BY <2>1, <2>2
<1>2. CASE Crash(p) \/ Exit(p)
  <2>0. Forget(p) /\ mode' = [mode EXCEPT ![p] = "down"]
    BY <1>2 DEF Crash, Exit
  <2>1. JobTypeOK'
    BY <2>0 DEF Forget, jobVars, JobTypeOK
  <2>2. exec' \in [Proc -> [Job -> Execution]] /\ holder' \in [Proc -> Holder]
    BY <2>0, RecordTypes DEF Forget, QueueTypeOK
  <2>3. req' \in [Job -> Request]
    <3>1. ASSUME NEW r \in Job
          PROVE  [req[r] EXCEPT !.pc = "unavailable", !.job = NoJob] \in Request
      <4>1. req[r] \in Request /\ "unavailable" \in ReqPc
        BY DEF QueueTypeOK, ReqPc
      <4> QED
        BY <4>1 DEF Request
    <3> QED
      BY <2>0, <3>1 DEF Forget, QueueTypeOK
  <2>4. QueueTypeOK'
    BY <1>0, <2>0, <2>2, <2>3, DisruptTypes DEF Forget, QueueTypeOK
  <2>5. RetryOK'
    BY <2>0, RecordTypes DEF Forget, RetryOK, QueueTypeOK
  <2>6. HolderOK'
    BY <2>0, RecordTypes DEF Forget, HolderOK, QueueTypeOK
  <2> QED
    BY <2>1, <2>4, <2>5, <2>6
<1> QED
  BY <1>1, <1>2

\* Type correctness is inductive.
LEMMA NextTypes == TypeInv /\ [Next]_vars => TypeInv'
<1> SUFFICES ASSUME TypeInv, [Next]_vars PROVE TypeInv'
  OBVIOUS
<1>1. CASE UNCHANGED vars \/ Quiescent
  BY <1>1 DEF vars, Quiescent, jobVars, queueVars, TypeInv, TypeOK, JobTypeOK, QueueTypeOK,
       RetryOK, HolderOK
<1>2. CASE \E j \in Job : LeaseLapses(j)
  <2> PICK j \in Job : LeaseLapses(j)
    BY <1>2
  <2>1. JobTypeOK'
    BY DEF LeaseLapses, Lapse, TypeInv, TypeOK, JobTypeOK
  <2>2. QueueTypeOK'
    BY DisruptTypes DEF LeaseLapses, queueVars, TypeInv, TypeOK, QueueTypeOK
  <2>3. RetryOK' /\ HolderOK'
    BY DEF LeaseLapses, queueVars, TypeInv, RetryOK, HolderOK
  <2> QED
    BY <2>1, <2>2, <2>3 DEF TypeInv, TypeOK
<1> QED
  BY <1>1, <1>2, SubmitTypes, ReservedTypes, IntakeTypes, WorkerTypes, LeaseThreadTypes,
     LifeCycleTypes DEF Next

\* Every variable keeps its type, and no attempt number ever exceeds
\* max_attempts, in the row or in a worker.
THEOREM TypeCorrect == Spec => []TypeOK
<1>1. Spec => []TypeInv
  BY InitTypeInv, NextTypes, PTL DEF Spec
<1> QED
  BY <1>1, PTL DEF TypeInv

-----------------------------------------------------------------------------
(***************************************************************************)
(* The fencing argument: whoever still works on a job after its lease was  *)
(* lost cannot influence it.                                               *)
(***************************************************************************)

\* Tokens are drawn in order; no two executions share one.
TokensOK ==
    /\ \A j \in Job : token[j] <= drawn[j]
    /\ \A p \in Proc, j \in Job :
          IsActive(p, j) => 0 < exec[p][j].tok /\ exec[p][j].tok <= drawn[j]
    /\ \A p, q \in Proc, j \in Job :
          IsActive(p, j) /\ IsActive(q, j) /\ exec[p][j].tok = exec[q][j].tok => p = q

\* The execution that holds the row's token agrees with the row on which
\* attempt is next, respectively under way.
InStep ==
    \A p \in Proc, j \in Job :
        IsActive(p, j) /\ exec[p][j].tok = token[j] =>
            /\ exec[p][j].pc \in {"admitted", "queued", "renew", "start"}
                  => exec[p][j].attempt = attempts[j] + 1
            /\ exec[p][j].pc \in {"handler", "succeed", "retry", "backoff"}
                  => exec[p][j].attempt = attempts[j] /\ attempts[j] > 0

\* A job that is about to be failed as exhausted is exhausted.
SpentOK ==
    \A p \in Proc : holder[p].pc = "exhausted" => attempts[holder[p].job] = MaxAttempts

SafeInv ==
    /\ TokensOK /\ InStep /\ SpentOK
    /\ AttemptsBounded /\ ResultIsLatest /\ ExhaustedIsSpent

(***************************************************************************)
(* Most steps neither start an attempt nor draw a token: the rows keep     *)
(* their attempts, a token can only be cleared, and a decision that is     *)
(* recorded agrees with the attempts of the row.                           *)
(***************************************************************************)

Ahead == {"admitted", "queued", "renew", "start"}
Amid == {"handler", "succeed", "retry", "backoff"}

RowsKept ==
    /\ UNCHANGED <<attempts, drawn, started>>
    /\ \A k \in Job :
        /\ token'[k] \in {token[k], NoToken}
        /\ status'[k] = "succeeded" =>
              \/ status[k] = "succeeded" /\ result'[k] = result[k]
              \/ result'[k] = attempts[k] /\ attempts[k] > 0
        /\ error'[k] = "exhausted" => error[k] = "exhausted" \/ attempts[k] = MaxAttempts

\* Executions end, or keep token and attempt without passing a start.
ExecKept ==
    \A q \in Proc, k \in Job :
        \/ exec'[q][k].pc = "none"
        \/ /\ IsActive(q, k)
           /\ exec'[q][k].tok = exec[q][k].tok
           /\ exec'[q][k].attempt = exec[q][k].attempt
           /\ exec'[q][k].pc \in Ahead => exec[q][k].pc \in Ahead
           /\ exec'[q][k].pc \in Amid => exec[q][k].pc \in Amid

HolderKept ==
    \A q \in Proc : holder'[q].pc = "exhausted" =>
        holder[q].pc = "exhausted" /\ holder'[q].job = holder[q].job

\* Tokens and attempts are numbers, in the rows and in the executions.
LEMMA NumberTypes ==
  ASSUME TypeInv
  PROVE  /\ \A k \in Job : /\ token[k] \in Nat /\ drawn[k] \in Nat
                            /\ attempts[k] \in 0..MaxAttempts /\ started[k] \in Nat
         /\ \A q \in Proc, k \in Job :
               exec[q][k].tok \in Nat /\ exec[q][k].attempt \in 0..MaxAttempts
  BY LocalTypes DEF TypeInv, TypeOK, JobTypeOK

\* Such a step keeps the invariant.
LEMMA KeptSafe ==
  ASSUME TypeInv, SafeInv, RowsKept, ExecKept, HolderKept
  PROVE  SafeInv'
<1> USE DEF SafeInv
<1>0. /\ \A k \in Job : token[k] \in Nat /\ drawn[k] \in Nat /\ attempts[k] \in 0..MaxAttempts
      /\ \A q \in Proc, k \in Job : exec[q][k].tok \in Nat /\ exec[q][k].attempt \in Nat
  BY NumberTypes
<1>1. TokensOK'
  BY <1>0 DEF TokensOK, RowsKept, ExecKept, IsActive, NoToken
<1>2. InStep'
  BY <1>0 DEF InStep, TokensOK, RowsKept, ExecKept, IsActive, NoToken, Ahead, Amid
<1>3. SpentOK'
  BY DEF SpentOK, HolderKept, RowsKept
<1>4. AttemptsBounded' /\ ResultIsLatest' /\ ExhaustedIsSpent'
  BY DEF AttemptsBounded, ResultIsLatest, ExhaustedIsSpent, RowsKept
<1> QED
  BY <1>1, <1>2, <1>3, <1>4

\* The transactions that keep the rows in this sense.
LEMMA RowsKeptBy ==
  ASSUME TypeInv, SafeInv, NEW j \in Job, NEW t \in Nat,
         \/ UNCHANGED jobVars \/ CreateJob(j) \/ Lapse(j)
         \/ RenewLease(j, t) \/ RenewRefused(j, t) \/ ReleaseLease(j, t)
         \/ MarkRetryScheduled(j, t)
         \/ \E n \in Nat : MarkSucceeded(j, n, t) /\ n = attempts[j] /\ n > 0
         \/ \E e \in ErrorKind : /\ MarkFailed(j, e, t)
                                 /\ e = "exhausted" => attempts[j] = MaxAttempts
  PROVE  RowsKept
<1> USE DEF TypeInv, TypeOK, JobTypeOK, RowsKept
<1>1. CASE UNCHANGED jobVars \/ RenewRefused(j, t)
  BY <1>1 DEF jobVars, RenewRefused
<1>2. CASE CreateJob(j) \/ Lapse(j) \/ RenewLease(j, t)
  BY <1>2 DEF CreateJob, Lapse, RenewLease
<1>3. CASE ReleaseLease(j, t)
  BY <1>3 DEF ReleaseLease, jobVars
<1>4. CASE MarkRetryScheduled(j, t)
  BY <1>4 DEF MarkRetryScheduled, Transition, Terminal
<1>5. CASE \E n \in Nat : MarkSucceeded(j, n, t) /\ n = attempts[j] /\ n > 0
  BY <1>5 DEF MarkSucceeded, Transition, Terminal
<1>6. CASE \E e \in ErrorKind : /\ MarkFailed(j, e, t)
                                /\ e = "exhausted" => attempts[j] = MaxAttempts
  BY <1>6 DEF MarkFailed, Transition, Terminal
<1> QED
  BY <1>1, <1>2, <1>3, <1>4, <1>5, <1>6

(***************************************************************************)
(* The three steps that do more: a claim draws a token, mark_running       *)
(* starts an attempt, and the end of a back-off moves on to the next.      *)
(***************************************************************************)

\* A claim's token is new, so no older execution agrees with the row; the
\* claimant's first attempt is the one after the row's last.
LEMMA ClaimSafe ==
  ASSUME TypeInv, SafeInv, NEW p \in Proc, NEW j \in Job, NEW kind,
         ClaimJob(j, kind # "submit"), SpentOK',
         \/ exec' = exec
         \/ \E e \in Execution : /\ Becomes(p, j, e) /\ e.pc = "admitted"
                                 /\ e.tok = drawn[j] + 1 /\ e.attempt = attempts[j] + 1
  PROVE  SafeInv'
<1> USE DEF SafeInv
<1>0. /\ \A k \in Job : token[k] \in Nat /\ drawn[k] \in Nat /\ attempts[k] \in 0..MaxAttempts
      /\ \A q \in Proc, k \in Job : exec[q][k].tok \in Nat /\ exec[q][k].attempt \in Nat
  BY NumberTypes
<1>1. /\ token'[j] = drawn[j] + 1 /\ drawn'[j] = drawn[j] + 1
      /\ \A k \in Job : k # j => token'[k] = token[k] /\ drawn'[k] = drawn[k]
      /\ status'[j] = "accepted" /\ \A k \in Job : k # j => status'[k] = status[k]
      /\ UNCHANGED <<attempts, result, error, started>>
  BY DEF ClaimJob, TypeInv, TypeOK, JobTypeOK
<1>2. ASSUME NEW q \in Proc, NEW k \in Job
      PROVE  \/ exec'[q][k] = exec[q][k]
             \/ /\ q = p /\ k = j /\ exec'[q][k].pc = "admitted"
                /\ exec'[q][k].tok = drawn[j] + 1 /\ exec'[q][k].attempt = attempts[j] + 1
  BY DEF Becomes
<1>3. TokensOK'
  <2>1. \A k \in Job : token'[k] <= drawn'[k]
    BY <1>0, <1>1 DEF TokensOK
  <2>2. ASSUME NEW q \in Proc, NEW k \in Job, IsActive(q, k)'
        PROVE  0 < exec'[q][k].tok /\ exec'[q][k].tok <= drawn'[k]
    BY <1>0, <1>1, <1>2, <2>2 DEF TokensOK, IsActive
  <2>3. ASSUME NEW q \in Proc, NEW r \in Proc, NEW k \in Job,
               IsActive(q, k)', IsActive(r, k)', exec'[q][k].tok = exec'[r][k].tok
        PROVE  q = r
    BY <1>0, <1>1, <1>2, <2>3 DEF TokensOK, IsActive
  <2> QED
    BY <2>1, <2>2, <2>3 DEF TokensOK
<1>4. InStep'
  <2> SUFFICES ASSUME NEW q \in Proc, NEW k \in Job,
                      IsActive(q, k)', exec'[q][k].tok = token'[k]
               PROVE  /\ exec'[q][k].pc \in Ahead => exec'[q][k].attempt = attempts'[k] + 1
                      /\ exec'[q][k].pc \in Amid =>
                            exec'[q][k].attempt = attempts'[k] /\ attempts'[k] > 0
    BY DEF InStep, Ahead, Amid
  <2>1. CASE k = j /\ exec'[q][k] = exec[q][k]
    BY <1>0, <1>1, <2>1 DEF TokensOK, IsActive
  <2>2. CASE k # j
    BY <1>1, <1>2, <2>2 DEF InStep, IsActive, Ahead, Amid
  <2>3. CASE exec'[q][k].pc = "admitted" /\ exec'[q][k].attempt = attempts[j] + 1 /\ k = j
    BY <1>1, <2>3 DEF Ahead, Amid
  <2> QED
    BY <1>2, <2>1, <2>2, <2>3
<1>5. AttemptsBounded' /\ ResultIsLatest' /\ ExhaustedIsSpent'
  BY <1>1 DEF AttemptsBounded, ResultIsLatest, ExhaustedIsSpent
<1> QED
  BY <1>3, <1>4, <1>5

\* The lease check of _transition passes only for the execution in step with
\* the row: mark_running starts exactly the next attempt ...
LEMMA StartsNext ==
  ASSUME SafeInv, NEW p \in Proc, NEW j \in Job, exec[p][j].pc = "start",
         MarkRunning(j, exec[p][j].attempt, exec[p][j].tok)
  PROVE  exec[p][j].tok = token[j] /\ exec[p][j].attempt = attempts[j] + 1
<1>1. LeaseHeld(j, exec[p][j].tok) /\ IsActive(p, j)
  BY DEF MarkRunning, Transition, CanMove, IsActive
<1>2. exec[p][j].tok = token[j]
  BY <1>1 DEF LeaseHeld
<1> QED
  BY <1>1, <1>2 DEF SafeInv, InStep

\* ... and mark_succeeded reports the attempt under way.
LEMMA SucceedsLast ==
  ASSUME SafeInv, NEW p \in Proc, NEW j \in Job, exec[p][j].pc = "succeed",
         MarkSucceeded(j, exec[p][j].attempt, exec[p][j].tok)
  PROVE  exec[p][j].attempt = attempts[j] /\ exec[p][j].attempt > 0
<1>1. LeaseHeld(j, exec[p][j].tok) /\ IsActive(p, j)
  BY DEF MarkSucceeded, Transition, CanMove, IsActive
<1>2. exec[p][j].tok = token[j]
  BY <1>1 DEF LeaseHeld
<1> QED
  BY <1>1, <1>2 DEF SafeInv, InStep

\* A start keeps the invariant.
LEMMA StartSafe ==
  ASSUME TypeInv, SafeInv, NEW p \in Proc, NEW j \in Job,
         exec[p][j].pc = "start", MarkRunning(j, exec[p][j].attempt, exec[p][j].tok),
         NEW c \in {"handler", "infra", "done"}, MovesTo(p, j, c), holder' = holder
  PROVE  SafeInv'
<1> USE DEF SafeInv
<1> DEFINE n == exec[p][j].attempt
<1>0. /\ \A k \in Job : token[k] \in Nat /\ drawn[k] \in Nat /\ attempts[k] \in 0..MaxAttempts
                        /\ started[k] \in Nat
      /\ \A q \in Proc, k \in Job : exec[q][k].tok \in Nat /\ exec[q][k].attempt \in Nat
      /\ n \in 0..MaxAttempts
  BY NumberTypes
<1>1. /\ token' = token /\ drawn' = drawn /\ attempts'[j] = n
      /\ \A k \in Job : k # j => /\ attempts'[k] = attempts[k] /\ started'[k] = started[k]
                                 /\ status'[k] = status[k] /\ result'[k] = result[k]
                                 /\ error'[k] = error[k]
      /\ started'[j] = started[j] + 1 /\ status'[j] = "running" /\ error'[j] = "none"
  <2>1. token' = token
    BY DEF MarkRunning, Transition, Terminal, TypeInv, TypeOK, JobTypeOK
  <2> QED
    BY <2>1 DEF MarkRunning, Transition, TypeInv, TypeOK, JobTypeOK
<1>2. exec[p][j].tok = token[j] /\ n = attempts[j] + 1
  BY StartsNext
<1>3. /\ exec'[p][j].pc = c /\ exec'[p][j].tok = exec[p][j].tok /\ exec'[p][j].attempt = n
      /\ \A q \in Proc, k \in Job : q # p \/ k # j => exec'[q][k] = exec[q][k]
  BY DEF MovesTo, Becomes
<1> HIDE DEF n
<1>4. TokensOK'
  <2>1. exec'[p][j].tok = exec[p][j].tok /\ IsActive(p, j)
    BY <1>3 DEF IsActive
  <2>2. \A q \in Proc, k \in Job :
           exec'[q][k].tok = exec[q][k].tok /\ (IsActive(q, k)' => IsActive(q, k))
    BY <1>3, <2>1 DEF IsActive
  <2> QED
    BY <1>1, <2>2 DEF TokensOK
<1>5. InStep'
  <2> SUFFICES ASSUME NEW q \in Proc, NEW k \in Job,
                      IsActive(q, k)', exec'[q][k].tok = token'[k]
               PROVE  /\ exec'[q][k].pc \in Ahead => exec'[q][k].attempt = attempts'[k] + 1
                      /\ exec'[q][k].pc \in Amid =>
                            exec'[q][k].attempt = attempts'[k] /\ attempts'[k] > 0
    BY DEF InStep, Ahead, Amid
  <2>1. CASE k = j
    <3>1. q = p
      BY <1>1, <1>2, <1>3, <2>1 DEF TokensOK, IsActive
    <3> QED
      BY <1>0, <1>1, <1>2, <1>3, <2>1, <3>1 DEF Ahead, Amid
  <2>2. CASE k # j
    BY <1>1, <1>3, <2>2 DEF InStep, IsActive, Ahead, Amid
  <2> QED
    BY <2>1, <2>2
<1>6. SpentOK'
  BY <1>0, <1>1, <1>2 DEF SpentOK, TypeInv, HolderOK
<1>7. AttemptsBounded' /\ ResultIsLatest' /\ ExhaustedIsSpent'
  BY <1>0, <1>1, <1>2 DEF AttemptsBounded, ResultIsLatest, ExhaustedIsSpent
<1> QED
  BY <1>4, <1>5, <1>6, <1>7

\* The end of a back-off turns from the attempt under way to the next one.
LEMMA RetrySafe ==
  ASSUME TypeInv, SafeInv, NEW p \in Proc, NEW j \in Job, exec[p][j].pc = "backoff",
         NEW e \in Execution, Becomes(p, j, e), e.pc = "renew",
         e.tok = exec[p][j].tok, e.attempt = exec[p][j].attempt + 1,
         UNCHANGED jobVars, holder' = holder
  PROVE  SafeInv'
<1> USE DEF SafeInv, jobVars
<1>1. TokensOK'
  <2>1. \A q \in Proc, k \in Job :
           exec'[q][k].tok = exec[q][k].tok /\ (IsActive(q, k)' => IsActive(q, k))
    BY DEF IsActive, Becomes
  <2> QED
    BY <2>1 DEF TokensOK
<1>2. InStep'
  <2> SUFFICES ASSUME NEW q \in Proc, NEW k \in Job,
                      IsActive(q, k)', exec'[q][k].tok = token'[k]
               PROVE  /\ exec'[q][k].pc \in Ahead => exec'[q][k].attempt = attempts'[k] + 1
                      /\ exec'[q][k].pc \in Amid =>
                            exec'[q][k].attempt = attempts'[k] /\ attempts'[k] > 0
    BY DEF InStep, Ahead, Amid
  <2>1. CASE q = p /\ k = j
    BY <2>1 DEF InStep, IsActive, Becomes, Ahead, Amid
  <2>2. CASE q # p \/ k # j
    BY <2>2 DEF InStep, IsActive, Becomes, Ahead, Amid
  <2> QED
    BY <2>1, <2>2
<1>3. SpentOK' /\ AttemptsBounded' /\ ResultIsLatest' /\ ExhaustedIsSpent'
  BY DEF SpentOK, AttemptsBounded, ResultIsLatest, ExhaustedIsSpent
<1> QED
  BY <1>1, <1>2, <1>3

(***************************************************************************)
(* Every step of the queue is one of these.                                *)
(***************************************************************************)

\* An execution that moves without passing a start, or ends, is kept.
LEMMA ExecKeptBy ==
  ASSUME TypeInv, NEW p \in Proc, NEW j \in Job, NEW e \in Execution, Becomes(p, j, e),
         \/ e.pc = "none"
         \/ /\ IsActive(p, j) /\ e.tok = exec[p][j].tok /\ e.attempt = exec[p][j].attempt
            /\ e.pc \in Ahead => exec[p][j].pc \in Ahead
            /\ e.pc \in Amid => exec[p][j].pc \in Amid
  PROVE  ExecKept
  BY DEF Becomes, ExecKept, IsActive

\* A step of a worker keeps the invariant.
LEMMA WorkerSafe ==
  ASSUME TypeInv, SafeInv, NEW p \in Proc, NEW j \in Job, Worker(p, j)
  PROVE  SafeInv'
<1> DEFINE pc == exec[p][j].pc
           n == exec[p][j].attempt
           t == exec[p][j].tok
<1>0. WorkerStep(p, j) /\ holder' = holder /\ n \in Nat /\ t \in Nat
  BY WorkerSteps, WorkerFrames, NumberTypes
<1>1. HolderKept
  BY <1>0 DEF HolderKept
<1>2. CASE pc = "start" /\ MarkRunning(j, n, t)
           /\ \E c \in {"handler", "infra", "done"} : MovesTo(p, j, c)
  BY <1>0, <1>2, StartSafe
<1>3. CASE pc = "backoff" /\ UNCHANGED jobVars
           /\ Becomes(p, j, [exec[p][j] EXCEPT !.pc = "renew", !.attempt = n + 1])
  <2> DEFINE e == [exec[p][j] EXCEPT !.pc = "renew", !.attempt = n + 1]
  <2>1. exec[p][j] \in Execution
    BY LocalTypes
  <2>2. e.pc = "renew" /\ e.tok = t /\ e.attempt = n + 1
    BY <2>1 DEF Execution
  <2>3. Becomes(p, j, e) /\ e \in Execution
    BY <1>3 DEF Becomes
  <2> HIDE DEF e
  <2> QED
    BY <1>0, <1>3, <2>2, <2>3, RetrySafe
<1>4. ASSUME RowsKept, pc # "none", NEW c \in ExecPc, MovesTo(p, j, c),
             c \in Ahead => pc \in Ahead, c \in Amid => pc \in Amid
      PROVE  SafeInv'
  <2>1. PICK e \in Execution : /\ Becomes(p, j, e) /\ e.pc = c /\ e.tok = t /\ e.attempt = n
    BY <1>4 DEF MovesTo
  <2>2. ExecKept
    BY <1>4, <2>1, ExecKeptBy DEF IsActive
  <2> QED
    BY <1>1, <1>4, <2>2, KeptSafe
<1>5. CASE pc = "done" /\ UNCHANGED jobVars /\ Becomes(p, j, Idle)
  <2>1. RowsKept
    BY <1>5, <1>0, RowsKeptBy
  <2>2. ExecKept
    BY <1>5, RecordTypes, ExecKeptBy
  <2> QED
    BY <1>1, <2>1, <2>2, KeptSafe
<1>6. CASE /\ \/ pc = "queued" /\ UNCHANGED jobVars /\ \E c \in {"renew", "done"} : MovesTo(p, j, c)
              \/ pc = "renew" /\ (UNCHANGED jobVars \/ RenewLease(j, t))
                   /\ \E c \in {"start", "done"} : MovesTo(p, j, c)
              \/ pc = "start" /\ UNCHANGED jobVars /\ \E c \in {"infra", "done"} : MovesTo(p, j, c)
  <2>1. RowsKept
    BY <1>0, <1>6, RowsKeptBy
  <2> QED
    BY <1>4, <1>6, <2>1 DEF Ahead, Amid, ExecPc
<1>7. CASE /\ pc \in {"handler", "backoff"} /\ UNCHANGED jobVars
           /\ \E c \in {"succeed", "fail", "retry", "abandon", "done"} : MovesTo(p, j, c)
  <2>1. RowsKept
    BY <1>0, <1>7, RowsKeptBy
  <2> QED
    BY <1>4, <1>7, <2>1 DEF Ahead, Amid, ExecPc
<1>8. CASE /\ pc = "succeed" /\ (UNCHANGED jobVars \/ MarkSucceeded(j, n, t))
           /\ \E c \in {"infra", "done"} : MovesTo(p, j, c)
  <2>1. MarkSucceeded(j, n, t) => n = attempts[j] /\ n > 0
    BY <1>8, SucceedsLast
  <2>2. RowsKept
    BY <1>0, <1>8, <2>1, RowsKeptBy
  <2> QED
    BY <1>4, <1>8, <2>2 DEF Ahead, Amid, ExecPc
<1>9. CASE /\ pc = "retry" /\ (UNCHANGED jobVars \/ MarkRetryScheduled(j, t))
           /\ \E c \in {"backoff", "infra", "done"} : MovesTo(p, j, c)
  <2>1. RowsKept
    BY <1>0, <1>9, RowsKeptBy
  <2> QED
    BY <1>4, <1>9, <2>1 DEF Ahead, Amid, ExecPc
<1>10. CASE /\ pc \in {"fail", "abandon", "infra", "bury"}
            /\ UNCHANGED jobVars \/ \E x \in ErrorKind \ {"exhausted"} : MarkFailed(j, x, t)
            /\ \E c \in {"infra", "bury", "done"} : MovesTo(p, j, c)
  <2>1. RowsKept
    BY <1>0, <1>10, RowsKeptBy
  <2> QED
    BY <1>4, <1>10, <2>1 DEF Ahead, Amid, ExecPc
<1> QED
  BY <1>0, <1>2, <1>3, <1>5, <1>6, <1>7, <1>8, <1>9, <1>10 DEF WorkerStep

\* submit, the recovery loop and the consumer keep the invariant.
LEMMA IntakeSafe ==
  ASSUME TypeInv, SafeInv,
         \/ \E r \in Job : Submit(r) \/ \E p \in Proc : SubmitBegin(r, p)
         \/ \E p \in Proc : RecoverPage(p) \/ RecoverNext(p) \/ \E j \in Job : Deliver(p, j)
  PROVE  SafeInv'
<1>1. ExecKept
  <2>1. exec' = exec
    BY DEF Submit, SubmitLookup, SubmitInsert, SubmitBegin, RecoverPage, RecoverNext, Deliver
  <2> QED
    BY <2>1 DEF ExecKept, IsActive
<1>2. RowsKept
  <2>1. UNCHANGED jobVars \/ \E r \in Job : CreateJob(r)
    BY DEF Submit, SubmitLookup, SubmitInsert, SubmitBegin, RecoverPage, RecoverNext, Deliver,
           Raises
  <2>2. 0 \in Nat
    OBVIOUS
  <2> QED
    BY <2>1, <2>2, RowsKeptBy, JobAssumption
<1>3. HolderKept
  <2>0. /\ \A kind, k, page : /\ Holding(kind, k, "page", page).pc = "page"
                              /\ Holding(kind, k, "claim", page).pc = "claim"
                              /\ Holding(kind, k, "publish", page).pc = "publish"
        /\ Free.pc = "page" /\ holder \in [Proc -> Holder]
    BY RecordTypes DEF Holding, TypeInv, TypeOK, QueueTypeOK
  <2>1. CASE \E r \in Job : SubmitLookup(r) \/ \E p \in Proc : SubmitBegin(r, p)
    BY <2>1 DEF SubmitLookup, SubmitBegin, HolderKept
  <2>2. CASE \E r \in Job : SubmitInsert(r)
    BY <2>0, <2>2 DEF SubmitInsert, HolderKept
  <2>3. CASE \E p \in Proc : RecoverPage(p) \/ \E j \in Job : Deliver(p, j)
    BY <2>0, <2>3 DEF RecoverPage, Deliver, HolderKept
  <2>4. CASE \E p \in Proc : RecoverNext(p)
    <3> PICK p \in Proc : RecoverNext(p)
      BY <2>4
    <3>1. PICK h \in {Free} \cup {Holding("recovery", NoJob, "page", holder[p].page \ {j}) : j \in Job}
                \cup {Holding("recovery", j, "claim", holder[p].page \ {j}) : j \in Job} :
             holder' = [holder EXCEPT ![p] = h]
      <4>1. holder[p].page \in SUBSET Job
        BY <2>0 DEF Holder
      <4> QED
        BY <4>1 DEF RecoverNext, Unlock, StopPage
    <3>a. h.pc \in {"page", "claim"}
      BY ONLY <3>1, <2>0, h \in {Free}
                \cup {Holding("recovery", NoJob, "page", holder[p].page \ {j}) : j \in Job}
                \cup {Holding("recovery", j, "claim", holder[p].page \ {j}) : j \in Job}
         DEF Holding
    <3>2. \A q \in Proc : holder'[q] = holder[q] \/ holder'[q].pc \in {"page", "claim"}
      BY <2>0, <3>1, <3>a
    <3> QED
      BY <3>2 DEF HolderKept
  <2> QED
    BY <2>1, <2>2, <2>3, <2>4 DEF Submit
<1> QED
  BY <1>1, <1>2, <1>3, KeptSafe

\* The thread inside the submission lock keeps the invariant.
LEMMA ReservedSafe ==
  ASSUME TypeInv, SafeInv, NEW p \in Proc, Reserved(p)
  PROVE  SafeInv'
<1> DEFINE j == holder[p].job
           h == holder[p]
<1>0. /\ h.pc # "page" => j \in Job
      /\ h.pc = "schedule" => exec[p][j].pc = "admitted"
      /\ h \in Holder /\ h.tok \in Nat /\ holder \in [Proc -> Holder]
      /\ exec \in [Proc -> [Job -> Execution]] /\ 0 \in Nat
  BY DEF TypeInv, TypeOK, QueueTypeOK, HolderOK, Holder
<1>1. exec' = exec => ExecKept
  BY DEF ExecKept, IsActive
<1>2. ASSUME h.pc # "page", NEW b \in BOOLEAN, Returned(p, b) \/ Raised(p)
      PROVE  HolderKept
  BY <1>2, ReturnTypes DEF HolderKept
<1>3. CASE PublishDispatch(p)
  <2>1. RowsKept
    BY <1>0, <1>3, RowsKeptBy DEF PublishDispatch
  <2>2. HolderKept
    BY <1>0, <1>3, RecordTypes DEF PublishDispatch, Unlock, HolderKept
  <2> QED
    BY <1>1, <1>3, <2>1, <2>2, KeptSafe DEF PublishDispatch
<1>4. CASE ClaimRefused(p)
  <2>1. RowsKept
    BY <1>0, <1>4, RowsKeptBy DEF ClaimRefused
  <2>2. HolderKept
    BY <1>2, <1>4 DEF ClaimRefused
  <2> QED
    BY <1>1, <1>4, <2>1, <2>2, KeptSafe DEF ClaimRefused
<1>5. CASE ClaimRaises(p)
  <2>1. HolderKept /\ exec' = exec /\ h.pc = "claim"
    BY <1>2, <1>5 DEF ClaimRaises
  <2>2. CASE UNCHANGED jobVars
    <3>1. RowsKept
      BY <1>0, <2>1, <2>2, RowsKeptBy
    <3> QED
      BY <1>1, <2>1, <3>1, KeptSafe
  <2>3. CASE ClaimJob(j, h.kind # "submit")
    <3>1. SpentOK'
      BY <2>1, <2>3 DEF HolderKept, ClaimJob, SafeInv, SpentOK
    <3> QED
      BY <1>0, <2>1, <2>3, <3>1, ClaimSafe
  <2> QED
    BY <1>5, <2>2, <2>3 DEF ClaimRaises, Raises
<1>6. CASE ClaimGranted(p)
  <2>0. h.pc = "claim" /\ j \in Job /\ ClaimJob(j, h.kind # "submit")
    BY <1>0, <1>6 DEF ClaimGranted
  <2>a. attempts[j] \in 0..MaxAttempts /\ drawn[j] \in Nat
    BY <2>0, NumberTypes
  <2>1. CASE AttemptsLeft(j)
    <3> DEFINE e == [pc |-> "admitted", tok |-> drawn[j] + 1,
                     attempt |-> attempts[j] + 1, lost |-> FALSE]
               g == [h EXCEPT !.pc = "schedule"]
    <3>1. e \in Execution /\ e.pc = "admitted" /\ e.tok = drawn[j] + 1
          /\ e.attempt = attempts[j] + 1
      BY <2>a, <2>1 DEF AttemptsLeft, Execution, ExecPc
    <3>2. g.pc = "schedule"
      BY <1>0 DEF Holder
    <3>3. exec' = [exec EXCEPT ![p][j] = e] /\ holder' = [holder EXCEPT ![p] = g]
      BY <1>6, <2>1 DEF ClaimGranted
    <3> HIDE DEF e, g
    <3>4. Becomes(p, j, e)
      BY <1>0, <2>0, <3>1, <3>3, ExecUpdate
    <3>5. SpentOK'
      BY <1>0, <2>0, <3>2, <3>3 DEF ClaimJob, SafeInv, SpentOK
    <3> QED
      BY <2>0, <3>1, <3>4, <3>5, ClaimSafe
  <2>2. CASE ~AttemptsLeft(j)
    <3> DEFINE g == [h EXCEPT !.pc = "exhausted", !.tok = drawn[j] + 1]
    <3>1. g.job = j
      BY <1>0 DEF Holder
    <3>2. exec' = exec /\ holder' = [holder EXCEPT ![p] = g]
      BY <1>6, <2>2 DEF ClaimGranted
    <3> HIDE DEF g
    <3>3. attempts[j] = MaxAttempts
      BY <2>a, <2>2 DEF AttemptsLeft
    <3>4. SpentOK'
      BY <1>0, <2>0, <3>1, <3>2, <3>3 DEF ClaimJob, SafeInv, SpentOK
    <3> QED
      BY <2>0, <3>2, <3>4, ClaimSafe
  <2> QED
    BY <2>1, <2>2
<1>7. CASE FailExhausted(p)
  <2>0. h.pc = "exhausted" /\ j \in Job /\ exec' = exec
    BY <1>0, <1>7 DEF FailExhausted
  <2>1. UNCHANGED jobVars \/ MarkFailed(j, "exhausted", h.tok)
    BY <1>7 DEF FailExhausted, Raises
  <2>2. attempts[j] = MaxAttempts
    BY <2>0 DEF SafeInv, SpentOK
  <2>3. RowsKept
    BY <1>0, <2>0, <2>1, <2>2, RowsKeptBy DEF ErrorKind
  <2>4. PICK b \in BOOLEAN : holder' = [holder EXCEPT ![p] = [h EXCEPT !.pc = "release", !.raised = b]]
    BY <1>7 DEF FailExhausted
  <2> DEFINE g == [h EXCEPT !.pc = "release", !.raised = b]
  <2>5. g.pc = "release"
    BY <1>0 DEF Holder
  <2>6. holder' = [holder EXCEPT ![p] = g]
    BY <2>4
  <2> HIDE DEF g
  <2>7. HolderKept
    BY <1>0, <2>5, <2>6 DEF HolderKept
  <2> QED
    BY <1>1, <2>0, <2>3, <2>7, KeptSafe
<1>8. CASE ReleaseExhausted(p)
  <2>1. RowsKept
    BY <1>0, <1>8, RowsKeptBy DEF ReleaseExhausted, Raises
  <2>2. HolderKept
    BY <1>2, <1>8 DEF ReleaseExhausted
  <2> QED
    BY <1>1, <1>8, <2>1, <2>2, KeptSafe DEF ReleaseExhausted
<1>9. CASE Schedule(p) \/ ScheduleRaises(p)
  <2>0. h.pc = "schedule" /\ j \in Job /\ exec[p][j].pc = "admitted" /\ exec[p][j].tok \in Nat
    BY <1>0, <1>9, NumberTypes DEF Schedule, ScheduleRaises
  <2>1. RowsKept
    BY <1>9, <2>0, RowsKeptBy DEF Schedule, ScheduleRaises, Raises
  <2>2. HolderKept
    BY <1>2, <1>9, <2>0 DEF Schedule, ScheduleRaises
  <2>3. ExecKept
    <3>1. CASE Schedule(p)
      <4>1. MovesTo(p, j, "queued")
        BY <1>0, <2>0, <3>1, GotoMoves DEF Schedule, ExecPc
      <4> QED
        BY <2>0, <4>1, ExecKeptBy DEF MovesTo, IsActive, Ahead, Amid
    <3>2. CASE ScheduleRaises(p)
      BY <1>0, <2>0, <3>2, ExecUpdate, RecordTypes, ExecKeptBy DEF ScheduleRaises
    <3> QED
      BY <1>9, <3>1, <3>2
  <2> QED
    BY <2>1, <2>2, <2>3, KeptSafe
<1> QED
  BY <1>3, <1>4, <1>5, <1>6, <1>7, <1>8, <1>9 DEF Reserved

\* Releases, the heartbeat, the life cycle and time keep the invariant.
LEMMA BackgroundSafe ==
  ASSUME TypeInv, SafeInv, NEW p \in Proc,
         \/ \E x \in returning[p] : TaskReleased(p, x[1], x[2])
         \/ BeatSnapshot(p)
         \/ \E x \in beat[p] : BeatRenew(p, x[1], x[2])
         \/ Shutdown(p) \/ CloseExecutor(p) \/ StopHeartbeat(p)
         \/ Crash(p) \/ Exit(p) \/ Restart(p)
  PROVE  SafeInv'
<1>0. /\ returning[p] \subseteq Job \X Nat /\ beat[p] \subseteq Job \X Nat
      /\ exec \in [Proc -> [Job -> Execution]] /\ holder \in [Proc -> Holder]
      /\ \E k \in Job : TRUE
      /\ 0 \in Nat
  <2>1. \E k \in Job : TRUE
    BY JobAssumption
  <2> QED
    BY <2>1 DEF TypeInv, TypeOK, QueueTypeOK
<1>1. exec' = exec => ExecKept
  BY DEF ExecKept, IsActive
<1>2. holder' = holder => HolderKept
  BY DEF HolderKept
<1>3. CASE \E x \in returning[p] : TaskReleased(p, x[1], x[2])
  <2>0. PICK j \in Job, t \in Nat : TaskReleased(p, j, t)
    BY <1>0, <1>3
  <2>1. RowsKept
    BY <2>0, RowsKeptBy DEF TaskReleased, Raises
  <2> QED
    BY <1>1, <1>2, <2>0, <2>1, KeptSafe DEF TaskReleased
<1>4. CASE \E x \in beat[p] : BeatRenew(p, x[1], x[2])
  <2>0. PICK j \in Job, t \in Nat : BeatRenew(p, j, t)
    BY <1>0, <1>4
  <2>1. RowsKept
    BY <2>0, RowsKeptBy DEF BeatRenew, Raises
  <2>2. ExecKept
    <3>1. CASE exec' = exec
      BY <1>1, <3>1
    <3>2. CASE IsActive(p, j) /\ MovesTo(p, j, exec[p][j].pc)
      BY <3>2, ExecKeptBy DEF MovesTo
    <3>3. exec' = exec \/ (IsActive(p, j) /\ MovesTo(p, j, exec[p][j].pc))
      BY <1>0, <2>0, LatchMoves DEF BeatRenew, Latch
    <3> QED
      BY <3>1, <3>2, <3>3
  <2> QED
    BY <1>2, <2>0, <2>1, <2>2, KeptSafe DEF BeatRenew
<1>5. CASE BeatSnapshot(p) \/ Shutdown(p) \/ CloseExecutor(p) \/ StopHeartbeat(p) \/ Restart(p)
  <2>1. UNCHANGED <<jobVars, holder, exec>>
    BY <1>5 DEF BeatSnapshot, Shutdown, CloseExecutor, StopHeartbeat, Restart
  <2>2. RowsKept
    BY <1>0, <2>1, RowsKeptBy
  <2> QED
    BY <1>1, <1>2, <2>1, <2>2, KeptSafe
<1>6. CASE Crash(p) \/ Exit(p)
  <2>0. Forget(p)
    BY <1>6 DEF Crash, Exit
  <2>1. RowsKept
    BY <1>0, <2>0, RowsKeptBy DEF Forget
  <2>2. ExecKept
    <3>1. \A q \in Proc, k \in Job : exec'[q][k] = IF q = p THEN Idle ELSE exec[q][k]
      BY <1>0, <2>0 DEF Forget
    <3> QED
      BY <3>1, RecordTypes DEF ExecKept, IsActive
  <2>3. HolderKept
    BY <1>0, <2>0, RecordTypes DEF Forget, HolderKept
  <2> QED
    BY <2>1, <2>2, <2>3, KeptSafe
<1> QED
  BY <1>3, <1>4, <1>5, <1>6

\* The fencing invariant is inductive.
LEMMA NextSafe == TypeInv /\ SafeInv /\ [Next]_vars => SafeInv'
<1> SUFFICES ASSUME TypeInv, SafeInv, [Next]_vars PROVE SafeInv'
  OBVIOUS
<1>1. CASE UNCHANGED vars \/ Quiescent \/ \E j \in Job : LeaseLapses(j)
  <2>0. exec' = exec /\ holder' = holder
    BY <1>1 DEF vars, queueVars, Quiescent, LeaseLapses
  <2>1. ExecKept /\ HolderKept
    BY <2>0 DEF ExecKept, HolderKept, IsActive
  <2>2. UNCHANGED jobVars \/ \E j \in Job : Lapse(j)
    BY <1>1 DEF vars, Quiescent, LeaseLapses
  <2>3. RowsKept
    BY <2>2, RowsKeptBy, JobAssumption
  <2> QED
    BY <2>1, <2>3, KeptSafe
<1> QED
  BY <1>1, IntakeSafe, WorkerSafe, ReservedSafe, BackgroundSafe DEF Next

\* Initially nothing is active and nothing has been started.
LEMMA InitSafe == Init => SafeInv
<1> SUFFICES ASSUME Init PROVE SafeInv
  OBVIOUS
<1>1. /\ \A q \in Proc, k \in Job : ~IsActive(q, k)
      /\ \A q \in Proc : holder[q].pc = "page"
  BY RecordTypes DEF Init, IsActive
<1>2. TokensOK /\ InStep /\ SpentOK
  BY <1>1 DEF Init, JobInit, TokensOK, InStep, SpentOK, NoToken
<1>3. AttemptsBounded /\ ResultIsLatest /\ ExhaustedIsSpent
  BY DEF Init, JobInit, AttemptsBounded, ResultIsLatest, ExhaustedIsSpent
<1> QED
  BY <1>2, <1>3 DEF SafeInv

\* Both invariants hold in every reachable state.
LEMMA AlwaysSafe == Spec => [](TypeInv /\ SafeInv)
  BY InitTypeInv, NextTypes, InitSafe, NextSafe, PTL DEF Spec

\* Fencing: a job is started at most max_attempts times with consecutive
\* numbers, a worker whose lease was taken over never decides it, and it is
\* given up as RecoveryExhausted only when every attempt was started.
THEOREM Fencing == Spec => [](AttemptsBounded /\ ResultIsLatest /\ ExhaustedIsSpent)
<1>1. SafeInv => AttemptsBounded /\ ResultIsLatest /\ ExhaustedIsSpent
  BY DEF SafeInv
<1> QED
  BY <1>1, AlwaysSafe, PTL

\* The attempts of a job are accounted for, however often it changes hands:
\* never one start too many, never given up one start too early.
THEOREM Accounting == Spec => []AttemptsAccounted
<1>1. SafeInv => AttemptsAccounted
  BY DEF SafeInv, AttemptsAccounted
<1> QED
  BY <1>1, AlwaysSafe, PTL

(***************************************************************************)
(* Decided jobs.  Every step makes at most one transaction, which starts   *)
(* the next attempt, reports the last one, or does neither; none of the    *)
(* transactions applies to a decided row.                                  *)
(***************************************************************************)

RowStep ==
    \/ UNCHANGED jobVars
    \/ \E j \in Job, t \in Nat, n \in Nat, e \in ErrorKind :
        \/ CreateJob(j) \/ Lapse(j) \/ RenewLease(j, t) \/ ReleaseLease(j, t)
        \/ \E p \in Proc : ClaimJob(j, holder[p].kind # "submit")
        \/ MarkRunning(j, n, t) /\ n = attempts[j] + 1
        \/ MarkRetryScheduled(j, t)
        \/ MarkSucceeded(j, n, t) /\ n = attempts[j] /\ n > 0
        \/ MarkFailed(j, e, t)

Frozen ==
    \A j \in Job : status[j] \in Terminal =>
        /\ status'[j] = status[j] /\ result'[j] = result[j]
        /\ error'[j] = error[j] /\ attempts'[j] = attempts[j]

\* No transaction changes a decided row.
LEMMA RowStepFreezes ==
  ASSUME TypeInv, RowStep
  PROVE  Frozen
<1> USE DEF TypeInv, TypeOK, JobTypeOK, Frozen, Terminal, Active
<1>1. CASE UNCHANGED jobVars
  BY <1>1 DEF jobVars
<1>2. CASE \E j \in Job, t \in Nat : CreateJob(j) \/ Lapse(j) \/ RenewLease(j, t)
  BY <1>2 DEF CreateJob, Lapse, RenewLease
<1>3. CASE \E j \in Job, t \in Nat : ReleaseLease(j, t)
  BY <1>3 DEF ReleaseLease, jobVars
<1>4. CASE \E j \in Job, p \in Proc : ClaimJob(j, holder[p].kind # "submit")
  BY <1>4 DEF ClaimJob, Claimable
<1>5. ASSUME NEW j \in Job, NEW target, NEW t, NEW r, NEW x,
             Transition(j, target, t, r, x)
      PROVE  /\ status[j] \notin Terminal
             /\ \A k \in Job : k # j => /\ status'[k] = status[k] /\ result'[k] = result[k]
                                        /\ error'[k] = error[k]
  BY <1>5 DEF Transition, CanMove, Legal, AllowedTransitions, Status
<1>6. CASE \E j \in Job, t \in Nat, n \in Nat, e \in ErrorKind :
            \/ MarkRunning(j, n, t) \/ MarkRetryScheduled(j, t)
            \/ MarkSucceeded(j, n, t) \/ MarkFailed(j, e, t)
  <2> PICK j \in Job, t \in Nat, n \in Nat, e \in ErrorKind :
            \/ MarkRunning(j, n, t) \/ MarkRetryScheduled(j, t)
            \/ MarkSucceeded(j, n, t) \/ MarkFailed(j, e, t)
    BY <1>6
  <2>1. \A k \in Job : k # j => attempts'[k] = attempts[k]
    BY DEF MarkRunning, MarkRetryScheduled, MarkSucceeded, MarkFailed
  <2>2. \E target, r, x : Transition(j, target, t, r, x)
    BY DEF MarkRunning, MarkRetryScheduled, MarkSucceeded, MarkFailed
  <2> QED
    BY <1>5, <2>1, <2>2
<1> QED
  BY <1>1, <1>2, <1>3, <1>4, <1>6 DEF RowStep

\* Every step of the queue makes at most one transaction.
LEMMA NextRowStep == TypeInv /\ SafeInv /\ [Next]_vars => RowStep
<1> SUFFICES ASSUME TypeInv, SafeInv, [Next]_vars PROVE RowStep
  OBVIOUS
<1> USE DEF RowStep
<1>0. 0 \in Nat /\ "none" \in ErrorKind /\ "exhausted" \in ErrorKind /\ \E k \in Job : TRUE
  BY JobAssumption DEF ErrorKind
<1>1. CASE UNCHANGED vars \/ Quiescent \/ \E j \in Job : LeaseLapses(j)
  BY <1>0, <1>1 DEF vars, Quiescent, LeaseLapses
<1>2. CASE \E r \in Job : Submit(r) \/ \E p \in Proc : SubmitBegin(r, p)
  BY <1>0, <1>2 DEF Submit, SubmitLookup, SubmitInsert, SubmitBegin, Raises
<1>3. ASSUME NEW p \in Proc, Reserved(p)
      PROVE  RowStep
  <2>1. /\ holder[p].pc # "page" => holder[p].job \in Job
        /\ holder[p].tok \in Nat
        /\ \A k \in Job : exec[p][k].tok \in Nat
    BY NumberTypes DEF TypeInv, TypeOK, QueueTypeOK, HolderOK, Holder
  <2>2. CASE PublishDispatch(p) \/ ClaimRefused(p) \/ Schedule(p)
    BY <2>2 DEF PublishDispatch, ClaimRefused, Schedule
  <2>3. CASE ClaimGranted(p) \/ ClaimRaises(p)
    BY <1>0, <2>1, <2>3 DEF ClaimGranted, ClaimRaises, Raises
  <2>4. CASE FailExhausted(p)
    BY <1>0, <2>1, <2>4 DEF FailExhausted, Raises
  <2>5. CASE ReleaseExhausted(p) \/ ScheduleRaises(p)
    BY <1>0, <2>1, <2>5 DEF ReleaseExhausted, ScheduleRaises, Raises
  <2> QED
    BY <1>3, <2>2, <2>3, <2>4, <2>5 DEF Reserved
<1>4. CASE \E p \in Proc : RecoverPage(p) \/ RecoverNext(p) \/ \E j \in Job : Deliver(p, j)
  BY <1>4 DEF RecoverPage, RecoverNext, Deliver
<1>5. ASSUME NEW p \in Proc, NEW j \in Job, Worker(p, j)
      PROVE  RowStep
  <2>1. WorkerStep(p, j) /\ exec[p][j].tok \in Nat /\ exec[p][j].attempt \in Nat
    BY <1>5, WorkerSteps, NumberTypes
  <2>2. CASE exec[p][j].pc = "start" /\ MarkRunning(j, exec[p][j].attempt, exec[p][j].tok)
    BY <1>0, <2>1, <2>2, StartsNext
  <2>3. CASE exec[p][j].pc = "succeed" /\ MarkSucceeded(j, exec[p][j].attempt, exec[p][j].tok)
    BY <1>0, <2>1, <2>3, SucceedsLast
  <2> QED
    BY <1>0, <2>1, <2>2, <2>3 DEF WorkerStep
<1>6. ASSUME NEW p \in Proc,
             \/ \E x \in returning[p] : TaskReleased(p, x[1], x[2])
             \/ \E x \in beat[p] : BeatRenew(p, x[1], x[2])
      PROVE  RowStep
  <2>1. returning[p] \subseteq Job \X Nat /\ beat[p] \subseteq Job \X Nat
    BY DEF TypeInv, TypeOK, QueueTypeOK
  <2>2. PICK j \in Job, t \in Nat : TaskReleased(p, j, t) \/ BeatRenew(p, j, t)
    BY <1>6, <2>1
  <2> QED
    BY <1>0, <2>2 DEF TaskReleased, BeatRenew, RenewRefused, Raises
<1>7. CASE \E p \in Proc : \/ BeatSnapshot(p) \/ Shutdown(p) \/ CloseExecutor(p)
                           \/ StopHeartbeat(p) \/ Crash(p) \/ Exit(p) \/ Restart(p)
  BY <1>7 DEF BeatSnapshot, Shutdown, CloseExecutor, StopHeartbeat, Crash, Exit, Restart, Forget
<1> QED
  BY <1>1, <1>2, <1>3, <1>4, <1>5, <1>6, <1>7 DEF Next

\* A decided job never changes again: status, result, error and attempts of
\* a row that _transition moved to a terminal status are final.
THEOREM Finality == Spec => TerminalIsFinal
<1>1. TypeInv /\ SafeInv /\ [Next]_vars => [Frozen]_vars
  BY NextRowStep, RowStepFreezes
<1> QED
  BY <1>1, AlwaysSafe, PTL DEF Spec, TerminalIsFinal, Frozen

-----------------------------------------------------------------------------
(***************************************************************************)
(* What follows from the fencing argument for the users of the queue: a    *)
(* token belongs to one execution at a time, also while the lease of a     *)
(* finished one is still to be released, and the job table behaves as      *)
(* JobContract says.                                                       *)
(***************************************************************************)

(***************************************************************************)
(* One owner.  A token that waits for release was drawn, and no execution  *)
(* has it any more.                                                        *)
(***************************************************************************)

ReturnedOK ==
    \A q \in Proc, j \in Job, t \in Nat : <<j, t>> \in returning[q] =>
        /\ t <= drawn[j]
        /\ \A p \in Proc : IsActive(p, j) => exec[p][j].tok # t

\* Tokens are only ever drawn.
DrawnGrows == \A j \in Job : drawn[j] <= drawn'[j]

\* An execution was active before with the same token, or has a new one.
TokensFresh ==
    \A p \in Proc, j \in Job : IsActive(p, j)' =>
        \/ IsActive(p, j) /\ exec'[p][j].tok = exec[p][j].tok
        \/ exec'[p][j].tok > drawn[j]

\* Only the token of an execution that ends starts to wait for release.
ReturnsEnded ==
    \A q \in Proc, j \in Job, t \in Nat : <<j, t>> \in returning'[q] =>
        \/ <<j, t>> \in returning[q]
        \/ IsActive(q, j) /\ t = exec[q][j].tok /\ ~IsActive(q, j)'

\* A step of this form keeps the invariant.
LEMMA ReturnedKept ==
  ASSUME TypeInv, TypeInv', SafeInv, ReturnedOK, DrawnGrows, TokensFresh, ReturnsEnded
  PROVE  ReturnedOK'
<1> SUFFICES ASSUME NEW q \in Proc, NEW j \in Job, NEW t \in Nat, <<j, t>> \in returning'[q]
             PROVE  /\ t <= drawn'[j]
                    /\ \A p \in Proc : IsActive(p, j)' => exec'[p][j].tok # t
  BY DEF ReturnedOK
<1>0. /\ drawn[j] \in Nat /\ drawn'[j] \in Nat
      /\ \A p \in Proc : exec[p][j].tok \in Nat /\ exec'[p][j].tok \in Nat
  <2>1. drawn' \in [Job -> Nat] /\ exec' \in [Proc -> [Job -> Execution]]
    BY DEF TypeInv, TypeOK, JobTypeOK, QueueTypeOK
  <2> QED
    BY <2>1, NumberTypes DEF Execution
<1>1. CASE <<j, t>> \in returning[q]
  BY <1>0, <1>1 DEF ReturnedOK, DrawnGrows, TokensFresh
<1>2. CASE IsActive(q, j) /\ t = exec[q][j].tok /\ ~IsActive(q, j)'
  BY <1>0, <1>2 DEF SafeInv, TokensOK, DrawnGrows, TokensFresh
<1> QED
  BY <1>1, <1>2 DEF ReturnsEnded

\* No transaction takes a token back.
LEMMA RowStepDraws ==
  ASSUME TypeInv, RowStep
  PROVE  DrawnGrows
<1>0. drawn \in [Job -> Nat]
  BY DEF TypeInv, TypeOK, JobTypeOK
<1>1. CASE drawn' = drawn
  BY <1>0, <1>1 DEF DrawnGrows
<1>2. CASE \E j \in Job, p \in Proc : ClaimJob(j, holder[p].kind # "submit")
  BY <1>0, <1>2 DEF DrawnGrows, ClaimJob
<1>3. ASSUME NEW j \in Job, NEW t \in Nat, NEW n \in Nat, NEW e \in ErrorKind,
             \/ CreateJob(j) \/ Lapse(j) \/ RenewLease(j, t) \/ ReleaseLease(j, t)
             \/ MarkRunning(j, n, t) \/ MarkRetryScheduled(j, t)
             \/ MarkSucceeded(j, n, t) \/ MarkFailed(j, e, t)
      PROVE  drawn' = drawn
  BY <1>3 DEF CreateJob, Lapse, RenewLease, ReleaseLease, MarkRunning, MarkRetryScheduled,
         MarkSucceeded, MarkFailed, Transition, jobVars
<1>4. UNCHANGED jobVars => drawn' = drawn
  BY DEF jobVars
<1> QED
  BY <1>1, <1>2, <1>3, <1>4 DEF RowStep

\* A step of a worker: the execution goes on with its token, or ends and
\* leaves it for release.
LEMMA WorkerReturns ==
  ASSUME TypeInv, NEW p \in Proc, NEW j \in Job, Worker(p, j)
  PROVE  TokensFresh /\ ReturnsEnded
<1>0. WorkerStep(p, j) /\ exec[p][j] \in Execution
      /\ returning \in [Proc -> SUBSET (Job \X Nat)]
  BY WorkerSteps, LocalTypes DEF TypeInv, TypeOK, QueueTypeOK
<1>1. CASE TaskDone(p, j)
  <2>1. /\ Becomes(p, j, Idle) /\ exec[p][j].pc = "done"
        /\ returning' = [returning EXCEPT ![p] = @ \cup {<<j, exec[p][j].tok>>}]
    <3>1. exec \in [Proc -> [Job -> Execution]]
      BY DEF TypeInv, TypeOK, QueueTypeOK
    <3> QED
      BY <1>1, <3>1, ExecUpdate, RecordTypes DEF TaskDone, At
  <2>2. TokensFresh
    BY <2>1, RecordTypes DEF TokensFresh, IsActive, Becomes
  <2>3. ReturnsEnded
    BY <1>0, <2>1, RecordTypes DEF ReturnsEnded, IsActive, Becomes
  <2> QED
    BY <2>2, <2>3
<1>2. CASE ~TaskDone(p, j)
  <2>1. returning' = returning
    BY <1>2 DEF Worker, WorkerFrame, StartWorker, EnsureLease, StartAttempt, HandlerEnds, Succeed,
                Fail, ScheduleRetry, EndBackoff, AbandonRetry, InspectRow, RecordFailure, Write
  <2>2. ASSUME NEW c \in ExecPc, MovesTo(p, j, c), exec[p][j].pc # "none"
        PROVE  TokensFresh
    BY <2>2 DEF MovesTo, Becomes, TokensFresh, IsActive
  <2>3. ASSUME exec[p][j].pc = "backoff",
               Becomes(p, j, [exec[p][j] EXCEPT !.pc = "renew",
                                                !.attempt = exec[p][j].attempt + 1])
        PROVE  TokensFresh
    <3> DEFINE e == [exec[p][j] EXCEPT !.pc = "renew", !.attempt = exec[p][j].attempt + 1]
    <3>1. e.tok = exec[p][j].tok /\ Becomes(p, j, e)
      BY <1>0, <2>3 DEF Execution
    <3> HIDE DEF e
    <3> QED
      BY <2>3, <3>1 DEF Becomes, TokensFresh, IsActive
  <2>4. ASSUME Becomes(p, j, Idle)
        PROVE  TokensFresh
    BY <2>4, RecordTypes DEF Becomes, TokensFresh, IsActive
  <2>5. TokensFresh
    BY <1>0, <2>2, <2>3, <2>4 DEF WorkerStep, ExecPc
  <2> QED
    BY <2>1, <2>5 DEF ReturnsEnded
<1> QED
  BY <1>1, <1>2

\* The thread inside the submission lock: a claimed execution has the token
\* drawn for it.
LEMMA ReservedReturns ==
  ASSUME TypeInv, NEW p \in Proc, Reserved(p)
  PROVE  TokensFresh /\ ReturnsEnded
<1>0. /\ exec \in [Proc -> [Job -> Execution]]
      /\ holder[p].pc # "page" => holder[p].job \in Job
      /\ \A j \in Job : drawn[j] \in Nat /\ attempts[j] \in 0..MaxAttempts
  BY NumberTypes DEF TypeInv, TypeOK, QueueTypeOK, HolderOK
<1>1. returning' = returning
  BY DEF Reserved, PublishDispatch, ClaimRefused, ClaimGranted, ClaimRaises, FailExhausted,
         ReleaseExhausted, Schedule, ScheduleRaises
<1>2. exec' = exec => TokensFresh
  BY DEF TokensFresh, IsActive
<1> DEFINE j == holder[p].job
<1>3. ASSUME ClaimGranted(p), AttemptsLeft(j)
      PROVE  TokensFresh
  <2> DEFINE e == [pc |-> "admitted", tok |-> drawn[j] + 1,
                   attempt |-> attempts[j] + 1, lost |-> FALSE]
  <2>1. exec' = [exec EXCEPT ![p][j] = e] /\ j \in Job
    BY <1>0, <1>3 DEF ClaimGranted
  <2>2. e \in Execution /\ e.tok = drawn[j] + 1
    BY <1>0, <1>3, <2>1 DEF AttemptsLeft, Execution, ExecPc
  <2> HIDE DEF e
  <2>3. Becomes(p, j, e)
    BY <1>0, <2>1, <2>2, ExecUpdate
  <2> QED
    BY <1>0, <2>1, <2>2, <2>3 DEF Becomes, TokensFresh, IsActive
<1>4. ASSUME Schedule(p)
      PROVE  TokensFresh
  <2>1. j \in Job /\ exec[p][j].pc = "admitted"
    BY <1>4 DEF Schedule, TypeInv, HolderOK
  <2>2. MovesTo(p, j, "queued")
    BY <1>0, <1>4, <2>1, GotoMoves DEF Schedule, ExecPc
  <2> QED
    BY <2>1, <2>2 DEF MovesTo, Becomes, TokensFresh, IsActive
<1>5. ASSUME ScheduleRaises(p)
      PROVE  TokensFresh
  <2>1. j \in Job /\ Becomes(p, j, Idle)
    BY <1>0, <1>5, ExecUpdate, RecordTypes DEF ScheduleRaises
  <2> QED
    BY <2>1, RecordTypes DEF Becomes, TokensFresh, IsActive
<1>6. TokensFresh
  BY <1>2, <1>3, <1>4, <1>5 DEF Reserved, PublishDispatch, ClaimRefused, ClaimGranted, ClaimRaises,
     FailExhausted, ReleaseExhausted
<1> QED
  BY <1>1, <1>6 DEF ReturnsEnded

\* Releases, the heartbeat and the end of a process: no execution gets a
\* token, and no token starts to wait.
LEMMA BackgroundReturns ==
  ASSUME TypeInv, NEW p \in Proc,
         \/ \E x \in returning[p] : TaskReleased(p, x[1], x[2])
         \/ \E x \in beat[p] : BeatRenew(p, x[1], x[2])
         \/ Crash(p) \/ Exit(p)
  PROVE  TokensFresh /\ ReturnsEnded
<1>0. /\ returning \in [Proc -> SUBSET (Job \X Nat)] /\ beat[p] \subseteq Job \X Nat
      /\ exec \in [Proc -> [Job -> Execution]]
  BY DEF TypeInv, TypeOK, QueueTypeOK
<1>1. CASE \E x \in returning[p] : TaskReleased(p, x[1], x[2])
  <2>1. /\ exec' = exec
        /\ \A q \in Proc : returning'[q] \subseteq returning[q]
    BY <1>0, <1>1 DEF TaskReleased
  <2> QED
    BY <2>1 DEF TokensFresh, ReturnsEnded, IsActive
<1>2. CASE \E x \in beat[p] : BeatRenew(p, x[1], x[2])
  <2>0. PICK j \in Job, t \in Nat : BeatRenew(p, j, t)
    BY <1>0, <1>2
  <2>1. returning' = returning
    BY <2>0 DEF BeatRenew
  <2>2. exec' = exec \/ (IsActive(p, j) /\ MovesTo(p, j, exec[p][j].pc))
    BY <1>0, <2>0, LatchMoves DEF BeatRenew, Latch
  <2>3. TokensFresh
    BY <2>2 DEF MovesTo, Becomes, TokensFresh, IsActive
  <2> QED
    BY <2>1, <2>3 DEF ReturnsEnded
<1>3. CASE Crash(p) \/ Exit(p)
  <2>1. Forget(p)
    BY <1>3 DEF Crash, Exit
  <2>2. /\ \A q \in Proc, k \in Job : exec'[q][k] = IF q = p THEN Idle ELSE exec[q][k]
        /\ \A q \in Proc : returning'[q] = IF q = p THEN {} ELSE returning[q]
    BY <1>0, <2>1 DEF Forget
  <2> QED
    BY <2>2, RecordTypes DEF TokensFresh, ReturnsEnded, IsActive
<1> QED
  BY <1>1, <1>2, <1>3

\* The invariant is kept by every step.
LEMMA NextReturned ==
  TypeInv /\ SafeInv /\ ReturnedOK /\ [Next]_vars => ReturnedOK'
<1> SUFFICES ASSUME TypeInv, SafeInv, ReturnedOK, [Next]_vars PROVE ReturnedOK'
  OBVIOUS
<1>1. TypeInv' /\ DrawnGrows
  BY NextTypes, NextRowStep, RowStepDraws
<1>2. UNCHANGED <<exec, returning>> => TokensFresh /\ ReturnsEnded
  BY DEF TokensFresh, ReturnsEnded, IsActive
<1>3. (UNCHANGED vars \/ Quiescent \/ \E j \in Job : LeaseLapses(j))
         => TokensFresh /\ ReturnsEnded
  BY <1>2 DEF vars, queueVars, Quiescent, LeaseLapses
<1>4. (\E r \in Job : Submit(r) \/ \E p \in Proc : SubmitBegin(r, p))
         => TokensFresh /\ ReturnsEnded
  BY <1>2 DEF Submit, SubmitLookup, SubmitInsert, SubmitBegin
<1>5. (\E p \in Proc : RecoverPage(p) \/ RecoverNext(p) \/ \E j \in Job : Deliver(p, j))
         => TokensFresh /\ ReturnsEnded
  BY <1>2 DEF RecoverPage, RecoverNext, Deliver
<1>6. (\E p \in Proc : \/ BeatSnapshot(p) \/ Shutdown(p) \/ CloseExecutor(p)
                       \/ StopHeartbeat(p) \/ Restart(p))
         => TokensFresh /\ ReturnsEnded
  BY <1>2 DEF BeatSnapshot, Shutdown, CloseExecutor, StopHeartbeat, Restart
<1>7. TokensFresh /\ ReturnsEnded
  BY <1>3, <1>4, <1>5, <1>6, WorkerReturns, ReservedReturns, BackgroundReturns DEF Next
<1> QED
  BY <1>1, <1>7, ReturnedKept

\* A token has one owner: no two executions share it, whatever their
\* processes have missed, and an execution's token never waits to be released
\* for another (claim_job draws it, _task_done gives it up).
THEOREM TokensOwned == Spec => []OneOwner
<1>1. Init => ReturnedOK
  BY DEF Init, ReturnedOK
<1>2. TypeInv /\ SafeInv /\ ReturnedOK => OneOwner
  <2>1. TypeInv => \A p \in Proc, j \in Job : exec[p][j].tok \in Nat
    BY NumberTypes
  <2> QED
    BY <2>1 DEF SafeInv, TokensOK, ReturnedOK, OneOwner
<1> QED
  BY <1>1, <1>2, AlwaysSafe, NextReturned, PTL DEF Spec

(***************************************************************************)
(* The contract.  Creating a row accepts the job, mark_running begins an   *)
(* attempt, mark_succeeded and mark_failed decide it; every other          *)
(* transaction is invisible to the client.                                 *)
(***************************************************************************)

\* The safety part of JobContract, read through TaskQueue's mapping.
KeepsContract == Contract!ContractInit /\ [][Contract!ContractNext]_(Contract!cvars)

\* A transaction that leaves the client's view alone.
LEMMA Unseen ==
  ASSUME TypeInv, UNCHANGED started,
         \A j \in Job : \/ status'[j] = status[j] /\ result'[j] = result[j]
                        \/ status[j] \in Active /\ status'[j] \in Active
  PROVE  UNCHANGED Contract!cvars
  BY DEF Contract!cvars, Active, Terminal

\* The transactions that do.
LEMMA UnseenRows ==
  ASSUME TypeInv, NEW j \in Job, NEW t \in Nat,
         \/ Lapse(j) \/ RenewLease(j, t) \/ ReleaseLease(j, t)
         \/ \E p \in Proc : ClaimJob(j, holder[p].kind # "submit")
         \/ MarkRetryScheduled(j, t)
  PROVE  /\ UNCHANGED started
         /\ \A k \in Job : \/ status'[k] = status[k] /\ result'[k] = result[k]
                           \/ status[k] \in Active /\ status'[k] \in Active
<1> USE DEF TypeInv, TypeOK, JobTypeOK, Active
<1>1. CASE Lapse(j) \/ RenewLease(j, t)
  BY <1>1 DEF Lapse, RenewLease
<1>2. CASE ReleaseLease(j, t)
  BY <1>2 DEF ReleaseLease, jobVars
<1>3. CASE \E p \in Proc : ClaimJob(j, holder[p].kind # "submit")
  BY <1>3 DEF ClaimJob, Claimable
<1>4. CASE MarkRetryScheduled(j, t)
  BY <1>4 DEF MarkRetryScheduled, Transition, CanMove, Legal, AllowedTransitions, Status, Terminal
<1> QED
  BY <1>1, <1>2, <1>3, <1>4

\* A row that is created is a job that is accepted ...
LEMMA CreateAccepts ==
  ASSUME TypeInv, NEW j \in Job, CreateJob(j)
  PROVE  Contract!Accept(j)
<1>1. /\ status \in [Job -> Status] /\ status[j] = "absent"
      /\ status' = [status EXCEPT ![j] = "accepted"] /\ UNCHANGED <<result, started>>
  BY DEF CreateJob, TypeInv, TypeOK, JobTypeOK
<1> QED
  BY <1>1 DEF Contract!Accept, Active

\* ... a start that passed the lease check begins an attempt it has left ...
LEMMA RunningBegins ==
  ASSUME TypeInv, TypeInv', SafeInv, NEW j \in Job, NEW n \in Nat, NEW t \in Nat,
         MarkRunning(j, n, t), n = attempts[j] + 1
  PROVE  Contract!Begin(j)
<1>1. /\ status \in [Job -> Status] /\ status[j] = "accepted"
      /\ status' = [status EXCEPT ![j] = "running"]
      /\ \A k \in Job : k # j => result'[k] = result[k]
      /\ started \in [Job -> Nat] /\ started' = [started EXCEPT ![j] = @ + 1]
  BY DEF MarkRunning, Transition, CanMove, Legal, AllowedTransitions, Status, Active, Terminal,
         TypeInv, TypeOK, JobTypeOK
<1>2. started[j] < MaxAttempts
  <2>1. attempts'[j] = n /\ attempts' \in [Job -> 0..MaxAttempts]
    BY DEF MarkRunning, TypeInv, TypeOK, JobTypeOK
  <2>2. started[j] = attempts[j] /\ attempts[j] \in 0..MaxAttempts
    BY NumberTypes DEF SafeInv, AttemptsBounded
  <2> QED
    BY <2>1, <2>2
<1> QED
  BY <1>1, <1>2 DEF Contract!Begin, Active

\* ... and a terminal transition decides the job, a success with the attempt
\* begun last.
LEMMA MarkDecides ==
  ASSUME TypeInv, SafeInv, NEW j \in Job, NEW n \in Nat, NEW t \in Nat, NEW e \in ErrorKind,
         MarkFailed(j, e, t) \/ (MarkSucceeded(j, n, t) /\ n = attempts[j] /\ n > 0)
  PROVE  Contract!Decide(j)
<1>1. /\ status \in [Job -> Status] /\ status[j] \in Active
      /\ \A k \in Job : k # j => status'[k] = status[k] /\ result'[k] = result[k]
      /\ UNCHANGED started
  BY DEF MarkFailed, MarkSucceeded, Transition, CanMove, Legal, AllowedTransitions, Status,
         Active, Terminal, TypeInv, TypeOK, JobTypeOK
<1>2. CASE MarkFailed(j, e, t)
  <2>1. status'[j] = "failed"
    BY <1>1, <1>2 DEF MarkFailed, Transition
  <2> QED
    BY <1>1, <2>1 DEF Contract!Decide, Contract!Failure, Active
<1>3. CASE MarkSucceeded(j, n, t) /\ n = attempts[j] /\ n > 0
  <2>1. status'[j] = "succeeded" /\ result'[j] = n
    BY <1>1, <1>3 DEF MarkSucceeded, Transition, TypeInv, TypeOK, JobTypeOK
  <2>2. started[j] = n /\ n > 0
    BY <1>3 DEF SafeInv, AttemptsBounded
  <2> QED
    BY <1>1, <2>1, <2>2 DEF Contract!Decide, Active
<1> QED
  BY <1>2, <1>3

\* Every step of the queue is a step of the contract or invisible to it.
LEMMA StepKeepsContract ==
  TypeInv /\ SafeInv /\ [Next]_vars => [Contract!ContractNext]_(Contract!cvars)
<1> SUFFICES ASSUME TypeInv, SafeInv, [Next]_vars
             PROVE  Contract!ContractNext \/ UNCHANGED Contract!cvars
  OBVIOUS
<1>0. TypeInv' /\ RowStep
  BY NextTypes, NextRowStep
<1>1. CASE UNCHANGED jobVars
  BY <1>1, Unseen DEF jobVars
<1>2. ASSUME NEW j \in Job, NEW t \in Nat, NEW n \in Nat, NEW e \in ErrorKind,
             \/ CreateJob(j) \/ Lapse(j) \/ RenewLease(j, t) \/ ReleaseLease(j, t)
             \/ \E p \in Proc : ClaimJob(j, holder[p].kind # "submit")
             \/ MarkRunning(j, n, t) /\ n = attempts[j] + 1
             \/ MarkRetryScheduled(j, t)
             \/ MarkSucceeded(j, n, t) /\ n = attempts[j] /\ n > 0
             \/ MarkFailed(j, e, t)
      PROVE  Contract!ContractNext \/ UNCHANGED Contract!cvars
  <2>1. CASE \/ Lapse(j) \/ RenewLease(j, t) \/ ReleaseLease(j, t)
             \/ \E p \in Proc : ClaimJob(j, holder[p].kind # "submit")
             \/ MarkRetryScheduled(j, t)
    BY <2>1, UnseenRows, Unseen
  <2>2. CASE CreateJob(j)
    BY <2>2, CreateAccepts DEF Contract!ContractNext
  <2>3. CASE MarkRunning(j, n, t) /\ n = attempts[j] + 1
    BY <1>0, <2>3, RunningBegins DEF Contract!ContractNext
  <2>4. CASE MarkFailed(j, e, t) \/ (MarkSucceeded(j, n, t) /\ n = attempts[j] /\ n > 0)
    BY <2>4, MarkDecides DEF Contract!ContractNext
  <2> QED
    BY <1>2, <2>1, <2>2, <2>3, <2>4
<1> QED
  BY <1>0, <1>1, <1>2 DEF RowStep

\* The queue keeps its contract: whatever its processes, leases and brokers
\* go through, a job is begun at most max_attempts times, decided once, and a
\* success is that of the attempt begun last.
THEOREM Implements == Spec => KeepsContract
<1>1. Init => Contract!ContractInit
  BY DEF Init, JobInit, Contract!ContractInit, Contract!Undecided
<1> QED
  BY <1>1, AlwaysSafe, StepKeepsContract, PTL DEF Spec, KeepsContract

(***************************************************************************)
(* Idempotency keys.  The table has one row for a key, a call that got a   *)
(* job got the row of its key, and the job a submission has in hand is in  *)
(* the table.                                                              *)
(***************************************************************************)

Got == {"accepted", "reused"}
Exists(j) == status[j] # "absent"
Submitting(p) == holder[p].pc # "page" /\ (holder[p].kind = "submit" \/ holder[p].pc = "publish")

KeysOK ==
    /\ \A i, j \in Job :
          Exists(i) /\ Exists(j) /\ KeyOf[i] = KeyOf[j] /\ KeyOf[i] # NoKey => i = j
    /\ \A r \in Job : req[r].pc \in Got =>
          /\ req[r].job \in Job /\ Exists(req[r].job)
          /\ KeyOf[req[r].job] = KeyOf[r] /\ PrintOf[req[r].job] = PrintOf[r]
    /\ \A p \in Proc : Submitting(p) => Exists(holder[p].job)

\* A row is created only when no row has its key, and none disappears.
RowsAppear ==
    \A k \in Job : /\ Exists(k) => Exists(k)'
                   /\ Exists(k)' /\ ~Exists(k) => CreateJob(k)

\* A call that gets a job gets the row of its key or the row it has created.
AnswersRow ==
    \A r \in Job : req'[r].pc \in Got =>
        \/ req[r].pc \in Got /\ req'[r].job = req[r].job
        \/ req'[r].job \in WithKeyOf(r) /\ ~Conflicts(r, req'[r].job)
        \/ req'[r].job = r /\ Exists(r)

\* A submission has had its job in hand before, or has just created it.
SubmitsRow ==
    \A p \in Proc : Submitting(p)' =>
        \/ Submitting(p) /\ holder'[p].job = holder[p].job
        \/ CreateJob(holder'[p].job)

\* A step of this form keeps the invariant.
LEMMA KeysKept ==
  ASSUME TypeInv, TypeInv', KeysOK, RowsAppear, AnswersRow, SubmitsRow
  PROVE  KeysOK'
<1>0. \A p \in Proc : Submitting(p)' => holder'[p].job \in Job
  BY DEF TypeInv, HolderOK, Submitting
<1>1. \A i, j \in Job :
         Exists(i)' /\ Exists(j)' /\ KeyOf[i] = KeyOf[j] /\ KeyOf[i] # NoKey => i = j
  <2> SUFFICES ASSUME NEW i \in Job, NEW j \in Job, Exists(i)', Exists(j)',
                      KeyOf[i] = KeyOf[j], KeyOf[i] # NoKey, i # j
               PROVE  FALSE
    OBVIOUS
  <2>1. ASSUME NEW k \in Job, NEW l \in Job, CreateJob(k), l # k, Exists(l)',
               KeyOf[l] = KeyOf[k], KeyOf[k] # NoKey
        PROVE  FALSE
    <3>1. status'[l] = status[l]
      BY <2>1 DEF CreateJob, TypeInv, TypeOK, JobTypeOK
    <3> QED
      BY <2>1, <3>1 DEF CreateJob, WithKeyOf, Exists
  <2> QED
    BY <2>1 DEF KeysOK, RowsAppear
<1>2. \A r \in Job : req'[r].pc \in Got =>
         /\ req'[r].job \in Job /\ status'[req'[r].job] # "absent"
         /\ KeyOf[req'[r].job] = KeyOf[r] /\ PrintOf[req'[r].job] = PrintOf[r]
  BY DEF KeysOK, RowsAppear, AnswersRow, WithKeyOf, Conflicts, Exists
<1>3. \A p \in Proc : Submitting(p)' => status'[holder'[p].job] # "absent"
  <2>1. \A k \in Job : CreateJob(k) => Exists(k)'
    BY DEF CreateJob, Exists, TypeInv, TypeOK, JobTypeOK
  <2> QED
    BY <1>0, <2>1 DEF KeysOK, RowsAppear, SubmitsRow, Exists
<1> QED
  BY <1>1, <1>2, <1>3 DEF KeysOK, Exists

\* Only create_or_get_job adds a row.
LEMMA RowStepAppears ==
  ASSUME TypeInv, RowStep
  PROVE  RowsAppear
<1> USE DEF TypeInv, TypeOK, JobTypeOK, RowsAppear, Exists
<1>1. CASE UNCHANGED jobVars
  BY <1>1 DEF jobVars
<1>2. ASSUME NEW j \in Job, CreateJob(j)
      PROVE  RowsAppear
  BY <1>2 DEF CreateJob
<1>3. ASSUME NEW j \in Job, NEW t \in Nat,
             \/ Lapse(j) \/ RenewLease(j, t) \/ ReleaseLease(j, t)
             \/ \E p \in Proc : ClaimJob(j, holder[p].kind # "submit")
             \/ MarkRetryScheduled(j, t)
      PROVE  RowsAppear
  BY <1>3, UnseenRows DEF Active
<1>4. ASSUME NEW j \in Job, NEW t \in Nat, NEW n \in Nat, NEW e \in ErrorKind,
             MarkRunning(j, n, t) \/ MarkSucceeded(j, n, t) \/ MarkFailed(j, e, t)
      PROVE  RowsAppear
  BY <1>4 DEF MarkRunning, MarkSucceeded, MarkFailed, Transition, CanMove, Legal,
              AllowedTransitions, Status, Active, Terminal
<1> QED
  BY <1>1, <1>2, <1>3, <1>4 DEF RowStep

\* An answer changes one call only.
LEMMA AnswerIs ==
  ASSUME TypeInv, NEW r \in Job, NEW pc, NEW j, Answer(r, pc, j)
  PROVE  /\ req'[r].pc = pc /\ req'[r].job = j
         /\ \A s \in Job : s # r => req'[s] = req[s]
<1>1. req \in [Job -> Request] /\ req[r] \in Request
  BY DEF TypeInv, TypeOK, QueueTypeOK
<1> DEFINE e == [req[r] EXCEPT !.pc = pc, !.job = j]
<1>2. e.pc = pc /\ e.job = j
  BY <1>1 DEF Request
<1>3. req' = [req EXCEPT ![r] = e]
  BY DEF Answer
<1> HIDE DEF e
<1> QED
  BY <1>1, <1>2, <1>3

\* submit: the row of its key, or a refusal, or the lock with a new row.
LEMMA SubmitKeys ==
  ASSUME TypeInv, NEW r \in Job, Submit(r) \/ \E p \in Proc : SubmitBegin(r, p)
  PROVE  AnswersRow /\ SubmitsRow
<1>0. req \in [Job -> Request] /\ holder \in [Proc -> Holder]
  BY DEF TypeInv, TypeOK, QueueTypeOK
<1>1. \A pc, j : Answer(r, pc, j) /\ (pc \in Got => j \in WithKeyOf(r) /\ ~Conflicts(r, j))
         => AnswersRow
  BY AnswerIs DEF AnswersRow
<1>2. holder' = holder => SubmitsRow
  BY DEF SubmitsRow, Submitting
<1>3. ASSUME NEW p \in Proc, SubmitBegin(r, p)
      PROVE  AnswersRow /\ SubmitsRow
  <2>1. PICK pc \in {"waiting", "full", "lookup"} :
           req' = [req EXCEPT ![r] = [pc |-> pc, at |-> p, job |-> NoJob]]
    BY <1>3 DEF SubmitBegin
  <2>2. req'[r].pc = pc /\ \A s \in Job : s # r => req'[s] = req[s]
    BY <1>0, <2>1
  <2>3. AnswersRow
    BY <2>2 DEF AnswersRow, Got
  <2> QED
    BY <1>2, <1>3, <2>3 DEF SubmitBegin
<1>4. ASSUME SubmitLookup(r)
      PROVE  AnswersRow /\ SubmitsRow
  BY <1>1, <1>2, <1>4 DEF SubmitLookup, Got
<1>5. ASSUME SubmitInsert(r)
      PROVE  AnswersRow /\ SubmitsRow
  <2>1. AnswersRow
    BY <1>1, <1>5 DEF SubmitInsert, Got
  <2>2. \/ holder' = holder
        \/ /\ CreateJob(r)
           /\ \E pc \in {"publish", "claim"}, p \in Proc \cup {"none"} :
                 holder' = [holder EXCEPT ![p] = Holding("submit", r, pc, {})]
    BY <1>0, <1>5 DEF SubmitInsert, Request
  <2>3. \A pc : Holding("submit", r, pc, {}).job = r
    BY DEF Holding
  <2>4. ASSUME CreateJob(r), NEW pc \in {"publish", "claim"}, NEW p \in Proc \cup {"none"},
               holder' = [holder EXCEPT ![p] = Holding("submit", r, pc, {})]
        PROVE  SubmitsRow
    <3> DEFINE h == Holding("submit", r, pc, {})
    <3>1. h.job = r
      BY <2>3
    <3> HIDE DEF h
    <3>2. \A q \in Proc : holder'[q] = holder[q] \/ holder'[q] = h
      BY <1>0, <2>4 DEF h
    <3> QED
      BY <2>4, <3>1, <3>2 DEF SubmitsRow, Submitting
  <2> QED
    BY <1>2, <2>1, <2>2, <2>4
<1> QED
  BY <1>3, <1>4, <1>5 DEF Submit

\* The recovery loop and the consumer answer no call and submit nothing.
LEMMA IntakeKeys ==
  ASSUME TypeInv, NEW p \in Proc, RecoverPage(p) \/ RecoverNext(p) \/ \E j \in Job : Deliver(p, j)
  PROVE  AnswersRow /\ SubmitsRow
<1>0. /\ holder \in [Proc -> Holder] /\ req' = req
      /\ \A kind, k, page : /\ Holding(kind, k, "page", page).pc = "page"
                             /\ Holding(kind, k, "claim", page).pc = "claim"
                             /\ Holding(kind, k, "claim", page).kind = kind
      /\ Free.pc = "page"
  BY RecordTypes DEF Holding, TypeInv, TypeOK, QueueTypeOK, RecoverPage, RecoverNext, Deliver
<1>1. AnswersRow
  BY <1>0 DEF AnswersRow
<1>2. \A q \in Proc : \/ holder'[q] = holder[q] \/ holder'[q].pc = "page"
                      \/ holder'[q].pc = "claim" /\ holder'[q].kind \in {"recovery", "dispatch"}
  <2>1. CASE RecoverPage(p)
    BY <1>0, <2>1 DEF RecoverPage
  <2>2. CASE \E j \in Job : Deliver(p, j)
    BY <1>0, <2>2 DEF Deliver
  <2>3. CASE RecoverNext(p)
    <3>1. PICK h : /\ holder' = [holder EXCEPT ![p] = h]
                   /\ \/ h = Free
                      \/ \E j \in holder[p].page :
                            \/ h = Holding("recovery", NoJob, "page", holder[p].page \ {j})
                            \/ h = Holding("recovery", j, "claim", holder[p].page \ {j})
      BY <2>3 DEF RecoverNext, Unlock, StopPage
    <3>2. h.pc = "page" \/ (h.pc = "claim" /\ h.kind = "recovery")
      <4>1. CASE h = Free
        BY <1>0, <4>1
      <4>2. ASSUME NEW page, h = Holding("recovery", NoJob, "page", page)
            PROVE  h.pc = "page"
        BY <4>2 DEF Holding
      <4>3. ASSUME NEW j, NEW page, h = Holding("recovery", j, "claim", page)
            PROVE  h.pc = "claim" /\ h.kind = "recovery"
        BY <4>3 DEF Holding
      <4> QED
        BY <3>1, <4>1, <4>2, <4>3
    <3> QED
      BY <1>0, <3>1, <3>2
  <2> QED
    BY <2>1, <2>2, <2>3
<1>3. SubmitsRow
  BY <1>2 DEF SubmitsRow, Submitting
<1> QED
  BY <1>1, <1>3

\* The thread inside the lock answers the submission whose row it has.
LEMMA ReservedKeys ==
  ASSUME TypeInv, KeysOK, NEW p \in Proc, Reserved(p)
  PROVE  AnswersRow /\ SubmitsRow
<1> DEFINE h == holder[p]
<1>0. holder \in [Proc -> Holder] /\ h \in Holder /\ (h.pc # "page" => h.job \in Job)
  BY DEF TypeInv, TypeOK, QueueTypeOK, HolderOK
<1>1. req' = req => AnswersRow
  BY DEF AnswersRow
<1>2. ASSUME h.pc # "page", NEW b \in BOOLEAN, Returned(p, b) \/ Raised(p)
      PROVE  AnswersRow /\ SubmitsRow
  <2>1. SubmitsRow
    BY <1>2, ReturnTypes DEF SubmitsRow, Submitting
  <2>2. CASE h.kind = "submit" /\ Answer(h.job, "accepted", h.job)
    <3>1. Exists(h.job) /\ h.job \in Job
      BY <1>0, <1>2, <2>2 DEF KeysOK, Submitting
    <3> QED
      BY <2>1, <2>2, <3>1, AnswerIs DEF AnswersRow
  <2>3. CASE Answer(h.job, "unavailable", NoJob)
    BY <1>0, <1>2, <2>1, <2>3, AnswerIs DEF AnswersRow, Got
  <2> QED
    BY <1>1, <1>2, <2>1, <2>2, <2>3 DEF Returned, Raised
<1>3. ASSUME req' = req, NEW g \in Holder, holder' = [holder EXCEPT ![p] = g],
             g.kind = h.kind, g.job = h.job, g.pc # "publish", h.pc # "page"
      PROVE  AnswersRow /\ SubmitsRow
  BY <1>0, <1>1, <1>3 DEF SubmitsRow, Submitting
<1>4. CASE PublishDispatch(p)
  <2>1. Exists(h.job) /\ h.job \in Job
    BY <1>0, <1>4 DEF PublishDispatch, KeysOK, Submitting
  <2>2. SubmitsRow
    BY <1>0, <1>4, RecordTypes DEF PublishDispatch, Unlock, SubmitsRow, Submitting
  <2>3. CASE Answer(h.job, "accepted", h.job)
    BY <2>1, <2>2, <2>3, AnswerIs DEF AnswersRow
  <2>4. CASE Answer(h.job, "unavailable", NoJob)
    BY <2>1, <2>2, <2>4, AnswerIs DEF AnswersRow, Got
  <2> QED
    BY <1>4, <2>3, <2>4 DEF PublishDispatch
<1>5. CASE \/ ClaimRefused(p) \/ ClaimRaises(p) \/ ReleaseExhausted(p)
           \/ Schedule(p) \/ ScheduleRaises(p)
  BY <1>2, <1>5 DEF ClaimRefused, ClaimRaises, ReleaseExhausted, Schedule, ScheduleRaises
<1>6. CASE ClaimGranted(p)
  <2>1. \/ holder' = [holder EXCEPT ![p] = [h EXCEPT !.pc = "schedule"]]
        \/ holder' = [holder EXCEPT ![p] = [h EXCEPT !.pc = "exhausted", !.tok = drawn[h.job] + 1]]
    BY <1>6 DEF ClaimGranted
  <2>2. drawn[h.job] + 1 \in Nat /\ h.pc = "claim" /\ req' = req
    BY <1>0, <1>6, NumberTypes DEF ClaimGranted
  <2>3. ASSUME NEW t \in Nat
        PROVE  LET g == [h EXCEPT !.pc = "exhausted", !.tok = t]
               IN  g \in Holder /\ g.kind = h.kind /\ g.job = h.job /\ g.pc = "exhausted"
    BY <1>0 DEF Holder, HolderPc
  <2>4. LET g == [h EXCEPT !.pc = "schedule"]
        IN  g \in Holder /\ g.kind = h.kind /\ g.job = h.job /\ g.pc = "schedule"
    BY <1>0 DEF Holder, HolderPc
  <2>5. CASE holder' = [holder EXCEPT ![p] = [h EXCEPT !.pc = "schedule"]]
    <3> DEFINE g == [h EXCEPT !.pc = "schedule"]
    <3>1. g \in Holder /\ g.kind = h.kind /\ g.job = h.job /\ g.pc = "schedule"
      BY <2>4
    <3>2. holder' = [holder EXCEPT ![p] = g]
      BY <2>5
    <3> HIDE DEF g, h
    <3> QED
      BY <1>3, <2>2, <3>1, <3>2
  <2>6. CASE holder' = [holder EXCEPT ![p] = [h EXCEPT !.pc = "exhausted", !.tok = drawn[h.job] + 1]]
    <3> DEFINE g == [h EXCEPT !.pc = "exhausted", !.tok = drawn[h.job] + 1]
    <3>1. g \in Holder /\ g.kind = h.kind /\ g.job = h.job /\ g.pc = "exhausted"
      BY <2>2, <2>3
    <3>2. holder' = [holder EXCEPT ![p] = g]
      BY <2>6
    <3> HIDE DEF g, h
    <3> QED
      BY <1>3, <2>2, <3>1, <3>2
  <2> QED
    BY <2>1, <2>5, <2>6
<1>7. CASE FailExhausted(p)
  <2>1. PICK b \in BOOLEAN : holder' = [holder EXCEPT ![p] = [h EXCEPT !.pc = "release", !.raised = b]]
    BY <1>7 DEF FailExhausted
  <2> DEFINE g == [h EXCEPT !.pc = "release", !.raised = b]
  <2>2. g \in Holder /\ g.kind = h.kind /\ g.job = h.job /\ g.pc = "release"
    BY <1>0 DEF Holder, HolderPc
  <2>3. holder' = [holder EXCEPT ![p] = g] /\ req' = req /\ h.pc = "exhausted"
    BY <1>7, <2>1 DEF FailExhausted
  <2> HIDE DEF g, h
  <2> QED
    BY <1>3, <2>2, <2>3
<1> QED
  BY <1>4, <1>5, <1>6, <1>7 DEF Reserved

\* The invariant is kept by every step.
LEMMA NextKeys == TypeInv /\ SafeInv /\ KeysOK /\ [Next]_vars => KeysOK'
<1> SUFFICES ASSUME TypeInv, SafeInv, KeysOK, [Next]_vars PROVE KeysOK'
  OBVIOUS
<1>1. TypeInv' /\ RowsAppear
  BY NextTypes, NextRowStep, RowStepAppears
<1>2. UNCHANGED <<req, holder>> => AnswersRow /\ SubmitsRow
  BY DEF AnswersRow, SubmitsRow, Submitting
<1>3. (UNCHANGED vars \/ Quiescent \/ \E j \in Job : LeaseLapses(j)) => AnswersRow /\ SubmitsRow
  BY <1>2 DEF vars, queueVars, Quiescent, LeaseLapses
<1>4. (\E p \in Proc, j \in Job : Worker(p, j)) => AnswersRow /\ SubmitsRow
  BY <1>2, WorkerFrames
<1>5. (\E p \in Proc : \/ \E x \in returning[p] : TaskReleased(p, x[1], x[2])
                       \/ \E x \in beat[p] : BeatRenew(p, x[1], x[2])
                       \/ BeatSnapshot(p) \/ Shutdown(p) \/ CloseExecutor(p)
                       \/ StopHeartbeat(p) \/ Restart(p))
         => AnswersRow /\ SubmitsRow
  BY <1>2 DEF TaskReleased, BeatRenew, BeatSnapshot, Shutdown, CloseExecutor, StopHeartbeat, Restart
<1>6. ASSUME NEW p \in Proc, Crash(p) \/ Exit(p)
      PROVE  AnswersRow /\ SubmitsRow
  <2>1. Forget(p)
    BY <1>6 DEF Crash, Exit
  <2>2. req \in [Job -> Request] /\ holder \in [Proc -> Holder]
    BY DEF TypeInv, TypeOK, QueueTypeOK
  <2>3. AnswersRow
    <3>1. \A r \in Job : [req[r] EXCEPT !.pc = "unavailable", !.job = NoJob].pc = "unavailable"
      BY <2>2 DEF Request
    <3>2. \A r \in Job : req'[r] = req[r] \/ req'[r].pc = "unavailable"
      BY <2>1, <3>1 DEF Forget
    <3> QED
      BY <3>2 DEF AnswersRow, Got
  <2>4. SubmitsRow
    BY <2>1, <2>2, RecordTypes DEF Forget, SubmitsRow, Submitting
  <2> QED
    BY <2>3, <2>4
<1>7. AnswersRow /\ SubmitsRow
  BY <1>3, <1>4, <1>5, <1>6, SubmitKeys, IntakeKeys, ReservedKeys DEF Next
<1> QED
  BY <1>1, <1>7, KeysKept

\* Two calls with one idempotency key that both got a job got the same one,
\* with the payload both sent, whatever raced, failed or was restarted in
\* between (create_or_get_job, find_idempotent_job).
THEOREM KeysIdempotent == Spec => []OneJobPerKey
<1>1. Init => KeysOK
  <2> SUFFICES ASSUME Init PROVE KeysOK
    OBVIOUS
  <2>1. /\ \A r \in Job : ~Exists(r) /\ req[r].pc = "new"
        /\ \A p \in Proc : holder[p].pc = "page"
    BY RecordTypes DEF Init, JobInit, Exists
  <2> QED
    BY <2>1 DEF KeysOK, Got, Submitting
<1>2. KeysOK => OneJobPerKey
  BY DEF KeysOK, OneJobPerKey, Got
<1> QED
  BY <1>1, <1>2, AlwaysSafe, NextKeys, PTL DEF Spec

-----------------------------------------------------------------------------
(***************************************************************************)
(* Capacity.  A permit is held by a call that waits for the lock or is     *)
(* inside it, by the recovery or dispatch thread inside the lock, by an    *)
(* execution handed to the executor, or by an ended one whose lease is     *)
(* still to be released.  No bound on the number of jobs is assumed: that  *)
(* the holders are finitely many is part of the invariant.                 *)
(***************************************************************************)

Counted(p) ==
    IF DurableDispatch THEN {}
    ELSE {r \in Job : req[r].at = p /\ req[r].pc \in {"waiting", "inside"}}
Handed(p) == {j \in Job : exec[p][j].pc \notin {"none", "admitted"}}

Balanced(p) ==
    /\ IsFiniteSet(Counted(p)) /\ IsFiniteSet(Handed(p)) /\ IsFiniteSet(returning[p])
    /\ permits[p] >= 0
    /\ permits[p] + HolderPermits(p) + Cardinality(Counted(p)) + Cardinality(Handed(p))
        + Cardinality(returning[p]) = Capacity

SlotsOK == \A p \in Proc : Alive(p) => Balanced(p)

\* A call inside the lock and the lock name each other; with the dispatch
\* stream a submission only publishes, without it it only reserves; a
\* process that is down holds nothing.
CallOK(r) ==
    /\ req[r].pc \in InFlight => req[r].at \in Proc /\ Alive(req[r].at)
    /\ req[r].pc = "inside" => holder[req[r].at].kind = "submit" /\ holder[req[r].at].job = r

LockOK(p) ==
    /\ holder[p].kind = "submit" =>
          /\ holder[p].job \in Job /\ holder[p].pc # "page"
          /\ req[holder[p].job].pc = "inside" /\ req[holder[p].job].at = p
          /\ DurableDispatch <=> holder[p].pc = "publish"
    /\ holder[p].pc # "page" => holder[p].kind # "none"
    /\ holder[p].pc = "publish" => holder[p].kind = "submit"
    /\ ~Alive(p) => /\ holder[p].kind = "none" /\ Handed(p) = {} /\ returning[p] = {}

LockInv == (\A r \in Job : CallOK(r)) /\ (\A p \in Proc : LockOK(p))

CapacityInv == SlotsOK /\ LockInv

\* A set gains an element, loses one, or stays as it is.
Changes(S, T, n) ==
    \/ n = 0 /\ T = S
    \/ n = 1 /\ \E x : x \notin S /\ T = S \cup {x}
    \/ n = -1 /\ \E x \in S : T = S \ {x}

\* Its cardinality follows.
LEMMA ChangesCount ==
  ASSUME NEW S, NEW T, NEW n, IsFiniteSet(S), Changes(S, T, n)
  PROVE  /\ IsFiniteSet(T) /\ n \in {-1, 0, 1}
         /\ Cardinality(S) \in Nat /\ Cardinality(T) \in Nat
         /\ Cardinality(T) = Cardinality(S) + n
<1>0. Cardinality(S) \in Nat
  BY FS_CardinalityType
<1>1. CASE n = 0 /\ T = S
  BY <1>0, <1>1
<1>2. ASSUME n = 1, NEW x, x \notin S, T = S \cup {x}
      PROVE  IsFiniteSet(T) /\ Cardinality(T) = Cardinality(S) + 1
  BY <1>2, FS_AddElement
<1>3. ASSUME n = -1, NEW x \in S, T = S \ {x}
      PROVE  IsFiniteSet(T) /\ Cardinality(T) = Cardinality(S) - 1
  BY <1>3, FS_RemoveElement
<1>4. IsFiniteSet(T) => Cardinality(T) \in Nat
  BY FS_CardinalityType
<1> QED
  BY <1>0, <1>1, <1>2, <1>3, <1>4 DEF Changes

\* What the thread inside the lock holds is zero or one permit.
LEMMA HolderCount == \A p : HolderPermits(p) \in {0, 1}
  BY DEF HolderPermits

\* Permits that change hands stay balanced.
LEMMA Trade ==
  ASSUME NEW p \in Proc, TypeInv, TypeInv', Balanced(p), NEW a, NEW b, NEW c,
         Changes(Counted(p), Counted(p)', a), Changes(Handed(p), Handed(p)', b),
         Changes(returning[p], returning'[p], c), permits'[p] >= 0,
         permits'[p] + HolderPermits(p)' + a + b + c = permits[p] + HolderPermits(p)
  PROVE  Balanced(p)'
<1>0. permits[p] \in Int /\ permits'[p] \in Int
  BY DEF TypeInv, TypeOK, QueueTypeOK
<1>1. HolderPermits(p) \in {0, 1} /\ HolderPermits(p)' \in {0, 1}
  BY DEF HolderPermits
<1>2. /\ IsFiniteSet(Counted(p)') /\ a \in {-1, 0, 1}
      /\ Cardinality(Counted(p)) \in Nat /\ Cardinality(Counted(p)') \in Nat
      /\ Cardinality(Counted(p)') = Cardinality(Counted(p)) + a
  BY ChangesCount DEF Balanced
<1>3. /\ IsFiniteSet(Handed(p)') /\ b \in {-1, 0, 1}
      /\ Cardinality(Handed(p)) \in Nat /\ Cardinality(Handed(p)') \in Nat
      /\ Cardinality(Handed(p)') = Cardinality(Handed(p)) + b
  BY ChangesCount DEF Balanced
<1>4. /\ IsFiniteSet(returning'[p]) /\ c \in {-1, 0, 1}
      /\ Cardinality(returning[p]) \in Nat /\ Cardinality(returning'[p]) \in Nat
      /\ Cardinality(returning'[p]) = Cardinality(returning[p]) + c
  BY ChangesCount DEF Balanced
<1>5. permits[p] + HolderPermits(p) + Cardinality(Counted(p)) + Cardinality(Handed(p))
        + Cardinality(returning[p]) = Capacity
  BY DEF Balanced
<1>6. permits'[p] + HolderPermits(p)' + Cardinality(Counted(p)') + Cardinality(Handed(p)')
        + Cardinality(returning'[p]) = Capacity
  BY <1>0, <1>1, <1>2, <1>3, <1>4, <1>5
<1> QED
  BY <1>2, <1>3, <1>4, <1>6 DEF Balanced

\* A step that leaves the accounts of a process alone.
Untouched(q) ==
    /\ permits'[q] = permits[q] /\ HolderPermits(q)' = HolderPermits(q)
    /\ Counted(q)' = Counted(q) /\ Handed(q)' = Handed(q) /\ returning'[q] = returning[q]
    /\ Alive(q)' => Alive(q)

LEMMA TradeElsewhere ==
  ASSUME SlotsOK, NEW p \in Proc, \A q \in Proc \ {p} : Untouched(q),
         Untouched(p) \/ ~Alive(p)' \/ Balanced(p)'
  PROVE  SlotsOK'
<1>1. \A q \in Proc : Untouched(q) /\ Alive(q)' => Balanced(q)'
  BY DEF Untouched, SlotsOK, Balanced
<1> QED
  BY <1>1 DEF SlotsOK

\* How the executions handed to the executor change with one of them.
LEMMA HandedMoves ==
  ASSUME NEW p \in Proc, NEW j \in Job, NEW e, Becomes(p, j, e)
  PROVE  /\ \A q \in Proc \ {p} : Handed(q)' = Handed(q)
         /\ (e.pc \in {"none", "admitted"} <=> exec[p][j].pc \in {"none", "admitted"})
               => Handed(p)' = Handed(p)
         /\ e.pc \in {"none", "admitted"} /\ exec[p][j].pc \notin {"none", "admitted"}
               => Changes(Handed(p), Handed(p)', -1)
         /\ e.pc \notin {"none", "admitted"} /\ exec[p][j].pc \in {"none", "admitted"}
               => Changes(Handed(p), Handed(p)', 1)
<1>1. \A q \in Proc \ {p} : Handed(q)' = Handed(q)
  BY DEF Becomes, Handed
<1>2. ASSUME e.pc \in {"none", "admitted"} <=> exec[p][j].pc \in {"none", "admitted"}
      PROVE  Handed(p)' = Handed(p)
  BY <1>2 DEF Becomes, Handed
<1>3. ASSUME e.pc \in {"none", "admitted"}, exec[p][j].pc \notin {"none", "admitted"}
      PROVE  j \in Handed(p) /\ Handed(p)' = Handed(p) \ {j}
  BY <1>3 DEF Becomes, Handed
<1>4. ASSUME e.pc \notin {"none", "admitted"}, exec[p][j].pc \in {"none", "admitted"}
      PROVE  j \notin Handed(p) /\ Handed(p)' = Handed(p) \cup {j}
  BY <1>4 DEF Becomes, Handed
<1> QED
  BY <1>1, <1>2, <1>3, <1>4 DEF Changes

\* How the calls that hold a permit change with one of them.
LEMMA CallsMove ==
  ASSUME NEW p \in Proc, NEW r \in Job, \A s \in Job \ {r} : req'[s] = req[s],
         req'[r].at = p, req[r].at = p \/ req[r].pc = "new"
  PROVE  /\ \A q \in Proc \ {p} : Counted(q)' = Counted(q)
         /\ (req'[r].pc \in {"waiting", "inside"} <=> req[r].pc \in {"waiting", "inside"})
               => Counted(p)' = Counted(p)
         /\ req'[r].pc \notin {"waiting", "inside"} /\ req[r].pc \in {"waiting", "inside"}
               => Changes(Counted(p), Counted(p)', IF DurableDispatch THEN 0 ELSE -1)
         /\ req'[r].pc = "waiting" /\ req[r].pc = "new"
               => Changes(Counted(p), Counted(p)', IF DurableDispatch THEN 0 ELSE 1)
<1>1. \A q \in Proc \ {p} : Counted(q)' = Counted(q)
  BY DEF Counted
<1>2. ASSUME req'[r].pc \in {"waiting", "inside"} <=> req[r].pc \in {"waiting", "inside"}
      PROVE  Counted(p)' = Counted(p)
  BY <1>2 DEF Counted
<1>3. ASSUME req'[r].pc \notin {"waiting", "inside"}, req[r].pc \in {"waiting", "inside"},
             ~DurableDispatch
      PROVE  r \in Counted(p) /\ Counted(p)' = Counted(p) \ {r}
  BY <1>3 DEF Counted
<1>4. ASSUME req'[r].pc = "waiting", req[r].pc = "new", ~DurableDispatch
      PROVE  r \notin Counted(p) /\ Counted(p)' = Counted(p) \cup {r}
  BY <1>4 DEF Counted
<1>5. DurableDispatch => Counted(p)' = Counted(p)
  BY DEF Counted
<1> QED
  BY <1>1, <1>2, <1>3, <1>4, <1>5 DEF Changes

\* A step of one running process: the others keep what they have.
Local(p) ==
    /\ Alive(p) /\ mode' = mode
    /\ \A q \in Proc \ {p} :
          /\ holder'[q] = holder[q] /\ permits'[q] = permits[q]
          /\ Handed(q)' = Handed(q) /\ returning'[q] = returning[q]

\* The lock passes to a thread that is no submission, or its holder goes on.
LEMMA LockPasses ==
  ASSUME LockInv, NEW p \in Proc, Local(p), req' = req,
         \/ /\ holder'[p].kind = holder[p].kind /\ holder'[p].job = holder[p].job
            /\ holder[p].pc \notin {"page", "publish"}
            /\ holder'[p].pc \notin {"page", "publish"}
         \/ /\ holder[p].kind # "submit" /\ holder'[p].kind # "submit"
            /\ holder'[p].pc # "publish"
            /\ holder'[p].pc # "page" => holder'[p].kind # "none"
  PROVE  LockInv'
<1>1. \A q \in Proc : Alive(q)' <=> Alive(q)
  BY DEF Local, Alive
<1>2. \A r \in Job : CallOK(r)'
  <2> SUFFICES ASSUME NEW r \in Job PROVE CallOK(r)'
    OBVIOUS
  <2>1. CallOK(r) /\ req'[r] = req[r]
    BY DEF LockInv
  <2>2. req[r].pc \in InFlight => req[r].at \in Proc /\ Alive(req[r].at)'
    BY <1>1, <2>1 DEF CallOK
  <2>3. req[r].pc = "inside" =>
           holder'[req[r].at].kind = "submit" /\ holder'[req[r].at].job = r
    <3>1. CASE req[r].at = p
      BY <2>1, <3>1 DEF CallOK
    <3>2. CASE req[r].at # p
      BY <2>1, <2>2, <3>2 DEF CallOK, Local, InFlight
    <3> QED
      BY <3>1, <3>2
  <2> QED
    BY <2>1, <2>2, <2>3 DEF CallOK
<1>3. LockOK(p)'
  <2>1. LockOK(p) /\ Alive(p)'
    BY <1>1 DEF LockInv, Local
  <2>2. CASE /\ holder'[p].kind = holder[p].kind /\ holder'[p].job = holder[p].job
             /\ holder[p].pc \notin {"page", "publish"}
             /\ holder'[p].pc \notin {"page", "publish"}
    BY <2>1, <2>2 DEF LockOK
  <2>3. CASE /\ holder'[p].kind # "submit" /\ holder'[p].pc # "publish"
             /\ holder'[p].pc # "page" => holder'[p].kind # "none"
    BY <2>1, <2>3 DEF LockOK
  <2> QED
    BY <2>2, <2>3
<1>4. \A q \in Proc \ {p} : LockOK(q)'
  BY <1>1 DEF LockInv, LockOK, Local
<1> QED
  BY <1>2, <1>3, <1>4 DEF LockInv

\* A call is answered: before the lock, or by the thread that has it, which
\* lets the lock go.
LEMMA LockAnswers ==
  ASSUME LockInv, NEW p \in Proc, Local(p), NEW r \in Job, req[r].at = p,
         req[r].pc \in InFlight, req'[r].pc \notin InFlight,
         \A s \in Job \ {r} : req'[s] = req[s],
         \/ req[r].pc # "inside" /\ holder'[p] = holder[p]
         \/ /\ holder[p].kind = "submit" /\ holder[p].job = r
            /\ holder'[p].kind # "submit" /\ holder'[p].pc = "page"
  PROVE  LockInv'
<1>1. \A q \in Proc : Alive(q)' <=> Alive(q)
  BY DEF Local, Alive
<1>2. \A s \in Job : CallOK(s)'
  <2> SUFFICES ASSUME NEW s \in Job, s # r PROVE CallOK(s)'
    BY DEF CallOK, InFlight
  <2>1. req'[s] = req[s] /\ CallOK(s)
    BY DEF LockInv
  <2>2. CASE holder'[p] = holder[p]
    BY <1>1, <2>1, <2>2 DEF CallOK, Local, InFlight
  <2>3. CASE holder[p].kind = "submit" /\ holder[p].job = r
    BY <1>1, <2>1, <2>3 DEF CallOK, Local, InFlight
  <2> QED
    BY <2>2, <2>3
<1>3. LockOK(p)'
  <2>1. CASE req[r].pc # "inside" /\ holder'[p] = holder[p]
    BY <1>1, <2>1 DEF LockInv, LockOK, Local
  <2>2. CASE holder'[p].kind # "submit" /\ holder'[p].pc = "page"
    BY <1>1, <2>2 DEF LockInv, LockOK, Local
  <2> QED
    BY <2>1, <2>2
<1>4. \A q \in Proc \ {p} : LockOK(q)'
  <2> SUFFICES ASSUME NEW q \in Proc \ {p} PROVE LockOK(q)'
    OBVIOUS
  <2>1. LockOK(q) /\ holder'[q] = holder[q]
    BY DEF LockInv, Local
  <2>2. holder[q].kind = "submit" => holder[q].job # r
    BY <2>1 DEF LockOK
  <2> QED
    BY <1>1, <2>1, <2>2 DEF LockOK, Local
<1> QED
  BY <1>2, <1>3, <1>4 DEF LockInv

\* A call arrives.
LEMMA LockArrives ==
  ASSUME LockInv, NEW p \in Proc, Local(p), NEW r \in Job, req[r].pc = "new",
         req'[r].pc # "inside", req'[r].at = p, holder' = holder,
         \A s \in Job \ {r} : req'[s] = req[s]
  PROVE  LockInv'
<1>1. \A q \in Proc : Alive(q)' <=> Alive(q)
  BY DEF Local, Alive
<1>2. \A s \in Job : CallOK(s)'
  BY <1>1 DEF LockInv, CallOK, Local
<1>3. \A q \in Proc : LockOK(q)'
  <2> SUFFICES ASSUME NEW q \in Proc PROVE LockOK(q)'
    OBVIOUS
  <2>1. LockOK(q) /\ (holder[q].kind = "submit" => holder[q].job # r)
    BY DEF LockInv, LockOK
  <2> QED
    BY <1>1, <2>1 DEF LockOK, Local
<1> QED
  BY <1>2, <1>3 DEF LockInv

\* A call that waited enters the lock with the row it has inserted.
LEMMA LockEnters ==
  ASSUME LockInv, NEW p \in Proc, Local(p), NEW r \in Job, req[r].pc = "waiting",
         req[r].at = p, req'[r].pc = "inside", req'[r].at = p, holder[p].kind # "submit",
         holder'[p].kind = "submit", holder'[p].job = r,
         holder'[p].pc = IF DurableDispatch THEN "publish" ELSE "claim",
         \A s \in Job \ {r} : req'[s] = req[s]
  PROVE  LockInv'
<1>1. \A q \in Proc : Alive(q)' <=> Alive(q)
  BY DEF Local, Alive
<1>2. \A s \in Job : CallOK(s)'
  <2>1. CallOK(r)'
    BY <1>1 DEF CallOK, Local
  <2>2. ASSUME NEW s \in Job \ {r}
        PROVE  CallOK(s)'
    <3>1. CallOK(s) /\ req'[s] = req[s]
      BY DEF LockInv
    <3>2. req[s].pc \in InFlight => req[s].at \in Proc /\ Alive(req[s].at)'
      BY <1>1, <3>1 DEF CallOK
    <3>3. req[s].pc = "inside" => req[s].at # p /\ holder'[req[s].at] = holder[req[s].at]
      BY <3>1, <3>2 DEF CallOK, Local, InFlight
    <3> QED
      BY <3>1, <3>2, <3>3 DEF CallOK
  <2> QED
    BY <2>1, <2>2
<1>3. LockOK(p)'
  <2>1. Alive(p)' /\ (DurableDispatch <=> holder'[p].pc = "publish")
    BY <1>1 DEF Local
  <2>2. /\ holder'[p].job \in Job /\ holder'[p].pc # "page" /\ req'[holder'[p].job].pc = "inside"
        /\ req'[holder'[p].job].at = p
    OBVIOUS
  <2> QED
    BY <2>1, <2>2 DEF LockOK
<1>4. \A q \in Proc \ {p} : LockOK(q)'
  <2> SUFFICES ASSUME NEW q \in Proc \ {p} PROVE LockOK(q)'
    OBVIOUS
  <2>1. LockOK(q) /\ (holder[q].kind = "submit" => holder[q].job # r)
    BY DEF LockInv, LockOK
  <2> QED
    BY <1>1, <2>1 DEF LockOK, Local
<1> QED
  BY <1>2, <1>3, <1>4 DEF LockInv

\* The accounts of a step of one process are those of that process.
LEMMA LocalTrade ==
  ASSUME TypeInv, TypeInv', SlotsOK, NEW p \in Proc, Local(p),
         \A q \in Proc \ {p} : Counted(q)' = Counted(q), NEW a, NEW b, NEW c,
         Changes(Counted(p), Counted(p)', a), Changes(Handed(p), Handed(p)', b),
         Changes(returning[p], returning'[p], c), permits'[p] >= 0,
         permits'[p] + HolderPermits(p)' + a + b + c = permits[p] + HolderPermits(p)
  PROVE  SlotsOK'
<1>1. Balanced(p)
  BY DEF SlotsOK, Local
<1>2. Balanced(p)'
  BY <1>1, Trade
<1>3. \A q \in Proc \ {p} : Untouched(q)
  BY DEF Local, Untouched, HolderPermits, Alive
<1> QED
  BY <1>2, <1>3, TradeElsewhere

\* The permits of a running process are a number that is not negative.
LEMMA PermitsType ==
  ASSUME TypeInv, SlotsOK, NEW p \in Proc, Alive(p)
  PROVE  permits[p] \in Nat /\ permits \in [Proc -> Int]
  BY DEF TypeInv, TypeOK, QueueTypeOK, SlotsOK, Balanced

\* The fields of the tasks the lock is taken for.
LEMMA HoldingFields ==
  /\ \A kind, j, pc, page : /\ Holding(kind, j, pc, page).kind = kind
                            /\ Holding(kind, j, pc, page).job = j
                            /\ Holding(kind, j, pc, page).pc = pc
  /\ Free.kind = "none" /\ Free.pc = "page"
  BY DEF Holding, Free

\* An answer leaves the call with its process.
LEMMA AnswerAt ==
  ASSUME TypeInv, NEW r \in Job, NEW pc, NEW j, Answer(r, pc, j)
  PROVE  /\ req'[r].at = req[r].at /\ req'[r].pc = pc
         /\ \A s \in Job \ {r} : req'[s] = req[s]
<1>1. req \in [Job -> Request] /\ req[r] \in Request
  BY DEF TypeInv, TypeOK, QueueTypeOK
<1> DEFINE e == [req[r] EXCEPT !.pc = pc, !.job = j]
<1>2. e.pc = pc /\ e.at = req[r].at
  BY <1>1 DEF Request
<1>3. req' = [req EXCEPT ![r] = e]
  BY DEF Answer
<1> HIDE DEF e
<1> QED
  BY <1>1, <1>2, <1>3

\* submit reserves a permit before it waits for the lock, if it must, and
\* gives it back when it is refused.
LEMMA SubmitSlots ==
  ASSUME TypeInv, TypeInv', CapacityInv, NEW r \in Job,
         Submit(r) \/ \E p \in Proc : SubmitBegin(r, p)
  PROVE  CapacityInv'
<1>0. /\ holder \in [Proc -> Holder] /\ permits \in [Proc -> Int]
      /\ req \in [Job -> Request] /\ exec' = exec /\ returning' = returning /\ mode' = mode
  BY DEF TypeInv, TypeOK, QueueTypeOK, Submit, SubmitLookup, SubmitInsert, SubmitBegin
<1>1. /\ \A q \in Proc : Handed(q)' = Handed(q)
      /\ \A S : Changes(S, S, 0)
      /\ \A q \in Proc : holder'[q] = holder[q] => HolderPermits(q)' = HolderPermits(q)
      /\ \A q \in Proc : HolderPermits(q) \in {0, 1}
  BY <1>0 DEF Handed, Changes, HolderPermits
<1>2. ASSUME NEW p \in Proc, SubmitBegin(r, p)
      PROVE  CapacityInv'
  <2>1. PICK pc \in {"waiting", "full", "lookup"} :
           /\ req' = [req EXCEPT ![r] = [pc |-> pc, at |-> p, job |-> NoJob]]
           /\ IF pc = "waiting" /\ ~DurableDispatch
              THEN permits[p] > 0 /\ permits' = [permits EXCEPT ![p] = @ - 1]
              ELSE permits' = permits
    BY <1>2 DEF SubmitBegin
  <2>2. /\ req'[r].pc = pc /\ req'[r].at = p /\ \A s \in Job \ {r} : req'[s] = req[s]
        /\ req[r].pc = "new" /\ holder' = holder /\ Alive(p)
    BY <1>0, <1>2, <2>1 DEF SubmitBegin, Alive
  <2>3. Local(p) /\ permits[p] \in Nat
    BY <1>0, <1>1, <2>1, <2>2, PermitsType DEF Local, CapacityInv
  <2>4. LockInv'
    BY <2>2, <2>3, LockArrives DEF CapacityInv
  <2>5. /\ \A q \in Proc \ {p} : Counted(q)' = Counted(q)
        /\ pc # "waiting" => Counted(p)' = Counted(p)
        /\ pc = "waiting" => Changes(Counted(p), Counted(p)', IF DurableDispatch THEN 0 ELSE 1)
    BY <2>2, CallsMove
  <2>6. SlotsOK'
    <3>1. CASE pc = "waiting" /\ ~DurableDispatch
      <4>1. permits'[p] = permits[p] - 1 /\ permits'[p] >= 0 /\ Changes(Counted(p), Counted(p)', 1)
        BY <1>0, <2>1, <2>3, <2>5, <3>1
      <4>2. permits'[p] + HolderPermits(p)' + 1 + 0 + 0 = permits[p] + HolderPermits(p)
        BY <1>1, <2>2, <2>3, <4>1
      <4> QED
        BY <1>0, <1>1, <2>3, <2>5, <4>1, <4>2, LocalTrade DEF CapacityInv
    <3>2. CASE ~(pc = "waiting" /\ ~DurableDispatch)
      <4>1. permits'[p] = permits[p] /\ permits'[p] >= 0 /\ Changes(Counted(p), Counted(p)', 0)
        BY <1>1, <2>1, <2>3, <2>5, <3>2
      <4>2. permits'[p] + HolderPermits(p)' + 0 + 0 + 0 = permits[p] + HolderPermits(p)
        BY <1>1, <2>2, <2>3, <4>1
      <4> QED
        BY <1>0, <1>1, <2>3, <2>5, <4>1, <4>2, LocalTrade DEF CapacityInv
    <3> QED
      BY <3>1, <3>2
  <2> QED
    BY <2>4, <2>6 DEF CapacityInv
<1>3. ASSUME SubmitLookup(r) \/ SubmitInsert(r)
      PROVE  CapacityInv'
  <2>1. PICK p \in Proc : /\ p = req[r].at /\ Alive(p) /\ holder[p] = Free
                          /\ req[r].pc \in {"lookup", "waiting"}
    <3>1. req[r].pc \in {"lookup", "waiting"} /\ LockFree(req[r].at)
      BY <1>3 DEF SubmitLookup, SubmitInsert
    <3> QED
      BY <3>1 DEF CapacityInv, LockInv, CallOK, InFlight, LockFree
  <2>2. permits[p] \in Nat
    BY <2>1, PermitsType DEF CapacityInv
  <2>3. ASSUME NEW pc \in {"full", "conflict", "reused", "unavailable"}, NEW j, Answer(r, pc, j),
               holder' = holder,
               IF req[r].pc = "waiting" /\ ~DurableDispatch
               THEN permits' = [permits EXCEPT ![p] = @ + 1] ELSE permits' = permits
        PROVE  CapacityInv'
    <3>1. /\ req'[r].at = p /\ req[r].at = p /\ req'[r].pc = pc
          /\ \A s \in Job \ {r} : req'[s] = req[s]
      BY <2>1, <2>3, AnswerAt
    <3>2. Local(p)
      BY <1>0, <1>1, <2>1, <2>3 DEF Local
    <3>3. LockInv'
      BY <2>1, <2>3, <3>1, <3>2, LockAnswers DEF CapacityInv, InFlight
    <3>4. /\ \A q \in Proc \ {p} : Counted(q)' = Counted(q)
          /\ req[r].pc = "lookup" => Counted(p)' = Counted(p)
          /\ req[r].pc = "waiting"
               => Changes(Counted(p), Counted(p)', IF DurableDispatch THEN 0 ELSE -1)
      BY <2>1, <3>1, CallsMove
    <3>5. CASE req[r].pc = "waiting" /\ ~DurableDispatch
      <4>1. /\ permits'[p] = permits[p] + 1 /\ permits'[p] >= 0
            /\ Changes(Counted(p), Counted(p)', -1)
        BY <1>0, <2>1, <2>2, <2>3, <3>4, <3>5
      <4>2. permits'[p] + HolderPermits(p)' + (-1) + 0 + 0 = permits[p] + HolderPermits(p)
        BY <1>1, <2>1, <2>2, <2>3, <4>1
      <4>3. SlotsOK'
        BY <1>0, <1>1, <2>1, <3>2, <3>4, <4>1, <4>2, LocalTrade DEF CapacityInv
      <4> QED
        BY <3>3, <4>3 DEF CapacityInv
    <3>6. CASE ~(req[r].pc = "waiting" /\ ~DurableDispatch)
      <4>1. permits'[p] = permits[p] /\ permits'[p] >= 0 /\ Changes(Counted(p), Counted(p)', 0)
        BY <1>1, <2>1, <2>2, <2>3, <3>4, <3>6
      <4>2. permits'[p] + HolderPermits(p)' + 0 + 0 + 0 = permits[p] + HolderPermits(p)
        BY <1>1, <2>1, <2>2, <2>3, <4>1
      <4>3. SlotsOK'
        BY <1>0, <1>1, <2>1, <3>2, <3>4, <4>1, <4>2, LocalTrade DEF CapacityInv
      <4> QED
        BY <3>3, <4>3 DEF CapacityInv
    <3> QED
      BY <3>5, <3>6
  <2>4. CASE SubmitLookup(r)
    <3>1. /\ \E pc \in {"full", "conflict", "reused", "unavailable"}, j \in Job \cup {NoJob} :
                Answer(r, pc, j)
          /\ req[r].pc = "lookup" /\ holder' = holder /\ permits' = permits
      BY <2>4 DEF SubmitLookup, WithKeyOf
    <3> QED
      BY <2>3, <3>1
  <2>5. CASE SubmitInsert(r) /\ SubmitReturn(p) /\ holder' = holder
    <3>1. /\ \E pc \in {"conflict", "reused", "unavailable"}, j \in Job \cup {NoJob} :
                Answer(r, pc, j)
          /\ req[r].pc = "waiting"
      <4>1. Free # Holding("submit", r, IF DurableDispatch THEN "publish" ELSE "claim", {})
        BY HoldingFields
      <4>2. holder[p] = Free /\ holder' = holder
        BY <2>1, <2>5
      <4> QED
        BY <1>0, <2>1, <2>5, <4>1, <4>2 DEF SubmitInsert, WithKeyOf
    <3> QED
      BY <2>3, <2>5, <3>1 DEF SubmitReturn, Return
  <2>6. ASSUME Answer(r, "inside", r), req[r].pc = "waiting", permits' = permits,
               holder' = [holder EXCEPT ![p] =
                  Holding("submit", r, IF DurableDispatch THEN "publish" ELSE "claim", {})]
        PROVE  CapacityInv'
    <3> DEFINE h == Holding("submit", r, IF DurableDispatch THEN "publish" ELSE "claim", {})
    <3>1. /\ h.kind = "submit" /\ h.job = r
          /\ h.pc = IF DurableDispatch THEN "publish" ELSE "claim"
      BY HoldingFields
    <3>2. holder'[p] = h /\ \A q \in Proc \ {p} : holder'[q] = holder[q]
      BY <1>0, <2>1, <2>6
    <3> HIDE DEF h
    <3>3. /\ req'[r].at = p /\ req[r].at = p /\ req'[r].pc = "inside"
          /\ \A s \in Job \ {r} : req'[s] = req[s]
      BY <2>1, <2>6, AnswerAt
    <3>4. Local(p) /\ holder[p].kind = "none" /\ HolderPermits(p) = 0 /\ HolderPermits(p)' = 0
      BY <1>0, <1>1, <2>1, <2>6, <3>1, <3>2, HoldingFields DEF Local, HolderPermits
    <3>5. LockInv'
      BY <2>1, <2>6, <3>1, <3>2, <3>3, <3>4, LockEnters DEF CapacityInv
    <3>6. \A q \in Proc : Counted(q)' = Counted(q)
      BY <2>1, <2>6, <3>3, CallsMove
    <3>7. permits'[p] >= 0
          /\ permits'[p] + HolderPermits(p)' + 0 + 0 + 0 = permits[p] + HolderPermits(p)
      BY <2>2, <2>6, <3>4
    <3>8. SlotsOK'
      BY <1>0, <1>1, <2>1, <3>4, <3>6, <3>7, LocalTrade DEF CapacityInv
    <3> QED
      BY <3>5, <3>8 DEF CapacityInv
  <2>7. CASE SubmitInsert(r)
    BY <2>1, <2>5, <2>6, <2>7 DEF SubmitInsert
  <2> QED
    BY <1>3, <2>4, <2>7
<1> QED
  BY <1>2, <1>3 DEF Submit

\* _submit_reserved gives its caller's permit to the execution it schedules,
\* and releases it otherwise, raising or not.
LEMMA ReturnSlots ==
  ASSUME TypeInv, TypeInv', CapacityInv, NEW p \in Proc, Alive(p), NEW b \in BOOLEAN,
         holder[p].pc \notin {"page", "publish"}, Returned(p, b) \/ (~b /\ Raised(p)),
         mode' = mode, returning' = returning,
         \A q \in Proc \ {p} : Handed(q)' = Handed(q),
         Changes(Handed(p), Handed(p)', IF b THEN 1 ELSE 0)
  PROVE  CapacityInv'
<1> DEFINE k == IF b THEN 0 ELSE 1
<1>0. /\ permits[p] \in Nat /\ permits \in [Proc -> Int] /\ holder \in [Proc -> Holder]
      /\ holder[p].job \in Job /\ k \in {0, 1} /\ LockOK(p)
  BY PermitsType DEF TypeInv, TypeOK, QueueTypeOK, HolderOK, CapacityInv, LockInv
<1>1. permits'[p] = permits[p] + k /\ \A q \in Proc \ {p} : permits'[q] = permits[q]
  BY <1>0 DEF Returned, Raised, PermitBack, Return
<1>2. /\ holder'[p].kind \in {"none", "recovery"} /\ holder'[p].pc = "page"
      /\ \A q \in Proc \ {p} : holder'[q] = holder[q]
  <2>1. \/ holder' = [holder EXCEPT ![p] = Free]
        \/ holder' = [holder EXCEPT ![p] = Holding("recovery", NoJob, "page", holder[p].page)]
    BY DEF Returned, Raised, Unlock
  <2>2. CASE holder' = [holder EXCEPT ![p] = Free]
    BY <1>0, <2>2, HoldingFields
  <2>3. CASE holder' = [holder EXCEPT ![p] = Holding("recovery", NoJob, "page", holder[p].page)]
    <3> DEFINE h == Holding("recovery", NoJob, "page", holder[p].page)
    <3>1. h.kind = "recovery" /\ h.pc = "page"
      BY HoldingFields
    <3>2. holder'[p] = h /\ \A q \in Proc \ {p} : holder'[q] = holder[q]
      BY <1>0, <2>3
    <3> HIDE DEF h
    <3> QED
      BY <3>1, <3>2
  <2> QED
    BY <2>1, <2>2, <2>3
<1>3. Local(p)
  BY <1>1, <1>2 DEF Local
<1>4. HolderPermits(p)' = 0 /\ Changes(returning[p], returning'[p], 0)
  BY <1>2 DEF HolderPermits, Changes
<1>5. permits'[p] >= 0
  BY <1>0, <1>1
<1>6. CASE holder[p].kind = "submit"
  <2>1. PICK r \in Job : /\ r = holder[p].job /\ req[r].pc = "inside" /\ req[r].at = p
    BY <1>0, <1>6 DEF LockOK
  <2>2. ~DurableDispatch
    BY <1>0, <1>6 DEF LockOK
  <2>3. PICK pc \in {"accepted", "unavailable"}, j \in Job \cup {NoJob} : Answer(r, pc, j)
    BY <1>0, <1>6, <2>1 DEF Returned, Raised
  <2>4. /\ req'[r].at = p /\ req'[r].pc = pc /\ \A s \in Job \ {r} : req'[s] = req[s]
    BY <2>1, <2>3, AnswerAt
  <2>5. LockInv'
    BY <1>2, <1>3, <1>6, <2>1, <2>4, LockAnswers DEF CapacityInv, InFlight
  <2>6. /\ \A q \in Proc \ {p} : Counted(q)' = Counted(q)
        /\ Changes(Counted(p), Counted(p)', -1)
    BY <2>1, <2>2, <2>4, CallsMove
  <2>7. HolderPermits(p) = 0
    BY <1>6 DEF HolderPermits
  <2>8. permits'[p] + HolderPermits(p)' + (-1) + (IF b THEN 1 ELSE 0) + 0
           = permits[p] + HolderPermits(p)
    BY <1>0, <1>1, <1>4, <2>7
  <2>9. SlotsOK'
    BY <1>3, <1>4, <1>5, <2>6, <2>8, LocalTrade DEF CapacityInv
  <2> QED
    BY <2>5, <2>9 DEF CapacityInv
<1>7. CASE holder[p].kind # "submit"
  <2>1. req' = req
    BY <1>7 DEF Returned, Raised
  <2>2. LockInv'
    BY <1>2, <1>3, <1>7, <2>1, LockPasses DEF CapacityInv
  <2>3. \A q \in Proc : Counted(q)' = Counted(q)
    BY <2>1 DEF Counted
  <2>4. HolderPermits(p) = 1
    <3>1. holder[p].kind \in {"none", "submit", "recovery", "dispatch"}
      BY <1>0 DEF Holder
    <3> QED
      BY <1>0, <1>7, <3>1 DEF HolderPermits, LockOK
  <2>5. permits'[p] + HolderPermits(p)' + 0 + (IF b THEN 1 ELSE 0) + 0
           = permits[p] + HolderPermits(p)
    BY <1>0, <1>1, <1>4, <2>4
  <2>6. Changes(Counted(p), Counted(p)', 0)
    BY <2>3 DEF Changes
  <2>7. SlotsOK'
    BY <1>3, <1>4, <1>5, <2>3, <2>5, <2>6, LocalTrade DEF CapacityInv
  <2> QED
    BY <2>2, <2>7 DEF CapacityInv
<1> QED
  BY <1>6, <1>7

\* The lock is held on: what its holder has does not change.
LEMMA HoldOnSlots ==
  ASSUME TypeInv, TypeInv', CapacityInv, NEW p \in Proc, Alive(p), NEW g \in Holder,
         holder' = [holder EXCEPT ![p] = g], g.kind = holder[p].kind, g.job = holder[p].job,
         holder[p].pc \notin {"page", "publish"}, g.pc \notin {"page", "publish"},
         UNCHANGED <<mode, permits, returning, req>>,
         \A q \in Proc : Handed(q)' = Handed(q)
  PROVE  CapacityInv'
<1>1. holder'[p] = g /\ \A q \in Proc \ {p} : holder'[q] = holder[q]
  BY DEF TypeInv, TypeOK, QueueTypeOK
<1>2. Local(p)
  BY <1>1 DEF Local
<1>3. LockInv'
  BY <1>1, <1>2, LockPasses DEF CapacityInv
<1>4. /\ \A q \in Proc : Counted(q)' = Counted(q)
      /\ \A q \in Proc : HolderPermits(q)' = HolderPermits(q)
  BY <1>1 DEF Counted, HolderPermits
<1>5. \A q \in Proc : Untouched(q)
  BY <1>4 DEF Untouched, Alive
<1> QED
  BY <1>3, <1>5, TradeElsewhere DEF CapacityInv

\* The thread inside the submission lock keeps the accounts.
LEMMA ReservedSlots ==
  ASSUME TypeInv, TypeInv', CapacityInv, NEW p \in Proc, Reserved(p)
  PROVE  CapacityInv'
<1> DEFINE h == holder[p]
<1>0. /\ holder \in [Proc -> Holder] /\ h \in Holder /\ (h.pc # "page" => h.job \in Job)
      /\ exec \in [Proc -> [Job -> Execution]] /\ LockOK(p)
  BY DEF TypeInv, TypeOK, QueueTypeOK, HolderOK, CapacityInv, LockInv
<1>1. /\ exec' = exec => \A q \in Proc : Handed(q)' = Handed(q)
      /\ \A S : Changes(S, S, 0)
  BY DEF Handed, Changes
<1>2. CASE PublishDispatch(p)
  <2>1. /\ Alive(p) /\ h.pc = "publish" /\ h.kind = "submit" /\ DurableDispatch
        /\ holder' = [holder EXCEPT ![p] = Free]
        /\ UNCHANGED <<mode, permits, returning, exec>>
    BY <1>0, <1>2 DEF PublishDispatch, LockOK, Unlock
  <2>2. PICK r \in Job : r = h.job /\ req[r].pc = "inside" /\ req[r].at = p
    BY <1>0, <2>1 DEF LockOK
  <2>3. PICK pc \in {"accepted", "unavailable"}, j \in Job \cup {NoJob} : Answer(r, pc, j)
    BY <1>2, <2>2 DEF PublishDispatch
  <2>4. /\ req'[r].at = p /\ req'[r].pc = pc /\ \A s \in Job \ {r} : req'[s] = req[s]
    BY <2>2, <2>3, AnswerAt
  <2>5. /\ holder'[p].kind = "none" /\ holder'[p].pc = "page"
        /\ \A q \in Proc \ {p} : holder'[q] = holder[q]
    BY <1>0, <2>1, HoldingFields
  <2>6. Local(p)
    BY <1>1, <2>1, <2>5 DEF Local
  <2>7. LockInv'
    BY <2>1, <2>2, <2>4, <2>5, <2>6, LockAnswers DEF CapacityInv, InFlight
  <2>8. \A q \in Proc : Counted(q)' = Counted(q)
    BY <2>1 DEF Counted
  <2>9. \A q \in Proc : HolderPermits(q)' = HolderPermits(q)
    BY <2>1, <2>5 DEF HolderPermits
  <2>10. \A q \in Proc : Untouched(q)
    BY <1>1, <2>1, <2>8, <2>9 DEF Untouched, Alive
  <2> QED
    BY <2>7, <2>10, TradeElsewhere DEF CapacityInv
<1>3. CASE ClaimRefused(p) \/ ClaimRaises(p) \/ ReleaseExhausted(p)
  <2>1. /\ Alive(p) /\ h.pc \notin {"page", "publish"}
        /\ UNCHANGED <<mode, returning, exec>>
        /\ Returned(p, FALSE) \/ Raised(p)
    BY <1>3 DEF ClaimRefused, ClaimRaises, ReleaseExhausted
  <2> QED
    BY <1>1, <2>1, ReturnSlots
<1>4. CASE ClaimGranted(p)
  <2>1. Alive(p) /\ h.pc = "claim" /\ UNCHANGED <<mode, permits, returning, req>>
    BY <1>4 DEF ClaimGranted
  <2>2. PICK j \in Job : j = h.job /\ exec[p][j].pc = "none"
    BY <1>0, <1>4, <2>1 DEF ClaimGranted, IsActive
  <2>3. drawn[j] + 1 \in Nat /\ attempts[j] \in 0..MaxAttempts
    BY NumberTypes
  <2>4. CASE AttemptsLeft(j) /\ holder' = [holder EXCEPT ![p] = [h EXCEPT !.pc = "schedule"]]
             /\ exec' = [exec EXCEPT ![p][j] = [pc |-> "admitted", tok |-> drawn[j] + 1,
                                                attempt |-> attempts[j] + 1, lost |-> FALSE]]
    <3> DEFINE g == [h EXCEPT !.pc = "schedule"]
               e == [pc |-> "admitted", tok |-> drawn[j] + 1,
                     attempt |-> attempts[j] + 1, lost |-> FALSE]
    <3>1. g \in Holder /\ g.kind = h.kind /\ g.job = h.job /\ g.pc = "schedule"
      BY <1>0 DEF Holder, HolderPc
    <3>2. attempts[j] + 1 \in 0..MaxAttempts
      BY <2>3, <2>4 DEF AttemptsLeft
    <3>3. e \in Execution /\ e.pc = "admitted"
      BY <2>3, <3>2 DEF Execution, ExecPc
    <3>4. exec' = [exec EXCEPT ![p][j] = e] /\ holder' = [holder EXCEPT ![p] = g]
      BY <2>4
    <3> HIDE DEF e, g, h
    <3>5. Becomes(p, j, e)
      BY <1>0, <3>3, <3>4, ExecUpdate
    <3>6. \A q \in Proc : Handed(q)' = Handed(q)
      BY <2>2, <3>3, <3>5, HandedMoves
    <3> QED
      BY <2>1, <3>1, <3>4, <3>6, HoldOnSlots DEF h
  <2>5. CASE exec' = exec /\ holder' = [holder EXCEPT ![p] =
                                           [h EXCEPT !.pc = "exhausted", !.tok = drawn[j] + 1]]
    <3> DEFINE g == [h EXCEPT !.pc = "exhausted", !.tok = drawn[j] + 1]
    <3>1. g \in Holder /\ g.kind = h.kind /\ g.job = h.job /\ g.pc = "exhausted"
      BY <1>0, <2>3 DEF Holder, HolderPc
    <3>2. holder' = [holder EXCEPT ![p] = g]
      BY <2>5
    <3> HIDE DEF g, h
    <3> QED
      BY <1>1, <2>1, <2>5, <3>1, <3>2, HoldOnSlots DEF h
  <2> QED
    BY <1>4, <2>2, <2>4, <2>5 DEF ClaimGranted
<1>5. CASE FailExhausted(p)
  <2>1. PICK b \in BOOLEAN : holder' = [holder EXCEPT ![p] = [h EXCEPT !.pc = "release", !.raised = b]]
    BY <1>5 DEF FailExhausted
  <2> DEFINE g == [h EXCEPT !.pc = "release", !.raised = b]
  <2>2. g \in Holder /\ g.kind = h.kind /\ g.job = h.job /\ g.pc = "release"
    BY <1>0 DEF Holder, HolderPc
  <2>3. /\ holder' = [holder EXCEPT ![p] = g] /\ h.pc = "exhausted" /\ Alive(p)
        /\ UNCHANGED <<mode, permits, returning, req, exec>>
    BY <1>5, <2>1 DEF FailExhausted
  <2> HIDE DEF g, h
  <2> QED
    BY <1>1, <2>2, <2>3, HoldOnSlots DEF h
<1>6. CASE Schedule(p) \/ ScheduleRaises(p)
  <2>1. /\ Alive(p) /\ h.pc = "schedule" /\ UNCHANGED <<mode, returning>>
    BY <1>6 DEF Schedule, ScheduleRaises, Alive
  <2>2. PICK j \in Job : j = h.job /\ exec[p][j].pc = "admitted"
    BY <1>0, <2>1 DEF TypeInv, HolderOK
  <2>3. CASE Schedule(p)
    <3>1. Goto(p, j, "queued") /\ Returned(p, TRUE)
      BY <2>2, <2>3 DEF Schedule
    <3>2. MovesTo(p, j, "queued")
      BY <1>0, <3>1, GotoMoves DEF ExecPc
    <3>3. /\ \A q \in Proc \ {p} : Handed(q)' = Handed(q)
          /\ Changes(Handed(p), Handed(p)', 1)
      BY <2>2, <3>2, HandedMoves DEF MovesTo
    <3> QED
      BY <2>1, <3>1, <3>3, ReturnSlots
  <2>4. CASE ScheduleRaises(p)
    <3>1. exec' = [exec EXCEPT ![p][j] = Idle] /\ Raised(p)
      BY <2>2, <2>4 DEF ScheduleRaises
    <3>2. Becomes(p, j, Idle)
      BY <1>0, <3>1, ExecUpdate, RecordTypes
    <3>3. \A q \in Proc : Handed(q)' = Handed(q)
      BY <2>2, <3>2, HandedMoves, RecordTypes
    <3> QED
      BY <1>1, <2>1, <3>1, <3>3, ReturnSlots
  <2> QED
    BY <1>6, <2>3, <2>4
<1> QED
  BY <1>2, <1>3, <1>4, <1>5, <1>6 DEF Reserved

\* The recovery loop and the consumer reserve the permit they take into
\* _submit_reserved.
LEMMA IntakeSlots ==
  ASSUME TypeInv, TypeInv', CapacityInv, NEW p \in Proc,
         RecoverPage(p) \/ RecoverNext(p) \/ \E j \in Job : Deliver(p, j)
  PROVE  CapacityInv'
<1>0. /\ Alive(p) /\ UNCHANGED <<mode, exec, returning, req>>
      /\ holder \in [Proc -> Holder] /\ holder[p].kind # "submit" /\ holder[p].pc = "page"
  BY HoldingFields DEF RecoverPage, RecoverNext, Deliver, LockFree, Alive, TypeInv, TypeOK, QueueTypeOK
<1>1. permits[p] \in Nat /\ permits \in [Proc -> Int]
  BY <1>0, PermitsType DEF CapacityInv
<1>2. /\ \A q \in Proc : Counted(q)' = Counted(q) /\ Handed(q)' = Handed(q)
      /\ \A S : Changes(S, S, 0)
  BY <1>0 DEF Counted, Handed, Changes
<1>3. ASSUME NEW h, holder' = [holder EXCEPT ![p] = h],
             \/ h.pc = "page" /\ h.kind # "submit" /\ permits' = permits
             \/ /\ h.pc = "claim" /\ h.kind \in {"recovery", "dispatch"} /\ permits[p] > 0
                /\ permits' = [permits EXCEPT ![p] = @ - 1]
      PROVE  CapacityInv'
  <2>1. holder'[p] = h /\ \A q \in Proc \ {p} : holder'[q] = holder[q]
    BY <1>0, <1>3
  <2>2. Local(p)
    BY <1>0, <1>1, <1>2, <1>3, <2>1 DEF Local
  <2>3. LockInv'
    BY <1>0, <1>3, <2>1, <2>2, LockPasses DEF CapacityInv
  <2>4. HolderPermits(p) = 0
    BY <1>0 DEF HolderPermits
  <2>5. /\ permits'[p] >= 0
        /\ permits'[p] + HolderPermits(p)' + 0 + 0 + 0 = permits[p] + HolderPermits(p)
    <3>1. CASE h.pc = "page" /\ permits' = permits
      BY <1>1, <2>1, <2>4, <3>1 DEF HolderPermits
    <3>2. CASE /\ h.pc = "claim" /\ h.kind \in {"recovery", "dispatch"} /\ permits[p] > 0
               /\ permits' = [permits EXCEPT ![p] = @ - 1]
      <4>1. HolderPermits(p)' = 1
        BY <2>1, <3>2 DEF HolderPermits
      <4>2. permits'[p] = permits[p] - 1
        BY <1>1, <3>2
      <4> QED
        BY <1>1, <2>4, <3>2, <4>1, <4>2
    <3> QED
      BY <1>3, <3>1, <3>2
  <2>6. SlotsOK'
    BY <1>0, <1>2, <2>2, <2>5, LocalTrade DEF CapacityInv
  <2> QED
    BY <2>3, <2>6 DEF CapacityInv
<1>4. CASE RecoverPage(p)
  <2>1. PICK page : /\ holder' = [holder EXCEPT ![p] = Holding("recovery", NoJob, "page", page)]
                    /\ permits' = permits
    BY <1>4 DEF RecoverPage
  <2>2. /\ Holding("recovery", NoJob, "page", page).pc = "page"
        /\ Holding("recovery", NoJob, "page", page).kind = "recovery"
    BY HoldingFields
  <2> QED
    BY <1>3, <2>1, <2>2
<1>5. CASE \E j \in Job : Deliver(p, j)
  <2>1. \/ permits' = permits /\ holder' = [holder EXCEPT ![p] = holder[p]]
        \/ \E j \in Job : /\ holder' = [holder EXCEPT ![p] = Holding("dispatch", j, "claim", {})]
                          /\ permits[p] > 0 /\ permits' = [permits EXCEPT ![p] = @ - 1]
    BY <1>0, <1>5 DEF Deliver
  <2> QED
    BY <1>0, <1>3, <2>1, HoldingFields
<1>6. CASE RecoverNext(p)
  <2>1. \/ holder' = [holder EXCEPT ![p] = Free] /\ permits' = permits
        \/ \E j \in holder[p].page :
              \/ /\ holder' = [holder EXCEPT ![p] =
                        Holding("recovery", NoJob, "page", holder[p].page \ {j})]
                 /\ permits' = permits
              \/ /\ holder' = [holder EXCEPT ![p] =
                        Holding("recovery", j, "claim", holder[p].page \ {j})]
                 /\ permits[p] > 0 /\ permits' = [permits EXCEPT ![p] = @ - 1]
    BY <1>6 DEF RecoverNext, Unlock, StopPage
  <2>2. CASE holder' = [holder EXCEPT ![p] = Free] /\ permits' = permits
    BY <1>3, <2>2, HoldingFields
  <2>3. ASSUME NEW page, permits' = permits,
               holder' = [holder EXCEPT ![p] = Holding("recovery", NoJob, "page", page)]
        PROVE  CapacityInv'
    <3>1. /\ Holding("recovery", NoJob, "page", page).pc = "page"
          /\ Holding("recovery", NoJob, "page", page).kind = "recovery"
      BY HoldingFields
    <3> QED
      BY <1>3, <2>3, <3>1
  <2>4. ASSUME NEW page, NEW j, permits[p] > 0, permits' = [permits EXCEPT ![p] = @ - 1],
               holder' = [holder EXCEPT ![p] = Holding("recovery", j, "claim", page)]
        PROVE  CapacityInv'
    <3>1. /\ Holding("recovery", j, "claim", page).pc = "claim"
          /\ Holding("recovery", j, "claim", page).kind = "recovery"
      BY HoldingFields
    <3> QED
      BY <1>3, <2>4, <3>1
  <2> QED
    BY <2>1, <2>2, <2>3, <2>4
<1> QED
  BY <1>4, <1>5, <1>6

\* A step that gives no permit away and takes none.
LEMMA QuietSlots ==
  ASSUME CapacityInv, UNCHANGED <<permits, holder, req, returning>>,
         \A q \in Proc : Handed(q)' = Handed(q) /\ (Alive(q)' <=> Alive(q))
  PROVE  CapacityInv'
<1>1. \A q \in Proc : Counted(q)' = Counted(q) /\ HolderPermits(q)' = HolderPermits(q)
  BY DEF Counted, HolderPermits
<1>2. SlotsOK'
  BY <1>1 DEF CapacityInv, SlotsOK, Balanced
<1>3. \A r \in Job : CallOK(r)'
  BY DEF CapacityInv, LockInv, CallOK
<1>4. \A q \in Proc : LockOK(q)'
  BY DEF CapacityInv, LockInv, LockOK
<1> QED
  BY <1>2, <1>3, <1>4 DEF CapacityInv, LockInv

\* A worker keeps its permit until _task_done, and then until the lease is
\* released.
LEMMA WorkerSlots ==
  ASSUME TypeInv, TypeInv', ReturnedOK, CapacityInv, NEW p \in Proc, NEW j \in Job, Worker(p, j)
  PROVE  CapacityInv'
<1>0. /\ WorkerStep(p, j) /\ UNCHANGED <<mode, permits, holder, req>>
      /\ exec \in [Proc -> [Job -> Execution]] /\ exec[p][j] \in Execution
      /\ returning \in [Proc -> SUBSET (Job \X Nat)]
  BY WorkerSteps, WorkerFrames, LocalTypes DEF TypeInv, TypeOK, QueueTypeOK
<1>1. /\ \A q \in Proc : Counted(q)' = Counted(q) /\ HolderPermits(q)' = HolderPermits(q)
      /\ \A S : Changes(S, S, 0)
  BY <1>0 DEF Counted, HolderPermits, Changes
<1>2. CASE TaskDone(p, j)
  <2>1. /\ Alive(p) /\ exec[p][j].pc = "done" /\ Becomes(p, j, Idle)
        /\ returning' = [returning EXCEPT ![p] = @ \cup {<<j, exec[p][j].tok>>}]
    BY <1>0, <1>2, ExecUpdate, RecordTypes DEF TaskDone, At
  <2>2. /\ \A q \in Proc \ {p} : Handed(q)' = Handed(q)
        /\ Changes(Handed(p), Handed(p)', -1)
    BY <2>1, HandedMoves, RecordTypes
  <2>3. Changes(returning[p], returning'[p], 1)
    <3>1. <<j, exec[p][j].tok>> \notin returning[p]
      BY <2>1, LocalTypes DEF ReturnedOK, IsActive
    <3> QED
      BY <1>0, <2>1, <3>1 DEF Changes
  <2>4. Local(p)
    BY <1>0, <2>1, <2>2 DEF Local
  <2>5. LockInv'
    <3>1. \A q \in Proc : Alive(q)' <=> Alive(q)
      BY <1>0 DEF Alive
    <3>2. \A r \in Job : CallOK(r)'
      BY <1>0, <3>1 DEF CapacityInv, LockInv, CallOK
    <3>3. \A q \in Proc : LockOK(q)'
      BY <1>0, <2>4, <3>1 DEF CapacityInv, LockInv, LockOK, Local
    <3> QED
      BY <3>2, <3>3 DEF LockInv
  <2>6. /\ permits'[p] >= 0
        /\ permits'[p] + HolderPermits(p)' + 0 + (-1) + 1 = permits[p] + HolderPermits(p)
    BY <1>0, <1>1, <2>1, PermitsType, HolderCount DEF CapacityInv
  <2>7. SlotsOK'
    BY <1>1, <2>2, <2>3, <2>4, <2>6, LocalTrade DEF CapacityInv
  <2> QED
    BY <2>5, <2>7 DEF CapacityInv
<1>3. CASE ~TaskDone(p, j)
  <2>1. returning' = returning
    BY <1>3 DEF Worker, WorkerFrame, StartWorker, EnsureLease, StartAttempt, HandlerEnds, Succeed,
                Fail, ScheduleRetry, EndBackoff, AbandonRetry, InspectRow, RecordFailure, Write
  <2> DEFINE r == [exec[p][j] EXCEPT !.pc = "renew", !.attempt = exec[p][j].attempt + 1]
  <2>2. r.pc = "renew"
    BY <1>0 DEF Execution
  <2> HIDE DEF r
  <2>3. exec[p][j].pc \notin {"none", "admitted", "done"}
    <3>1. exec[p][j].pc \notin {"none", "admitted"}
      BY <1>0 DEF WorkerStep
    <3>2. exec[p][j].pc # "done"
      BY <1>3 DEF Worker, At, StartWorker, EnsureLease, StartAttempt, HandlerEnds, Succeed,
                  Fail, ScheduleRetry, EndBackoff, AbandonRetry, InspectRow, RecordFailure
    <3> QED
      BY <3>1, <3>2
  <2>4. \/ \E c \in ExecPc \ {"none", "admitted"} : MovesTo(p, j, c)
        \/ Becomes(p, j, r)
    BY <1>0, <2>3 DEF WorkerStep, ExecPc, r
  <2>5. \A q \in Proc : Handed(q)' = Handed(q)
    BY <2>2, <2>3, <2>4, HandedMoves DEF MovesTo
  <2> QED
    BY <1>0, <2>1, <2>5, QuietSlots DEF Alive
<1> QED
  BY <1>2, <1>3

\* The lease is released and with it the permit.
LEMMA ReleaseSlots ==
  ASSUME TypeInv, TypeInv', CapacityInv, NEW p \in Proc, NEW x \in returning[p],
         TaskReleased(p, x[1], x[2])
  PROVE  CapacityInv'
<1>0. /\ Alive(p) /\ UNCHANGED <<mode, holder, req, exec>>
      /\ returning \in [Proc -> SUBSET (Job \X Nat)]
      /\ returning' = [returning EXCEPT ![p] = @ \ {<<x[1], x[2]>>}]
      /\ permits' = [permits EXCEPT ![p] = @ + 1] /\ <<x[1], x[2]>> \in returning[p]
  BY DEF TaskReleased, Return, TypeInv, TypeOK, QueueTypeOK
<1>1. /\ \A q \in Proc : Counted(q)' = Counted(q) /\ HolderPermits(q)' = HolderPermits(q)
      /\ \A q \in Proc : Handed(q)' = Handed(q)
      /\ \A S : Changes(S, S, 0)
  BY <1>0 DEF Counted, HolderPermits, Handed, Changes
<1>2. permits[p] \in Nat /\ permits'[p] = permits[p] + 1
      /\ \A q \in Proc \ {p} : permits'[q] = permits[q]
  BY <1>0, PermitsType DEF CapacityInv
<1>3. Local(p)
  BY <1>0, <1>1, <1>2 DEF Local
<1>4. Changes(returning[p], returning'[p], -1)
  BY <1>0 DEF Changes
<1>5. LockInv'
  <2>1. \A q \in Proc : Alive(q)' <=> Alive(q)
    BY <1>0 DEF Alive
  <2>2. \A r \in Job : CallOK(r)'
    BY <1>0, <2>1 DEF CapacityInv, LockInv, CallOK
  <2>3. \A q \in Proc : LockOK(q)'
    BY <1>0, <1>1, <1>3, <2>1 DEF CapacityInv, LockInv, LockOK, Local
  <2> QED
    BY <2>2, <2>3 DEF LockInv
<1>6. /\ permits'[p] >= 0
      /\ permits'[p] + HolderPermits(p)' + 0 + 0 + (-1) = permits[p] + HolderPermits(p)
  BY <1>1, <1>2, HolderCount
<1>7. SlotsOK'
  BY <1>1, <1>3, <1>4, <1>6, LocalTrade DEF CapacityInv
<1> QED
  BY <1>5, <1>7 DEF CapacityInv

\* The heartbeat, and a shutdown on its way, leave the permits alone.
LEMMA BackgroundSlots ==
  ASSUME TypeInv, CapacityInv, NEW p \in Proc,
         \/ BeatSnapshot(p) \/ \E x \in beat[p] : BeatRenew(p, x[1], x[2])
         \/ Shutdown(p) \/ CloseExecutor(p) \/ StopHeartbeat(p)
  PROVE  CapacityInv'
<1>0. /\ UNCHANGED <<permits, holder, req, returning>>
      /\ exec \in [Proc -> [Job -> Execution]] /\ beat \in [Proc -> SUBSET (Job \X Nat)]
      /\ mode \in [Proc -> {"up", "draining", "closed", "stopped", "down"}]
  BY DEF BeatSnapshot, BeatRenew, Shutdown, CloseExecutor, StopHeartbeat, TypeInv, TypeOK, QueueTypeOK
<1>1. \A q \in Proc : Alive(q)' <=> Alive(q)
  BY <1>0 DEF BeatSnapshot, BeatRenew, Shutdown, CloseExecutor, StopHeartbeat, Alive
<1>2. \A q \in Proc : Handed(q)' = Handed(q)
  <2>1. CASE exec' = exec
    BY <2>1 DEF Handed
  <2>2. CASE exec' # exec
    <3>1. PICK j \in Job, t \in Nat : Latch(p, j, t)
      <4>1. PICK x \in beat[p] : BeatRenew(p, x[1], x[2])
        BY <2>2 DEF BeatSnapshot, Shutdown, CloseExecutor, StopHeartbeat
      <4>2. x[1] \in Job /\ x[2] \in Nat
        BY <1>0
      <4> QED
        BY <2>2, <4>1, <4>2 DEF BeatRenew
    <3>2. MovesTo(p, j, exec[p][j].pc)
      BY <1>0, <2>2, <3>1, LatchMoves
    <3>3. PICK e \in Execution : Becomes(p, j, e) /\ e.pc = exec[p][j].pc
      BY <3>2 DEF MovesTo
    <3> QED
      BY <3>3, HandedMoves
  <2> QED
    BY <2>1, <2>2
<1> QED
  BY <1>0, <1>1, <1>2, QuietSlots

\* A process that ends takes its permits with it, and its callers' too.
LEMMA EndSlots ==
  ASSUME TypeInv, CapacityInv, NEW p \in Proc, Crash(p) \/ Exit(p)
  PROVE  CapacityInv'
<1>0. /\ Forget(p) /\ mode' = [mode EXCEPT ![p] = "down"] /\ Alive(p)
      /\ mode \in [Proc -> {"up", "draining", "closed", "stopped", "down"}]
      /\ holder \in [Proc -> Holder] /\ exec \in [Proc -> [Job -> Execution]]
      /\ returning \in [Proc -> SUBSET (Job \X Nat)] /\ req \in [Job -> Request]
  BY DEF Crash, Exit, Alive, TypeInv, TypeOK, QueueTypeOK
<1>1. ~Alive(p)' /\ \A q \in Proc \ {p} : Alive(q)' <=> Alive(q)
  BY <1>0 DEF Alive
<1>2. /\ holder'[p].kind = "none" /\ holder'[p].pc = "page"
      /\ returning'[p] = {} /\ permits' = permits
      /\ \A q \in Proc \ {p} : holder'[q] = holder[q] /\ returning'[q] = returning[q]
  BY <1>0, HoldingFields DEF Forget
<1>3. Handed(p)' = {} /\ \A q \in Proc \ {p} : Handed(q)' = Handed(q)
  <2>1. \A j \in Job : exec'[p][j].pc = "none"
    BY <1>0, RecordTypes DEF Forget
  <2>2. \A q \in Proc \ {p} : exec'[q] = exec[q]
    BY <1>0 DEF Forget
  <2> QED
    BY <2>1, <2>2 DEF Handed
<1>4. ASSUME NEW r \in Job
      PROVE  /\ req'[r].at = req[r].at
             /\ req[r].at = p => req'[r].pc \notin InFlight
             /\ req[r].at # p => req'[r] = req[r]
  <2> DEFINE e == [req[r] EXCEPT !.pc = "unavailable", !.job = NoJob]
  <2>1. e.pc = "unavailable" /\ e.at = req[r].at
    BY <1>0 DEF Request
  <2>2. req'[r] = IF req[r].at = p /\ req[r].pc \in InFlight THEN e ELSE req[r]
    BY <1>0 DEF Forget
  <2> HIDE DEF e
  <2> QED
    BY <2>1, <2>2 DEF InFlight
<1>5. \A q \in Proc \ {p} : Counted(q)' = Counted(q)
  BY <1>4 DEF Counted
<1>6. SlotsOK'
  <2>1. \A q \in Proc \ {p} : Untouched(q)
    BY <1>1, <1>2, <1>3, <1>5 DEF Untouched, HolderPermits
  <2> QED
    BY <1>1, <2>1, TradeElsewhere DEF CapacityInv
<1>7. ASSUME NEW r \in Job
      PROVE  CallOK(r)'
  <2>1. CallOK(r)
    BY DEF CapacityInv, LockInv
  <2>2. CASE req[r].at = p
    BY <1>4, <2>2 DEF CallOK, InFlight
  <2>3. CASE req[r].at # p
    BY <1>1, <1>2, <1>4, <2>1, <2>3 DEF CallOK, InFlight
  <2> QED
    BY <2>2, <2>3
<1>8. ASSUME NEW q \in Proc
      PROVE  LockOK(q)'
  <2>1. LockOK(q)
    BY DEF CapacityInv, LockInv
  <2>2. CASE q = p
    BY <1>2, <1>3, <2>2 DEF LockOK
  <2>3. CASE q # p
    <3>1. holder[q].kind = "submit" => req'[holder[q].job] = req[holder[q].job]
      BY <1>4, <2>1, <2>3 DEF LockOK
    <3> QED
      BY <1>1, <1>2, <1>3, <2>1, <2>3, <3>1 DEF LockOK
  <2> QED
    BY <2>2, <2>3
<1> QED
  BY <1>6, <1>7, <1>8 DEF CapacityInv, LockInv

\* A process that starts has every permit, and owes none.
LEMMA RestartSlots ==
  ASSUME TypeInv, CapacityInv, NEW p \in Proc, Restart(p)
  PROVE  CapacityInv'
<1>0. /\ ~Alive(p) /\ UNCHANGED <<holder, exec, returning, req>>
      /\ mode \in [Proc -> {"up", "draining", "closed", "stopped", "down"}]
      /\ mode' = [mode EXCEPT ![p] = "up"]
      /\ permits' = [permits EXCEPT ![p] = Capacity] /\ permits \in [Proc -> Int]
  BY DEF Restart, Alive, TypeInv, TypeOK, QueueTypeOK
<1>1. Alive(p)' /\ \A q \in Proc \ {p} : Alive(q)' <=> Alive(q)
  BY <1>0 DEF Alive
<1>2. \A q \in Proc : /\ Counted(q)' = Counted(q) /\ Handed(q)' = Handed(q)
                       /\ HolderPermits(q)' = HolderPermits(q)
  BY <1>0 DEF Counted, Handed, HolderPermits
<1>3. LockOK(p) /\ \A r \in Job : CallOK(r)
  BY DEF CapacityInv, LockInv
<1>4. /\ HolderPermits(p) = 0 /\ Counted(p) = {} /\ Handed(p) = {} /\ returning[p] = {}
  <2>1. holder[p].kind = "none" /\ Handed(p) = {} /\ returning[p] = {}
    BY <1>0, <1>3 DEF LockOK
  <2>2. \A r \in Job : ~(req[r].at = p /\ req[r].pc \in {"waiting", "inside"})
    BY <1>0, <1>3 DEF CallOK, InFlight
  <2> QED
    BY <2>1, <2>2 DEF HolderPermits, Counted
<1>5. Balanced(p)'
  <2>1. /\ HolderPermits(p)' = 0 /\ Counted(p)' = {} /\ Handed(p)' = {} /\ returning'[p] = {}
        /\ permits'[p] = Capacity
    BY <1>0, <1>2, <1>4
  <2>2. IsFiniteSet({}) /\ Cardinality({}) = 0
    BY FS_EmptySet
  <2> QED
    BY <2>1, <2>2 DEF Balanced
<1>6. SlotsOK'
  <2>1. \A q \in Proc \ {p} : Untouched(q)
    BY <1>0, <1>1, <1>2 DEF Untouched
  <2> QED
    BY <1>5, <2>1, TradeElsewhere DEF CapacityInv
<1>7. \A r \in Job : CallOK(r)'
  BY <1>0, <1>1, <1>3 DEF CallOK
<1>8. \A q \in Proc : LockOK(q)'
  BY <1>0, <1>1, <1>2 DEF CapacityInv, LockInv, LockOK
<1> QED
  BY <1>6, <1>7, <1>8 DEF CapacityInv, LockInv

\* The invariant is kept by every step.
LEMMA NextCapacity ==
  TypeInv /\ SafeInv /\ ReturnedOK /\ CapacityInv /\ [Next]_vars => CapacityInv'
<1> SUFFICES ASSUME TypeInv, SafeInv, ReturnedOK, CapacityInv, [Next]_vars PROVE CapacityInv'
  OBVIOUS
<1>1. TypeInv'
  BY NextTypes
<1>2. ASSUME UNCHANGED vars \/ Quiescent \/ \E j \in Job : LeaseLapses(j)
      PROVE  CapacityInv'
  <2>1. UNCHANGED <<permits, holder, req, returning, exec, mode>>
    BY <1>2 DEF vars, queueVars, Quiescent, LeaseLapses
  <2> QED
    BY <2>1, QuietSlots DEF Handed, Alive
<1> QED
  BY <1>1, <1>2, SubmitSlots, ReservedSlots, IntakeSlots, WorkerSlots, ReleaseSlots,
     BackgroundSlots, EndSlots, RestartSlots DEF Next

\* No permit is leaked on an error path and none is released twice: in a
\* running process those that are free and those that are held always add up
\* to the capacity it started with (submit, _submit_reserved, _task_done).
THEOREM PermitsAddUp == Spec => []CapacityConserved
<1>1. Init => ReturnedOK /\ CapacityInv
  <2> SUFFICES ASSUME Init PROVE ReturnedOK /\ CapacityInv
    OBVIOUS
  <2>1. /\ \A r \in Job : req[r].pc = "new"
        /\ \A p \in Proc : /\ holder[p] = Free /\ returning[p] = {} /\ permits[p] = Capacity
                           /\ Alive(p) /\ \A j \in Job : exec[p][j].pc = "none"
    BY RecordTypes DEF Init, Alive
  <2>2. \A p \in Proc : Counted(p) = {} /\ Handed(p) = {} /\ HolderPermits(p) = 0
    BY <2>1, HoldingFields DEF Counted, Handed, HolderPermits
  <2>3. SlotsOK
    <3>1. IsFiniteSet({}) /\ Cardinality({}) = 0
      BY FS_EmptySet
    <3>2. ASSUME NEW p \in Proc
          PROVE  Balanced(p)
      <4>1. /\ Counted(p) = {} /\ Handed(p) = {} /\ returning[p] = {}
            /\ HolderPermits(p) = 0 /\ permits[p] = Capacity
        BY <2>1, <2>2
      <4> QED
        BY <3>1, <4>1 DEF Balanced
    <3> QED
      BY <3>2 DEF SlotsOK
  <2>4. LockInv
    <3>1. \A r \in Job : CallOK(r)
      BY <2>1 DEF CallOK, InFlight
    <3>2. \A p \in Proc : LockOK(p)
      BY <2>1, HoldingFields DEF LockOK
    <3> QED
      BY <3>1, <3>2 DEF LockInv
  <2> QED
    BY <2>1, <2>3, <2>4 DEF ReturnedOK, CapacityInv
<1>2. CapacityInv => CapacityConserved
  <2> SUFFICES ASSUME CapacityInv, NEW p \in Proc, Alive(p)
               PROVE  /\ permits[p] >= 0
                      /\ permits[p] + HolderPermits(p) + RequestPermits(p)
                          + Cardinality({j \in Job : exec[p][j].pc \notin {"none", "admitted"}})
                          + Cardinality(returning[p]) = Capacity
    BY DEF CapacityConserved
  <2>1. RequestPermits(p) = Cardinality(Counted(p))
    BY FS_EmptySet DEF RequestPermits, Counted
  <2> QED
    BY <2>1 DEF CapacityInv, SlotsOK, Balanced, Handed
<1> QED
  BY <1>1, <1>2, AlwaysSafe, NextReturned, NextCapacity, PTL DEF Spec
=============================================================================
