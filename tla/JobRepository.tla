--------------------------- MODULE JobRepository ---------------------------
(***************************************************************************)
(* The durable job table of market_agent/backend/database.py, one function *)
(* per column, and the transactions that change it.  A job is named by the *)
(* request that created it.  A lease is a token with a deadline: the model *)
(* keeps whether the deadline is in the future (`live'); Lapse is the      *)
(* passage of time.  Tokens are the random uuids of the code, numbered in  *)
(* the order in which they are drawn for a job.                            *)
(***************************************************************************)
EXTENDS Integers, Sequences, FiniteSets

CONSTANTS Job,              \* requests, and the jobs they may create
          KeyOf,            \* idempotency key of each request, or NoKey
          PrintOf,          \* payload fingerprint of each request
          NoKey,
          MaxAttempts,      \* max_attempts column
          MaxClaims,        \* bound: tokens drawn for one job
          ReadsClockFirst   \* SQLite reads `now' before its transaction;
                            \* PostgreSQL reads clock_timestamp() inside it

ASSUME JobAssumption == Job # {} /\ 0 \notin Job
ASSUME BoundsAssumption ==
    /\ MaxAttempts \in Nat \ {0}
    /\ MaxClaims \in Nat
    /\ ReadsClockFirst \in BOOLEAN

VARIABLES status, attempts, token, live, result, error,
          created,    \* the jobs in created_at order
          drawn,      \* history: tokens drawn so far for each job
          started     \* history: number of task_started events of each job

jobVars == <<status, attempts, token, live, result, error,
             created, drawn, started>>

NoToken == 0
Active == {"accepted", "running"}
Terminal == {"succeeded", "failed"}
Status == {"absent"} \cup Active \cup Terminal
ErrorKind == {"none", "handler", "exhausted", "shutdown", "infrastructure"}

JobInit ==
    /\ status = [j \in Job |-> "absent"]
    /\ attempts = [j \in Job |-> 0]
    /\ token = [j \in Job |-> NoToken]
    /\ live = [j \in Job |-> FALSE]
    /\ result = [j \in Job |-> 0]
    /\ error = [j \in Job |-> "none"]
    /\ created = <<>>
    /\ drawn = [j \in Job |-> 0]
    /\ started = [j \in Job |-> 0]

JobTypeOK ==
    /\ status \in [Job -> Status]
    /\ attempts \in [Job -> 0..MaxAttempts]
    /\ token \in [Job -> Nat] /\ live \in [Job -> BOOLEAN]
    /\ result \in [Job -> Nat] /\ error \in [Job -> ErrorKind]
    /\ created \in Seq(Job)
    /\ drawn \in [Job -> Nat] /\ started \in [Job -> Nat]

(***************************************************************************)
(* Submission: create_or_get_job and find_idempotent_job.                  *)
(***************************************************************************)

\* Mutant: the key is looked up among unfinished jobs only.
WithKeyOf_Unfinished(r) ==
    {j \in Job : status[j] \in Active /\ KeyOf[r] # NoKey /\ KeyOf[j] = KeyOf[r]}

\* Rows that carry the request's idempotency key (at most one: UNIQUE).
WithKeyOf(r) ==
    {j \in Job : status[j] # "absent" /\ KeyOf[r] # NoKey /\ KeyOf[j] = KeyOf[r]}

\* _validate_existing_job raises IdempotencyConflictError.
Conflicts(r, j) == PrintOf[j] # PrintOf[r]

CreateJob(r) ==
    /\ status[r] = "absent"
    /\ WithKeyOf(r) = {}
    /\ status' = [status EXCEPT ![r] = "accepted"]
    /\ created' = Append(created, r)
    /\ UNCHANGED <<attempts, token, live, result, error, drawn, started>>

(***************************************************************************)
(* Leases.                                                                 *)
(***************************************************************************)

Unleased(j) == token[j] = NoToken \/ ~live[j]

Older(i, j) ==
    \E m, n \in DOMAIN created : m < n /\ created[m] = i /\ created[n] = j

\* ORDER BY created_at LIMIT limit
Oldest(S, limit) == {j \in S : Cardinality({i \in S : Older(i, j)}) < limit}

\* Mutant: running jobs of a dead owner are not selected.
Recoverable_AcceptedOnly(limit) ==
    Oldest({j \in Job : status[j] = "accepted" /\ Unleased(j)}, limit)

\* The page that list_recoverable_jobs selects.
Recoverable(limit) == Oldest({j \in Job : status[j] \in Active /\ Unleased(j)}, limit)

\* Mutant: the status is not part of the WHERE clause.
Claimable_AnyStatus(j, recovery) == status[j] # "absent" /\ Unleased(j)

Claimable(j, recovery) ==
    /\ status[j] \in IF recovery THEN Active ELSE {"accepted"}
    /\ Unleased(j)

\* Mutant: the token is not fresh.
ClaimJob_SameToken(j, recovery) ==
    /\ Claimable(j, recovery)
    /\ drawn[j] < MaxClaims
    /\ token' = [token EXCEPT ![j] = drawn[j] + 1]
    /\ live' = [live EXCEPT ![j] = TRUE]
    /\ status' = [status EXCEPT ![j] = "accepted"]
    /\ UNCHANGED <<attempts, result, error, created, drawn, started>>

\* claim_job with a fresh token; a recovered running job is accepted again.
ClaimJob(j, recovery) ==
    /\ Claimable(j, recovery)
    /\ drawn[j] < MaxClaims
    /\ drawn' = [drawn EXCEPT ![j] = @ + 1]
    /\ token' = [token EXCEPT ![j] = drawn[j] + 1]
    /\ live' = [live EXCEPT ![j] = TRUE]
    /\ status' = [status EXCEPT ![j] = "accepted"]
    /\ UNCHANGED <<attempts, result, error, created, started>>

\* The WHERE clause of renew_job_lease.  A clock read before the
\* transaction can still show a deadline in the future that has passed by
\* the time the row is updated.
Renewable(j, t) ==
    /\ status[j] \in Active
    /\ t # NoToken /\ token[j] = t
    /\ live[j] \/ ReadsClockFirst

RenewLease(j, t) ==
    /\ Renewable(j, t)
    /\ live' = [live EXCEPT ![j] = TRUE]
    /\ UNCHANGED <<status, attempts, token, result, error, created, drawn,
                   started>>

\* renew_job_lease returned False: nothing is written.
RenewRefused(j, t) ==
    /\ status[j] \notin Active \/ t = NoToken \/ token[j] # t \/ ~live[j]
    /\ UNCHANGED jobVars

\* release_job_lease, which writes nothing when the token is not the row's.
ReleaseLease(j, t) ==
    \/ /\ status[j] \in Active /\ token[j] = t
       /\ token' = [token EXCEPT ![j] = NoToken]
       /\ live' = [live EXCEPT ![j] = FALSE]
       /\ UNCHANGED <<status, attempts, result, error, created, drawn, started>>
    \/ /\ status[j] \notin Active \/ token[j] # t
       /\ UNCHANGED jobVars

\* The deadline of a lease passes.
Lapse(j) ==
    /\ token[j] # NoToken /\ live[j]
    /\ live' = [live EXCEPT ![j] = FALSE]
    /\ UNCHANGED <<status, attempts, token, result, error, created, drawn,
                   started>>

(***************************************************************************)
(* _transition: the legality of the edge first, then the lease.            *)
(***************************************************************************)

AllowedTransitions ==
    [s \in Status |->
        CASE s = "accepted" -> {"running", "failed"}
          [] s = "running" -> {"accepted", "succeeded", "failed"}
          [] OTHER -> {}]

Legal(j, target) == target \in AllowedTransitions[status[j]]

\* Mutant: any live lease will do.
LeaseHeld_AnyToken(j, t) == live[j]

\* _check_lease passes: a caller without a token may write only a row that
\* was never leased (or whose lease was released).
LeaseHeld(j, t) ==
    IF t = NoToken
    THEN token[j] = NoToken
    ELSE token[j] = t /\ live[j]

CanMove(j, target, t) == Legal(j, target) /\ LeaseHeld(j, t)

\* The UPDATE of _transition: a terminal status clears the lease; result and
\* error are NULL unless the target is succeeded, respectively failed.
Transition(j, target, t, res, err) ==
    /\ CanMove(j, target, t)
    /\ status' = [status EXCEPT ![j] = target]
    /\ result' = [result EXCEPT ![j] = IF target = "succeeded" THEN res ELSE 0]
    /\ error' = [error EXCEPT ![j] = IF target = "failed" THEN err ELSE "none"]
    /\ token' = [token EXCEPT ![j] = IF target \in Terminal THEN NoToken ELSE @]
    /\ live' = [live EXCEPT ![j] = IF target \in Terminal THEN FALSE ELSE @]
    /\ UNCHANGED <<created, drawn>>

MarkRunning(j, n, t) ==
    /\ Transition(j, "running", t, 0, "none")
    /\ attempts' = [attempts EXCEPT ![j] = n]
    /\ started' = [started EXCEPT ![j] = @ + 1]

MarkRetryScheduled(j, t) ==
    /\ Transition(j, "accepted", t, 0, "none")
    /\ UNCHANGED <<attempts, started>>

\* The result of an attempt is represented by the attempt's number.
MarkSucceeded(j, n, t) ==
    /\ Transition(j, "succeeded", t, n, "none")
    /\ UNCHANGED <<attempts, started>>

MarkFailed(j, e, t) ==
    /\ Transition(j, "failed", t, 0, e)
    /\ UNCHANGED <<attempts, started>>
=============================================================================
