---------------------------- MODULE JobContract ----------------------------
(***************************************************************************)
(* What the task queue promises the client of a job, without processes,    *)
(* leases or recovery: an accepted job is begun at most MaxAttempts times, *)
(* is decided once, a success is that of the attempt begun last, and every *)
(* accepted job is decided.                                                *)
(***************************************************************************)
EXTENDS Integers

CONSTANTS Job, MaxAttempts

VARIABLES phase, tries, outcome

cvars == <<phase, tries, outcome>>

Undecided == <<"undecided", 0>>
Failure == <<"failure", 0>>

ContractInit ==
    /\ phase = [j \in Job |-> "absent"]
    /\ tries = [j \in Job |-> 0]
    /\ outcome = [j \in Job |-> Undecided]

Accept(j) ==
    /\ phase[j] = "absent"
    /\ phase' = [phase EXCEPT ![j] = "pending"]
    /\ UNCHANGED <<tries, outcome>>

Begin(j) ==
    /\ phase[j] = "pending" /\ tries[j] < MaxAttempts
    /\ tries' = [tries EXCEPT ![j] = @ + 1]
    /\ UNCHANGED <<phase, outcome>>

\* A success reports the attempt begun last; a failure may come at any time.
Decide(j) ==
    /\ phase[j] = "pending"
    /\ phase' = [phase EXCEPT ![j] = "decided"]
    /\ \/ tries[j] > 0 /\ outcome' = [outcome EXCEPT ![j] = <<"success", tries[j]>>]
       \/ outcome' = [outcome EXCEPT ![j] = Failure]
    /\ UNCHANGED tries

ContractNext == \E j \in Job : Accept(j) \/ Begin(j) \/ Decide(j)

\* A pending job may be decided at any time and must be in the end.
ContractSpec ==
    /\ ContractInit /\ [][ContractNext]_cvars
    /\ \A j \in Job : WF_cvars(Decide(j))
=============================================================================
