--------------------------- MODULE PromptActivation ---------------------------
(***************************************************************************)
(* Which prompt release is active (workflow_prompt_config.py,              *)
(* backend/prompt_activation_store.py, backend/prompt_audit_recovery.py).  *)
(*                                                                         *)
(* Managers switch the active release, or roll the last switch back, each  *)
(* reading the state and then swapping it if its revision is unchanged.    *)
(* Every switch writes an audit row in the same transaction; the row is    *)
(* delivered to the audit hook outside any lock, then acknowledged, and a  *)
(* recovery thread per manager replays what was never acknowledged.        *)
(*                                                                         *)
(* With a shared store the managers are processes, some of which may not   *)
(* have a release's manifest yet; without one they are the threads of one  *)
(* process over its own registry.                                          *)
(***************************************************************************)
EXTENDS Integers, FiniteSets, Sequences

CONSTANTS
  Managers, Releases,
  Manifests,      \* manager -> the releases it has manifests for
  Authorities,    \* \subseteq BOOLEAN: TRUE is a shared store
  MaxSwitches,    \* bound: switches made
  MaxHookFaults   \* bound: hook calls, store calls and processes that fail

NoRelease == "none"
ASSUME ReleaseAssumption ==
  NoRelease \notin Releases /\ Manifests \in [Managers -> SUBSET Releases]

VARIABLES
  shared,         \* the authority, fixed
  store,          \* the active and the previous release, and the revision
  audits,         \* the audit rows, one per revision
  acknowledged,   \* revisions marked delivered
  heard,          \* ghost: revisions the hook accepted
  op, replay,     \* manager -> its switch in progress; its recovery thread
  hookFaults

prompts == <<shared, store, audits, acknowledged, heard, op, replay, hookFaults>>

NoOp == [at |-> "idle", action |-> "none", release |-> NoRelease, seen |-> 0, rev |-> 0]
NotSwitching == [at |-> "idle", queue |-> <<>>]
NoPrompt == [active |-> NoRelease, previous |-> NoRelease, revision |-> 0]
Has(t, r) == shared => r \in Manifests[t]

PromptInit ==
  /\ shared \in Authorities
  /\ store = NoPrompt /\ audits = <<>> /\ acknowledged = {} /\ heard = {}
  /\ op = [t \in Managers |-> NoOp] /\ replay = [t \in Managers |-> NotSwitching] /\ hookFaults = 0

Trouble == hookFaults < MaxHookFaults /\ hookFaults' = hookFaults + 1
Put(t, o) == op' = [op EXCEPT ![t] = o]

-----------------------------------------------------------------------------
(* The state after a switch, and its audit row: a rollback forgets the     *)
(* previous release in the state and names the one it left in the row.     *)
Switched(action, r) ==
  [active |-> r, previous |-> IF action = "activate" THEN store.active ELSE NoRelease,
   revision |-> store.revision + 1]
CommitSwitch(action, r) ==
  /\ store' = Switched(action, r)
  /\ audits' = Append(audits, [action |-> action, active |-> r, previous |-> store.active])

(* activate and rollback_previous read the state first.  A manager that    *)
(* lacks the manifest of a release involved refuses.                       *)
SwitchBegins(t, action, r) ==
  /\ op[t].at = "idle" /\ Len(audits) + Cardinality({u \in Managers : op[u].at = "swap"}) < MaxSwitches
  /\ r \in Releases /\ Has(t, r) /\ (store.revision # 0 => Has(t, store.active))
  /\ IF action = "activate" THEN r # store.active ELSE r = store.previous
  /\ Put(t, [NoOp EXCEPT !.at = "swap", !.action = action, !.release = r, !.seen = store.revision])
  /\ UNCHANGED <<shared, store, audits, acknowledged, heard, replay, hookFaults>>

(* compare_and_swap, or bootstrap when no release was active: the second   *)
(* manager to bootstrap the same release takes the state as its own.       *)
Unchanged(t) == op[t].seen = store.revision
Adopts(t) == op[t].seen = 0 /\ store.revision # 0 /\ store.active = op[t].release
Swap(t) ==
  LET o == op[t]
  IN /\ shared /\ o.at = "swap"
     /\ \/ /\ Unchanged(t) /\ CommitSwitch(o.action, o.release)
           /\ \/ Put(t, [o EXCEPT !.at = "emit", !.rev = store.revision + 1]) /\ UNCHANGED hookFaults
              \/ Trouble /\ Put(t, NoOp)            \* committed, and the answer is lost
        \/ /\ Adopts(t) /\ Put(t, [o EXCEPT !.at = "emit", !.rev = store.revision])
           /\ UNCHANGED <<store, audits, hookFaults>>
        \/ /\ ~Unchanged(t) /\ ~Adopts(t) /\ Put(t, NoOp) /\ UNCHANGED <<store, audits, hookFaults>>
     /\ UNCHANGED <<shared, acknowledged, heard, replay>>

(* The local registry reads again under its write lock.                    *)
SwapLocal(t) ==
  LET o == op[t]
      r == IF o.action = "activate" THEN o.release ELSE store.previous
  IN /\ ~shared /\ o.at = "swap"
     /\ IF r \in {NoRelease, store.active} THEN Put(t, NoOp) /\ UNCHANGED <<store, audits>>
        ELSE CommitSwitch(o.action, r) /\ Put(t, [o EXCEPT !.at = "emit", !.release = r, !.rev = store.revision + 1])
     /\ UNCHANGED <<shared, acknowledged, heard, replay, hookFaults>>

(* The row is delivered outside the lock.                                  *)
Emit(t) ==
  /\ op[t].at = "emit"
  /\ \/ /\ heard' = heard \cup {op[t].rev} /\ Put(t, [op[t] EXCEPT !.at = "ack"]) /\ UNCHANGED hookFaults
     \/ Trouble /\ Put(t, NoOp) /\ UNCHANGED heard
  /\ UNCHANGED <<shared, store, audits, acknowledged, replay>>

(* The shared store marks the revision; the local registry marks the last  *)
(* row of the same release and action.                                     *)
SameKind(o) == {i \in 1..Len(audits) : audits[i].active = o.release /\ audits[i].action = o.action}
LatestAlike(s) == CHOOSE i \in s : \A j \in s : j <= i
Marked(o) == IF shared THEN o.rev ELSE LatestAlike(SameKind(o))
Acknowledge(t) ==
  /\ op[t].at = "ack" /\ acknowledged' = acknowledged \cup {Marked(op[t])} /\ Put(t, NoOp)
  /\ UNCHANGED <<shared, store, audits, heard, replay, hookFaults>>

(* A manager's process dies with its switch, or its store call fails.      *)
Dies(t) ==
  /\ op[t].at # "idle" /\ Trouble /\ Put(t, NoOp) /\ replay' = [replay EXCEPT ![t] = NotSwitching]
  /\ UNCHANGED <<shared, store, audits, acknowledged, heard>>

-----------------------------------------------------------------------------
(* The recovery thread: pending rows in order; one whose manifest is not   *)
(* here ends the pass, a hook that fails does not.                         *)
PendingAudits == 1..Len(audits) \ acknowledged
InOrderOf(s) == {q \in [1..Cardinality(s) -> s] : \A i, j \in DOMAIN q : i < j => q[i] < q[j]}
ReplayStarts(t) ==
  /\ replay[t].at = "idle" /\ PendingAudits # {}
  /\ \E q \in InOrderOf(PendingAudits) : replay' = [replay EXCEPT ![t] = [at |-> "deliver", queue |-> q]]
  /\ UNCHANGED <<shared, store, audits, acknowledged, heard, op, hookFaults>>

ReplayStops(t) ==
  LET q == Tail(replay[t].queue)
  IN IF q = <<>> THEN NotSwitching ELSE [at |-> "deliver", queue |-> q]
ReplayDelivers(t) ==
  LET rev == Head(replay[t].queue)
  IN /\ replay[t].at = "deliver"
     /\ \/ /\ ~Has(t, audits[rev].active) /\ replay' = [replay EXCEPT ![t] = NotSwitching]
           /\ UNCHANGED <<heard, hookFaults>>
        \/ /\ Has(t, audits[rev].active) /\ heard' = heard \cup {rev}
           /\ replay' = [replay EXCEPT ![t].at = "ack"] /\ UNCHANGED hookFaults
        \/ /\ Trouble /\ replay' = [replay EXCEPT ![t] = ReplayStops(t)] /\ UNCHANGED heard
     /\ UNCHANGED <<shared, store, audits, acknowledged, op>>
ReplayAcknowledges(t) ==
  /\ replay[t].at = "ack"
  /\ acknowledged' = acknowledged \cup {Head(replay[t].queue)}
  /\ replay' = [replay EXCEPT ![t] = ReplayStops(t)]
  /\ UNCHANGED <<shared, store, audits, heard, op, hookFaults>>

Recovery(t) == ReplayStarts(t) \/ ReplayDelivers(t) \/ ReplayAcknowledges(t)
PromptNext ==
  \E t \in Managers :
    \/ \E r \in Releases, a \in {"activate", "rollback"} : SwitchBegins(t, a, r)
    \/ Swap(t) \/ SwapLocal(t) \/ Emit(t) \/ Acknowledge(t) \/ Dies(t) \/ Recovery(t)

(* Every manager's recovery thread runs every thirty seconds.              *)
PromptFair == \A t \in Managers : WF_prompts(Recovery(t))
PromptSpec == PromptInit /\ [][PromptNext]_prompts /\ PromptFair

-----------------------------------------------------------------------------
PromptTypeOK ==
  /\ store.active \in Releases \cup {NoRelease} /\ store.previous \in Releases \cup {NoRelease}
  /\ acknowledged \subseteq 1..Len(audits) /\ heard \subseteq 1..Len(audits)
  /\ \A t \in Managers : op[t].at \in {"idle", "swap", "emit", "ack"}
                         /\ replay[t].at \in {"idle", "deliver", "ack"}

(* The audit rows are the one history of the active release, whatever      *)
(* managers raced: each row leaves the release the row before it made      *)
(* active, a rollback restores what the activation just before it          *)
(* replaced, and the last row is the state.                                *)
OneHistory ==
  /\ Len(audits) = store.revision
  /\ \A i \in 1..Len(audits) :
       LET was == IF i = 1 THEN NoRelease ELSE audits[i - 1].active
       IN /\ audits[i].previous = was /\ audits[i].active # was
          /\ audits[i].action = "rollback" =>
               i > 1 /\ audits[i - 1].action = "activate" /\ audits[i].active = audits[i - 1].previous
  /\ audits # <<>> => audits[Len(audits)].active = store.active

(* A row marked delivered was accepted by the hook, under every overlap of *)
(* switches, failed deliveries and recovery passes over the shared store.  *)
NeverUnheard == shared => acknowledged \subseteq heard

(* Every switch reaches the audit hook, also one whose manager died or     *)
(* whose answer was lost.                                                  *)
EverySwitchHeard == \A i \in 1..MaxSwitches : (shared /\ Len(audits) >= i) ~> (i \in heard)
=============================================================================
