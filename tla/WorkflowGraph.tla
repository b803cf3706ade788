--------------------------- MODULE WorkflowGraph ---------------------------
(***************************************************************************)
(* The coordinated graph of one workflow run: seven nodes in a fixed       *)
(* order, the recovery loop of the coordinator, the checkpoint the host    *)
(* builds after every node, and the harness kernel that validates it       *)
(* against the ones it has committed and answers with a permit.  The graph *)
(* (workflow_graph.py) and the kernel (workflow_harness.py) compute the    *)
(* legality of a checkpoint independently; a checkpoint the kernel refuses *)
(* turns the run into a safe unknown.                                      *)
(*                                                                         *)
(* A task is a sequence: a root for a planned one, its parent followed by  *)
(* the plan revision for one that recovery schedules.  Costs, digests,     *)
(* embeddings and the wording of reports are left out.                     *)
(***************************************************************************)
EXTENDS Integers, Sequences, FiniteSets

CONSTANTS
  Roots,          \* the specialists of the first plan, a sequence of names
  Replies,        \* what a specialist may do: [status, tries]
  TaskTries,      \* maximum_total_attempts of a specialist's policy
  PlanTries,      \* remaining_attempts of the workflow's budget
  RunTries,       \* attempts of the run's durable budget
  MaxSinkFaults   \* bound on failures of the kernel's store

ASSUME GraphAssumption ==
  /\ Len(Roots) >= 1 /\ TaskTries \in Nat \ {0} /\ RunTries \in Nat
  /\ PlanTries \in Nat /\ PlanTries >= Len(Roots)

VARIABLES
  gnode,      \* the node about to run, or "finalize", "returned", "raised"
  acted,      \* the node has run and its checkpoint is still to be taken
  gplan,      \* [rev, tasks, limit]: the coordinator's plan
  greports,   \* status of every task of the plan that has reported
  draft,      \* the decision: "none", "trade", "no_trade" or "insufficient"
  approved,   \* the risk gate accepted the decision
  outcome,    \* "none" or the workflow's result
  failure,    \* failure_reason of the node that just ran, or "none"
  tries,      \* provider attempts, in order: [task, node]
  collected,  \* checkpoints of the collector, in order
  durable,    \* checkpoints the kernel has committed, in order
  permit,     \* the kernel's last word
  round,      \* the recovery in progress: [plan, reports, left]
  abort,      \* cancellation has been requested
  sinkFaults

graphVars == <<gnode, acted, gplan, greports, draft, approved, outcome, failure,
               tries, collected, durable, permit, round, abort, sinkFaults>>

Nodes == <<"plan", "dispatch", "recover", "decide", "reflect", "risk", "assemble">>

NodeIndex(n) == CHOOSE k \in 1..Len(Nodes) : Nodes[k] = n

After(n) == IF n = "assemble" THEN "finalize" ELSE Nodes[NodeIndex(n) + 1]

SetOf(s) == {s[k] : k \in 1..Len(s)}

NoPlan == [rev |-> 0, tasks |-> <<>>, limit |-> <<>>]
NoRound == [plan |-> NoPlan, reports |-> <<>>, left |-> 0]

TriesOf(t, log) == Cardinality({k \in 1..Len(log) : log[k].task = t})

-----------------------------------------------------------------------------
(* The coordinator: planning and recovery.                                 *)

\* Attempts left for the k-th of n tasks, and the retries it is given: every
\* later task keeps one attempt.
Left(avail, n) ==
  LET left[k \in 1..n+1] ==
        IF k = 1 THEN avail
        ELSE LET slots == n - (k - 2)
                 spare == left[k-1] - slots
             IN left[k-1] - (IF spare < TaskTries - 1 THEN spare ELSE TaskTries - 1) - 1
  IN left

Limit(avail, n, k) ==
  LET spare == Left(avail, n)[k] - (n - k + 1)
  IN IF spare < TaskTries - 1 THEN spare ELSE TaskTries - 1

\* A plan for the tasks, or none when the attempts do not cover them.
Planned(tasks, rev, avail) ==
  [rev |-> rev, tasks |-> tasks,
   limit |-> [t \in SetOf(tasks) |->
                LET k == CHOOSE i \in 1..Len(tasks) : tasks[i] = t
                IN Limit(avail, Len(tasks), k)]]

\* plan_request keeps one attempt of the workflow for recovery.
FirstPlan ==
  Planned([k \in 1..Len(Roots) |-> <<Roots[k]>>], 0,
          IF PlanTries > Len(Roots) THEN PlanTries - 1 ELSE PlanTries)

\* Attempts a plan may spend, which are charged before it is admitted.
Charge(plan) ==
  LET sum[k \in 0..Len(plan.tasks)] ==
        IF k = 0 THEN 0 ELSE sum[k-1] + plan.limit[plan.tasks[k]] + 1
  IN sum[Len(plan.tasks)]

RemainingAfter(left, plan) ==
  IF left > Charge(plan) THEN left - Charge(plan) ELSE 0

Completed(status) == status \in {"long", "short"}

\* What reconcile_reports tells the coordinator to do with the reports.
Directive(plan, reports, left, funded) ==
  LET of(status) == {t \in DOMAIN reports : reports[t] = status}
      done == {t \in DOMAIN reports : Completed(reports[t])}
      opposed == IF {"long", "short"} \subseteq {reports[t] : t \in done}
                 THEN done ELSE {}
      conflicts == of("conflict") \cup opposed
      say(what, tasks) == [act |-> what, tasks |-> tasks]
  IN IF of("fatal") # {} THEN say("safe_unknown", {})
     ELSE IF DOMAIN reports # SetOf(plan.tasks) THEN say("wait", {})
     ELSE IF conflicts \cup of("failed") \cup of("uncertain") = {}
          THEN say("continue", {})
     ELSE IF left < 1 \/ ~funded \/ plan.rev >= 3 THEN say("safe_unknown", {})
     ELSE IF conflicts # {} THEN say("reconcile", conflicts)
     ELSE say("reschedule", IF of("failed") # {} THEN of("failed")
                            ELSE of("uncertain"))

\* The recovery plan: one task for every task it replaces, or one that
\* reconciles all conflicting ones.
InOrder(plan, set) == SelectSeq(plan.tasks, LAMBDA t : t \in set)

Rescheduled(plan, dir, left) ==
  LET old == InOrder(plan, dir.tasks)
      chosen == IF dir.act = "reconcile" THEN <<old[1]>> ELSE old
      tasks == [k \in 1..Len(chosen) |-> Append(chosen[k], plan.rev + 1)]
  IN Planned(tasks, plan.rev + 1, left)

\* The tasks a recovery keeps, with the ones it added.
Joined(plan, dir, new) ==
  LET kept == SelectSeq(plan.tasks, LAMBDA t : t \notin dir.tasks)
  IN [rev |-> new.rev, tasks |-> kept \o new.tasks,
      limit |-> [t \in SetOf(kept) \cup SetOf(new.tasks) |->
                   IF t \in SetOf(new.tasks) THEN new.limit[t]
                   ELSE plan.limit[t]]]

\* Attempts the tasks of a plan make, one task after the other.
Spent(plan, answer, n) ==
  LET of(t) == LET cap == plan.limit[t] + 1
                   k == IF answer[t].tries < cap THEN answer[t].tries ELSE cap
               IN [i \in 1..k |-> [task |-> t, node |-> n]]
      log[k \in 0..Len(plan.tasks)] ==
        IF k = 0 THEN <<>> ELSE log[k-1] \o of(plan.tasks[k])
  IN log[Len(plan.tasks)]

Reports(plan, answer) == [t \in SetOf(plan.tasks) |-> answer[t].status]

-----------------------------------------------------------------------------
(* The checkpoint the graph builds after a node.                           *)

Prior == IF collected = <<>>
         THEN [tasks |-> <<>>, done |-> {}, failed |-> {}, work |-> <<>>]
         ELSE collected[Len(collected)]

FirstNode(t) == tries[CHOOSE k \in 1..Len(tries) :
                        /\ tries[k].task = t
                        /\ \A j \in 1..k-1 : tries[j].task # t].node

KnownTasks == SetOf(Prior.tasks) \cup SetOf(gplan.tasks)

\* Tasks that made attempts and are in neither the plan nor the checkpoint
\* before, in the order of their first attempt.
Inferred ==
  LET first(k) == \A j \in 1..k-1 : tries[j].task # tries[k].task
      log[k \in 0..Len(tries)] ==
        IF k = 0 THEN <<>>
        ELSE IF tries[k].task \notin KnownTasks /\ first(k)
             THEN Append(log[k-1], tries[k].task) ELSE log[k-1]
  IN log[Len(tries)]

\* Only decisions and reflections may add work of their own.
Recognized == \A t \in SetOf(Inferred) : FirstNode(t) \in {"decide", "reflect"}

Inventory ==
  LET new == SelectSeq(gplan.tasks, LAMBDA t : t \notin SetOf(Prior.tasks))
  IN Prior.tasks \o new \o Inferred

DoneTasks ==
  Prior.done \cup {t \in SetOf(gplan.tasks) \cap DOMAIN greports :
                      Completed(greports[t])}
             \cup {t \in SetOf(Inferred) :
                      /\ failure = "none"
                      /\ \/ FirstNode(t) = "decide" /\ draft # "none"
                         \/ FirstNode(t) = "reflect"}

FailedTasks ==
  Prior.failed \cup {t \in SetOf(gplan.tasks) \cap DOMAIN greports :
                        greports[t] \in {"failed", "fatal"}}
               \cup {t \in SetOf(Inferred) \ DoneTasks :
                        FirstNode(t) = gnode}

TaskState(t) ==
  CASE t \in DoneTasks -> "succeeded"
    [] t \notin DoneTasks /\ t \in FailedTasks -> "failed"
    [] t \notin DoneTasks \cup FailedTasks ->
         IF TriesOf(t, tries) > 0 THEN "running" ELSE "pending"

\* Mutant: the owner of a task follows the revision of the plan it is in.
Owner_Revision(t) == IF gplan.rev > 0 THEN "recover" ELSE "dispatch"

\* The checkpoint before, not the revision, says who owns a task that
\* survived a recovery.
Owner(t) ==
  IF t \in SetOf(Prior.tasks) THEN Prior.work[t].owner
  ELSE IF gplan.rev > 0 THEN "recover" ELSE "dispatch"

Parents(t) == IF Len(t) = 1 THEN {} ELSE {SubSeq(t, 1, Len(t) - 1)}

PlannedItem(t) ==
  [owner |-> Owner(t), deps |-> Parents(t), limit |-> gplan.limit[t],
   state |-> TaskState(t), used |-> TriesOf(t, tries)]

InferredItem(t) ==
  LET decisions == {d \in {tries[k].task : k \in 1..Len(tries)} :
                      FirstNode(d) = "decide"}
  IN [owner |-> FirstNode(t),
      deps |-> IF FirstNode(t) = "reflect" THEN decisions ELSE {},
      limit |-> IF FirstNode(t) = "decide" THEN 1 ELSE 0,
      state |-> TaskState(t), used |-> TriesOf(t, tries)]

NodeOutcome == CASE failure = "none" -> "completed"
           [] failure = "cancelled" -> "cancelled"
           [] failure \notin {"none", "cancelled"} -> "failed"

NodeCheckpoint ==
  [node |-> gnode, ended |-> NodeOutcome, rev |-> gplan.rev, tasks |-> Inventory,
   done |-> DoneTasks \cap SetOf(Inventory),
   failed |-> FailedTasks \cap SetOf(Inventory),
   work |-> [t \in SetOf(Inventory) |->
               IF t \in SetOf(gplan.tasks) THEN PlannedItem(t)
               ELSE IF t \in SetOf(Inferred) THEN InferredItem(t)
               ELSE Prior.work[t]],
   usage |-> tries]

-----------------------------------------------------------------------------
(* The kernel: what it accepts after the checkpoints it has committed.     *)

Rank(state) == CASE state = "pending" -> 0
                 [] state = "running" -> 1
                 [] state \in {"succeeded", "failed"} -> 2

WellFormed(c) ==
  /\ c.done \cap c.failed = {}
  /\ \A k \in 1..Len(c.usage) : c.usage[k].task \in SetOf(c.tasks)
  /\ \A t \in SetOf(c.tasks) :
       LET item == c.work[t]
       IN /\ item.deps \subseteq SetOf(c.tasks)
          /\ t \in c.done => item.state = "succeeded"
          /\ t \in c.failed => item.state = "failed"
          /\ item.used = TriesOf(t, c.usage)
          /\ item.used <= item.limit + 1

Keeps(old, new) ==
  /\ new.used >= old.used /\ new.limit = old.limit
  /\ new.owner = old.owner /\ new.deps = old.deps
  /\ Rank(new.state) >= Rank(old.state)
  /\ Rank(old.state) = 2 => new.state = old.state

Extends(p, c) ==
  /\ c.rev = p.rev \/ (c.rev = p.rev + 1 /\ c.node = "recover")
  /\ Len(c.tasks) >= Len(p.tasks) /\ SubSeq(c.tasks, 1, Len(p.tasks)) = p.tasks
  /\ p.done \subseteq c.done /\ p.failed \subseteq c.failed
  /\ \A t \in SetOf(p.tasks) : Keeps(p.work[t], c.work[t])
  /\ \A t \in SetOf(c.tasks) \ SetOf(p.tasks) :
       /\ c.work[t].owner = c.node
       /\ c.node = "recover" => /\ c.work[t].deps # {}
                                /\ c.work[t].deps \subseteq SetOf(p.tasks)
  /\ Len(c.usage) >= Len(p.usage) /\ SubSeq(c.usage, 1, Len(p.usage)) = p.usage

FreshTries(p, c) == SubSeq(c.usage, Len(p) + 1, Len(c.usage))

Legal(cs) ==
  /\ \A k \in 1..Len(cs) : cs[k].node = Nodes[k] /\ WellFormed(cs[k])
  /\ cs # <<>> => cs[1].rev = 0
  /\ \A k \in 2..Len(cs) : Extends(cs[k-1], cs[k])
  /\ \A k \in 1..Len(cs) :
       LET new == FreshTries(IF k = 1 THEN <<>> ELSE cs[k-1].usage, cs[k])
       IN \A j \in 1..Len(new) : new[j].node = cs[k].node

\* The permit of a legal checkpoint: cancellation before budget.
Permit(c) == IF abort THEN "stop"
             ELSE IF Len(c.usage) <= RunTries THEN "continue" ELSE "degrade"

-----------------------------------------------------------------------------
(* The nodes.                                                              *)

At(n) == gnode = n /\ ~acted

\* _safe_failure: the run ends as a safe unknown, for this reason.
Fails(reason) == failure' = reason /\ outcome' = "unknown"

Succeeds == UNCHANGED <<failure, outcome>>

kernelVars == <<collected, durable, permit, abort, sinkFaults>>

\* Every node asks for cancellation first.
Stops(n) ==
  /\ At(n) /\ abort /\ acted' = TRUE
  /\ Fails("cancelled")
  /\ UNCHANGED <<gnode, gplan, greports, draft, approved, tries, round>>

PlanRuns ==
  /\ At("plan") /\ ~abort /\ acted' = TRUE
  /\ \/ gplan' = FirstPlan /\ Succeeds
     \/ Fails("planning") /\ UNCHANGED gplan
  /\ UNCHANGED <<gnode, greports, draft, approved, tries, round>>

DispatchRuns ==
  /\ At("dispatch") /\ ~abort /\ acted' = TRUE
  /\ \/ \E answer \in [SetOf(gplan.tasks) -> Replies] :
          /\ greports' = Reports(gplan, answer)
          /\ tries' = tries \o Spent(gplan, answer, "dispatch")
          /\ Succeeds
     \/ Fails("dispatch") /\ UNCHANGED <<greports, tries>>
  /\ UNCHANGED <<gnode, gplan, draft, approved, round>>

\* The recovery loop starts from the plan, with what the budget has left
\* after it.
RecoverBegins ==
  /\ At("recover") /\ ~abort /\ round = NoRound
  /\ round' = [plan |-> gplan, reports |-> greports,
               left |-> RemainingAfter(PlanTries, gplan)]
  /\ UNCHANGED <<gnode, acted, gplan, greports, draft, approved, outcome,
                 failure, tries>>

\* One turn of the loop: give the reports back, give up, or schedule the tasks
\* again, in which case the loop goes on with what they report.  Scheduling
\* fails when the attempts do not cover the tasks, and so may contexts and
\* grants.
RecoverTurns ==
  /\ gnode = "recover" /\ ~acted /\ round # NoRound
  /\ \E funded \in BOOLEAN :
       LET dir == Directive(round.plan, round.reports, round.left, funded)
           new == Rescheduled(round.plan, dir, round.left)
       IN \/ /\ dir.act = "continue"
             /\ gplan' = round.plan /\ greports' = round.reports
             /\ Succeeds /\ acted' = TRUE /\ round' = NoRound
             /\ UNCHANGED tries
          \/ /\ dir.act \in {"safe_unknown", "wait"}
             /\ Fails("recovery") /\ acted' = TRUE /\ round' = NoRound
             /\ UNCHANGED <<gplan, greports, tries>>
          \/ /\ dir.act \in {"reschedule", "reconcile"}
             /\ Fails("recovery") /\ acted' = TRUE /\ round' = NoRound
             /\ UNCHANGED <<gplan, greports, tries>>
          \/ /\ dir.act \in {"reschedule", "reconcile"}
             /\ Len(new.tasks) <= round.left
             /\ \E answer \in [SetOf(new.tasks) -> Replies] :
                  LET kept == DOMAIN round.reports \ dir.tasks
                      got == Reports(new, answer)
                  IN /\ round' = [plan |-> Joined(round.plan, dir, new),
                                  reports |-> [t \in kept \cup DOMAIN got |->
                                    IF t \in kept THEN round.reports[t] ELSE got[t]],
                                  left |-> RemainingAfter(round.left, new)]
                     /\ tries' = tries \o Spent(new, answer, "recover")
             /\ Succeeds /\ UNCHANGED <<acted, gplan, greports>>
  /\ UNCHANGED <<gnode, draft, approved>>

\* The planner is asked only when every report is complete.
DecideRuns ==
  /\ At("decide") /\ ~abort /\ acted' = TRUE
  /\ LET task == <<"decision", gplan.rev>>
         asks == \A t \in DOMAIN greports : Completed(greports[t])
     IN \/ /\ asks
           /\ \E n \in 1..2, d \in {"none", "trade", "no_trade", "insufficient"} :
                /\ tries' = tries \o [i \in 1..n |-> [task |-> task, node |-> "decide"]]
                /\ draft' = d
           /\ Succeeds
        \/ ~asks /\ draft' = "none" /\ Succeeds /\ UNCHANGED tries
        \/ Fails("decision") /\ UNCHANGED <<tries, draft>>
  /\ UNCHANGED <<gnode, gplan, greports, approved, round>>

\* The reviews of n targets: every target is a reflection task of its own, and
\* a task of this kind has no retry.
Reviewed(n) == [i \in 1..n |-> [task |-> <<"reflection", i>>, node |-> "reflect"]]

\* correct_output: a correctable decision is patched into no trade and reviewed
\* again; when that does not help, it is rewritten as insufficient and reviewed.
Corrected(d) == [reviews : {2}, draft : {"no_trade"} \ {d}]
                  \cup [reviews : 2..3, draft : {"insufficient"} \ {d}]

\* The verifier accepts the decision as it is, or a correction of it; anything
\* else is a failed verification.
ReflectRuns ==
  /\ At("reflect") /\ ~abort /\ acted' = TRUE
  /\ \/ draft = "none" /\ Fails("verification") /\ UNCHANGED <<draft, tries>>
     \/ /\ draft # "none"
        /\ \E r \in {[reviews |-> 1, draft |-> draft]} \cup Corrected(draft) :
             draft' = r.draft /\ tries' = tries \o Reviewed(r.reviews) /\ Succeeds
     \/ /\ draft # "none" /\ Fails("verification") /\ UNCHANGED draft
        /\ \E n \in 0..3 : tries' = tries \o Reviewed(n)
  /\ UNCHANGED <<gnode, gplan, greports, approved, round>>

\* evaluate_risk rejects whatever is not a trade.
RiskRuns ==
  /\ At("risk") /\ ~abort /\ acted' = TRUE
  /\ approved' \in {FALSE, draft = "trade"}
  /\ Succeeds
  /\ UNCHANGED <<gnode, gplan, greports, draft, tries, round>>

Assembled == CASE draft = "no_trade" -> "no_trade"
               [] draft = "trade" /\ approved -> "playbook"
               [] draft = "trade" /\ ~approved -> "unknown"
               [] draft \in {"none", "insufficient"} -> "unknown"

AssembleRuns ==
  /\ At("assemble") /\ ~abort /\ acted' = TRUE
  /\ outcome' = Assembled /\ UNCHANGED failure
  /\ UNCHANGED <<gnode, gplan, greports, draft, approved, tries, round>>

\* Where the graph goes once the node is observed.
Routes(result) == gnode' = IF result = "none" THEN After(gnode) ELSE "finalize"

ActionVars == <<gplan, greports, draft, approved, tries, round, abort>>

\* The update of the node stands only under a permit to continue.
Observed(p) ==
  IF p = "continue" THEN UNCHANGED <<outcome, failure>> /\ Routes(outcome)
  ELSE Fails("permit") /\ Routes("unknown")

\* The kernel refuses a checkpoint that does not extend the committed ones, or
\* commits it with its permit, and then the collector keeps it.
ObserveAnswered ==
  /\ acted /\ acted' = FALSE /\ Recognized
  /\ IF Legal(Append(durable, NodeCheckpoint))
     THEN /\ durable' = Append(durable, NodeCheckpoint)
          /\ collected' = Append(collected, NodeCheckpoint)
          /\ permit' = Permit(NodeCheckpoint)
          /\ Observed(permit')
     ELSE /\ permit' = "refused"
          /\ Fails("authority") /\ Routes("unknown")
          /\ UNCHANGED <<collected, durable>>
  /\ UNCHANGED <<ActionVars, sinkFaults>>

\* An attempt of a task nobody knows ends the run without a checkpoint.
ObserveUnrecognized ==
  /\ acted /\ acted' = FALSE /\ ~Recognized
  /\ Fails("unrecognized") /\ Routes("unknown")
  /\ UNCHANGED <<ActionVars, collected, durable, permit, sinkFaults>>

\* The store is down, the run has been taken over, or the answer is lost after
\* the append: the collector does not keep the checkpoint.
ObserveFails ==
  /\ acted /\ acted' = FALSE /\ Recognized /\ sinkFaults < MaxSinkFaults
  /\ sinkFaults' = sinkFaults + 1
  /\ durable' \in {durable} \cup (IF Legal(Append(durable, NodeCheckpoint))
                                  THEN {Append(durable, NodeCheckpoint)} ELSE {})
  /\ Fails("authority") /\ Routes("unknown")
  /\ UNCHANGED <<ActionVars, collected, permit>>

\* The finalizer audits the result; when it cannot, the result is unknown.
\* The execution is handed back only when the last checkpoint binds the usage.
Finalizes ==
  /\ gnode = "finalize"
  /\ outcome' \in {outcome, "unknown"}
  /\ gnode' = IF collected # <<>> /\ collected[Len(collected)].usage = tries
              THEN "returned" ELSE "raised"
  /\ UNCHANGED <<acted, gplan, greports, draft, approved, failure, tries, round,
                 kernelVars>>

Cancels ==
  /\ ~abort /\ gnode \notin {"returned", "raised"}
  /\ abort' = TRUE
  /\ UNCHANGED <<gnode, acted, gplan, greports, draft, approved, outcome,
                 failure, tries, collected, durable, permit, round, sinkFaults>>

-----------------------------------------------------------------------------
GraphInit ==
  /\ gnode = "plan" /\ acted = FALSE /\ gplan = NoPlan /\ greports = <<>>
  /\ draft = "none" /\ approved = FALSE /\ outcome = "none" /\ failure = "none"
  /\ tries = <<>> /\ collected = <<>> /\ durable = <<>> /\ permit = "none"
  /\ round = NoRound /\ abort = FALSE /\ sinkFaults = 0

Runs == \/ \E n \in SetOf(Nodes) : Stops(n) /\ (n = "recover" => round = NoRound)
        \/ PlanRuns \/ DispatchRuns \/ RecoverBegins \/ RecoverTurns
        \/ DecideRuns \/ ReflectRuns \/ RiskRuns \/ AssembleRuns

GraphNext ==
  \/ Runs /\ UNCHANGED kernelVars
  \/ ObserveAnswered \/ ObserveUnrecognized \/ ObserveFails
  \/ Finalizes \/ Cancels

GraphSpec == GraphInit /\ [][GraphNext]_graphVars

-----------------------------------------------------------------------------
(* Properties                                                              *)

GraphTypeOK ==
  /\ gnode \in SetOf(Nodes) \cup {"finalize", "returned", "raised"}
  /\ acted \in BOOLEAN /\ approved \in BOOLEAN /\ abort \in BOOLEAN
  /\ draft \in {"none", "trade", "no_trade", "insufficient"}
  /\ outcome \in {"none", "unknown", "no_trade", "playbook"}
  /\ permit \in {"none", "continue", "degrade", "stop", "refused"}
  /\ DOMAIN greports \subseteq SetOf(gplan.tasks)
  /\ \A t \in DOMAIN gplan.limit : gplan.limit[t] \in 0..TaskTries-1

(* The graph and the kernel agree: the kernel never refuses a checkpoint   *)
(* the graph builds, whichever tasks failed, were scheduled again or       *)
(* survived, so a refusal always means that the store or the run failed    *)
(* (_observed_node against _validate_checkpoint_sequence).  It holds where *)
(* the attempts allow one turn of recovery in a node, as production's      *)
(* eight do: the coordinator would go on up to the third revision of the   *)
(* plan, and a second turn in one node raises the revision by two, where   *)
(* the kernel admits one.                                                  *)
Agreed == permit # "refused"

(* A tradeable result is one the kernel let through to the end: all seven  *)
(* checkpoints are committed, no permit asked to stop, the attempts are    *)
(* within the durable budget and all of them bound, and no specialist of   *)
(* the last plan is missing, failed or at odds with another.               *)
Cleared ==
  gnode = "returned" /\ outcome = "playbook" =>
    /\ Len(durable) = Len(Nodes) /\ permit = "continue"
    /\ durable[Len(durable)].usage = tries /\ Len(tries) <= RunTries
    /\ DOMAIN greports = SetOf(gplan.tasks)
    /\ \E side \in {"long", "short"} : \A t \in DOMAIN greports : greports[t] = side

(* Recovery stays inside the attempts the workflow was given: dispatch and *)
(* recovery together never make more calls than the budget at planning.    *)
WithinTries ==
  Cardinality({k \in 1..Len(tries) : tries[k].node \in {"dispatch", "recover"}})
    <= PlanTries

=============================================================================
