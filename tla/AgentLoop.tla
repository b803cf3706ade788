----------------------------- MODULE AgentLoop -----------------------------
(***************************************************************************)
(* The main loop of the trading agent: run_forever, query_new_playbook,    *)
(* the immediate and the scenario execution of a plan, and the helper      *)
(* reset (market_agent/agent_execution_loop.py, agent_helper_reset.py).    *)
(*                                                                         *)
(* A pass consumes a finished judgement, polls events, and then either     *)
(* queries the model or looks after the position: the risk session, the    *)
(* waiting scenario, the periodic query.  While a judgement is in flight   *)
(* it does neither.  What the risk session does with its exits is in       *)
(* RiskSession; here it is only present, and its resting exits may reduce  *)
(* the position at any time.                                               *)
(***************************************************************************)
EXTENDS PassiveEvents

CONSTANTS
  Sizes,        \* targets the local sizing gives a plan
  MaxPlans,     \* bound: plans that ask for a trade
  MaxInputs,    \* bound: such plans, filled lots, failed reads and events together;
                \*   events come without end where there is nothing else
  MaxExits,     \* bound: lots the resting exits fill
  MaxFaults     \* bound: reads that fail after an order

\* The local sizing caps every target.
ASSUME SizesAssumption ==
  Sizes \subseteq Nat \ {0} /\ \E n \in Sizes : \A m \in Sizes : m <= n

VARIABLES
  pc, reason,
  trigger,      \* the judged event a passive query is about, or NoResult
  pos,          \* the position at the exchange
  snap,         \* the position as read before the order
  known,        \* there is a current_playbook
  plan,         \* the entry plan of the query being executed, or NoEntry
  act,          \* the materialized plan being executed
  pm,           \* position_management_session
  risk,         \* side of the risk session, or "none"
  basis,
  excused,      \* why an open position may be without a session
  gap,          \* lots filled by exits between a read and its order
  plans, exits, faults,
  news          \* events published, counted up to MaxInputs

asking == <<reason, trigger>>
work == <<snap, plan, act>>
counts == <<gap, plans, exits, faults>>
agent == <<asking, work, pos, known, pm, risk, basis, excused, counts>>
vars == <<passive, pc, agent, news>>

NoEntry == [act |-> "none", now |-> FALSE, scenario |-> FALSE, size |-> 0, conf |-> None,
            closed |-> FALSE]
NoPm == [on |-> FALSE, plan |-> NoPlan, passive |-> FALSE, done |-> FALSE, acts |-> 0]
Session(mat, passiveReason) ==
  [on |-> TRUE, plan |-> mat, passive |-> passiveReason, done |-> FALSE, acts |-> 0]

Room(n) == news + plans + exits + faults + n <= MaxInputs
MaxSize == CHOOSE n \in Sizes : \A m \in Sizes : m <= n

LoopTypeOK ==
  /\ PassiveTypeOK
  /\ pc \in {"top", "poll", "dispatch", "monitor", "manage", "idle", "query", "act"}
  /\ reason \in {"active", "passive", "helper"}
  /\ {pos, snap} \subseteq Int
  /\ risk \in Sides \cup {"none"}
  /\ basis.side \in Sides \cup {""} /\ basis.raw \in Percent \cup {None}
  /\ pm.on => pm.plan.scenario
  /\ excused \in {"no", "fault", "stop"}

LoopInit ==
  /\ PassiveInit
  /\ pc = "top" /\ reason = "active" /\ trigger = NoResult
  /\ pos = 0 /\ snap = 0 /\ known = FALSE /\ plan = NoEntry /\ act = NoPlan /\ pm = NoPm
  /\ risk = "none" /\ basis = NoBasis /\ excused = "no" /\ gap = 0
  /\ plans = 0 /\ exits = 0 /\ faults = 0 /\ news = 0

-----------------------------------------------------------------------------
(* One pass.                                                               *)
Top == pc = "top" /\ Consume /\ pc' = "poll" /\ UNCHANGED agent
PollEvents == pc = "poll" /\ Poll /\ pc' = "dispatch" /\ UNCHANGED agent

Ask(why, what) == pc' = "query" /\ reason' = why /\ trigger' = what
\* The pass is over: what it asked and worked on is forgotten.
Again ==
  /\ pc' = "top" /\ reason' = "active" /\ trigger' = NoResult
  /\ snap' = 0 /\ plan' = NoEntry /\ act' = NoPlan

TriggerReady ==
  /\ pc = "dispatch" /\ ready # NoResult
  /\ Ask("passive", ready) /\ ready' = NoResult
  /\ UNCHANGED <<inbox, future, waiting, fresh, fallback, started>>
  /\ UNCHANGED <<work, pos, known, pm, risk, basis, excused, counts>>

\* queued_passive_event: the query judges the event itself.
TriggerFallback ==
  /\ \/ pc = "dispatch" /\ ready = NoResult /\ InFlight
     \/ pc = "idle"
  /\ fallback # "none" /\ future.st # "running"
  /\ Ask("passive", Failed(fallback)) /\ fallback' = "none"
  /\ UNCHANGED <<inbox, future, waiting, fresh, ready, started>>
  /\ UNCHANGED <<work, pos, known, pm, risk, basis, excused, counts>>

SleepInFlight ==
  /\ pc = "dispatch" /\ ready = NoResult /\ InFlight
  /\ fallback = "none" \/ future.st = "running"
  /\ pc' = "top" /\ UNCHANGED <<passive, agent>>

LookAfter ==
  /\ pc = "dispatch" /\ ready = NoResult /\ ~InFlight
  /\ pc' = "monitor" /\ UNCHANGED <<passive, agent>>

(* _perform_helper_reset: flat, or with the last stage of the exits behind *)
(* it, the agent forgets everything it held; a flatten that is refused     *)
(* leaves the reset for later.                                             *)
HelperReset ==
  /\ pc = "monitor" /\ (pos = 0 \/ risk # "none")
  /\ pos' = 0 /\ pm' = NoPm /\ basis' = NoBasis /\ risk' = "none" /\ known' = FALSE
  /\ excused' = "no"
  /\ Ask("helper", NoResult)
  /\ UNCHANGED <<passive, work, counts>>

(* step_risk_session: a session whose position is gone or has turned is    *)
(* dropped.  A status of the session may ask for a new plan.               *)
RiskStep ==
  /\ pc = "monitor"
  /\ LET gone == risk # "none" /\ risk # Side(pos)
     IN /\ risk' = IF gone THEN "none" ELSE risk
        /\ basis' = IF gone THEN NoBasis ELSE basis
        /\ excused' = IF pos = 0 THEN "no" ELSE excused
  /\ \/ pc' = "manage" /\ UNCHANGED asking
     \/ risk # "none" /\ Ask("active", NoResult)
  /\ UNCHANGED <<passive, work, pos, known, pm, counts>>

-----------------------------------------------------------------------------
(* step_position_management_session: the scenario waits, times out, or is  *)
(* armed and executed, which it is only once.                              *)
NoScenario ==
  /\ pc = "manage" /\ (~pm.on \/ pm.done)
  /\ pm' = NoPm /\ pc' = "idle"
  /\ UNCHANGED <<passive, asking, work, pos, known, risk, basis, excused, counts>>

ScenarioWaits ==
  /\ pc = "manage" /\ pm.on /\ ~pm.done
  /\ pc' = "idle" /\ UNCHANGED <<passive, agent>>

ScenarioTimeout ==
  /\ pc = "manage" /\ pm.on /\ ~pm.done
  /\ pm' = NoPm /\ Ask("active", NoResult)
  /\ UNCHANGED <<passive, work, pos, known, risk, basis, excused, counts>>

\* Mutant: the scenario is marked completed after its execution.
ScenarioActs_MarkLater ==
  /\ pc = "manage" /\ pm.on /\ ~pm.done
  /\ pm' = [pm EXCEPT !.acts = @ + 1]
  /\ snap' = pos /\ act' = pm.plan /\ pc' = "act"
  /\ reason' = IF pm.passive THEN "passive" ELSE "active"
  /\ UNCHANGED <<passive, trigger, plan, pos, known, risk, basis, excused, counts>>
ScenarioActs ==
  /\ pc = "manage" /\ pm.on /\ ~pm.done
  /\ pm' = [pm EXCEPT !.done = TRUE, !.acts = @ + 1]
  /\ snap' = pos /\ act' = pm.plan /\ pc' = "act"
  /\ reason' = IF pm.passive THEN "passive" ELSE "active"
  /\ UNCHANGED <<passive, trigger, plan, pos, known, risk, basis, excused, counts>>

(* The end of the pass: a query because there is no plan or the period is  *)
(* over, or sleep.                                                         *)
PeriodicQuery ==
  /\ pc = "idle" /\ fallback = "none"
  /\ Ask("active", NoResult)
  /\ UNCHANGED <<passive, work, pos, known, pm, risk, basis, excused, counts>>
Sleep ==
  /\ pc = "idle" /\ fallback = "none" /\ known
  /\ pc' = "top" /\ UNCHANGED <<passive, agent>>

-----------------------------------------------------------------------------
(* query_new_playbook.  What the model may answer: an active plan has no   *)
(* confidence and waits for a scenario or not; a passive plan follows the  *)
(* judged event, or a judgement of the query's own if the prefetch failed. *)
ActivePlans ==
  {p \in [act : Sides \cup {"no_trade"}, now : BOOLEAN, scenario : BOOLEAN, size : Sizes,
          conf : {None}, closed : BOOLEAN] :
     /\ ~(p.now /\ p.scenario)
     /\ p.act = "no_trade" => ~p.now /\ p.size = MaxSize /\ ~p.closed}
Verdicts == IF trigger.rel = "failed" THEN Judged(trigger.kind) ELSE {trigger}
PassivePlans ==
  {[act |-> v.act, now |-> v.act # "no_trade", scenario |-> FALSE, size |-> n,
    conf |-> v.conf, closed |-> c] :
     v \in {v \in Verdicts : v.rel = "relevant" /\ (v.act = "no_trade" \/ v.conf >= TradeGate)},
     n \in Sizes, c \in BOOLEAN}

QueryFails ==
  /\ pc = "query" /\ Again
  /\ UNCHANGED <<passive, pos, known, pm, risk, basis, excused, counts>>

QueryIrrelevant ==
  /\ pc = "query" /\ reason = "passive"
  /\ \E v \in Verdicts : v.rel \in {"unrelated", "duplicate"}
  /\ Again
  /\ UNCHANGED <<passive, pos, known, pm, risk, basis, excused, counts>>

QueryHelper ==
  /\ pc = "query" /\ reason = "helper" /\ Again
  /\ known' = FALSE /\ UNCHANGED <<passive, pos, pm, risk, basis, excused, counts>>

(* A plan that is not executed now: the position keeps its session, and    *)
(* the scenario is armed unless the same one is already waiting.           *)
Arm(mat) ==
  /\ risk' = IF pos = 0 THEN "none" ELSE risk
  /\ \/ pm' = IF mat.scenario THEN Session(mat, reason = "passive") ELSE NoPm
     \/ pm.on /\ ~pm.done /\ pm.plan = mat /\ UNCHANGED pm

\* The selected symbol cannot be traded here.
QueryNotTradable ==
  /\ pc = "query" /\ reason # "helper"
  /\ Arm(NoPlan) /\ known' = TRUE /\ Again
  /\ UNCHANGED <<passive, pos, basis, excused, counts>>

QueryPlan ==
  /\ pc = "query" /\ reason # "helper"
  /\ \E p \in IF reason = "passive" THEN PassivePlans ELSE ActivePlans :
       LET mat == Materialize(p, pos, basis)
       IN /\ p.act = "no_trade" \/ (plans < MaxPlans /\ Room(1))
          /\ plans' = IF p.act = "no_trade" THEN plans ELSE plans + 1
          /\ IF mat.now
             THEN /\ plan' = p /\ snap' = pos /\ act' = mat /\ trigger' = NoResult
                  /\ pc' = "act" /\ UNCHANGED <<reason, pm, risk>>
             ELSE Arm(mat) /\ Again
  /\ known' = TRUE
  /\ UNCHANGED <<passive, pos, basis, excused, gap, exits, faults>>

-----------------------------------------------------------------------------
(* The risk session after an execution that left the position at q.  A     *)
(* session cannot be built on a stop the fill price has already passed,    *)
(* nor on the stop of the opposite side.                                   *)
Built(mat, q, passed) == IF passed \/ ~HasStop(mat) \/ mat.dec.opposite THEN "none" ELSE Side(q)
RiskAfter(mat, q, passed) ==
  IF q = 0                                  THEN "none"
  ELSE IF mat.dec.action \in Exposure       THEN IF passed THEN "none" ELSE Side(q)
  ELSE IF mat.pass /\ risk = Side(q)        THEN risk
  ELSE IF HasContent(mat) THEN Built(mat, q, passed) ELSE "none"
\* A trim keeps the staged session it finds.
\* Mutant: every execution builds a session from its own plan.
Reused_Never(mat, q) == FALSE
Reused(mat, q) ==
  /\ mat.dec.action = "trim" /\ q # 0
  /\ risk = Side(q) /\ Side(snap) = Side(q) /\ Abs(q) < Abs(snap)

Excuse(q, r, passed) ==
  CASE q = 0                                          -> "no"
    [] q # 0 /\ excused = "fault"                     -> "fault"
    [] q # 0 /\ excused # "fault" /\ r = Side(q)      -> "no"
    [] q # 0 /\ excused # "fault" /\ r # Side(q)      -> IF passed THEN "stop" ELSE excused

\* What is executed is the armed scenario, not the plan of a query.
Scenario == plan = NoEntry

(* execute_management_decision: for a passive plan the price guards may    *)
(* refuse the order; otherwise the order is sent as the snapshot says.     *)
GuardBlocks ==
  /\ pc = "act" /\ reason = "passive" /\ act.dec.action \in Exposure
  /\ Again
  /\ IF Scenario
     THEN pm' = NoPm /\ UNCHANGED risk
     ELSE risk' = (IF pos = 0 THEN "none" ELSE risk) /\ pm' = NoPm
  /\ UNCHANGED <<passive, pos, known, basis, excused, counts>>

(* After a close the plan goes on from the flat position.                  *)
Continued == Materialize(plan, 0, NoBasis)

SettleNow(q, accepted, levered, passed) ==
  LET eff == Effective(act.dec, snap, q, levered)
      r   == IF Reused(act, q) THEN risk ELSE RiskAfter(act, q, passed)
  IN CASE act.dec.action = "no_change" ->
            /\ risk' = IF eff THEN r ELSE risk
            /\ UNCHANGED pm
       [] act.dec.action # "no_change" /\ eff ->
            /\ risk' = r
            /\ pm' = IF act.dec.cont /\ q = 0 /\ Continued.scenario
                     THEN Session(Continued, reason = "passive") ELSE NoPm
       [] OTHER ->
            /\ risk' = IF q = 0 THEN "none" ELSE risk
            /\ pm' = NoPm

SettleScenario(q, accepted, passed) ==
  /\ risk' = IF accepted THEN RiskAfter(act, q, passed) ELSE risk
  /\ pm' = NoPm

Executed(q, accepted) ==
  /\ pos' = q
  /\ basis' = IF accepted
              THEN BasisAfter(basis, act.dec,
                              IF Scenario \/ reason = "active" THEN None ELSE plan.conf, snap, q)
              ELSE basis

Execute ==
  /\ pc = "act"
  /\ \E q \in Filled(pos, Order(act.dec, snap)), levered, passed \in BOOLEAN :
       LET accepted == Order(act.dec, snap).kind = "none" \/ q # pos
       IN /\ Executed(q, accepted)
          /\ IF Scenario THEN SettleScenario(q, accepted, passed)
             ELSE SettleNow(q, accepted, levered, passed)
          /\ excused' = Excuse(q, risk', passed)
  /\ Again
  /\ UNCHANGED <<passive, known, counts>>

(* The position cannot be read after the order: the pass ends in the error *)
(* handler, and neither the session nor the basis follow the order.        *)
ReadFails ==
  /\ pc = "act" /\ faults < MaxFaults /\ Room(1)
  /\ \E q \in Filled(pos, Order(act.dec, snap)) : pos' = q
  /\ faults' = faults + 1 /\ excused' = "fault" /\ Again
  /\ UNCHANGED <<passive, known, pm, risk, basis, gap, plans, exits>>

-----------------------------------------------------------------------------
(* The resting exits of the session fill, and events arrive: at the steps  *)
(* that read the position or the inbox, which is as good as at any time.   *)
ExitFill ==
  /\ pc \in {"monitor", "manage", "query", "act"}
  /\ risk # "none" /\ risk = Side(pos)
  /\ \E n \in 1..Abs(pos) :
       /\ exits + n <= MaxExits /\ Room(n) /\ exits' = exits + n
       /\ pos' = pos + Signed(Side(-pos), n)
       /\ gap' = IF pc = "act" THEN gap + n ELSE gap
  /\ UNCHANGED <<passive, pc, asking, work, known, pm, risk, basis, excused, plans, faults>>

News ==
  /\ pc = "poll"
  /\ Room(1) \/ plans + exits + faults = 0
  /\ \E k \in Kinds : Publish(k)
  /\ news' = IF news < MaxInputs THEN news + 1 ELSE news
  /\ UNCHANGED <<pc, agent>>

Environment ==
  \/ ExitFill
  \/ JudgeDone /\ UNCHANGED <<pc, agent>>

Pass ==
  \/ Top \/ PollEvents \/ TriggerReady \/ TriggerFallback \/ SleepInFlight \/ LookAfter
  \/ HelperReset \/ RiskStep
  \/ NoScenario \/ ScenarioWaits \/ ScenarioTimeout \/ ScenarioActs
  \/ PeriodicQuery \/ Sleep
  \/ QueryFails \/ QueryIrrelevant \/ QueryHelper \/ QueryNotTradable \/ QueryPlan
  \/ GuardBlocks \/ Execute \/ ReadFails

LoopNext == News \/ ((Pass \/ Environment) /\ UNCHANGED news)
LoopSpec == LoopInit /\ [][LoopNext]_vars
(* The loop never stops, and a judge call ends (it has a timeout).         *)
LoopFairSpec ==
  /\ LoopSpec
  /\ WF_vars(Pass /\ UNCHANGED news)
  /\ WF_vars(JudgeDone /\ UNCHANGED <<pc, agent, news>>)

-----------------------------------------------------------------------------
(* Whenever the loop is between two passes, an open position has a risk    *)
(* session of its own side, whatever the exits fill while a plan is being  *)
(* executed and however the order is filled or refused.  The exceptions    *)
(* are the code's own: a fill beyond the stop of its plan, for which no    *)
(* session can be built, and a failed read after the order, which leaves   *)
(* the position without a session and a scenario of the flat account armed.*)
Guarded == pc = "top" /\ pos # 0 => risk = Side(pos) \/ excused # "no"

(* A position outgrows the largest plan by no more than the exits filled   *)
(* between the read of the position and the order computed from it.        *)
WithinPlan == Abs(pos) <= MaxSize + gap

(* An armed scenario is executed at most once, also when the execution     *)
(* ended in an error after the order was sent.                             *)
ScenarioOnce == pm.acts <= 1

(* No judgement of an event that arrived too late starts a query, whatever *)
(* batches were queued behind each other.                                  *)
StaleNeverTrades == pc = "query" /\ trigger.rel \notin {"none", "failed"} => trigger.kind = "fresh"

(* The account stays inside the plan and behind a stop.                    *)
PlanKept == LoopTypeOK /\ Guarded /\ WithinPlan

(* Nothing is acted on twice or too late.                                  *)
ActsOnce == ScenarioOnce /\ StaleNeverTrades

(* The loop comes back to its positions again and again, whatever queries, *)
(* scenarios, failures and judgements it has to deal with, once no new     *)
(* batch of events is polled.  The exception is news without end: a batch  *)
(* polled during each judgement is judged next, and while a judgement is   *)
(* in flight a pass skips the positions (_consume_ready_..., 824-838, and  *)
(* passive_query_in_flight, 2210).                                         *)
KeepsWatching ==
  <>[][~(pc = "poll" /\ PollBatch)]_vars => []<>(pc = "monitor")
=============================================================================
