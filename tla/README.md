# agent-trader: a TLA+ model of its durable and concurrent parts

This directory models the parts of agent-trader in which several threads,
processes or an exchange act on shared or persistent state: the background task
queue of the market agent's backend, the funding hedge and the trading agent that
send real orders, the Harness kernel that drives a run over its event stream, and
the services, stores and feeds around them. TLC checks small instances of all of
them; TLAPS proves the main safety properties of the task queue, of the funding hedge,
of the Harness kernel, of the trading loop, of the stores, of the feeds and of most services for
every value of the parameters.

## The system

| Part | State it keeps | Operations | What makes it hard |
| --- | --- | --- | --- |
| Job repository (`market_agent/backend/database.py`) | rows of the jobs table: status, attempts, lease, result, error | create or find, claim, renew, release, transitions, list recoverable | several processes; a commit whose answer is lost; a clock read before the transaction |
| Task queue (`backend/task_queue.py`) | capacity semaphore, submission lock, active set, fences, threads | submit, recover, deliver, run with retries, heartbeat, shutdown | a crash between any two transactions; a lease lost while a handler runs |
| Funding hedge (`funding_fee_avoidance/`) | a locked JSON file of cycles; positions on the exchange | poll: load, read, reconcile, decide, persist, send | lost replies, orders that land late, cutoffs |
| Harness (`workflow_session.py`, `workflow_state_machine.py`, `workflow_harness.py`, `workflow_execution_backend.py`) | an event log per run, leases with epochs, work items | append, lease, create, advance, checkpoint, resume, cancel | optimistic concurrency, replay, stale writers |
| Result commit (`workflow_harness_application.py`, `workflow_result_store.py`) | the result journal and its stages | stage, accept, write memory, commit, redeliver | a crash between two stores |
| Coordinated graph (`workflow_graph.py`, production application, coordinator) | plan, reports, checkpoints | dispatch, reflect, recover, verify, assemble | recovery inside a budget of attempts; a checkpoint whose answer is lost |
| Agent driver, circuit breaker, budget ledger | breaker, reservations, counters | admit, call, report, retry, reserve, settle, time out | a lost probe; a late answer against its timeout |
| Trading agent (`market_agent/agent_*.py`, `exchange.py`) | risk session, staged exits, plans, passive events | a pass of `run_forever`, exits, fills by several channels, restore | fills that come late, twice or never; stale positions |
| Soft stop poller, cross-asset trends, news memory, model calls | caches, references, event buffer, checkpoint | poll, resolve, fold, judge, price | threads with their own clock; crash between two files |
| Memory, promotion, prompt activation | records and their outbox, a shared cursor, audit rows | propose, promote, purge, activate, deliver | concurrent writers; interrupted batches |
| Redis bus (`backend/redis_adapters.py`) | stream, pending entries, dead letters | publish, read, claim, handle, acknowledge | at-least-once delivery; two-call dead letter |
| Watchers (`watchers/`) | items already reported, event file, the proxy group | poll, report, save, rotate the proxy | a crash during a save; one proxy shared by all |
| Web trade (`web_trade/`) | a JSON ledger of hidden closes | rebalance, poll | what fails between close and reopen |

Interaction: the HTTP API submits jobs to the task queue, which writes the job
repository and, with durable dispatch, publishes to Redis; handlers run the Harness,
whose graph calls models through the agent driver and the budget ledger and whose results
go to the journal and to memory. The trading agent reads the watchers' event files,
judges them with model calls, and manages its position through the risk session and the
soft stop poller. The funding hedge, web trade and the watchers are processes of their
own. `PROJECT.json` lists every component with its sources and, where it is not
modelled, why, and the hazards of the code, at their lines, with the properties
that cover them.

## The modules

| Module | Models |
| --- | --- |
| `JobRepository` | the jobs table; one operator per transaction |
| `TaskQueue` | `BackgroundTaskQueue` in the processes `Proc`; extends `JobRepository` |
| `JobContract` | what a client of a job is promised; implemented by `TaskQueue` |
| `HedgePolicy` | `_reconcile` and `evaluate` as pure operators |
| `HedgeCycle` | the polling rounds, the state file, the exchange; extends `HedgePolicy` |
| `HarnessSession` | the event stream of a run, its fold and its replay, as pure operators |
| `HarnessKernel` | `HarnessKernel` in the processes `Kernels`; extends `HarnessSession` |
| `WorkItems` | work items and attempts under leases with epochs, written by several hosts |
| `WorkflowGraph` | the nodes of the coordinated graph and the checkpoints they commit |
| `ResultCommit` | the application's loop over the kernel, the result journal, the memory writes |
| `AgentDriver`, `BudgetLedger` | a model invocation with its circuit; the money of a run |
| `StagedExit`, `SessionRestore`, `RiskSession` | the stages of an exit; the restore at start; the risk session of a position |
| `Orders`, `Playbook`, `PassiveEvents`, `AgentLoop` | signed sizes; how a plan becomes an order; batches of news and their prefetched judgements; the pass of `run_forever` |
| `SoftStopPoller`, `TrendFetch`, `NewsMemory`, `ModelCalls` | the polling thread; name resolution and bars; the event buffer and its checkpoint; the calls that judge and price an event |
| `MemoryStore`, `Promotion`, `PromptActivation` | records, rules and the deletion outbox; batches behind the shared cursor; prompt switches and their audit rows |
| `RedisBus`, `SourceWatch`, `ProxyFailover` | consumer groups; a watcher, its files and its reader; the shared proxy group |
| `WebTrade` | the rebalance and the ledger |
| `TaskQueueProofs` | theorems about `TaskQueue` |
| `HedgeCycleProofs` | theorems about `HedgeCycle` |
| `HarnessProofs` | theorems about `HarnessKernel` |
| `AgentLoopProofs` | theorems about `AgentLoop` |
| `ServicesProofs`, `StoresProofs`, `FeedsProofs` | theorems about the components of the runs `services`, `stores` and `feeds` |
| `MC*` | instances for TLC |

The theorems about the ledger are few and stand in `BudgetLedger` itself.

How the state corresponds to the code is said where each variable is declared. What a
reader has to know of the three largest models:

*Task queue.* Every transaction of `JobRepository` is a step, and so is the local
work between two of them. `drawn` counts tokens, so that a fresh one is the next number
(the code draws a UUID); `ReadsClockFirst` says that `claim_job` and `renew_job_lease` use
a clock read before their transaction. `holder[p]` is what the thread inside
`_submission_lock` is doing, `exec[p][j]` the execution of a job from its claim to `done`,
`returning` the executions that left the active set and have not released their lease,
`beat` the snapshot of the heartbeat. A *disruption* is a crash, a shutdown, a call that
raises with its effect applied or not, or a heartbeat too late for its lease. The handler
of a job is external: it returns, raises a retryable or another error, or notices the
fence.

*Funding hedge.* A polling round is split where the code can be overtaken: load the
cycle, read the positions, look up the orders, preview, take the lock, reconcile, store,
send. Orders travel by themselves and may be lost, refused, filled in part, or filled
late. The exchange is external: immediate-or-cancel, reduce-only for closes and
adjustments, void after the expiry that `_set_action_expiry` gives an open. One symbol;
the economics are reduced to the primary that owes funding and the size the policy
allows. `LateFills = FALSE` assumes that an order is settled before the account is read
again, which the configuration does not enforce: it is used where a property is about the
other faults (`ends`, one setting of `hedge`), and no theorem assumes it.

*Harness kernel.* `events` is the stream, the only durable truth. A decision takes up to
four steps (settlement, authority, transition, projection), each with a reload in
between. `at` is the number of events a call loaded last: the stream only grows, so that
prefix *is* the call's view, and hash links, receipts and digests become comparisons of
lengths. An append that finds the stream longer than `at` loses the optimistic race and
the call starts again once. `StrictBackend` is TRUE in every run: the host
injects `LangGraphExecutionBackend`, whose `resume` refuses a longer view of the revision it
holds unless an authority is among the new events (FALSE is the backend of some tests, and the
theorems hold for both). `Prior` is what earlier processes left in the store.

## The runs

Components that share no state are checked in one run: a variable `part` says which of
them, or which setting, a behaviour is about, and the others stay as they started. A
property of a run is then the conjunction of the properties of its parts, each
stated and explained in the module of its component.

| Run | Instance | Properties and their parts |
| --- | --- | --- |
| `takeover` | 2 processes, 1 job of 2 attempts, 2 disruptions; with late clocks and the dispatch stream, or without both (1.46 M states) | `TypeOK`; `AttemptsAccounted` = `AttemptsBounded`, `ExhaustedIsSpent`; `ResultIsLatest`; `OneOwner`; `TerminalIsFinal` |
| `queue_live` | 1 process, room for one job, 1 disruption; two jobs through the stream, two direct calls, one key sent twice with the same or with another payload (114 k) | `KeyedOnce` = `OneJobPerKey`; `PermitsConserved` = `CapacityConserved`; under fairness `EveryCallAnswered`, `ShutdownEnds`, `ImplementsContract` |
| `hedge` | one settlement, a primary that turns, a fault and a crash; or two settlements, late orders, a fault (1.71 M states) | `TypeOK`; `OneOpenPerSettlement`; `WithinTarget`; `NeverForgotten` = `CompletedIsFlat` and, until a round reads the account with an order on its way, `Tracked`; `FinishedStays`; `OpensInTime` |
| `ends` | a hedge with one fault; a new run of one kernel with one fault; both under fairness (132 k) | `CyclesEnd`, `ManagedToFlat`; `RunReachesEnd` = `RunSettles` |
| `harness` | 2 kernels create a run and make its first move, or lead a running run to its end or its cancellation; or one kernel leads a running run through a candidate, checkpoints, a rejection and a fault (722 k) | `StreamWellFormed` = types, `LegalHistory`; `PaidAndAuthorized` = `Authorized`, `ChargedOnce`, `FailClosed`; `StopIsFinal` = `StopsForGood`, `CancelIsDurable`; `TakenOver` = `RestartReplays`, `AnsweredOnce` |
| `risk` | fills in part, lost or foreign; all exit rules with refused orders; crashes in a falling market (389 k) | `ExitsMatch` = types, `InStep`, `ExitsTracked`, `NoOrphans`; `StagesHonest` = `StageEarned`, `StageFloor`; under fairness `WatchedToFlat` = `NeverAbandoned`, `Resumes`, `TailNeverLoosens`, `Stopped` |
| `agent_loop` | news without end, 2 events at a time, 2 plans, 1 exit that fills meanwhile, 1 fault (186 k) | `PlanKept` = types, `Guarded`, `WithinPlan`; `ActsOnce` = `ScenarioOnce`, `StaleNeverTrades`; under fairness `KeepsWatching` |
| `services` | eight services, one at a time (2.09 M) | `TradesExact` = types, `CarriedExact`, `ReopenedAtTarget`; `CapsKept`; `SpendingSound` = types, `Conserved`, `WithinLimit`, `ProbeSettled`; `WorkSound` = types, `Agreed`, `Cleared`, `WithinTries`, `RetryEarned`; `NewsKept` = `HiddenIsKnown`, `TradedIsRemembered`, `LogRebuilds`; `MarketHonest` = `WholeWindow`, `LabelHonest`, `SameMarket`, `FreshPrices`, `PeakEarned`; `NothingRevived` = `MemoryStillValid`, `EpochsNeverFall`, `Sealed` |
| `stores` | journal, memory, promotion, prompts, one at a time and under their fairness (300 k) | `StoresSound` = types, `Recoverable`, `OneProof`, `Supported`, `OneActive`, `ArtifactKept`, `OneHistory`, `NeverUnheard`; `StoresServe` = `EventuallyCommitted`, `EventuallyExtracted`, `OutboxServed`, `EveryCandidateServed`, `EverySwitchHeard` |
| `feeds` | watcher, Redis consumers, model calls, proxy group, one at a time and under their fairness (293 k) | `FeedsSound` = `WrittenOnce`, `NotLost`, `HealthHonest`, `TradesDiscounted`, `JudgedOnce`, `GivesUpLast`, `PutBack`, types; `FeedsServe` = `EveryItemHeard`, `EverySettled`, `QueryReturns`, `FetchEnds` |
| `hedge_late_fill` | one settlement, late orders, 1 fault, fairness | **violation** of `ManagedToFlat` |
| `harness_settle_race` | 2 kernels on a running run | **violation** of `RestartReplays` |

Bounds. Two disruptions let a takeover meet a second failure (a crash during the
recovery of a crashed job, a lost answer after a lost lease); two attempts make
first and last distinct; `MaxClaims` is never reached. Two processes, kernels, hosts,
consumers or promoters are enough for one of them to be stale. Two settlements let a
cycle of one hour meet the snapshot of the next; sizes up to two make partial fills
possible. The hedge runs have one watcher, as the repository deploys it; the theorems say
which of their properties hold for any number. Two kernels may record two settlements before either is authorized,
so that two charges compete; the events of a run that is being created are cut at
`FirstEvents`, since the rest of its life is the setting `race`, where `resume`, which only changes what its own process
holds, is left to the other two. The risk session starts with
sizes up to seven lots, so that the stages of 30 % and 40 % are rounded, and meets at most
two faults. Each service, store and feed has two actors where the code has
several, one or two failures, and limits (buffer of 1, a list of 2 recent events, the 3 attempts of
production) that the run reaches. The memory store counts reassessments and restarts apart, so
that an artifact waits in the outbox when its worker dies. In `agent_loop` at most `MaxEvents` events wait at once; plans, exits,
faults and the events beside them are bounded together (`MaxInputs`), and where none of the others happen
the news never has to stop. Every bound is a constant of its module and is named in the cfg.

Fairness. Task queue: every thread of a running process keeps running and a
supervisor restarts a process that ended (weak); a submission that waits for
`_submission_lock` is eventually let in (strong), because the recovery loop
leaves the lock free for `recovery_poll_seconds` between two polls. Funding hedge: the
watch loop polls for ever, time passes, and the exchange deals with every order that
reaches it. Harness: a call under way continues; that the run is advanced again and again
is the hypothesis of `RunSettles`. Trading agent: `run_forever` takes its next step, a
judgement that was started ends because its requests have timeouts, a dead process is
started again; nothing is assumed of the news. Result commit: a pending job that nobody
executes is delivered again while it has attempts, and failed when it has none; a job that failed is not. Stores and feeds: every worker's loop takes its next step, an idle delivery
becomes claimable, a poll's requests end. No fairness is assumed of clients, of faults, or of
the market; faults are bounded and never forced. Deadlock is checked where the system is
meant to go on for ever; the runs of bounded inputs say `CHECK_DEADLOCK FALSE`.

## What the runs found

*`hedge_late_fill`.* `load_snapshots` reads the position before it looks up the orders. An
open whose reply was lost may fill between the two reads; the snapshot then says "flat"
and "filled", `_reconcile` (`state_machine.py:159`) declares RECOVERY_REQUIRED, which is
terminal, and the policy reports the position as `untracked_hedge_position`
(`policy.py:190`) in every later round. The command line promises that "an opened hedge is
managed to flat" (`__main__.py:74`).

*`harness_settle_race`.* The replay requires an authority to follow its settlement record
directly, but `_commit_run_transition` loads the stream between the two
(`workflow_harness.py:2268`) and appends on top of what it finds. An intent of another process
in between is accepted, and from then on no fresh kernel can replay the run. One process at a
time never does this (`TakenOver` in `harness`).

Met while modelling, with no run of their own (the first ones show up when a constant is changed):

* A crash between the two writes of an open (`state_machine.py:282`, `290`) leaves ARMED in the
  file; no branch of `_reconcile` deals with it, so the cycle stays active and no later settlement
  of that symbol is hedged (`CyclesEnd` with `MaxCrashes = 1`).
* Two watchers break `Tracked` and `CompletedIsFlat`, because the snapshot is taken before the lock.
  `WithinTarget`, `OneOpenPerSettlement`, `FinishedStays` and `OpensInTime` hold all the same.
* `advance` and `cancel` resume the backend with the present view, and `LangGraphExecutionBackend.resume`
  (`workflow_execution_backend.py:652-671`, `1133-1145`) refuses a longer view of the revision it holds
  unless an authority, owner or resolution was appended. After a checkpoint, an intent to cancel or a
  rejected candidate, and after a settlement whose call raised, every later call of that process raises
  (`Wedged`); another process, or this one restarted, goes on. `RunSettles` excepts it. A `cancel` in the
  process that created the run, as in `backend/api.py:461-463`, itself raises once its intent is recorded.
* A charge for checkpoint-free usage is validated on replay by a method that exists nowhere
  (`workflow_harness.py:2003`; `RestartReplays` with `Usages = {"free"}`).
* Risk session: a snapshot read before a TP1 fill arrives counts the fill twice and suspends the
  soft stop (`agent_execution_loop.py:1664-1722`); events drained by a pass that is throttled or reset
  are lost; a cancel that fails leaves an exit order behind; a reduction from elsewhere equal to a leg
  is taken for its fill; a crash between the entry and the first save restores nothing.
* Trading loop: news that comes faster than it is judged keeps the loop from its positions, since the
  queued batch starts the next prefetch (`agent_execution_loop.py:824-838`) and a pass with one in flight skips
  them (2210-2222; `KeepsWatching` excepts it); a fill beyond the stop leaves the position unguarded until the next plan; a reversal
  from a stale position overshoots (`exchange.py:2096`); a batch that queues behind a running judgement
  replaces the one that waited (`agent_execution_loop.py:715-735`); a stale event whose prefetch cannot
  start triggers a query of its own (2160-2176).
* Agent driver: an observer of usage that raises ends the call without telling the circuit. Web trade:
  a reopen skipped for want of a price is answered as complete; a dry run books the profit of a close
  that never happened; two rebalances at once double the position.
* Redis bus: an acknowledgement whose reply is lost stays unresolved (`redis_adapters.py:516-526`);
  a handler slower than the idle time is run twice. Prompt activation: a delivery marks the newest row,
  not the one it delivered; the replay ends its pass at a row whose manifest is missing.
* News memory: a line cut by a crash swallows the next one (`memory_state.py:229-278`, and in the log of
  relevant events `agent_passive_events.py:255-259`, `306-307`: the buffer then has an event that a restart
  does not find); the checkpoint hides events that arrive late (`agent_passive_events.py:413-438`). Trends: a
  failure while the catalogue is built removes a market place for the client's life (`trend_fetcher.py:704-772`);
  a frame with minutes without a trade may get fewer bars than asked for, and its oldest bar in part (1188-1191).
* Soft stop: when the exchange does not answer, `get_mids` hands out what it has, however old
  (`exchange.py:262-268`), and the poller stamps it as new (`agent_risk_session.py:98-110`), so a stop may be loosened by
  a price of any age (`FreshPrices` without its exception). Two threads call `get_mids` without a lock, and the
  older answer may be the one that stays.
* Result commit: an error that is not retryable, or a crash in the last attempt, fails the job
  (`task_queue.py:543-552`, `241-259`); a result the kernel has accepted then stays staged and is never committed.
  Memory: the worker `backend/container.py:421` builds has neither an artifact store nor adapters, so nothing in the deletion
  outbox is ever deleted (`OutboxServed` asks for a worker that can).
* Proxy failover: two fetches that probe can undo each other's choice (`proxy_failover.py:183-204`); a Truth Social
  fetch raises at its first node on errors no rotation is for (`truth_social_watcher.py:177`, `218`), and an MNI fetch whose
  poll time is over asks none of its candidates (`common.py:600-606`), although a node serves.
* Coordinated graph: a second recovery turn inside one node (`workflow_coordinator_agent.py:189`, `199`) raises the plan's
  revision by two, which no checkpoint expects; production's 8 attempts leave room for one turn only.

The properties are stated so that they hold beside these limits. Where the code can break what a property says, the comment
above it names the case, and the property excepts that case by a condition or by a ghost variable (`overtaken`,
`stray`, `gap`, `raced`, `harmed`, `unlogged`, `unheard`, `crossed`, `mood`, `losses`); what the bounds of a run leave out is
said in the list above or in the comment of the constant.

## The proofs

All theorems hold for every set of processes, jobs, watchers, kernels, candidates, nodes, sizes, records
and prices and for every bound; their assumptions are the ASSUMEs of the modules they are about, which
TLC evaluates in the runs, and the hypotheses they name.

### Task queue

`TaskQueueProofs!TypeCorrect`: `Spec => []TypeOK`. `TypeOK` contains that attempt numbers stay
within `MaxAttempts`, which is not inductive: `RetryOK` (a worker on its way to a retry has
attempts left) and `HolderOK` (a thread past the claim works on a real job, and a job to be
scheduled is admitted) are added. One lemma per group of actions, one per helper.

Its second half has the fencing argument. The strengthening `SafeInv` says which tokens exist
(none above the last one drawn; the row's token is either none or the last one), that the
execution which holds the row's token is *in step* with the row (its attempt number is the row's, or
the next one before the start is written), and that an exhausted claim has no attempts left. Two
executions may run at once; only one can hold the token, and only that one can write.

* `Fencing`: `AttemptsBounded`, `ResultIsLatest` and `ExhaustedIsSpent`; `Accounting`: the run's
  `AttemptsAccounted`.
* `Finality`: `Spec => TerminalIsFinal`. Lemma `NextRowStep` reduces every action of the queue to at
  most one transaction on one row, made by an execution in step with it (`RowStep`); no transaction
  applies to a decided row.

From these follow the promises to the users of the queue.

* `TokensOwned`: `Spec => []OneOwner`. `SafeInv` separates active executions; what is added is
  `ReturnedOK`: a token in `returning`, whose lease `_task_done` is still to release, was drawn and is no
  active execution's. Every step lets tokens only be drawn (`DrawnGrows`), gives an execution its old
  token or a new one (`TokensFresh`), and starts to return only what ends (`ReturnsEnded`).
* `Implements`: the safety part of the refinement, `Contract!ContractInit /\ [][Contract!ContractNext]`
  under the mapping of `TaskQueue`. Each disjunct of `RowStep` is a step of the contract
  (`CreateAccepts`, `RunningBegins`, `MarkDecides`) or invisible to it (`UnseenRows`). That a success
  carries the attempt begun last is where the fencing invariant is needed.
* `KeysIdempotent`: `Spec => []OneJobPerKey`, for any number of calls with any keys. `KeysOK` says that
  the table has one row for a key, that a call which got a job got the row of its key and payload, and
  that the job a submission has in hand is in the table. The run's `KeyedOnce` is the same in two settings.
* `PermitsAddUp`: `Spec => []CapacityConserved`, for any number of jobs; the run's `PermitsConserved` is the
  same in its settings. `CapacityInv` has the count itself over finite sets (`SlotsOK`: the permits that are out
  belong to the lock's holder, to reservations, to jobs handed to a thread and to tokens that wait for
  release) and who is inside `_submission_lock` (`LockInv`: a call inside and the lock name each other, and a
  process that is down holds nothing), so that each step moves one permit from one set to the next.
  `ReturnedOK` says that the token of an execution that ends is new among those that wait.

### Funding hedge

`HedgeCycleProofs!HedgeTypes`: `Spec => []TypeOK`. Added: a snapshot is never from the future
(`ClockOK`), and the intent of a watcher under the lock fits the step it is at (`ActOK`).

`NeverTwice`: `Spec => []OneOpenPerSettlement`. `OpenInv` says that cycles are dated no
later than the clock, that one watcher at a time is under the lock, that the stored cycle of a watcher
about to send an open is its own, that once an open of settlement h was sent the stored cycle is dated h
or later, and that an open still on its way has not been counted. Only one open can then be sent for
h: `MayOpen` refuses a settlement the stored cycle already names, and cycles never go back in time.

The next theorems show what is at risk, for any number of watchers, with late orders or without. A watcher decides on a
snapshot that may be old, taken before the lock. What saves it is the clock: a plan to open is made only
in the hour of its snapshot, and in one hour only an open of that hour's settlement can add to the
account, whose cycle is stored by then and forbids the plan. `ExposureInv` has this as `SeenFlat` (an
account seen flat this hour is flat, or this hour's cycle is stored), with `HandFits` (the holder of the
lock opens on a flat account and has stored what it sends) and `OpensFit` (an open that can still
fill is the stored cycle's and finds the account flat).

* `NeverOverHedged`: `Spec => []WithinTarget`; `FinishedForGood`: `Spec => FinishedStays`;
  `NeverLate`: `Spec => OpensInTime`.

What is forgotten is a question for one watcher: with two, a snapshot older than the other's open ends a
cycle whose hedge is live. Under the hypothesis `OneWatcher` the argument is about the order of its own reads.
`FlatInv` says that an account read flat past the opening is flat still (`SnapFlat`), since only the watcher
itself could open again. `TrackInv` adds that nothing is on its way between the read and the stored intent
and what was read of the account and the cycle still holds (`ReadTrue`), that orders are known by the identity
their cycle gives them (`KeysFit`), that an adjustment that filled has made the position smaller
(`AdjustTrue`), and that an open which can still fill is an active cycle's (`OpensTracked`). It is kept
until a round reads the account while an order is on its way: what that leads to is exactly what `hedge_late_fill`
shows. The history variable `overtaken` of `MCHedge` remembers such a reading, in `HistorySpec`, whose other
variables behave as in `Spec`; orders may land as late as they like before and after it.

* `CompletedForGood`: one watcher, `Spec => []CompletedIsFlat`; `NeverUntracked`: one watcher,
  `HistorySpec => [](~overtaken => Tracked)`; `NothingForgotten`: both, the run's `NeverForgotten`.

### Harness kernel

`HarnessProofs` is about a run that any number of kernels drive at once, with crashes and failures of the
issuer wherever they happen and with either backend. Neither the store nor the fold looks at the edge a
transition takes: `append` compares counters, and the fold refuses only a second authority for a
revision. That the history is legal all the same rests on `RunInv`, which has two halves.

* `StreamInv`, about the stream: `Numbered` (the transitions number the revisions and no event is ahead of
  them), `Staged` (each state a kernel leads a run through has its revisions: running is 5, so a run is left
  from there once), `Granted` (every transition but the first was authorized before it), `Earned` (every
  authority follows from a transition along an edge, as the policy or a cancellation leads), `OneGrant` (one
  for a revision) and `OneEach` (one for a candidate).
* `KernelInv`, about the calls under way: `DecisionOK` promises that a decision in hand is `Sound` (it
  follows from the transition at its revision, and no earlier revision answered its candidate) and, once
  allowed, that its authority is in the stream; `CancelOK` ties a cancellation to its payload and to the
  cancelled run.

A kernel may be overtaken between any two of its steps, so these promises must survive the steps of
the others. `SoundStays` shows that they do: the stream only grows, and an authority that another kernel adds
is for the current revision, because every revision that was left has its own already (`LeftByGrant`)
and a second one conflicts. One lemma per action shows that it is a step of the kind `Done`, which says all it does to
the stream (`Writes`), to its call (`Turns`), to the other calls (`Others`) and to the backends (`Halts`); the
invariant is preserved by every such step. TLC checked `RunInv` as an invariant of the three settings
of the run `harness`, and with two kernels that race for a candidate, before it was proved.

The theorems have one hypothesis, `Inherited(Prior)`: what the store holds at first satisfies
`StreamInv` and continues after no stop. The lemma `Inheritance` shows that the empty store does, and that every stream
the kernels leave behind does again, so that the theorems also hold for a run that new processes take over.

* `Invariant`: `[]RunInv`; `WellFormed`: `[]StreamWellFormed`; `PaidOnce`: `[]PaidAndAuthorized`;
  `StopsStay`: `[]StopIsFinal`.
* `OneAnswerEach`: `[]AnsweredOnce`, the part of `TakenOver` that holds for any number of kernels.

### Trading loop

`AgentLoopProofs`: `ActsOnceTheorem`, `LoopSpec => []ActsOnce`, and `PlanKeptTheorem`,
`LoopSpec => []PlanKept`, for every set of sizes and targets (`SizesAssumption`), every number of events
(`EventsAssumption`) and every split of the exits. `LoopInv` is `EventsInv`, about the batches of news
and the judgement that is running (no verdict of a stale event is kept for a query), and `AgentInv`,
about the pass of `run_forever`: a decision suits the position it was made for (`Suits`), the position can have
moved towards zero since, by the exits that filled (`Drift`), and a plan that waits for its scenario neither closes
nor answers an opposite event (`Waitable`). The drift is why `WithinPlan` and `Guarded` hold with a stale
position, and the mark that is set before the order is sent why a scenario acts once although the order
raised.

### Workflow budget

`BudgetLedger!WithinCaps`: `LedgerSpec => []CapsKept`, with `Amounts` (the sums are made of numbers, and
an open reservation belongs to a node that has a budget). `ChargedOnce`: `LedgerSpec => []OneReceipt`,
with `Numbered` (identities are drawn in order): a late answer and its timeout never both charge a call.
`OneReceipt` is a conjunct of `Conserved`, which the run `services` checks.

### Services

`ServicesProofs` is about the components of the run `services`, which share no state: each has an inductive
invariant, and every step of the run is a step of one of them or leaves it alone (`ServicesStep`).

* `NothingComesBack`: `ServicesSpec => NothingRevived`. `WorkInv`: nobody has written under more than the epoch
  of the store's row, and a transition is committed only under the lease in the row. `DriverInv`: an invocation that
  has used a memory and not ended found it valid, and checks it again before it answers.
* `CallsSettled`: the driver's part of `SpendingSound`. `DriverInv` follows a call through its retries and
  downgrades: it reserves within the limit before it invokes, and a circuit that waits has a call that probes.
* `ShownExactly`: `[]TradesExact`. `WebInv` says what the ledger carries and what the rebalance under way
  has still to record, together what was booked (`Carrying`), and where the position is at every step towards the
  target (`Reopening`). A poll that saves in the middle of a rebalance, or is overwritten by it, loses one of
  the two; the ghost `raced` marks it, and the property excepts it.
* `WorkCleared`: `Cleared` and `RetryEarned` of `WorkSound`. `GraphInv` says which checkpoints, reports and
  permit a run has behind it at every node; `RetryInv` that the attempts of the item are known.
* `MarketsKept`: `SameMarket`, `FreshPrices` and `PeakEarned` of `MarketHonest`. `TrendInv`: what was
  resolved was resolved in the catalogue the client has. `PollerInv` and `PassOK`: the reader's cache, the answer, the
  poller's cache and the session, in memory and on disk, hold prices that were quoted for their market, each no older
  than what it was taken from allows; and unless two answers crossed, none of them was quoted before the reference.

### Stores

`StoresProofs!StoresKept`: `StoresSpec => []StoresSound`, all of the run's invariant.

* `CommitInv` (result journal): an execution carries the result that was staged or none (`ArmedOK`), the
  kernel accepted only what was staged (`KernelOK`), the proof bound in the journal never changes
  (`JournalOK`), and every record in memory is of that proof (`RecordsOK`).
* `MemoryOK`: `LifeOK` is the support of the stored records and the one active rule. A plan may be old when it is
  applied; nothing referenced moves because each move is judged again in its own transaction. `QueueOK`: a task
  is in the outbox once, or fresh, or finished; `WorkersOK`: a worker's list holds only such tasks; `GoneOK`: none
  of them is the artifact of a stored event, and only what was queued is removed.
* Promotion: its type invariant, which is inductive.
* `PromptOK`: a switch that has read the present revision has read the release it leaves, so the rows are one
  history (`HistoryOK`, `OpsOK`); a replay delivers rows that exist (`ReplaysOK`), and what is marked delivered
  over a shared store was heard (`HeardOK`).

### Feeds

`FeedsProofs!FeedsKept`: `FeedsSpec => []FeedsSound`, all of the run's invariant. A behaviour runs one component,
so each invariant is kept by that component's steps alone.

* `BusInv` (Redis): what the group was delivered is pending until it is acknowledged (`StreamOK`), and a consumer
  about to acknowledge has handled the message in hand or put it aside; one that is not degraded has nothing
  unresolved (`ConsumerOK`). From `BusAssumption`: the stream is finite, a poll asks for at least one message.
* `WatchInv` (watcher): no item has two readable lines, a running writer knows every item that can be read, and a
  long line that is half written is the last one and of an item not yet known.
* `CallsInv` (model calls): `CostOK` bounds what was spent by the attempts of the samples and of the calls in
  hand, a prefetch that came to nothing included; `TradeOK` says that what is priced, or waits to be reused, is
  backed by a sample whose discounted confidence reaches the threshold (`Backed`). From `CallsAssumption`.
* `ProxyInv` (proxy group): what an undisturbed fetch has not tried is known from where it stands (`TriedOK`): the
  nodes ahead of the one selected, as many as rotations are left of a full turn (`Ahead`), or the candidates an MNI
  fetch has left; `BackOK` follows the place an MNI fetch found, `StandsOK` the counts of attempts and rotations.
  The ghost `mood` says whether a fetch has met only failures that rotate, another one, or a controller that failed.
  `FullTurn` and `OneOn` are the arithmetic of the ring. From `FailoverAssumption`: a group is not empty and names
  a node once. With a repeated name the order `_ordered_failover_candidates` walks turns back at its first
  place, and the nodes behind the second are not reached.

### What stays with TLC

* Everything under fairness, which the prover cannot do: `ImplementsContract` (its liveness),
  `EveryCallAnswered`, `ShutdownEnds`, `CyclesEnd`, `ManagedToFlat`, `RunReachesEnd`, `WatchedToFlat`,
  `KeepsWatching`, `StoresServe`, `FeedsServe`.
* `Conserved` and `LedgerTypeOK` of the budget sum over sets with a fold, `HiddenIsKnown`,
  `TradedIsRemembered` and `LogRebuilds` of the news memory fold a log, `WholeWindow` and `LabelHonest` of the
  trends pages of bars, `Agreed` and `WithinTries` of the work items and of the graph a stream of events:
  induction over data, which the installed provers cannot do.
* `Tracked` after the account was read with an order on its way, and `NeverForgotten` with several watchers, are
  false, as said above.
* `RestartReplays`, the other part of `TakenOver`: two kernels break it (`harness_settle_race`), so it is
  checked where it holds, for one kernel at a time.
* `ExitsMatch` and `StagesHonest` of the risk session. Its steps chain rules that take operators as parameters
  (`ReduceBy`, `WithdrawThen`, `Then`), about which no lemma can be stated once and used for each rule, and
  `StageEarned` rests on rounding of rational sizes.

## Plan

1. Proofs: `RestartReplays` of the Harness for one kernel; the stages of the risk session.
2. The Redis stream shown to implement the mail of `TaskQueue`; several symbols of the hedge.

## Not modelled

Text, prompts, model output, embeddings and ranking (data without control); indicator and
margin arithmetic; HTTP parsing; metrics and tracing; the frontend; offline evaluation tools; the loop
guard. The agent's path of resting entry orders and the rebuild of a session from foreign reduce-only
orders (`agent_materialization.py:1210-1441`, `1910-2271`) are never reached. `shutdown(wait=False)` is
not modelled: the application always waits. Vendored data was read, not modelled.
