----------------------------- MODULE HarnessKernel -----------------------------
(***************************************************************************)
(* The Harness kernels that drive one run, each in a process of its own    *)
(* (an API replica, a worker), over the shared event store.                *)
(*                                                                         *)
(* In a process the calls on a run are serialised by a lock, so a kernel   *)
(* has at most one call under way.  Between processes there is only the    *)
(* store's optimistic check: a call loads the stream, decides, and appends *)
(* two or three events one transaction at a time, and another kernel may   *)
(* append between any two of them.  Every load and every append is a step  *)
(* here.  What a call knows is the number of events it loaded last: the    *)
(* stream only grows, so that prefix is the view it decides on.            *)
(***************************************************************************)
EXTENDS HarnessSession

CONSTANTS
    Kernels,        \* the processes
    Prior,          \* the stream earlier processes left in the store
    Candidates,     \* completion candidates a caller may submit
    NoCandidate,    \* a call without a candidate
    Malformed,      \* a candidate the strict schema refuses
    Usages,         \* the kinds of usage evidence callers supply
    StrictBackend,  \* the host runs LangGraphExecutionBackend
    MaxSettlements, \* settlements in a stream that gets another one
    MaxCheckpoints, \* checkpoints recorded in the run
    MaxRejects,     \* refused candidates recorded in the run
    MaxFaults       \* process crashes and issuer failures

ASSUME StrictBackendAssumption == StrictBackend \in BOOLEAN
ASSUME UsagesAssumption == Usages \subseteq {"synthetic", "bound", "free"}
ASSUME BoundsAssumption == /\ MaxSettlements \in Nat
                           /\ MaxCheckpoints \in Nat
                           /\ MaxRejects \in Nat
                           /\ MaxFaults \in Nat
ASSUME CandidateAssumption == NoCandidate # Malformed /\ {NoCandidate, Malformed} \cap Candidates = {}

VARIABLES
    events,     \* the run's committed stream
    pc,         \* where the call of a kernel is, "idle" between calls
    call,       \* its arguments
    at,         \* the number of events it loaded last
    retried,    \* it already lost the optimistic race once
    decision,   \* the transition it is committing and the revision it left from
    backend,    \* the events its LangGraphExecutionBackend has projected, 0: none
    stopped,    \* kernels whose backend cancelled the run
    ledger,     \* kernels that hold a budget ledger for the run
    faults

local == <<pc, call, at, retried, decision>>
vars == <<events, local, backend, stopped, ledger, faults>>

NoCall == [op |-> "none"]
NoDecision == [expected |-> 0, body |-> Payload("none", "none", NoCandidate, "none", 0)]

\* A caller that names no revision.
AnyRevision == -1

Calls ==
    [op : {"advance"}, cand : Candidates \cup {NoCandidate, Malformed}, expect : Int]
    \cup [op : {"checkpoint"}, permit : {"continue", "degrade"}]
    \cup [op : {"none", "create", "cancel"}]

\* The view a kernel's call is working from.
View(k) == SubSeq(events, 1, at[k])

-----------------------------------------------------------------------------
(* How a call goes on.                                                     *)

Goto(k, where) == pc' = [pc EXCEPT ![k] = where]

\* The call returns or raises; either way the kernel is free again.
Return(k) ==
    /\ Goto(k, "idle")
    /\ call' = [call EXCEPT ![k] = NoCall]
    /\ at' = [at EXCEPT ![k] = 0]
    /\ retried' = [retried EXCEPT ![k] = FALSE]
    /\ decision' = [decision EXCEPT ![k] = NoDecision]

\* _serialized_run: on OptimisticConcurrencyError the cached ledger is dropped
\* and the whole method runs once more, from a fresh load.
Retry(k) ==
    /\ ledger' = ledger \ {k}
    /\ \/ /\ ~ retried[k]
          /\ Goto(k, "loaded")
          /\ at' = [at EXCEPT ![k] = Len(events)]
          /\ retried' = [retried EXCEPT ![k] = TRUE]
          /\ decision' = [decision EXCEPT ![k] = NoDecision]
          /\ UNCHANGED call
       \/ retried[k] /\ Return(k)

\* An append that lost the race, and one the store takes.
LosesRace(k, e) ==
    /\ Raced(events, at[k], e)
    /\ Retry(k)
    /\ UNCHANGED <<events, backend, stopped, faults>>

Appends(k, e) ==
    /\ ~ Raced(events, at[k], e)
    /\ ~ Conflicts(events, e)
    /\ events' = Append(events, e)

\* _ensure_runtime_dependencies: a kernel without a ledger for the run replays
\* the stream's charges first, and raises when one of them does not hold.
Ready(k) == k \in ledger \/ Replays(events)

\* _issued_snapshot: the host signs the stream as it is now, and the kernel
\* raises unless that is the view it holds.
Issued(k) == Len(events) = at[k]

\* resume of the execution backend.  At an unchanged revision it accepts only
\* the view it has or one with a further authority: all other events but
\* transitions leave the compared fields of the view as they were.
Accepts(k, n) ==
    StrictBackend =>
        /\ k \notin stopped
        /\ (backend[k] \notin {0, n}) =>
               /\ n > backend[k]
               /\ (events[n].rev = events[backend[k]].rev) =>
                      \E i \in Authorities(events) : backend[k] < i /\ i <= n

\* The backend now holds the first n events.  One a test injects holds nothing.
Holds(k, n) == backend' = IF StrictBackend THEN [backend EXCEPT ![k] = n] ELSE backend

\* A call that reaches the backend: dependencies, signed snapshot, resume.
Enters(k) ==
    /\ Ready(k) /\ Issued(k) /\ Accepts(k, at[k])
    /\ ledger' = ledger \cup {k}
    /\ Holds(k, at[k])

\* ... and one of the three raises.
CannotEnter(k) ==
    /\ ~ (Ready(k) /\ Issued(k) /\ Accepts(k, at[k]))
    /\ ledger' = IF Ready(k) THEN ledger \cup {k} ELSE ledger
    /\ Return(k)
    /\ UNCHANGED <<events, backend, stopped, faults>>

-----------------------------------------------------------------------------
(* create.                                                                 *)

\* The stream is empty, the plan is compiled, a registration is prepared.
Create(k) ==
    /\ pc[k] = "idle" /\ events = <<>>
    /\ Goto(k, "creating")
    /\ call' = [call EXCEPT ![k] = [op |-> "create"]]
    /\ ledger' = ledger \cup {k}
    /\ UNCHANGED <<events, at, retried, decision, backend, stopped, faults>>

\* The run is published in one append.  Losing that race raises: create is
\* not retried.
Publish(k) ==
    /\ pc[k] = "creating"
    /\ \/ /\ events = <<>>
          /\ events' = <<TransitionEvent(0, Payload("created", "none", NoCandidate, "none", 0))>>
          /\ Goto(k, "published")
          /\ at' = [at EXCEPT ![k] = 1]
          /\ UNCHANGED <<call, retried, decision>>
       \/ events # <<>> /\ Return(k) /\ UNCHANGED events
    /\ UNCHANGED <<backend, stopped, ledger, faults>>

\* commit_registration with a signed snapshot of the stream.  An event of
\* another kernel between the kernel's read and the signature, or a handle
\* some resume already made, rolls the registration back; the run stays.
Register(k) ==
    /\ pc[k] = "published"
    /\ \/ /\ StrictBackend => backend[k] = 0
          /\ Holds(k, Len(events))
       \/ /\ Len(events) # at[k] \/ (StrictBackend /\ backend[k] # 0)
          /\ UNCHANGED backend
    /\ Return(k)
    /\ UNCHANGED <<events, stopped, ledger, faults>>

\* resume takes no lock: another thread of the process may call it at any time.
\* With the ledger in place and a backend that holds nothing it changes nothing.
Resume(k) ==
    /\ events # <<>>
    /\ k \notin ledger \/ StrictBackend
    /\ Ready(k)
    /\ ledger' = ledger \cup {k}
    /\ \/ Accepts(k, Len(events)) /\ Holds(k, Len(events))
       \/ ~ Accepts(k, Len(events)) /\ UNCHANGED backend
    /\ UNCHANGED <<events, local, stopped, faults>>

-----------------------------------------------------------------------------
(* A call that takes the run's lock starts by loading the stream.          *)

Start(k, c) ==
    /\ pc[k] = "idle" /\ events # <<>>
    /\ Goto(k, "loaded")
    /\ call' = [call EXCEPT ![k] = c]
    /\ at' = [at EXCEPT ![k] = Len(events)]
    /\ UNCHANGED <<events, retried, decision, backend, stopped, ledger, faults>>

\* The caller names the revision it has just read, or none.
Advance(k) ==
    \E cand \in Candidates \cup {NoCandidate, Malformed},
       expect \in {AnyRevision, StateRevision(events)} :
        /\ Start(k, [op |-> "advance", cand |-> cand, expect |-> expect])
        /\ cand = Malformed => Cardinality(Of(events, "candidate_rejected")) < MaxRejects

Cancel(k) == Start(k, [op |-> "cancel"])

\* Anywhere but in a running run the call raises at once.
Checkpoint(k) ==
    \E permit \in {"continue", "degrade"} :
        /\ Start(k, [op |-> "checkpoint", permit |-> permit])
        /\ RunState(events) = "running"
        /\ Cardinality(Checkpoints(events)) < MaxCheckpoints

Loaded(k, op) == pc[k] = "loaded" /\ call[k].op = op

-----------------------------------------------------------------------------
(* record_checkpoint: one append.                                          *)

\* The last permit let execution go on, and the stream's charges replay.
MayCheckpoint(k) ==
    /\ RunState(View(k)) = "running"
    /\ \A i \in Checkpoints(View(k)) : events[i].permit = "continue"
    /\ Ready(k) /\ Replays(View(k))

\* A recorded cancellation overrides what the budget allows.
RecordCheckpoint(k) ==
    LET permit == IF Cancelling(View(k)) THEN "stop" ELSE call[k].permit
        e == CheckpointEvent(StateRevision(View(k)), permit)
    IN  /\ Loaded(k, "checkpoint") /\ MayCheckpoint(k)
        /\ \/ LosesRace(k, e)
           \/ /\ Appends(k, e)
              /\ ledger' = ledger \cup {k}
              /\ Return(k)
              /\ UNCHANGED <<backend, stopped, faults>>

RefuseCheckpoint(k) ==
    /\ Loaded(k, "checkpoint") /\ ~ MayCheckpoint(k)
    /\ Return(k)
    /\ UNCHANGED <<events, backend, stopped, ledger, faults>>

-----------------------------------------------------------------------------
(* advance: the branches, in the order the code tries them.                *)

\* A decision an earlier call authorized and did not apply is applied before
\* anything else is looked at.
CompletePending(k) ==
    /\ Loaded(k, "advance")
    /\ \E i \in Pending(View(k)) :
        \/ /\ Enters(k)
           /\ decision' = [decision EXCEPT ![k] = [expected |-> events[i].expected,
                                                   body |-> events[i].body]]
           /\ Goto(k, "authorized")
           /\ UNCHANGED <<events, call, at, retried, stopped, faults>>
        \/ CannotEnter(k)

NothingPending(k) == Loaded(k, "advance") /\ Pending(View(k)) = {}

Current(k) == call[k].expect \in {AnyRevision, StateRevision(View(k))}

StaleCaller(k) ==
    /\ NothingPending(k) /\ ~ Current(k)
    /\ Return(k)
    /\ UNCHANGED <<events, backend, stopped, ledger, faults>>

RejectCandidate(k) ==
    /\ NothingPending(k) /\ Current(k) /\ call[k].cand = Malformed
    /\ LET e == RejectEvent(StateRevision(View(k)))
       IN  \/ LosesRace(k, e)
           \/ /\ Appends(k, e)
              /\ Return(k)
              /\ UNCHANGED <<backend, stopped, ledger, faults>>

Replayed(k) == call[k].cand \in Candidates /\ Answers(View(k), call[k].cand) # {}

\* The decision taken on this candidate before is returned again.
ReplayCandidate(k) ==
    /\ NothingPending(k) /\ Current(k) /\ Replayed(k)
    /\ \/ Enters(k) /\ Return(k) /\ UNCHANGED <<events, stopped, faults>>
       \/ CannotEnter(k)

New(k) == NothingPending(k) /\ Current(k) /\ call[k].cand # Malformed /\ ~ Replayed(k)

AlreadyTerminal(k) ==
    /\ New(k) /\ RunState(View(k)) \in Terminal
    /\ Return(k)
    /\ UNCHANGED <<events, backend, stopped, ledger, faults>>

INITIAL_TARGETS == [created |-> "admitted", admitted |-> "planned",
                    planned |-> "ready", ready |-> "running"]

\* Mutant: any usage is settled, not only the usage of the latest checkpoint.
Settlements_Any(k) ==
    {<<"bound", n>> : n \in 0 .. Cardinality(Checkpoints(View(k)))}

\* How the budget may be settled when a running run is decided.  Usage that is
\* bound to checkpoints must be the usage of the latest one; a caller that
\* observed nothing settles a synthetic reservation of its own.
Settlements(k) ==
    {s \in {<<"bound", Cardinality(Checkpoints(View(k)))>>, <<"free", 0>>,
            <<"synthetic", at[k]>>} :
        /\ s[1] \in Usages
        /\ s[1] = "bound" => Checkpoints(View(k)) # {}
        /\ Cardinality(Of(View(k), "budget_settlement_recorded")) < MaxSettlements}

\* _policy_decision.  An exhausted budget and missing usage evidence degrade
\* the run without settling anything; the loop guard and the confidence gate
\* decide once the budget is settled.
Policy(k) ==
    LET state == RunState(View(k))
        cand == call[k].cand
        ToSummary == Payload("summarizing", "degradation", cand, "none", 0)
    IN  CASE state \in DOMAIN INITIAL_TARGETS ->
                {Payload(INITIAL_TARGETS[state], "none", cand, "none", 0)}
          [] state = "degrading" -> {ToSummary}
          [] state = "summarizing" ->
                {Payload(IF SummarySource(View(k)) = "confidence_success"
                         THEN "succeeded" ELSE "degraded", "none", cand, "none", 0)}
          [] state = "running" ->
                {Payload("degrading", "none", cand, "none", 0)}
                \cup UNION {{Payload("degrading", "none", cand, s[1], s[2]),
                             Payload("summarizing", "confidence_success", cand, s[1], s[2])} :
                            s \in Settlements(k)}

\* The state machine validates the decision against the view it was taken on.
Decide(k) ==
    /\ New(k) /\ RunState(View(k)) \notin Terminal
    /\ \/ \E d \in Policy(k) :
            /\ <<RunState(View(k)), d.to>> \in RUN_EDGES
            /\ Enters(k)
            /\ decision' = [decision EXCEPT ![k] = [expected |-> StateRevision(View(k)),
                                                    body |-> d]]
            /\ Goto(k, IF d.settled = "none" THEN "authorizing" ELSE "settling")
            /\ UNCHANGED <<events, call, at, retried, stopped, faults>>
       \/ CannotEnter(k)

\* Usage that is not the usage of the latest checkpoint: the policy raises.
RefuseUsage(k) ==
    /\ New(k) /\ RunState(View(k)) = "running" /\ "bound" \in Usages
    /\ Enters(k)
    /\ Return(k)
    /\ UNCHANGED <<events, stopped, faults>>

-----------------------------------------------------------------------------
(* cancel.                                                                 *)

\* Mutant: the backend is stopped with the intent, before the run is cancelled.
RequestCancellation_Stops(k) ==
    LET e == IntentEvent(StateRevision(View(k)))
    IN  /\ Loaded(k, "cancel") /\ ~ Cancelling(View(k))
        /\ Appends(k, e)
        /\ Goto(k, "intended")
        /\ stopped' = stopped \cup {k}
        /\ UNCHANGED <<call, at, retried, decision, backend, ledger, faults>>

\* The intent is recorded once, in whatever state the run is.
RequestCancellation(k) ==
    /\ Loaded(k, "cancel") /\ ~ Cancelling(View(k))
    /\ LET e == IntentEvent(StateRevision(View(k)))
       IN  \/ LosesRace(k, e)
           \/ /\ Appends(k, e)
              /\ Goto(k, "intended")
              /\ UNCHANGED <<call, at, retried, decision, backend, stopped, ledger, faults>>

Requested(k) == pc[k] = "recorded" \/ (Loaded(k, "cancel") /\ Cancelling(View(k)))

\* A run that ended otherwise keeps its outcome; a run this kernel has already
\* cancelled in its backend needs nothing more.
CancelTooLate(k) ==
    /\ Requested(k)
    /\ \/ RunState(View(k)) \in Terminal \ {"cancelled"}
       \/ RunState(View(k)) = "cancelled" /\ k \in stopped
    /\ Return(k)
    /\ UNCHANGED <<events, backend, stopped, ledger, faults>>

\* The run is cancelled, but not yet in this kernel's backend.
CancelBackend(k) ==
    /\ Requested(k) /\ RunState(View(k)) = "cancelled" /\ k \notin stopped
    /\ \/ /\ Enters(k)
          /\ stopped' = stopped \cup {k}
          /\ Return(k)
          /\ UNCHANGED <<events, faults>>
       \/ CannotEnter(k)

CancelPayload == Payload("cancelled", "none", NoCandidate, "none", 0)

\* A cancellation authorized before is taken up again; any other pending
\* decision makes the projected view invalid, and the call raises.
CancelRun(k) ==
    /\ Requested(k) /\ RunState(View(k)) \notin Terminal
    /\ \/ /\ Enters(k)
          /\ \/ /\ \A i \in Pending(View(k)) : events[i].body = CancelPayload
                /\ decision' = [decision EXCEPT ![k] = [expected |-> StateRevision(View(k)),
                                                        body |-> CancelPayload]]
                /\ Goto(k, IF Pending(View(k)) = {} THEN "authorizing" ELSE "authorized")
                /\ UNCHANGED <<call, at, retried>>
             \/ /\ \E i \in Pending(View(k)) : events[i].body # CancelPayload
                /\ Return(k)
          /\ UNCHANGED <<events, stopped, faults>>
       \/ CannotEnter(k)

-----------------------------------------------------------------------------
(* _commit_run_transition: settlement, authority, transition, projection.  *)

Settle(k) ==
    /\ pc[k] = "settling"
    /\ LET e == SettlementEvent(StateRevision(View(k)), decision[k].body)
       IN  \/ LosesRace(k, e)
           \/ /\ Appends(k, e)
              /\ Goto(k, "settled")
              /\ UNCHANGED <<call, at, retried, decision, backend, stopped, ledger, faults>>

\* After each of its appends a call loads the stream again, with whatever
\* other kernels have appended meanwhile.
After == [intended |-> "recorded", settled |-> "authorizing", allowed |-> "authorized"]

Reload(k) ==
    /\ pc[k] \in DOMAIN After
    /\ Goto(k, After[pc[k]])
    /\ at' = [at EXCEPT ![k] = Len(events)]
    /\ UNCHANGED <<events, call, retried, decision, backend, stopped, ledger, faults>>

\* The authority is bound to the revision of the decision.  With a settlement
\* the host signs the reloaded stream first, and raises if it has grown again.
Authorize(k) ==
    /\ pc[k] = "authorizing"
    /\ LET e == AuthorityEvent(StateRevision(View(k)), decision[k].expected, decision[k].body)
       IN  \/ LosesRace(k, e)
           \/ /\ Appends(k, e)
              /\ Goto(k, "allowed")
              /\ UNCHANGED <<call, at, retried, decision, backend, stopped, ledger, faults>>
           \/ /\ \/ ~ Issued(k) /\ decision[k].body.settled # "none"
                 \/ Issued(k) /\ Conflicts(events, e)
              /\ Return(k)
              /\ UNCHANGED <<events, backend, stopped, ledger, faults>>

\* The host signs the view, the backend resumes from it, and the transition is
\* appended.  The stream may grow before the signature (the call raises) or
\* after it (the append loses the race).
CommitTransition(k) ==
    /\ pc[k] = "authorized"
    /\ LET e == TransitionEvent(decision[k].expected, decision[k].body)
       IN  \/ /\ Accepts(k, at[k])
              /\ Holds(k, at[k])
              /\ \/ Raced(events, at[k], e) /\ Retry(k) /\ UNCHANGED events
                 \/ /\ Appends(k, e)
                    /\ Goto(k, "committed")
                    /\ UNCHANGED <<call, at, retried, decision, ledger>>
              /\ UNCHANGED <<stopped, faults>>
           \/ /\ ~ (Issued(k) /\ Accepts(k, at[k]))
              /\ Return(k)
              /\ UNCHANGED <<events, backend, stopped, ledger, faults>>

\* The backend projects the transition if nothing came between and it still
\* stands where the call left it; only then does cancel stop it as well.
Project(k) ==
    /\ pc[k] = "committed"
    /\ LET exact == Len(events) = at[k] + 1
           there == StrictBackend => (backend[k] = at[k] /\ k \notin stopped)
       IN  \/ /\ there /\ (StrictBackend => exact)
              /\ Holds(k, Len(events))
              /\ stopped' = IF call[k].op = "cancel" THEN stopped \cup {k} ELSE stopped
           \/ ~ (exact /\ there) /\ UNCHANGED <<backend, stopped>>
    /\ Return(k)
    /\ UNCHANGED <<events, ledger, faults>>

-----------------------------------------------------------------------------
(* Faults.                                                                 *)

\* The process dies: its call and everything the kernel holds in memory go.
Crash(k) ==
    /\ faults < MaxFaults
    /\ Return(k)
    /\ backend' = [backend EXCEPT ![k] = 0]
    /\ stopped' = stopped \ {k}
    /\ ledger' = ledger \ {k}
    /\ faults' = faults + 1
    /\ UNCHANGED events

\* The points of a call where the host signs the stream.
Signs(k) ==
    \/ pc[k] \in {"published", "authorized", "committed"}
    \/ pc[k] = "authorizing" /\ decision[k].body.settled # "none"
    \/ Requested(k) /\ RunState(View(k)) \notin Terminal \ {"cancelled"}
    \/ Loaded(k, "advance") /\ Pending(View(k)) # {}
    \/ NothingPending(k) /\ Current(k) /\ Replayed(k)
    \/ New(k) /\ RunState(View(k)) \notin Terminal

\* The host's receipt issuer fails: the call raises where it was.
IssuerFails(k) ==
    /\ faults < MaxFaults
    /\ Signs(k)
    /\ Return(k)
    /\ ledger' = IF Ready(k) THEN ledger \cup {k} ELSE ledger
    /\ faults' = faults + 1
    /\ UNCHANGED <<events, backend, stopped>>

-----------------------------------------------------------------------------
Init ==
    /\ events = Prior
    /\ pc = [k \in Kernels |-> "idle"]
    /\ call = [k \in Kernels |-> NoCall]
    /\ at = [k \in Kernels |-> 0]
    /\ retried = [k \in Kernels |-> FALSE]
    /\ decision = [k \in Kernels |-> NoDecision]
    /\ backend = [k \in Kernels |-> 0]
    /\ stopped = {}
    /\ ledger = {}
    /\ faults = 0

\* A call under way goes on.
Step(k) ==
    \/ Publish(k) \/ Register(k)
    \/ RecordCheckpoint(k) \/ RefuseCheckpoint(k)
    \/ CompletePending(k) \/ StaleCaller(k) \/ RejectCandidate(k)
    \/ ReplayCandidate(k) \/ AlreadyTerminal(k) \/ Decide(k) \/ RefuseUsage(k)
    \/ RequestCancellation(k) \/ CancelTooLate(k) \/ CancelBackend(k) \/ CancelRun(k)
    \/ Settle(k) \/ Reload(k) \/ Authorize(k) \/ CommitTransition(k) \/ Project(k)

Kernel(k) ==
    \/ Create(k) \/ Resume(k) \/ Advance(k) \/ Cancel(k) \/ Checkpoint(k)
    \/ Step(k)
    \/ Crash(k) \/ IssuerFails(k)

Next == \E k \in Kernels : Kernel(k)

Spec == Init /\ [][Next]_vars /\ \A k \in Kernels : WF_vars(Step(k))

-----------------------------------------------------------------------------
(* Properties.                                                             *)

PCs == {"idle", "creating", "published", "loaded", "intended", "recorded", "settling",
        "settled", "authorizing", "allowed", "authorized", "committed"}

Payloads == [to : RunStates \cup {"none"},
             src : {"none", "confidence_success", "degradation"},
             cand : Candidates \cup {NoCandidate},
             settled : {"none", "synthetic", "bound", "free"}, usage : Nat]

Events ==
    [type : {"transition_committed"}, rev : Nat, to : RunStates,
     src : {"none", "confidence_success", "degradation"}]
    \cup [type : {"transition_authorized"}, rev : Nat, expected : Nat, body : Payloads]
    \cup [type : {"budget_settlement_recorded"}, rev : Nat,
          settled : {"synthetic", "bound", "free"}, usage : Nat]
    \cup [type : {"node_checkpoint_recorded"}, rev : Nat,
          permit : {"continue", "degrade", "stop"}]
    \cup [type : {"cancellation_requested", "candidate_rejected"}, rev : Nat]

\* The types of the variables; a kernel's view is a prefix of the stream.
TypeOK ==
    /\ events \in Seq(Events)
    /\ pc \in [Kernels -> PCs]
    /\ call \in [Kernels -> Calls]
    /\ at \in [Kernels -> 0 .. Len(events)]
    /\ retried \in [Kernels -> BOOLEAN]
    /\ decision \in [Kernels -> [expected : Nat, body : Payloads]]
    /\ backend \in [Kernels -> 0 .. Len(events)]
    /\ stopped \subseteq Kernels
    /\ ledger \subseteq Kernels
    /\ faults \in 0 .. MaxFaults

\* The transitions of a stream number its revisions without gap or repetition,
\* and each leaves from where the one before it arrived along an edge of the
\* state machine, whichever kernels wrote them (_validate_run, append).
LegalHistory ==
    LET moves == Transitions(events)
    IN  /\ {events[i].rev : i \in moves} = 1 .. Cardinality(moves)
        /\ \A i \in moves :
            \/ events[i].rev = 1 /\ i = 1 /\ events[i].to = "created"
            \/ \E j \in moves : /\ j < i
                                /\ events[j].rev + 1 = events[i].rev
                                /\ <<events[j].to, events[i].to>> \in RUN_EDGES

\* After creation no state changes without a committed authority for exactly
\* that change, and a revision never has two authorities, so a kernel that
\* takes over a crashed one finds one decision to complete (_pending_authority).
Authorized ==
    LET granted == Authorities(events)
    IN  /\ Cardinality({events[i].expected : i \in granted}) = Cardinality(granted)
        /\ \A t \in Transitions(events) \ {1} :
            \E i \in granted : /\ i < t
                               /\ events[i].expected + 1 = events[t].rev
                               /\ events[i].body.to = events[t].to
                               /\ events[i].body.src = events[t].src

\* Fail closed: a run that once degraded never succeeds, and one that succeeds
\* was let through by the confidence gate (_policy_decision, _summary_source).
FailClosed ==
    RunState(events) = "succeeded" =>
        /\ \A t \in Transitions(events) : events[t].to # "degrading"
        /\ \E i \in Charges(events) : events[i].body.src = "confidence_success"

\* The run's budget is charged at most once, however often deciding the
\* running run is repeated, raced or interrupted after its settlement.
ChargedOnce == Cardinality(Charges(events)) <= 1

\* A candidate is answered by at most one applied decision, so submitting it
\* again returns that decision and never takes another step
\* (_committed_candidate).
AnsweredOnce == \A c \in Candidates : Cardinality(Answers(events, c)) <= 1

\* Once the run's cancellation is recorded, or a permit told execution to stop
\* or degrade, no checkpoint lets execution continue (record_checkpoint).
StopsForGood ==
    \A i \in Checkpoints(events) : \A j \in DOMAIN events :
        /\ j < i
        /\ \/ events[j].type = "cancellation_requested"
           \/ events[j].type = "node_checkpoint_recorded" /\ events[j].permit # "continue"
        => events[i].permit = "stop" /\ events[j].type = "cancellation_requested"

\* A backend is told to cancel only a run that is durably cancelled.
CancelIsDurable == stopped # {} => RunState(events) = "cancelled"

\* The stream is well formed: its events and what the kernels have read of it
\* have their types, and its transitions are one legal history of the run,
\* whichever kernels wrote them.
StreamWellFormed == TypeOK /\ LegalHistory

\* The history of a run is paid for once: no state changes without
\* an authority for exactly that change, the budget is charged at most once,
\* and a run that degraded, or that the confidence gate did not let through,
\* never succeeds.
PaidAndAuthorized == Authorized /\ ChargedOnce /\ FailClosed

\* A stop is for good: no checkpoint lets execution continue after a recorded
\* cancellation or a permit that told it to stop, and a backend is told to
\* cancel only a run that is durably cancelled.
StopIsFinal == StopsForGood /\ CancelIsDurable

\* Every charge in the stream replays: a kernel started afresh can take the
\* run over (_restore_budget_from_events).
RestartReplays == Replays(events)

\* The stream has grown, at the revision the kernel's backend holds, by events
\* none of which is an authority: a checkpoint, a cancellation, a refused
\* candidate, or a settlement whose call raised.  resume refuses that view.
Wedged(k) == backend[k] # 0 /\ ~ Accepts(k, Len(events))

\* If the run keeps being advanced without a new candidate, and callers stop
\* submitting usage that is refused, it reaches a terminal state, also when a
\* crash or a failure of the issuer left a decision authorized and not applied
\* (_pending_authority).  The exception is LangGraphExecutionBackend.resume: an
\* event other than an authority, recorded at the revision it holds, makes
\* every later advance and cancel of that process raise, and the run goes on
\* only in another process or after a restart.
RunSettles ==
    \A k \in Kernels :
        /\ []<><<Advance(k) /\ call'[k].cand = NoCandidate>>_vars
        /\ <>[][~ RefuseUsage(k)]_vars
        => <>(RunState(events) \in Terminal) \/ <>[]Wedged(k)

=============================================================================
