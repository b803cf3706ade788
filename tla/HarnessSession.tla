---------------------------- MODULE HarnessSession ----------------------------
(***************************************************************************)
(* The append-only event stream of one Harness run and what is read off    *)
(* it.  The stream is the only durable truth: a kernel never stores a view *)
(* of its own, it folds the stream again (fold_events) before every        *)
(* decision, and the store refuses an event whose fold would be invalid.   *)
(*                                                                         *)
(* Payloads are reduced to what decisions depend on.  Hash links, signed   *)
(* identities and plan digests are left out: they say again that a reader  *)
(* saw exactly a prefix of the stream, which here is the length it loaded. *)
(***************************************************************************)
EXTENDS Integers, Sequences, FiniteSets

\* A kernel never drives a run into `reconciling' or the two waiting states;
\* they are entered only by hosts that write to the store themselves.
Terminal == {"succeeded", "degraded", "failed", "cancelled"}

RunStates == {"created", "admitted", "planned", "ready", "running", "reconciling",
              "waiting_approval", "waiting_reconciliation", "degrading",
              "summarizing"} \cup Terminal

RUN_EDGES ==
    {<<"none", "created">>,
     <<"created", "admitted">>, <<"admitted", "planned">>,
     <<"planned", "ready">>, <<"ready", "running">>}
    \cup {"running"} \X {"reconciling", "waiting_approval", "waiting_reconciliation",
                         "degrading", "summarizing"}
    \cup {"reconciling"} \X {"running", "waiting_reconciliation", "degrading",
                             "summarizing", "failed"}
    \cup {"waiting_approval"} \X {"running", "failed"}
    \cup {"waiting_reconciliation"} \X {"reconciling", "failed"}
    \cup {"degrading"} \X {"running", "summarizing", "degraded", "failed"}
    \cup {"summarizing"} \X {"succeeded", "degraded", "failed"}
    \cup (RunStates \ Terminal) \X {"cancelled"}

-----------------------------------------------------------------------------
(* Events.  `rev' is the state revision the store stamps on the event.     *)

\* What a decision writes: the target state, where a summary came from, the
\* digest of the candidate it answers, and how the budget was settled: the
\* kind of settlement and the usage it settles, which is the number of
\* checkpoints it covers or, for a synthetic one, its reservation.
Payload(to, src, cand, settled, usage) ==
    [to |-> to, src |-> src, cand |-> cand, settled |-> settled, usage |-> usage]

TransitionEvent(expected, d) ==
    [type |-> "transition_committed", rev |-> expected + 1, to |-> d.to, src |-> d.src]

\* A TransitionAuthorityRecord names the revision its decision was taken at,
\* which the store does not compare with the revision it is appended at.
AuthorityEvent(rev, expected, d) ==
    [type |-> "transition_authorized", rev |-> rev, expected |-> expected, body |-> d]

SettlementEvent(rev, d) ==
    [type |-> "budget_settlement_recorded", rev |-> rev,
     settled |-> d.settled, usage |-> d.usage]

CheckpointEvent(rev, permit) ==
    [type |-> "node_checkpoint_recorded", rev |-> rev, permit |-> permit]

IntentEvent(rev) == [type |-> "cancellation_requested", rev |-> rev]

RejectEvent(rev) == [type |-> "candidate_rejected", rev |-> rev]

-----------------------------------------------------------------------------
(* The fold.                                                               *)

Of(ev, type) == {i \in DOMAIN ev : ev[i].type = type}

Transitions(ev) == Of(ev, "transition_committed")

Authorities(ev) == Of(ev, "transition_authorized")

Checkpoints(ev) == Of(ev, "node_checkpoint_recorded")

Cancelling(ev) == Of(ev, "cancellation_requested") # {}

StateRevision(ev) == IF ev = <<>> THEN 0 ELSE ev[Len(ev)].rev

\* The transition that led to the current state.
Latest(ev) ==
    LET rev == StateRevision(ev)
    IN  CHOOSE i \in DOMAIN ev : ev[i].type = "transition_committed" /\ ev[i].rev = rev

RunState(ev) == IF ev = <<>> THEN "none" ELSE ev[Latest(ev)].to

\* _summary_source: which decision the run is summarizing.
SummarySource(ev) == ev[Latest(ev)].src

\* Mutant: what was decided and not applied is forgotten.
Pending_Forgotten(ev) == {}

\* _pending_authority: decided at this revision, not applied yet.  (Its
\* idempotency key names the revision, so it cannot have been applied.)
Pending(ev) == {i \in Authorities(ev) : ev[i].expected = StateRevision(ev)}

\* _committed_candidate: the decisions on candidate c that were applied.
Answers(ev, c) ==
    {i \in Authorities(ev) :
        /\ ev[i].body.cand = c
        /\ \E t \in Transitions(ev) : /\ ev[t].rev = ev[i].expected + 1
                                      /\ ev[t].to = ev[i].body.to}

-----------------------------------------------------------------------------
(* The store and the replay.                                               *)

\* Mutant: the reader's counters are not compared.
Raced_Never(ev, n, e) == FALSE

\* append: the reader's counters are compared with the run's row, then the
\* fold of the stream with the event on top is validated.  A transition must
\* leave from the current revision.
Raced(ev, n, e) ==
    \/ Len(ev) # n
    \/ e.type = "transition_committed" /\ e.rev # StateRevision(ev) + 1

\* Mutant: the fold takes several authorities for a revision.
Conflicts_Never(ev, e) == FALSE

\* HarnessSessionView: at most one authority for each revision of the run.
\* A fold that breaks this is refused with EventIntegrityError, not retried.
Conflicts(ev, e) ==
    /\ e.type = "transition_authorized"
    /\ \E i \in Authorities(ev) : ev[i].expected = e.expected

\* _validated_budget_settlement_evidence: a budget authority must follow its
\* settlement record directly.  A checkpoint-bound settlement must have settled
\* the usage of the last checkpoint before it.  For a checkpoint-free one the
\* replay calls a helper the class does not have, and raises.
Bound(ev, i) ==
    /\ i > 1 /\ ev[i].rev = ev[i].expected
    /\ ev[i - 1] = SettlementEvent(ev[i].rev, ev[i].body)
    /\ ev[i].body.settled # "free"
    /\ ev[i].body.settled = "bound" =>
            /\ ev[i].body.usage > 0
            /\ ev[i].body.usage = Cardinality({c \in Checkpoints(ev) : c < i})

Charges(ev) == {i \in Authorities(ev) : ev[i].body.settled # "none"}

\* _budget_state: every charge of the stream is validated on replay.
Replays(ev) == \A i \in Charges(ev) : Bound(ev, i)

=============================================================================
