------------------------------- MODULE WorkItems -------------------------------
(***************************************************************************)
(* Below a run the Harness keeps work items, and attempts at them.  Hosts  *)
(* in separate processes drive one item through the shared event store:    *)
(* they take a lease on it, write down which attempt works for it, record  *)
(* the authority for a transition and then commit the transition.  Two     *)
(* guards stand between them and the stream.  GlobalTaskStateMachine       *)
(* judges a transition against the view the host folded; the store         *)
(* compares that view's counters and the lease with its own rows.  Neither *)
(* is enough alone: the store knows no edges, the state machine no time.   *)
(* The stream only grows, so a view with the stream's counters is the fold *)
(* of the whole stream, and all there is to know of a host's view is       *)
(* whether it is behind.                                                   *)
(*                                                                         *)
(* acquire_lease does not ask whether the lease it replaces has expired,   *)
(* only whether the caller knows its epoch.                                *)
(***************************************************************************)
EXTENDS Naturals, FiniteSets

CONSTANTS
    Hosts,          \* the processes that drive the item
    Attempts,       \* the attempts at it
    Targets,        \* the states hosts ask for
    Lifetime,       \* how long a lease lasts
    MaxWorkClock,   \* how long the model runs
    MaxEpochs,      \* leases handed out
    MaxMoves        \* transitions committed

VARIABLES
    folded,     \* the view the event stream folds to
    lease,      \* the row of harness_leases of the item
    behind,     \* the hosts whose view is not the latest
    token,      \* the LeaseToken each host holds
    workClock,        \* the store's monotonic clock
    wrote       \* the epoch the last work transition was committed under

workVars == <<folded, lease, behind, token, workClock, wrote>>

WORK_ITEM_TERMINAL_STATES == {"succeeded", "blocked", "failed", "cancelled"}

ATTEMPT_TERMINAL_STATES ==
    {"completed", "timed_out", "rejected", "failed", "stale", "cancelled"}

WORK_ITEM_EDGES ==
    {<<"none", "pending">>, <<"pending", "ready">>, <<"ready", "leased">>,
     <<"leased", "running">>, <<"running", "validating">>,
     <<"validating", "succeeded">>, <<"retry_wait", "ready">>}

ATTEMPT_EDGES ==
    {<<"none", "reserved">>, <<"reserved", "dispatched">>,
     <<"dispatched", "streaming">>, <<"dispatched", "validating">>,
     <<"streaming", "validating">>, <<"validating", "settling">>,
     <<"settling", "completed">>}

ItemStates == {"none", "pending", "ready", "leased", "running", "validating",
               "retry_wait"} \cup WORK_ITEM_TERMINAL_STATES

AttemptStates == {"none", "reserved", "dispatched", "streaming", "validating",
                  "settling"} \cup ATTEMPT_TERMINAL_STATES

NoToken == [epoch |-> 0, att |-> "none", holder |-> "none", until |-> 0]

\* The entities a work transition can be about.
Entities == {"item"} \cup Attempts

StateOf(v, e) == IF e = "item" THEN v.item ELSE v.att[e]

-----------------------------------------------------------------------------
(* GlobalTaskStateMachine.                                                 *)

\* _validate_retry_authorization: the attempt named in the proof is stale and
\* is a committed attempt at this item.
RetryProof(v, a) == v.att[a] = "stale" /\ a \in v.owned

\* _validate_work_item, with the attempt a retry proof names ("none": no proof).
ItemEdge(v, to, proof) ==
    /\ v.item \notin WORK_ITEM_TERMINAL_STATES
    /\ IF to = "retry_wait"
       THEN /\ v.item \in {"leased", "running", "validating"}
            /\ proof # "none" /\ RetryProof(v, proof)
       ELSE /\ proof = "none"
            /\ \/ <<v.item, to>> \in WORK_ITEM_EDGES
               \/ v.item # "none" /\ to \in {"blocked", "failed", "cancelled"}

\* _validate_attempt: an attempt may break off at any point.
AttemptEdge(v, a, to) ==
    /\ v.att[a] \notin ATTEMPT_TERMINAL_STATES
    /\ \/ <<v.att[a], to>> \in ATTEMPT_EDGES
       \/ v.att[a] # "none" /\ to \in ATTEMPT_TERMINAL_STATES \ {"completed"}

\* _validate_edge.
Edge(v, t) == IF t.of = "item" THEN ItemEdge(v, t.to, t.proof)
                               ELSE t.proof = "none" /\ AttemptEdge(v, t.of, t.to)

\* _authority_record: a transition, the revision it leaves from and the lease
\* it is made under.
Authority(t) == [of |-> t.of, from |-> t.from, to |-> t.to, rev |-> t.rev, epoch |-> t.epoch]

\* Mutant: a run that has ended still takes work transitions.
Evidence_AnyRun(v, t) ==
    /\ t.rev = v.rev
    /\ t.from = StateOf(v, t.of)
    /\ Authority(t) \in v.authorities

\* _validate_evidence: the run is still open, the evidence names the revision
\* of the view, and the authority for exactly this transition is committed.
Evidence(v, t) ==
    /\ v.run = "running"
    /\ t.rev = v.rev
    /\ t.from = StateOf(v, t.of)
    /\ Authority(t) \in v.authorities

Validates(v, t) == Evidence(v, t) /\ Edge(v, t)

-----------------------------------------------------------------------------
(* SQLiteHarnessEventStore.                                                *)

\* append: the counters the host loaded are those of the run's row.
Current(h) == h \notin behind

Appended(h) == behind' = Hosts \ {h}

\* _validate_lease_authorization: the token is the one the row was written
\* with, it is for the attempt the event names, and it has not expired.
Held(t, tok) ==
    /\ t.epoch = tok.epoch
    /\ t.of \in Attempts => t.of = tok.att
    /\ lease = tok
    /\ workClock < tok.until

\* A fold with a second authority for an entity at a revision is refused.
Unique(t) == \A a \in folded.authorities : ~ (a.of = t.of /\ a.rev = t.rev)

Moved(v, t) == IF t.of = "item" THEN [v EXCEPT !.item = t.to]
                                ELSE [v EXCEPT !.att[t.of] = t.to]

\* _apply_committed_event.  Only a transition advances the state revision, and
\* no later transition can use an authority of the revision it leaves.
Folds(t) ==
    /\ t.rev = folded.rev /\ t.from = StateOf(folded, t.of)
    /\ folded' = [Moved(folded, t) EXCEPT !.rev = @ + 1, !.authorities = {}]

-----------------------------------------------------------------------------
(* What a host may call, in any order.                                     *)

\* The transitions a host can ask for with what it has loaded and holds.
Asks(h) ==
    {[of |-> e, from |-> StateOf(folded, e), to |-> s, rev |-> folded.rev,
      epoch |-> token[h].epoch, proof |-> p] :
        e \in Entities, s \in Targets, p \in Attempts \cup {"none"}}

Load(h) ==
    /\ h \in behind
    /\ behind' = behind \ {h}
    /\ UNCHANGED <<folded, lease, token, workClock, wrote>>

\* acquire_lease, by a host that has read the present epoch.
Acquire(h, a) ==
    /\ lease.epoch < MaxEpochs
    /\ lease' = [epoch |-> lease.epoch + 1, att |-> a, holder |-> h, until |-> workClock + Lifetime]
    /\ token' = [token EXCEPT ![h] = lease']
    /\ UNCHANGED <<folded, behind, workClock, wrote>>

\* append of an AttemptWorkItemOwnershipRecord: once for each attempt.
Own(h, a) ==
    /\ Current(h)
    /\ a \notin folded.owned
    /\ folded' = [folded EXCEPT !.owned = @ \cup {a}]
    /\ Appended(h)
    /\ UNCHANGED <<lease, token, workClock, wrote>>

\* append of a TransitionAuthorityRecord.  It carries no lease: a host whose
\* lease is gone can still record one, and then no other can be recorded for
\* the entity at this revision.
Authorize(h, t) ==
    /\ token[h].epoch > 0
    /\ Current(h)
    /\ Edge(folded, t)
    /\ Unique(t)
    /\ folded' = [folded EXCEPT !.authorities = @ \cup {Authority(t)}]
    /\ Appended(h)
    /\ UNCHANGED <<lease, token, workClock, wrote>>

\* apply, then append of the transition under the host's lease.
Commit(h, t) ==
    /\ folded.rev < MaxMoves
    /\ Validates(folded, t)
    /\ Current(h) /\ Held(t, token[h])
    /\ Folds(t)
    /\ wrote' = t.epoch
    /\ Appended(h)
    /\ UNCHANGED <<lease, token, workClock>>

\* A kernel ends the run.
RunEnds ==
    /\ folded.run = "running" /\ folded.rev < MaxMoves
    /\ folded' = [folded EXCEPT !.run = "cancelled", !.rev = @ + 1,
                                !.authorities = {}]
    /\ UNCHANGED <<lease, token, workClock, wrote>>
    /\ behind' = Hosts

\* A host that restarts keeps neither its view nor its token.
Restarts(h) ==
    /\ token[h] # NoToken
    /\ token' = [token EXCEPT ![h] = NoToken]
    /\ behind' = behind \ {h}
    /\ UNCHANGED <<folded, lease, workClock, wrote>>

Time ==
    /\ workClock < MaxWorkClock
    /\ workClock' = workClock + 1
    /\ UNCHANGED <<folded, lease, behind, token, wrote>>

-----------------------------------------------------------------------------
(* The specification.  The stream starts with the run and no work in it.   *)

WorkInit ==
    /\ folded = [run |-> "running", item |-> "none", att |-> [a \in Attempts |-> "none"],
                 owned |-> {}, authorities |-> {}, rev |-> 0]
    /\ lease = NoToken
    /\ behind = {}
    /\ token = [h \in Hosts |-> NoToken]
    /\ workClock = 0
    /\ wrote = 0

WorkNext ==
    \/ \E h \in Hosts :
        \/ Load(h) \/ Restarts(h)
        \/ \E a \in Attempts : Acquire(h, a) \/ Own(h, a)
        \/ \E t \in Asks(h) : Authorize(h, t) \/ Commit(h, t)
    \/ RunEnds
    \/ Time

WorkSpec == WorkInit /\ [][WorkNext]_workVars

-----------------------------------------------------------------------------
(* Properties.                                                             *)

\* A superseded host never writes after its successor: the epochs that work
\* transitions are committed under never fall, although a lease may be taken
\* over before it expires and the old holder is not told.
EpochsNeverFall == [][wrote' >= wrote]_wrote

\* Once a kernel has ended the run, no host moves an item or an attempt of it,
\* not even one that recorded its authority before.
Sealed ==
    [][folded.run # "running" => folded'.item = folded.item /\ folded'.att = folded.att]_folded

\* An item waits for a retry only after an attempt that worked for it went
\* stale, and an attempt that is stale stays so.
RetryEarned ==
    folded.item = "retry_wait" => \E a \in folded.owned : folded.att[a] = "stale"
=============================================================================
