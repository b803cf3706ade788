---------------------------- MODULE HarnessProofs ----------------------------
(***************************************************************************)
(* The history of a run, for every number of kernels, candidates, faults   *)
(* and calls, with either execution backend: however the appends of the    *)
(* kernels interleave and wherever their calls are lost, the stream is one *)
(* legal, authorized path through the state machine, charged once, and a   *)
(* stop in it is for good.  The kernels may have created the run or found  *)
(* it as other kernels left it (Inherited).                                *)
(*                                                                         *)
(* The store compares only counters and the fold only refuses a second     *)
(* authority for a revision; neither looks at the edge a transition takes  *)
(* or at the decision behind it.  What carries the argument is a promise   *)
(* about every decision a kernel still has in hand: it was taken at a      *)
(* revision of this very stream, and whoever applies it finds the run at   *)
(* that revision or not at all.                                            *)
(***************************************************************************)
EXTENDS HarnessKernel, FiniteSetTheorems, SequenceTheorems, TLAPS

USE StrictBackendAssumption, UsagesAssumption, BoundsAssumption, CandidateAssumption

(* Where a kernel has a decision in hand that is not committed.            *)
Deciding == {"settling", "settled", "authorizing", "allowed", "authorized"}

(* Where the policy or a cancellation leads from a transition t.           *)
Leads(t, d) ==
    \/ d.to = "cancelled" /\ d.src = "none"
    \/ t.to = "created" /\ d.to = "admitted" /\ d.src = "none"
    \/ t.to = "admitted" /\ d.to = "planned" /\ d.src = "none"
    \/ t.to = "planned" /\ d.to = "ready" /\ d.src = "none"
    \/ t.to = "ready" /\ d.to = "running" /\ d.src = "none"
    \/ t.to = "running" /\ d.to = "degrading" /\ d.src = "none"
    \/ t.to = "running" /\ d.to = "summarizing" /\ d.src = "confidence_success"
    \/ t.to = "degrading" /\ d.to = "summarizing" /\ d.src = "degradation"
    \/ t.to = "summarizing" /\ d.src = "none"
       /\ d.to = IF t.src = "confidence_success" THEN "succeeded" ELSE "degraded"

(* The decision d may be taken where the transition t arrived.             *)
Follows(t, d) ==
    /\ <<t.to, d.to>> \in RUN_EDGES
    /\ d.settled # "none" => t.to = "running"
    /\ d.src = "confidence_success" => d.settled # "none"
    /\ Leads(t, d)

(* The states a kernel leads a run through have their revisions.           *)
Stage(t) ==
    /\ t.to \in {"created", "admitted", "planned", "ready", "running", "degrading",
                 "summarizing", "succeeded", "degraded", "cancelled"}
    /\ t.to = "created" <=> t.rev = 1
    /\ t.to = "admitted" => t.rev = 2
    /\ t.to = "planned" => t.rev = 3
    /\ t.to = "ready" => t.rev = 4
    /\ t.to = "running" => t.rev = 5
    /\ t.to = "degrading" => t.rev = 6
    /\ t.to = "summarizing" => t.rev = IF t.src = "confidence_success" THEN 6 ELSE 7
    /\ t.to = "succeeded" => t.rev = 7

-----------------------------------------------------------------------------
(* The stream.                                                             *)

(* The transitions number the revisions, and no event is ahead of them.    *)
Numbered(ev) ==
    /\ ev # <<>> => ev[1].type = "transition_committed" /\ ev[1].rev = 1
    /\ \A i \in DOMAIN ev : 1 <= ev[i].rev /\ ev[i].rev <= StateRevision(ev)
    /\ \A i, j \in DOMAIN ev : i < j => ev[i].rev <= ev[j].rev
    /\ \A i, j \in Transitions(ev) : ev[i].rev = ev[j].rev => i = j
    /\ \A r \in 1 .. StateRevision(ev) : \E t \in Transitions(ev) : ev[t].rev = r
    /\ IsFiniteSet(Transitions(ev)) /\ Cardinality(Transitions(ev)) = StateRevision(ev)

Staged(ev) == \A t \in Transitions(ev) : Stage(ev[t])

(* Every transition but the first was authorized ...                       *)
Granted(ev) ==
    \A t \in Transitions(ev) \ {1} :
        \E i \in Authorities(ev) : /\ i < t
                                   /\ ev[i].expected + 1 = ev[t].rev
                                   /\ ev[i].body.to = ev[t].to
                                   /\ ev[i].body.src = ev[t].src

(* ... by an authority that follows from a transition, the only one for    *)
(* its revision and the only one for its candidate.                        *)
Earned(ev) ==
    \A i \in Authorities(ev) :
        \E t \in Transitions(ev) : /\ ev[t].rev = ev[i].expected
                                   /\ Follows(ev[t], ev[i].body)

OneGrant(ev) ==
    \A i, j \in Authorities(ev) : ev[i].expected = ev[j].expected => i = j

OneEach(ev) ==
    \A i, j \in Authorities(ev) :
        ev[i].body.cand = ev[j].body.cand /\ ev[i].body.cand \in Candidates => i = j

StreamInv(ev) ==
    Numbered(ev) /\ Staged(ev) /\ Granted(ev) /\ Earned(ev) /\ OneGrant(ev) /\ OneEach(ev)

-----------------------------------------------------------------------------
(* The kernels.                                                            *)

Begun == \A k \in Kernels : pc[k] \notin {"idle", "creating"} => events # <<>>

(* No earlier revision answered the candidate c.                           *)
Unanswered(ev, rev, c) ==
    \A i \in Authorities(ev) : ev[i].expected < rev /\ ev[i].body.cand = c => c \notin Candidates

(* The decision d was taken at a revision of the stream, ...               *)
Sound(ev, d) ==
    /\ \E t \in Transitions(ev) : ev[t].rev = d.expected /\ Follows(ev[t], d.body)
    /\ Unanswered(ev, d.expected, d.body.cand)

(* ... and it was authorized.                                              *)
Allowed(ev, d) ==
    \E i \in Authorities(ev) : ev[i].expected = d.expected /\ ev[i].body = d.body

DecisionOK(k) ==
    /\ pc[k] \in Deciding => Sound(events, decision[k])
    /\ pc[k] = "settling" => decision[k].body.settled # "none"
    /\ pc[k] \in {"allowed", "authorized"} => Allowed(events, decision[k])

CancelOK(k) ==
    call[k].op = "cancel" =>
        /\ pc[k] \in Deciding => decision[k].body = CancelPayload
        /\ pc[k] = "committed" => RunState(events) = "cancelled"

KernelInv == Begun /\ \A k \in Kernels : DecisionOK(k) /\ CancelOK(k)

RunInv == TypeOK /\ StreamInv(events) /\ KernelInv /\ StopIsFinal

-----------------------------------------------------------------------------
(* Appending to a stream.                                                  *)

\* What is in the stream with an event on top.
LEMMA AppendFacts ==
  ASSUME NEW ev \in Seq(Events), NEW e \in Events, NEW type
  PROVE  LET a == Append(ev, e)
             n == Len(ev) + 1
         IN  /\ a \in Seq(Events) /\ a # <<>> /\ Len(a) = n
             /\ DOMAIN ev = 1 .. Len(ev) /\ DOMAIN a = 1 .. n
             /\ a[n] = e /\ \A i \in DOMAIN ev : a[i] = ev[i]
             /\ StateRevision(a) = e.rev
             /\ Of(a, type) = IF e.type = type THEN Of(ev, type) \cup {n} ELSE Of(ev, type)
<1> DEFINE a == Append(ev, e)
           n == Len(ev) + 1
<1>1. /\ a \in Seq(Events) /\ a # <<>> /\ Len(a) = n /\ Len(ev) \in Nat
      /\ a[n] = e /\ \A i \in 1 .. Len(ev) : a[i] = ev[i]
  BY AppendProperties
<1>2. DOMAIN ev = 1 .. Len(ev) /\ DOMAIN a = 1 .. n
  BY <1>1
<1> HIDE DEF a
<1>3. StateRevision(a) = e.rev
  BY <1>1 DEF StateRevision
<1>4. Of(a, type) = IF e.type = type THEN Of(ev, type) \cup {n} ELSE Of(ev, type)
  BY <1>1, <1>2 DEF Of
<1> QED
  BY <1>1, <1>2, <1>3, <1>4 DEF a

\* An event is of one kind, and has a revision.
LEMMA EventTypes ==
  ASSUME NEW e \in Events
  PROVE  /\ e.rev \in Nat
         /\ e.type = "transition_committed" => e.to \in RunStates
         /\ e.type = "transition_authorized" => e.expected \in Nat /\ e.body \in Payloads
BY DEF Events

\* The revision of a stream is a number, and that of its last event.
LEMMA RevisionTypes ==
  ASSUME NEW ev \in Seq(Events)
  PROVE  /\ StateRevision(ev) \in Nat
         /\ ev = <<>> => StateRevision(ev) = 0
         /\ DOMAIN ev = 1 .. Len(ev) /\ Len(ev) \in Nat
         /\ \A i \in DOMAIN ev : ev[i] \in Events
         /\ ev # <<>> => Len(ev) \in DOMAIN ev /\ StateRevision(ev) = ev[Len(ev)].rev
<1>1. DOMAIN ev = 1 .. Len(ev) /\ Len(ev) \in Nat /\ \A i \in DOMAIN ev : ev[i] \in Events
  OBVIOUS
<1>2. ev # <<>> => Len(ev) \in DOMAIN ev
  BY <1>1, EmptySeq
<1> QED
  BY <1>1, <1>2, EventTypes DEF StateRevision

\* The current state is that of the transition with the current revision.
LEMMA RunStateIs ==
  ASSUME NEW ev \in Seq(Events), Numbered(ev), ev # <<>>
  PROVE  \E t \in Transitions(ev) : /\ ev[t].rev = StateRevision(ev)
                                    /\ RunState(ev) = ev[t].to
                                    /\ SummarySource(ev) = ev[t].src
<1>1. StateRevision(ev) \in 1 .. StateRevision(ev)
  BY RevisionTypes DEF Numbered
<1>2. PICK t \in Transitions(ev) : ev[t].rev = StateRevision(ev)
  BY <1>1 DEF Numbered
<1>3. \A i \in DOMAIN ev : ev[i].type = "transition_committed" /\ ev[i].rev = StateRevision(ev) => i = t
  BY <1>2 DEF Numbered, Transitions, Of
<1>4. Latest(ev) = t
  BY <1>2, <1>3 DEF Latest, Transitions, Of
<1> QED
  BY <1>2, <1>4 DEF RunState, SummarySource

\* Any transition with the current revision is the one the state is read off.
LEMMA RunStateOf ==
  ASSUME NEW ev \in Seq(Events), Numbered(ev), NEW t \in Transitions(ev),
         ev[t].rev = StateRevision(ev)
  PROVE  RunState(ev) = ev[t].to
<1>1. ev # <<>>
  BY RevisionTypes, EmptySeq DEF Transitions, Of
<1> QED
  BY <1>1, RunStateIs DEF Numbered
-----------------------------------------------------------------------------
(* What may be appended.                                                   *)

\* Numbers stay in order under an event that is no transition ...
LEMMA SameRevision ==
  ASSUME NEW ev \in Seq(Events), NEW e \in Events, Numbered(ev), ev # <<>>,
         e.type # "transition_committed", e.rev = StateRevision(ev)
  PROVE  Numbered(Append(ev, e))
<1> DEFINE a == Append(ev, e)
           n == Len(ev) + 1
<1>1. /\ a # <<>> /\ Len(ev) \in Nat /\ DOMAIN ev = 1 .. Len(ev) /\ DOMAIN a = 1 .. n
      /\ a[n] = e /\ \A i \in DOMAIN ev : a[i] = ev[i]
      /\ StateRevision(a) = StateRevision(ev) /\ Transitions(a) = Transitions(ev)
  BY AppendFacts, RevisionTypes DEF Transitions
<1>2. /\ StateRevision(ev) \in Nat /\ 1 \in DOMAIN ev /\ Len(ev) \in DOMAIN ev
      /\ 1 <= StateRevision(ev) /\ Transitions(ev) \subseteq DOMAIN ev
      /\ \A i \in DOMAIN ev : ev[i].rev \in Nat
  BY <1>1, RevisionTypes, EventTypes DEF Numbered, Transitions, Of
<1> HIDE DEF a
<1>3. a[1].type = "transition_committed" /\ a[1].rev = 1
  BY <1>1, <1>2 DEF Numbered
<1>4. \A i \in DOMAIN a : 1 <= a[i].rev /\ a[i].rev <= StateRevision(a)
  BY <1>1, <1>2 DEF Numbered
<1>5. \A i, j \in DOMAIN a : i < j => a[i].rev <= a[j].rev
  BY <1>1, <1>2 DEF Numbered
<1>6. /\ \A i, j \in Transitions(a) : a[i].rev = a[j].rev => i = j
      /\ \A r \in 1 .. StateRevision(a) : \E t \in Transitions(a) : a[t].rev = r
      /\ IsFiniteSet(Transitions(a)) /\ Cardinality(Transitions(a)) = StateRevision(a)
  BY <1>1, <1>2 DEF Numbered
<1>7. Numbered(a)
  BY <1>3, <1>4, <1>5, <1>6 DEF Numbered
<1> QED
  BY <1>7 DEF a

\* ... and under a transition to the next revision.
LEMMA NextRevision ==
  ASSUME NEW ev \in Seq(Events), NEW e \in Events, Numbered(ev), ev # <<>>,
         e.type = "transition_committed", e.rev = StateRevision(ev) + 1
  PROVE  Numbered(Append(ev, e))
<1> DEFINE a == Append(ev, e)
           n == Len(ev) + 1
<1>1. /\ a # <<>> /\ Len(ev) \in Nat /\ DOMAIN ev = 1 .. Len(ev) /\ DOMAIN a = 1 .. n
      /\ a[n] = e /\ \A i \in DOMAIN ev : a[i] = ev[i]
      /\ StateRevision(a) = StateRevision(ev) + 1 /\ Transitions(a) = Transitions(ev) \cup {n}
  BY AppendFacts, RevisionTypes DEF Transitions
<1>2. /\ StateRevision(ev) \in Nat /\ 1 \in DOMAIN ev /\ Len(ev) \in DOMAIN ev
      /\ 1 <= StateRevision(ev) /\ Transitions(ev) \subseteq DOMAIN ev
      /\ n \notin Transitions(ev) /\ \A i \in DOMAIN ev : ev[i].rev \in Nat
  BY <1>1, RevisionTypes, EventTypes DEF Numbered, Transitions, Of
<1> HIDE DEF a
<1>3. a[1].type = "transition_committed" /\ a[1].rev = 1
  BY <1>1, <1>2 DEF Numbered
<1>4. \A i \in DOMAIN a : 1 <= a[i].rev /\ a[i].rev <= StateRevision(a)
  BY <1>1, <1>2 DEF Numbered
<1>5. \A i, j \in DOMAIN a : i < j => a[i].rev <= a[j].rev
  BY <1>1, <1>2, <1>4 DEF Numbered
<1>6. \A i, j \in Transitions(a) : a[i].rev = a[j].rev => i = j
  BY <1>1, <1>2 DEF Numbered
<1>7. \A r \in 1 .. StateRevision(a) : \E t \in Transitions(a) : a[t].rev = r
  <2> SUFFICES ASSUME NEW r \in 1 .. StateRevision(a) PROVE \E t \in Transitions(a) : a[t].rev = r
    OBVIOUS
  <2>1. CASE r = StateRevision(a)
    BY <2>1, <1>1
  <2>2. CASE r # StateRevision(a)
    <3>1. r \in 1 .. StateRevision(ev)
      BY <2>2, <1>1, <1>2
    <3>2. PICK t \in Transitions(ev) : ev[t].rev = r
      BY <3>1 DEF Numbered
    <3> QED
      BY <3>2, <1>1, <1>2
  <2> QED
    BY <2>1, <2>2
<1>8. IsFiniteSet(Transitions(a)) /\ Cardinality(Transitions(a)) = StateRevision(a)
  BY <1>1, <1>2, FS_AddElement DEF Numbered
<1>9. Numbered(a)
  BY <1>1, <1>3, <1>4, <1>5, <1>6, <1>7, <1>8 DEF Numbered
<1> QED
  BY <1>9 DEF a

\* A settlement, a checkpoint, an intent or a rejection touches none of the rest.
LEMMA AsideKept ==
  ASSUME NEW ev \in Seq(Events), NEW e \in Events, StreamInv(ev), ev # <<>>,
         e.type \notin {"transition_committed", "transition_authorized"},
         e.rev = StateRevision(ev)
  PROVE  StreamInv(Append(ev, e))
<1> DEFINE a == Append(ev, e)
<1>1. /\ DOMAIN ev \subseteq DOMAIN a /\ \A i \in DOMAIN ev : a[i] = ev[i]
      /\ Transitions(a) = Transitions(ev) /\ Authorities(a) = Authorities(ev)
  BY AppendFacts DEF Transitions, Authorities
<1>2. Transitions(ev) \subseteq DOMAIN ev /\ Authorities(ev) \subseteq DOMAIN ev
  BY DEF Transitions, Authorities, Of
<1>3. Numbered(a)
  BY SameRevision DEF StreamInv
<1> HIDE DEF a
<1>4. Staged(a)
  BY <1>1, <1>2 DEF StreamInv, Staged
<1>5. Granted(a)
  BY <1>1, <1>2 DEF StreamInv, Granted
<1>6. Earned(a)
  BY <1>1, <1>2 DEF StreamInv, Earned
<1>7. OneGrant(a) /\ OneEach(a)
  BY <1>1, <1>2 DEF StreamInv, OneGrant, OneEach
<1>8. StreamInv(a)
  BY <1>3, <1>4, <1>5, <1>6, <1>7 DEF StreamInv
<1> QED
  BY <1>8 DEF a
\* Every revision that was left has its authority.
LEMMA LeftByGrant ==
  ASSUME NEW ev \in Seq(Events), Numbered(ev), Granted(ev),
         NEW r \in Nat, r >= 1, r < StateRevision(ev)
  PROVE  \E i \in Authorities(ev) : ev[i].expected = r
<1>1. StateRevision(ev) \in Nat
  BY RevisionTypes
<1>2. r + 1 \in 1 .. StateRevision(ev)
  BY <1>1
<1>3. PICK t \in Transitions(ev) : ev[t].rev = r + 1
  BY <1>2 DEF Numbered
<1>4. ev # <<>>
  BY <1>1, RevisionTypes
<1>5. t # 1
  BY <1>3, <1>4 DEF Numbered
<1>6. PICK i \in Authorities(ev) : ev[i].expected + 1 = ev[t].rev
  BY <1>3, <1>5 DEF Granted
<1>7. ev[i].expected \in Nat
  BY RevisionTypes, EventTypes DEF Authorities, Of
<1> QED
  BY <1>3, <1>6, <1>7

\* An authority for a decision that follows from the stream, when the fold
\* finds no other one for its revision.
LEMMA AuthorityKept ==
  ASSUME NEW ev \in Seq(Events), StreamInv(ev), ev # <<>>,
         NEW r \in Nat, NEW d \in Payloads,
         \E t \in Transitions(ev) : ev[t].rev = r /\ Follows(ev[t], d),
         Unanswered(ev, r, d.cand),
         AuthorityEvent(StateRevision(ev), r, d) \in Events,
         ~ Conflicts(ev, AuthorityEvent(StateRevision(ev), r, d))
  PROVE  StreamInv(Append(ev, AuthorityEvent(StateRevision(ev), r, d)))
<1> DEFINE e == AuthorityEvent(StateRevision(ev), r, d)
           a == Append(ev, e)
           n == Len(ev) + 1
<1>1. /\ e.type = "transition_authorized" /\ e.rev = StateRevision(ev)
      /\ e.expected = r /\ e.body = d
  BY DEF AuthorityEvent
<1>2. e \in Events /\ ~ Conflicts(ev, e)
  OBVIOUS
<1> HIDE DEF e
<1>3. /\ DOMAIN ev = 1 .. Len(ev) /\ Len(ev) \in Nat /\ a[n] = e /\ \A i \in DOMAIN ev : a[i] = ev[i]
      /\ Transitions(a) = Transitions(ev) /\ Authorities(a) = Authorities(ev) \cup {n}
  BY <1>1, <1>2, AppendFacts, RevisionTypes DEF Transitions, Authorities
<1>4. Transitions(ev) \subseteq DOMAIN ev /\ Authorities(ev) \subseteq DOMAIN ev
  BY DEF Transitions, Authorities, Of
<1>5. Numbered(a)
  BY <1>1, <1>2, SameRevision DEF StreamInv
<1>6. \A i \in Authorities(ev) : ev[i].expected # r
  BY <1>1, <1>2 DEF Conflicts
<1>7. \A i \in Authorities(ev) : ev[i].body.cand = d.cand => d.cand \notin Candidates
  <2> SUFFICES ASSUME NEW i \in Authorities(ev), ev[i].body.cand = d.cand, d.cand \in Candidates
               PROVE  FALSE
    OBVIOUS
  <2>1. ev[i].expected \in Nat /\ StateRevision(ev) \in Nat
    BY <1>4, RevisionTypes, EventTypes DEF Authorities, Of
  <2>2. ev[i].expected > r
    BY <1>6, <2>1 DEF Unanswered
  <2>3. PICK t \in Transitions(ev) : ev[t].rev = ev[i].expected
    BY DEF StreamInv, Earned
  <2>4. ev[t].rev <= StateRevision(ev)
    BY <1>4, <2>3 DEF StreamInv, Numbered
  <2>5. r >= 1
    BY <1>4 DEF StreamInv, Numbered
  <2>6. r < StateRevision(ev)
    BY <2>1, <2>2, <2>3, <2>4
  <2> QED
    BY <1>6, <2>5, <2>6, LeftByGrant DEF StreamInv
<1> HIDE DEF a
<1>8. Staged(a)
  BY <1>3, <1>4 DEF StreamInv, Staged
<1>9. Granted(a)
  BY <1>3, <1>4 DEF StreamInv, Granted
<1>10. Earned(a)
  BY <1>1, <1>3, <1>4 DEF StreamInv, Earned
<1>11. OneGrant(a)
  BY <1>1, <1>3, <1>4, <1>6 DEF StreamInv, OneGrant
<1>12. OneEach(a)
  BY <1>1, <1>3, <1>4, <1>7 DEF StreamInv, OneEach
<1>13. StreamInv(a)
  BY <1>5, <1>8, <1>9, <1>10, <1>11, <1>12 DEF StreamInv
<1> QED
  BY <1>13 DEF a, e

\* The next transition takes the run to the stage its predecessor leads to.
LEMMA StageFollows ==
  ASSUME NEW t, t.rev \in Nat, t.rev >= 1, NEW d, Stage(t), Follows(t, d)
  PROVE  Stage(TransitionEvent(t.rev, d))
<1> DEFINE e == TransitionEvent(t.rev, d)
<1>1. e.rev = t.rev + 1 /\ e.to = d.to /\ e.src = d.src
  BY DEF TransitionEvent
<1> HIDE DEF e
<1>2. Stage(e)
  BY <1>1 DEF Stage, Follows, Leads
<1> QED
  BY <1>2 DEF e

\* A transition that was authorized for the current revision.
LEMMA TransitionKept ==
  ASSUME NEW ev \in Seq(Events), StreamInv(ev), ev # <<>>,
         NEW r \in Nat, NEW d \in Payloads, r = StateRevision(ev),
         \E i \in Authorities(ev) : ev[i].expected = r /\ ev[i].body = d,
         TransitionEvent(r, d) \in Events
  PROVE  StreamInv(Append(ev, TransitionEvent(r, d)))
<1> DEFINE e == TransitionEvent(r, d)
           a == Append(ev, e)
           n == Len(ev) + 1
<1>1. e.type = "transition_committed" /\ e.rev = r + 1 /\ e.to = d.to /\ e.src = d.src
  BY DEF TransitionEvent
<1>2. PICK i \in Authorities(ev) : ev[i].expected = r /\ ev[i].body = d
  OBVIOUS
<1>3. PICK t \in Transitions(ev) : ev[t].rev = r /\ Follows(ev[t], d)
  BY <1>2 DEF StreamInv, Earned
<1>4. Transitions(ev) \subseteq DOMAIN ev /\ Authorities(ev) \subseteq DOMAIN ev
  BY DEF Transitions, Authorities, Of
<1>5. r >= 1
  BY <1>3, <1>4 DEF StreamInv, Numbered
<1>6. Stage(e)
  BY <1>3, <1>5, StageFollows DEF StreamInv, Staged
<1> HIDE DEF e
<1>7. /\ DOMAIN ev = 1 .. Len(ev) /\ Len(ev) \in Nat /\ a[n] = e /\ \A j \in DOMAIN ev : a[j] = ev[j]
      /\ Transitions(a) = Transitions(ev) \cup {n} /\ Authorities(a) = Authorities(ev)
  BY <1>1, AppendFacts, RevisionTypes DEF Transitions, Authorities, e
<1>8. Numbered(a)
  BY <1>1, NextRevision DEF StreamInv, e
<1> HIDE DEF a
<1>9. Staged(a)
  BY <1>4, <1>6, <1>7 DEF StreamInv, Staged
<1>10. Granted(a)
  <2> SUFFICES ASSUME NEW x \in Transitions(a) \ {1}
               PROVE  \E j \in Authorities(a) : /\ j < x
                                               /\ a[j].expected + 1 = a[x].rev
                                               /\ a[j].body.to = a[x].to
                                               /\ a[j].body.src = a[x].src
    BY DEF Granted
  <2>1. CASE x = n
    <3>1. i \in DOMAIN ev /\ i \in Nat /\ i < n
      BY <1>4, <1>7
    <3>2. a[i] = ev[i] /\ a[x] = e
      BY <1>7, <2>1, <3>1
    <3> QED
      BY <1>1, <1>2, <1>7, <2>1, <3>1, <3>2
  <2>2. CASE x # n
    <3>1. x \in Transitions(ev) \ {1} /\ a[x] = ev[x]
      BY <1>4, <1>7, <2>2
    <3> QED
      BY <1>4, <1>7, <3>1 DEF StreamInv, Granted
  <2> QED
    BY <2>1, <2>2
<1>11. Earned(a)
  BY <1>4, <1>7 DEF StreamInv, Earned
<1>12. OneGrant(a) /\ OneEach(a)
  BY <1>4, <1>7 DEF StreamInv, OneGrant, OneEach
<1>13. StreamInv(a)
  BY <1>8, <1>9, <1>10, <1>11, <1>12 DEF StreamInv
<1> QED
  BY <1>13 DEF a, e

\* The stream of a run that was not created, and of one that just was.
LEMMA FirstStreams ==
  ASSUME NEW first, first.type = "transition_committed", first.rev = 1,
         first.to = "created", first.src = "none", first \in Events
  PROVE  StreamInv(<<>>) /\ StreamInv(<<first>>)
<1>1. StreamInv(<<>>)
  <2> DEFINE ev == <<>>
  <2>1. DOMAIN ev = {} /\ ~ (ev # <<>>)
    OBVIOUS
  <2>2. StateRevision(ev) = 0
    BY DEF StateRevision
  <2> HIDE DEF ev
  <2>3. Transitions(ev) = {} /\ Authorities(ev) = {}
    BY <2>1 DEF Transitions, Authorities, Of
  <2>4. IsFiniteSet({}) /\ Cardinality({}) = 0
    BY FS_EmptySet
  <2>5. Numbered(ev)
    BY <2>1, <2>2, <2>3, <2>4 DEF Numbered
  <2>6. Staged(ev) /\ Granted(ev) /\ Earned(ev) /\ OneGrant(ev) /\ OneEach(ev)
    BY <2>3 DEF Staged, Granted, Earned, OneGrant, OneEach
  <2> QED
    BY <2>5, <2>6 DEF StreamInv, ev
<1>2. StreamInv(<<first>>)
  <2> DEFINE ev == <<first>>
  <2>1. ev # <<>> /\ Len(ev) = 1 /\ DOMAIN ev = {1} /\ ev[1] = first
    OBVIOUS
  <2> HIDE DEF ev
  <2>2. Transitions(ev) = {1} /\ Authorities(ev) = {} /\ StateRevision(ev) = 1
    BY <2>1 DEF Transitions, Authorities, Of, StateRevision
  <2>3. IsFiniteSet({1}) /\ Cardinality({1}) = 1
    BY FS_Singleton
  <2>4. Numbered(ev)
    BY <2>1, <2>2, <2>3 DEF Numbered
  <2>5. Staged(ev)
    BY <2>1, <2>2 DEF Staged, Stage
  <2>6. Granted(ev) /\ Earned(ev) /\ OneGrant(ev) /\ OneEach(ev)
    BY <2>2 DEF Granted, Earned, OneGrant, OneEach
  <2> QED
    BY <2>4, <2>5, <2>6 DEF StreamInv, ev
<1> QED
  BY <1>1, <1>2
-----------------------------------------------------------------------------
(* What the stream invariant says about the run.                           *)

\* Its transitions are one legal history.
LEMMA HistoryLegal ==
  ASSUME events \in Seq(Events), StreamInv(events)
  PROVE  LegalHistory
<1> DEFINE moves == Transitions(events)
<1>1. moves \subseteq DOMAIN events /\ Authorities(events) \subseteq DOMAIN events
  BY DEF Transitions, Authorities, Of
<1>2. /\ DOMAIN events = 1 .. Len(events) /\ Len(events) \in Nat /\ StateRevision(events) \in Nat
      /\ \A i \in DOMAIN events : events[i] \in Events /\ events[i].rev \in Nat
  BY RevisionTypes, EventTypes
<1>3. {events[i].rev : i \in moves} = 1 .. Cardinality(moves)
  BY <1>1, <1>2 DEF StreamInv, Numbered
<1>4. ASSUME NEW i \in moves
      PROVE  \/ events[i].rev = 1 /\ i = 1 /\ events[i].to = "created"
             \/ \E j \in moves : /\ j < i
                                 /\ events[j].rev + 1 = events[i].rev
                                 /\ <<events[j].to, events[i].to>> \in RUN_EDGES
  <2>1. events # <<>> /\ 1 \in DOMAIN events
    BY <1>1, <1>2, RevisionTypes, EmptySeq
  <2>2. CASE i = 1
    BY <2>1, <2>2 DEF StreamInv, Numbered, Staged, Stage
  <2>3. CASE i # 1
    <3>1. PICK g \in Authorities(events) : /\ events[g].expected + 1 = events[i].rev
                                           /\ events[g].body.to = events[i].to
      BY <2>3 DEF StreamInv, Granted
    <3>2. PICK j \in moves : /\ events[j].rev = events[g].expected
                             /\ Follows(events[j], events[g].body)
      BY DEF StreamInv, Earned
    <3>3. j < i
      <4>1. events[j].rev < events[i].rev
        BY <1>1, <1>2, <3>1, <3>2
      <4>2. ~ (i < j) /\ i # j
        BY <1>1, <1>2, <4>1 DEF StreamInv, Numbered
      <4> QED
        BY <1>1, <1>2, <4>2
    <3>4. <<events[j].to, events[i].to>> \in RUN_EDGES
      BY <3>1, <3>2 DEF Follows
    <3> QED
      BY <3>1, <3>2, <3>3, <3>4
  <2> QED
    BY <2>2, <2>3
<1> QED
  BY <1>3, <1>4 DEF LegalHistory

\* Every change has its authority, and every revision at most one.
LEMMA HistoryAuthorized ==
  ASSUME events \in Seq(Events), StreamInv(events)
  PROVE  Authorized
<1> DEFINE granted == Authorities(events)
           revs == {events[i].expected : i \in granted}
           f == [i \in granted |-> events[i].expected]
<1>1. IsFiniteSet(granted)
  <2>1. granted \in SUBSET (1 .. Len(events)) /\ Len(events) \in Nat
    BY RevisionTypes DEF Authorities, Of
  <2>2. IsFiniteSet(1 .. Len(events))
    BY <2>1, FS_Interval
  <2> QED
    BY <2>1, <2>2, FS_Subset
<1>2. \A i, j \in granted : f[i] = f[j] => i = j
  BY DEF StreamInv, OneGrant
<1>3. f \in [granted -> revs] /\ \A r \in revs : \E i \in granted : f[i] = r
  OBVIOUS
<1>4. f \in Bijection(granted, revs)
  BY <1>2, <1>3 DEF Bijection, Injection, Surjection, IsInjective
<1>5. Cardinality(revs) = Cardinality(granted)
  BY <1>1, <1>4, FS_Bijection DEF ExistsBijection
<1> QED
  BY <1>5 DEF StreamInv, Granted, Authorized

\* Only the running run is charged, and it is left once.
LEMMA HistoryCharged ==
  ASSUME events \in Seq(Events), StreamInv(events)
  PROVE  ChargedOnce
<1>1. \A i \in Charges(events) : events[i].expected = 5
  BY DEF Charges, StreamInv, Earned, Follows, Staged, Stage
<1>2. \A i, j \in Charges(events) : i = j
  BY <1>1 DEF Charges, StreamInv, OneGrant
<1>3. CASE Charges(events) = {}
  BY <1>3, FS_EmptySet DEF ChargedOnce
<1>4. CASE Charges(events) # {}
  <2>1. PICK i : Charges(events) = {i}
    BY <1>2, <1>4
  <2>2. Cardinality({i}) = 1
    BY FS_Singleton
  <2> QED
    BY <2>1, <2>2 DEF ChargedOnce
<1> QED
  BY <1>3, <1>4

\* A run that succeeds never degraded and passed the confidence gate.
LEMMA HistoryFailsClosed ==
  ASSUME events \in Seq(Events), StreamInv(events)
  PROVE  FailClosed
<1> SUFFICES ASSUME RunState(events) = "succeeded"
             PROVE  /\ \A t \in Transitions(events) : events[t].to # "degrading"
                    /\ \E i \in Charges(events) : events[i].body.src = "confidence_success"
  BY DEF FailClosed
<1>1. events # <<>>
  BY DEF RunState
<1>2. PICK t \in Transitions(events) : events[t].to = "succeeded"
  BY <1>1, RunStateIs DEF StreamInv
<1>3. /\ 1 \in Transitions(events) /\ events[1].rev = 1
      /\ \A x \in Transitions(events) : x \in DOMAIN events /\ events[x].rev \in Nat
      /\ \A i \in Authorities(events) : i \in DOMAIN events /\ events[i].expected \in Nat
  BY <1>1, RevisionTypes, EventTypes, EmptySeq DEF StreamInv, Numbered, Transitions, Authorities, Of
<1>4. events[t].rev = 7
  BY <1>2 DEF StreamInv, Staged, Stage
<1>5. PICK g \in Authorities(events) : /\ events[g].expected = 6
                                       /\ events[g].body.to = "succeeded"
  <2>1. PICK g \in Authorities(events) : /\ events[g].expected + 1 = events[t].rev
                                         /\ events[g].body.to = events[t].to
    BY <1>3, <1>4 DEF StreamInv, Granted
  <2> QED
    BY <1>2, <1>3, <1>4, <2>1
<1>6. PICK s \in Transitions(events) : /\ events[s].rev = 6
                                       /\ events[s].to = "summarizing"
                                       /\ events[s].src = "confidence_success"
  <2>1. PICK s \in Transitions(events) : /\ events[s].rev = events[g].expected
                                         /\ Follows(events[s], events[g].body)
    BY DEF StreamInv, Earned
  <2>2. events[s].to = "summarizing" /\ events[s].src = "confidence_success"
    BY <1>5, <2>1 DEF Follows, Leads
  <2> QED
    BY <1>5, <2>1, <2>2
<1>7. \A x \in Transitions(events) : events[x].to # "degrading"
  BY <1>6 DEF StreamInv, Staged, Stage, Numbered
<1>8. PICK h \in Authorities(events) : events[h].body.src = "confidence_success"
  BY <1>3, <1>6 DEF StreamInv, Granted
<1>9. h \in Charges(events)
  BY <1>8 DEF StreamInv, Earned, Follows, Charges
<1> QED
  BY <1>7, <1>8, <1>9

\* A candidate has one decision.
LEMMA HistoryAnswers ==
  ASSUME events \in Seq(Events), StreamInv(events)
  PROVE  AnsweredOnce
<1> SUFFICES ASSUME NEW c \in Candidates PROVE Cardinality(Answers(events, c)) <= 1
  BY DEF AnsweredOnce
<1>1. \A i, j \in Answers(events, c) : i = j
  BY DEF Answers, StreamInv, OneEach
<1>2. CASE Answers(events, c) = {}
  BY <1>2, FS_EmptySet
<1>3. CASE Answers(events, c) # {}
  <2>1. PICK i : Answers(events, c) = {i}
    BY <1>1, <1>3
  <2>2. Cardinality({i}) = 1
    BY FS_Singleton
  <2> QED
    BY <2>1, <2>2
<1> QED
  BY <1>2, <1>3
-----------------------------------------------------------------------------
(* Types.                                                                  *)

Hand == [expected : Nat, body : Payloads]

CallTypes ==
    /\ pc' \in [Kernels -> PCs]
    /\ call' \in [Kernels -> Calls]
    /\ at' \in [Kernels -> 0 .. Len(events)]
    /\ retried' \in [Kernels -> BOOLEAN]
    /\ decision' \in [Kernels -> Hand]

\* A call that holds the whole stream decides on the stream.
LEMMA ViewAll ==
  ASSUME TypeOK, NEW k \in Kernels, Len(events) = at[k]
  PROVE  View(k) = events
<1>1. events \in Seq(Events)
  BY DEF TypeOK
<1> QED
  BY <1>1, SubSeqFull DEF View

\* A kernel between calls.
LEMMA NoDecisionType == NoDecision \in Hand /\ NoCall \in Calls
BY DEF NoDecision, NoCall, Hand, Payload, Payloads, Calls

\* A step to another place in the code.
LEMMA GotoTypes ==
  ASSUME TypeOK, NEW k \in Kernels, NEW where \in PCs, Goto(k, where)
  PROVE  pc' \in [Kernels -> PCs]
BY DEF TypeOK, Goto

\* A call that returns or raises.
LEMMA ReturnTypes ==
  ASSUME TypeOK, NEW k \in Kernels, Return(k)
  PROVE  CallTypes /\ pc'[k] = "idle"
<1>1. pc' \in [Kernels -> PCs] /\ pc'[k] = "idle"
  BY DEF TypeOK, Return, Goto, PCs
<1>2. call' \in [Kernels -> Calls]
  BY NoDecisionType DEF TypeOK, Return
<1>3. at' \in [Kernels -> 0 .. Len(events)]
  <2>1. Len(events) \in Nat /\ 0 \in 0 .. Len(events)
    BY RevisionTypes DEF TypeOK
  <2> QED
    BY <2>1 DEF TypeOK, Return
<1>4. retried' \in [Kernels -> BOOLEAN]
  BY DEF TypeOK, Return
<1>5. decision' \in [Kernels -> Hand]
  BY NoDecisionType DEF TypeOK, Return, Hand
<1> QED
  BY <1>1, <1>2, <1>3, <1>4, <1>5 DEF CallTypes

\* A call that lost the race.
LEMMA RetryTypes ==
  ASSUME TypeOK, NEW k \in Kernels, Retry(k)
  PROVE  CallTypes /\ ledger' \subseteq Kernels /\ pc'[k] \in {"idle", "loaded"}
<1>1. ledger' \subseteq Kernels
  BY DEF TypeOK, Retry
<1>2. CASE retried[k] /\ Return(k)
  BY <1>1, <1>2, ReturnTypes
<1>3. CASE ~ retried[k]
  <2>1. pc' \in [Kernels -> PCs] /\ pc'[k] = "loaded"
    BY <1>3 DEF TypeOK, Retry, Goto, PCs
  <2>2. at' \in [Kernels -> 0 .. Len(events)]
    <3>1. Len(events) \in 0 .. Len(events)
      BY RevisionTypes DEF TypeOK
    <3> QED
      BY <1>3, <3>1 DEF TypeOK, Retry
  <2>3. retried' \in [Kernels -> BOOLEAN]
    BY <1>3 DEF TypeOK, Retry
  <2>4. decision' \in [Kernels -> Hand]
    BY <1>3, NoDecisionType DEF TypeOK, Retry, Hand
  <2>5. call' \in [Kernels -> Calls]
    BY <1>3 DEF TypeOK, Retry
  <2> QED
    BY <1>1, <2>1, <2>2, <2>3, <2>4, <2>5 DEF CallTypes
<1> QED
  BY <1>2, <1>3 DEF Retry

\* A backend holds a prefix of the stream.
LEMMA HoldsTypes ==
  ASSUME TypeOK, NEW k \in Kernels, NEW n \in 0 .. Len(events), Holds(k, n)
  PROVE  backend' \in [Kernels -> 0 .. Len(events)]
BY DEF TypeOK, Holds

\* A call that reached the backend has the whole stream before it.
LEMMA EntersTypes ==
  ASSUME TypeOK, NEW k \in Kernels, Enters(k)
  PROVE  /\ backend' \in [Kernels -> 0 .. Len(events)] /\ ledger' \subseteq Kernels
         /\ View(k) = events
<1>1. at[k] \in 0 .. Len(events)
  BY DEF TypeOK
<1>2. View(k) = events
  BY ViewAll DEF Enters, Issued
<1> QED
  BY <1>1, <1>2, HoldsTypes DEF Enters, TypeOK

\* A call that did not reach it.
LEMMA CannotEnterTypes ==
  ASSUME TypeOK, NEW k \in Kernels, CannotEnter(k)
  PROVE  /\ CallTypes /\ ledger' \subseteq Kernels /\ pc'[k] = "idle"
         /\ UNCHANGED <<events, backend, stopped, faults>>
BY ReturnTypes DEF CannotEnter, TypeOK

\* A step that leaves the stream alone.
LEMMA SameStreamTypes ==
  ASSUME TypeOK, CallTypes, events' = events, backend' \in [Kernels -> 0 .. Len(events)],
         stopped' \subseteq Kernels, ledger' \subseteq Kernels, faults' \in 0 .. MaxFaults
  PROVE  TypeOK'
BY DEF TypeOK, CallTypes, Hand

\* A step that appends to it.
LEMMA AppendTypes ==
  ASSUME TypeOK, CallTypes, NEW e \in Events, events' = Append(events, e),
         backend' \in [Kernels -> 0 .. Len(events)],
         stopped' \subseteq Kernels, ledger' \subseteq Kernels, faults' \in 0 .. MaxFaults
  PROVE  TypeOK'
<1>1. events' \in Seq(Events) /\ Len(events') = Len(events) + 1 /\ Len(events) \in Nat
  BY AppendFacts, RevisionTypes DEF TypeOK
<1>2. \A S : \A f \in [S -> 0 .. Len(events)] : f \in [S -> 0 .. Len(events')]
  BY <1>1
<1>3. /\ at' \in [Kernels -> 0 .. Len(events')]
      /\ backend' \in [Kernels -> 0 .. Len(events')]
  BY <1>2 DEF CallTypes
<1> QED
  BY <1>1, <1>3 DEF TypeOK, CallTypes, Hand
-----------------------------------------------------------------------------
(* What a step of a kernel does to the stream and to its call.             *)

First == TransitionEvent(0, Payload("created", "none", NoCandidate, "none", 0))

\* An event that changes no state: with the current revision, and no permit to
\* continue after a stop.
Aside(e) ==
    /\ e.type \notin {"transition_committed", "transition_authorized"}
    /\ e.rev = StateRevision(events)
    /\ e.type = "node_checkpoint_recorded" =>
          /\ \A i \in Checkpoints(events) : events[i].permit = "continue"
          /\ Cancelling(events) => e.permit = "stop"

Authorizes(k) ==
    LET e == AuthorityEvent(StateRevision(events), decision[k].expected, decision[k].body)
    IN  /\ pc[k] = "authorizing" /\ pc'[k] = "allowed"
        /\ decision'[k] = decision[k] /\ call'[k] = call[k]
        /\ e \in Events /\ ~ Conflicts(events, e) /\ events' = Append(events, e)

Commits(k) ==
    LET e == TransitionEvent(decision[k].expected, decision[k].body)
    IN  /\ pc[k] = "authorized" /\ pc'[k] = "committed"
        /\ decision'[k] = decision[k] /\ call'[k] = call[k]
        /\ decision[k].expected = StateRevision(events)
        /\ e \in Events /\ events' = Append(events, e)

Writes(k) ==
    \/ events' = events
    \/ events = <<>> /\ events' = <<First>>
    \/ events # <<>> /\ \E e \in Events : Aside(e) /\ events' = Append(events, e)
    \/ events # <<>> /\ (Authorizes(k) \/ Commits(k))

\* The call keeps the decision it has in hand, ...
Keeps(k) ==
    /\ decision'[k] = decision[k] /\ call'[k] = call[k]
    /\ \/ <<pc[k], pc'[k]>> \in {<<"settling", "settled">>, <<"settled", "authorizing">>,
                                 <<"allowed", "authorized">>}
       \/ pc'[k] = pc[k] /\ events' = events

\* ... takes up one that was authorized, ...
Takes(k) ==
    /\ pc'[k] = "authorized" /\ call'[k] = call[k]
    /\ events # <<>> /\ events' = events
    /\ \E i \in Authorities(events) :
          /\ decision'[k] = [expected |-> events[i].expected, body |-> events[i].body]
          /\ call[k].op = "cancel" => events[i].body = CancelPayload

\* ... or takes a new one, at the current revision.
Decides(k) ==
    LET d == decision'[k]
    IN  /\ pc'[k] \in {"settling", "authorizing"} /\ call'[k] = call[k]
        /\ pc'[k] = "settling" => d.body.settled # "none"
        /\ events # <<>> /\ events' = events
        /\ d.expected = StateRevision(events)
        /\ \E t \in Transitions(events) : /\ events[t].rev = StateRevision(events)
                                          /\ Follows(events[t], d.body)
        /\ Unanswered(events, StateRevision(events), d.body.cand)
        /\ call[k].op = "cancel" => d.body = CancelPayload

\* Where a call has no decision in hand it has a run, or none of its own yet.
Idles(k) ==
    /\ pc'[k] \notin Deciding \cup {"committed"}
    /\ pc'[k] \notin {"idle", "creating"} => events' # <<>>

Turns(k) == Idles(k) \/ Keeps(k) \/ Authorizes(k) \/ Commits(k) \/ Takes(k) \/ Decides(k)

Others(k) ==
    \A q \in Kernels \ {k} : pc'[q] = pc[q] /\ call'[q] = call[q] /\ decision'[q] = decision[q]

Halts == stopped' \subseteq stopped \/ (events' = events /\ RunState(events) = "cancelled")

Done(k) == TypeOK' /\ Writes(k) /\ Turns(k) /\ Others(k) /\ Halts

-----------------------------------------------------------------------------
(* Calls that end.                                                         *)

\* A kernel that returns has no decision in hand.
LEMMA ReturnTurns ==
  ASSUME TypeOK, NEW k \in Kernels, Return(k)
  PROVE  Idles(k) /\ Others(k)
<1>1. pc'[k] = "idle"
  BY ReturnTypes
<1>2. Others(k)
  BY DEF TypeOK, Return, Goto, Others
<1> QED
  BY <1>1, <1>2 DEF Idles, Deciding

\* A return is a step of this kind whatever else the call did to its own kernel.
LEMMA ReturnDone ==
  ASSUME RunInv, NEW k \in Kernels, Return(k), events' = events,
         backend' \in [Kernels -> 0 .. Len(events)],
         stopped' \subseteq stopped \/ RunState(events) = "cancelled",
         stopped' \subseteq Kernels, ledger' \subseteq Kernels, faults' \in 0 .. MaxFaults
  PROVE  Done(k)
<1>1. TypeOK'
  BY ReturnTypes, SameStreamTypes DEF RunInv
<1>2. Idles(k) /\ Others(k)
  BY ReturnTurns DEF RunInv
<1> QED
  BY <1>1, <1>2 DEF Done, Writes, Turns, Halts

\* A retried call starts from a fresh load, with no decision in hand.
LEMMA RetryTurns ==
  ASSUME RunInv, NEW k \in Kernels, Retry(k), pc[k] \notin {"idle", "creating"}, events' = events
  PROVE  Idles(k) /\ Others(k)
<1>1. events # <<>>
  BY DEF RunInv, KernelInv, Begun
<1>2. pc'[k] \in {"idle", "loaded"}
  BY RetryTypes DEF RunInv
<1>3. Others(k)
  BY DEF RunInv, TypeOK, Retry, Return, Goto, Others
<1> QED
  BY <1>1, <1>2, <1>3 DEF Idles, Deciding

\* A lost append leaves the stream alone.
LEMMA LosesDone ==
  ASSUME RunInv, NEW k \in Kernels, NEW e, LosesRace(k, e), pc[k] \notin {"idle", "creating"}
  PROVE  Done(k)
<1>1. Retry(k) /\ UNCHANGED <<events, backend, stopped, faults>>
  BY DEF LosesRace
<1>2. Idles(k) /\ Others(k)
  BY <1>1, RetryTurns
<1>3. CallTypes /\ ledger' \subseteq Kernels
  BY <1>1, RetryTypes DEF RunInv
<1>4. TypeOK'
  <2>1. /\ TypeOK /\ events' = events /\ backend' \in [Kernels -> 0 .. Len(events)]
        /\ stopped' \subseteq Kernels /\ faults' \in 0 .. MaxFaults
    BY <1>1 DEF RunInv, TypeOK
  <2> QED
    BY <1>3, <2>1, SameStreamTypes
<1> QED
  BY <1>1, <1>2, <1>4 DEF Done, Writes, Turns, Halts

\* So does a call the backend refuses.
LEMMA CannotDone ==
  ASSUME RunInv, NEW k \in Kernels, CannotEnter(k)
  PROVE  Done(k)
<1>1. Return(k) /\ UNCHANGED <<events, backend, stopped, faults>>
  BY DEF CannotEnter
<1>2. ledger' \subseteq Kernels
  BY CannotEnterTypes DEF RunInv
<1>3. /\ backend' \in [Kernels -> 0 .. Len(events)] /\ stopped' \subseteq Kernels
      /\ faults' \in 0 .. MaxFaults
  BY <1>1 DEF RunInv, TypeOK
<1> QED
  BY <1>1, <1>2, <1>3, ReturnDone

\* A call that returns and leaves the rest alone.
LEMMA PlainReturnDone ==
  ASSUME RunInv, NEW k \in Kernels, Return(k), UNCHANGED <<events, backend, stopped, faults>>,
         ledger' \subseteq Kernels
  PROVE  Done(k)
<1>1. /\ backend' \in [Kernels -> 0 .. Len(events)] /\ stopped' \subseteq Kernels
      /\ faults' \in 0 .. MaxFaults
  BY DEF RunInv, TypeOK
<1> QED
  BY <1>1, ReturnDone

\* A call that appends an event aside.
LEMMA AsideDone ==
  ASSUME RunInv, NEW k \in Kernels, pc[k] \notin {"idle", "creating"},
         NEW e \in Events, Aside(e), events' = Append(events, e),
         CallTypes, Idles(k) \/ Keeps(k), Others(k),
         UNCHANGED <<backend, stopped, faults>>, ledger' \subseteq Kernels
  PROVE  Done(k)
<1>1. events # <<>>
  BY DEF RunInv, KernelInv, Begun
<1>2. TypeOK'
  <2>1. /\ TypeOK /\ backend' \in [Kernels -> 0 .. Len(events)]
        /\ stopped' \subseteq Kernels /\ faults' \in 0 .. MaxFaults
    BY DEF RunInv, TypeOK
  <2> QED
    BY <2>1, AppendTypes
<1> QED
  BY <1>1, <1>2 DEF Done, Writes, Turns, Halts

\* A call that answers, refuses or raises without a word.
LEMMA QuietDone ==
  ASSUME RunInv, NEW k \in Kernels,
         \/ RefuseCheckpoint(k) \/ StaleCaller(k) \/ AlreadyTerminal(k) \/ CancelTooLate(k)
  PROVE  Done(k)
<1>1. Return(k) /\ UNCHANGED <<events, backend, stopped, ledger, faults>>
  BY DEF RefuseCheckpoint, StaleCaller, AlreadyTerminal, CancelTooLate
<1>2. ledger' \subseteq Kernels
  BY <1>1 DEF RunInv, TypeOK
<1> QED
  BY <1>1, <1>2, PlainReturnDone

\* A call that reaches the backend and returns.
LEMMA AnswerDone ==
  ASSUME RunInv, NEW k \in Kernels, ReplayCandidate(k) \/ RefuseUsage(k)
  PROVE  Done(k)
<1>1. CASE CannotEnter(k)
  BY <1>1, CannotDone
<1>2. CASE Enters(k) /\ Return(k) /\ UNCHANGED <<events, stopped, faults>>
  <2>1. backend' \in [Kernels -> 0 .. Len(events)] /\ ledger' \subseteq Kernels
    BY <1>2, EntersTypes DEF RunInv
  <2>2. stopped' \subseteq Kernels /\ faults' \in 0 .. MaxFaults
    BY <1>2 DEF RunInv, TypeOK
  <2> QED
    BY <1>2, <2>1, <2>2, ReturnDone
<1> QED
  BY <1>1, <1>2 DEF ReplayCandidate, RefuseUsage

\* The backend is stopped on a view that is cancelled, and the view is the stream.
LEMMA CancelBackendDone ==
  ASSUME RunInv, NEW k \in Kernels, CancelBackend(k)
  PROVE  Done(k)
<1>1. CASE CannotEnter(k)
  BY <1>1, CannotDone
<1>2. CASE /\ Enters(k) /\ stopped' = stopped \cup {k} /\ Return(k) /\ UNCHANGED <<events, faults>>
  <2>1. /\ backend' \in [Kernels -> 0 .. Len(events)] /\ ledger' \subseteq Kernels
        /\ View(k) = events
    BY <1>2, EntersTypes DEF RunInv
  <2>2. RunState(events) = "cancelled"
    BY <2>1 DEF CancelBackend
  <2>3. stopped' \subseteq Kernels /\ faults' \in 0 .. MaxFaults
    BY <1>2 DEF RunInv, TypeOK
  <2> QED
    BY <1>2, <2>1, <2>2, <2>3, ReturnDone
<1> QED
  BY <1>1, <1>2 DEF CancelBackend

\* The registration that ends create.
LEMMA RegisterDone ==
  ASSUME RunInv, NEW k \in Kernels, Register(k)
  PROVE  Done(k)
<1>1. Return(k) /\ UNCHANGED <<events, stopped, ledger, faults>>
  BY DEF Register
<1>2. /\ stopped' \subseteq Kernels /\ ledger' \subseteq Kernels /\ faults' \in 0 .. MaxFaults
      /\ backend \in [Kernels -> 0 .. Len(events)] /\ Len(events) \in 0 .. Len(events)
  BY <1>1, RevisionTypes DEF RunInv, TypeOK
<1>3. Holds(k, Len(events)) \/ backend' = backend
  BY DEF Register
<1>4. backend' \in [Kernels -> 0 .. Len(events)]
  BY <1>2, <1>3, HoldsTypes DEF RunInv
<1> QED
  BY <1>1, <1>2, <1>4, ReturnDone

\* Only a call that committed a cancellation stops the backend, and the run
\* is cancelled then.
LEMMA ProjectDone ==
  ASSUME RunInv, NEW k \in Kernels, Project(k)
  PROVE  Done(k)
<1>1. pc[k] = "committed" /\ Return(k) /\ UNCHANGED <<events, ledger, faults>>
  BY DEF Project
<1>2. \/ Holds(k, Len(events)) /\ stopped' = IF call[k].op = "cancel" THEN stopped \cup {k} ELSE stopped
      \/ UNCHANGED <<backend, stopped>>
  BY DEF Project
<1>3. /\ ledger' \subseteq Kernels /\ faults' \in 0 .. MaxFaults
      /\ backend \in [Kernels -> 0 .. Len(events)] /\ Len(events) \in 0 .. Len(events)
      /\ stopped \subseteq Kernels
  BY <1>1, RevisionTypes DEF RunInv, TypeOK
<1>4. backend' \in [Kernels -> 0 .. Len(events)]
  BY <1>2, <1>3, HoldsTypes DEF RunInv
<1>5. call[k].op = "cancel" => RunState(events) = "cancelled"
  BY <1>1 DEF RunInv, KernelInv, CancelOK
<1>6. /\ stopped' \subseteq stopped \/ RunState(events) = "cancelled"
      /\ stopped' \subseteq Kernels
  BY <1>2, <1>3, <1>5
<1> QED
  BY <1>1, <1>3, <1>4, <1>6, ReturnDone

\* A crash and a failure of the issuer lose the call and nothing in the store.
LEMMA FaultDone ==
  ASSUME RunInv, NEW k \in Kernels, Crash(k) \/ IssuerFails(k)
  PROVE  Done(k)
<1>1. /\ Return(k) /\ UNCHANGED events /\ stopped' \subseteq stopped
      /\ faults < MaxFaults /\ faults' = faults + 1
      /\ ledger' \subseteq ledger \cup {k}
      /\ backend' = [backend EXCEPT ![k] = 0] \/ backend' = backend
  BY DEF Crash, IssuerFails
<1>2. /\ backend \in [Kernels -> 0 .. Len(events)] /\ 0 \in 0 .. Len(events)
      /\ stopped \subseteq Kernels /\ ledger \subseteq Kernels /\ faults \in 0 .. MaxFaults
  BY RevisionTypes DEF RunInv, TypeOK
<1>3. faults' \in 0 .. MaxFaults
  BY <1>1, <1>2
<1>4. backend' \in [Kernels -> 0 .. Len(events)]
  BY <1>1, <1>2
<1> QED
  BY <1>1, <1>2, <1>3, <1>4, ReturnDone

-----------------------------------------------------------------------------
(* Calls that begin, and calls that append an event aside.                 *)

\* A call that moves on with what it has.
LEMMA MoveTypes ==
  ASSUME TypeOK, NEW k \in Kernels, NEW where \in PCs, Goto(k, where),
         UNCHANGED <<call, retried, decision>>, at' \in [Kernels -> 0 .. Len(events)]
  PROVE  CallTypes /\ Others(k) /\ pc'[k] = where
<1>1. pc' \in [Kernels -> PCs] /\ pc'[k] = where /\ \A q \in Kernels \ {k} : pc'[q] = pc[q]
  BY DEF TypeOK, Goto
<1>2. CallTypes
  BY <1>1 DEF TypeOK, CallTypes, Hand
<1> QED
  BY <1>1, <1>2 DEF Others

\* The beginning of create.
LEMMA CreateDone ==
  ASSUME RunInv, NEW k \in Kernels, Create(k)
  PROVE  Done(k)
<1>1. TypeOK
  BY DEF RunInv
<1>2. pc' \in [Kernels -> PCs] /\ pc'[k] = "creating" /\ \A q \in Kernels \ {k} : pc'[q] = pc[q]
  BY <1>1 DEF TypeOK, Create, Goto, PCs
<1>3. [op |-> "create"] \in Calls
  BY DEF Calls
<1>4. call' \in [Kernels -> Calls] /\ \A q \in Kernels \ {k} : call'[q] = call[q]
  BY <1>1, <1>3 DEF TypeOK, Create
<1>5. CallTypes
  BY <1>1, <1>2, <1>4 DEF TypeOK, Create, CallTypes, Hand
<1>6. TypeOK'
  <2>1. /\ events' = events /\ backend' \in [Kernels -> 0 .. Len(events)]
        /\ stopped' \subseteq Kernels /\ ledger' \subseteq Kernels /\ faults' \in 0 .. MaxFaults
    BY <1>1 DEF TypeOK, Create
  <2> QED
    BY <1>1, <1>5, <2>1, SameStreamTypes
<1>7. Others(k)
  BY <1>2, <1>4 DEF Create, Others
<1>8. Idles(k)
  BY <1>2 DEF Idles, Deciding
<1>9. events' = events /\ stopped' = stopped
  BY DEF Create
<1> QED
  BY <1>6, <1>7, <1>8, <1>9 DEF Done, Writes, Turns, Halts

\* The first event of a run.
LEMMA FirstType ==
  First \in Events /\ First.type = "transition_committed" /\ First.rev = 1
                   /\ First.to = "created" /\ First.src = "none"
BY DEF First, TransitionEvent, Payload, Events, RunStates

\* The run is published in an empty stream or not at all.
LEMMA PublishDone ==
  ASSUME RunInv, NEW k \in Kernels, Publish(k)
  PROVE  Done(k)
<1>1. TypeOK /\ pc[k] = "creating" /\ UNCHANGED <<backend, stopped, ledger, faults>>
  BY DEF RunInv, Publish
<1>2. CASE events # <<>> /\ Return(k) /\ UNCHANGED events
  <2>1. ledger' \subseteq Kernels
    BY <1>1 DEF TypeOK
  <2> QED
    BY <1>1, <1>2, <2>1, PlainReturnDone
<1>3. CASE /\ events = <<>> /\ events' = <<First>> /\ Goto(k, "published")
           /\ at' = [at EXCEPT ![k] = 1] /\ UNCHANGED <<call, retried, decision>>
  <2>1. pc' \in [Kernels -> PCs] /\ pc'[k] = "published" /\ \A q \in Kernels \ {k} : pc'[q] = pc[q]
    BY <1>1, <1>3 DEF TypeOK, Goto, PCs
  <2>2. events' \in Seq(Events) /\ Len(events') = 1 /\ Len(events) = 0 /\ events' # <<>>
    BY <1>3, FirstType
  <2>3. /\ at \in [Kernels -> 0 .. 0] /\ backend \in [Kernels -> 0 .. 0]
    BY <1>1, <2>2 DEF TypeOK
  <2>4. at' \in [Kernels -> 0 .. Len(events')] /\ backend' \in [Kernels -> 0 .. Len(events')]
    <3>1. 0 .. 0 \subseteq 0 .. 1 /\ 1 \in 0 .. 1
      OBVIOUS
    <3> QED
      BY <1>1, <1>3, <2>2, <2>3, <3>1
  <2>5. TypeOK'
    BY <1>1, <1>3, <2>1, <2>2, <2>4 DEF TypeOK
  <2>6. Others(k)
    BY <1>3, <2>1 DEF Others
  <2>7. Idles(k)
    BY <2>1, <2>2 DEF Idles, Deciding
  <2> QED
    BY <1>1, <1>3, <2>5, <2>6, <2>7 DEF Done, Writes, Turns, Halts
<1> QED
  BY <1>2, <1>3 DEF Publish, First

\* resume interrupts no call.
LEMMA ResumeDone ==
  ASSUME RunInv, NEW k \in Kernels, Resume(k)
  PROVE  Done(k)
<1>1. TypeOK
  BY DEF RunInv
<1>2. /\ UNCHANGED <<events, stopped, faults>> /\ ledger' = ledger \cup {k}
      /\ UNCHANGED pc /\ UNCHANGED call /\ UNCHANGED at /\ UNCHANGED retried /\ UNCHANGED decision
      /\ Holds(k, Len(events)) \/ backend' = backend
  BY DEF Resume, local
<1>3. CallTypes
  BY <1>1, <1>2 DEF TypeOK, CallTypes, Hand
<1>4. /\ backend \in [Kernels -> 0 .. Len(events)] /\ Len(events) \in 0 .. Len(events)
      /\ stopped' \subseteq Kernels /\ ledger' \subseteq Kernels /\ faults' \in 0 .. MaxFaults
  BY <1>1, <1>2, RevisionTypes DEF TypeOK
<1>5. backend' \in [Kernels -> 0 .. Len(events)]
  BY <1>1, <1>2, <1>4, HoldsTypes
<1>6. TypeOK'
  BY <1>1, <1>2, <1>3, <1>4, <1>5, SameStreamTypes
<1>7. Others(k)
  BY <1>2 DEF Others
<1>8. Keeps(k)
  BY <1>2 DEF Keeps
<1> QED
  BY <1>2, <1>6, <1>7, <1>8 DEF Done, Writes, Turns, Halts

\* A call loads a stream that exists.
LEMMA StartDone ==
  ASSUME RunInv, NEW k \in Kernels, NEW c \in Calls, Start(k, c)
  PROVE  Done(k)
<1>1. TypeOK
  BY DEF RunInv
<1>2. pc' \in [Kernels -> PCs] /\ pc'[k] = "loaded" /\ \A q \in Kernels \ {k} : pc'[q] = pc[q]
  BY <1>1 DEF TypeOK, Start, Goto, PCs
<1>3. call' \in [Kernels -> Calls] /\ \A q \in Kernels \ {k} : call'[q] = call[q]
  BY <1>1 DEF TypeOK, Start
<1>4. at' \in [Kernels -> 0 .. Len(events)]
  <2>1. Len(events) \in 0 .. Len(events)
    BY <1>1, RevisionTypes DEF TypeOK
  <2> QED
    BY <1>1, <2>1 DEF TypeOK, Start
<1>5. /\ events # <<>> /\ events' = events /\ stopped' = stopped /\ decision' = decision
      /\ retried' = retried /\ backend' = backend /\ ledger' = ledger /\ faults' = faults
  BY DEF Start
<1>6. CallTypes
  BY <1>1, <1>2, <1>3, <1>4, <1>5 DEF TypeOK, CallTypes, Hand
<1>7. TypeOK'
  <2>1. /\ backend' \in [Kernels -> 0 .. Len(events)]
        /\ stopped' \subseteq Kernels /\ ledger' \subseteq Kernels /\ faults' \in 0 .. MaxFaults
    BY <1>1, <1>5 DEF TypeOK
  <2> QED
    BY <1>1, <1>5, <1>6, <2>1, SameStreamTypes
<1>8. Others(k)
  BY <1>2, <1>3, <1>5 DEF Others
<1>9. Idles(k)
  BY <1>2, <1>5 DEF Idles, Deciding
<1> QED
  BY <1>5, <1>7, <1>8, <1>9 DEF Done, Writes, Turns, Halts

\* The three calls on a run.
LEMMA CallDone ==
  ASSUME RunInv, NEW k \in Kernels, Advance(k) \/ Cancel(k) \/ Checkpoint(k)
  PROVE  Done(k)
<1>1. CASE Advance(k)
  <2>1. PICK cand \in Candidates \cup {NoCandidate, Malformed},
             expect \in {AnyRevision, StateRevision(events)} :
             Start(k, [op |-> "advance", cand |-> cand, expect |-> expect])
    BY <1>1 DEF Advance
  <2>2. expect \in Int
    BY RevisionTypes DEF RunInv, TypeOK, AnyRevision
  <2>3. [op |-> "advance", cand |-> cand, expect |-> expect] \in Calls
    BY <2>2 DEF Calls
  <2> QED
    BY <2>1, <2>3, StartDone
<1>2. CASE Cancel(k)
  <2>1. [op |-> "cancel"] \in Calls
    BY DEF Calls
  <2> QED
    BY <1>2, <2>1, StartDone DEF Cancel
<1>3. CASE Checkpoint(k)
  <2>1. PICK permit \in {"continue", "degrade"} : Start(k, [op |-> "checkpoint", permit |-> permit])
    BY <1>3 DEF Checkpoint
  <2>2. [op |-> "checkpoint", permit |-> permit] \in Calls
    BY DEF Calls
  <2> QED
    BY <2>1, <2>2, StartDone
<1> QED
  BY <1>1, <1>2, <1>3

\* Permits come from the budget or from a recorded cancellation.
LEMMA RecordCheckpointDone ==
  ASSUME RunInv, NEW k \in Kernels, RecordCheckpoint(k)
  PROVE  Done(k)
<1> DEFINE permit == IF Cancelling(View(k)) THEN "stop" ELSE call[k].permit
           e == CheckpointEvent(StateRevision(View(k)), permit)
<1>1. TypeOK /\ pc[k] = "loaded" /\ call[k].op = "checkpoint" /\ MayCheckpoint(k)
  BY DEF RunInv, RecordCheckpoint, Loaded
<1>2. CASE LosesRace(k, e)
  BY <1>1, <1>2, LosesDone
<1>3. CASE Appends(k, e) /\ ledger' = ledger \cup {k} /\ Return(k) /\ UNCHANGED <<backend, stopped, faults>>
  <2>1. View(k) = events
    BY <1>1, <1>3, ViewAll DEF Appends, Raced
  <2>2. permit \in {"continue", "degrade", "stop"}
    BY <1>1 DEF TypeOK, Calls
  <2>3. /\ e.type = "node_checkpoint_recorded" /\ e.rev = StateRevision(events) /\ e.permit = permit
        /\ e \in Events
    <3>1. StateRevision(events) \in Nat
      BY <1>1, RevisionTypes DEF TypeOK
    <3> QED
      BY <2>1, <2>2, <3>1 DEF CheckpointEvent, Events
  <2>4. Aside(e)
    <3>1. \A i \in Checkpoints(events) : events[i].permit = "continue"
      BY <1>1, <2>1 DEF MayCheckpoint
    <3>2. Cancelling(events) => e.permit = "stop"
      BY <2>1, <2>3
    <3> HIDE DEF e
    <3> QED
      BY <2>3, <3>1, <3>2 DEF Aside
  <2>5. events' = Append(events, e)
    BY <1>3 DEF Appends
  <2>6. CallTypes /\ Idles(k) /\ Others(k)
    BY <1>1, <1>3, ReturnTypes, ReturnTurns
  <2>7. ledger' \subseteq Kernels
    BY <1>1, <1>3 DEF TypeOK
  <2> HIDE DEF e
  <2> QED
    BY <1>1, <1>3, <2>3, <2>4, <2>5, <2>6, <2>7, AsideDone
<1> QED
  BY <1>2, <1>3 DEF RecordCheckpoint

\* A refused candidate is recorded.
LEMMA RejectDone ==
  ASSUME RunInv, NEW k \in Kernels, RejectCandidate(k)
  PROVE  Done(k)
<1> DEFINE e == RejectEvent(StateRevision(View(k)))
<1>1. TypeOK /\ pc[k] = "loaded"
  BY DEF RunInv, RejectCandidate, NothingPending, Loaded
<1>2. CASE LosesRace(k, e)
  BY <1>1, <1>2, LosesDone
<1>3. CASE Appends(k, e) /\ Return(k) /\ UNCHANGED <<backend, stopped, ledger, faults>>
  <2>1. View(k) = events
    BY <1>1, <1>3, ViewAll DEF Appends, Raced
  <2>2. StateRevision(events) \in Nat
    BY <1>1, RevisionTypes DEF TypeOK
  <2>3. e.type = "candidate_rejected" /\ e.rev = StateRevision(events) /\ e \in Events
    BY <2>1, <2>2 DEF RejectEvent, Events
  <2>4. events' = Append(events, e)
    BY <1>3 DEF Appends
  <2>5. CallTypes /\ Idles(k) /\ Others(k)
    BY <1>1, <1>3, ReturnTypes, ReturnTurns
  <2>6. ledger' \subseteq Kernels
    BY <1>1, <1>3 DEF TypeOK
  <2> HIDE DEF e
  <2>7. Aside(e)
    BY <2>3 DEF Aside
  <2> QED
    BY <1>1, <1>3, <2>3, <2>4, <2>5, <2>6, <2>7, AsideDone
<1> QED
  BY <1>2, <1>3 DEF RejectCandidate

\* The intent to cancel is recorded.
LEMMA RequestDone ==
  ASSUME RunInv, NEW k \in Kernels, RequestCancellation(k)
  PROVE  Done(k)
<1> DEFINE e == IntentEvent(StateRevision(View(k)))
<1>1. TypeOK /\ pc[k] = "loaded"
  BY DEF RunInv, RequestCancellation, Loaded
<1>2. CASE LosesRace(k, e)
  BY <1>1, <1>2, LosesDone
<1>3. CASE /\ Appends(k, e) /\ Goto(k, "intended")
           /\ UNCHANGED <<call, at, retried, decision, backend, stopped, ledger, faults>>
  <2>1. View(k) = events
    BY <1>1, <1>3, ViewAll DEF Appends, Raced
  <2>2. StateRevision(events) \in Nat
    BY <1>1, RevisionTypes DEF TypeOK
  <2>3. e.type = "cancellation_requested" /\ e.rev = StateRevision(events) /\ e \in Events
    BY <2>1, <2>2 DEF IntentEvent, Events
  <2>4. events' = Append(events, e)
    BY <1>3 DEF Appends
  <2>5. "intended" \in PCs /\ at' \in [Kernels -> 0 .. Len(events)] /\ ledger' \subseteq Kernels
    BY <1>1, <1>3 DEF TypeOK, PCs
  <2>6. CallTypes /\ Others(k) /\ pc'[k] = "intended"
    BY <1>1, <1>3, <2>5, MoveTypes
  <2>7. events' # <<>>
    BY <1>1, <2>3, <2>4, AppendFacts DEF TypeOK
  <2>8. Idles(k)
    BY <2>6, <2>7 DEF Idles, Deciding
  <2> HIDE DEF e
  <2>9. Aside(e)
    BY <2>3 DEF Aside
  <2> QED
    BY <1>1, <1>3, <2>3, <2>4, <2>5, <2>6, <2>8, <2>9, AsideDone
<1> QED
  BY <1>2, <1>3 DEF RequestCancellation

\* A settlement is recorded with the decision still in hand.
LEMMA SettleDone ==
  ASSUME RunInv, NEW k \in Kernels, Settle(k)
  PROVE  Done(k)
<1> DEFINE e == SettlementEvent(StateRevision(View(k)), decision[k].body)
<1>1. TypeOK /\ pc[k] = "settling"
  BY DEF RunInv, Settle
<1>2. CASE LosesRace(k, e)
  BY <1>1, <1>2, LosesDone
<1>3. CASE /\ Appends(k, e) /\ Goto(k, "settled")
           /\ UNCHANGED <<call, at, retried, decision, backend, stopped, ledger, faults>>
  <2>1. View(k) = events
    BY <1>1, <1>3, ViewAll DEF Appends, Raced
  <2>2. StateRevision(events) \in Nat
    BY <1>1, RevisionTypes DEF TypeOK
  <2>3. decision[k].body \in Payloads /\ decision[k].body.settled # "none"
    BY <1>1 DEF RunInv, TypeOK, KernelInv, DecisionOK
  <2>4. decision[k].body.settled \in {"synthetic", "bound", "free"} /\ decision[k].body.usage \in Nat
    BY <2>3 DEF Payloads
  <2>5. e.type = "budget_settlement_recorded" /\ e.rev = StateRevision(events) /\ e \in Events
    BY <2>1, <2>2, <2>4 DEF SettlementEvent, Events
  <2>6. events' = Append(events, e)
    BY <1>3 DEF Appends
  <2>7. "settled" \in PCs /\ at' \in [Kernels -> 0 .. Len(events)] /\ ledger' \subseteq Kernels
    BY <1>1, <1>3 DEF TypeOK, PCs
  <2>8. CallTypes /\ Others(k) /\ pc'[k] = "settled"
    BY <1>1, <1>3, <2>7, MoveTypes
  <2>9. Keeps(k)
    BY <1>1, <1>3, <2>8 DEF Keeps
  <2> HIDE DEF e
  <2>10. Aside(e)
    BY <2>5 DEF Aside
  <2> QED
    BY <1>1, <1>3, <2>5, <2>6, <2>7, <2>8, <2>9, <2>10, AsideDone
<1> QED
  BY <1>2, <1>3 DEF Settle

\* The load after an append keeps the decision.
LEMMA ReloadDone ==
  ASSUME RunInv, NEW k \in Kernels, Reload(k)
  PROVE  Done(k)
<1>1. TypeOK /\ events' = events /\ stopped' = stopped /\ UNCHANGED <<call, retried, decision, backend, ledger, faults>>
  BY DEF RunInv, Reload
<1>2. <<pc[k], After[pc[k]]>> \in {<<"intended", "recorded">>, <<"settled", "authorizing">>,
                                   <<"allowed", "authorized">>}
  BY DEF Reload, After
<1>3. After[pc[k]] \in PCs /\ Goto(k, After[pc[k]])
  BY <1>2 DEF Reload, PCs
<1>4. at' \in [Kernels -> 0 .. Len(events)]
  <2>1. Len(events) \in 0 .. Len(events)
    BY <1>1, RevisionTypes DEF TypeOK
  <2> QED
    BY <1>1, <2>1 DEF TypeOK, Reload
<1>5. CallTypes /\ Others(k) /\ pc'[k] = After[pc[k]]
  BY <1>1, <1>3, <1>4, MoveTypes
<1>6. TypeOK'
  <2>1. /\ backend' \in [Kernels -> 0 .. Len(events)]
        /\ stopped' \subseteq Kernels /\ ledger' \subseteq Kernels /\ faults' \in 0 .. MaxFaults
    BY <1>1 DEF TypeOK
  <2> QED
    BY <1>1, <1>5, <2>1, SameStreamTypes
<1>7. events' # <<>>
  BY <1>1, <1>2 DEF RunInv, KernelInv, Begun
<1>8. Idles(k) \/ Keeps(k)
  BY <1>1, <1>2, <1>5, <1>7 DEF Idles, Keeps, Deciding
<1> QED
  BY <1>1, <1>5, <1>6, <1>8 DEF Done, Writes, Turns, Halts

-----------------------------------------------------------------------------
(* Decisions.                                                              *)

\* A call that leaves the backend with a decision in hand.
LEMMA InHand ==
  ASSUME TypeOK, NEW k \in Kernels, Enters(k), NEW d \in Hand, NEW where \in PCs,
         decision' = [decision EXCEPT ![k] = d], Goto(k, where),
         UNCHANGED <<events, call, at, retried, stopped, faults>>
  PROVE  TypeOK' /\ Others(k) /\ pc'[k] = where /\ decision'[k] = d
<1>1. pc' \in [Kernels -> PCs] /\ pc'[k] = where /\ \A q \in Kernels \ {k} : pc'[q] = pc[q]
  BY DEF TypeOK, Goto
<1>2. /\ decision' \in [Kernels -> Hand] /\ decision'[k] = d
      /\ \A q \in Kernels \ {k} : decision'[q] = decision[q]
  BY DEF TypeOK, Hand
<1>3. CallTypes
  BY <1>1, <1>2 DEF TypeOK, CallTypes
<1>4. backend' \in [Kernels -> 0 .. Len(events)] /\ ledger' \subseteq Kernels
  BY EntersTypes
<1>5. stopped' \subseteq Kernels /\ faults' \in 0 .. MaxFaults /\ events' = events
  BY DEF TypeOK
<1>6. TypeOK'
  BY <1>3, <1>4, <1>5, SameStreamTypes
<1> QED
  BY <1>1, <1>2, <1>6 DEF Others

\* A pending decision is taken up as it was authorized.
LEMMA CompleteDone ==
  ASSUME RunInv, NEW k \in Kernels, CompletePending(k)
  PROVE  Done(k)
<1>1. TypeOK /\ pc[k] = "loaded" /\ call[k].op = "advance"
  BY DEF RunInv, CompletePending, Loaded
<1>2. CASE CannotEnter(k)
  BY <1>2, CannotDone
<1>3. ASSUME NEW i \in Pending(View(k)), Enters(k), Goto(k, "authorized"),
             decision' = [decision EXCEPT ![k] = [expected |-> events[i].expected,
                                                  body |-> events[i].body]],
             UNCHANGED <<events, call, at, retried, stopped, faults>>
      PROVE  Done(k)
  <2>1. i \in Authorities(events)
    BY <1>1, <1>3, EntersTypes DEF Pending
  <2> DEFINE hand == [expected |-> events[i].expected, body |-> events[i].body]
  <2>2. hand \in Hand
    <3>1. events[i] \in Events /\ events[i].type = "transition_authorized"
      BY <1>1, <2>1 DEF TypeOK, Authorities, Of
    <3> QED
      BY <3>1, EventTypes DEF Hand
  <2>3. "authorized" \in PCs /\ decision' = [decision EXCEPT ![k] = hand]
    BY <1>3 DEF PCs
  <2> HIDE DEF hand
  <2>4. TypeOK' /\ Others(k) /\ pc'[k] = "authorized" /\ decision'[k] = hand
    BY <1>1, <1>3, <2>2, <2>3, InHand
  <2>5. events # <<>>
    BY <1>1 DEF RunInv, KernelInv, Begun
  <2>6. Takes(k)
    BY <1>1, <1>3, <2>1, <2>4, <2>5 DEF Takes, hand
  <2> QED
    BY <1>3, <2>4, <2>6 DEF Done, Writes, Turns, Halts
<1> QED
  BY <1>2, <1>3 DEF CompletePending

\* What the policy decides may follow from where the run is.
LEMMA PolicyFollows ==
  ASSUME RunInv, NEW k \in Kernels, View(k) = events, New(k), events # <<>>,
         RunState(events) \notin Terminal, NEW d \in Policy(k),
         <<RunState(events), d.to>> \in RUN_EDGES
  PROVE  /\ d \in Payloads /\ d.cand = call[k].cand
         /\ \E t \in Transitions(events) : /\ events[t].rev = StateRevision(events)
                                           /\ Follows(events[t], d)
<1>1. events \in Seq(Events) /\ StreamInv(events) /\ at[k] \in Nat /\ call[k] \in Calls
  BY DEF RunInv, TypeOK
<1>2. call[k].cand \in Candidates \cup {NoCandidate}
  BY <1>1 DEF New, NothingPending, Loaded, Calls
<1>3. PICK t \in Transitions(events) : /\ events[t].rev = StateRevision(events)
                                       /\ RunState(events) = events[t].to
                                       /\ SummarySource(events) = events[t].src
  BY <1>1, RunStateIs DEF StreamInv
<1>4. RunState(events) \in {"created", "admitted", "planned", "ready", "running", "degrading",
                            "summarizing"}
  BY <1>1, <1>3 DEF StreamInv, Staged, Stage, Terminal
<1>5. CASE RunState(events) \in {"created", "admitted", "planned", "ready"}
  <2>1. d = Payload(INITIAL_TARGETS[RunState(events)], "none", call[k].cand, "none", 0)
    BY <1>5 DEF Policy, INITIAL_TARGETS
  <2>2. d \in Payloads /\ d.cand = call[k].cand
    BY <1>2, <1>5, <2>1 DEF Payload, Payloads, INITIAL_TARGETS, RunStates
  <2>3. Follows(events[t], d)
    BY <1>3, <1>5, <2>1 DEF Follows, Leads, Payload, INITIAL_TARGETS
  <2> QED
    BY <1>3, <2>2, <2>3
<1>6. CASE RunState(events) = "degrading"
  <2>1. d = Payload("summarizing", "degradation", call[k].cand, "none", 0)
    BY <1>6 DEF Policy, INITIAL_TARGETS
  <2>2. d \in Payloads /\ d.cand = call[k].cand
    BY <1>2, <2>1 DEF Payload, Payloads, RunStates
  <2>3. Follows(events[t], d)
    BY <1>3, <1>6, <2>1 DEF Follows, Leads, Payload
  <2> QED
    BY <1>3, <2>2, <2>3
<1>7. CASE RunState(events) = "summarizing"
  <2>1. d = Payload(IF events[t].src = "confidence_success" THEN "succeeded" ELSE "degraded",
                    "none", call[k].cand, "none", 0)
    BY <1>3, <1>7 DEF Policy, INITIAL_TARGETS
  <2>2. d \in Payloads /\ d.cand = call[k].cand
    BY <1>2, <2>1 DEF Payload, Payloads, RunStates, Terminal
  <2>3. Follows(events[t], d)
    BY <1>3, <1>7, <2>1 DEF Follows, Leads, Payload
  <2> QED
    BY <1>3, <2>2, <2>3
<1>8. CASE RunState(events) = "running"
  <2>1. \/ d = Payload("degrading", "none", call[k].cand, "none", 0)
        \/ \E s \in Settlements(k) :
              \/ d = Payload("degrading", "none", call[k].cand, s[1], s[2])
              \/ d = Payload("summarizing", "confidence_success", call[k].cand, s[1], s[2])
    BY <1>8 DEF Policy, INITIAL_TARGETS
  <2>2. CASE d = Payload("degrading", "none", call[k].cand, "none", 0)
    <3>1. d \in Payloads /\ d.cand = call[k].cand
      BY <1>2, <2>2 DEF Payload, Payloads, RunStates
    <3>2. Follows(events[t], d)
      BY <1>3, <1>8, <2>2 DEF Follows, Leads, Payload
    <3> QED
      BY <1>3, <3>1, <3>2
  <2>3. ASSUME NEW s \in Settlements(k),
               \/ d = Payload("degrading", "none", call[k].cand, s[1], s[2])
               \/ d = Payload("summarizing", "confidence_success", call[k].cand, s[1], s[2])
        PROVE  d \in Payloads /\ d.cand = call[k].cand /\ Follows(events[t], d)
    <3>1. s[1] \in {"synthetic", "bound", "free"} /\ s[2] \in Nat
      <4>1. IsFiniteSet(Checkpoints(events))
        <5>1. Checkpoints(events) \in SUBSET (1 .. Len(events)) /\ Len(events) \in Nat
          BY <1>1, RevisionTypes DEF Checkpoints, Of
        <5>2. IsFiniteSet(1 .. Len(events))
          BY <5>1, FS_Interval
        <5> QED
          BY <5>1, <5>2, FS_Subset
      <4>2. Cardinality(Checkpoints(events)) \in Nat
        BY <4>1, FS_CardinalityType
      <4>3. s \in {<<"bound", Cardinality(Checkpoints(events))>>, <<"free", 0>>,
                   <<"synthetic", at[k]>>}
        BY DEF Settlements
      <4> QED
        BY <1>1, <4>2, <4>3
    <3>2. d \in Payloads /\ d.cand = call[k].cand
      BY <1>2, <2>3, <3>1 DEF Payload, Payloads, RunStates
    <3>3. Follows(events[t], d)
      BY <1>3, <1>8, <2>3, <3>1 DEF Follows, Leads, Payload
    <3> QED
      BY <3>2, <3>3
  <2> QED
    BY <1>3, <2>1, <2>2, <2>3
<1> QED
  BY <1>4, <1>5, <1>6, <1>7, <1>8

\* A candidate the stream has no applied decision for was answered by no
\* revision the run has left.
LEMMA NotAnswered ==
  ASSUME NEW ev \in Seq(Events), StreamInv(ev), ev # <<>>, NEW c,
         c \in Candidates => Answers(ev, c) = {}
  PROVE  Unanswered(ev, StateRevision(ev), c)
<1> SUFFICES ASSUME NEW i \in Authorities(ev), ev[i].expected < StateRevision(ev),
                    ev[i].body.cand = c, c \in Candidates
             PROVE  FALSE
  BY DEF Unanswered
<1>1. StateRevision(ev) \in Nat /\ ev[i].expected \in Nat
  BY RevisionTypes, EventTypes DEF Authorities, Of
<1>2. ev[i].expected >= 1
  BY DEF StreamInv, Earned, Numbered, Transitions, Of
<1>3. ev[i].expected + 1 \in 1 .. StateRevision(ev)
  BY <1>1, <1>2
<1>4. PICK t \in Transitions(ev) : ev[t].rev = ev[i].expected + 1
  BY <1>3 DEF StreamInv, Numbered
<1>5. t # 1
  BY <1>1, <1>2, <1>4 DEF StreamInv, Numbered
<1>6. PICK g \in Authorities(ev) : ev[g].expected + 1 = ev[t].rev /\ ev[g].body.to = ev[t].to
  BY <1>5 DEF StreamInv, Granted
<1>7. ev[g].expected \in Nat
  BY RevisionTypes, EventTypes DEF Authorities, Of
<1>8. g = i
  BY <1>1, <1>4, <1>6, <1>7 DEF StreamInv, OneGrant
<1>9. i \in Answers(ev, c)
  BY <1>4, <1>6, <1>8 DEF Answers
<1> QED
  BY <1>9

\* A new decision is taken on the whole stream.
LEMMA DecideDone ==
  ASSUME RunInv, NEW k \in Kernels, Decide(k)
  PROVE  Done(k)
<1>1. TypeOK /\ New(k) /\ pc[k] = "loaded" /\ call[k].op = "advance" /\ StreamInv(events)
  BY DEF RunInv, Decide, New, NothingPending, Loaded
<1>2. CASE CannotEnter(k)
  BY <1>2, CannotDone
<1>3. ASSUME NEW d \in Policy(k), <<RunState(View(k)), d.to>> \in RUN_EDGES, Enters(k),
             decision' = [decision EXCEPT ![k] = [expected |-> StateRevision(View(k)), body |-> d]],
             Goto(k, IF d.settled = "none" THEN "authorizing" ELSE "settling"),
             UNCHANGED <<events, call, at, retried, stopped, faults>>
      PROVE  Done(k)
  <2>1. View(k) = events /\ events # <<>> /\ events \in Seq(Events)
    BY <1>1, <1>3, EntersTypes DEF RunInv, KernelInv, Begun, TypeOK
  <2>2. RunState(events) \notin Terminal
    BY <2>1 DEF Decide
  <2>3. /\ d \in Payloads /\ d.cand = call[k].cand
        /\ \E t \in Transitions(events) : /\ events[t].rev = StateRevision(events)
                                          /\ Follows(events[t], d)
    BY <1>1, <1>3, <2>1, <2>2, PolicyFollows
  <2> DEFINE hand == [expected |-> StateRevision(events), body |-> d]
             where == IF d.settled = "none" THEN "authorizing" ELSE "settling"
  <2>4. hand \in Hand
    BY <2>1, <2>3, RevisionTypes DEF Hand
  <2>5. where \in PCs
    BY DEF PCs
  <2>6. TypeOK' /\ Others(k) /\ pc'[k] = where /\ decision'[k] = hand
    BY <1>1, <1>3, <2>1, <2>4, <2>5, InHand
  <2>7. Unanswered(events, StateRevision(events), d.cand)
    <3>1. d.cand \in Candidates => Answers(events, d.cand) = {}
      BY <1>1, <2>1, <2>3 DEF New, Replayed
    <3> QED
      BY <1>1, <2>1, <3>1, NotAnswered
  <2>8. Decides(k)
    BY <1>1, <1>3, <2>1, <2>3, <2>6, <2>7 DEF Decides
  <2> QED
    BY <1>3, <2>6, <2>8 DEF Done, Writes, Turns, Halts
<1> QED
  BY <1>2, <1>3 DEF Decide

\* A cancellation is decided anew, or taken up again where it was authorized.
LEMMA CancelRunDone ==
  ASSUME RunInv, NEW k \in Kernels, CancelRun(k)
  PROVE  Done(k)
<1>1. TypeOK /\ pc[k] \in {"loaded", "recorded"} /\ StreamInv(events) /\ events # <<>>
  BY DEF RunInv, KernelInv, Begun, CancelRun, Requested, Loaded
<1>2. CASE CannotEnter(k)
  BY <1>2, CannotDone
<1>3. CASE Enters(k) /\ Return(k) /\ UNCHANGED <<events, stopped, faults>>
  <2>1. backend' \in [Kernels -> 0 .. Len(events)] /\ ledger' \subseteq Kernels
    BY <1>1, <1>3, EntersTypes
  <2>2. stopped' \subseteq Kernels /\ faults' \in 0 .. MaxFaults
    BY <1>1, <1>3 DEF TypeOK
  <2> QED
    BY <1>3, <2>1, <2>2, ReturnDone
<1>4. ASSUME Enters(k), \A i \in Pending(View(k)) : events[i].body = CancelPayload,
             decision' = [decision EXCEPT ![k] = [expected |-> StateRevision(View(k)),
                                                  body |-> CancelPayload]],
             Goto(k, IF Pending(View(k)) = {} THEN "authorizing" ELSE "authorized"),
             UNCHANGED <<events, call, at, retried, stopped, faults>>
      PROVE  Done(k)
  <2> DEFINE hand == [expected |-> StateRevision(events), body |-> CancelPayload]
             where == IF Pending(events) = {} THEN "authorizing" ELSE "authorized"
  <2>1. View(k) = events /\ events \in Seq(Events)
    BY <1>1, <1>4, EntersTypes DEF TypeOK
  <2>2. RunState(events) \notin Terminal
    BY <2>1 DEF CancelRun
  <2>3. /\ CancelPayload \in Payloads /\ CancelPayload.to = "cancelled" /\ CancelPayload.src = "none"
        /\ CancelPayload.settled = "none" /\ CancelPayload.cand = NoCandidate
    BY DEF CancelPayload, Payload, Payloads, RunStates, Terminal
  <2>4. StateRevision(events) \in Nat
    BY <2>1, RevisionTypes
  <2>5. hand \in Hand
    BY <2>3, <2>4 DEF Hand
  <2>6. where \in PCs /\ Goto(k, where) /\ decision' = [decision EXCEPT ![k] = hand]
    BY <1>4, <2>1 DEF PCs
  <2>7. hand.expected = StateRevision(events) /\ hand.body = CancelPayload
    OBVIOUS
  <2> HIDE DEF hand, where
  <2>8. TypeOK' /\ Others(k) /\ pc'[k] = where /\ decision'[k] = hand
    BY <1>1, <1>4, <2>5, <2>6, InHand
  <2>9. CASE Pending(events) = {}
    <3>1. PICK t \in Transitions(events) : /\ events[t].rev = StateRevision(events)
                                           /\ RunState(events) = events[t].to
      BY <1>1, <2>1, RunStateIs DEF StreamInv
    <3>2. RunState(events) \in RunStates
      BY <1>1, <3>1, EventTypes DEF TypeOK, Transitions, Of
    <3>3. <<events[t].to, "cancelled">> \in RUN_EDGES
      BY <2>2, <3>1, <3>2 DEF RUN_EDGES
    <3>4. Follows(events[t], hand.body)
      BY <2>3, <2>7, <3>3 DEF Follows, Leads
    <3>5. Unanswered(events, StateRevision(events), hand.body.cand)
      BY <2>3, <2>7 DEF Unanswered
    <3>6. pc'[k] = "authorizing" /\ call'[k] = call[k] /\ events' = events
      BY <1>4, <2>8, <2>9 DEF where
    <3>7. Decides(k)
      BY <1>1, <2>7, <2>8, <3>1, <3>4, <3>5, <3>6 DEF Decides
    <3> QED
      BY <1>4, <2>8, <3>7 DEF Done, Writes, Turns, Halts
  <2>10. CASE Pending(events) # {}
    <3>1. PICK i \in Pending(events) : events[i].body = CancelPayload
      BY <1>4, <2>1, <2>10
    <3>2. i \in Authorities(events) /\ events[i].expected = StateRevision(events)
      BY DEF Pending
    <3>3. pc'[k] = "authorized" /\ call'[k] = call[k] /\ events' = events
      BY <1>4, <2>8, <2>10 DEF where
    <3>4. decision'[k] = [expected |-> events[i].expected, body |-> events[i].body]
      BY <2>8, <3>1, <3>2 DEF hand
    <3>5. Takes(k)
      BY <1>1, <3>1, <3>2, <3>3, <3>4 DEF Takes
    <3> QED
      BY <1>4, <2>8, <3>5 DEF Done, Writes, Turns, Halts
  <2> QED
    BY <2>9, <2>10
<1> QED
  BY <1>2, <1>3, <1>4 DEF CancelRun

\* An authority is appended only where the fold takes it.
LEMMA AuthorizeDone ==
  ASSUME RunInv, NEW k \in Kernels, Authorize(k)
  PROVE  Done(k)
<1> DEFINE e == AuthorityEvent(StateRevision(View(k)), decision[k].expected, decision[k].body)
<1>1. TypeOK /\ pc[k] = "authorizing" /\ events # <<>>
  BY DEF RunInv, KernelInv, Begun, Authorize
<1>2. CASE LosesRace(k, e)
  BY <1>1, <1>2, LosesDone
<1>3. CASE Return(k) /\ UNCHANGED <<events, backend, stopped, ledger, faults>>
  <2>1. ledger' \subseteq Kernels
    BY <1>1, <1>3 DEF TypeOK
  <2> QED
    BY <1>3, <2>1, PlainReturnDone
<1>4. CASE /\ Appends(k, e) /\ Goto(k, "allowed")
           /\ UNCHANGED <<call, at, retried, decision, backend, stopped, ledger, faults>>
  <2>1. View(k) = events
    BY <1>1, <1>4, ViewAll DEF Appends, Raced
  <2>2. /\ StateRevision(events) \in Nat
        /\ decision[k].expected \in Nat /\ decision[k].body \in Payloads
    BY <1>1, RevisionTypes DEF TypeOK
  <2>3. e \in Events /\ e = AuthorityEvent(StateRevision(events), decision[k].expected, decision[k].body)
    BY <2>1, <2>2 DEF AuthorityEvent, Events
  <2>4. events' = Append(events, e) /\ ~ Conflicts(events, e)
    BY <1>4 DEF Appends
  <2>5. "allowed" \in PCs /\ at' \in [Kernels -> 0 .. Len(events)]
    BY <1>1, <1>4 DEF TypeOK, PCs
  <2>6. CallTypes /\ Others(k) /\ pc'[k] = "allowed"
    BY <1>1, <1>4, <2>5, MoveTypes
  <2>7. decision'[k] = decision[k] /\ call'[k] = call[k] /\ stopped' = stopped
    BY <1>4
  <2> HIDE DEF e
  <2>8. Authorizes(k)
    BY <1>1, <2>3, <2>4, <2>6, <2>7 DEF Authorizes
  <2>9. TypeOK'
    <3>1. /\ backend' \in [Kernels -> 0 .. Len(events)]
          /\ stopped' \subseteq Kernels /\ ledger' \subseteq Kernels /\ faults' \in 0 .. MaxFaults
      BY <1>1, <1>4 DEF TypeOK
    <3> QED
      BY <1>1, <2>3, <2>4, <2>6, <3>1, AppendTypes
  <2> QED
    BY <1>1, <2>6, <2>7, <2>8, <2>9 DEF Done, Writes, Turns, Halts
<1> QED
  BY <1>2, <1>3, <1>4 DEF Authorize

\* A transition is appended only at the revision its decision was taken at.
LEMMA CommitDone ==
  ASSUME RunInv, NEW k \in Kernels, CommitTransition(k)
  PROVE  Done(k)
<1> DEFINE e == TransitionEvent(decision[k].expected, decision[k].body)
<1>1. TypeOK /\ pc[k] = "authorized" /\ events # <<>>
  BY DEF RunInv, KernelInv, Begun, CommitTransition
<1>2. CASE Return(k) /\ UNCHANGED <<events, backend, stopped, ledger, faults>>
  <2>1. ledger' \subseteq Kernels
    BY <1>1, <1>2 DEF TypeOK
  <2> QED
    BY <1>2, <2>1, PlainReturnDone
<1>3. CASE Holds(k, at[k]) /\ Retry(k) /\ UNCHANGED events /\ UNCHANGED <<stopped, faults>>
  <2>1. CallTypes /\ ledger' \subseteq Kernels
    BY <1>1, <1>3, RetryTypes
  <2>2. at[k] \in 0 .. Len(events) /\ stopped' \subseteq Kernels /\ faults' \in 0 .. MaxFaults
    BY <1>1, <1>3 DEF TypeOK
  <2>3. backend' \in [Kernels -> 0 .. Len(events)]
    BY <1>1, <1>3, <2>2, HoldsTypes
  <2>4. TypeOK'
    BY <1>1, <1>3, <2>1, <2>2, <2>3, SameStreamTypes
  <2>5. Idles(k) /\ Others(k)
    BY <1>1, <1>3, RetryTurns
  <2> QED
    BY <1>3, <2>4, <2>5 DEF Done, Writes, Turns, Halts
<1>4. CASE /\ Holds(k, at[k]) /\ Appends(k, e) /\ Goto(k, "committed")
           /\ UNCHANGED <<call, at, retried, decision, ledger>> /\ UNCHANGED <<stopped, faults>>
  <2>1. decision[k].expected \in Nat /\ decision[k].body \in Payloads /\ StateRevision(events) \in Nat
    BY <1>1, RevisionTypes DEF TypeOK
  <2>2. decision[k].expected = StateRevision(events)
    BY <1>4, <2>1 DEF Appends, Raced, TransitionEvent
  <2>3. PICK t \in Transitions(events) : Follows(events[t], decision[k].body)
    BY <1>1 DEF RunInv, KernelInv, DecisionOK, Sound, Deciding
  <2>4. decision[k].body.to \in RunStates
    BY <2>3 DEF Follows, RUN_EDGES, RunStates, Terminal
  <2>5. e \in Events
    BY <2>1, <2>4 DEF TransitionEvent, Events, Payloads
  <2>6. events' = Append(events, e)
    BY <1>4 DEF Appends
  <2>7. "committed" \in PCs /\ at' \in [Kernels -> 0 .. Len(events)]
    BY <1>1, <1>4 DEF TypeOK, PCs
  <2>8. CallTypes /\ Others(k) /\ pc'[k] = "committed"
    BY <1>1, <1>4, <2>7, MoveTypes
  <2>9. decision'[k] = decision[k] /\ call'[k] = call[k] /\ stopped' = stopped
    BY <1>4
  <2> HIDE DEF e
  <2>10. Commits(k)
    BY <1>1, <2>2, <2>5, <2>6, <2>8, <2>9 DEF Commits, e
  <2>11. TypeOK'
    <3>1. /\ at[k] \in 0 .. Len(events) /\ stopped' \subseteq Kernels
          /\ ledger' \subseteq Kernels /\ faults' \in 0 .. MaxFaults
      BY <1>1, <1>4 DEF TypeOK
    <3>2. backend' \in [Kernels -> 0 .. Len(events)]
      BY <1>1, <1>4, <3>1, HoldsTypes
    <3> QED
      BY <1>1, <2>5, <2>6, <2>8, <3>1, <3>2, AppendTypes
  <2> QED
    BY <1>1, <2>8, <2>9, <2>10, <2>11 DEF Done, Writes, Turns, Halts
<1> QED
  BY <1>2, <1>3, <1>4 DEF CommitTransition

\* Every step of a kernel, then, does no more than this.
LEMMA KernelStep ==
  ASSUME RunInv, NEW k \in Kernels, Kernel(k)
  PROVE  Done(k)
<1>1. CASE Step(k)
  BY <1>1, PublishDone, RegisterDone, RecordCheckpointDone, QuietDone, CompleteDone, RejectDone,
     AnswerDone, DecideDone, RequestDone, CancelBackendDone, CancelRunDone, SettleDone,
     ReloadDone, AuthorizeDone, CommitDone, ProjectDone DEF Step
<1>2. CASE Create(k) \/ Resume(k)
  BY <1>2, CreateDone, ResumeDone
<1>3. CASE Advance(k) \/ Cancel(k) \/ Checkpoint(k)
  BY <1>3, CallDone
<1>4. CASE Crash(k) \/ IssuerFails(k)
  BY <1>4, FaultDone
<1> QED
  BY <1>1, <1>2, <1>3, <1>4 DEF Kernel

-----------------------------------------------------------------------------
(* Such a step keeps the invariant.                                        *)

\* The stream only grows.
LEMMA Grows ==
  ASSUME RunInv, NEW k \in Kernels, Done(k)
  PROVE  /\ events \in Seq(Events) /\ events' \in Seq(Events)
         /\ events # <<>> => events' # <<>>
         /\ \A i \in DOMAIN events : i \in DOMAIN events' /\ events'[i] = events[i]
         /\ Transitions(events) \subseteq Transitions(events')
         /\ Authorities(events) \subseteq Authorities(events')
<1>1. events \in Seq(Events) /\ events' \in Seq(Events)
  BY DEF RunInv, Done, TypeOK
<1>2. \/ events' = events \/ events = <<>>
      \/ \E e \in Events : events' = Append(events, e)
  BY DEF Done, Writes, Authorizes, Commits
<1>3. DOMAIN events = 1 .. Len(events) /\ (events = <<>> => DOMAIN events = {})
  BY <1>1
<1>4. /\ events # <<>> => events' # <<>>
      /\ \A i \in DOMAIN events : i \in DOMAIN events' /\ events'[i] = events[i]
  BY <1>1, <1>2, <1>3, AppendFacts
<1> QED
  BY <1>1, <1>4 DEF Transitions, Authorities, Of

\* The stream stays one authorized history.
LEMMA StreamKept ==
  ASSUME RunInv, NEW k \in Kernels, Done(k)
  PROVE  StreamInv(events')
<1>1. events \in Seq(Events) /\ StreamInv(events)
  BY DEF RunInv, TypeOK
<1>2. CASE events' = events
  BY <1>1, <1>2
<1>3. CASE events' = <<First>>
  BY <1>3, FirstType, FirstStreams
<1>4. CASE events # <<>> /\ \E e \in Events : Aside(e) /\ events' = Append(events, e)
  BY <1>1, <1>4, AsideKept DEF Aside
<1>5. CASE events # <<>> /\ Authorizes(k)
  <2>1. decision[k].expected \in Nat /\ decision[k].body \in Payloads
    BY DEF RunInv, TypeOK
  <2>2. /\ \E t \in Transitions(events) : /\ events[t].rev = decision[k].expected
                                          /\ Follows(events[t], decision[k].body)
        /\ Unanswered(events, decision[k].expected, decision[k].body.cand)
    BY <1>5 DEF RunInv, KernelInv, DecisionOK, Sound, Authorizes, Deciding
  <2> QED
    BY <1>1, <1>5, <2>1, <2>2, AuthorityKept DEF Authorizes
<1>6. CASE events # <<>> /\ Commits(k)
  <2>1. decision[k].expected \in Nat /\ decision[k].body \in Payloads
    BY DEF RunInv, TypeOK
  <2>2. \E i \in Authorities(events) : /\ events[i].expected = decision[k].expected
                                       /\ events[i].body = decision[k].body
    BY <1>6 DEF RunInv, KernelInv, DecisionOK, Allowed, Commits
  <2> QED
    BY <1>1, <1>6, <2>1, <2>2, TransitionKept DEF Commits
<1> QED
  BY <1>2, <1>3, <1>4, <1>5, <1>6 DEF Done, Writes

\* A cancelled run stays cancelled.
LEMMA CancelledStays ==
  ASSUME RunInv, NEW k \in Kernels, Done(k), RunState(events) = "cancelled"
  PROVE  RunState(events') = "cancelled"
<1>1. events \in Seq(Events) /\ StreamInv(events) /\ events # <<>>
  BY DEF RunInv, TypeOK, RunState
<1>2. PICK t \in Transitions(events) : /\ events[t].rev = StateRevision(events)
                                       /\ RunState(events) = events[t].to
  BY <1>1, RunStateIs DEF StreamInv
<1>3. /\ t \in Transitions(events') /\ events'[t] = events[t]
      /\ events' \in Seq(Events) /\ Numbered(events')
  BY Grows, StreamKept DEF StreamInv, Transitions, Of
<1>4. CASE StateRevision(events') = StateRevision(events)
  BY <1>2, <1>3, <1>4, RunStateOf
<1>5. CASE events # <<>> /\ \E e \in Events : Aside(e) /\ events' = Append(events, e)
  BY <1>1, <1>4, <1>5, AppendFacts DEF Aside
<1>6. CASE events # <<>> /\ Authorizes(k)
  <2>1. PICK e \in Events : e.rev = StateRevision(events) /\ events' = Append(events, e)
    BY <1>6 DEF Authorizes, AuthorityEvent
  <2> QED
    BY <1>1, <1>4, <2>1, AppendFacts
<1>7. CASE events # <<>> /\ Commits(k)
  <2>1. PICK x \in Transitions(events) : /\ events[x].rev = StateRevision(events)
                                         /\ Follows(events[x], decision[k].body)
    BY <1>7 DEF RunInv, KernelInv, DecisionOK, Sound, Commits, Deciding
  <2>2. x = t
    BY <1>1, <1>2, <2>1 DEF StreamInv, Numbered
  <2>3. <<"cancelled", decision[k].body.to>> \in RUN_EDGES
    BY <1>2, <2>1, <2>2 DEF Follows
  <2> QED
    BY <2>3 DEF RUN_EDGES, RunStates, Terminal
<1> QED
  BY <1>1, <1>4, <1>5, <1>6, <1>7 DEF Done, Writes

\* A decision in hand is not overtaken: a later authority for its candidate is
\* for no earlier revision, because every revision that was left has its own.
LEMMA UnansweredKept ==
  ASSUME RunInv, NEW k \in Kernels, Done(k), NEW r \in Nat, r <= StateRevision(events),
         NEW c, Unanswered(events, r, c)
  PROVE  Unanswered(events', r, c)
<1>1. events \in Seq(Events) /\ StreamInv(events) /\ StateRevision(events) \in Nat
  BY RevisionTypes DEF RunInv, TypeOK
<1>2. CASE events' = events
  BY <1>2
<1>3. CASE events' = <<First>>
  <2>1. Authorities(events') = {}
    BY <1>3, FirstType DEF Authorities, Of
  <2> QED
    BY <2>1 DEF Unanswered
<1>4. ASSUME NEW e \in Events, events' = Append(events, e), e.type # "transition_authorized"
      PROVE  Unanswered(events', r, c)
  <2>1. Authorities(events') = Authorities(events) /\ \A i \in Authorities(events) : events'[i] = events[i]
    BY <1>1, <1>4, AppendFacts DEF Authorities, Of
  <2> QED
    BY <2>1 DEF Unanswered
<1>5. CASE events # <<>> /\ Authorizes(k)
  <2> DEFINE d == decision[k]
             e == AuthorityEvent(StateRevision(events), d.expected, d.body)
             n == Len(events) + 1
  <2>1. e.type = "transition_authorized" /\ e.expected = d.expected /\ e.body = d.body
    BY DEF AuthorityEvent
  <2>2. e \in Events /\ events' = Append(events, e) /\ ~ Conflicts(events, e) /\ d.expected \in Nat
    BY <1>5 DEF Authorizes, RunInv, TypeOK
  <2> HIDE DEF e
  <2>3. /\ Authorities(events') = Authorities(events) \cup {n} /\ events'[n] = e
        /\ \A i \in Authorities(events) : events'[i] = events[i]
    BY <1>1, <2>1, <2>2, AppendFacts DEF Authorities, Of
  <2>4. ~ (d.expected < r)
    <3>1. d.expected >= 1
      <4>1. PICK t \in Transitions(events) : events[t].rev = d.expected
        BY <1>5 DEF RunInv, KernelInv, DecisionOK, Sound, Authorizes, Deciding
      <4> QED
        BY <1>1, <4>1 DEF StreamInv, Numbered, Transitions, Of
    <3>2. d.expected >= StateRevision(events)
      BY <1>1, <2>1, <2>2, <3>1, LeftByGrant DEF StreamInv, Conflicts
    <3> QED
      BY <1>1, <2>2, <3>2
  <2> QED
    BY <2>1, <2>3, <2>4 DEF Unanswered
<1>6. CASE events # <<>> /\ Commits(k)
  BY <1>4, <1>6 DEF Commits, TransitionEvent
<1> QED
  BY <1>2, <1>3, <1>4, <1>5, <1>6 DEF Done, Writes, Aside

\* What is promised of a decision in hand stays true as the stream grows.
LEMMA SoundStays ==
  ASSUME RunInv, NEW k \in Kernels, Done(k), NEW d \in Hand
  PROVE  /\ Sound(events, d) => Sound(events', d)
         /\ Allowed(events, d) => Allowed(events', d)
<1>1. /\ \A i \in DOMAIN events : i \in DOMAIN events' /\ events'[i] = events[i]
      /\ Transitions(events) \subseteq Transitions(events')
      /\ Authorities(events) \subseteq Authorities(events')
      /\ Transitions(events) \subseteq DOMAIN events /\ Authorities(events) \subseteq DOMAIN events
  BY Grows DEF Transitions, Authorities, Of
<1>2. ASSUME Sound(events, d) PROVE Sound(events', d)
  <2>1. PICK t \in Transitions(events) : events[t].rev = d.expected /\ Follows(events[t], d.body)
    BY <1>2 DEF Sound
  <2>2. events'[t] = events[t] /\ t \in Transitions(events')
    BY <1>1
  <2>3. d.expected \in Nat /\ d.expected <= StateRevision(events)
    BY <1>1, <2>1 DEF Hand, RunInv, StreamInv, Numbered
  <2>4. Unanswered(events', d.expected, d.body.cand)
    BY <1>2, <2>3, UnansweredKept DEF Sound
  <2> QED
    BY <2>1, <2>2, <2>4 DEF Sound
<1>3. Allowed(events, d) => Allowed(events', d)
  BY <1>1 DEF Allowed
<1> QED
  BY <1>2, <1>3

\* The promises about decisions in hand are kept, by the kernel and by the others.
LEMMA KernelsKept ==
  ASSUME RunInv, NEW k \in Kernels, Done(k)
  PROVE  KernelInv'
<1>1. /\ pc \in [Kernels -> PCs] /\ \A q \in Kernels : decision[q] \in Hand
      /\ events # <<>> => events' # <<>>
  BY Grows DEF RunInv, TypeOK, Hand
<1>2. StreamInv(events) /\ KernelInv
  BY DEF RunInv
<1>3. Turns(k) /\ Others(k)
  BY DEF Done
<1>4. Begun'
  <2> SUFFICES ASSUME NEW q \in Kernels, pc'[q] \notin {"idle", "creating"}
               PROVE  events' # <<>>
    BY DEF Begun
  <2>1. CASE q # k
    BY <1>1, <1>2, <1>3, <2>1 DEF KernelInv, Begun, Others
  <2>2. CASE q = k
    BY <1>1, <1>2, <1>3, <2>2 DEF KernelInv, Begun, Turns, Idles, Keeps, Authorizes, Commits, Takes, Decides
  <2> QED
    BY <2>1, <2>2
<1>5. ASSUME NEW q \in Kernels, pc'[q] = pc[q], call'[q] = call[q], decision'[q] = decision[q]
      PROVE  DecisionOK(q)' /\ CancelOK(q)'
  <2>1. DecisionOK(q) /\ CancelOK(q)
    BY <1>2 DEF KernelInv
  <2>2. DecisionOK(q)'
    BY <1>1, <1>5, <2>1, SoundStays DEF DecisionOK
  <2>3. CancelOK(q)'
    BY <1>5, <2>1, CancelledStays DEF CancelOK
  <2> QED
    BY <2>2, <2>3
<1>6. DecisionOK(k)' /\ CancelOK(k)'
  <2>1. DecisionOK(k) /\ CancelOK(k) /\ decision[k] \in Hand
    BY <1>1, <1>2 DEF KernelInv
  <2>2. CASE Idles(k)
    BY <2>2 DEF Idles, DecisionOK, CancelOK, Deciding
  <2>3. CASE Keeps(k)
    <3>1. CASE pc'[k] = pc[k]
      BY <1>5, <2>3, <3>1 DEF Keeps
    <3>2. CASE pc'[k] # pc[k]
      <4>1. /\ pc[k] \in Deciding /\ pc'[k] \notin {"settling", "committed"}
            /\ pc'[k] \in {"allowed", "authorized"} => pc[k] \in {"allowed", "authorized"}
            /\ decision'[k] = decision[k] /\ call'[k] = call[k]
        BY <2>3, <3>2 DEF Keeps, Deciding
      <4>2. DecisionOK(k)'
        BY <2>1, <4>1, SoundStays DEF DecisionOK
      <4>3. CancelOK(k)'
        BY <2>1, <4>1 DEF CancelOK
      <4> QED
        BY <4>2, <4>3
    <3> QED
      BY <3>1, <3>2
  <2>4. CASE Authorizes(k)
    <3>1. /\ pc[k] = "authorizing" /\ pc'[k] = "allowed"
          /\ decision'[k] = decision[k] /\ call'[k] = call[k]
      BY <2>4 DEF Authorizes
    <3>2. Sound(events', decision'[k])
      BY <2>1, <3>1, SoundStays DEF DecisionOK, Deciding
    <3>3. Allowed(events', decision'[k])
      <4> DEFINE e == AuthorityEvent(StateRevision(events), decision[k].expected, decision[k].body)
      <4>1. /\ e.type = "transition_authorized" /\ e.expected = decision[k].expected
            /\ e.body = decision[k].body
        BY DEF AuthorityEvent
      <4>2. e \in Events /\ events' = Append(events, e) /\ events \in Seq(Events)
        BY <2>4, Grows DEF Authorizes
      <4> HIDE DEF e
      <4>3. /\ Len(events) + 1 \in Authorities(events')
            /\ events'[Len(events) + 1] = e
        BY <4>1, <4>2, AppendFacts DEF Authorities
      <4> QED
        BY <3>1, <4>1, <4>3 DEF Allowed
    <3>4. DecisionOK(k)'
      BY <3>1, <3>2, <3>3 DEF DecisionOK
    <3>5. CancelOK(k)'
      BY <2>1, <3>1 DEF CancelOK, Deciding
    <3> QED
      BY <3>4, <3>5
  <2>5. CASE Commits(k)
    <3>1. /\ pc[k] = "authorized" /\ pc'[k] = "committed"
          /\ decision'[k] = decision[k] /\ call'[k] = call[k]
      BY <2>5 DEF Commits
    <3>2. DecisionOK(k)'
      BY <3>1 DEF DecisionOK, Deciding
    <3>3. call[k].op = "cancel" => RunState(events') = "cancelled"
      <4> SUFFICES ASSUME call[k].op = "cancel" PROVE RunState(events') = "cancelled"
        OBVIOUS
      <4> DEFINE e == TransitionEvent(decision[k].expected, decision[k].body)
      <4>1. decision[k].body.to = "cancelled"
        BY <2>1, <3>1 DEF CancelOK, Deciding, CancelPayload, Payload
      <4>2. e.type = "transition_committed" /\ e.to = "cancelled"
        BY <4>1 DEF TransitionEvent
      <4>3. e \in Events /\ events' = Append(events, e) /\ events \in Seq(Events) /\ events' \in Seq(Events)
        BY <2>5, Grows DEF Commits
      <4> HIDE DEF e
      <4>4. /\ Len(events) + 1 \in Transitions(events') /\ events'[Len(events) + 1] = e
            /\ e.rev = StateRevision(events')
        BY <4>2, <4>3, AppendFacts DEF Transitions
      <4>5. Numbered(events')
        BY StreamKept DEF StreamInv
      <4> QED
        BY <4>2, <4>3, <4>4, <4>5, RunStateOf
    <3>4. CancelOK(k)'
      BY <3>1, <3>3 DEF CancelOK, Deciding
    <3> QED
      BY <3>2, <3>4
  <2>6. CASE Takes(k)
    <3>1. PICK i \in Authorities(events) :
             /\ decision'[k] = [expected |-> events[i].expected, body |-> events[i].body]
             /\ call[k].op = "cancel" => events[i].body = CancelPayload
      BY <2>6 DEF Takes
    <3>2. pc'[k] = "authorized" /\ call'[k] = call[k] /\ events' = events
      BY <2>6 DEF Takes
    <3>3. decision'[k].expected = events[i].expected /\ decision'[k].body = events[i].body
      BY <3>1
    <3>4. \E t \in Transitions(events) : events[t].rev = events[i].expected /\ Follows(events[t], events[i].body)
      BY <1>2 DEF StreamInv, Earned
    <3>5. Unanswered(events, events[i].expected, events[i].body.cand)
      <4> SUFFICES ASSUME NEW j \in Authorities(events), events[j].expected < events[i].expected,
                          events[j].body.cand = events[i].body.cand,
                          events[i].body.cand \in Candidates
                   PROVE  FALSE
        BY DEF Unanswered
      <4>1. j = i
        BY <1>2 DEF StreamInv, OneEach
      <4>2. events[i].expected \in Nat
        BY RevisionTypes, EventTypes DEF RunInv, TypeOK, Authorities, Of
      <4> QED
        BY <4>1, <4>2
    <3>6. Sound(events', decision'[k]) /\ Allowed(events', decision'[k])
      BY <3>2, <3>3, <3>4, <3>5 DEF Sound, Allowed
    <3>7. DecisionOK(k)'
      BY <3>2, <3>6 DEF DecisionOK
    <3>8. CancelOK(k)'
      BY <3>1, <3>2, <3>3 DEF CancelOK
    <3> QED
      BY <3>7, <3>8
  <2>7. CASE Decides(k)
    <3>1. /\ pc'[k] \in {"settling", "authorizing"} /\ call'[k] = call[k] /\ events' = events
          /\ pc'[k] = "settling" => decision'[k].body.settled # "none"
          /\ call[k].op = "cancel" => decision'[k].body = CancelPayload
      BY <2>7 DEF Decides
    <3>2. Sound(events', decision'[k])
      BY <2>7 DEF Decides, Sound
    <3>3. DecisionOK(k)'
      BY <3>1, <3>2 DEF DecisionOK
    <3>4. CancelOK(k)'
      BY <3>1 DEF CancelOK
    <3> QED
      BY <3>3, <3>4
  <2> QED
    BY <1>3, <2>2, <2>3, <2>4, <2>5, <2>6, <2>7 DEF Turns
<1>7. \A q \in Kernels : DecisionOK(q)' /\ CancelOK(q)'
  BY <1>3, <1>5, <1>6 DEF Others
<1> QED
  BY <1>4, <1>7 DEF KernelInv

\* A stop stays a stop.
LEMMA StopsKept ==
  ASSUME RunInv, NEW k \in Kernels, Done(k)
  PROVE  StopIsFinal'
<1>1. events \in Seq(Events) /\ StopsForGood /\ CancelIsDurable
  BY DEF RunInv, TypeOK, StopIsFinal
<1>2. StopsForGood'
  <2>1. CASE events' = events
    BY <1>1, <2>1 DEF StopsForGood
  <2>2. CASE events' = <<First>>
    BY <2>2, FirstType DEF StopsForGood, Checkpoints, Of
  <2>3. ASSUME NEW e \in Events, events' = Append(events, e),
               e.type = "node_checkpoint_recorded" =>
                  /\ \A i \in Checkpoints(events) : events[i].permit = "continue"
                  /\ Cancelling(events) => e.permit = "stop"
        PROVE  StopsForGood'
    <3> DEFINE n == Len(events) + 1
    <3>1. /\ DOMAIN events = 1 .. Len(events) /\ DOMAIN events' = 1 .. n /\ Len(events) \in Nat
          /\ events'[n] = e /\ \A i \in DOMAIN events : events'[i] = events[i]
      BY <1>1, <2>3, AppendFacts, RevisionTypes
    <3> SUFFICES ASSUME NEW i \in Checkpoints(events'), NEW j \in DOMAIN events', j < i,
                        \/ events'[j].type = "cancellation_requested"
                        \/ events'[j].type = "node_checkpoint_recorded" /\ events'[j].permit # "continue"
                 PROVE  events'[i].permit = "stop" /\ events'[j].type = "cancellation_requested"
      BY DEF StopsForGood
    <3>2. /\ i \in DOMAIN events' /\ events'[i].type = "node_checkpoint_recorded"
          /\ j \in DOMAIN events /\ events'[j] = events[j]
      BY <3>1 DEF Checkpoints, Of
    <3>3. CASE i # n
      <4>1. i \in Checkpoints(events) /\ events'[i] = events[i]
        BY <3>1, <3>2, <3>3 DEF Checkpoints, Of
      <4> QED
        BY <1>1, <3>2, <4>1 DEF StopsForGood
    <3>4. CASE i = n
      <4>1. /\ \A x \in Checkpoints(events) : events[x].permit = "continue"
            /\ Cancelling(events) => e.permit = "stop"
        BY <2>3, <3>1, <3>2, <3>4
      <4>2. events[j].type = "cancellation_requested"
        BY <3>2, <4>1 DEF Checkpoints, Of
      <4>3. Cancelling(events)
        BY <3>2, <4>2 DEF Cancelling, Of
      <4> QED
        BY <3>1, <3>2, <3>4, <4>1, <4>2, <4>3
    <3> QED
      BY <3>3, <3>4
  <2>4. CASE Authorizes(k) \/ Commits(k)
    BY <2>3, <2>4 DEF Authorizes, Commits, AuthorityEvent, TransitionEvent
  <2> QED
    BY <2>1, <2>2, <2>3, <2>4 DEF Done, Writes, Aside
<1>3. CancelIsDurable'
  BY <1>1, CancelledStays DEF Done, Halts, CancelIsDurable
<1> QED
  BY <1>2, <1>3 DEF StopIsFinal

-----------------------------------------------------------------------------
(* The run.                                                                *)

(* No checkpoint of a stream continues after a stop in it.                 *)
Stops(ev) ==
    \A i \in Checkpoints(ev) : \A j \in DOMAIN ev :
        /\ j < i
        /\ \/ ev[j].type = "cancellation_requested"
           \/ ev[j].type = "node_checkpoint_recorded" /\ ev[j].permit # "continue"
        => ev[i].permit = "stop" /\ ev[j].type = "cancellation_requested"

(* A stream that kernels may have left in the store.                       *)
Inherited(ev) == ev \in Seq(Events) /\ StreamInv(ev) /\ Stops(ev)

\* A run that was never created is such a stream, and so is whatever kernels
\* make of one, wherever they stop.
LEMMA Inheritance ==
  Inherited(<<>>) /\ (RunInv => Inherited(events))
<1>1. StreamInv(<<>>)
  BY FirstType, FirstStreams
<1>2. Stops(<<>>)
  BY DEF Stops, Checkpoints, Of
<1>3. RunInv => Stops(events)
  BY DEF RunInv, StopIsFinal, StopsForGood, Stops
<1> QED
  BY <1>1, <1>2, <1>3 DEF Inherited, RunInv, TypeOK

\* Kernels that have not been called, over such a stream.
LEMMA Starts ==
  ASSUME Inherited(Prior), Init
  PROVE  RunInv
<1>1. events \in Seq(Events) /\ StreamInv(events) /\ Stops(events)
  BY DEF Init, Inherited
<1>2. TypeOK
  <2>1. 0 \in 0 .. Len(events)
    BY <1>1, RevisionTypes
  <2>2. "idle" \in PCs /\ NoCall \in Calls /\ NoDecision \in [expected : Nat, body : Payloads]
    BY NoDecisionType DEF PCs, Hand
  <2> QED
    BY <1>1, <2>1, <2>2 DEF Init, TypeOK
<1>3. KernelInv
  BY DEF Init, KernelInv, Begun, DecisionOK, CancelOK, Deciding, NoCall
<1>4. StopIsFinal
  BY <1>1 DEF Init, StopIsFinal, StopsForGood, Stops, CancelIsDurable
<1> QED
  BY <1>1, <1>2, <1>3, <1>4 DEF RunInv

\* The invariant is inductive.
LEMMA InvKept == RunInv /\ [Next]_vars => RunInv'
<1> SUFFICES ASSUME RunInv, [Next]_vars PROVE RunInv'
  OBVIOUS
<1>1. CASE Next
  <2>1. PICK k \in Kernels : Kernel(k)
    BY <1>1 DEF Next
  <2>2. Done(k)
    BY <2>1, KernelStep
  <2>3. TypeOK'
    BY <2>2 DEF Done
  <2>4. StreamInv(events')
    BY <2>2, StreamKept
  <2>5. KernelInv' /\ StopIsFinal'
    BY <2>2, KernelsKept, StopsKept
  <2> QED
    BY <2>3, <2>4, <2>5 DEF RunInv
<1>2. CASE UNCHANGED vars
  BY <1>2 DEF vars, local, RunInv, TypeOK, KernelInv, Begun, DecisionOK, CancelOK, StopIsFinal,
     StopsForGood, CancelIsDurable
<1> QED
  BY <1>1, <1>2

\* The invariant of a run, created by these kernels or inherited: its transitions
\* number the revisions, each but the first is authorized by the only authority
\* for the revision it leaves, and every decision a kernel still has in hand
\* follows from the revision it was taken at.
THEOREM Invariant == Inherited(Prior) /\ Spec => []RunInv
<1>1. Inherited(Prior) /\ Init => RunInv
  BY Starts
<1> QED
  BY <1>1, InvKept, PTL DEF Spec

\* The stream of a run is well formed, however the appends of any number of
\* kernels interleave and wherever their calls are lost: its transitions are
\* one legal path through the state machine (append, _validate_run).
THEOREM WellFormed == Inherited(Prior) /\ Spec => []StreamWellFormed
<1>1. RunInv => StreamWellFormed
  BY HistoryLegal DEF RunInv, TypeOK, StreamWellFormed
<1> QED
  BY <1>1, Invariant, PTL

\* No state changes without an authority for exactly that change, the budget is
\* charged at most once, and only a run the confidence gate let through, and
\* that never degraded, succeeds (_commit_run_transition, _policy_decision).
THEOREM PaidOnce == Inherited(Prior) /\ Spec => []PaidAndAuthorized
<1>1. RunInv => PaidAndAuthorized
  BY HistoryAuthorized, HistoryCharged, HistoryFailsClosed DEF RunInv, TypeOK, PaidAndAuthorized
<1> QED
  BY <1>1, Invariant, PTL

\* A stop is for good: no checkpoint continues after a recorded cancellation or
\* a permit to stop, and a backend is cancelled only for a run that durably is
\* (record_checkpoint, cancel).
THEOREM StopsStay == Inherited(Prior) /\ Spec => []StopIsFinal
<1>1. RunInv => StopIsFinal
  BY DEF RunInv
<1> QED
  BY <1>1, Invariant, PTL

\* A candidate is answered by at most one applied decision, also when several
\* kernels are handed it at once (_committed_candidate).
THEOREM OneAnswerEach == Inherited(Prior) /\ Spec => []AnsweredOnce
<1>1. RunInv => AnsweredOnce
  BY HistoryAnswers DEF RunInv, TypeOK
<1> QED
  BY <1>1, Invariant, PTL
=============================================================================
