--------------------------- MODULE ServicesProofs ---------------------------
(***************************************************************************)
(* What the services around the trading loop guarantee for every value of  *)
(* the constants: the work items of the Harness, the model calls of the    *)
(* agent driver, the web trade backend, the coordinated graph, the trend   *)
(* fetcher and the soft stop's poller.  They share no state, so each has   *)
(* an inductive invariant of its own.                                      *)
(***************************************************************************)
EXTENDS MCServices, FiniteSetTheorems, TLAPS

-----------------------------------------------------------------------------
(* Work items.  The store's row knows the latest epoch, and a transition   *)
(* is only committed under the lease that is in the row, so no host ever   *)
(* writes under more than the row's epoch.                                 *)

Fields == {"run", "item", "att", "owned", "authorities", "rev"}

WorkInv ==
  /\ folded = [f \in Fields |-> folded[f]]
  /\ lease.epoch \in Nat /\ wrote \in Nat /\ wrote <= lease.epoch

\* The stream starts with the run, and nobody has a lease.
LEMMA InitWork == WorkInit => WorkInv
  BY DEF WorkInit, WorkInv, Fields, NoToken

\* A transition leaves the view a record of the same fields.
LEMMA NextRevision ==
  ASSUME NEW v, v = [f \in Fields |-> v[f]],
         NEW w, w = [v EXCEPT !.rev = @ + 1, !.authorities = {}]
  PROVE  w = [f \in Fields |-> w[f]]
  BY DEF Fields

\* A committed transition is under the epoch of the row.
LEMMA CommitIsCurrent ==
  ASSUME WorkInv, NEW h \in Hosts, NEW t \in Asks(h), Commit(h, t)
  PROVE  wrote' = lease.epoch
  BY DEF Commit, Held

\* Every step of a host, of a kernel and of the clock keeps the row ahead.
LEMMA NextWork == WorkInv /\ [WorkNext]_workVars => WorkInv'
<1> SUFFICES ASSUME WorkInv, [WorkNext]_workVars PROVE WorkInv'
  OBVIOUS
<1>1. ASSUME NEW h \in Hosts, Load(h) \/ Restarts(h) PROVE WorkInv'
  BY <1>1 DEF Load, Restarts, WorkInv
<1>2. ASSUME NEW h \in Hosts, NEW a \in Attempts, Acquire(h, a) PROVE WorkInv'
  BY <1>2 DEF Acquire, WorkInv
<1>3. ASSUME NEW h \in Hosts, NEW a \in Attempts, Own(h, a) PROVE WorkInv'
  BY <1>3 DEF Own, WorkInv, Fields
<1>4. ASSUME NEW h \in Hosts, NEW t \in Asks(h), Authorize(h, t) PROVE WorkInv'
  BY <1>4 DEF Authorize, WorkInv, Fields
<1>5. ASSUME NEW h \in Hosts, NEW t \in Asks(h), Commit(h, t) PROVE WorkInv'
  <2>1. wrote' = lease.epoch /\ lease' = lease
    BY <1>5, CommitIsCurrent DEF Commit
  <2>2. folded' = [Moved(folded, t) EXCEPT !.rev = @ + 1, !.authorities = {}]
    BY <1>5 DEF Commit, Folds
  <2>3. Moved(folded, t) = [f \in Fields |-> Moved(folded, t)[f]]
    BY DEF Moved, WorkInv, Fields
  <2>4. folded' = [f \in Fields |-> folded'[f]]
    BY <2>2, <2>3, NextRevision
  <2> QED
    BY <2>1, <2>4 DEF WorkInv
<1>6. ASSUME RunEnds PROVE WorkInv'
  BY <1>6 DEF RunEnds, WorkInv, Fields
<1>7. ASSUME Time \/ UNCHANGED workVars PROVE WorkInv'
  BY <1>7 DEF Time, workVars, WorkInv
<1> QED
  BY <1>1, <1>2, <1>3, <1>4, <1>5, <1>6, <1>7 DEF WorkNext

\* No step writes under an older epoch.
LEMMA EpochStep == WorkInv /\ [WorkNext]_workVars => [wrote' >= wrote]_wrote
<1> SUFFICES ASSUME WorkInv, [WorkNext]_workVars, wrote' # wrote PROVE wrote' >= wrote
  OBVIOUS
<1>1. PICK h \in Hosts : \E t \in Asks(h) : Commit(h, t)
  BY DEF WorkNext, Load, Restarts, Acquire, Own, Authorize, RunEnds, Time, workVars
<1> QED
  BY <1>1, CommitIsCurrent DEF WorkInv

\* Work of a run that has ended does not move.
SealedStep == folded.run # "running" => folded'.item = folded.item /\ folded'.att = folded.att
LEMMA SealStep == WorkInv /\ [WorkNext]_workVars => SealedStep
<1> SUFFICES ASSUME WorkInv, [WorkNext]_workVars, folded.run # "running"
             PROVE  folded'.item = folded.item /\ folded'.att = folded.att
  BY DEF SealedStep
<1>1. ASSUME NEW h \in Hosts, NEW a \in Attempts, Own(h, a)
      PROVE  folded'.item = folded.item /\ folded'.att = folded.att
  BY <1>1 DEF Own, WorkInv, Fields
<1>2. ASSUME NEW h \in Hosts, NEW t \in Asks(h), Authorize(h, t)
      PROVE  folded'.item = folded.item /\ folded'.att = folded.att
  BY <1>2 DEF Authorize, WorkInv, Fields
<1>3. ASSUME NEW h \in Hosts, NEW t \in Asks(h) PROVE ~Commit(h, t)
  BY DEF Commit, Validates, Evidence
<1> QED
  BY <1>1, <1>2, <1>3 DEF WorkNext, Load, Restarts, Acquire, RunEnds, Time, workVars

\* Attempts at the item are known, and one of them is behind every retry.
RetryInv ==
  /\ folded.att = [a \in Attempts |-> folded.att[a]]
  /\ folded.owned \subseteq Attempts
  /\ RetryEarned

LEMMA InitRetry == WorkInit => RetryInv
  BY DEF WorkInit, RetryInv, RetryEarned

\* What a step that neither moves the item nor an attempt keeps.
LEMMA RetryQuiet ==
  ASSUME RetryInv, folded'.item = folded.item, folded'.att = folded.att,
         folded.owned \subseteq folded'.owned, folded'.owned \subseteq Attempts
  PROVE  RetryInv'
  BY DEF RetryInv, RetryEarned

LEMMA NextRetry == WorkInv /\ RetryInv /\ [WorkNext]_workVars => RetryInv'
<1> SUFFICES ASSUME WorkInv, RetryInv, [WorkNext]_workVars PROVE RetryInv'
  OBVIOUS
<1>1. CASE UNCHANGED folded
  BY <1>1, RetryQuiet DEF RetryInv
<1>2. ASSUME NEW h \in Hosts, NEW a \in Attempts, Own(h, a) PROVE RetryInv'
  <2>1. folded' = [folded EXCEPT !.owned = @ \cup {a}]
    BY <1>2 DEF Own
  <2>2. folded'.item = folded.item /\ folded'.att = folded.att /\ folded'.owned = folded.owned \cup {a}
    BY <2>1 DEF WorkInv, Fields
  <2> QED
    BY <2>2, RetryQuiet DEF RetryInv
<1>3. ASSUME NEW h \in Hosts, NEW t \in Asks(h), Authorize(h, t) PROVE RetryInv'
  <2>1. folded' = [folded EXCEPT !.authorities = @ \cup {Authority(t)}]
    BY <1>3 DEF Authorize
  <2>2. folded'.item = folded.item /\ folded'.att = folded.att /\ folded'.owned = folded.owned
    BY <2>1 DEF WorkInv, Fields
  <2> QED
    BY <2>2, RetryQuiet DEF RetryInv
<1>4. CASE RunEnds
  <2>1. folded'.item = folded.item /\ folded'.att = folded.att /\ folded'.owned = folded.owned
    BY <1>4 DEF RunEnds, WorkInv, Fields
  <2> QED
    BY <2>1, RetryQuiet DEF RetryInv
<1>5. ASSUME NEW h \in Hosts, NEW t \in Asks(h), Commit(h, t) PROVE RetryInv'
  <2> DEFINE w == Moved(folded, t)
  <2>1. Edge(folded, t) /\ folded' = [w EXCEPT !.rev = @ + 1, !.authorities = {}]
    BY <1>5 DEF Commit, Validates, Folds
  <2>2. w = [f \in Fields |-> w[f]]
    BY DEF Moved, WorkInv, Fields
  <2>3. folded'.item = w.item /\ folded'.att = w.att /\ folded'.owned = w.owned
    <3> HIDE DEF w
    <3> QED
      BY <2>1, <2>2 DEF Fields
  <2>4. CASE t.of = "item"
    <3>1. w.item = t.to /\ w.att = folded.att /\ w.owned = folded.owned
      BY <2>4 DEF Moved, WorkInv, Fields
    <3>2. t.to = "retry_wait" => \E a \in folded.owned : folded.att[a] = "stale"
      BY <2>1, <2>4 DEF Edge, ItemEdge, RetryProof
    <3> QED
      BY <2>3, <3>1, <3>2 DEF RetryInv, RetryEarned
  <2>5. CASE t.of # "item"
    <3>1. w.item = folded.item /\ w.att = [folded.att EXCEPT ![t.of] = t.to] /\ w.owned = folded.owned
      BY <2>5 DEF Moved, WorkInv, Fields
    <3>2. folded.att[t.of] # "stale"
      BY <2>1, <2>5 DEF Edge, AttemptEdge, ATTEMPT_TERMINAL_STATES
    <3>3. /\ folded'.att = [a \in Attempts |-> folded'.att[a]]
          /\ \A a \in Attempts : folded.att[a] = "stale" => folded'.att[a] = "stale"
      <4>1. /\ folded.att = [a \in Attempts |-> folded.att[a]]
            /\ folded'.att = [folded.att EXCEPT ![t.of] = t.to]
        BY <2>3, <3>1 DEF RetryInv
      <4> QED
        BY <3>2, <4>1
    <3> QED
      BY <2>3, <3>1, <3>3 DEF RetryInv, RetryEarned
  <2> QED
    BY <2>4, <2>5
<1> QED
  BY <1>1, <1>2, <1>3, <1>4, <1>5 DEF WorkNext, Load, Restarts, Acquire, Time, workVars

-----------------------------------------------------------------------------
(* Model calls.  An invocation that has not ended has used the memory only *)
(* if it was admitted with a valid one, and nothing that rests on a memory *)
(* is ever stored; what an attempt reserves is inside the limit; and a     *)
(* circuit is half open only for a probe in flight or lost.                *)

Stages == {"received", "model", "compose", "invoked", "validated", "selected",
           "verified", "completed", "ended"}
Flying == {"compose", "invoked"}

Circuits == [status : {"closed", "open", "half_open"}, failures : 0..Threshold, opened : 0..MaxClock]

Parts == {"at", "tier", "memory", "tried", "onTier", "spent", "paid", "probe", "used", "answer"}
Shape(r) == r = [f \in Parts |-> r[f]]

CallOK(r) ==
  /\ Shape(r)
  /\ r.at \in Stages /\ r.tier \in Tiers /\ r.memory \in Memories
  /\ r.tried \in 0..MaxTries /\ r.onTier \in 0..TierTries
  /\ r.spent \in Nat /\ r.paid \in Nat /\ r.probe \in BOOLEAN /\ r.used \in BOOLEAN
  /\ r.answer \in Answers \cup {"none"} /\ (r.at = "ended" <=> r.answer # "none")
  /\ r.at = "received" => ~r.used
  /\ r.at \in {"received", "model", "compose"} => r.onTier < TierTries
  /\ r.at = "invoked" => Cost[r.tier] <= r.spent /\ r.spent <= CostLimit
  /\ r.used /\ r.at # "ended" => r.memory = "valid"
  /\ r.spent <= CostLimit \/ r.spent = r.paid

DriverInv ==
  /\ now \in 0..MaxClock /\ mishaps \in 0..MaxMishaps /\ lostProbes \subseteq Tiers
  /\ stored \in {"none", "free"}
  /\ circuit \in [Tiers -> Circuits]
  /\ call = [c \in Calls |-> call[c]]
  /\ \A c \in Calls : CallOK(call[c])
  /\ ProbeSettled

\* The constants of the driver are numbers.
LEMMA DriverNumbers ==
  /\ TopTier \in Nat \ {0} /\ Threshold \in Nat \ {0} /\ TierTries \in Nat \ {0}
  /\ CostLimit \in Nat /\ MaxTries \in Nat /\ Deadline \in Nat /\ MemoryUntil \in Nat
  /\ MaxClock \in Nat /\ MaxMishaps \in Nat /\ Cooldown \in Nat
  /\ \A t \in Tiers : Cost[t] \in Nat
  BY DriverAssumption

(* One field of an invocation set, the others kept.                        *)
WithAt(r, v) == [r EXCEPT !.at = v]
WithTier(r, v) == [r EXCEPT !.tier = v]
WithMemory(r, v) == [r EXCEPT !.memory = v]
WithTried(r, v) == [r EXCEPT !.tried = v]
WithOnTier(r, v) == [r EXCEPT !.onTier = v]
WithSpent(r, v) == [r EXCEPT !.spent = v]
WithPaid(r, v) == [r EXCEPT !.paid = v]
WithProbe(r, v) == [r EXCEPT !.probe = v]
WithUsed(r, v) == [r EXCEPT !.used = v]
WithAnswer(r, v) == [r EXCEPT !.answer = v]

\* Same(r, s): the two agree on every field that is not in fs.
Same(r, s, fs) ==
  /\ "at" \notin fs => s.at = r.at
  /\ "tier" \notin fs => s.tier = r.tier
  /\ "memory" \notin fs => s.memory = r.memory
  /\ "tried" \notin fs => s.tried = r.tried
  /\ "onTier" \notin fs => s.onTier = r.onTier
  /\ "spent" \notin fs => s.spent = r.spent
  /\ "paid" \notin fs => s.paid = r.paid
  /\ "probe" \notin fs => s.probe = r.probe
  /\ "used" \notin fs => s.used = r.used
  /\ "answer" \notin fs => s.answer = r.answer

\* What setting a field does.
LEMMA SetFields ==
  ASSUME NEW r, Shape(r), NEW v
  PROVE  /\ Shape(WithAt(r, v)) /\ WithAt(r, v).at = v /\ Same(r, WithAt(r, v), {"at"})
         /\ Shape(WithTier(r, v)) /\ WithTier(r, v).tier = v /\ Same(r, WithTier(r, v), {"tier"})
         /\ Shape(WithMemory(r, v)) /\ WithMemory(r, v).memory = v /\ Same(r, WithMemory(r, v), {"memory"})
         /\ Shape(WithTried(r, v)) /\ WithTried(r, v).tried = v /\ Same(r, WithTried(r, v), {"tried"})
         /\ Shape(WithOnTier(r, v)) /\ WithOnTier(r, v).onTier = v /\ Same(r, WithOnTier(r, v), {"onTier"})
         /\ Shape(WithSpent(r, v)) /\ WithSpent(r, v).spent = v /\ Same(r, WithSpent(r, v), {"spent"})
         /\ Shape(WithPaid(r, v)) /\ WithPaid(r, v).paid = v /\ Same(r, WithPaid(r, v), {"paid"})
         /\ Shape(WithProbe(r, v)) /\ WithProbe(r, v).probe = v /\ Same(r, WithProbe(r, v), {"probe"})
         /\ Shape(WithUsed(r, v)) /\ WithUsed(r, v).used = v /\ Same(r, WithUsed(r, v), {"used"})
         /\ Shape(WithAnswer(r, v)) /\ WithAnswer(r, v).answer = v /\ Same(r, WithAnswer(r, v), {"answer"})
<1>1. Shape(WithAt(r, v)) /\ WithAt(r, v).at = v /\ Same(r, WithAt(r, v), {"at"})
  BY DEF WithAt, Same, Shape, Parts
<1>2. Shape(WithTier(r, v)) /\ WithTier(r, v).tier = v /\ Same(r, WithTier(r, v), {"tier"})
  BY DEF WithTier, Same, Shape, Parts
<1>3. Shape(WithMemory(r, v)) /\ WithMemory(r, v).memory = v /\ Same(r, WithMemory(r, v), {"memory"})
  BY DEF WithMemory, Same, Shape, Parts
<1>4. Shape(WithTried(r, v)) /\ WithTried(r, v).tried = v /\ Same(r, WithTried(r, v), {"tried"})
  BY DEF WithTried, Same, Shape, Parts
<1>5. Shape(WithOnTier(r, v)) /\ WithOnTier(r, v).onTier = v /\ Same(r, WithOnTier(r, v), {"onTier"})
  BY DEF WithOnTier, Same, Shape, Parts
<1>6. Shape(WithSpent(r, v)) /\ WithSpent(r, v).spent = v /\ Same(r, WithSpent(r, v), {"spent"})
  BY DEF WithSpent, Same, Shape, Parts
<1>7. Shape(WithPaid(r, v)) /\ WithPaid(r, v).paid = v /\ Same(r, WithPaid(r, v), {"paid"})
  BY DEF WithPaid, Same, Shape, Parts
<1>8. Shape(WithProbe(r, v)) /\ WithProbe(r, v).probe = v /\ Same(r, WithProbe(r, v), {"probe"})
  BY DEF WithProbe, Same, Shape, Parts
<1>9. Shape(WithUsed(r, v)) /\ WithUsed(r, v).used = v /\ Same(r, WithUsed(r, v), {"used"})
  BY DEF WithUsed, Same, Shape, Parts
<1>10. Shape(WithAnswer(r, v)) /\ WithAnswer(r, v).answer = v /\ Same(r, WithAnswer(r, v), {"answer"})
  BY DEF WithAnswer, Same, Shape, Parts
<1> QED
  BY <1>1, <1>2, <1>3, <1>4, <1>5, <1>6, <1>7, <1>8, <1>9, <1>10

\* A new invocation is in order.
LEMMA NewOK == CallOK(NewCall)
  BY DriverNumbers DEF NewCall, CallOK, Shape, Parts, Stages, Tiers, Memories, Answers

\* No invocation has begun, and every circuit is closed.
LEMMA InitDriver == DriverInit => DriverInv
<1> SUFFICES ASSUME DriverInit PROVE DriverInv
  OBVIOUS
<1>1. circuit \in [Tiers -> Circuits] /\ ProbeSettled
  BY DriverNumbers DEF DriverInit, Circuits, ProbeSettled
<1> QED
  BY <1>1, NewOK, DriverNumbers DEF DriverInit, DriverInv

\* An invocation that ends keeps what it spent.
LEMMA EndedOK ==
  ASSUME NEW r, CallOK(r), NEW answer \in Answers
  PROVE  /\ CallOK(Ended(r, answer))
         /\ Ended(r, answer).answer = answer
         /\ Ended(r, answer).used <=> r.used /\ answer \in {"model", "cache"}
<1>1. PICK u \in BOOLEAN : u = (r.used /\ answer \in {"model", "cache"})
  OBVIOUS
<1>2. Ended(r, answer) = WithPaid(WithSpent(WithUsed(WithAnswer(WithAt(
                            NewCall, "ended"), answer), u), r.spent), r.paid)
  BY <1>1 DEF Ended, WithPaid, WithSpent, WithUsed, WithAnswer, WithAt
<1>3. Shape(NewCall) /\ NewCall.tier \in Tiers /\ NewCall.memory = "none"
      /\ NewCall.tried = 0 /\ NewCall.onTier = 0 /\ NewCall.probe \in BOOLEAN
  BY NewOK DEF CallOK, NewCall
<1>4. PICK e : e = Ended(r, answer)
  OBVIOUS
<1>5. /\ Shape(e) /\ e.at = "ended" /\ e.answer = answer /\ e.used = u /\ e.spent = r.spent
      /\ e.paid = r.paid /\ e.tier = NewCall.tier /\ e.memory = NewCall.memory
      /\ e.tried = NewCall.tried /\ e.onTier = NewCall.onTier /\ e.probe = NewCall.probe
  BY <1>2, <1>3, <1>4, SetFields DEF Same
<1>6. CallOK(e)
  BY <1>1, <1>3, <1>5, DriverNumbers DEF CallOK, Stages, Memories, Answers
<1> QED
  BY <1>1, <1>4, <1>5, <1>6

\* So does one that falls back, and it starts afresh on a lower tier.
LEMMA FallbackOK ==
  ASSUME NEW r, CallOK(r), r.at # "ended", NEW s \in Fallback(r)
  PROVE  CallOK(s) /\ s.answer \notin {"model", "cache"} /\ s.at \in {"model", "ended"}
<1>1. CASE r.tier > 1
  <2>1. s = [r EXCEPT !.at = "model", !.tier = @ - 1, !.onTier = 0, !.probe = FALSE, !.used = FALSE]
    BY <1>1 DEF Fallback
  <2>2. Shape(r) /\ r.tier - 1 \in Tiers /\ r.answer = "none"
    BY <1>1, DriverNumbers DEF CallOK, Tiers
  <2>3. PICK no \in BOOLEAN : no = FALSE
    OBVIOUS
  <2>4. s = WithUsed(WithProbe(WithOnTier(WithTier(WithAt(r, "model"), r.tier - 1), 0), no), no)
    BY <2>1, <2>2, <2>3, SetFields DEF Same, WithUsed, WithProbe, WithOnTier, WithTier, WithAt
  <2>5. /\ Shape(s) /\ s.at = "model" /\ s.tier = r.tier - 1 /\ s.memory = r.memory
        /\ s.tried = r.tried /\ s.onTier = 0 /\ s.spent = r.spent /\ s.paid = r.paid
        /\ s.probe = no /\ s.used = no /\ s.answer = r.answer
    BY <2>2, <2>4, SetFields DEF Same
  <2> QED
    BY <2>2, <2>3, <2>5, DriverNumbers DEF CallOK, Stages
<1>2. CASE ~(r.tier > 1)
  <2>1. s = Ended(r, "host") \/ s = Ended(r, "failed")
    BY <1>2 DEF Fallback
  <2> QED
    BY <2>1, EndedOK DEF Answers, CallOK
<1> QED
  BY <1>1, <1>2

\* What the circuits look like after an attempt was acquired or recorded.
LEMMA CircuitSteps ==
  ASSUME circuit \in [Tiers -> Circuits], now \in 0..MaxClock, NEW t \in Tiers, NEW success \in BOOLEAN
  PROVE  /\ Acquired(t) \in [Tiers -> Circuits] /\ Recorded(t, success) \in [Tiers -> Circuits]
         /\ \A u \in Tiers \ {t} : /\ Acquired(t)[u] = circuit[u]
                                   /\ Recorded(t, success)[u] = circuit[u]
         /\ Recorded(t, success)[t].status # "half_open"
         /\ circuit[t].status = "closed" => Acquired(t)[t].status = "closed"
<1>1. circuit[t] \in Circuits /\ circuit[t].failures \in 0..Threshold
  BY DEF Circuits
<1>2. Acquired(t) \in [Tiers -> Circuits] /\ (\A u \in Tiers \ {t} : Acquired(t)[u] = circuit[u])
  BY <1>1 DEF Circuits, Acquired
<1>3. circuit[t].status = "closed" => Acquired(t)[t].status = "closed"
  BY DEF Acquired
<1>4. CASE success
  BY <1>1, <1>2, <1>3, <1>4, DriverNumbers DEF Circuits, Recorded
<1> DEFINE opened == [circuit EXCEPT ![t].status = "open", ![t].opened = now]
<1>5. /\ opened \in [Tiers -> Circuits] /\ opened[t].status = "open"
      /\ \A u \in Tiers \ {t} : opened[u] = circuit[u]
  BY <1>1, DriverNumbers DEF Circuits
<1>6. CASE ~success /\ circuit[t].status = "half_open"
  <2>1. Recorded(t, success) = opened
    BY <1>6 DEF Recorded
  <2> QED
    BY <2>1, <1>2, <1>3, <1>5
<1>7. CASE ~success /\ circuit[t].status # "half_open"
  <2>1. CASE circuit[t].failures + 1 >= Threshold
    <3>1. Recorded(t, success) = [opened EXCEPT ![t].failures = Threshold]
      BY <1>7, <2>1 DEF Recorded
    <3> HIDE DEF opened
    <3>2. /\ Recorded(t, success) \in [Tiers -> Circuits] /\ Recorded(t, success)[t].status = "open"
          /\ \A u \in Tiers \ {t} : Recorded(t, success)[u] = circuit[u]
      BY <3>1, <1>5, DriverNumbers DEF Circuits
    <3> QED
      BY <3>2, <1>2, <1>3
  <2>2. CASE ~(circuit[t].failures + 1 >= Threshold)
    <3>1. Recorded(t, success) = [circuit EXCEPT ![t].failures = circuit[t].failures + 1]
      BY <1>7, <2>2 DEF Recorded
    <3>2. circuit[t].failures + 1 \in 0..Threshold
      BY <1>1, <2>2, DriverNumbers
    <3> HIDE DEF opened
    <3>3. /\ Recorded(t, success) \in [Tiers -> Circuits]
          /\ Recorded(t, success)[t].status = circuit[t].status
          /\ \A u \in Tiers \ {t} : Recorded(t, success)[u] = circuit[u]
      BY <3>1, <3>2, <1>1 DEF Circuits
    <3> QED
      BY <3>3, <1>2, <1>3, <1>7
  <2> QED
    BY <2>1, <2>2
<1> QED
  BY <1>4, <1>6, <1>7

(* What a step of an invocation does: it becomes r, which is in order and, *)
(* when it is an answer that used the memory, the memory is valid; and a   *)
(* circuit is half open only for r's probe, for another's or for a lost    *)
(* one.                                                                    *)
Probes(r, t) == r.probe /\ r.tier = t /\ r.at \in Flying
BecomesOK(c, r) ==
  /\ CallOK(r) /\ Move(c, r)
  /\ r.answer \in {"model", "cache"} /\ r.used => now < MemoryUntil
CircuitKept(c, r) ==
  /\ circuit' \in [Tiers -> Circuits]
  /\ lostProbes \subseteq lostProbes' /\ lostProbes' \subseteq Tiers
  /\ \A t \in Tiers : circuit'[t].status = "half_open" =>
       \/ Probes(r, t) \/ t \in lostProbes'
       \/ circuit[t].status = "half_open" /\ ~Probes(call[c], t)
InvocationStep(c) ==
  /\ \E r : BecomesOK(c, r) /\ CircuitKept(c, r)
  /\ now' = now /\ mishaps' \in 0..MaxMishaps /\ stored' \in {"none", "free"}

\* Where no circuit moves and no probe is taken or dropped, none is lost.
LEMMA CircuitSame ==
  ASSUME DriverInv, NEW c \in Calls, NEW r, UNCHANGED <<circuit, lostProbes>>,
         call[c].at \notin Flying \/ (r.probe = call[c].probe /\ r.tier = call[c].tier /\ r.at \in Flying)
  PROVE  CircuitKept(c, r)
  BY DEF DriverInv, CircuitKept, Probes

\* A result recorded for the tier of an invocation settles its probe.
LEMMA CircuitRecorded ==
  ASSUME DriverInv, NEW c \in Calls, NEW r, NEW success \in BOOLEAN,
         circuit' = Recorded(call[c].tier, success), UNCHANGED lostProbes
  PROVE  CircuitKept(c, r)
<1>1. call[c].tier \in Tiers
  BY DEF DriverInv, CallOK
<1> QED
  BY <1>1, CircuitSteps DEF DriverInv, CircuitKept, Probes

\* Received.
LEMMA ReceivedStep ==
  ASSUME DriverInv, NEW c \in Calls, Received(c)
  PROVE  InvocationStep(c)
<1>1. CallOK(call[c]) /\ call[c].at = "received" /\ UNCHANGED <<now, circuit, stored, lostProbes, mishaps>>
  BY DEF DriverInv, Received
<1>2. \A r : CircuitKept(c, r)
  BY <1>1, CircuitSame DEF Flying
<1>3. stored' \in {"none", "free"} /\ mishaps' \in 0..MaxMishaps /\ now' = now
  BY <1>1 DEF DriverInv
<1>4. CASE Move(c, Ended(call[c], "failed"))
  <2>1. BecomesOK(c, Ended(call[c], "failed"))
    BY <1>1, <1>4, EndedOK DEF BecomesOK, Answers
  <2> QED
    BY <2>1, <1>2, <1>3 DEF InvocationStep
<1>5. ASSUME NEW t \in Tiers, NEW m \in Memories, NEW fee \in {0, 1}, NEW s,
             s = [call[c] EXCEPT !.tier = t, !.memory = m, !.spent = fee, !.paid = fee],
             \/ Move(c, [s EXCEPT !.at = "model"])
             \/ Move(c, [Ended(s, "cache") EXCEPT !.used = stored = "memory"])
      PROVE  InvocationStep(c)
  <2>1. Shape(call[c]) /\ s = WithPaid(WithSpent(WithMemory(WithTier(call[c], t), m), fee), fee)
    BY <1>1, <1>5 DEF WithPaid, WithSpent, WithMemory, WithTier, CallOK
  <2>2. /\ Shape(s) /\ s.at = call[c].at /\ s.tier = t /\ s.memory = m
        /\ s.tried = call[c].tried /\ s.onTier = call[c].onTier /\ s.spent = fee /\ s.paid = fee
        /\ s.probe = call[c].probe /\ s.used = call[c].used /\ s.answer = call[c].answer
    BY <2>1, SetFields DEF Same
  <2>3. CallOK(s)
    BY <1>1, <2>2 DEF CallOK
  <2>4. CASE Move(c, [s EXCEPT !.at = "model"])
    <3>1. PICK r : r = WithAt(s, "model")
      OBVIOUS
    <3>2. CallOK(r) /\ r.answer = "none"
      BY <1>1, <2>2, <2>3, <3>1, SetFields DEF Same, CallOK, Stages
    <3>3. BecomesOK(c, r)
      BY <2>4, <3>1, <3>2 DEF BecomesOK, WithAt
    <3> QED
      BY <3>3, <1>2, <1>3 DEF InvocationStep
  <2>5. CASE Move(c, [Ended(s, "cache") EXCEPT !.used = stored = "memory"])
    <3>1. PICK u \in BOOLEAN : u = (stored = "memory")
      OBVIOUS
    <3>2. ~u
      BY <3>1 DEF DriverInv
    <3>3. PICK e, r : e = Ended(s, "cache") /\ r = WithUsed(e, u)
      OBVIOUS
    <3>4. CallOK(e) /\ e.answer = "cache"
      BY <2>3, <3>3, EndedOK DEF Answers
    <3>5. CallOK(r) /\ r.used = u
      BY <3>2, <3>3, <3>4, SetFields DEF Same, CallOK
    <3>6. Move(c, r)
      BY <2>5, <3>1, <3>3 DEF WithUsed
    <3>7. BecomesOK(c, r)
      BY <3>2, <3>5, <3>6 DEF BecomesOK
    <3> QED
      BY <3>7, <1>2, <1>3 DEF InvocationStep
  <2> QED
    BY <1>5, <2>4, <2>5
<1> QED
  BY <1>4, <1>5 DEF Received

\* An invocation that fails, and one that falls back, answer nothing.
LEMMA FailedBecomes ==
  ASSUME NEW c \in Calls, CallOK(call[c]), Move(c, Ended(call[c], "failed"))
  PROVE  BecomesOK(c, Ended(call[c], "failed"))
  BY EndedOK DEF BecomesOK, Answers
LEMMA FallbackBecomes ==
  ASSUME NEW c \in Calls, NEW r, CallOK(r), r.at # "ended", NEW s \in Fallback(r), Move(c, s)
  PROVE  BecomesOK(c, s)
  BY FallbackOK DEF BecomesOK

\* Attempt: the circuit that lets a probe through is half open for it.
LEMMA AttemptStep ==
  ASSUME DriverInv, NEW c \in Calls, Attempt(c)
  PROVE  InvocationStep(c)
<1>1. CallOK(call[c]) /\ call[c].at = "model" /\ UNCHANGED <<now, stored, lostProbes, mishaps>>
  BY DEF DriverInv, Attempt
<1>2. stored' \in {"none", "free"} /\ mishaps' \in 0..MaxMishaps /\ now' = now
  BY <1>1 DEF DriverInv
<1>3. CASE Move(c, Ended(call[c], "failed")) /\ UNCHANGED circuit
  BY <1>1, <1>2, <1>3, FailedBecomes, CircuitSame DEF InvocationStep, Flying
<1>4. CASE (\E s \in Fallback(call[c]) : Move(c, s)) /\ UNCHANGED circuit
  BY <1>1, <1>2, <1>4, FallbackBecomes, CircuitSame DEF InvocationStep, Flying
<1>5. CASE /\ circuit' = Acquired(call[c].tier) /\ Admits(call[c].tier)
           /\ Move(c, [call[c] EXCEPT !.at = "compose", !.probe = circuit[call[c].tier].status = "open"])
  <2>1. PICK u \in BOOLEAN : u = (circuit[call[c].tier].status = "open")
    OBVIOUS
  <2>2. PICK r : r = WithProbe(WithAt(call[c], "compose"), u)
    OBVIOUS
  <2>3. Move(c, r)
    BY <1>5, <2>1, <2>2 DEF WithProbe, WithAt
  <2>4. /\ Shape(r) /\ r.at = "compose" /\ r.tier = call[c].tier /\ r.memory = call[c].memory
        /\ r.tried = call[c].tried /\ r.onTier = call[c].onTier /\ r.spent = call[c].spent
        /\ r.paid = call[c].paid /\ r.probe = u /\ r.used = call[c].used /\ r.answer = call[c].answer
    BY <1>1, <2>2, SetFields DEF Same, CallOK
  <2>5. CallOK(r) /\ r.answer = "none"
    BY <1>1, <2>1, <2>4 DEF CallOK, Stages
  <2>6. BecomesOK(c, r)
    BY <2>3, <2>5 DEF BecomesOK
  <2>7. call[c].tier \in Tiers /\ circuit \in [Tiers -> Circuits] /\ now \in 0..MaxClock
    BY <1>1 DEF DriverInv, CallOK
  <2>8. CircuitKept(c, r)
    <3> SUFFICES ASSUME NEW t \in Tiers, circuit'[t].status = "half_open"
                 PROVE  Probes(r, t) \/ (circuit[t].status = "half_open" /\ ~Probes(call[c], t))
      BY <1>1, <1>5, <2>7, CircuitSteps DEF CircuitKept, DriverInv
    <3>1. CASE t # call[c].tier
      BY <1>1, <1>5, <2>7, <3>1, CircuitSteps DEF Probes, Flying
    <3>2. CASE t = call[c].tier
      <4>1. circuit[t].status = "open"
        BY <1>5, <2>7, <3>2, CircuitSteps DEF Admits
      <4> QED
        BY <2>1, <2>4, <3>2, <4>1 DEF Probes, Flying
    <3> QED
      BY <3>1, <3>2
  <2> QED
    BY <1>2, <2>6, <2>8 DEF InvocationStep
<1> QED
  BY <1>3, <1>4, <1>5 DEF Attempt

\* Dispatch: an abandoned probe is settled, and a call is paid for in full.
LEMMA DispatchStep ==
  ASSUME DriverInv, NEW c \in Calls, Dispatch(c)
  PROVE  InvocationStep(c)
<1>1. CallOK(call[c]) /\ call[c].at = "compose" /\ UNCHANGED <<now, stored, lostProbes>>
  BY DEF DriverInv, Dispatch
<1>2. stored' \in {"none", "free"} /\ now' = now
  BY <1>1 DEF DriverInv
<1>3. ASSUME NEW r, circuit' = Abandoned(call[c]) PROVE CircuitKept(c, r)
  <2>1. CASE call[c].probe
    BY <1>1, <1>3, <2>1, CircuitRecorded DEF Abandoned
  <2>2. CASE ~call[c].probe
    BY <1>1, <1>3, <2>2 DEF Abandoned, DriverInv, CircuitKept, Probes
  <2> QED
    BY <2>1, <2>2
<1>4. CASE mishaps < MaxMishaps /\ mishaps' = mishaps + 1
           /\ circuit' = Abandoned(call[c]) /\ Move(c, Ended(call[c], "failed"))
  <2>1. mishaps' \in 0..MaxMishaps
    BY <1>4, DriverNumbers DEF DriverInv
  <2> QED
    BY <1>1, <1>2, <1>3, <1>4, <2>1, FailedBecomes DEF InvocationStep
<1>5. CASE circuit' = Abandoned(call[c]) /\ (\E s \in Fallback(call[c]) : Move(c, s)) /\ UNCHANGED mishaps
  <2>1. mishaps' \in 0..MaxMishaps
    BY <1>5 DEF DriverInv
  <2> QED
    BY <1>1, <1>2, <1>3, <1>5, <2>1, FallbackBecomes DEF InvocationStep
<1>6. CASE /\ CanCall(call[c]) /\ UNCHANGED <<circuit, mishaps>>
           /\ Move(c, [call[c] EXCEPT !.at = "invoked", !.tried = @ + 1, !.onTier = @ + 1,
                                      !.spent = @ + Cost[call[c].tier],
                                      !.used = call[c].memory = "valid" /\ now < MemoryUntil])
  <2>1. PICK u \in BOOLEAN : u = (call[c].memory = "valid" /\ now < MemoryUntil)
    OBVIOUS
  <2>2. PICK r : r = WithUsed(WithSpent(WithOnTier(WithTried(WithAt(call[c], "invoked"),
                       call[c].tried + 1), call[c].onTier + 1), call[c].spent + Cost[call[c].tier]), u)
    OBVIOUS
  <2>3. Shape(call[c])
    BY <1>1 DEF CallOK
  <2>4. Move(c, r)
    BY <1>6, <2>1, <2>2, <2>3, SetFields DEF Same, WithUsed, WithSpent, WithOnTier, WithTried, WithAt
  <2>5. /\ Shape(r) /\ r.at = "invoked" /\ r.tier = call[c].tier /\ r.memory = call[c].memory
        /\ r.tried = call[c].tried + 1 /\ r.onTier = call[c].onTier + 1
        /\ r.spent = call[c].spent + Cost[call[c].tier] /\ r.paid = call[c].paid
        /\ r.probe = call[c].probe /\ r.used = u /\ r.answer = call[c].answer
    BY <2>2, <2>3, SetFields DEF Same
  <2>6. CallOK(r) /\ r.answer = "none"
    BY <1>1, <1>6, <2>1, <2>5, DriverNumbers DEF CallOK, Stages, CanCall
  <2>7. BecomesOK(c, r)
    BY <2>4, <2>6 DEF BecomesOK
  <2>8. CircuitKept(c, r)
    BY <1>1, <1>6, <2>5, CircuitSame DEF Flying
  <2>9. mishaps' \in 0..MaxMishaps
    BY <1>6 DEF DriverInv
  <2> QED
    BY <1>2, <2>7, <2>8, <2>9 DEF InvocationStep
<1> QED
  BY <1>4, <1>5, <1>6 DEF Dispatch

\* ProviderRaises.
LEMMA ProviderRaisesStep ==
  ASSUME DriverInv, NEW c \in Calls, ProviderRaises(c)
  PROVE  InvocationStep(c)
<1>1. CallOK(call[c]) /\ call[c].at = "invoked" /\ UNCHANGED <<now, stored, lostProbes, mishaps>>
  BY DEF DriverInv, ProviderRaises
<1>2. stored' \in {"none", "free"} /\ mishaps' \in 0..MaxMishaps /\ now' = now
  BY <1>1 DEF DriverInv
<1>3. \E success \in BOOLEAN : circuit' = Recorded(call[c].tier, success)
  BY DEF ProviderRaises
<1>4. \A r : CircuitKept(c, r)
  BY <1>1, <1>3, CircuitRecorded
<1>5. CASE Move(c, Ended(call[c], "failed"))
  BY <1>1, <1>2, <1>4, <1>5, FailedBecomes DEF InvocationStep
<1>6. CASE \E s \in Fallback(call[c]) : Move(c, s)
  BY <1>1, <1>2, <1>4, <1>6, FallbackBecomes DEF InvocationStep
<1>7. CASE /\ call[c].onTier < TierTries
           /\ Move(c, [call[c] EXCEPT !.at = "model", !.probe = FALSE, !.used = FALSE])
  <2>1. PICK no \in BOOLEAN : no = FALSE
    OBVIOUS
  <2>2. PICK r : r = WithUsed(WithProbe(WithAt(call[c], "model"), no), no)
    OBVIOUS
  <2>3. Move(c, r)
    BY <1>7, <2>1, <2>2 DEF WithUsed, WithProbe, WithAt
  <2>4. /\ Shape(r) /\ r.at = "model" /\ r.tier = call[c].tier /\ r.memory = call[c].memory
        /\ r.tried = call[c].tried /\ r.onTier = call[c].onTier /\ r.spent = call[c].spent
        /\ r.paid = call[c].paid /\ r.probe = no /\ r.used = no /\ r.answer = call[c].answer
    BY <1>1, <2>2, SetFields DEF Same, CallOK
  <2>5. CallOK(r) /\ r.answer = "none"
    BY <1>1, <1>7, <2>1, <2>4 DEF CallOK, Stages
  <2>6. BecomesOK(c, r)
    BY <2>3, <2>5 DEF BecomesOK
  <2> QED
    BY <1>2, <1>4, <2>6 DEF InvocationStep
<1> QED
  BY <1>5, <1>6, <1>7 DEF ProviderRaises

\* ObserverRaises: the probe is lost.
LEMMA ObserverRaisesStep ==
  ASSUME DriverInv, NEW c \in Calls, ObserverRaises(c)
  PROVE  InvocationStep(c)
<1>1. /\ CallOK(call[c]) /\ UNCHANGED <<now, circuit, stored>>
      /\ mishaps < MaxMishaps /\ mishaps' = mishaps + 1 /\ Move(c, Ended(call[c], "failed"))
      /\ lostProbes' = IF call[c].probe THEN lostProbes \cup {call[c].tier} ELSE lostProbes
  BY DEF DriverInv, ObserverRaises
<1>2. stored' \in {"none", "free"} /\ mishaps' \in 0..MaxMishaps /\ now' = now
  BY <1>1, DriverNumbers DEF DriverInv
<1>3. ASSUME NEW r PROVE CircuitKept(c, r)
  BY <1>1 DEF DriverInv, CircuitKept, Probes, CallOK
<1> QED
  BY <1>1, <1>2, <1>3, FailedBecomes DEF InvocationStep

\* Responds: the exact price is at most what was reserved.
LEMMA RespondsStep ==
  ASSUME DriverInv, NEW c \in Calls, Responds(c)
  PROVE  InvocationStep(c)
<1>1. CallOK(call[c]) /\ call[c].at = "invoked" /\ UNCHANGED <<now, stored, lostProbes, mishaps>>
      /\ circuit' = Recorded(call[c].tier, TRUE)
  BY DEF DriverInv, Responds
<1>2. stored' \in {"none", "free"} /\ mishaps' \in 0..MaxMishaps /\ now' = now
  BY <1>1 DEF DriverInv
<1>3. \A r : CircuitKept(c, r)
  BY <1>1, CircuitRecorded
<1>4. CASE Move(c, Ended(call[c], "failed"))
  BY <1>1, <1>2, <1>3, <1>4, FailedBecomes DEF InvocationStep
<1>5. ASSUME NEW exact \in 0..Cost[call[c].tier], NEW s,
             s = [call[c] EXCEPT !.spent = @ + exact - Cost[call[c].tier], !.probe = FALSE],
             \/ \E f \in Fallback(s) : Move(c, f)
             \/ Move(c, Ended(s, "failed"))
             \/ Move(c, [s EXCEPT !.at = "validated"])
      PROVE  InvocationStep(c)
  <2>1. PICK no \in BOOLEAN : no = FALSE
    OBVIOUS
  <2>2. PICK n : n = call[c].spent + exact - Cost[call[c].tier]
    OBVIOUS
  <2>3. s = WithProbe(WithSpent(call[c], n), no)
    BY <1>5, <2>1, <2>2 DEF WithProbe, WithSpent
  <2>4. /\ Shape(s) /\ s.at = call[c].at /\ s.tier = call[c].tier /\ s.memory = call[c].memory
        /\ s.tried = call[c].tried /\ s.onTier = call[c].onTier /\ s.spent = n
        /\ s.paid = call[c].paid /\ s.probe = no /\ s.used = call[c].used /\ s.answer = call[c].answer
    BY <1>1, <2>3, SetFields DEF Same, CallOK
  <2>5. PICK r : r = WithAt(s, "validated")
    OBVIOUS
  <2>6. /\ Shape(r) /\ r.at = "validated" /\ r.tier = s.tier /\ r.memory = s.memory
        /\ r.tried = s.tried /\ r.onTier = s.onTier /\ r.spent = s.spent
        /\ r.paid = s.paid /\ r.probe = s.probe /\ r.used = s.used /\ r.answer = s.answer
    BY <2>4, <2>5, SetFields DEF Same
  <2>7. n \in Nat /\ n <= CostLimit
    BY <1>1, <2>2, DriverNumbers DEF CallOK
  <2>8. CallOK(r) /\ r.answer = "none"
    BY <1>1, <2>1, <2>4, <2>6, <2>7 DEF CallOK, Stages
  <2>9. CASE Move(c, [s EXCEPT !.at = "validated"])
    <3>1. BecomesOK(c, r)
      BY <2>5, <2>8, <2>9 DEF BecomesOK, WithAt
    <3> QED
      BY <1>2, <1>3, <3>1 DEF InvocationStep
  <2>10. CASE Move(c, Ended(s, "failed")) \/ \E f \in Fallback(s) : Move(c, f)
    <3>1. Ended(s, "failed") = Ended(r, "failed") /\ Fallback(s) = Fallback(r)
      <4>1. Ended(s, "failed") = Ended(r, "failed")
        BY <2>6 DEF Ended
      <4>2. Ended(s, "host") = Ended(r, "host")
        BY <2>6 DEF Ended
      <4>3. [s EXCEPT !.at = "model", !.tier = @ - 1, !.onTier = 0, !.probe = FALSE, !.used = FALSE]
              = [r EXCEPT !.at = "model", !.tier = @ - 1, !.onTier = 0, !.probe = FALSE, !.used = FALSE]
        <5>1. WithAt(s, "model") = WithAt(r, "model")
          BY <2>4, <2>5 DEF WithAt, Shape, Parts
        <5>2. /\ [s EXCEPT !.at = "model", !.tier = @ - 1, !.onTier = 0, !.probe = FALSE, !.used = FALSE]
                   = WithUsed(WithProbe(WithOnTier(WithTier(WithAt(s, "model"), s.tier - 1), 0), FALSE), FALSE)
              /\ [r EXCEPT !.at = "model", !.tier = @ - 1, !.onTier = 0, !.probe = FALSE, !.used = FALSE]
                   = WithUsed(WithProbe(WithOnTier(WithTier(WithAt(r, "model"), r.tier - 1), 0), FALSE), FALSE)
          BY <2>4, <2>6, SetFields DEF Same, WithUsed, WithProbe, WithOnTier, WithTier, WithAt
        <5> QED
          BY <2>6, <5>1, <5>2
      <4> QED
        BY <2>6, <4>1, <4>2, <4>3 DEF Fallback
    <3>2. CASE Move(c, Ended(r, "failed"))
      <4>1. BecomesOK(c, Ended(r, "failed"))
        BY <2>8, <3>2, EndedOK DEF BecomesOK, Answers
      <4> QED
        BY <1>2, <1>3, <4>1 DEF InvocationStep
    <3>3. ASSUME NEW f \in Fallback(r), Move(c, f) PROVE InvocationStep(c)
      <4>1. BecomesOK(c, f)
        BY <2>6, <2>8, <3>3, FallbackBecomes
      <4> QED
        BY <1>2, <1>3, <4>1 DEF InvocationStep
    <3> QED
      BY <2>10, <3>1, <3>2, <3>3
  <2> QED
    BY <1>5, <2>9, <2>10
<1> QED
  BY <1>4, <1>5 DEF Responds

\* An invocation that goes on to its next stage after the provider answered.
LEMMA NextStage ==
  ASSUME NEW c \in Calls, CallOK(call[c]), call[c].at \in {"validated", "selected", "verified", "completed"},
         NEW at \in {"selected", "verified", "completed"}, Move(c, [call[c] EXCEPT !.at = at])
  PROVE  BecomesOK(c, WithAt(call[c], at))
<1>1. PICK r : r = WithAt(call[c], at)
  OBVIOUS
<1>2. CallOK(r) /\ r.answer = "none"
  BY <1>1, SetFields DEF Same, CallOK, Stages
<1> QED
  BY <1>1, <1>2 DEF BecomesOK, WithAt

\* Finish, Discard and Store: the memory is looked at again before an answer
\* leaves, and an answer that is stored rests on none.
LEMMA LastSteps ==
  ASSUME DriverInv, NEW c \in Calls, Finish(c) \/ Discard(c) \/ Store(c)
  PROVE  InvocationStep(c)
<1>1. /\ CallOK(call[c]) /\ call[c].at \in {"validated", "selected", "verified", "completed"}
      /\ UNCHANGED <<now, circuit, lostProbes, mishaps>>
  BY DEF DriverInv, Finish, Discard, Store, MayStore
<1>2. \A r : CircuitKept(c, r)
  BY <1>1, CircuitSame DEF Flying
<1>3. mishaps' \in 0..MaxMishaps /\ now' = now
  BY <1>1 DEF DriverInv
<1>4. stored' \in {"none", "free"}
  <2>1. CASE Finish(c) \/ Discard(c)
    BY <2>1 DEF Finish, Discard, DriverInv
  <2>2. CASE Store(c)
    BY <1>1, <2>2 DEF Store, MayStore, CallOK
  <2> QED
    BY <2>1, <2>2
<1>5. CASE Discard(c)
  BY <1>1, <1>2, <1>3, <1>4, <1>5, FailedBecomes DEF Discard, InvocationStep
<1>6. CASE Store(c)
  <2>1. BecomesOK(c, WithAt(call[c], "selected"))
    BY <1>1, <1>6, NextStage DEF Store
  <2> QED
    BY <1>2, <1>3, <1>4, <2>1 DEF InvocationStep
<1>7. CASE Finish(c)
  <2>1. CASE call[c].at = "completed"
    <3>1. Move(c, Ended(call[c], "model"))
      BY <1>7, <2>1 DEF Finish, Then
    <3>2. call[c].used => now < MemoryUntil
      BY <1>1, <1>7, DriverNumbers DEF Finish, Survives, MemoryExpired, CallOK, DriverInv
    <3>3. BecomesOK(c, Ended(call[c], "model"))
      BY <1>1, <3>1, <3>2, EndedOK DEF BecomesOK, Answers
    <3> QED
      BY <1>2, <1>3, <1>4, <3>3 DEF InvocationStep
  <2>2. CASE call[c].at # "completed"
    <3>1. PICK at \in {"selected", "verified", "completed"} : Move(c, [call[c] EXCEPT !.at = at])
      BY <1>1, <1>7, <2>2 DEF Finish, Then
    <3>2. BecomesOK(c, WithAt(call[c], at))
      BY <1>1, <3>1, NextStage
    <3> QED
      BY <1>2, <1>3, <1>4, <3>2 DEF InvocationStep
  <2> QED
    BY <2>1, <2>2
<1> QED
  BY <1>5, <1>6, <1>7

\* Every step of the driver is one of an invocation, or of the clock.
LEMMA DriverSteps ==
  ASSUME DriverInv, DriverNext
  PROVE  Tick \/ \E c \in Calls : InvocationStep(c)
  BY ReceivedStep, AttemptStep, DispatchStep, ProviderRaisesStep, ObserverRaisesStep,
     RespondsStep, LastSteps DEF DriverNext

\* A step of one invocation leaves the others as they are.
LEMMA MoveOne ==
  ASSUME DriverInv, NEW c \in Calls, NEW r, Move(c, r)
  PROVE  /\ call' = [d \in Calls |-> call'[d]] /\ call'[c] = r
         /\ \A d \in Calls \ {c} : call'[d] = call[d]
  BY DEF DriverInv, Move

\* The driver's invariant is kept.
LEMMA NextDriver == DriverInv /\ [DriverNext]_driver => DriverInv'
<1> SUFFICES ASSUME DriverInv, [DriverNext]_driver PROVE DriverInv'
  OBVIOUS
<1>1. CASE UNCHANGED driver
  BY <1>1 DEF driver, DriverInv, ProbeSettled
<1>2. CASE Tick
  BY <1>2, DriverNumbers DEF Tick, DriverInv, ProbeSettled
<1>3. ASSUME NEW c \in Calls, InvocationStep(c) PROVE DriverInv'
  <2>1. PICK r : BecomesOK(c, r) /\ CircuitKept(c, r)
    BY <1>3 DEF InvocationStep
  <2>2. CallOK(r) /\ Move(c, r)
    BY <2>1 DEF BecomesOK
  <2>3. /\ call' = [d \in Calls |-> call'[d]] /\ call'[c] = r
        /\ \A d \in Calls \ {c} : call'[d] = call[d]
    BY <2>2, MoveOne
  <2>4. \A d \in Calls : CallOK(call'[d])
    BY <2>2, <2>3 DEF DriverInv
  <2>5. ProbeSettled'
    <3> SUFFICES ASSUME NEW t \in Tiers, circuit'[t].status = "half_open"
                 PROVE  t \in lostProbes' \/ \E d \in Calls : Probes(call'[d], t)
      BY DEF ProbeSettled, Probes, Flying
    <3>1. CASE Probes(r, t)
      BY <2>3, <3>1
    <3>2. CASE circuit[t].status = "half_open" /\ ~Probes(call[c], t) /\ t \notin lostProbes
      <4>1. PICK d \in Calls : Probes(call[d], t)
        BY <3>2 DEF DriverInv, ProbeSettled, Probes, Flying
      <4> QED
        BY <2>3, <3>2, <4>1
    <3> QED
      BY <2>1, <3>1, <3>2 DEF CircuitKept
  <2> QED
    BY <1>3, <2>1, <2>3, <2>4, <2>5 DEF DriverInv, InvocationStep, CircuitKept
<1> QED
  BY <1>1, <1>2, <1>3, DriverSteps

\* An answer that used the memory leaves while the memory is valid.
FreshAnswer ==
  \A c \in Calls : call'[c].answer \in {"model", "cache"} /\ call'[c].used
                   /\ call[c].answer = "none" => now < MemoryUntil
LEMMA FreshStep == DriverInv /\ [DriverNext]_driver => FreshAnswer
<1> SUFFICES ASSUME DriverInv, [DriverNext]_driver PROVE FreshAnswer
  OBVIOUS
<1>1. CASE UNCHANGED driver \/ Tick
  BY <1>1 DEF driver, Tick, FreshAnswer
<1>2. ASSUME NEW c \in Calls, InvocationStep(c) PROVE FreshAnswer
  <2>1. PICK r : BecomesOK(c, r)
    BY <1>2 DEF InvocationStep
  <2>2. call'[c] = r /\ \A d \in Calls \ {c} : call'[d] = call[d]
    BY <2>1, MoveOne DEF BecomesOK
  <2> QED
    BY <2>1, <2>2 DEF FreshAnswer, BecomesOK
<1> QED
  BY <1>1, <1>2, DriverSteps

\* What the invariant says of the driver.
LEMMA DriverInvImplies == DriverInv => DriverTypeOK /\ WithinLimit /\ ProbeSettled
<1> SUFFICES ASSUME DriverInv PROVE DriverTypeOK /\ WithinLimit /\ ProbeSettled
  OBVIOUS
<1>1. DriverTypeOK
  BY DEF DriverInv, DriverTypeOK, CallOK, Circuits, Answers
<1> QED
  BY <1>1 DEF DriverInv, WithinLimit, CallOK

-----------------------------------------------------------------------------
(* Web trade.  Between the close of a hidden rebalance and its record the  *)
(* ledger is behind by exactly what the close realized; a position that    *)
(* nothing else touched is what the request read, then flat, then at the   *)
(* target.                                                                 *)

Rebalancing == {"lever", "open", "record"}
Positions == [lots : -MaxLots..MaxLots, lever : Levers \cup {0, 1}, margin : Nat]
States == [side : Sides \cup {"none"}, basis : Nat, carried : Int]

PositionOK ==
  /\ wpos \in Positions /\ (wpos.lots # 0 => wpos.lever # 0)
  /\ wpnl \in -1..1 /\ (wpos.lots = 0 => wpnl = 0)
LedgerOK == ledger \in States /\ booked \in Int /\ harmed \in BOOLEAN /\ raced \in BOOLEAN
PollOK ==
  /\ accountPoll.at \in {"idle", "save"}
  /\ accountPoll.at = "save" =>
       /\ accountPoll.seen \in States /\ accountPoll.side \in Sides /\ accountPoll.margin \in Nat
       /\ accountPoll.seen.side # accountPoll.side
OrdersOK == \A o \in restingOrders : o.kind \in {"open", "reduce"} /\ o.qty \in Int \ {0}

AskParts == {"at", "side", "aim", "lever", "pnl", "left", "ok", "answer"}
AskShape(a) == a = [f \in AskParts |-> a[f]]
AskOK(a) ==
  /\ AskShape(a)
  /\ a.at \in {"idle", "close", "lever", "open", "record", "margin", "delta", "order"}
  /\ a.ok \in BOOLEAN
  /\ a.at \in Rebalancing \cup {"order", "close"} =>
       /\ a.side \in Sides /\ a.aim \in Nat \ {0} /\ a.lever \in Levers
       /\ a.left \in Int /\ a.pnl \in Int
  /\ a.at \in {"margin", "delta"} => a.aim \in Int

\* Where the position stands in a rebalance that nothing interfered with.
Reopening(a, p) ==
  /\ a.at = "close" /\ a.ok => p.lots = a.left /\ a.left # 0 /\ a.side = Side(a.left)
  /\ a.at \in {"lever", "open"} /\ a.ok => p.lots = 0
  /\ a.at = "record" /\ a.ok /\ a.answer = "complete" => p.lots = Signed(a.side, a.aim)

\* What the ledger has carried, and what the rebalance has still to record.
Unrecorded == IF ask.at \in Rebalancing THEN ask.pnl ELSE 0
Carrying == ~harmed /\ ~raced => ledger.carried + Unrecorded = booked

WebInv ==
  /\ PositionOK /\ LedgerOK /\ PollOK /\ OrdersOK
  /\ AskOK(ask) /\ Reopening(ask, wpos) /\ Carrying

\* The constants of the backend are numbers.
LEMMA WebNumbers ==
  MaxLots \in Nat /\ \A l \in Levers : l \in Nat \ {0}
  BY LeversAssumption

(* One field of a request set, the others kept.                            *)
AskAt(a, v) == [a EXCEPT !.at = v]
AskSide(a, v) == [a EXCEPT !.side = v]
AskAim(a, v) == [a EXCEPT !.aim = v]
AskLever(a, v) == [a EXCEPT !.lever = v]
AskPnl(a, v) == [a EXCEPT !.pnl = v]
AskLeft(a, v) == [a EXCEPT !.left = v]
AskOk(a, v) == [a EXCEPT !.ok = v]
AskAnswer(a, v) == [a EXCEPT !.answer = v]

AskSame(a, b, fs) ==
  /\ "at" \notin fs => b.at = a.at
  /\ "side" \notin fs => b.side = a.side
  /\ "aim" \notin fs => b.aim = a.aim
  /\ "lever" \notin fs => b.lever = a.lever
  /\ "pnl" \notin fs => b.pnl = a.pnl
  /\ "left" \notin fs => b.left = a.left
  /\ "ok" \notin fs => b.ok = a.ok
  /\ "answer" \notin fs => b.answer = a.answer

\* What setting a field does.
LEMMA SetAsk ==
  ASSUME NEW a, AskShape(a), NEW v
  PROVE  /\ AskShape(AskAt(a, v)) /\ AskAt(a, v).at = v /\ AskSame(a, AskAt(a, v), {"at"})
         /\ AskShape(AskSide(a, v)) /\ AskSide(a, v).side = v /\ AskSame(a, AskSide(a, v), {"side"})
         /\ AskShape(AskAim(a, v)) /\ AskAim(a, v).aim = v /\ AskSame(a, AskAim(a, v), {"aim"})
         /\ AskShape(AskLever(a, v)) /\ AskLever(a, v).lever = v /\ AskSame(a, AskLever(a, v), {"lever"})
         /\ AskShape(AskPnl(a, v)) /\ AskPnl(a, v).pnl = v /\ AskSame(a, AskPnl(a, v), {"pnl"})
         /\ AskShape(AskLeft(a, v)) /\ AskLeft(a, v).left = v /\ AskSame(a, AskLeft(a, v), {"left"})
         /\ AskShape(AskOk(a, v)) /\ AskOk(a, v).ok = v /\ AskSame(a, AskOk(a, v), {"ok"})
         /\ AskShape(AskAnswer(a, v)) /\ AskAnswer(a, v).answer = v /\ AskSame(a, AskAnswer(a, v), {"answer"})
<1>1. AskShape(AskAt(a, v)) /\ AskAt(a, v).at = v /\ AskSame(a, AskAt(a, v), {"at"})
  BY DEF AskAt, AskSame, AskShape, AskParts
<1>2. AskShape(AskSide(a, v)) /\ AskSide(a, v).side = v /\ AskSame(a, AskSide(a, v), {"side"})
  BY DEF AskSide, AskSame, AskShape, AskParts
<1>3. AskShape(AskAim(a, v)) /\ AskAim(a, v).aim = v /\ AskSame(a, AskAim(a, v), {"aim"})
  BY DEF AskAim, AskSame, AskShape, AskParts
<1>4. AskShape(AskLever(a, v)) /\ AskLever(a, v).lever = v /\ AskSame(a, AskLever(a, v), {"lever"})
  BY DEF AskLever, AskSame, AskShape, AskParts
<1>5. AskShape(AskPnl(a, v)) /\ AskPnl(a, v).pnl = v /\ AskSame(a, AskPnl(a, v), {"pnl"})
  BY DEF AskPnl, AskSame, AskShape, AskParts
<1>6. AskShape(AskLeft(a, v)) /\ AskLeft(a, v).left = v /\ AskSame(a, AskLeft(a, v), {"left"})
  BY DEF AskLeft, AskSame, AskShape, AskParts
<1>7. AskShape(AskOk(a, v)) /\ AskOk(a, v).ok = v /\ AskSame(a, AskOk(a, v), {"ok"})
  BY DEF AskOk, AskSame, AskShape, AskParts
<1>8. AskShape(AskAnswer(a, v)) /\ AskAnswer(a, v).answer = v /\ AskSame(a, AskAnswer(a, v), {"answer"})
  BY DEF AskAnswer, AskSame, AskShape, AskParts
<1> QED
  BY <1>1, <1>2, <1>3, <1>4, <1>5, <1>6, <1>7, <1>8

\* No request, and an answered one.
LEMMA NoAskFields ==
  /\ AskShape(NoAsk) /\ NoAsk.at = "idle" /\ NoAsk.ok \in BOOLEAN
  /\ NoAsk.pnl = 0 /\ NoAsk.left = 0
  BY DEF NoAsk, AskShape, AskParts
LEMMA AnsweredOK ==
  ASSUME NEW how, NEW p
  PROVE  /\ AskOK(Answered(how)) /\ Answered(how).at = "idle" /\ Reopening(Answered(how), p)
<1>1. PICK a : a = AskAnswer(NoAsk, how)
  OBVIOUS
<1>2. AskShape(a) /\ a.at = "idle" /\ a.ok \in BOOLEAN
  BY <1>1, NoAskFields, SetAsk DEF AskSame
<1>3. Answered(how) = a
  BY <1>1 DEF Answered, AskAnswer
<1> QED
  BY <1>2, <1>3 DEF AskOK, Reopening, Rebalancing

\* A whole number of margins: the quotient of natural numbers is one.
LEMMA Quotient ==
  ASSUME NEW n \in Nat, NEW d \in Nat \ {0}
  PROVE  n \div d \in Nat
  OBVIOUS

\* An order that changes the position.
LEMMA TradeOK ==
  ASSUME PositionOK, NEW q \in Int, NEW lever, q # 0 => lever \in Levers \cup {1},
         Trade(q, lever)
  PROVE  wpos' \in Positions /\ wpos'.lots = q /\ (q # 0 => wpos'.lever # 0)
<1>1. CASE q = 0
  BY <1>1, WebNumbers DEF Trade, Positions, Flat
<1>2. CASE q # 0
  <2>1. lever \in Nat \ {0} /\ Abs(q) \in Nat /\ q \in -MaxLots..MaxLots
    BY <1>2, WebNumbers DEF Trade, Abs
  <2>2. Abs(q) \div lever \in Nat
    BY <2>1, Quotient
  <2> QED
    BY <1>2, <2>1, <2>2 DEF Trade, Positions
<1> QED
  BY <1>1, <1>2

\* And its profit.
LEMMA PnlOK ==
  ASSUME PositionOK, NEW q \in Int, wpnl' = PnlAfter(q), wpos'.lots = q
  PROVE  wpnl' \in -1..1 /\ (wpos'.lots = 0 => wpnl' = 0)
  BY DEF PositionOK, PnlAfter

\* The position after an order.
LEMMA TradedOK ==
  ASSUME PositionOK, NEW q \in Int, NEW lever, q # 0 => lever \in Levers \cup {1},
         Trade(q, lever), wpnl' = PnlAfter(q)
  PROVE  PositionOK' /\ wpos'.lots = q
  BY TradeOK, PnlOK DEF PositionOK

\* The ledger after it was saved for a position.
LEMMA SaveOK ==
  ASSUME LedgerOK, ~harmed /\ ~raced => ledger.carried = booked,
         NEW side, NEW margin \in Nat, Save(StateFor(ledger, side, margin))
  PROVE  LedgerOK' /\ (~harmed' /\ ~raced' => ledger'.carried = booked')
<1>1. CASE side \in Sides /\ ledger.side # side
  <2>1. ledger' = [side |-> side, basis |-> margin, carried |-> 0] /\ side # ledger.side
    BY <1>1 DEF Save, StateFor, Fresh
  <2>2. booked' = 0 /\ harmed' = FALSE /\ raced' = FALSE
    BY <1>1 DEF Save, StateFor, Fresh
  <2>3. ledger' \in States /\ ledger'.carried = 0 /\ booked' = 0
    BY <1>1, <2>1, <2>2 DEF States
  <2>4. harmed' \in BOOLEAN /\ raced' \in BOOLEAN
    BY <2>2
  <2> QED
    BY <2>3, <2>4 DEF LedgerOK
<1>2. CASE ~(side \in Sides /\ ledger.side # side)
  BY <1>2 DEF Save, StateFor, LedgerOK, ghosts
<1> QED
  BY <1>1, <1>2

\* The file is empty, and so is the account.
LEMMA InitWeb == WebInit => WebInv
<1> SUFFICES ASSUME WebInit PROVE WebInv
  OBVIOUS
<1>1. PositionOK /\ OrdersOK
  BY WebNumbers DEF WebInit, PositionOK, OrdersOK, Positions, Flat
<1>2. LedgerOK /\ PollOK
  <2>1. ledger \in States /\ booked \in Int /\ PollOK
    BY DEF WebInit, States, NoState, PollOK, NoAccountPoll
  <2>2. harmed \in BOOLEAN /\ raced \in BOOLEAN
    BY DEF WebInit
  <2> QED
    BY <2>1, <2>2 DEF LedgerOK
<1>3. AskOK(ask) /\ Reopening(ask, wpos) /\ ask.at = "idle"
  BY NoAskFields DEF WebInit, AskOK, Reopening, Rebalancing
<1>4. Carrying
  BY <1>3 DEF WebInit, Carrying, Unrecorded, Rebalancing, NoState
<1> QED
  BY <1>1, <1>2, <1>3, <1>4 DEF WebInv

\* Carrying and Reopening where a step touches nothing of them.
LEMMA IdleCarries ==
  ASSUME WebInv, ask.at \notin Rebalancing, ask'.at \notin Rebalancing, UNCHANGED <<ledger, ghosts>>
  PROVE  LedgerOK' /\ Carrying'
  BY DEF WebInv, LedgerOK, Carrying, Unrecorded, ghosts

LEMMA PriceMovesKeeps ==
  ASSUME WebInv, PriceMoves PROVE WebInv'
  BY DEF WebInv, PriceMoves, PositionOK, LedgerOK, PollOK, OrdersOK, Carrying, Unrecorded, ghosts

\* What an order makes of a position is a number of lots; a reduce-only one
\* leaves a flat position flat.
LEMMA TargetTypes ==
  ASSUME NEW side, NEW size \in Int, NEW s \in Int
  PROVE  Target(side, size, s).kind \in {"none", "open", "reduce"} /\ Target(side, size, s).qty \in Int
  BY DEF Target, NoOrder, ReduceDelta, OpenDelta, Signed, Side, Abs
LEMMA FilledTypes ==
  ASSUME NEW p \in Int, NEW o, o.kind \in {"none", "open", "reduce"}, o.qty \in Int, NEW q \in Filled(p, o)
  PROVE  q \in Int /\ (o.kind = "reduce" /\ p = 0 => q = 0)
<1>1. CASE o.kind = "none"
  BY <1>1 DEF Filled
<1>2. CASE o.kind = "open"
  BY <1>2 DEF Filled, Signed, Abs
<1>3. CASE o.kind = "reduce"
  BY <1>3 DEF Filled, Signed, Abs
<1> QED
  BY <1>1, <1>2, <1>3

\* What a request makes of the position it read.
LEMMA OrderTypes ==
  ASSUME AskOK(ask), ask.at = "order", NEW reduce \in BOOLEAN, NEW reverse \in BOOLEAN, ~(reduce /\ reverse)
  PROVE  LET o == OrderDelta(reduce, reverse)
         IN  /\ o.kind \in {"none", "open", "reduce"} /\ o.qty \in Int
             /\ reduce => o.kind = "reduce" /\ (ask.left # 0 => o.qty # 0)
<1>1. ask.left \in Int /\ ask.aim \in Nat \ {0}
  BY DEF AskOK
<1>2. CASE reduce
  <2>1. PICK n : n = IF ask.aim < Abs(ask.left) THEN ask.aim ELSE Abs(ask.left)
    OBVIOUS
  <2>2. OrderDelta(reduce, reverse) = ReduceDelta(ask.left, n)
    BY <1>2, <2>1 DEF OrderDelta
  <2>3. n \in Nat /\ (ask.left # 0 => n # 0)
    BY <1>1, <2>1 DEF Abs
  <2> QED
    BY <2>2, <2>3 DEF ReduceDelta, Signed
<1>3. CASE ~reduce /\ reverse
  BY <1>1, <1>3, TargetTypes DEF OrderDelta
<1>4. CASE ~reduce /\ ~reverse
  BY <1>1, <1>4 DEF OrderDelta, OpenDelta, Signed
<1> QED
  BY <1>2, <1>3, <1>4

LEMMA PlaceOrderKeeps ==
  ASSUME WebInv, NEW side \in Sides, NEW n \in {1, 2}, NEW l \in Levers, PlaceOrder(side, n, l)
  PROVE  WebInv'
<1>1. PICK a : a = AskLeft(AskLever(AskAim(AskSide(AskAt(NoAsk, "order"), side), n), l), wpos.lots)
  OBVIOUS
<1>2. ask' = a /\ ask.at = "idle" /\ UNCHANGED <<wpos, wpnl, ledger, restingOrders, accountPoll, ghosts, breaks, polls>>
  BY <1>1 DEF PlaceOrder, BeginAsk, NoRequest, AskLeft, AskLever, AskAim, AskSide, AskAt
<1>3. /\ AskShape(a) /\ a.at = "order" /\ a.side = side /\ a.aim = n /\ a.lever = l /\ a.left = wpos.lots
      /\ a.pnl = NoAsk.pnl /\ a.ok = NoAsk.ok
  BY <1>1, NoAskFields, SetAsk DEF AskSame
<1>4. wpos.lots \in Int
  BY DEF WebInv, PositionOK, Positions
<1>5. AskOK(a) /\ Reopening(a, wpos)
  BY <1>3, <1>4, NoAskFields DEF AskOK, Reopening
<1>6. LedgerOK' /\ Carrying'
  BY <1>2, <1>3, IdleCarries DEF Rebalancing
<1> QED
  BY <1>2, <1>5, <1>6 DEF WebInv, PositionOK, PollOK, OrdersOK

LEMMA SendOrderKeeps ==
  ASSUME WebInv, SendOrder PROVE WebInv'
<1>1. ask.at = "order" /\ AskOK(ask) /\ PositionOK /\ LedgerOK /\ UNCHANGED <<restingOrders, accountPoll>>
  BY DEF WebInv, SendOrder
<1>2. PICK reduce \in BOOLEAN, reverse \in BOOLEAN :
        /\ ~(reduce /\ reverse)
        /\ \E q \in Filled(wpos.lots, OrderDelta(reduce, reverse)) :
            /\ Trade(q, IF reduce THEN wpos.lever ELSE ask.lever)
            /\ wpnl' = PnlAfter(q)
            /\ IF reverse /\ q # wpos.lots THEN Save(StateFor(ledger, Side(q), wpos'.margin))
               ELSE UNCHANGED <<ledger, ghosts>>
            /\ ask' = Answered(IF q = wpos.lots THEN "refused" ELSE "ordered")
  BY DEF SendOrder
<1>3. PICK q \in Filled(wpos.lots, OrderDelta(reduce, reverse)) :
        /\ Trade(q, IF reduce THEN wpos.lever ELSE ask.lever)
        /\ wpnl' = PnlAfter(q)
        /\ IF reverse /\ q # wpos.lots THEN Save(StateFor(ledger, Side(q), wpos'.margin))
           ELSE UNCHANGED <<ledger, ghosts>>
        /\ ask' = Answered(IF q = wpos.lots THEN "refused" ELSE "ordered")
  BY <1>2
<1>4. PICK lever : lever = IF reduce THEN wpos.lever ELSE ask.lever
  OBVIOUS
<1>5. wpos.lots \in Int /\ wpos.lever \in Levers \cup {0, 1} /\ ask.lever \in Levers
  BY <1>1 DEF PositionOK, Positions, AskOK
<1>6. q \in Int /\ (reduce /\ wpos.lots = 0 => q = 0)
  BY <1>1, <1>2, <1>3, <1>5, OrderTypes, FilledTypes
<1>7. q # 0 => lever \in Levers \cup {1}
  BY <1>1, <1>4, <1>5, <1>6 DEF PositionOK
<1>8. PositionOK'
  BY <1>1, <1>3, <1>4, <1>6, <1>7, TradedOK
<1>9. AskOK(ask') /\ Reopening(ask', wpos') /\ ask'.at = "idle"
  BY <1>3, AnsweredOK
<1>10. LedgerOK' /\ Carrying'
  <2>1. CASE UNCHANGED <<ledger, ghosts>>
    BY <1>1, <1>9, <2>1, IdleCarries DEF Rebalancing
  <2>2. CASE Save(StateFor(ledger, Side(q), wpos'.margin))
    <3>1. wpos'.margin \in Nat
      BY <1>8 DEF PositionOK, Positions
    <3>2. ~harmed /\ ~raced => ledger.carried = booked
      BY <1>1 DEF WebInv, Carrying, Unrecorded, Rebalancing, LedgerOK, States
    <3>3. LedgerOK' /\ (~harmed' /\ ~raced' => ledger'.carried = booked')
      BY <1>1, <2>2, <3>1, <3>2, SaveOK
    <3> QED
      BY <1>9, <3>3 DEF Carrying, Unrecorded, Rebalancing, LedgerOK, States
  <2> QED
    BY <1>3, <2>1, <2>2
<1> QED
  BY <1>1, <1>8, <1>9, <1>10 DEF WebInv, PollOK, OrdersOK

\* The orders that rest.
LEMMA RestsOK ==
  ASSUME OrdersOK, NEW o, o.kind \in {"open", "reduce"}, o.qty \in Int \ {0}, Rests(o)
  PROVE  OrdersOK'
  BY DEF OrdersOK, Rests

LEMMA EntryLimitKeeps ==
  ASSUME WebInv, EntryLimit PROVE WebInv'
<1>1. /\ ask.at = "order" /\ AskOK(ask) /\ PositionOK /\ OrdersOK
      /\ UNCHANGED <<wpnl, ledger, accountPoll, ghosts>>
  BY DEF WebInv, EntryLimit
<1>2. AskOK(ask') /\ Reopening(ask', wpos') /\ ask'.at = "idle"
  BY AnsweredOK DEF EntryLimit
<1>3. LedgerOK' /\ Carrying'
  BY <1>1, <1>2, IdleCarries DEF Rebalancing
<1>4. PositionOK'
  <2>1. ask.lever \in Levers /\ ask.lever # 0
    BY <1>1, WebNumbers DEF AskOK
  <2>2. CASE wpos.lots = 0
    BY <1>1, <2>2 DEF EntryLimit, PositionOK
  <2>3. CASE wpos.lots # 0
    <3>1. wpos' = [wpos EXCEPT !.lever = ask.lever]
      BY <2>3 DEF EntryLimit
    <3>2. wpos' \in Positions /\ wpos'.lots = wpos.lots /\ wpos'.lever = ask.lever
      BY <1>1, <2>1, <3>1 DEF PositionOK, Positions
    <3> QED
      BY <1>1, <2>1, <3>2 DEF PositionOK
  <2> QED
    BY <2>2, <2>3
<1>5. OrdersOK'
  <2>1. CASE UNCHANGED restingOrders
    BY <1>1, <2>1 DEF OrdersOK
  <2>2. CASE Rests(OpenDelta(ask.side, ask.aim))
    <3>1. PICK o : o = OpenDelta(ask.side, ask.aim)
      OBVIOUS
    <3>2. o.kind = "open" /\ o.qty \in Int \ {0}
      BY <1>1, <3>1 DEF OpenDelta, Signed, AskOK
    <3> QED
      BY <1>1, <2>2, <3>1, <3>2, RestsOK
  <2> QED
    BY <2>1, <2>2 DEF EntryLimit
<1> QED
  BY <1>1, <1>2, <1>3, <1>4, <1>5 DEF WebInv, PollOK

LEMMA ReduceLimitKeeps ==
  ASSUME WebInv, ReduceLimit PROVE WebInv'
<1>1. /\ ask.at = "order" /\ ask.left # 0 /\ AskOK(ask) /\ OrdersOK
      /\ UNCHANGED <<wpos, wpnl, ledger, accountPoll, ghosts>>
  BY DEF WebInv, ReduceLimit, Opposite
<1>2. AskOK(ask') /\ Reopening(ask', wpos') /\ ask'.at = "idle"
  BY AnsweredOK DEF ReduceLimit
<1>3. LedgerOK' /\ Carrying'
  BY <1>1, <1>2, IdleCarries DEF Rebalancing
<1>4. PICK o : o = OrderDelta(TRUE, FALSE)
  OBVIOUS
<1>5. o.kind = "reduce" /\ o.qty \in Int \ {0}
  BY <1>1, <1>4, OrderTypes
<1>6. Rests(o)
  BY <1>4 DEF ReduceLimit
<1>7. OrdersOK'
  BY <1>1, <1>5, <1>6, RestsOK
<1> QED
  BY <1>1, <1>2, <1>3, <1>7 DEF WebInv, PollOK, PositionOK

LEMMA SetTpslKeeps ==
  ASSUME WebInv, SetTpsl PROVE WebInv'
<1>1. /\ ask.at = "idle" /\ wpos.lots # 0 /\ PositionOK /\ OrdersOK
      /\ UNCHANGED <<wpos, wpnl, ledger, accountPoll, ghosts>>
  BY DEF WebInv, SetTpsl, BeginAsk, NoRequest
<1>2. AskOK(ask') /\ Reopening(ask', wpos') /\ ask'.at = "idle"
  BY AnsweredOK DEF SetTpsl, BeginAsk
<1>3. LedgerOK' /\ Carrying'
  BY <1>1, <1>2, IdleCarries DEF Rebalancing
<1>4. PICK o : o = Trigger(wpos.lots)
  OBVIOUS
<1>5. o.kind = "reduce" /\ o.qty \in Int \ {0}
  BY <1>1, <1>4 DEF Trigger, ReduceDelta, Signed, Abs, PositionOK, Positions
<1>6. OrdersOK'
  BY <1>1, <1>4, <1>5, RestsOK DEF SetTpsl
<1> QED
  BY <1>1, <1>2, <1>3, <1>6 DEF WebInv, PollOK, PositionOK

\* A fill in the middle of a rebalance marks it.
LEMMA RestingFillsKeeps ==
  ASSUME WebInv, NEW o \in restingOrders, RestingFills(o) PROVE WebInv'
<1>1. /\ PositionOK /\ LedgerOK /\ AskOK(ask) /\ OrdersOK
      /\ UNCHANGED <<ledger, accountPoll, booked, raced>>
      /\ restingOrders' = restingOrders \ {o} /\ harmed' = (harmed \/ Hidden)
      /\ ask' = [ask EXCEPT !.ok = @ /\ ~Hidden]
  BY DEF WebInv, RestingFills
<1>2. wpos.lots \in Int /\ o.qty \in Int /\ wpos.lever \in Levers \cup {0, 1}
  BY <1>1 DEF PositionOK, Positions, OrdersOK
<1>3. PICK q : /\ q = IF o.kind = "open" THEN wpos.lots + o.qty
                       ELSE IF wpos.lots = 0 \/ Side(o.qty) = Side(wpos.lots) THEN wpos.lots
                       ELSE IF Abs(o.qty) < Abs(wpos.lots) THEN wpos.lots + o.qty ELSE 0
               /\ Trade(q, IF wpos.lever = 0 THEN 1 ELSE wpos.lever) /\ wpnl' = PnlAfter(q)
  BY DEF RestingFills
<1>4. q \in Int
  BY <1>2, <1>3
<1>5. PICK lever \in Levers \cup {1} : lever = IF wpos.lever = 0 THEN 1 ELSE wpos.lever
  BY <1>2
<1>6. PositionOK'
  BY <1>1, <1>3, <1>4, <1>5, TradedOK
<1>7. PICK u \in BOOLEAN : u = (ask.ok /\ ~Hidden)
  OBVIOUS
<1>8. ask' = AskOk(ask, u) /\ AskShape(ask)
  BY <1>1, <1>7 DEF AskOk, AskOK
<1>9. /\ AskShape(ask') /\ ask'.at = ask.at /\ ask'.side = ask.side /\ ask'.aim = ask.aim
      /\ ask'.lever = ask.lever /\ ask'.pnl = ask.pnl /\ ask'.left = ask.left
      /\ ask'.ok = u /\ ask'.answer = ask.answer
  BY <1>8, SetAsk DEF AskSame
<1>10. AskOK(ask')
  BY <1>1, <1>7, <1>9 DEF AskOK
<1>11. Reopening(ask', wpos')
  BY <1>7, <1>9 DEF Reopening, Hidden
<1>12. harmed' \in BOOLEAN /\ (harmed' <=> harmed \/ Hidden)
  BY <1>1 DEF LedgerOK
<1>13. LedgerOK' /\ Carrying'
  BY <1>1, <1>9, <1>12 DEF WebInv, LedgerOK, Carrying, Unrecorded, Rebalancing, Hidden
<1>14. OrdersOK'
  BY <1>1 DEF OrdersOK
<1> QED
  BY <1>1, <1>6, <1>10, <1>11, <1>13, <1>14 DEF WebInv, PollOK

\* The target of a rebalance is a number of lots.
LEMMA TargetLots ==
  ASSUME PositionOK, wpos.lots # 0, NEW l \in Levers
  PROVE  RebalanceTarget(wpos, l) \in Nat
<1>1. wpos.lever \in Nat \ {0} /\ Abs(wpos.lots) \in Nat /\ l \in Nat
  BY WebNumbers DEF PositionOK, Positions, Abs
<1>2. PICK n : n = Abs(wpos.lots) * l
  OBVIOUS
<1>3. n \in Nat
  BY <1>1, <1>2
<1> QED
  BY <1>1, <1>2, <1>3, Quotient DEF RebalanceTarget

LEMMA RebalanceKeeps ==
  ASSUME WebInv, NEW l \in Levers, Rebalance(l) PROVE WebInv'
<1>1. /\ PositionOK /\ LedgerOK /\ wpos.lots # 0 /\ ask.at = "idle"
      /\ UNCHANGED <<wpos, wpnl, restingOrders, accountPoll>>
  BY DEF WebInv, Rebalance, BeginAsk, NoRequest
<1>2. PICK aim, side : aim = RebalanceTarget(wpos, l) /\ side = Side(wpos.lots)
  OBVIOUS
<1>3. Save(StateFor(ledger, side, wpos.margin))
  BY <1>2 DEF Rebalance
<1>4. PICK a : a = AskLeft(AskPnl(AskLever(AskAim(AskSide(AskAt(NoAsk, "close"), side), aim), l), wpnl), wpos.lots)
  OBVIOUS
<1>5. /\ AskShape(a) /\ a.at = "close" /\ a.side = side /\ a.aim = aim /\ a.lever = l
      /\ a.pnl = wpnl /\ a.left = wpos.lots /\ a.ok = NoAsk.ok
  BY <1>4, NoAskFields, SetAsk DEF AskSame
<1>6. ask' = IF aim = 0 THEN Answered("refused") ELSE a
  BY <1>2, <1>4 DEF Rebalance, BeginAsk, AskLeft, AskPnl, AskLever, AskAim, AskSide, AskAt
<1>7. wpos.lots \in Int /\ wpnl \in Int /\ wpos.margin \in Nat /\ aim \in Nat
  BY <1>1, <1>2, TargetLots DEF PositionOK, Positions
<1>8. aim # 0 => AskOK(a) /\ Reopening(a, wpos)
  BY <1>1, <1>2, <1>5, <1>7, NoAskFields DEF AskOK, Reopening, Side, Sides
<1>9. AskOK(ask') /\ Reopening(ask', wpos') /\ ask'.at \notin Rebalancing
  BY <1>1, <1>5, <1>6, <1>8, AnsweredOK DEF Rebalancing
<1>10. ~harmed /\ ~raced => ledger.carried = booked
  BY <1>1 DEF WebInv, Carrying, Unrecorded, Rebalancing, LedgerOK, States
<1>11. LedgerOK' /\ (~harmed' /\ ~raced' => ledger'.carried = booked')
  BY <1>1, <1>3, <1>7, <1>10, SaveOK
<1>12. Carrying'
  BY <1>9, <1>11 DEF Carrying, Unrecorded, LedgerOK, States
<1> QED
  BY <1>1, <1>9, <1>11, <1>12 DEF WebInv, PositionOK, PollOK, OrdersOK

\* The close: what it realizes is booked, and has still to be recorded.
LEMMA CloseLegKeeps ==
  ASSUME WebInv, CloseLeg PROVE WebInv'
<1>1. /\ ask.at = "close" /\ AskOK(ask) /\ PositionOK /\ LedgerOK
      /\ UNCHANGED <<ledger, restingOrders, accountPoll, raced>>
  BY DEF WebInv, CloseLeg
<1>2. CASE ask' = Answered("refused") /\ UNCHANGED <<wpos, wpnl, booked, harmed>>
  <2>1. AskOK(ask') /\ Reopening(ask', wpos') /\ ask'.at = "idle"
    BY <1>2, AnsweredOK
  <2>2. LedgerOK' /\ Carrying'
    BY <1>1, <1>2, <2>1, IdleCarries DEF Rebalancing, ghosts
  <2> QED
    BY <1>1, <1>2, <2>1, <2>2 DEF WebInv, PositionOK, PollOK, OrdersOK
<1>3. ASSUME NEW n \in 1..Closes, Side(wpos.lots) = ask.side,
             IF n = Closes THEN UNCHANGED <<harmed, breaks>> ELSE MayBreak /\ harmed' = TRUE,
             Trade(wpos.lots - Signed(ask.side, n), wpos.lever),
             wpnl' = PnlAfter(wpos.lots - Signed(ask.side, n)),
             ask' = [ask EXCEPT !.at = "lever", !.ok = @ /\ n = Closes],
             booked' = booked + ask.pnl
      PROVE  WebInv'
  <2>1. PICK q : q = wpos.lots - Signed(ask.side, n)
    OBVIOUS
  <2>2. /\ wpos.lots \in Int /\ wpos.lever \in Levers \cup {0, 1} /\ ask.side \in Sides
        /\ ask.left \in Int /\ ask.pnl \in Int
    BY <1>1 DEF PositionOK, Positions, AskOK
  <2>3. n \in Nat /\ q \in Int
    BY <1>3, <2>1, <2>2 DEF Signed, Closes, Abs
  <2>4. wpos.lots # 0 => wpos.lever \in Levers \cup {1}
    BY <1>1, <2>2 DEF PositionOK
  <2>5. wpos.lots # 0
    BY <1>3, <2>2 DEF Side, Sides
  <2>6. PositionOK' /\ wpos'.lots = q
    BY <1>1, <1>3, <2>1, <2>3, <2>4, <2>5, TradedOK
  <2>7. PICK u \in BOOLEAN : u = (ask.ok /\ n = Closes)
    OBVIOUS
  <2>8. AskShape(ask) /\ ask' = AskOk(AskAt(ask, "lever"), u)
    <3>1. AskShape(ask)
      BY <1>1 DEF AskOK
    <3>2. AskAt(ask, "lever").ok = ask.ok
      BY <3>1, SetAsk DEF AskSame
    <3> QED
      BY <1>3, <2>7, <3>1, <3>2 DEF AskOk, AskAt
  <2>9. /\ AskShape(ask') /\ ask'.at = "lever" /\ ask'.side = ask.side /\ ask'.aim = ask.aim
        /\ ask'.lever = ask.lever /\ ask'.pnl = ask.pnl /\ ask'.left = ask.left
        /\ ask'.ok = u /\ ask'.answer = ask.answer
    BY <2>8, SetAsk DEF AskSame
  <2>10. AskOK(ask')
    BY <1>1, <2>7, <2>9 DEF AskOK, Rebalancing
  <2>11. Reopening(ask', wpos')
    <3>1. ASSUME u PROVE q = 0
      <4>1. ask.ok /\ n = Closes
        BY <2>7, <3>1
      <4>2. wpos.lots = ask.left /\ ask.side = Side(ask.left)
        BY <1>1, <4>1 DEF WebInv, Reopening
      <4>3. n = Abs(wpos.lots)
        BY <2>2, <4>1, <4>2 DEF Closes
      <4> QED
        BY <2>1, <2>2, <2>5, <4>2, <4>3 DEF Signed, Side, Abs
    <3> QED
      BY <2>6, <2>9, <3>1 DEF Reopening
  <2>12. harmed' \in BOOLEAN /\ (~harmed' => ~harmed)
    BY <1>1, <1>3 DEF LedgerOK
  <2>13. LedgerOK' /\ Carrying'
    BY <1>1, <1>3, <2>2, <2>9, <2>12 DEF WebInv, LedgerOK, States, Carrying, Unrecorded, Rebalancing
  <2> QED
    BY <1>1, <2>6, <2>10, <2>11, <2>13 DEF WebInv, PollOK, OrdersOK
<1> QED
  BY <1>2, <1>3 DEF CloseLeg

\* An exception between the close and the record marks the state.
LEMMA RaiseKeeps ==
  ASSUME WebInv, Raise PROVE WebInv'
<1>1. /\ ask.at \in {"lever", "open", "margin"} /\ LedgerOK /\ harmed' = (harmed \/ ask.at # "margin")
      /\ UNCHANGED <<wpos, wpnl, ledger, restingOrders, accountPoll, booked, raced>>
  BY DEF WebInv, Raise
<1>2. AskOK(ask') /\ Reopening(ask', wpos') /\ ask'.at = "idle"
  BY AnsweredOK DEF Raise
<1>3. harmed' \in BOOLEAN /\ (harmed' <=> harmed \/ ask.at # "margin")
  BY <1>1 DEF LedgerOK
<1>4. LedgerOK' /\ Carrying'
  BY <1>1, <1>2, <1>3 DEF WebInv, LedgerOK, Carrying, Unrecorded, Rebalancing
<1> QED
  BY <1>1, <1>2, <1>4 DEF WebInv, PositionOK, PollOK, OrdersOK

LEMMA SetLeverageKeeps ==
  ASSUME WebInv, SetLeverage PROVE WebInv'
<1>1. /\ ask.at = "lever" /\ AskOK(ask) /\ AskShape(ask) /\ ask' = AskAt(ask, "open")
      /\ UNCHANGED <<wpos, wpnl, ledger, restingOrders, accountPoll, ghosts>>
  BY DEF WebInv, SetLeverage, AskOK, AskAt
<1>2. /\ AskShape(ask') /\ ask'.at = "open" /\ ask'.side = ask.side /\ ask'.aim = ask.aim
      /\ ask'.lever = ask.lever /\ ask'.pnl = ask.pnl /\ ask'.left = ask.left
      /\ ask'.ok = ask.ok /\ ask'.answer = ask.answer
  BY <1>1, SetAsk DEF AskSame
<1>3. AskOK(ask')
  BY <1>1, <1>2 DEF AskOK, Rebalancing
<1>4. Reopening(ask', wpos')
  BY <1>1, <1>2 DEF WebInv, Reopening
<1>5. LedgerOK' /\ Carrying'
  BY <1>1, <1>2 DEF WebInv, LedgerOK, Carrying, Unrecorded, Rebalancing, ghosts
<1> QED
  BY <1>1, <1>3, <1>4, <1>5 DEF WebInv, PositionOK, PollOK, OrdersOK

\* The position is opened at its target from the flat one.
LEMMA OpenLegKeeps ==
  ASSUME WebInv, OpenLeg PROVE WebInv'
<1>1. /\ ask.at = "open" /\ AskOK(ask) /\ PositionOK /\ LedgerOK
      /\ UNCHANGED <<ledger, restingOrders, accountPoll, ghosts>>
  BY DEF WebInv, OpenLeg
<1>2. /\ ask.side \in Sides /\ ask.aim \in Nat \ {0} /\ ask.lever \in Levers /\ ask.pnl \in Int
      /\ wpos.lots \in Int
  BY <1>1 DEF AskOK, Rebalancing, PositionOK, Positions
<1>3. Abs(ReopenOrder.qty) = ask.aim
  BY <1>2 DEF ReopenOrder, Target, OpenDelta, Side, Sides, Signed, Abs
<1>4. PICK n \in 0..ask.aim, answer \in {"reopen_failed", "complete"} :
        /\ Trade(wpos.lots + Signed(ask.side, n), ask.lever)
        /\ ask' = [ask EXCEPT !.at = "record", !.answer = answer, !.ok = @ /\ n = ask.aim]
        /\ wpnl' = PnlAfter(wpos'.lots)
  BY <1>3 DEF OpenLeg
<1>5. PICK q : q = wpos.lots + Signed(ask.side, n)
  OBVIOUS
<1>6. q \in Int /\ ask.lever \in Levers \cup {1}
  BY <1>2, <1>5 DEF Signed
<1>7. wpos' \in Positions /\ wpos'.lots = q /\ (q # 0 => wpos'.lever # 0)
  BY <1>1, <1>4, <1>5, <1>6, TradeOK
<1>8. PositionOK'
  BY <1>1, <1>4, <1>6, <1>7, PnlOK DEF PositionOK
<1>9. PICK u \in BOOLEAN : u = (ask.ok /\ n = ask.aim)
  OBVIOUS
<1>10. AskShape(ask) /\ ask' = AskOk(AskAnswer(AskAt(ask, "record"), answer), u)
  <2>1. AskShape(ask)
    BY <1>1 DEF AskOK
  <2>2. AskAnswer(AskAt(ask, "record"), answer).ok = ask.ok
    BY <2>1, SetAsk DEF AskSame
  <2> QED
    BY <1>4, <1>9, <2>1, <2>2 DEF AskOk, AskAnswer, AskAt
<1>11. /\ AskShape(ask') /\ ask'.at = "record" /\ ask'.side = ask.side /\ ask'.aim = ask.aim
       /\ ask'.lever = ask.lever /\ ask'.pnl = ask.pnl /\ ask'.left = ask.left /\ ask'.ok = u
  BY <1>10, SetAsk DEF AskSame
<1>12. AskOK(ask')
  BY <1>1, <1>9, <1>11 DEF AskOK, Rebalancing
<1>13. Reopening(ask', wpos')
  <2>1. ASSUME u PROVE q = Signed(ask.side, ask.aim)
    <3>1. ask.ok /\ n = ask.aim
      BY <1>9, <2>1
    <3>2. wpos.lots = 0
      BY <1>1, <3>1 DEF WebInv, Reopening
    <3> QED
      BY <1>2, <1>5, <3>1, <3>2 DEF Signed
  <2> QED
    BY <1>7, <1>11, <2>1 DEF Reopening
<1>14. LedgerOK' /\ Carrying'
  BY <1>1, <1>11 DEF WebInv, LedgerOK, Carrying, Unrecorded, Rebalancing, ghosts
<1> QED
  BY <1>1, <1>8, <1>12, <1>13, <1>14 DEF WebInv, PollOK, OrdersOK

\* What the close realized is recorded, whatever became of the reopening.
LEMMA RecordKeeps ==
  ASSUME WebInv, Record PROVE WebInv'
<1>1. /\ ask.at = "record" /\ AskOK(ask) /\ LedgerOK
      /\ ledger' = [ledger EXCEPT !.carried = @ + ask.pnl]
      /\ UNCHANGED <<wpos, wpnl, restingOrders, accountPoll, ghosts>>
  BY DEF WebInv, Record, WithRealized
<1>2. AskOK(ask') /\ Reopening(ask', wpos') /\ ask'.at = "idle"
  BY AnsweredOK DEF Record
<1>3. ask.pnl \in Int /\ ledger \in States /\ ledger.carried \in Int
  BY <1>1 DEF AskOK, Rebalancing, LedgerOK, States
<1>4. ledger' \in States /\ ledger'.carried = ledger.carried + ask.pnl
  BY <1>1, <1>3 DEF States
<1>5. LedgerOK' /\ Carrying'
  BY <1>1, <1>2, <1>3, <1>4 DEF WebInv, LedgerOK, Carrying, Unrecorded, Rebalancing, ghosts
<1> QED
  BY <1>1, <1>2, <1>5 DEF WebInv, PositionOK, PollOK, OrdersOK

LEMMA UpdateMarginKeeps ==
  ASSUME WebInv, NEW amount \in {-1, 1}, UpdateMargin(amount) PROVE WebInv'
<1>1. /\ PositionOK /\ LedgerOK /\ ask.at = "idle" /\ Save(StateFor(ledger, Side(wpos.lots), wpos.margin))
      /\ UNCHANGED <<wpos, wpnl, restingOrders, accountPoll>>
  BY DEF WebInv, UpdateMargin, BeginAsk, NoRequest
<1>2. ask' = AskAim(AskAt(NoAsk, "margin"), amount)
  BY DEF UpdateMargin, BeginAsk, AskAim, AskAt
<1>3. AskShape(ask') /\ ask'.at = "margin" /\ ask'.aim = amount /\ ask'.ok = NoAsk.ok
  BY <1>2, NoAskFields, SetAsk DEF AskSame
<1>4. AskOK(ask') /\ Reopening(ask', wpos') /\ ask'.at \notin Rebalancing
  BY <1>3, NoAskFields DEF AskOK, Reopening, Rebalancing
<1>5. ~harmed /\ ~raced => ledger.carried = booked
  BY <1>1 DEF WebInv, Carrying, Unrecorded, Rebalancing, LedgerOK, States
<1>6. wpos.margin \in Nat
  BY <1>1 DEF PositionOK, Positions
<1>7. LedgerOK' /\ (~harmed' /\ ~raced' => ledger'.carried = booked')
  BY <1>1, <1>5, <1>6, SaveOK
<1>8. Carrying'
  BY <1>4, <1>7 DEF Carrying, Unrecorded, LedgerOK, States
<1> QED
  BY <1>1, <1>4, <1>7, <1>8 DEF WebInv, PositionOK, PollOK, OrdersOK

LEMMA MoveMarginKeeps ==
  ASSUME WebInv, MoveMargin PROVE WebInv'
<1>1. /\ ask.at = "margin" /\ AskOK(ask) /\ PositionOK
      /\ UNCHANGED <<wpnl, ledger, restingOrders, accountPoll, ghosts>>
  BY DEF WebInv, MoveMargin
<1>2. CASE ask' = Answered("refused") /\ UNCHANGED wpos
  <2>1. AskOK(ask') /\ Reopening(ask', wpos') /\ ask'.at = "idle"
    BY <1>2, AnsweredOK
  <2>2. LedgerOK' /\ Carrying'
    BY <1>1, <2>1, IdleCarries DEF Rebalancing
  <2> QED
    BY <1>1, <1>2, <2>1, <2>2 DEF WebInv, PositionOK, PollOK, OrdersOK
<1>3. CASE /\ wpos.lots # 0 /\ wpos.margin + ask.aim >= 0
           /\ wpos' = [wpos EXCEPT !.margin = @ + ask.aim] /\ ask' = [ask EXCEPT !.at = "delta"]
  <2>1. ask.aim \in Int /\ wpos.margin \in Nat /\ AskShape(ask)
    BY <1>1 DEF AskOK, PositionOK, Positions
  <2>2. PICK m : m = wpos.margin + ask.aim
    OBVIOUS
  <2>3. m \in Nat
    BY <1>3, <2>1, <2>2
  <2>4. wpos' \in Positions /\ wpos'.lots = wpos.lots /\ wpos'.lever = wpos.lever
    BY <1>1, <1>3, <2>2, <2>3 DEF PositionOK, Positions
  <2>5. PositionOK'
    BY <1>1, <2>4 DEF PositionOK
  <2>6. ask' = AskAt(ask, "delta")
    BY <1>3 DEF AskAt
  <2>7. AskShape(ask') /\ ask'.at = "delta" /\ ask'.aim = ask.aim /\ ask'.ok = ask.ok
    BY <2>1, <2>6, SetAsk DEF AskSame
  <2>8. AskOK(ask') /\ Reopening(ask', wpos') /\ ask'.at \notin Rebalancing
    BY <1>1, <2>1, <2>7 DEF AskOK, Reopening, Rebalancing
  <2>9. LedgerOK' /\ Carrying'
    BY <1>1, <2>8, IdleCarries DEF Rebalancing
  <2> QED
    BY <1>1, <2>5, <2>8, <2>9 DEF WebInv, PollOK, OrdersOK
<1> QED
  BY <1>2, <1>3 DEF MoveMargin

LEMMA ApplyDeltaKeeps ==
  ASSUME WebInv, ApplyDelta PROVE WebInv'
<1>1. /\ ask.at = "delta" /\ AskOK(ask) /\ LedgerOK /\ ledger' = WithMargin(ledger, ask.aim)
      /\ UNCHANGED <<wpos, wpnl, restingOrders, accountPoll, ghosts>>
  BY DEF WebInv, ApplyDelta
<1>2. AskOK(ask') /\ Reopening(ask', wpos') /\ ask'.at = "idle"
  BY AnsweredOK DEF ApplyDelta
<1>3. ask.aim \in Int /\ ledger \in States /\ ledger.basis \in Nat
  BY <1>1 DEF AskOK, LedgerOK, States
<1>4. PICK b \in Nat : b = IF ledger.basis + ask.aim < 0 THEN 0 ELSE ledger.basis + ask.aim
  BY <1>3
<1>5. ledger' = [ledger EXCEPT !.basis = b]
  BY <1>1, <1>4 DEF WithMargin
<1>6. ledger' \in States /\ ledger'.carried = ledger.carried
  BY <1>3, <1>5 DEF States
<1>7. LedgerOK' /\ Carrying'
  BY <1>1, <1>2, <1>6 DEF WebInv, LedgerOK, Carrying, Unrecorded, Rebalancing, ghosts
<1> QED
  BY <1>1, <1>2, <1>7 DEF WebInv, PositionOK, PollOK, OrdersOK

\* A poll that is about to save has read a state of another side.
LEMMA PollLoadsKeeps ==
  ASSUME WebInv, PollLoads PROVE WebInv'
<1>1. /\ PositionOK /\ LedgerOK /\ wpos.lots # 0 /\ ledger.side # Side(wpos.lots)
      /\ accountPoll' = [at |-> "save", seen |-> ledger, side |-> Side(wpos.lots), margin |-> wpos.margin]
      /\ UNCHANGED <<wpos, wpnl, ledger, restingOrders, ask, ghosts>>
  BY DEF WebInv, PollLoads
<1>2. wpos.lots \in Int /\ wpos.margin \in Nat /\ ledger \in States
  BY <1>1 DEF PositionOK, Positions, LedgerOK
<1>3. Side(wpos.lots) \in Sides
  BY <1>1, <1>2 DEF Side, Sides
<1>4. PollOK'
  BY <1>1, <1>2, <1>3 DEF PollOK
<1>5. LedgerOK' /\ Carrying'
  BY <1>1 DEF WebInv, LedgerOK, Carrying, Unrecorded, ghosts
<1> QED
  BY <1>1, <1>4, <1>5 DEF WebInv, PositionOK, OrdersOK

\* A poll that saves what it read starts the count again; one that saves over
\* what it did not read, or over a rebalance, marks the state.
LEMMA PollSavesKeeps ==
  ASSUME WebInv, PollSaves PROVE WebInv'
<1>1. /\ PollOK /\ LedgerOK /\ accountPoll.at = "save" /\ accountPoll' = NoAccountPoll
      /\ UNCHANGED <<wpos, wpnl, restingOrders, ask, harmed>>
  BY DEF WebInv, PollSaves
<1>2. /\ accountPoll.seen \in States /\ accountPoll.side \in Sides /\ accountPoll.margin \in Nat
      /\ accountPoll.seen.side # accountPoll.side
  BY <1>1 DEF PollOK
<1>3. StateFor(accountPoll.seen, accountPoll.side, accountPoll.margin)
        = Fresh(accountPoll.side, accountPoll.margin)
  BY <1>2 DEF StateFor
<1>4. ledger' = Fresh(accountPoll.side, accountPoll.margin)
  BY <1>3 DEF PollSaves
<1>5. ledger' \in States /\ ledger'.carried = 0 /\ ledger'.side = accountPoll.side
  BY <1>2, <1>4 DEF States, Fresh
<1>6. /\ booked' = IF ledger'.side = ledger.side THEN booked ELSE 0
      /\ raced' = (ledger # accountPoll.seen \/ ask.at \in Rebalancing)
  BY <1>3, <1>4 DEF PollSaves, Rebalancing
<1>7. raced' \in BOOLEAN /\ booked' \in Int /\ harmed' \in BOOLEAN
  BY <1>1, <1>6 DEF LedgerOK
<1>8. ~raced' => booked' = 0 /\ ask.at \notin Rebalancing
  BY <1>2, <1>5, <1>6
<1>9. LedgerOK' /\ Carrying'
  BY <1>1, <1>5, <1>7, <1>8 DEF LedgerOK, Carrying, Unrecorded
<1>10. PollOK'
  BY <1>1 DEF PollOK, NoAccountPoll
<1> QED
  BY <1>1, <1>9, <1>10 DEF WebInv, PositionOK, OrdersOK

\* The web trade service keeps its invariant.
LEMMA NextWeb == WebInv /\ [WebNext]_web => WebInv'
<1> SUFFICES ASSUME WebInv, [WebNext]_web PROVE WebInv'
  OBVIOUS
<1>1. CASE UNCHANGED web
  BY <1>1 DEF web, ghosts, WebInv, PositionOK, LedgerOK, PollOK, OrdersOK, Carrying, Unrecorded
<1> QED
  BY <1>1, PriceMovesKeeps, PlaceOrderKeeps, SendOrderKeeps, EntryLimitKeeps, ReduceLimitKeeps,
     SetTpslKeeps, RestingFillsKeeps, RebalanceKeeps, CloseLegKeeps, RaiseKeeps, SetLeverageKeeps,
     OpenLegKeeps, RecordKeeps, UpdateMarginKeeps, MoveMarginKeeps, ApplyDeltaKeeps,
     PollLoadsKeeps, PollSavesKeeps DEF WebNext

\* What the invariant says of the service.
LEMMA WebInvImplies == WebInv => TradesExact
<1> SUFFICES ASSUME WebInv PROVE TradesExact
  OBVIOUS
<1>1. WebTypeOK
  BY DEF WebInv, WebTypeOK, PositionOK, Positions, LedgerOK, States, PollOK, OrdersOK, AskOK
<1>2. CarriedExact
  BY DEF WebInv, CarriedExact, Carrying, Unrecorded, Rebalancing, LedgerOK, States
<1>3. ReopenedAtTarget
  BY DEF WebInv, ReopenedAtTarget, Reopening
<1> QED
  BY <1>1, <1>2, <1>3 DEF TradesExact

-----------------------------------------------------------------------------
(* The coordinated graph.  A node runs only while nothing has failed, and  *)
(* after every node before it has its checkpoint; a decision to trade      *)
(* rests on reports that are all in and of one side; and a result that can *)
(* be traded was assembled from it and observed under a permit to go on.   *)

NodeSet == {"plan", "dispatch", "recover", "decide", "reflect", "risk", "assemble"}
Place(n) == CASE n = "plan" -> 0 [] n = "dispatch" -> 1 [] n = "recover" -> 2 [] n = "decide" -> 3
              [] n = "reflect" -> 4 [] n = "risk" -> 5 [] n = "assemble" -> 6

\* Every specialist has reported, and no two are opposed.
Reported ==
  /\ DOMAIN greports = SetOf(gplan.tasks)
  /\ \A s, t \in DOMAIN greports : ~(greports[s] = "long" /\ greports[t] = "short")
OneSide == \E side \in {"long", "short"} : \A t \in DOMAIN greports : greports[t] = side

IsSeq(s) == \E S : s \in Seq(S)

Running ==
  gnode \in NodeSet =>
    /\ collected = durable /\ Len(durable) = Place(gnode)
    /\ ~acted => outcome = "none"
    /\ outcome = "playbook" => gnode = "assemble" /\ draft = "trade"
    /\ gnode \in {"plan", "dispatch", "recover"} => draft = "none"
    /\ gnode = "recover" /\ acted /\ outcome = "none" => Reported
    /\ gnode = "decide" => Reported

Passed ==
  gnode \in {"finalize", "returned"} /\ outcome = "playbook" =>
    /\ Len(durable) = 7 /\ permit = "continue" /\ draft = "trade"
    /\ durable[7].usage = tries /\ Len(tries) <= RunTries

GraphInv ==
  /\ gnode \in NodeSet \cup {"finalize", "returned", "raised"}
  /\ acted \in BOOLEAN /\ (acted => gnode \in NodeSet)
  /\ draft \in {"none", "trade", "no_trade", "insufficient"}
  /\ IsSeq(durable) /\ Running /\ Passed
  /\ draft = "trade" => Reported /\ OneSide

\* The nodes by name, and the one after each.
LEMMA NodesByName == SetOf(Nodes) = NodeSet
  BY DEF SetOf, Nodes, NodeSet
LEMMA AfterIs ==
  /\ After("plan") = "dispatch" /\ After("dispatch") = "recover" /\ After("recover") = "decide"
  /\ After("decide") = "reflect" /\ After("reflect") = "risk" /\ After("risk") = "assemble"
  /\ After("assemble") = "finalize"
<1>1. /\ NodeIndex("plan") = 1 /\ NodeIndex("dispatch") = 2 /\ NodeIndex("recover") = 3
      /\ NodeIndex("decide") = 4 /\ NodeIndex("reflect") = 5 /\ NodeIndex("risk") = 6
  <2>1. Len(Nodes) = 7 /\ \A k \in 1..7 : k \in {1, 2, 3, 4, 5, 6, 7}
    BY DEF Nodes
  <2>2. /\ Nodes[1] = "plan" /\ Nodes[2] = "dispatch" /\ Nodes[3] = "recover" /\ Nodes[4] = "decide"
        /\ Nodes[5] = "reflect" /\ Nodes[6] = "risk" /\ Nodes[7] = "assemble"
    BY DEF Nodes
  <2>3. \A i, k \in 1..Len(Nodes) : Nodes[i] = Nodes[k] => i = k
    BY <2>1, <2>2
  <2>4. \A i \in 1..Len(Nodes) : NodeIndex(Nodes[i]) = i
    BY <2>3 DEF NodeIndex
  <2>5. \A i \in 1..7 : NodeIndex(Nodes[i]) = i
    BY <2>1, <2>4
  <2> QED
    BY <2>2, <2>5
<1> QED
  BY <1>1 DEF After, Nodes

LEMMA InitGraph == GraphInit => GraphInv
<1> SUFFICES ASSUME GraphInit PROVE GraphInv
  OBVIOUS
<1>1. IsSeq(durable) /\ collected = durable /\ Len(durable) = 0
  <2>1. durable = <<>> /\ collected = <<>> /\ <<>> \in Seq({})
    BY DEF GraphInit
  <2> QED
    BY <2>1 DEF IsSeq
<1>2. gnode = "plan" /\ acted = FALSE /\ draft = "none" /\ outcome = "none"
  BY DEF GraphInit
<1> QED
  BY <1>1, <1>2 DEF GraphInv, Running, Passed, NodeSet, Place

\* A checkpoint is appended to the ones before.
LEMMA OneMore ==
  ASSUME NEW s, IsSeq(s), NEW c
  PROVE  IsSeq(Append(s, c)) /\ Len(Append(s, c)) = Len(s) + 1 /\ Append(s, c)[Len(s) + 1] = c /\ Len(s) \in Nat
<1>1. PICK S : s \in Seq(S)
  BY DEF IsSeq
<1>2. s \in Seq(S \cup {c})
  BY <1>1
<1>3. Append(s, c) \in Seq(S \cup {c})
  BY <1>2
<1> QED
  BY <1>2, <1>3 DEF IsSeq

LEMMA UsageBound == NodeCheckpoint.usage = tries
  BY DEF NodeCheckpoint

\* The recovery loop gives the reports back only when they are all in, and
\* none is opposed to another.
LEMMA ContinueMeans ==
  ASSUME NEW plan, NEW reports, NEW left, NEW funded, Directive(plan, reports, left, funded).act = "continue"
  PROVE  /\ DOMAIN reports = SetOf(plan.tasks)
         /\ \A s, t \in DOMAIN reports : ~(reports[s] = "long" /\ reports[t] = "short")
<1> DEFINE done == {t \in DOMAIN reports : Completed(reports[t])}
           opposed == IF {"long", "short"} \subseteq {reports[t] : t \in done} THEN done ELSE {}
<1>1. DOMAIN reports = SetOf(plan.tasks) /\ opposed = {}
  BY DEF Directive
<1>2. ASSUME NEW s \in DOMAIN reports, NEW t \in DOMAIN reports, reports[s] = "long", reports[t] = "short"
      PROVE  FALSE
  <2>1. s \in done /\ t \in done
    BY <1>2 DEF Completed
  <2>2. {"long", "short"} \subseteq {reports[u] : u \in done}
    BY <1>2, <2>1
  <2> QED
    BY <1>1, <2>1, <2>2
<1> QED
  BY <1>1, <1>2

\* A node that runs leaves the checkpoints alone.
Ran == gnode \in NodeSet /\ ~acted /\ outcome = "none" /\ UNCHANGED <<gnode, kernelVars>>

\* What the steps of a node leave.
LEMMA NodeRan ==
  ASSUME GraphInv, Ran, acted' \in BOOLEAN, draft' \in {"none", "trade", "no_trade", "insufficient"},
         ~acted' => outcome' = "none",
         outcome' = "playbook" => gnode = "assemble" /\ draft' = "trade",
         gnode \in {"plan", "dispatch", "recover"} => draft' = "none",
         gnode = "recover" /\ acted' /\ outcome' = "none" => Reported',
         gnode = "decide" => Reported',
         draft' = "trade" => Reported' /\ OneSide'
  PROVE  GraphInv'
<1>1. /\ gnode' = gnode /\ durable' = durable /\ collected' = collected
      /\ gnode \in NodeSet /\ IsSeq(durable) /\ collected = durable /\ Len(durable) = Place(gnode)
  BY DEF Ran, kernelVars, GraphInv, Running
<1>2. Running'
  BY <1>1 DEF Running
<1>3. Passed'
  BY <1>1 DEF Passed, NodeSet
<1> QED
  BY <1>1, <1>2, <1>3 DEF GraphInv

\* A node that fails does not change what it would have decided on.
LEMMA NodeFails ==
  ASSUME GraphInv, Ran, acted' \in BOOLEAN, acted', NEW reason, Fails(reason), UNCHANGED <<gplan, greports, draft>>
  PROVE  GraphInv'
<1>1. outcome' = "unknown"
  BY DEF Fails
<1>2. UNCHANGED Reported /\ UNCHANGED OneSide
  BY DEF Reported, OneSide
<1> QED
  BY <1>1, <1>2, NodeRan DEF GraphInv, Running, Ran

LEMMA NextRuns == GraphInv /\ Runs /\ UNCHANGED kernelVars => GraphInv'
<1> SUFFICES ASSUME GraphInv, Runs, UNCHANGED kernelVars PROVE GraphInv'
  OBVIOUS
<1>0. ASSUME gnode \in NodeSet, ~acted PROVE outcome = "none"
  BY <1>0 DEF GraphInv, Running
<1>1. ASSUME NEW n \in SetOf(Nodes), Stops(n) PROVE GraphInv'
  <2>1. Ran /\ acted' = TRUE
    BY <1>0, <1>1, NodesByName DEF Stops, At, Ran
  <2> QED
    BY <1>1, <2>1, NodeFails DEF Stops
<1>2. CASE PlanRuns
  <2>1. Ran /\ acted' = TRUE /\ gnode = "plan" /\ UNCHANGED draft /\ draft = "none"
    BY <1>0, <1>2 DEF PlanRuns, At, Ran, NodeSet, GraphInv, Running
  <2>2. outcome' \in {"none", "unknown"}
    BY <1>2, <2>1 DEF PlanRuns, Ran, Succeeds, Fails
  <2> QED
    BY <2>1, <2>2, NodeRan
<1>3. CASE DispatchRuns
  <2>1. Ran /\ acted' = TRUE /\ gnode = "dispatch" /\ UNCHANGED draft /\ draft = "none"
    BY <1>0, <1>3 DEF DispatchRuns, At, Ran, NodeSet, GraphInv, Running
  <2>2. outcome' \in {"none", "unknown"}
    BY <1>3, <2>1 DEF DispatchRuns, Ran, Succeeds, Fails
  <2> QED
    BY <2>1, <2>2, NodeRan
<1>4. CASE RecoverBegins
  <2>1. Ran /\ acted' = FALSE /\ gnode = "recover" /\ UNCHANGED <<draft, outcome>> /\ draft = "none"
    BY <1>0, <1>4 DEF RecoverBegins, At, Ran, NodeSet, GraphInv, Running
  <2> QED
    BY <2>1, NodeRan DEF Ran
<1>5. CASE RecoverTurns
  <2>1. Ran /\ gnode = "recover" /\ UNCHANGED draft /\ draft = "none"
    BY <1>0, <1>5 DEF RecoverTurns, Ran, NodeSet, GraphInv, Running
  <2>2. acted' \in BOOLEAN /\ outcome' \in {"none", "unknown"} /\ (~acted' => outcome' = "none")
    <3>1. \/ acted' = TRUE /\ outcome' = outcome
          \/ acted' = TRUE /\ outcome' = "unknown"
          \/ acted' = acted /\ outcome' = outcome
      BY <1>5 DEF RecoverTurns, Succeeds, Fails
    <3>2. acted \in BOOLEAN /\ ~acted /\ outcome = "none"
      BY <2>1 DEF Ran, GraphInv
    <3> QED
      BY <3>1, <3>2
  <2>3. acted' /\ outcome' = "none" => Reported'
    <3> SUFFICES ASSUME acted', outcome' = "none" PROVE Reported'
      OBVIOUS
    <3>1. PICK funded \in BOOLEAN :
            /\ Directive(round.plan, round.reports, round.left, funded).act = "continue"
            /\ gplan' = round.plan /\ greports' = round.reports
      BY <1>5, <2>1 DEF RecoverTurns, Ran, Fails
    <3> QED
      BY <3>1, ContinueMeans DEF Reported
  <2> QED
    BY <2>1, <2>2, <2>3, NodeRan
<1>6. CASE DecideRuns
  <2>1. Ran /\ acted' = TRUE /\ gnode = "decide" /\ UNCHANGED <<gplan, greports>> /\ Reported
    BY <1>0, <1>6 DEF DecideRuns, At, Ran, NodeSet, GraphInv, Running
  <2>2. outcome' \in {"none", "unknown"}
    BY <1>6, <2>1 DEF DecideRuns, Ran, Succeeds, Fails
  <2>3. Reported'
    BY <2>1 DEF Reported
  <2>4. /\ draft' = "trade" => draft = "trade" \/ \A t \in DOMAIN greports : Completed(greports[t])
        /\ draft' \in {"none", "trade", "no_trade", "insufficient"}
    BY <1>6 DEF DecideRuns, GraphInv
  <2>5. draft' = "trade" => OneSide'
    <3>1. CASE draft = "trade"
      BY <2>1, <3>1 DEF GraphInv, OneSide
    <3>2. CASE \A t \in DOMAIN greports : greports[t] \in {"long", "short"}
      <4>1. CASE \E t \in DOMAIN greports : greports[t] = "long"
        <5>1. \A t \in DOMAIN greports : greports[t] = "long"
          BY <2>1, <3>2, <4>1 DEF Reported
        <5> QED
          BY <2>1, <5>1 DEF OneSide
      <4>2. CASE ~(\E t \in DOMAIN greports : greports[t] = "long")
        <5>1. \A t \in DOMAIN greports : greports[t] = "short"
          BY <3>2, <4>2
        <5> QED
          BY <2>1, <5>1 DEF OneSide
      <4> QED
        BY <4>1, <4>2
    <3> QED
      BY <2>4, <3>1, <3>2 DEF Completed
  <2> QED
    BY <2>1, <2>2, <2>3, <2>4, <2>5, NodeRan
<1>7. CASE ReflectRuns
  <2>1. Ran /\ acted' = TRUE /\ gnode = "reflect" /\ UNCHANGED <<gplan, greports>>
    BY <1>0, <1>7 DEF ReflectRuns, At, Ran, NodeSet
  <2>2. outcome' \in {"none", "unknown"}
    BY <1>7, <2>1 DEF ReflectRuns, Ran, Succeeds, Fails
  <2>3. (draft' = "trade" => draft = "trade") /\ draft' \in {"none", "trade", "no_trade", "insufficient"}
    BY <1>7 DEF ReflectRuns, Corrected, GraphInv
  <2>4. draft' = "trade" => Reported' /\ OneSide'
    BY <2>1, <2>3 DEF GraphInv, Reported, OneSide
  <2> QED
    BY <2>1, <2>2, <2>3, <2>4, NodeRan
<1>8. CASE RiskRuns
  <2>1. Ran /\ acted' = TRUE /\ gnode = "risk" /\ UNCHANGED <<gplan, greports, draft>> /\ outcome' = "none"
    BY <1>0, <1>8 DEF RiskRuns, At, Ran, NodeSet, Succeeds
  <2>2. draft' = "trade" => Reported' /\ OneSide'
    BY <2>1 DEF GraphInv, Reported, OneSide
  <2> QED
    BY <2>1, <2>2, NodeRan DEF GraphInv
<1>9. CASE AssembleRuns
  <2>1. Ran /\ acted' = TRUE /\ gnode = "assemble" /\ UNCHANGED <<gplan, greports, draft>> /\ outcome' = Assembled
    BY <1>0, <1>9 DEF AssembleRuns, At, Ran, NodeSet
  <2>2. draft' = "trade" => Reported' /\ OneSide'
    BY <2>1 DEF GraphInv, Reported, OneSide
  <2>3. outcome' = "playbook" => draft' = "trade"
    BY <2>1 DEF Assembled, GraphInv
  <2> QED
    BY <2>1, <2>2, <2>3, NodeRan DEF GraphInv
<1> QED
  BY <1>1, <1>2, <1>3, <1>4, <1>5, <1>6, <1>7, <1>8, <1>9 DEF Runs

\* The checkpoint of a node is observed, refused or lost.
LEMMA NextObserves == GraphInv /\ (ObserveAnswered \/ ObserveUnrecognized \/ ObserveFails) => GraphInv'
<1> SUFFICES ASSUME GraphInv, ObserveAnswered \/ ObserveUnrecognized \/ ObserveFails PROVE GraphInv'
  OBVIOUS
<1>1. acted /\ acted' = FALSE /\ UNCHANGED <<gplan, greports, draft, tries>>
  BY DEF ObserveAnswered, ObserveUnrecognized, ObserveFails, ActionVars
<1>2. draft' = "trade" => Reported' /\ OneSide'
  BY <1>1 DEF GraphInv, Reported, OneSide
<1>3. IsSeq(durable')
  BY OneMore DEF GraphInv, ObserveAnswered, ObserveUnrecognized, ObserveFails
<1>4. CASE outcome' = "unknown" /\ gnode' = "finalize"
  BY <1>1, <1>2, <1>3, <1>4 DEF GraphInv, Running, Passed, NodeSet
<1>5. CASE ~(outcome' = "unknown" /\ gnode' = "finalize")
  <2>1. /\ durable' = Append(durable, NodeCheckpoint) /\ collected' = Append(collected, NodeCheckpoint)
        /\ permit' = Permit(NodeCheckpoint) /\ permit' = "continue"
        /\ outcome' = outcome /\ gnode' = IF outcome = "none" THEN After(gnode) ELSE "finalize"
    BY <1>5 DEF ObserveAnswered, ObserveUnrecognized, ObserveFails, Observed, Routes, Fails
  <2>2. Len(durable') = Len(durable) + 1 /\ durable'[Len(durable) + 1] = NodeCheckpoint
    BY <2>1, OneMore DEF GraphInv
  <2>3. CASE outcome # "none"
    <3>1. gnode' = "finalize"
      BY <2>1, <2>3
    <3>2. ASSUME outcome = "playbook" PROVE Passed'
      <4>1. gnode = "assemble" /\ draft = "trade" /\ Len(durable) = 6
        BY <1>1, <3>2 DEF GraphInv, Running, Place, NodeSet
      <4>2. Len(NodeCheckpoint.usage) <= RunTries
        BY <2>1 DEF Permit
      <4> QED
        BY <1>1, <2>1, <2>2, <4>1, <4>2, UsageBound DEF Passed
    <3> QED
      BY <1>1, <1>2, <1>3, <2>1, <3>1, <3>2 DEF GraphInv, Running, Passed, NodeSet
  <2>4. CASE outcome = "none"
    <3>1. gnode' = After(gnode) /\ outcome' = "none" /\ gnode \in NodeSet
      BY <1>1, <2>1, <2>4 DEF GraphInv
    <3>2. /\ gnode' \in NodeSet \cup {"finalize"}
          /\ gnode' \in NodeSet => Place(gnode') = Place(gnode) + 1
          /\ gnode' \in {"plan", "dispatch", "recover"} => gnode \in {"plan", "dispatch"}
          /\ gnode' = "decide" => gnode = "recover"
      BY <3>1, AfterIs DEF NodeSet, Place
    <3>3. collected' = durable' /\ Len(durable') = Place(gnode) + 1
      BY <2>1, <2>2, <3>1 DEF GraphInv, Running
    <3>4. gnode' \in {"plan", "dispatch", "recover"} => draft' = "none"
      BY <1>1, <3>1, <3>2 DEF GraphInv, Running
    <3>5. gnode' = "decide" => Reported'
      <4>1. gnode = "recover" => Reported
        BY <1>1, <2>4, <3>1 DEF GraphInv, Running
      <4> QED
        BY <1>1, <3>2, <4>1 DEF Reported
    <3>6. Running'
      BY <1>1, <3>1, <3>2, <3>3, <3>4, <3>5 DEF Running
    <3>7. Passed'
      BY <3>1 DEF Passed
    <3> QED
      BY <1>1, <1>2, <1>3, <3>2, <3>6, <3>7 DEF GraphInv
  <2> QED
    BY <2>3, <2>4
<1> QED
  BY <1>4, <1>5

LEMMA NextGraph == GraphInv /\ [GraphNext]_graphVars => GraphInv'
<1> SUFFICES ASSUME GraphInv, [GraphNext]_graphVars PROVE GraphInv'
  OBVIOUS
<1>1. CASE Finalizes
  <2>1. /\ gnode = "finalize" /\ gnode' \in {"returned", "raised"} /\ outcome' \in {outcome, "unknown"}
        /\ UNCHANGED <<acted, gplan, greports, draft, tries, durable, permit>>
    BY <1>1 DEF Finalizes, kernelVars
  <2>2. Passed' /\ Running'
    BY <2>1 DEF GraphInv, Passed, Running, NodeSet
  <2>3. draft' = "trade" => Reported' /\ OneSide'
    BY <2>1 DEF GraphInv, Reported, OneSide
  <2>4. ~acted
    BY <2>1 DEF GraphInv, NodeSet
  <2> QED
    BY <2>1, <2>2, <2>3, <2>4 DEF GraphInv
<1>2. CASE Cancels \/ UNCHANGED graphVars
  <2>1. UNCHANGED <<gnode, acted, gplan, greports, draft, outcome, tries, collected, durable, permit>>
    BY <1>2 DEF Cancels, graphVars
  <2>2. Passed' /\ Running'
    BY <2>1 DEF GraphInv, Passed, Running, Reported
  <2>3. draft' = "trade" => Reported' /\ OneSide'
    BY <2>1 DEF GraphInv, Reported, OneSide
  <2> QED
    BY <2>1, <2>2, <2>3 DEF GraphInv
<1> QED
  BY <1>1, <1>2, NextRuns, NextObserves DEF GraphNext

LEMMA GraphInvImplies == GraphInv => Cleared
<1>1. Len(Nodes) = 7
  BY DEF Nodes
<1> QED
  BY <1>1 DEF GraphInv, Passed, Cleared, Reported, OneSide

-----------------------------------------------------------------------------
(* The trend fetcher.  What was resolved, was resolved in the catalogue    *)
(* the client has, and nothing is resolved without one.                    *)

TrendInv ==
  /\ resolved = [q \in Asked |-> resolved[q]] /\ "at" \in DOMAIN request
  /\ request.at \in {"catalogue", "resolve"} => request.query \in Asked
  /\ request.at = "resolve" => catalog # NoCatalog
  /\ \A q \in Asked : \A m \in resolved[q] : catalog # NoCatalog /\ m = Resolution(catalog, q)

\* A catalogue that was read is never the one that was not.
LEMMA CatalogRead == ASSUME NEW read PROVE {m \in AllMarkets : OnExchange(m) /\ m.dex \in read} # NoCatalog
<1>1. ~OnExchange(NoMarket)
  BY TrendAssumption DEF OnExchange, NoMarket
<1> QED
  BY <1>1 DEF NoCatalog

LEMMA InitTrend == TrendInit => TrendInv
  BY DEF TrendInit, TrendInv, Resting

\* A step that keeps the catalogue and what was resolved.
LEMMA TrendQuiet ==
  ASSUME TrendInv, UNCHANGED <<catalog, resolved>>, "at" \in DOMAIN request',
         request'.at \in {"catalogue", "resolve"} => request'.query \in Asked,
         request'.at = "resolve" => catalog # NoCatalog
  PROVE  TrendInv'
  BY DEF TrendInv

LEMMA NextTrend == TrendInv /\ [TrendNext]_trendVars => TrendInv'
<1> SUFFICES ASSUME TrendInv, [TrendNext]_trendVars PROVE TrendInv'
  OBVIOUS
<1>1. ASSUME NEW q \in Asked, Ask(q) PROVE TrendInv'
  <2>1. UNCHANGED <<catalog, resolved>>
    BY <1>1 DEF Ask
  <2>2. \/ request' = Resting
        \/ request' = [at |-> "catalogue", query |-> q]
        \/ /\ request' = [at |-> RouteOf[q], query |-> q, end |-> minute, tries |-> 4]
           /\ RouteOf[q] # "resolve"
    BY <1>1, TrendAssumption DEF Ask, NoAnswerReply, Reply
  <2>3. CASE request' = Resting
    BY <2>1, <2>3, TrendQuiet DEF Resting
  <2>4. CASE request' = [at |-> "catalogue", query |-> q]
    BY <2>1, <2>4, TrendQuiet
  <2>5. CASE /\ request' = [at |-> RouteOf[q], query |-> q, end |-> minute, tries |-> 4]
             /\ RouteOf[q] # "resolve"
    BY <2>1, <2>5, TrendQuiet
  <2> QED
    BY <2>2, <2>3, <2>4, <2>5
<1>2. CASE NamesLoaded
  BY <1>2, TrendQuiet DEF NamesLoaded, TrendInv
<1>3. CASE CatalogBuilt
  <2>1. /\ request' = [at |-> "resolve", query |-> request.query] /\ resolved' = resolved
        /\ request.query \in Asked
    BY <1>3 DEF CatalogBuilt, TrendInv
  <2>2. "at" \in DOMAIN request' /\ request'.at = "resolve" /\ request'.query \in Asked
    BY <2>1
  <2>3. CASE catalog # NoCatalog
    <3>1. catalog' = catalog
      BY <1>3, <2>3 DEF CatalogBuilt, CatalogKept
    <3> QED
      BY <2>1, <2>2, <2>3, <3>1, TrendQuiet
  <2>4. CASE catalog = NoCatalog
    <3>1. catalog' # NoCatalog
      BY <1>3, <2>4, CatalogRead DEF CatalogBuilt, CatalogKept
    <3>2. \A q \in Asked : resolved'[q] = {}
      BY <2>1, <2>4 DEF TrendInv
    <3> QED
      BY <2>1, <2>2, <3>1, <3>2 DEF TrendInv
  <2> QED
    BY <2>3, <2>4
<1>4. CASE Resolve
  <2>1. /\ request.at = "resolve" /\ request.query \in Asked /\ catalog' = catalog /\ catalog # NoCatalog
    BY <1>4 DEF Resolve, TrendInv
  <2>2. CASE Resolution(catalog, request.query) = NoMarket
    BY <1>4, <2>1, <2>2, TrendQuiet DEF Resolve, NoAnswerReply, Reply, Resting
  <2>3. CASE Resolution(catalog, request.query) # NoMarket
    <3>1. /\ resolved' = [resolved EXCEPT ![request.query] = @ \cup {Resolution(catalog, request.query)}]
          /\ request' = [at |-> "candles", query |-> request.query, market |-> Resolution(catalog, request.query),
                         end |-> minute, coins |-> Coins(request.query, Resolution(catalog, request.query)), served |-> TRUE]
      BY <1>4, <2>3 DEF Resolve
    <3>2. "at" \in DOMAIN request' /\ request'.at = "candles"
      BY <3>1
    <3>3. /\ resolved' = [q \in Asked |-> resolved'[q]]
          /\ \A q \in Asked : resolved'[q] \subseteq resolved[q] \cup {Resolution(catalog, q)}
      BY <2>1, <3>1 DEF TrendInv
    <3>4. \A q \in Asked : \A m \in resolved'[q] : catalog' # NoCatalog /\ m = Resolution(catalog', q)
      BY <2>1, <3>3 DEF TrendInv
    <3> QED
      BY <3>2, <3>3, <3>4 DEF TrendInv
  <2> QED
    BY <2>2, <2>3
<1>5. CASE CandlesServed \/ QuoteInstead
  <2>1. request' = Resting /\ UNCHANGED <<catalog, resolved>>
    BY <1>5 DEF CandlesServed, QuoteInstead, NoAnswerReply, Reply
  <2> QED
    BY <2>1, TrendQuiet DEF Resting
<1>6. CASE CandlesMissing
  <2>1. PICK rest, served : request' = [request EXCEPT !.coins = rest, !.served = served]
    BY <1>6 DEF CandlesMissing
  <2>2. request.at = "candles" /\ UNCHANGED <<catalog, resolved>>
    BY <1>6 DEF CandlesMissing
  <2>3. "at" \in DOMAIN request' /\ request'.at = "candles"
    BY <2>1, <2>2 DEF TrendInv
  <2> QED
    BY <2>2, <2>3, TrendQuiet
<1>7. CASE Elsewheres
  <2>1. UNCHANGED <<catalog, resolved>>
    BY <1>7 DEF Elsewheres
  <2>2. CASE request' = Resting
    BY <2>1, <2>2, TrendQuiet DEF Resting
  <2>3. CASE request' # Resting
    <3>1. request.at = "futures" /\ \E end : request' = [request EXCEPT !.end = end, !.tries = @ - 1]
      BY <1>7, <2>3 DEF Elsewheres, FuturesServed, FuturesTooRecent, ForexServed, DollarServed, QuoteServed,
         OtherReply, NoAnswerReply, Reply
    <3>2. PICK end, left : request' = [request EXCEPT !.end = end, !.tries = left]
      BY <3>1
    <3>3. "at" \in DOMAIN request' /\ request'.at = "futures"
      BY <3>1, <3>2 DEF TrendInv
    <3> QED
      BY <2>1, <3>3, TrendQuiet
  <2> QED
    BY <2>2, <2>3
<1>8. CASE MinutePasses \/ UNCHANGED trendVars
  BY <1>8, TrendQuiet DEF MinutePasses, trendVars, TrendInv
<1> QED
  BY <1>1, <1>2, <1>3, <1>4, <1>5, <1>6, <1>7, <1>8 DEF TrendNext

\* All that one name was resolved to is one market.
LEMMA TrendInvImplies == TrendInv => SameMarket
<1> SUFFICES ASSUME TrendInv, NEW q \in Asked PROVE Cardinality(resolved[q]) <= 1
  BY DEF SameMarket
<1>1. CASE resolved[q] = {}
  BY <1>1, FS_EmptySet
<1>2. CASE resolved[q] # {}
  <2>1. resolved[q] = {Resolution(catalog, q)}
    BY <1>2 DEF TrendInv
  <2>2. Cardinality({Resolution(catalog, q)}) = 1
    BY FS_Singleton, Zenon
  <2> QED
    BY <2>1, <2>2
<1> QED
  BY <1>1, <1>2

-----------------------------------------------------------------------------
(* The soft stop's poller.  Every price that is handed on was quoted by    *)
(* the market this process watches; unless an older answer was saved over  *)
(* a newer one, the quotes get no older from the reader to the poll, to    *)
(* the cache and to a reference; a price is stamped at most as much later  *)
(* than it was quoted as the reader keeps one, unless the exchange did not *)
(* answer; and the peaks in memory and on disk are moves that were quoted. *)

WasQuoted(quotes, market, price, at) ==
  \E q \in quotes : q.symbol = market /\ q.price = price /\ q.at = at

MidsParts == {"price", "at", "quoted"}
MidsOK ==
  /\ mids = [f \in MidsParts |-> mids[f]]
  /\ mids.price \in Nat /\ mids.at \in Nat /\ mids.quoted \in Nat /\ mids.quoted <= tick
  /\ mids.price # 0 => mids.at <= mids.quoted /\ WasQuoted(quotedMoves, watched, mids.price, mids.quoted)
  /\ other.at \in {"asleep", "asking"}
  /\ other.at = "asking" => other.asked \in Nat

Holds(p) == p.at \in {"asking", "answered"}
AnswerOK ==
  /\ poller.at \in {"asleep", "polling", "asking", "answered"}
  /\ poller.at # "asleep" => poller.stamp \in Nat /\ poller.stamp <= tick
  /\ poller.at = "asking" =>
       /\ poller.asked \in Nat /\ poller.stamp <= poller.asked /\ poller.had \in Nat
       /\ poller.had # 0 => WasQuoted(quotedMoves, watched, poller.had, poller.quoted)
  /\ poller.at = "answered" =>
       /\ poller.price \in Nat \ {0}
       /\ poller.stamp <= poller.quoted + MidsTtl \/ poller.unheard
       /\ WasQuoted(quotedMoves, watched, poller.price, poller.quoted)
  /\ Holds(poller) => poller.quoted \in Nat /\ poller.quoted <= tick /\ (poller.quoted <= mids.quoted \/ crossed)

CacheParts == {"symbol", "price", "at", "quoted", "unheard"}
CacheOK ==
  /\ cache = [f \in CacheParts |-> cache[f]]
  /\ cache.price \in Nat /\ cache.at \in Nat /\ cache.quoted \in Nat
  /\ cache.price > 0 =>
       /\ cache.at <= cache.quoted + MidsTtl \/ cache.unheard
       /\ WasQuoted(quotedMoves, watched, cache.price, cache.quoted)
  /\ cache.quoted <= mids.quoted \/ crossed
  /\ Holds(poller) => cache.quoted <= poller.quoted \/ crossed

SessionParts == {"side", "symbol", "entry", "quoted", "peak"}
SessionShape(s) == s = [f \in SessionParts |-> s[f]]

\* The peak of s is a move of the market of its reference, quoted since.
Earned(s, quotes, x) ==
  s.peak > 0 => \E q \in quotes :
    /\ q.symbol = s.symbol /\ (q.at >= s.quoted \/ x)
    /\ Against(s.side, q.price - s.entry) = s.peak

\* What holds of a session when the reader's price is of time m, with the
\* poller at p, the cache c, these quotes, and answers crossed or not.
SessionAt(s, m, p, c, quotes, x) ==
  s # NoTrade =>
    /\ SessionShape(s) /\ s.side \in {"long", "short"}
    /\ s.entry \in Int /\ s.quoted \in Nat /\ s.peak \in Int
    /\ s.quoted <= m \/ x
    /\ Holds(p) => s.quoted <= p.quoted \/ x
    /\ c.price > 0 => s.quoted <= c.quoted \/ x
    /\ Earned(s, quotes, x)

SessionsOK ==
  /\ SessionAt(session, mids.quoted, poller, cache, quotedMoves, crossed)
  /\ SessionAt(persisted, mids.quoted, poller, cache, quotedMoves, crossed)
\* A pass that has its reference has a session.
PassOK == pass = "priced" => session # NoTrade
PollerInv == tick \in Nat /\ crossed \in BOOLEAN /\ MidsOK /\ AnswerOK /\ CacheOK /\ SessionsOK

\* The larger of two numbers is one of them.
LEMMA MaxOfTwo ==
  ASSUME NEW a \in Int, NEW b \in Int
  PROVE  Max({a, b}) \in {a, b} /\ Max({a, b}) \in Int
<1>1. \E x \in {a, b} : \A y \in {a, b} : x >= y
  <2>1. CASE a >= b
    BY <2>1
  <2>2. CASE ~(a >= b)
    BY <2>2
  <2> QED
    BY <2>1, <2>2
<1> QED
  BY <1>1 DEF Max

\* The empty caches a process starts with.
LEMMA EmptyCache ==
  /\ NoPrice = [f \in CacheParts |-> NoPrice[f]]
  /\ NoPrice.price = 0 /\ NoPrice.at = 0 /\ NoPrice.quoted = 0
  BY DEF NoPrice, CacheParts
LEMMA EmptyMids ==
  ASSUME NEW t
  PROVE  LET m == NoMids(t) IN m = [f \in MidsParts |-> m[f]] /\ m.price = 0 /\ m.at = 0 /\ m.quoted = t
  BY DEF NoMids, MidsParts

\* What a session keeps while quotes come in and the poller goes from one poll
\* to the next: the reader's price gets no older unless answers cross, a poll
\* has it or the one it had, and the cache that of a poll.
LEMMA SessionLater ==
  ASSUME NEW s, NEW m \in Nat, NEW n \in Nat, NEW p, NEW o, NEW c, NEW d, NEW quotes, NEW more,
         NEW x \in BOOLEAN, NEW y \in BOOLEAN, x => y, m <= n \/ y,
         quotes \subseteq more, SessionAt(s, m, p, c, quotes, x),
         Holds(o) => o.quoted \in Nat /\ (o.quoted >= m \/ (Holds(p) /\ o.quoted = p.quoted) \/ y),
         d.price > 0 => d.quoted \in Nat /\ ((c.price > 0 /\ d.quoted = c.quoted) \/ (Holds(p) /\ d.quoted = p.quoted))
  PROVE  SessionAt(s, n, o, d, more, y)
<1> SUFFICES ASSUME s # NoTrade
            PROVE  /\ SessionShape(s) /\ s.side \in {"long", "short"}
                   /\ s.entry \in Int /\ s.quoted \in Nat /\ s.peak \in Int
                   /\ s.quoted <= n \/ y
                   /\ Holds(o) => s.quoted <= o.quoted \/ y
                   /\ d.price > 0 => s.quoted <= d.quoted \/ y
                   /\ Earned(s, more, y)
  BY DEF SessionAt
<1>1. /\ SessionShape(s) /\ s.side \in {"long", "short"}
      /\ s.entry \in Int /\ s.quoted \in Nat /\ s.peak \in Int
      /\ s.quoted <= m \/ x
      /\ Holds(p) => s.quoted <= p.quoted \/ x
      /\ c.price > 0 => s.quoted <= c.quoted \/ x
      /\ Earned(s, quotes, x)
  BY DEF SessionAt
<1>2. Earned(s, more, y)
  BY <1>1 DEF Earned
<1>3. s.quoted <= n \/ y
  BY <1>1
<1>4. Holds(o) => s.quoted <= o.quoted \/ y
  BY <1>1
<1>5. d.price > 0 => s.quoted <= d.quoted \/ y
  BY <1>1
<1> QED
  BY <1>1, <1>2, <1>3, <1>4, <1>5

LEMMA InitPoller == PollerInit => PollerInv
<1> SUFFICES ASSUME PollerInit
            PROVE  PollerInv
  OBVIOUS
<1>1. /\ tick = 1 /\ crossed = FALSE /\ poller = [at |-> "asleep"] /\ other = [at |-> "asleep"]
      /\ cache = NoPrice /\ mids = NoMids(tick) /\ session = NoTrade /\ persisted = NoTrade
  BY DEF PollerInit, Sleeping
<1>2. mids = [f \in MidsParts |-> mids[f]] /\ mids.price = 0 /\ mids.at = 0 /\ mids.quoted = 1
  BY <1>1, EmptyMids
<1>3. MidsOK
  BY <1>1, <1>2 DEF MidsOK
<1>4. AnswerOK
  BY <1>1 DEF AnswerOK, Holds
<1>5. CacheOK
  BY <1>1, <1>2, EmptyCache DEF CacheOK, Holds
<1> QED
  BY <1>1, <1>3, <1>4, <1>5 DEF PollerInv, SessionsOK, SessionAt

-----------------------------------------------------------------------------
\* What the reader keeps of an answer.
LEMMA SavedGives ==
  ASSUME tick \in Nat, crossed \in BOOLEAN, mids.quoted \in Nat,
         NEW asked \in Nat, NEW p \in Quotes, NEW quoted \in 1..tick, Saved(asked, p, quoted)
  PROVE  /\ mids' = [f \in MidsParts |-> mids'[f]]
         /\ mids'.price = p /\ mids'.at = asked /\ mids'.quoted = quoted
         /\ p \in Nat \ {0} /\ quoted \in Nat /\ quoted <= tick /\ asked <= quoted
         /\ quotedMoves \subseteq quotedMoves' /\ WasQuoted(quotedMoves', watched, p, quoted)
         /\ crossed' \in BOOLEAN /\ (crossed => crossed') /\ (mids.quoted <= quoted \/ crossed')
<1>1. mids' = [price |-> p, at |-> asked, quoted |-> quoted]
  BY DEF Saved
<1>2. mids' = [f \in MidsParts |-> mids'[f]] /\ mids'.price = p /\ mids'.at = asked /\ mids'.quoted = quoted
  BY <1>1 DEF MidsParts
<1>3. p \in Nat \ {0} /\ quoted \in Nat /\ quoted <= tick /\ asked <= quoted
  BY PollerAssumption DEF Saved
<1>4. PICK q : q = [symbol |-> watched, price |-> p, at |-> quoted] /\ quotedMoves' = quotedMoves \cup {q}
  BY DEF Saved
<1>5. WasQuoted(quotedMoves', watched, p, quoted) /\ quotedMoves \subseteq quotedMoves'
  BY <1>4 DEF WasQuoted
<1>6. crossed' = (crossed \/ quoted < mids.quoted)
  BY DEF Saved
<1>7. crossed' \in BOOLEAN /\ (crossed => crossed')
  BY <1>6, Zenon
<1>8. quoted < mids.quoted => crossed'
  BY <1>6, Zenon
<1>9. mids.quoted <= quoted \/ quoted < mids.quoted
  BY <1>3
<1>10. mids.quoted <= quoted \/ crossed'
  BY <1>8, <1>9, Zenon
<1> QED
  BY <1>2, <1>3, <1>5, <1>7, <1>10

LEMMA SavedWithoutGives ==
  ASSUME MidsOK, NEW asked \in Nat, SavedWithout(asked)
  PROVE  /\ mids' = [f \in MidsParts |-> mids'[f]]
         /\ mids'.price = 0 /\ mids'.at = asked /\ mids'.quoted = mids.quoted
         /\ UNCHANGED <<quotedMoves, crossed>>
<1>1. mids = [f \in MidsParts |-> mids[f]] /\ mids' = [mids EXCEPT !.price = 0, !.at = asked]
  BY DEF MidsOK, SavedWithout
<1>2. mids'.price = 0 /\ mids'.at = asked /\ mids'.quoted = mids.quoted
  BY <1>1 DEF MidsParts
<1>3. mids' = [f \in MidsParts |-> mids'[f]]
  BY <1>1 DEF MidsParts
<1> QED
  BY <1>2, <1>3 DEF SavedWithout

\* What was quoted stays quoted.
LEMMA QuotedStays ==
  ASSUME NEW quotes, NEW more, quotes \subseteq more, NEW w, NEW p, NEW t, WasQuoted(quotes, w, p, t)
  PROVE  WasQuoted(more, w, p, t)
  BY DEF WasQuoted

\* Steps of the trading loop's own call.
LEMMA StepOther ==
  ASSUME PollerInv, OtherAsks \/ OtherAnswered \/ OtherFails
  PROVE  PollerInv'
<1>1. /\ tick \in Nat /\ crossed \in BOOLEAN /\ MidsOK /\ AnswerOK /\ CacheOK /\ SessionsOK
      /\ UNCHANGED <<tick, watched, poller, cache, session, persisted>>
  BY DEF PollerInv, OtherAsks, OtherAnswered, OtherFails, sessionVars
<1>2. other'.at \in {"asleep", "asking"} /\ (other'.at = "asking" => other'.asked \in Nat)
  <2>1. other' = [at |-> "asleep"] \/ other' = [at |-> "asking", asked |-> tick]
    BY DEF OtherAsks, OtherAnswered, OtherFails, Sleeping
  <2> QED
    BY <1>1, <2>1
<1>3. CASE OtherAsks \/ OtherFails
  <2>1. UNCHANGED <<mids, quotedMoves, crossed>>
    BY <1>3 DEF OtherAsks, OtherFails
  <2> QED
    BY <1>1, <1>2, <2>1 DEF PollerInv, MidsOK, AnswerOK, CacheOK, SessionsOK
<1>4. CASE OtherAnswered
  <2>1. other.asked \in Nat
    BY <1>1, <1>4 DEF OtherAnswered, MidsOK
  <2>2. CASE SavedWithout(other.asked)
    <3>1. /\ mids' = [f \in MidsParts |-> mids'[f]]
          /\ mids'.price = 0 /\ mids'.at \in Nat /\ mids'.quoted = mids.quoted
          /\ UNCHANGED <<quotedMoves, crossed>>
      BY <1>1, <2>1, <2>2, SavedWithoutGives
    <3> QED
      BY <1>1, <1>2, <3>1 DEF PollerInv, MidsOK, AnswerOK, CacheOK, SessionsOK
  <2>3. ASSUME NEW p \in Quotes, NEW quoted \in 1..tick, Saved(other.asked, p, quoted)
        PROVE  PollerInv'
    <3>1. /\ mids' = [f \in MidsParts |-> mids'[f]]
          /\ mids'.price = p /\ mids'.at \in Nat /\ mids'.at <= mids'.quoted /\ mids'.quoted = quoted
          /\ p \in Nat \ {0} /\ quoted \in Nat /\ quoted <= tick
          /\ quotedMoves \subseteq quotedMoves' /\ WasQuoted(quotedMoves', watched, p, quoted)
          /\ crossed' \in BOOLEAN /\ (crossed => crossed') /\ (mids.quoted <= quoted \/ crossed')
      BY <1>1, <2>1, <2>3, SavedGives DEF MidsOK
    <3>2. MidsOK'
      BY <1>1, <1>2, <3>1 DEF MidsOK
    <3>3. AnswerOK'
      BY <1>1, <3>1, QuotedStays DEF AnswerOK, MidsOK
    <3>4. CacheOK'
      BY <1>1, <3>1, QuotedStays DEF CacheOK, MidsOK
    <3>5. SessionsOK'
      <4>1. mids.quoted \in Nat /\ mids'.quoted \in Nat /\ (mids.quoted <= mids'.quoted \/ crossed')
        BY <1>1, <3>1 DEF MidsOK
      <4>2. (Holds(poller) => poller.quoted \in Nat) /\ cache.quoted \in Nat
        BY <1>1 DEF AnswerOK, CacheOK
      <4> QED
        BY <1>1, <3>1, <4>1, <4>2, SessionLater DEF SessionsOK
    <3> QED
      BY <1>1, <3>1, <3>2, <3>3, <3>4, <3>5 DEF PollerInv
  <2> QED
    BY <1>4, <2>2, <2>3 DEF OtherAnswered
<1> QED
  BY <1>3, <1>4

\* Steps of the poller that leave the reader and the cache alone.
LEMMA PollGoesOn ==
  ASSUME PollerInv, UNCHANGED <<tick, watched, mids, other, cache, session, persisted, quotedMoves, crossed>>,
         AnswerOK',
         Holds(poller') => poller'.quoted = mids.quoted \/ (Holds(poller) /\ poller'.quoted = poller.quoted)
  PROVE  PollerInv'
<1>1. tick \in Nat /\ crossed \in BOOLEAN /\ MidsOK /\ AnswerOK /\ CacheOK /\ SessionsOK
  BY DEF PollerInv
<1>2. /\ Holds(poller') => poller'.quoted \in Nat
      /\ mids.quoted \in Nat /\ cache.quoted \in Nat
  BY <1>1 DEF AnswerOK, MidsOK, CacheOK
<1>3. MidsOK'
  BY <1>1 DEF MidsOK
<1>4. CacheOK'
  BY <1>1, <1>2 DEF CacheOK
<1>5. SessionsOK'
  BY <1>1, <1>2, SessionLater DEF SessionsOK
<1> QED
  BY <1>1, <1>3, <1>4, <1>5 DEF PollerInv

LEMMA StepPollStarts == PollerInv /\ PollStarts => PollerInv'
<1> SUFFICES ASSUME PollerInv, PollStarts
            PROVE  PollerInv'
  OBVIOUS
<1>1. /\ tick \in Nat /\ AnswerOK
      /\ poller' = [at |-> "polling", stamp |-> tick]
      /\ UNCHANGED <<tick, watched, mids, other, cache, session, persisted, quotedMoves, crossed>>
  BY DEF PollerInv, PollStarts, sessionVars, readerVars
<1>2. poller'.at = "polling" /\ poller'.stamp = tick
  BY <1>1
<1>3. AnswerOK'
  BY <1>1, <1>2 DEF AnswerOK, Holds
<1> QED
  BY <1>1, <1>2, <1>3, PollGoesOn DEF Holds

LEMMA StepPollServed == PollerInv /\ PollServed => PollerInv'
<1> SUFFICES ASSUME PollerInv, PollServed
            PROVE  PollerInv'
  OBVIOUS
<1>1. /\ tick \in Nat /\ MidsOK /\ AnswerOK
      /\ poller.at = "polling" /\ tick - mids.at <= MidsTtl /\ mids.price # 0
      /\ poller' = [at |-> "answered", stamp |-> poller.stamp, price |-> mids.price, quoted |-> mids.quoted,
                    unheard |-> FALSE]
      /\ UNCHANGED <<tick, watched, mids, other, cache, session, persisted, quotedMoves, crossed>>
  BY DEF PollerInv, PollServed, Young, Priced, sessionVars, readerVars
<1>2. /\ poller'.at = "answered" /\ poller'.stamp = poller.stamp
      /\ poller'.price = mids.price /\ poller'.quoted = mids.quoted
  BY <1>1
<1>3. poller.stamp \in Nat /\ poller.stamp <= tick
  BY <1>1 DEF AnswerOK
<1>4. /\ mids.price \in Nat \ {0} /\ mids.at \in Nat /\ mids.quoted \in Nat /\ mids.quoted <= tick
      /\ mids.at <= mids.quoted /\ WasQuoted(quotedMoves, watched, mids.price, mids.quoted)
  BY <1>1 DEF MidsOK
<1>5. MidsTtl \in Nat
  BY PollerAssumption
<1>6. poller.stamp <= mids.quoted + MidsTtl
  BY <1>1, <1>3, <1>4, <1>5
<1>7. AnswerOK'
  BY <1>1, <1>2, <1>3, <1>4, <1>6 DEF AnswerOK, Holds
<1> QED
  BY <1>1, <1>2, <1>7, PollGoesOn

LEMMA StepPollAsks == PollerInv /\ PollAsks => PollerInv'
<1> SUFFICES ASSUME PollerInv, PollAsks
            PROVE  PollerInv'
  OBVIOUS
<1>1. /\ tick \in Nat /\ MidsOK /\ AnswerOK
      /\ poller.at = "polling"
      /\ poller' = [at |-> "asking", stamp |-> poller.stamp, asked |-> tick, had |-> mids.price,
                    quoted |-> mids.quoted]
      /\ UNCHANGED <<tick, watched, mids, other, cache, session, persisted, quotedMoves, crossed>>
  BY DEF PollerInv, PollAsks, sessionVars, readerVars
<1>2. /\ poller'.at = "asking" /\ poller'.stamp = poller.stamp /\ poller'.asked = tick
      /\ poller'.had = mids.price /\ poller'.quoted = mids.quoted
  BY <1>1
<1>3. poller.stamp \in Nat /\ poller.stamp <= tick
  BY <1>1 DEF AnswerOK
<1>4. /\ mids.price \in Nat /\ mids.quoted \in Nat /\ mids.quoted <= tick
      /\ mids.price # 0 => WasQuoted(quotedMoves, watched, mids.price, mids.quoted)
  BY <1>1 DEF MidsOK
<1>5. AnswerOK'
  BY <1>1, <1>2, <1>3, <1>4 DEF AnswerOK, Holds
<1> QED
  BY <1>1, <1>2, <1>5, PollGoesOn

LEMMA StepPollUnheard == PollerInv /\ PollUnheard => PollerInv'
<1> SUFFICES ASSUME PollerInv, PollUnheard
            PROVE  PollerInv'
  OBVIOUS
<1>1. /\ tick \in Nat /\ MidsOK /\ AnswerOK
      /\ poller.at = "asking" /\ poller.had # 0
      /\ poller' = [at |-> "answered", stamp |-> poller.stamp, price |-> poller.had, quoted |-> poller.quoted,
                    unheard |-> TRUE]
      /\ UNCHANGED <<tick, watched, mids, other, cache, session, persisted, quotedMoves, crossed>>
  BY DEF PollerInv, PollUnheard, Priced, sessionVars, readerVars
<1>2. /\ poller'.at = "answered" /\ poller'.stamp = poller.stamp
      /\ poller'.price = poller.had /\ poller'.quoted = poller.quoted /\ poller'.unheard = TRUE
  BY <1>1
<1>3. /\ poller.stamp \in Nat /\ poller.stamp <= tick
      /\ poller.had \in Nat \ {0} /\ WasQuoted(quotedMoves, watched, poller.had, poller.quoted)
      /\ poller.quoted \in Nat /\ poller.quoted <= tick /\ (poller.quoted <= mids.quoted \/ crossed)
  BY <1>1 DEF AnswerOK, Holds
<1>4. AnswerOK'
  BY <1>1, <1>2, <1>3 DEF AnswerOK, Holds
<1> QED
  BY <1>1, <1>2, <1>4, PollGoesOn DEF Holds

LEMMA StepPollQuoted ==
  ASSUME NEW p \in Quotes, NEW quoted \in 1..tick, PollerInv, PollQuoted(p, quoted)
  PROVE  PollerInv'
<1>1. /\ tick \in Nat /\ crossed \in BOOLEAN /\ MidsOK /\ AnswerOK /\ CacheOK /\ SessionsOK
      /\ poller.at = "asking" /\ Saved(poller.asked, p, quoted)
      /\ poller' = [at |-> "answered", stamp |-> poller.stamp, price |-> p, quoted |-> quoted, unheard |-> FALSE]
      /\ UNCHANGED <<tick, watched, other, cache, session, persisted>>
  BY DEF PollerInv, PollQuoted, Priced, sessionVars
<1>2. /\ poller'.at = "answered" /\ poller'.stamp = poller.stamp
      /\ poller'.price = p /\ poller'.quoted = quoted
  BY <1>1
<1>3. /\ poller.stamp \in Nat /\ poller.stamp <= tick /\ poller.asked \in Nat /\ poller.stamp <= poller.asked
  BY <1>1 DEF AnswerOK
<1>0. mids.quoted \in Nat
  BY <1>1 DEF MidsOK
<1>4. /\ mids' = [f \in MidsParts |-> mids'[f]]
      /\ mids'.price = p /\ mids'.at \in Nat /\ mids'.at <= mids'.quoted /\ mids'.quoted = quoted
      /\ p \in Nat \ {0} /\ quoted \in Nat /\ quoted <= tick /\ poller.asked <= quoted
      /\ quotedMoves \subseteq quotedMoves' /\ WasQuoted(quotedMoves', watched, p, quoted)
      /\ crossed' \in BOOLEAN /\ (crossed => crossed') /\ (mids.quoted <= quoted \/ crossed')
  <2>1. tick \in Nat /\ crossed \in BOOLEAN /\ poller.asked \in Nat /\ Saved(poller.asked, p, quoted)
    BY <1>1, <1>3
  <2>2. PICK a : a = poller.asked
    OBVIOUS
  <2>3. a \in Nat /\ Saved(a, p, quoted)
    BY <2>1, <2>2
  <2>4. /\ mids' = [f \in MidsParts |-> mids'[f]]
        /\ mids'.price = p /\ mids'.at = a /\ mids'.quoted = quoted
        /\ p \in Nat \ {0} /\ quoted \in Nat /\ quoted <= tick /\ a <= quoted
        /\ quotedMoves \subseteq quotedMoves' /\ WasQuoted(quotedMoves', watched, p, quoted)
        /\ crossed' \in BOOLEAN /\ (crossed => crossed') /\ (mids.quoted <= quoted \/ crossed')
    BY ONLY <1>0, <2>1, <2>3, SavedGives, p \in Quotes, quoted \in 1..tick
  <2> QED
    BY ONLY <2>2, <2>3, <2>4
<1>5. MidsTtl \in Nat /\ mids.quoted \in Nat /\ cache.quoted \in Nat
  BY <1>1, PollerAssumption DEF MidsOK, CacheOK
<1>6. MidsOK'
  BY <1>1, <1>4 DEF MidsOK
<1>7. AnswerOK'
  <2>1. poller.stamp <= quoted + MidsTtl
    BY <1>3, <1>4, <1>5
  <2> QED
    BY <1>1, <1>2, <1>3, <1>4, <2>1 DEF AnswerOK, Holds
<1>8. CacheOK'
  <2>1. cache.quoted <= quoted \/ crossed'
    BY <1>1, <1>4, <1>5 DEF CacheOK
  <2> QED
    BY <1>1, <1>2, <1>4, <2>1, QuotedStays DEF CacheOK
<1>9. SessionsOK'
  BY <1>1, <1>2, <1>4, <1>5, SessionLater DEF SessionsOK
<1> QED
  BY <1>1, <1>4, <1>6, <1>7, <1>8, <1>9 DEF PollerInv

LEMMA StepPollWrites == PollerInv /\ PollWrites => PollerInv'
<1> SUFFICES ASSUME PollerInv, PollWrites
            PROVE  PollerInv'
  OBVIOUS
<1>1. /\ tick \in Nat /\ crossed \in BOOLEAN /\ MidsOK /\ AnswerOK /\ CacheOK /\ SessionsOK
      /\ poller.at = "answered" /\ poller' = [at |-> "asleep"]
      /\ cache' = [symbol |-> watched, price |-> poller.price, at |-> poller.stamp, quoted |-> poller.quoted,
                   unheard |-> poller.unheard]
      /\ UNCHANGED <<tick, watched, mids, other, session, persisted, quotedMoves, crossed>>
  BY DEF PollerInv, PollWrites, Sleeping, Stamp, sessionVars, readerVars
<1>2. poller'.at = "asleep" /\ ~Holds(poller') /\ Holds(poller)
  BY <1>1 DEF Holds
<1>3. cache'.price = poller.price /\ cache'.at = poller.stamp /\ cache'.quoted = poller.quoted
      /\ cache'.unheard = poller.unheard
  BY <1>1
<1>4. cache' = [f \in CacheParts |-> cache'[f]]
  BY <1>1 DEF CacheParts
<1>5. /\ poller.stamp \in Nat /\ poller.price \in Nat
      /\ poller.stamp <= poller.quoted + MidsTtl \/ poller.unheard
      /\ WasQuoted(quotedMoves, watched, poller.price, poller.quoted)
      /\ poller.quoted \in Nat /\ (poller.quoted <= mids.quoted \/ crossed)
  BY <1>1, <1>2 DEF AnswerOK
<1>6. AnswerOK'
  BY <1>2 DEF AnswerOK
<1>7. CacheOK'
  BY <1>1, <1>2, <1>3, <1>4, <1>5 DEF CacheOK
<1>8. MidsOK'
  BY <1>1 DEF MidsOK
<1>9. SessionsOK'
  BY <1>1, <1>2, <1>3, <1>5, SessionLater DEF SessionsOK, MidsOK
<1> QED
  BY <1>1, <1>6, <1>7, <1>8, <1>9 DEF PollerInv

LEMMA StepPollFails == PollerInv /\ (PollFails \/ PollMissing) => PollerInv'
<1> SUFFICES ASSUME PollerInv, PollFails \/ PollMissing
            PROVE  PollerInv'
  OBVIOUS
<1>1. /\ tick \in Nat /\ crossed \in BOOLEAN /\ MidsOK /\ AnswerOK /\ CacheOK /\ SessionsOK
      /\ poller' = [at |-> "asleep"] /\ cache' = [cache EXCEPT !.symbol = watched]
      /\ UNCHANGED <<tick, watched, other, session, persisted>>
  BY DEF PollerInv, PollFails, PollMissing, Unpriced, Sleeping, sessionVars
<1>2. poller'.at = "asleep" /\ ~Holds(poller')
  BY <1>1 DEF Holds
<1>3. /\ cache' = [f \in CacheParts |-> cache'[f]] /\ cache'.unheard = cache.unheard
      /\ cache'.price = cache.price /\ cache'.at = cache.at /\ cache'.quoted = cache.quoted
  <2>1. cache = [f \in CacheParts |-> cache[f]] /\ cache' = [cache EXCEPT !.symbol = watched]
    BY <1>1 DEF CacheOK
  <2>2. /\ cache'.price = cache.price /\ cache'.at = cache.at /\ cache'.quoted = cache.quoted
        /\ cache'.unheard = cache.unheard
    BY <2>1 DEF CacheParts
  <2>3. cache' = [f \in CacheParts |-> cache'[f]]
    BY <2>1 DEF CacheParts
  <2> QED
    BY <2>2, <2>3
<1>4. MidsOK' /\ mids'.quoted = mids.quoted /\ UNCHANGED <<quotedMoves, crossed>>
  <2>1. CASE PollFails
    BY <1>1, <2>1 DEF PollFails, MidsOK
  <2>2. CASE PollMissing
    <3>1. /\ mids' = [f \in MidsParts |-> mids'[f]]
          /\ mids'.price = 0 /\ mids'.at \in Nat /\ mids'.quoted = mids.quoted
          /\ UNCHANGED <<quotedMoves, crossed>>
      BY <1>1, <2>2, SavedWithoutGives DEF PollMissing, AnswerOK
    <3> QED
      BY <1>1, <3>1 DEF MidsOK
  <2> QED
    BY <2>1, <2>2
<1>5. AnswerOK'
  BY <1>2 DEF AnswerOK
<1>6. CacheOK'
  BY <1>1, <1>2, <1>3, <1>4 DEF CacheOK
<1>7. SessionsOK'
  <2>1. /\ mids.quoted \in Nat /\ cache.quoted \in Nat /\ crossed \in BOOLEAN
        /\ mids'.quoted = mids.quoted /\ cache'.price = cache.price /\ cache'.quoted = cache.quoted
        /\ ~Holds(poller') /\ UNCHANGED <<session, persisted, quotedMoves, crossed>>
    BY <1>1, <1>2, <1>3, <1>4 DEF MidsOK, CacheOK
  <2>2. SessionsOK
    BY <1>1
  <2> QED
    BY ONLY <2>1, <2>2, SessionLater DEF SessionsOK
<1> QED
  BY <1>1, <1>4, <1>5, <1>6, <1>7 DEF PollerInv

\* Time passes.
LEMMA StepTickPasses == PollerInv /\ TickPasses => PollerInv'
<1> SUFFICES ASSUME PollerInv, TickPasses
            PROVE  PollerInv'
  OBVIOUS
<1>1. /\ tick \in Nat /\ crossed \in BOOLEAN /\ MidsOK /\ AnswerOK /\ CacheOK /\ SessionsOK /\ tick' = tick + 1
      /\ UNCHANGED <<watched, mids, other, poller, cache, session, persisted, quotedMoves, crossed>>
  BY DEF PollerInv, TickPasses, sessionVars, readerVars
<1>2. AnswerOK'
  BY <1>1 DEF AnswerOK
<1>3. MidsOK'
  BY <1>1 DEF MidsOK
<1>4. CacheOK' /\ SessionsOK'
  BY <1>1 DEF CacheOK, SessionsOK
<1> QED
  BY <1>1, <1>2, <1>3, <1>4 DEF PollerInv

\* The process dies: what it has on disk was earned before.
LEMMA StepProcessDies == PollerInv /\ ProcessDies => PollerInv'
<1> SUFFICES ASSUME PollerInv, ProcessDies
            PROVE  PollerInv'
  OBVIOUS
<1>1. /\ tick \in Nat /\ crossed \in BOOLEAN /\ MidsOK /\ AnswerOK /\ CacheOK /\ SessionsOK
      /\ poller' = [at |-> "asleep"] /\ other' = [at |-> "asleep"] /\ cache' = NoPrice /\ mids' = NoMids(tick)
      /\ session' = NoTrade /\ UNCHANGED <<tick, persisted, quotedMoves, crossed>>
  BY DEF PollerInv, ProcessDies, Sleeping
<1>2. poller'.at = "asleep" /\ other'.at = "asleep" /\ ~Holds(poller')
  BY <1>1 DEF Holds
<1>3. mids' = [f \in MidsParts |-> mids'[f]] /\ mids'.price = 0 /\ mids'.at = 0 /\ mids'.quoted = tick
  BY <1>1, EmptyMids
<1>4. cache' = [f \in CacheParts |-> cache'[f]] /\ cache'.price = 0 /\ cache'.at = 0 /\ cache'.quoted = 0
  BY <1>1, EmptyCache
<1>5. MidsOK'
  BY <1>1, <1>2, <1>3 DEF MidsOK
<1>6. AnswerOK'
  BY <1>2 DEF AnswerOK
<1>7. CacheOK'
  BY <1>1, <1>2, <1>3, <1>4 DEF CacheOK
<1>8. SessionsOK'
  <2>1. SessionAt(session', mids'.quoted, poller', cache', quotedMoves', crossed')
    BY <1>1 DEF SessionAt
  <2>2. mids.quoted \in Nat /\ mids.quoted <= tick
    BY <1>1 DEF MidsOK
  <2>3. SessionAt(persisted', mids'.quoted, poller', cache', quotedMoves', crossed')
    BY <1>1, <1>2, <1>3, <1>4, <2>2, SessionLater DEF SessionsOK
  <2> QED
    BY <2>1, <2>3 DEF SessionsOK
<1> QED
  BY <1>1, <1>5, <1>6, <1>7, <1>8 DEF PollerInv


\* A session's reference, one field at a time.
OfMarket(s, v) == [s EXCEPT !.symbol = v]
AtPrice(s, v) == [s EXCEPT !.entry = v]
QuotedAt(s, v) == [s EXCEPT !.quoted = v]
WithPeak(s, v) == [s EXCEPT !.peak = v]

LEMMA SetMarket ==
  ASSUME NEW s, SessionShape(s), NEW v
  PROVE  LET r == OfMarket(s, v) IN /\ SessionShape(r) /\ r.symbol = v
           /\ r.side = s.side /\ r.entry = s.entry /\ r.quoted = s.quoted /\ r.peak = s.peak
  BY DEF OfMarket, SessionShape, SessionParts
LEMMA SetEntry ==
  ASSUME NEW s, SessionShape(s), NEW v
  PROVE  LET r == AtPrice(s, v) IN /\ SessionShape(r) /\ r.entry = v
           /\ r.side = s.side /\ r.symbol = s.symbol /\ r.quoted = s.quoted /\ r.peak = s.peak
  BY DEF AtPrice, SessionShape, SessionParts
LEMMA SetQuoted ==
  ASSUME NEW s, SessionShape(s), NEW v
  PROVE  LET r == QuotedAt(s, v) IN /\ SessionShape(r) /\ r.quoted = v
           /\ r.side = s.side /\ r.symbol = s.symbol /\ r.entry = s.entry /\ r.peak = s.peak
  BY DEF QuotedAt, SessionShape, SessionParts
LEMMA SetPeak ==
  ASSUME NEW s, SessionShape(s), NEW v
  PROVE  LET r == WithPeak(s, v) IN /\ SessionShape(r) /\ r.peak = v
           /\ r.side = s.side /\ r.symbol = s.symbol /\ r.entry = s.entry /\ r.quoted = s.quoted
  BY DEF WithPeak, SessionShape, SessionParts

\* A reference taken from the cache is of a price that was quoted, and starts
\* without a peak.
LEMMA Referred ==
  ASSUME PollerInv, NEW s, s # NoTrade, SessionAt(s, mids.quoted, poller, cache, quotedMoves, crossed)
  PROVE  SessionAt(WithReference(s), mids.quoted, poller, cache, quotedMoves, crossed) /\ WithReference(s) # NoTrade
<1>1. CASE (s.symbol = watched /\ s.entry > 0) \/ ~Usable(ReferenceAge)
  BY <1>1 DEF WithReference
<1>2. CASE ~((s.symbol = watched /\ s.entry > 0) \/ ~Usable(ReferenceAge))
  <2> DEFINE a == OfMarket(s, watched)
             b == AtPrice(a, cache.price)
             c == QuotedAt(b, cache.quoted)
             d == WithPeak(c, 0)
  <2>1. WithReference(s) = d
    BY <1>2 DEF WithReference, OfMarket, AtPrice, QuotedAt, WithPeak
  <2>2. SessionShape(s) /\ s.side \in {"long", "short"}
    BY DEF SessionAt
  <2>3. SessionShape(a) /\ a.side = s.side
    BY <2>2, SetMarket
  <2>4. SessionShape(b) /\ b.side = s.side /\ b.entry = cache.price
    <3> HIDE DEF a
    <3> QED
      BY <2>3, SetEntry
  <2>5. SessionShape(c) /\ c.side = s.side /\ c.entry = cache.price /\ c.quoted = cache.quoted
    <3> HIDE DEF b
    <3> QED
      BY <2>4, SetQuoted
  <2>6. SessionShape(d) /\ d.side = s.side /\ d.entry = cache.price /\ d.quoted = cache.quoted /\ d.peak = 0
    <3> HIDE DEF c
    <3> QED
      BY <2>5, SetPeak
  <2> HIDE DEF d
  <2>7. Earned(d, quotedMoves, crossed)
    BY <2>6 DEF Earned
  <2>8. /\ cache.price \in Int /\ cache.quoted \in Nat
        /\ cache.quoted <= mids.quoted \/ crossed
        /\ Holds(poller) => cache.quoted <= poller.quoted \/ crossed
    BY DEF PollerInv, CacheOK
  <2>9. SessionAt(d, mids.quoted, poller, cache, quotedMoves, crossed)
    BY <2>2, <2>6, <2>7, <2>8 DEF SessionAt
  <2>10. d # NoTrade
    BY <2>2, <2>6 DEF NoTrade
  <2> QED
    BY <2>1, <2>9, <2>10
<1> QED
  BY <1>1, <1>2

\* What a step of the session leaves of the invariant when it moves neither
\* the poller nor the market.
LEMMA SessionMoves ==
  ASSUME PollerInv, UNCHANGED <<tick, watched, readerVars, poller, cache>>,
         SessionAt(session', mids.quoted, poller, cache, quotedMoves, crossed),
         SessionAt(persisted', mids.quoted, poller, cache, quotedMoves, crossed)
  PROVE  PollerInv'
<1>1. /\ tick \in Nat /\ crossed \in BOOLEAN /\ MidsOK /\ AnswerOK /\ CacheOK
      /\ UNCHANGED <<tick, watched, mids, other, quotedMoves, crossed, poller, cache>>
  BY DEF PollerInv, readerVars
<1>2. AnswerOK'
  BY <1>1 DEF AnswerOK
<1>3. MidsOK'
  BY <1>1 DEF MidsOK
<1>4. CacheOK'
  BY <1>1 DEF CacheOK
<1>5. SessionsOK'
  BY <1>1 DEF SessionsOK
<1> QED
  BY <1>1, <1>2, <1>3, <1>4, <1>5 DEF PollerInv

LEMMA StepOpened == ASSUME NEW side \in {"long", "short"}, PollerInv, Opened(side) PROVE PollerInv'
<1> DEFINE s == Unset(side)
<1>1. /\ session' = WithReference(s) /\ persisted' = session'
      /\ UNCHANGED <<tick, watched, readerVars, poller, cache>>
  BY DEF Opened
<1>2. s.side = side /\ s.entry = 0 /\ s.quoted = 0 /\ s.peak = 0
  BY DEF Unset
<1>3. SessionShape(s)
  BY DEF Unset, SessionShape, SessionParts
<1> HIDE DEF s
<1>4. SessionAt(s, mids.quoted, poller, cache, quotedMoves, crossed)
  BY <1>2, <1>3 DEF SessionAt, Earned, PollerInv, AnswerOK, CacheOK, MidsOK
<1>5. s # NoTrade
  BY <1>2 DEF NoTrade
<1>6. SessionAt(WithReference(s), mids.quoted, poller, cache, quotedMoves, crossed)
  BY <1>4, <1>5, Referred
<1> QED
  BY <1>1, <1>6, SessionMoves

LEMMA StepClosed == PollerInv /\ Closed => PollerInv'
<1> SUFFICES ASSUME PollerInv, Closed
            PROVE  PollerInv'
  OBVIOUS
<1>1. /\ session' = NoTrade /\ persisted' = NoTrade
      /\ UNCHANGED <<tick, watched, readerVars, poller, cache>>
  BY DEF Closed
<1>2. SessionAt(NoTrade, mids.quoted, poller, cache, quotedMoves, crossed)
  BY DEF SessionAt
<1> QED
  BY <1>1, <1>2, SessionMoves

LEMMA StepTakesReference == PollerInv /\ TakesReference => PollerInv'
<1> SUFFICES ASSUME PollerInv, TakesReference
            PROVE  PollerInv'
  OBVIOUS
<1>1. /\ session # NoTrade /\ session' = WithReference(session)
      /\ UNCHANGED <<tick, watched, readerVars, poller, cache, persisted>>
  BY DEF TakesReference
<1>2. /\ SessionAt(session, mids.quoted, poller, cache, quotedMoves, crossed)
      /\ SessionAt(persisted', mids.quoted, poller, cache, quotedMoves, crossed)
  BY <1>1 DEF PollerInv, SessionsOK
<1>3. SessionAt(WithReference(session), mids.quoted, poller, cache, quotedMoves, crossed)
  BY <1>1, <1>2, Referred
<1> QED
  BY <1>1, <1>2, <1>3, SessionMoves

LEMMA StepSavesSession == PollerInv /\ SavesSession => PollerInv'
<1> SUFFICES ASSUME PollerInv, SavesSession
            PROVE  PollerInv'
  OBVIOUS
<1>1. persisted' = session /\ UNCHANGED <<tick, watched, readerVars, poller, cache, session>>
  BY DEF SavesSession
<1>2. SessionAt(session, mids.quoted, poller, cache, quotedMoves, crossed)
  BY DEF PollerInv, SessionsOK
<1> QED
  BY <1>1, <1>2, SessionMoves

LEMMA StepRestores == PollerInv /\ Restores => PollerInv'
<1> SUFFICES ASSUME PollerInv, Restores
            PROVE  PollerInv'
  OBVIOUS
<1>1. /\ session' = IF persisted = NoTrade THEN NoTrade ELSE WithReference(persisted)
      /\ persisted' = session'
      /\ UNCHANGED <<tick, watched, readerVars, poller, cache>>
  BY DEF Restores
<1>2. SessionAt(persisted, mids.quoted, poller, cache, quotedMoves, crossed)
  BY DEF PollerInv, SessionsOK
<1>3. SessionAt(session', mids.quoted, poller, cache, quotedMoves, crossed)
  <2>1. CASE persisted = NoTrade
    BY <1>1, <2>1 DEF SessionAt
  <2>2. CASE persisted # NoTrade
    BY <1>1, <1>2, <2>2, Referred
  <2> QED
    BY <2>1, <2>2
<1> QED
  BY <1>1, <1>3, SessionMoves

\* A peak that rises is the move of the price in the cache, which was quoted
\* after the reference.
LEMMA StepAdjusts == PollerInv /\ PassOK /\ Adjusts => PollerInv'
<1> SUFFICES ASSUME PollerInv, PassOK, Adjusts
            PROVE  PollerInv'
  OBVIOUS
<1>1. /\ UNCHANGED <<tick, watched, readerVars, poller, cache>>
      /\ SessionAt(session, mids.quoted, poller, cache, quotedMoves, crossed)
      /\ SessionAt(persisted, mids.quoted, poller, cache, quotedMoves, crossed)
  BY DEF PollerInv, SessionsOK, Adjusts
<1>2. CASE ~Adjustable
  <2>1. UNCHANGED <<session, persisted>>
    BY <1>2 DEF Adjusts
  <2> QED
    BY <1>1, <2>1, SessionMoves
<1>3. CASE Adjustable
  <2>1. /\ session' = WithPeak(session, Peak)
        /\ persisted' = session' \/ persisted' = persisted
    BY <1>3 DEF Adjusts, WithPeak
  <2>2. session.symbol = watched /\ cache.price > 0
    BY <1>3 DEF Adjustable, Usable
  <2>3. SessionAt(session', mids.quoted, poller, cache, quotedMoves, crossed)
    <3>0. session # NoTrade
      BY DEF PassOK, Adjusts
    <3>1. /\ SessionShape(session) /\ session.side \in {"long", "short"}
          /\ session.entry \in Int /\ session.quoted \in Nat /\ session.peak \in Int
          /\ session.quoted <= mids.quoted \/ crossed
          /\ Holds(poller) => session.quoted <= poller.quoted \/ crossed
          /\ cache.price > 0 => session.quoted <= cache.quoted \/ crossed
          /\ Earned(session, quotedMoves, crossed)
      BY <1>1, <3>0 DEF SessionAt
    <3>2. /\ SessionShape(session') /\ session'.peak = Peak
          /\ session'.side = session.side /\ session'.symbol = session.symbol
          /\ session'.entry = session.entry /\ session'.quoted = session.quoted
      BY <2>1, <3>1, SetPeak
    <3>3. cache.price \in Int /\ cache.quoted \in Nat
      BY DEF PollerInv, CacheOK
    <3>4. Adverse \in Int
      <4>1. PICK m \in Int : m = IF session.side = "long" THEN cache.price - session.entry ELSE -(cache.price - session.entry)
        BY <3>1, <3>3
      <4>2. Adverse = Max({0, m})
        BY <4>1 DEF Adverse, Against
      <4> QED
        BY <4>2, MaxOfTwo
    <3>5. Peak \in {session.peak, Adverse} /\ Peak \in Int
      BY <3>1, <3>4, MaxOfTwo DEF Peak
    <3>6. Earned(session', quotedMoves, crossed)
      <4>1. CASE Peak = session.peak
        BY <3>1, <3>2, <4>1 DEF Earned
      <4>2. CASE Peak = Adverse
        <5>1. PICK q \in quotedMoves : q.symbol = watched /\ q.price = cache.price /\ q.at = cache.quoted
          BY <2>2 DEF PollerInv, CacheOK, WasQuoted
        <5>2. Against(session'.side, q.price - session'.entry) = session'.peak
          BY <3>2, <4>2, <5>1 DEF Adverse
        <5>3. q.symbol = session'.symbol /\ (q.at >= session'.quoted \/ crossed)
          BY <2>2, <3>1, <3>2, <3>3, <5>1
        <5> QED
          BY <5>2, <5>3 DEF Earned
      <4> QED
        BY <3>5, <4>1, <4>2
    <3> QED
      BY <3>1, <3>2, <3>5, <3>6 DEF SessionAt
  <2>4. SessionAt(persisted', mids.quoted, poller, cache, quotedMoves, crossed)
    BY <1>1, <2>1, <2>3
  <2> QED
    BY <1>1, <2>3, <2>4, SessionMoves
<1> QED
  BY <1>2, <1>3

LEMMA NextPass == PollerInv /\ PassOK /\ [PollerNext]_pollerVars => PassOK'
<1> SUFFICES ASSUME PollerInv, PassOK, [PollerNext]_pollerVars, pass' = "priced"
            PROVE  session' # NoTrade
  BY DEF PassOK
<1>1. CASE TakesReference
  BY <1>1, Referred DEF TakesReference, PollerInv, SessionsOK
<1>2. CASE UNCHANGED <<pass, session>>
  BY <1>2 DEF PassOK
<1> QED
  BY <1>1, <1>2 DEF PollerNext, pollerVars, sessionVars, PollStarts, PollServed, PollAsks, PollUnheard, PollQuoted,
     PollWrites, PollFails, PollMissing, Unpriced, OtherAsks, OtherAnswered, OtherFails, Opened, Closed, Adjusts,
     SavesSession, ProcessDies, Restores, TickPasses

LEMMA NextPoller == PollerInv /\ PassOK /\ [PollerNext]_pollerVars => PollerInv'
<1> SUFFICES ASSUME PollerInv, PassOK, [PollerNext]_pollerVars
            PROVE  PollerInv'
  OBVIOUS
<1>1. CASE UNCHANGED pollerVars
  <2>1. UNCHANGED <<tick, watched, readerVars, poller, cache, session, persisted>>
    BY <1>1 DEF pollerVars, readerVars
  <2>2. /\ SessionAt(session', mids.quoted, poller, cache, quotedMoves, crossed)
        /\ SessionAt(persisted', mids.quoted, poller, cache, quotedMoves, crossed)
    BY <2>1 DEF PollerInv, SessionsOK
  <2> QED
    BY <2>1, <2>2, SessionMoves
<1>2. CASE PollerNext
  BY <1>2, StepPollStarts, StepPollServed, StepPollAsks, StepPollUnheard, StepPollWrites, StepPollFails,
     StepPollQuoted, StepOther, StepOpened, StepClosed, StepTakesReference, StepAdjusts, StepSavesSession,
     StepProcessDies, StepRestores, StepTickPasses
     DEF PollerNext
<1> QED
  BY <1>1, <1>2

\* A price in the cache that may be used is as young as it says, but for the
\* time the reader keeps it.
LEMMA PollerInvImplies == PollerInv => FreshPrices /\ PeakEarned
<1> SUFFICES ASSUME PollerInv
            PROVE  FreshPrices /\ PeakEarned
  OBVIOUS
<1>1. ASSUME Loosening > 0 PROVE tick - cache.quoted <= CacheAge + MidsTtl \/ cache.unheard
  <2>1. CASE ~Adjustable
    BY <1>1, <2>1 DEF Loosening
  <2>2. CASE Adjustable
    <3>1. cache.price > 0 /\ tick - cache.at <= CacheAge
      BY <2>2 DEF Adjustable, Usable
    <3>2. /\ tick \in Nat /\ cache.at \in Nat /\ cache.quoted \in Nat
          /\ cache.at <= cache.quoted + MidsTtl \/ cache.unheard
      BY <3>1 DEF PollerInv, CacheOK
    <3>3. CacheAge \in Nat /\ MidsTtl \in Nat
      BY PollerAssumption
    <3> QED
      BY <3>1, <3>2, <3>3
  <2> QED
    BY <2>1, <2>2
<1>2. FreshPrices
  BY <1>1 DEF FreshPrices
<1>3. PeakEarned
  BY DEF PollerInv, SessionsOK, SessionAt, Earned, PeakEarned
<1> QED
  BY <1>2, <1>3

-----------------------------------------------------------------------------
\* A step of the services is a step of each of them, or leaves it alone.
LEMMA ServicesStep ==
  [ServicesNext]_services =>
    /\ [WorkNext]_workVars /\ [DriverNext]_driver /\ [WebNext]_web
    /\ [GraphNext]_graphVars /\ [TrendNext]_trendVars /\ [PollerNext]_pollerVars
  BY DEF ServicesNext, services
\* All start together.
LEMMA ServicesStart ==
  ServicesInit => WorkInit /\ DriverInit /\ WebInit /\ GraphInit /\ TrendInit /\ PollerInit
  BY DEF ServicesInit

\* Nothing superseded comes back, for every number of hosts, attempts, leases,
\* invocations, tiers and failures: no answer rests on a memory that has
\* expired, no transition is committed under an older epoch, and work of a run
\* that has ended does not move.
THEOREM NothingComesBack == ServicesSpec => NothingRevived
<1>1. ServicesInit => WorkInv /\ DriverInv
  BY ServicesStart, InitWork, InitDriver
<1>2. WorkInv /\ DriverInv /\ [ServicesNext]_services => (WorkInv /\ DriverInv)'
  BY ServicesStep, NextWork, NextDriver
<1>3. WorkInv /\ DriverInv /\ [ServicesNext]_services
        => [FreshAnswer]_driver /\ [wrote' >= wrote]_wrote /\ [SealedStep]_folded
  BY ServicesStep, EpochStep, SealStep, FreshStep
<1> QED
  BY <1>1, <1>2, <1>3, PTL
     DEF ServicesSpec, NothingRevived, MemoryStillValid, EpochsNeverFall, Sealed, FreshAnswer, SealedStep

\* An invocation stays inside its limit whatever is retried, downgraded and
\* reserved, and a circuit never waits for a probe that is not on its way,
\* unless a usage observer raised: the driver's part of SpendingSound.
THEOREM CallsSettled == ServicesSpec => [](DriverTypeOK /\ WithinLimit /\ ProbeSettled)
<1>1. ServicesInit => DriverInv
  BY ServicesStart, InitDriver
<1>2. DriverInv /\ [ServicesNext]_services => DriverInv'
  BY ServicesStep, NextDriver
<1> QED
  BY <1>1, <1>2, DriverInvImplies, PTL DEF ServicesSpec

\* The profit the page shows counts every hidden close exactly once, and a
\* rebalance answered as complete has left the position at its target: for
\* every number of requests, resting orders, polls and failures, unless a call
\* raised, another order filled or a poll saved on the way.
THEOREM ShownExactly == ServicesSpec => []TradesExact
<1>1. ServicesInit => WebInv
  BY ServicesStart, InitWeb
<1>2. WebInv /\ [ServicesNext]_services => WebInv'
  BY ServicesStep, NextWeb
<1> QED
  BY <1>1, <1>2, WebInvImplies, PTL DEF ServicesSpec

\* A run that comes back with something to trade went through all seven nodes
\* with a checkpoint committed for each, under a last permit to go on, within
\* the attempts of its durable budget, on reports that are all in and of one
\* side; and an item of work waits for a retry only after a stale attempt.
\* For every set of specialists, answers, budgets and failures of the store,
\* and every number of hosts and leases: the part of WorkSound that says when
\* work may go on.
THEOREM WorkCleared == ServicesSpec => [](Cleared /\ RetryEarned)
<1>1. ServicesInit => WorkInv /\ RetryInv /\ GraphInv
  BY ServicesStart, InitWork, InitRetry, InitGraph
<1>2. WorkInv /\ RetryInv /\ GraphInv /\ [ServicesNext]_services => (WorkInv /\ RetryInv /\ GraphInv)'
  BY ServicesStep, NextWork, NextRetry, NextGraph
<1>3. RetryInv => RetryEarned
  BY DEF RetryInv
<1> QED
  BY <1>1, <1>2, <1>3, GraphInvImplies, PTL DEF ServicesSpec

\* A name stays one market however the building of the catalogue failed, and a
\* soft stop is loosened only by a move that was quoted no earlier than its
\* reference (unless two threads' answers crossed) and by a price no older than
\* the poller's cache and the reader's may be together (unless the exchange did
\* not answer the poll), across crashes and changes of the watched market: the
\* part of MarketHonest that is about time and failures.
THEOREM MarketsKept == ServicesSpec => [](SameMarket /\ FreshPrices /\ PeakEarned)
<1>1. ServicesInit => TrendInv /\ PollerInv /\ PassOK
  <2>1. PollerInit => PassOK
    BY DEF PollerInit, PassOK
  <2> QED
    BY <2>1, ServicesStart, InitTrend, InitPoller
<1>2. TrendInv /\ PollerInv /\ PassOK /\ [ServicesNext]_services => (TrendInv /\ PollerInv /\ PassOK)'
  BY ServicesStep, NextTrend, NextPoller, NextPass
<1> QED
  BY <1>1, <1>2, TrendInvImplies, PollerInvImplies, PTL DEF ServicesSpec
=============================================================================
