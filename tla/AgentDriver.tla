---------------------------- MODULE AgentDriver ----------------------------
(***************************************************************************)
(* One bounded model invocation: AgentDriver.execute                       *)
(* (market_agent/workflow_agent_driver.py) with the retry policy, the      *)
(* fallback policy and the circuit breaker it drives                       *)
(* (workflow_retry_policy.py, workflow_fallback.py,                        *)
(* workflow_circuit_breaker.py).                                           *)
(*                                                                         *)
(* Several invocations share one driver, so they share its circuits, one   *)
(* per model tier, and its answer cache.  The clock may advance at every   *)
(* callback: the provider, the usage observer, the audit observer and the  *)
(* verification hook all run inside the invocation.                        *)
(***************************************************************************)
EXTENDS Integers

CONSTANTS
  Calls,         \* invocations of the driver
  TopTier,       \* tiers are 1..TopTier, the strongest last
  Cost,          \* Cost[t]: what an attempt on tier t reserves
  CostLimit,     \* what an invocation may spend
  MaxTries,      \* attempts of an invocation
  TierTries,     \* attempts RetryPolicy grants on one tier
  Deadline,      \* of every invocation
  MemoryUntil,   \* the memory summary is valid before this time
  Threshold, Cooldown,   \* of the circuit breaker
  MaxClock,      \* bound: time
  MaxMishaps     \* bound: observers that raise

Tiers == 1..TopTier

ASSUME DriverAssumption ==
  /\ TopTier \in Nat \ {0} /\ Cost \in [Tiers -> Nat] /\ {Threshold, TierTries} \subseteq Nat \ {0}
  /\ {CostLimit, MaxTries, Deadline, MemoryUntil, Cooldown, MaxClock, MaxMishaps} \subseteq Nat

VARIABLES
  now,       \* the driver's clock
  circuit,   \* circuit[t]: status, consecutive failures, time of opening
  call,      \* call[c]: the _Run of invocation c and where it stands
  stored,    \* what the answer cache holds: nothing, or an answer and its origin
  lostProbes,      \* ghost: tiers whose probe ended with the usage observer raising
  mishaps

driver == <<now, circuit, call, stored, lostProbes, mishaps>>

Memories == {"none", "valid", "barred"}   \* barred: a summary that was not admitted
Answers == {"cache", "model", "host", "failed"}   \* host: local knowledge or "unknown"

NewCall == [at |-> "received", tier |-> TopTier, memory |-> "none", tried |-> 0, onTier |-> 0,
            spent |-> 0, paid |-> 0, probe |-> FALSE, used |-> FALSE, answer |-> "none"]

DriverTypeOK ==
  /\ now \in 0..MaxClock /\ mishaps \in 0..MaxMishaps /\ lostProbes \subseteq Tiers
  /\ circuit \in [Tiers -> [status : {"closed", "open", "half_open"},
                            failures : 0..Threshold, opened : 0..MaxClock]]
  /\ stored \in {"none", "free", "memory"}
  /\ \A c \in Calls :
       /\ call[c].tier \in Tiers /\ call[c].memory \in Memories
       /\ call[c].tried \in 0..MaxTries /\ call[c].onTier \in 0..TierTries
       /\ call[c].spent \in Nat
       /\ call[c].at = "ended" <=> call[c].answer \in Answers

DriverInit ==
  /\ now = 0 /\ stored = "none" /\ lostProbes = {} /\ mishaps = 0
  /\ circuit = [t \in Tiers |-> [status |-> "closed", failures |-> 0, opened |-> 0]]
  /\ call = [c \in Calls |-> NewCall]

-----------------------------------------------------------------------------
(* The circuit of a tier.                                                  *)
Admits(t) ==
  \/ circuit[t].status = "closed"
  \/ circuit[t].status = "open" /\ now >= circuit[t].opened + Cooldown
Acquired(t) ==
  IF circuit[t].status = "closed" THEN circuit ELSE [circuit EXCEPT ![t].status = "half_open"]
Recorded(t, success) ==
  LET f == circuit[t].failures + 1
      opened == [circuit EXCEPT ![t].status = "open", ![t].opened = now]
  IN CASE success                             -> [circuit EXCEPT ![t] = [status |-> "closed",
                                                                 failures |-> 0, opened |-> 0]]
       [] ~success /\ circuit[t].status = "half_open" -> opened
       [] ~success /\ circuit[t].status # "half_open" ->
            IF f >= Threshold THEN [opened EXCEPT ![t].failures = Threshold]
            ELSE [circuit EXCEPT ![t].failures = f]

(* _can_call: attempts, time and money left for one more reservation.      *)
CanCall(r) == r.tried < MaxTries /\ now < Deadline /\ r.spent + Cost[r.tier] <= CostLimit

MemoryExpired(r) == r.memory = "valid" /\ now >= MemoryUntil

Ended(r, answer) == [NewCall EXCEPT !.at = "ended", !.answer = answer, !.used = r.used /\ answer \in {"model", "cache"},
                                    !.spent = r.spent, !.paid = r.paid]
Move(c, r) == call' = [call EXCEPT ![c] = r]

(* The next rung: a lower tier, local knowledge, or "unknown".  The usage  *)
(* observer of a host answer may raise.                                    *)
Fallback(r) ==
  IF r.tier > 1
  THEN {[r EXCEPT !.at = "model", !.tier = @ - 1, !.onTier = 0, !.probe = FALSE,
                   !.used = FALSE]}
  ELSE {Ended(r, "host"), Ended(r, "failed")}

Tick ==
  /\ now < MaxClock /\ now' = now + 1
  /\ UNCHANGED <<circuit, call, stored, lostProbes, mishaps>>

-----------------------------------------------------------------------------
(* execute, up to the model: pin, audit, cancellation, memory admission,   *)
(* routing and the answer cache.  A summary in any form keeps the cache    *)
(* out of the invocation; preparing the cache lookup may cost money.       *)
Received(c) ==
  LET r == call[c]
  IN /\ r.at = "received"
     /\ \/ Move(c, Ended(r, "failed"))
        \/ \E t \in Tiers, m \in Memories, fee \in {0, 1} :
             /\ m = "valid" => now < MemoryUntil
             /\ fee > 0 => m = "none"
             /\ LET s == [r EXCEPT !.tier = t, !.memory = m, !.spent = fee, !.paid = fee]
                IN \/ Move(c, [s EXCEPT !.at = "model"])
                   \/ m = "none" /\ stored # "none"
                        /\ Move(c, [Ended(s, "cache") EXCEPT !.used = stored = "memory"])
     /\ UNCHANGED <<now, circuit, stored, lostProbes, mishaps>>

(* The head of _model's loop: cancellation, the budget, the circuit.       *)
Attempt(c) ==
  LET r == call[c] IN
  /\ r.at = "model"
  /\ \/ Move(c, Ended(r, "failed")) /\ UNCHANGED circuit
     \/ /\ ~CanCall(r) \/ ~Admits(r.tier)
        /\ \E s \in Fallback(r) : Move(c, s)
        /\ UNCHANGED circuit
     \/ /\ CanCall(r) /\ Admits(r.tier)
        /\ circuit' = Acquired(r.tier)
        /\ Move(c, [r EXCEPT !.at = "compose", !.probe = circuit[r.tier].status = "open"])
  /\ UNCHANGED <<now, stored, lostProbes, mishaps>>

(* The request is composed and audited, the budget and the deadline are    *)
(* looked at again, and the call is paid for in full before it is made.    *)
\* Mutant: a probe abandoned for lack of budget is not settled.
Abandoned_Unsettled(r) == circuit
Abandoned(r) == IF r.probe THEN Recorded(r.tier, FALSE) ELSE circuit
Dispatch(c) ==
  LET r == call[c] IN
  /\ r.at = "compose"
  /\ \/ /\ mishaps < MaxMishaps /\ mishaps' = mishaps + 1
        /\ circuit' = Abandoned(r) /\ Move(c, Ended(r, "failed"))
     \/ /\ ~CanCall(r)
        /\ circuit' = Abandoned(r) /\ \E s \in Fallback(r) : Move(c, s)
        /\ UNCHANGED mishaps
     \/ /\ CanCall(r)
        /\ Move(c, [r EXCEPT !.at = "invoked", !.tried = @ + 1, !.onTier = @ + 1,
                             !.spent = @ + Cost[r.tier],
                             !.used = r.memory = "valid" /\ now < MemoryUntil])
        /\ UNCHANGED <<circuit, mishaps>>
  /\ UNCHANGED <<now, stored, lostProbes>>

(* The provider raised.  A permanent error proves the provider alive.      *)
ProviderRaises(c) ==
  LET r == call[c] IN
  /\ r.at = "invoked"
  /\ \/ circuit' = Recorded(r.tier, TRUE) /\ Move(c, Ended(r, "failed"))
     \/ /\ circuit' = Recorded(r.tier, FALSE)
        /\ IF CanCall(r) /\ r.onTier < TierTries
           THEN \/ Move(c, [r EXCEPT !.at = "model", !.probe = FALSE, !.used = FALSE])
                \/ Move(c, Ended(r, "failed"))        \* cancelled
                \/ \E s \in Fallback(r) : Move(c, s)   \* the delay would pass the deadline
           ELSE \E s \in Fallback(r) : Move(c, s)
  /\ UNCHANGED <<now, stored, lostProbes, mishaps>>

(* The usage observer raised: the invocation ends and the circuit is not   *)
(* told.                                                                   *)
ObserverRaises(c) ==
  LET r == call[c] IN
  /\ r.at = "invoked" /\ mishaps < MaxMishaps /\ mishaps' = mishaps + 1
  /\ lostProbes' = IF r.probe THEN lostProbes \cup {r.tier} ELSE lostProbes
  /\ Move(c, Ended(r, "failed"))
  /\ UNCHANGED <<now, circuit, stored>>

(* The provider answered: the circuit closes whatever the answer is worth. *)
Responds(c) ==
  LET r == call[c] IN
  /\ r.at = "invoked"
  /\ circuit' = Recorded(r.tier, TRUE)
  /\ \/ Move(c, Ended(r, "failed"))   \* overrun, malformed, cancelled or not audited
     \/ \E exact \in 0..Cost[r.tier] :
          LET s == [r EXCEPT !.spent = @ + exact - Cost[r.tier], !.probe = FALSE]
          IN \/ now >= Deadline /\ \E f \in Fallback(s) : Move(c, f)
             \/ now < Deadline /\ s.used /\ MemoryExpired(s)
                  /\ Move(c, Ended(s, "failed"))
             \/ now < Deadline /\ ~(s.used /\ MemoryExpired(s))
                  /\ Move(c, [s EXCEPT !.at = "validated"])
  /\ UNCHANGED <<now, stored, lostProbes, mishaps>>

(* Each of the remaining stages calls an observer or the verification hook *)
(* and then looks at the memory again.                                     *)
Then(at) == CASE at = "validated" -> "selected" [] at = "selected" -> "verified"
              [] at = "verified" -> "completed" [] at = "completed" -> "ended"
Survives(r) == r.used => ~MemoryExpired(r)
Finish(c) ==
  LET r == call[c] IN
  /\ r.at \in {"validated", "selected", "verified", "completed"}
  /\ Survives(r)
  /\ Move(c, IF Then(r.at) = "ended" THEN Ended(r, "model") ELSE [r EXCEPT !.at = Then(r.at)])
  /\ UNCHANGED <<now, circuit, stored, lostProbes, mishaps>>
Discard(c) ==
  LET r == call[c] IN
  /\ r.at \in {"validated", "selected", "verified", "completed"}
  /\ Move(c, Ended(r, "failed"))       \* expired, not audited or not verified
  /\ UNCHANGED <<now, circuit, stored, lostProbes, mishaps>>

(* _store_safe_response: an accepted answer of an invocation that had no   *)
(* summary may be kept for others.                                         *)
MayStore(r) == r.at = "validated" /\ r.memory = "none"
Store(c) ==
  LET r == call[c] IN
  /\ MayStore(r)
  /\ stored' = IF r.used THEN "memory" ELSE "free"
  /\ Move(c, [r EXCEPT !.at = "selected"])
  /\ UNCHANGED <<now, circuit, lostProbes, mishaps>>

DriverNext ==
  \/ Tick
  \/ \E c \in Calls : \/ Received(c) \/ Attempt(c) \/ Dispatch(c)
                      \/ ProviderRaises(c) \/ ObserverRaises(c) \/ Responds(c)
                      \/ Finish(c) \/ Discard(c) \/ Store(c)

DriverSpec == DriverInit /\ [][DriverNext]_driver

-----------------------------------------------------------------------------
(* A half-open circuit is waiting for a probe that is still on its way:    *)
(* every way an invocation can end settles the probe it took, so a circuit *)
(* cannot reject its tier for ever.  The one exception is a usage observer *)
(* that raises, which _model reports without telling the circuit.          *)
ProbeSettled ==
  \A t \in Tiers : circuit[t].status = "half_open" =>
    \/ t \in lostProbes
    \/ \E c \in Calls : call[c].probe /\ call[c].tier = t /\ call[c].at \in {"compose", "invoked"}

(* Retries, downgrades and reservations together never cost an invocation  *)
(* more than its limit; only the embedding of a cache lookup, which is     *)
(* paid before the budget is looked at, may.                               *)
WithinLimit == \A c \in Calls : call[c].spent <= CostLimit \/ call[c].spent = call[c].paid

(* Output that was conditioned on a memory summary is returned only while  *)
(* the summary is valid, whichever invocation returns it and however many  *)
(* callbacks ran since the provider answered.                              *)
MemoryStillValid ==
  [][\A c \in Calls : call'[c].answer \in {"model", "cache"} /\ call'[c].used
                      /\ call[c].answer = "none" => now < MemoryUntil]_driver
=============================================================================
