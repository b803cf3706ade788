---------------------------- MODULE MemoryStore ----------------------------
(***************************************************************************)
(* The long-term memory: the repositories (workflow_memory_sqlite.py and   *)
(* workflow_memory_postgres.py, which carry the same rules), the lifecycle *)
(* worker (workflow_memory_lifecycle.py) and the maintenance loop that     *)
(* runs it (backend/memory_maintenance.py), for one tenant.                *)
(*                                                                         *)
(* Records are append-only and only their lifecycle moves.  Each operation *)
(* of a repository is a transaction, and an atomic step.  A worker plans   *)
(* on a snapshot, applies the plan later, and then clears the outbox of    *)
(* external deletions, each in a step that may fail.  A worker may be      *)
(* built without an artifact store or an adapter, as the deployed one is   *)
(* (container.py): it leaves those tasks in the outbox.                    *)
(***************************************************************************)
EXTENDS Naturals, FiniteSets, Sequences, SequencesExt

CONSTANTS
  Events,        \* event records
  Rule,          \* the revisions of one rule, in order: a sequence of records
  EvidenceOf,      \* Evidence[k]: the events revision k rests on
  Artifact,      \* Artifact[e]: the artifact event e refers to, or "none"
  HeldRecords,          \* records under legal hold, or kept for ever
  Workers,       \* maintenance loops
  Poisoned,      \* outbox tasks whose deletion always raises
  MaxCleanup,    \* tasks a pass of the worker may attempt
  Deployments,   \* what a deployment's workers may be able to delete
  MaxFlips,      \* bound: changes of what the retention policy finds due
  MaxRestarts    \* bound: restarts of a worker's process

Rules == Range(Rule)
Records == Events \cup Rules
Artifacts == {Artifact[e] : e \in Events} \ {"none"}
Tasks == Records \cup Artifacts    \* outbox: a record's derivatives, or an artifact
ASSUME MemoryAssumption ==
  /\ IsFiniteSet(Events) /\ Rule \in Seq(Rules)
  /\ Events \cap Rules = {} /\ Records \cap Artifacts = {}
  /\ \A k \in Rules : EvidenceOf[k] \subseteq Events

VARIABLES
  life,       \* lifecycle of each record
  due,        \* live records the policy would archive (expired, decayed, over capacity)
  graced,     \* records whose grace since the last change has elapsed
  fresh,      \* tasks never attempted
  outbox,     \* the other tasks not done, in the order of their last attempt
  finished,   \* tasks done
  removed,    \* what the workers deleted outside, and nobody uploaded since
  equipped,   \* the kinds of task this deployment can serve
  worker,     \* worker[w]: [at, plan, list, left]
  flips,
  restarts

memory == <<life, due, graced, fresh, outbox, finished, removed, equipped, worker, flips, restarts>>

NoWork == [at |-> "idle", plan |-> {}, list |-> <<>>, left |-> 0]
Pending == fresh \cup Range(outbox)
Live(r) == life[r] \in {"proposed", "active"}
Stored(r) == life[r] \notin {"absent", "purged"}
Position(k) == CHOOSE i \in 1..Len(Rule) : Rule[i] = k
Refs(r) ==
  IF r \in Events THEN {}
  ELSE EvidenceOf[r] \cup IF Position(r) = 1 THEN {} ELSE {Rule[Position(r) - 1]}
Referenced(r) == \E s \in Records : Stored(s) /\ r \in Refs(s)
Latest == LET n == Cardinality({k \in Rules : life[k] # "absent"}) IN IF n = 0 THEN "none" ELSE Rule[n]

MemoryTypeOK ==
  /\ life \in [Records -> {"absent", "proposed", "active", "archived", "tombstoned", "purged"}]
  /\ due \subseteq Records /\ graced \subseteq Records
  /\ Pending \cup finished \subseteq Tasks /\ Pending \cap finished = {}
  /\ fresh \cap Range(outbox) = {}
  /\ IsInjective(outbox) /\ removed \subseteq Pending \cup finished

MemoryInit ==
  /\ life = [r \in Records |-> "absent"] /\ due = {} /\ graced = {} /\ fresh = {} /\ outbox = <<>>
  /\ finished = {} /\ removed = {} /\ equipped \in Deployments
  /\ worker = [w \in Workers |-> NoWork] /\ flips = 0 /\ restarts = 0

-----------------------------------------------------------------------------
(* The writers.  A purged record stays purged, and an artifact that has    *)
(* entered the outbox is not attached again, though it may be uploaded     *)
(* again.  Whether an attached artifact was ever uploaded is not looked at.*)
Upload(a) ==
  /\ a \in removed /\ removed' = removed \ {a}
  /\ UNCHANGED <<life, due, graced, fresh, outbox, finished, equipped, worker, flips, restarts>>
Attachable(a) == a \notin Pending \cup finished
AppendEvent(e) ==
  /\ life[e] = "absent" /\ (Artifact[e] = "none" \/ Attachable(Artifact[e]))
  /\ life' = [life EXCEPT ![e] = "active"]
  /\ UNCHANGED <<due, graced, fresh, outbox, finished, removed, equipped, worker, flips, restarts>>

(* A revision extends the head, and everything it refers to is stored.     *)
ProposeKnowledge(k) ==
  /\ life[k] = "absent" /\ Position(k) = Cardinality({j \in Rules : life[j] # "absent"}) + 1
  /\ \A r \in Refs(k) : Stored(r)
  /\ life' = [life EXCEPT ![k] = "proposed"]
  /\ UNCHANGED <<due, graced, fresh, outbox, finished, removed, equipped, worker, flips, restarts>>

(* Activation: the head only, on active evidence that is not expired; the  *)
(* revision it replaces is archived in the same transaction.               *)
Activated(k) ==
  [r \in Records |-> IF r = k THEN "active"
                     ELSE IF r \in Rules /\ life[r] = "active" THEN "archived" ELSE life[r]]
ActivateKnowledge(k) ==
  /\ life[k] = "proposed" /\ Latest = k
  /\ \A e \in EvidenceOf[k] : life[e] = "active" /\ e \notin due
  /\ life' = Activated(k)
  /\ graced' = graced \ {r \in Records : life'[r] # life[r]}
  /\ UNCHANGED <<due, fresh, outbox, finished, removed, equipped, worker, flips, restarts>>

(* Time passes: the policy changes its mind about a live record, or the    *)
(* grace of another runs out.                                              *)
Reassess(r) ==
  /\ Live(r) /\ flips < MaxFlips /\ flips' = flips + 1
  /\ due' = IF r \in due THEN due \ {r} ELSE due \cup {r}
  /\ UNCHANGED <<life, graced, fresh, outbox, finished, removed, equipped, worker, restarts>>
GraceEnds(r) ==
  /\ life[r] \in {"archived", "tombstoned"} /\ r \notin graced
  /\ graced' = graced \cup {r}
  /\ UNCHANGED <<life, due, fresh, outbox, finished, removed, equipped, worker, flips, restarts>>

-----------------------------------------------------------------------------
(* build_lifecycle_plan: what may move, and where to.                      *)
Movable(r) == r \notin HeldRecords /\ ~Referenced(r)
MovesTo(r) ==
  CASE Live(r) /\ r \in due                      -> "archived"
    [] life[r] = "archived" /\ r \in graced      -> "tombstoned"
    [] life[r] = "tombstoned" /\ r \in graced /\ Latest # r -> "purged"
    [] OTHER                                     -> "none"
EligibleRecords == {<<r, MovesTo(r)>> : r \in {s \in Records : MovesTo(s) # "none" /\ Movable(s)}}

Plan(w) ==
  /\ worker[w].at = "idle"
  /\ worker' = [worker EXCEPT ![w] = [NoWork EXCEPT !.at = "apply", !.plan = EligibleRecords]]
  /\ UNCHANGED <<life, due, graced, fresh, outbox, finished, removed, equipped, flips, restarts>>

(* apply_lifecycle: of the plan, what is still eligible.  A tombstone      *)
(* queues the deletion of its derivatives; the purge of the last event of  *)
(* an artifact queues that of the artifact.                                *)
Queued(moved, after) ==
  {r \in Records : <<r, "tombstoned">> \in moved}
    \cup {a \in Artifacts : /\ \E e \in Events : Artifact[e] = a /\ <<e, "purged">> \in moved
                            /\ \A e \in Events : Artifact[e] = a => after[e] \in {"absent", "purged"}}
After(moved) ==
  [r \in Records |-> IF \E m \in moved : m[1] = r
                     THEN (CHOOSE m \in moved : m[1] = r)[2] ELSE life[r]]
Apply(w) ==
  /\ worker[w].at = "apply"
  /\ \E moved \in {worker[w].plan \cap EligibleRecords} :
       /\ life' = After(moved)
       /\ due' = due \ {m[1] : m \in moved} /\ graced' = graced \ {m[1] : m \in moved}
       /\ fresh' = fresh \cup (Queued(moved, life') \ (Pending \cup finished))
  /\ \E order \in SetToSeqs(fresh') :
       worker' = [worker EXCEPT ![w] = [NoWork EXCEPT !.at = "clean", !.list = order \o outbox,
                                                      !.left = MaxCleanup]]
  /\ UNCHANGED <<outbox, finished, removed, equipped, flips, restarts>>

(* The outbox is served from a list taken once.  A task of a kind the      *)
(* worker has no store or adapter for is passed over.  An attempt is       *)
(* recorded before the deletion, so a task that fails goes to the back.    *)
Serves(t) == (IF t \in Artifacts THEN "artifact" ELSE "derivative") \in equipped
Attempted(t) ==
  fresh' = fresh \ {t} /\ outbox' = Append(RemoveFirst(outbox, t), t)
BeginCleanup(w) ==
  LET t == worker[w].list[1] IN
  /\ worker[w].at = "clean" /\ worker[w].list # <<>> /\ worker[w].left > 0
  /\ IF t \in finished \/ ~Serves(t)
     THEN worker' = [worker EXCEPT ![w].list = Tail(@)] /\ UNCHANGED <<fresh, outbox>>
     ELSE /\ Attempted(t)
          /\ worker' = [worker EXCEPT ![w] = [worker[w] EXCEPT !.at = "delete", !.left = @ - 1]]
  /\ UNCHANGED <<life, due, graced, finished, removed, equipped, flips, restarts>>
Delete(w) ==
  LET t == worker[w].list[1] IN
  /\ worker[w].at = "delete"
  /\ IF t \in Poisoned
     THEN /\ worker' = [worker EXCEPT ![w] = [worker[w] EXCEPT !.at = "clean", !.list = Tail(@)]]
          /\ UNCHANGED removed
     ELSE /\ worker' = [worker EXCEPT ![w].at = "finish"] /\ removed' = removed \cup {t}
  /\ UNCHANGED <<life, due, graced, fresh, outbox, finished, equipped, flips, restarts>>
FinishCleanup(w) ==
  LET t == worker[w].list[1] IN
  /\ worker[w].at = "finish"
  /\ finished' = finished \cup {t} /\ fresh' = fresh \ {t}
  /\ outbox' = RemoveFirst(outbox, t)
  /\ worker' = [worker EXCEPT ![w] = [worker[w] EXCEPT !.at = "clean", !.list = Tail(@)]]
  /\ UNCHANGED <<life, due, graced, removed, equipped, flips, restarts>>

(* The pass ends, or its process is restarted.                             *)
EndPass(w) ==
  /\ worker[w].at = "clean" /\ (worker[w].list = <<>> \/ worker[w].left = 0)
  /\ worker' = [worker EXCEPT ![w] = NoWork]
  /\ UNCHANGED <<life, due, graced, fresh, outbox, finished, removed, equipped, flips, restarts>>
Restart(w) ==
  /\ worker[w].at # "idle" /\ restarts < MaxRestarts /\ restarts' = restarts + 1
  /\ worker' = [worker EXCEPT ![w] = NoWork]
  /\ UNCHANGED <<life, due, graced, fresh, outbox, finished, removed, equipped, flips>>

Pass(w) == Plan(w) \/ Apply(w) \/ BeginCleanup(w) \/ Delete(w) \/ FinishCleanup(w) \/ EndPass(w)

MemoryNext ==
  \/ \E a \in Artifacts : Upload(a)
  \/ \E e \in Events : AppendEvent(e)
  \/ \E k \in Rules : ProposeKnowledge(k) \/ ActivateKnowledge(k)
  \/ \E r \in Records : Reassess(r) \/ GraceEnds(r)
  \/ \E w \in Workers : Pass(w) \/ Restart(w)

(* The maintenance thread of each process keeps coming round.              *)
MemoryFair == \A w \in Workers : WF_memory(Pass(w))
MemorySpec == MemoryInit /\ [][MemoryNext]_memory /\ MemoryFair

-----------------------------------------------------------------------------
(* A stored record refers only to stored records, and an active rule rests *)
(* on active evidence, however plans and appends interleave.               *)
Supported ==
  \A k \in Rules : /\ Stored(k) => \A r \in Refs(k) : Stored(r)
                   /\ life[k] = "active" => \A e \in EvidenceOf[k] : life[e] = "active"

(* One revision of a rule is active at a time.                             *)
OneActive == Cardinality({k \in Rules : life[k] = "active"}) <= 1

(* The artifact of a stored event is not taken away by a deletion that was *)
(* queued, retried or repeated by a second worker.                         *)
ArtifactKept ==
  \A e \in Events : Stored(e) /\ Artifact[e] # "none" => Artifact[e] \notin removed

(* Where the workers have an artifact store, an artifact whose last event  *)
(* was purged is deleted in the end, even if another deletion fails every  *)
(* time, tasks no adapter serves stay in the outbox for good, and a pass   *)
(* may try only a few.                                                     *)
OutboxServed ==
  \A a \in Artifacts \ Poisoned :
    "artifact" \in equipped /\ a \in Pending ~> a \in finished
=============================================================================
