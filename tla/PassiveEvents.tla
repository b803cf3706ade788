--------------------------- MODULE PassiveEvents ---------------------------
(***************************************************************************)
(* The trading agent's queue of passive events: market_agent/              *)
(* agent_passive_events.py and the prefetch part of                        *)
(* agent_execution_loop.py.                                                *)
(*                                                                         *)
(* New events are polled in batches, sorted into those that arrived in     *)
(* time (fresh) and too late (stale), and judged by a model call on a      *)
(* worker thread while the loop goes on.  One call runs at a time; what    *)
(* arrives meanwhile waits in one of three places, each of which holds the *)
(* latest batch only:                                                      *)
(*                                                                         *)
(*   waiting  _passive_event_judge_queued_event: judged after the running  *)
(*            call, whose result is then discarded                         *)
(*   fresh    queued_fresh_after_stale_events: judged after a stale batch  *)
(*   fallback queued_passive_event: an event no call could be started for  *)
(***************************************************************************)
EXTENDS Playbook, Sequences

CONSTANTS
  Confs,        \* confidences the judge gives
  TradeGate,    \* _passive_trade_confidence_threshold
  MaxEvents     \* bound: events published and not yet polled

\* The judge's confidence is clamped before it is compared or kept.
ASSUME EventsAssumption == Confs \subseteq Percent /\ MaxEvents \in Nat

VARIABLES
  inbox,        \* published, not polled: how many of each kind
  future,       \* the running or finished judge call, or Idle
  waiting, fresh, fallback,
  ready,        \* the judged event the loop acts on in this pass
  started       \* a call was started in this pass

passive == <<inbox, future, waiting, fresh, fallback, ready, started>>

Kinds == {"fresh", "stale"}
NoBatch == [kind |-> "none", n |-> 0]
Batches == [kind : Kinds, n : 1..MaxEvents]
NoResult == [rel |-> "none", act |-> "no_trade", conf |-> 0, kind |-> "none"]
Failed(kind) == [rel |-> "failed", act |-> "no_trade", conf |-> 0, kind |-> kind]
Judged(kind) ==
  [rel : {"relevant"}, act : Sides \cup {"no_trade"}, conf : Confs, kind : {kind}]
    \cup {[rel |-> r, act |-> "no_trade", conf |-> 0, kind |-> kind] : r \in {"unrelated", "duplicate"}}
Idle == [st |-> "idle", batch |-> NoBatch, res |-> NoResult]

PassiveTypeOK ==
  /\ inbox \in [Kinds -> 0..MaxEvents]
  /\ future.st \in {"idle", "running", "done"}
  /\ {future.batch, waiting, fresh} \subseteq Batches \cup {NoBatch}
  /\ fallback \in Kinds \cup {"none"}
  /\ {future.res, ready} \subseteq {NoResult} \cup UNION {Judged(k) \cup {Failed(k)} : k \in Kinds}
  /\ started \in BOOLEAN

PassiveInit ==
  /\ inbox = [k \in Kinds |-> 0]
  /\ future = Idle /\ waiting = NoBatch /\ fresh = NoBatch /\ fallback = "none"
  /\ ready = NoResult /\ started = FALSE

-----------------------------------------------------------------------------
(* The event a judged batch is reduced to: a relevant one before an        *)
(* unrelated one before a duplicate, then the surest, then the latest; the *)
(* last one when every call failed.                                        *)
Rank(r) == CASE r.rel = "relevant" -> 3 [] r.rel = "unrelated" -> 2
             [] r.rel = "duplicate" -> 1 [] r.rel = "failed" -> 0
Before(rs, i, j) == \/ Rank(rs[i]) < Rank(rs[j])
                    \/ Rank(rs[i]) = Rank(rs[j]) /\ rs[i].conf < rs[j].conf
                    \/ Rank(rs[i]) = Rank(rs[j]) /\ rs[i].conf = rs[j].conf /\ i <= j
Best(rs) == rs[CHOOSE j \in DOMAIN rs : \A i \in DOMAIN rs : Before(rs, i, j)]

Running(b) == [st |-> "running", batch |-> b, res |-> NoResult]

(* Start judging a batch, behind the running call if there is one.  The    *)
(* request cannot be built while no symbol is selected.                    *)
StartFails(b) == future.st # "running" /\ fallback' = b.kind /\ UNCHANGED <<future, waiting>>
Starts(b) ==
  /\ started' = TRUE
  /\ IF future.st = "running"
     THEN waiting' = b /\ UNCHANGED future
     ELSE future' = Running(b) /\ UNCHANGED waiting

-----------------------------------------------------------------------------
(* Watchers publish, without end.                                          *)
Publish(k) ==
  /\ inbox["fresh"] + inbox["stale"] < MaxEvents
  /\ inbox' = [inbox EXCEPT ![k] = @ + 1]
  /\ UNCHANGED <<future, waiting, fresh, fallback, ready, started>>

(* The judge threads finish: every event of the batch is judged or fails.  *)
JudgeDone ==
  /\ future.st = "running"
  /\ \E rs \in [1..future.batch.n -> Judged(future.batch.kind) \cup {Failed(future.batch.kind)}] :
       future' = [future EXCEPT !.st = "done", !.res = Best(rs)]
  /\ UNCHANGED <<inbox, waiting, fresh, fallback, ready, started>>

(* A result is acted on if its event was in time and, being relevant, is   *)
(* sure enough to trade.                                                   *)
Blocked(r) == \/ r.kind = "stale"
              \/ r.rel = "relevant" /\ (r.act = "no_trade" \/ r.conf < TradeGate)

(* _consume_ready_passive_event_judge_prefetch and the gates after it.  A  *)
(* waiting batch is judged next and the result discarded; otherwise a      *)
(* blocked result makes room for the fresh batch that came with a stale    *)
(* one.                                                                    *)
ConsumeWaiting ==
  /\ future.st = "done" /\ waiting # NoBatch
  /\ waiting' = NoBatch /\ ready' = NoResult /\ started' = FALSE
  /\ \/ future' = Running(waiting)
     \/ future' = Idle
  /\ UNCHANGED <<inbox, fresh, fallback>>

ConsumeReady ==
  /\ future.st = "done" /\ waiting = NoBatch /\ ~Blocked(future.res)
  /\ future' = Idle /\ ready' = future.res /\ started' = FALSE
  /\ UNCHANGED <<inbox, waiting, fresh, fallback>>

ConsumeBlocked ==
  /\ future.st = "done" /\ waiting = NoBatch /\ Blocked(future.res)
  /\ ready' = NoResult /\ fresh' = NoBatch
  /\ IF fresh = NoBatch
     THEN future' = Idle /\ started' = FALSE /\ UNCHANGED fallback
     ELSE \/ future' = Running(fresh) /\ started' = TRUE /\ UNCHANGED fallback
          \/ future' = Idle /\ started' = FALSE /\ fallback' = fresh.kind
  /\ UNCHANGED <<inbox, waiting>>

ConsumeNothing ==
  /\ future.st # "done"
  /\ ready' = NoResult /\ started' = FALSE
  /\ UNCHANGED <<inbox, future, waiting, fresh, fallback>>

Consume == ConsumeWaiting \/ ConsumeReady \/ ConsumeBlocked \/ ConsumeNothing

(* The poll: new events discard the result this pass had ready.  With      *)
(* stale and fresh ones the stale batch goes first and the fresh one is    *)
(* kept for after it.                                                      *)
Polled == [k \in Kinds |-> [kind |-> k, n |-> inbox[k]]]
PollBatch ==
  LET first == IF inbox["stale"] > 0 THEN Polled["stale"] ELSE Polled["fresh"]
  IN /\ inbox["fresh"] + inbox["stale"] > 0
     /\ inbox' = [k \in Kinds |-> 0] /\ ready' = NoResult
     /\ fresh' = IF inbox["fresh"] > 0 /\ inbox["stale"] > 0 THEN Polled["fresh"] ELSE fresh
     /\ \/ Starts(first) /\ fallback' = "none"
        \/ StartFails(first) /\ UNCHANGED started

PollNothing == inbox["fresh"] + inbox["stale"] = 0 /\ UNCHANGED passive
Poll == PollBatch \/ PollNothing

(* The loop leaves everything but events alone while this holds.           *)
\* Mutant: a batch kept for later counts as a call in flight.
InFlight_KeptFresh == started \/ future.st = "running" \/ ready # NoResult \/ fresh # NoBatch
InFlight == started \/ future.st = "running" \/ ready # NoResult
=============================================================================
