----------------------------- MODULE RiskSession -----------------------------
(***************************************************************************)
(* The risk monitor of the trading agent: one live position, its resting   *)
(* take-profit orders at the exchange, the in-memory risk session, its     *)
(* file, and the loop that reconciles them                                 *)
(* (market_agent/agent_risk_session.py, step_risk_session of               *)
(* agent_execution_loop.py, agent_user_fills.py and the start-up restore   *)
(* of agent_materialization.py).                                           *)
(*                                                                         *)
(* One pass of the agent's loop is two actions: Observe drains the fill    *)
(* events and reads the position, Monitor runs the session on what was     *)
(* read.  The exchange may fill resting orders at any time, so also        *)
(* between the two.  Every exchange call of a step may be refused and the  *)
(* process may die after its exchange calls and before its file is         *)
(* written; each such fault costs one unit of a budget.                    *)
(***************************************************************************)
EXTENDS SessionRestore

CONSTANTS MaxSize,     \* size of a new position, in lots
          MaxOid,      \* order identities in use at once
          Settings     \* what a behaviour may meet

ASSUME Bounds ==
    /\ MaxSize \in Nat \ {0} /\ MaxOid \in Nat
    /\ \A s \in Settings :
        /\ s.marks \subseteq Int /\ s.closes \subseteq Int /\ s.bars \subseteq Int
        /\ s.buffers \subseteq Nat /\ s.buffers # {} /\ s.slacks \subseteq 0 .. 4
        /\ s.bases \subseteq {"none", "low", "wide", "slope"}
        /\ s.rules \subseteq {"soft", "basis", "decay", "no_follow", "no_cont"}
        /\ s.faults \subseteq {"cancel", "place", "reduce", "partial", "ws", "lost",
                               "foreign", "die"}
        /\ s.maxFaults \in Nat /\ s.entries \in Nat

VARIABLES
    pos,       \* the position at the exchange, in lots
    orders,    \* exit orders the exchange knows: open, or completely filled
    inbox,     \* fill events in the agent's websocket buffer, by order
    missed,    \* fill events that the websocket did not deliver
    wsUp,      \* _user_fills_ws_is_active
    up,        \* the agent runs
    rs,        \* self.risk_session
    saved,     \* the risk session file
    seen,      \* what the loop read: NoView or the position and the events
    restored,  \* _startup_live_tpsl_restore_attempted
    entries,   \* positions the agent may still open
    budget,    \* faults left
    history,   \* what the agent could not see: foreign, raced, lost, refused,
               \* stray, replayed, crashed (history variable)
    setting    \* one of Settings, and it never changes

vars == <<pos, orders, inbox, missed, wsUp, up, rs, saved, seen, restored, entries,
          budget, history>>

\* The market's values and the ones computed from it.
Marks == setting.marks         \* mark prices a step may see, in ticks
Closes == setting.closes       \* closes of the confirming candle, in ticks
Buffers == setting.buffers     \* stop buffers (minimum, ATR and R based), in ticks
Bars == setting.bars           \* trailing stops a new bar may suggest; NoStop: no new bar
Slacks == setting.slacks       \* what the cross-asset confirmation adds to the stop
Bases == setting.bases         \* basis readings: none, low, wide, slope (wide and rising)

\* The exit rules that are enabled, the faults that may happen and how many,
\* and the positions opened one after the other.
Rules == setting.rules
Faults == setting.faults
MaxFaults == setting.maxFaults
MaxEntries == setting.entries

Oids == 1 .. MaxOid
NoEvents == [o \in Oids |-> 0]
NoView == [none |-> TRUE]
Live(s) == s # NoSession
Resting(s) == s.refs # {}                    \* use_resting_exit_orders
RefOids(s) == IF Live(s) THEN {r.oid : r \in s.refs} ELSE {}
Open(o) == o.left > 0
ById(os, oid) == {o \in os : o.oid = oid}

May(fault) == fault \in Faults /\ budget > 0

-----------------------------------------------------------------------------
(* What a handler leaves behind: the exchange's state, the session, the     *)
(* file, the faults it met, whether a cancel failed, and whether it ended   *)
(* the step.                                                                *)

Now(s) == [pos |-> pos, orders |-> orders, s |-> s, file |-> saved, cost |-> 0,
           stray |-> FALSE, fired |-> FALSE]

\* _persist_risk_session_state
Persist(x) == [x EXCEPT !.file = x.s]
Fire(x) == [x EXCEPT !.fired = TRUE]

\* cancel_reduce_only_tpsl_orders: what is open is cancelled; the call counts
\* as refused when one of the orders was no longer open.  A call that fails
\* outright leaves every order standing.
Standing(os, refs) == {o \in os : ~Open(o) \/ \A r \in refs : r.oid # o.oid}
AllOpen(os, refs) == \A r \in refs : \E o \in os : o.oid = r.oid /\ Open(o)

CancelOrders(x, refs) ==
    {[x |-> [x EXCEPT !.orders = Standing(@, refs)], ok |-> AllOpen(x.orders, refs)]}
    \cup IF refs # {} /\ May("cancel")
         THEN {[x |-> [x EXCEPT !.cost = @ + 1, !.stray = TRUE], ok |-> FALSE]} ELSE {}

\* Order identities that nothing refers to.
Unused(x) == Oids \ ({o.oid : o \in x.orders} \cup RefOids(x.s) \cup RefOids(rs)
                      \cup RefOids(saved))
Lowest(ids) == CHOOSE i \in ids : \A j \in ids : i <= j

\* place_reduce_only_limit_order for every spec, with fresh identities.
NewOrders(x) ==
    LET first == Lowest(Unused(x))
        second == Lowest(Unused(x) \ {first})
        idOf(leg) == IF leg = TP1 \/ TP1 \notin SpecLegs(x.s) THEN first ELSE second
    IN  {[oid |-> idOf(l), leg |-> l, size |-> SpecSize(x.s, l),
          left |-> SpecSize(x.s, l)] : l \in SpecLegs(x.s)}

AsRefs(os) == {[oid |-> o.oid, leg |-> o.leg, size |-> o.left, filled |-> 0] : o \in os}

\* Mutant: the references are dropped and nothing is cancelled.
Forget_NoCancel(x) == {[x EXCEPT !.s.refs = {}]}

\* _cancel_risk_session_resting_orders: the references go first, and the answer
\* of the exchange is ignored.
Forget(x) == {[c.x EXCEPT !.s.refs = {}] : c \in CancelOrders(x, x.s.refs)}

\* _sync_risk_session_resting_orders: cancel, then one order per spec; a
\* refused order cancels the ones already placed and leaves no reference.
Sync(x) ==
    UNION {LET new == NewOrders(y)
           IN  {[y EXCEPT !.orders = @ \cup new, !.s.refs = AsRefs(new)]}
               \cup IF new # {} /\ May("place") THEN {[y EXCEPT !.cost = @ + 1]} ELSE {}
               \cup IF Cardinality(new) = 2 /\ May("place") /\ May("cancel")
                    THEN {[y EXCEPT !.cost = @ + 2, !.stray = TRUE, !.orders = @ \cup
                                    {o \in new : o.leg = TP1}]} ELSE {}
           : y \in Forget(x)}

\* _replace_risk_session(None): the orders are cancelled, the file is removed.
Drop(x) == {Fire(Persist([y EXCEPT !.s = NoSession])) : y \in Forget(x)}

-----------------------------------------------------------------------------
(* Fill events.                                                             *)

Matches(s, ev) == \E r \in s.refs : ev[r.oid] > 0

\* Mutant: the first fill completes a leg.
ProcessFills_FirstFill(x, ev, size, buffer, atrStop) ==
    LET hit == {r \in x.s.refs : ev[r.oid] > 0}
        keys == {r.leg : r \in hit}
        t == [x.s EXCEPT !.executed = @ \cup keys, !.refs = @ \ hit, !.expected = size]
    IN  IF size = 0 THEN Drop([x EXCEPT !.s = t])
        ELSE {Fire(Persist([x EXCEPT !.s = UpdateAfterCompleted(t, keys, buffer, atrStop)]))}

\* _process_risk_session_user_fill_events: the references count their fills;
\* the snapshot's size becomes the expected size.  No order is placed or
\* cancelled: the counterpart (stop-loss) specs are always empty.
ProcessFills(x, ev, size, buffer, atrStop) ==
    LET counted == {[r EXCEPT !.filled = @ + ev[r.oid]] : r \in x.s.refs}
        full == {r \in counted : ev[r.oid] > 0 /\ r.filled >= r.size}
        keys == {r.leg : r \in full}
        t == [x.s EXCEPT !.executed = @ \cup keys, !.refs = counted \ full,
                         !.expected = size]
        y == [x EXCEPT !.s = t]
    IN  IF size = 0 THEN Drop(y)
        ELSE {Fire(Persist([y EXCEPT !.s = UpdateAfterCompleted(t, keys, buffer, atrStop)]))}

\* _reconcile_risk_session_exchange_fill: an order that is gone from the book
\* and whose status says filled counts as a fill of the reference's whole size.
StatusFills(s) ==
    [o \in Oids |-> LET hit == {r \in s.refs : r.oid = o /\ \E x \in orders : x.oid = o /\ ~Open(x)}
                    IN  IF hit = {} THEN 0 ELSE (CHOOSE r \in hit : TRUE).size]

\* _match_risk_session_reduction: the legs, in order, whose sizes add up to
\* the reduction.
ReductionKeys(s, size) ==
    LET sizeOf(leg) == LET hit == {r \in s.refs : r.leg = leg}
                       IN  IF hit = {} THEN 0 ELSE (CHOOSE r \in hit : TRUE).size
        delta == s.expected - size
    IN  IF delta <= 0 THEN {}
        ELSE IF sizeOf(TP1) = delta THEN {TP1}
        ELSE IF sizeOf(TP1) + sizeOf(TP2) = delta
             THEN {r.leg : r \in s.refs} ELSE {}

\* The branch of step_risk_session that takes such a reduction for a hit.
ReductionHit(x, size, buffer, atrStop) ==
    LET keys == ReductionKeys(x.s, size)
        t == [x.s EXCEPT !.executed = @ \cup keys, !.expected = size,
                         !.refs = {r \in @ : r.leg \notin keys}]
    IN  {Fire(Persist([x EXCEPT !.s = UpdateAfterCompleted(t, keys, buffer, atrStop)]))}

-----------------------------------------------------------------------------
(* The exit rules.  Each maps what the rules before it left to the outcomes *)
(* it can have; a rule that was skipped or refused lets the next one try.   *)

\* reduce_position: an immediate-or-cancel order that fills completely, or
\* partly where the book is thin.  Nothing to close counts as accepted.
Fills(x, q) ==
    LET most == Smaller(q, x.pos)
    IN  {[x |-> [x EXCEPT !.pos = @ - most], filled |-> most]}
        \cup IF May("partial")
             THEN {[x |-> [x EXCEPT !.pos = @ - f, !.cost = @ + 1], filled |-> f] :
                      f \in 1 .. (most - 1)}
             ELSE {}

\* The tail of every reducing rule: a refusal restores the orders; otherwise
\* what the order filled is booked against the snapshot (a fill of the resting
\* orders in between does not show), and the plan is adjusted by Done.
ReduceBy(x, size, q, Done(_, _)) ==
    (IF May("reduce") THEN {Persist(y) : y \in Sync([x EXCEPT !.cost = @ + 1])} ELSE {})
    \cup UNION {
        IF f.filled \in {0, size} THEN Drop(f.x)
        ELSE {Fire(Persist(y)) :
                 y \in Sync([f.x EXCEPT !.s = Done([@ EXCEPT !.expected = size - f.filled],
                                                  f.filled)])}
        : f \in Fills(x, q)}

\* The rules that first withdraw the resting orders of some legs; a refused
\* cancel leaves the references and skips the rule.
WithdrawThen(x, legs, Go(_)) ==
    UNION {IF c.ok THEN Go([c.x EXCEPT !.s.refs = {r \in @ : r.leg \notin legs}])
           ELSE {c.x}
           : c \in CancelOrders(x, {r \in x.s.refs : r.leg \in legs})}

\* _maybe_execute_risk_session_soft_stop: no order is withdrawn first.
SoftStop(x, v) ==
    IF "soft" \notin Rules \/ Hit(x.s, TP2) \/ v.close >= ActiveSoftStop(x.s) - v.slack
    THEN {x}
    ELSE (IF May("reduce") THEN {[x EXCEPT !.cost = @ + 1]} ELSE {})
         \cup UNION {IF f.x.pos = 0 THEN Drop(f.x)
                     ELSE {Fire(Persist([f.x EXCEPT !.s.expected = f.x.pos]))}
                     : f \in Fills(x, v.size)}

\* _maybe_execute_risk_session_time_decay_take_profit
BookLeg(s, leg, closed, v) ==
    EarlyTrim(IF leg = TP2 THEN TailLock(s, v.mark) ELSE s, closed, v.buffer, v.atr)

TakeLeg(x, v, leg, q, Booked(_)) ==
    LET done(s, closed) == Booked(BookLeg(s, leg, closed, v))
        go(y) == ReduceBy(y, v.size, q, done)
    IN  WithdrawThen(x, {leg}, go)

Unchanged(s) == s
StopObserving(s) == [s EXCEPT !.observing = FALSE, !.aged = @ \ {"observe"}]

TimeDecayTakeProfit(x, v) ==
    LET y == [x EXCEPT !.s = Mfe(@, v.mark)]
        found == TimeDecay(y.s, v.mark, v.size)
    IN  IF "decay" \notin Rules THEN {x}
        ELSE IF found = {} THEN {y}
        ELSE UNION {TakeLeg(y, v, c[1], c[2], Unchanged) : c \in found}

\* _risk_session_basis_profit_lock_candidate up to its verdict: the basis must
\* stay wide while the observation window runs and its slope must hold.
\* _clear_risk_session_basis_profit_observation saves when it had started.
ObservationEnds(x, v) == x.s.observing /\ (v.mark <= 0 \/ v.basis = "low")
Observed(s, v) == s.observing /\ "observe" \in s.aged /\ v.mark > 0 /\ v.basis = "slope"

ObserveBasis(x, v) ==
    IF ObservationEnds(x, v) THEN Persist([x EXCEPT !.s = StopObserving(@)])
    ELSE IF x.s.observing \/ v.mark <= 0 \/ v.basis = "low" THEN x
    ELSE Persist([x EXCEPT !.s.observing = TRUE])

\* The tail's branch of _maybe_execute_risk_session_basis_profit_lock.
LockTail(x, v) ==
    LET tightened(t) == [StopObserving(x.s) EXCEPT !.trailing = t, !.stop = t,
                                                   !.locked = Larger(@, t)]
        stops == IF Hit(x.s, TP2) THEN TailTighten(x.s, v.mark) ELSE {}
    IN  IF stops = {} THEN {x} ELSE {Fire(Persist([x EXCEPT !.s = tightened(t)])) : t \in stops}

\* Its branch for a leg that is still open.
LockLeg(x, v, leg) ==
    LET q == RemainingTarget(x.s, leg, v.size)
    IN  IF q = 0 THEN {x} ELSE TakeLeg(x, v, leg, q, StopObserving)

\* _maybe_execute_risk_session_basis_profit_lock
BasisProfitLock(x, v) ==
    LET y == [x EXCEPT !.s = Mfe(@, v.mark)]
    IN  IF "basis" \notin Rules \/ v.basis = "none" THEN {y}
        ELSE IF ~Observed(y.s, v) THEN {ObserveBasis(y, v)}
        ELSE IF WorkingLeg(y.s) = {} THEN LockTail(y, v)
        ELSE UNION {LockLeg(y, v, l) : l \in WorkingLeg(y.s)}

\* _maybe_execute_risk_session_tp1_no_follow_through: the size basis and the
\* stop after the trim, and the rule around it.
NoFollowDone(s, closed, v) ==
    SetStop(Retarget([s EXCEPT !.noFollow = TRUE, !.aged = @ \ {"anchor"}],
                     v.size - closed), NoFollowStop, v.buffer)

NoFollowRule(x, v) ==
    LET y == [x EXCEPT !.s = Mfe(@, v.mark)]
        done(s, closed) == NoFollowDone(s, closed, v)
        go(z) == UNION {ReduceBy(z, v.size, q, done) : q \in NoFollowThrough(z.s, v.size)}
    IN  IF "no_follow" \notin Rules THEN {x}
        ELSE IF NoFollowThrough(y.s, v.size) = {} THEN {y}
        ELSE WithdrawThen(y, Legs, go)

\* _maybe_execute_risk_session_tp2_no_continuation: a flattening close leaves
\* the resting orders alone, a trim withdraws them first.
NoContinuationDone(s, closed, v) ==
    LET stop == TightenedStop(s)
    IN  SetStop(Retarget([s EXCEPT !.noCont = TRUE, !.postTp1 = stop],
                         v.size - closed), stop, v.buffer)

NoContinuationRule(x, v) ==
    LET y == [x EXCEPT !.s = Mfe(@, v.mark)]
        done(s, closed) == NoContinuationDone(s, closed, v)
        go(z) == UNION {ReduceBy(z, v.size, q, done) :
                           q \in NoContinuation(z.s, v.mark, v.size)}
    IN  IF "no_cont" \notin Rules THEN {x}
        ELSE IF NoContinuation(y.s, v.mark, v.size) = {} THEN {y}
        ELSE IF v.mark <= TightenedStop(y.s) THEN go(y)
        ELSE WithdrawThen(y, Legs, go)

\* The tail: a new bar may raise the trailing stop, and a close at or below it
\* closes the rest; the answer of the exchange is not looked at.
Tail(x, v) ==
    LET bar == v.atr # NoStop /\ Hit(x.s, TP2)
        y == [x EXCEPT !.s = TrailTo(@, v.atr)]
        moved == IF ~bar THEN {x}
                 ELSE {Persist(z) : z \in IF Resting(y.s) THEN Sync(y) ELSE {y}}
        breached(s) == Hit(s, TP2) /\ s.trailing # NoStop /\ v.close <= s.trailing
    IN  UNION {IF ~breached(z.s) THEN {z}
               ELSE (IF May("reduce") /\ z.pos > 0
                     THEN {Fire([z EXCEPT !.cost = @ + 1, !.s.expected = z.pos])} ELSE {})
                    \cup UNION {IF f.x.pos = 0 THEN Drop(f.x)
                                ELSE {Fire([f.x EXCEPT !.s.expected = f.x.pos])}
                                : f \in Fills(z, z.pos)}
               : z \in moved}

\* One rule after the other, until one ends the step.
Then(xs, v, Rule(_, _)) == {x \in xs : x.fired} \cup UNION {Rule(x, v) : x \in {y \in xs : ~y.fired}}

ApplyRules(x, v) ==
    Then(Then(Then(Then(SoftStop(x, v), v, BasisProfitLock), v, TimeDecayTakeProfit),
              v, NoFollowRule), v, NoContinuationRule)

-----------------------------------------------------------------------------
(* The exchange and the websocket.                                          *)

Events(os) == [i \in Oids |-> LET mine == {o \in os : o.oid = i}
                              IN  IF mine = {} THEN 0
                                  ELSE LET o == CHOOSE o \in mine : TRUE
                                       IN  o.size - o.left]
Plus(e, d) == [i \in Oids |-> e[i] + d[i]]
Only(e, s) == [i \in Oids |-> IF i \in RefOids(s) THEN e[i] ELSE 0]

\* Completely filled orders are kept while somebody may still ask for them.
Kept(os, a, b) == {o \in os : Open(o) \/ o.oid \in RefOids(a) \cup RefOids(b)}

\* A resting take-profit fills, wholly or in part; the nearer price first.
Fill(o, q) ==
    /\ o \in orders /\ Open(o)
    /\ q \in 1 .. Smaller(o.left, pos)
    /\ o.leg = TP2 => \A p \in orders : p.leg = TP1 => ~Open(p)
    /\ pos' = pos - q
    /\ orders' = Kept((orders \ {o}) \cup {[o EXCEPT !.left = @ - q]}, rs, saved)
    /\ LET told == up /\ o.oid \in RefOids(rs)
       IN  /\ inbox' = IF told /\ wsUp THEN [inbox EXCEPT ![o.oid] = @ + q] ELSE inbox
           /\ missed' = IF told /\ ~wsUp THEN [missed EXCEPT ![o.oid] = @ + q] ELSE missed
    /\ history' = IF seen = NoView THEN history ELSE history \cup {"raced"}
    /\ UNCHANGED <<wsUp, up, rs, saved, seen, restored, entries, budget>>

\* Somebody else trades the position, or liquidates it.
ForeignTrade(p) ==
    /\ May("foreign") /\ pos > 0
    /\ p \in 0 .. MaxSize \ {pos}
    /\ pos' = p /\ history' = history \cup {"foreign"} /\ budget' = budget - 1
    /\ UNCHANGED <<orders, inbox, missed, wsUp, up, rs, saved, seen, restored, entries>>

WsDown ==
    /\ up /\ wsUp /\ May("ws")
    /\ wsUp' = FALSE /\ budget' = budget - 1
    /\ UNCHANGED <<pos, orders, inbox, missed, up, rs, saved, seen, restored, entries,
                   history>>

\* _ensure_user_fills_subscription: the snapshot of a new subscription brings
\* the fills that were missed; known ones are recognised by their keys.
WsUp ==
    /\ up /\ ~wsUp
    /\ wsUp' = TRUE /\ inbox' = Plus(inbox, missed) /\ missed' = NoEvents
    /\ history' = IF seen = NoView \/ missed = NoEvents THEN history
                  ELSE history \cup {"raced"}
    /\ UNCHANGED <<pos, orders, up, rs, saved, seen, restored, entries, budget>>

\* Time passes: the timers of the rules run out.
Age(t) ==
    /\ up /\ Live(rs) /\ t \notin rs.aged
    /\ \/ t = "entry" /\ Rules \cap {"decay", "no_follow"} # {}
       \/ t = "anchor" /\ HasAnchor(rs) /\ Rules \cap {"decay", "no_cont"} # {}
       \/ t = "observe" /\ rs.observing
    /\ rs' = [rs EXCEPT !.aged = @ \cup {t}]
    /\ saved' = IF Live(saved) THEN [saved EXCEPT !.aged = @ \cup {t}] ELSE saved
    /\ UNCHANGED <<pos, orders, inbox, missed, wsUp, up, seen, restored, entries, budget,
                   history>>

-----------------------------------------------------------------------------
(* The agent.                                                               *)

\* A handler's outcome takes effect; or the process dies after the exchange
\* calls and before the file is written.
Settle(x) ==
    /\ x.cost <= budget
    /\ pos' = x.pos
    /\ seen' = NoView
    /\ \/ /\ rs' = x.s /\ saved' = x.file /\ budget' = budget - x.cost
          /\ history' = history \cup (IF x.cost > 0 THEN {"refused"} ELSE {})
                               \cup (IF x.stray THEN {"stray"} ELSE {})
          /\ orders' = Kept(x.orders, x.s, x.file)
          /\ UNCHANGED <<wsUp, up, restored>>
       \/ /\ "die" \in Faults /\ x.cost < budget /\ x.file # saved
          /\ rs' = NoSession /\ saved' = saved /\ budget' = budget - x.cost - 1
          /\ orders' = Kept(x.orders, saved, saved)
          /\ up' = FALSE /\ wsUp' = FALSE /\ restored' = FALSE
          /\ history' = history \cup {"crashed"}

\* The loop drains the fill events and then reads the position.
Observe ==
    /\ up /\ seen = NoView
    /\ seen' = [pos |-> pos, ev |-> inbox]
    /\ inbox' = NoEvents
    /\ UNCHANGED <<pos, orders, missed, wsUp, up, rs, saved, restored, entries, budget,
                   history>>

\* A pass that does not reach the session: no session to watch, the poll
\* interval has not passed, a helper reset took the pass, or an exception.
\* The drained events are gone.
Skip ==
    /\ up /\ seen # NoView
    /\ \/ rs = NoSession /\ (restored \/ seen.pos = 0) /\ budget' = budget
       \/ Live(rs) /\ May("lost") /\ budget' = budget - 1
    /\ history' = IF Live(rs) /\ Matches(rs, seen.ev) THEN history \cup {"lost"} ELSE history
    /\ seen' = NoView
    /\ saved' = IF rs = NoSession /\ ~restored THEN NoSession ELSE saved
    /\ orders' = Kept(orders, rs, saved')
    /\ UNCHANGED <<pos, inbox, missed, wsUp, up, rs, restored, entries>>

\* step_risk_session: what the step works on.  The fills that the websocket
\* did not bring are asked for when the size changed or the socket is down,
\* and now and then otherwise.
Changed == seen.pos # rs.expected
WsActive == Resting(rs) /\ wsUp

Monitoring(ask) ==
    /\ up /\ seen # NoView /\ Live(rs)
    /\ Resting(rs) /\ (Changed \/ ~WsActive) => ask
    /\ ask => Resting(rs)
    /\ missed' = IF ask THEN NoEvents ELSE missed
    /\ inbox' = Only(inbox, rs')
    /\ UNCHANGED entries

\* Mutant: what the REST call brought is not looked at.
Pending_NoBackfill(ask) == seen.ev

Pending(ask) == IF ask THEN Plus(seen.ev, missed) ELSE seen.ev

\* The step ends in _process_risk_session_user_fill_events.
TakeFills(ask) ==
    /\ up /\ seen # NoView /\ Live(rs) /\ Matches(rs, Pending(ask))
    /\ \E b \in Buffers, a \in Bars :
          \E x \in ProcessFills(Now(rs), Pending(ask), seen.pos, b, a) : Settle(x)
    /\ Monitoring(ask)

\* ... in _reconcile_risk_session_exchange_fill
Reconcile ==
    /\ up /\ seen # NoView /\ Live(rs) /\ Changed
    /\ ~Matches(rs, Pending(TRUE)) /\ Matches(rs, StatusFills(rs))
    /\ \E b \in Buffers, a \in Bars :
          \E x \in ProcessFills(Now(rs), StatusFills(rs), seen.pos, b, a) : Settle(x)
    /\ Monitoring(TRUE)

\* No fill explains what is seen.
Unexplained(ask) == /\ up /\ seen # NoView /\ Live(rs)
                    /\ ~Matches(rs, Pending(ask))
                    /\ Changed => ~Matches(rs, StatusFills(rs))

\* ... while the websocket is active: the step waits for the event.
AwaitFill ==
    /\ Unexplained(TRUE) /\ WsActive /\ Changed
    /\ Settle(Now(rs))
    /\ Monitoring(TRUE)

\* ... and otherwise: a flat position, a reduction that fits the legs, or a
\* session that is given up.
Classify(ask) ==
    /\ Unexplained(ask) /\ ~WsActive /\ Changed
    /\ \E b \in Buffers, a \in Bars :
          \E x \in IF seen.pos > 0 /\ Resting(rs) /\ ReductionKeys(rs, seen.pos) # {}
                   THEN ReductionHit(Now(rs), seen.pos, b, a) ELSE Drop(Now(rs)) : Settle(x)
    /\ Monitoring(ask)

\* The exit rules at the market's prices; the tail only without the websocket.
Manage(ask, v) ==
    /\ Unexplained(ask) /\ ~Changed
    /\ \E x \in IF seen.pos = 0 THEN Drop(Now(rs))
                ELSE IF WsActive THEN ApplyRules(Now(rs), v)
                ELSE Then(ApplyRules(Now(rs), v), v, Tail) : Settle(x)
    /\ Monitoring(ask)

\* A position is opened and gets its session (_replace_risk_session); the pass
\* that comes before it found the account flat and removed an old file.
Enter(b) ==
    /\ up /\ rs = NoSession /\ saved = NoSession /\ pos = 0 /\ entries > 0 /\ seen = NoView
    /\ \E x \in Sync([Now(NewSession(MaxSize, b)) EXCEPT !.pos = MaxSize]) :
          Settle(Persist(x))
    /\ entries' = entries - 1
    /\ UNCHANGED <<inbox, missed>>

\* The process ends at any point between two steps.
Die ==
    /\ up /\ May("die")
    /\ up' = FALSE /\ wsUp' = FALSE /\ restored' = FALSE /\ budget' = budget - 1
    /\ rs' = NoSession /\ seen' = NoView /\ inbox' = NoEvents /\ missed' = NoEvents
    /\ orders' = Kept(orders, saved, saved)
    /\ history' = history \cup {"crashed"}
    /\ UNCHANGED <<pos, saved, entries>>

\* It starts again with empty fill keys: the first snapshot of the websocket
\* brings every recent fill once more.
Start ==
    /\ ~up
    /\ up' = TRUE /\ wsUp' = TRUE /\ inbox' = Events(orders)
    /\ history' = IF \E o \in orders : Open(o) /\ o.left < o.size
                  THEN history \cup {"replayed"} ELSE history
    /\ UNCHANGED <<pos, orders, missed, rs, saved, seen, restored, entries, budget>>

\* The open orders become the session's references.
Adopted(s, open) == [s EXCEPT !.refs = AsRefs(open)]

\* _maybe_restore_startup_live_tpsl, tried once with a position open; the same
\* pass goes on to the session's step.
Restore(b, a) ==
    /\ up /\ seen # NoView /\ rs = NoSession /\ ~restored /\ seen.pos > 0
    /\ LET open == {o \in orders : Open(o)}
           r == RestoredSession(saved, MaxSize, seen.pos, open, Events(orders), b, a)
           way == Takeover(r.s, open, r.keys)
           taken == Adopted(r.s, open)
       IN  IF saved = NoSession \/ way = "mismatch"
           THEN UNCHANGED <<pos, orders, rs, saved, budget>>
           ELSE \E x \in IF way = "resync" THEN Sync(Now(taken)) ELSE {Now(taken)} :
                   /\ x.cost <= budget
                   /\ pos' = x.pos /\ rs' = x.s /\ saved' = x.s /\ budget' = budget - x.cost
                   /\ orders' = Kept(x.orders, x.s, x.s)
    /\ restored' = TRUE
    /\ UNCHANGED <<inbox, missed, wsUp, up, seen, entries, history>>

Init == /\ setting \in Settings
        /\ pos = 0 /\ orders = {} /\ inbox = NoEvents /\ missed = NoEvents
        /\ wsUp = TRUE /\ up = TRUE /\ rs = NoSession /\ saved = NoSession
        /\ seen = NoView /\ restored = FALSE /\ entries = MaxEntries
        /\ budget = MaxFaults /\ history = {}

Market == [mark : Marks, close : Closes, slack : Slacks, basis : Bases,
           buffer : Buffers, atr : Bars]

Step == \/ \E ask \in BOOLEAN : TakeFills(ask) \/ Classify(ask)
        \/ Reconcile \/ AwaitFill
        \/ \E b \in Buffers, a \in Bars : Restore(b, a)

ManageAt(M) == \E ask \in BOOLEAN, m \in M :
                  up /\ seen # NoView /\ Manage(ask, m @@ [size |-> seen.pos])

Next == \/ \E o \in orders, q \in 1 .. MaxSize : Fill(o, q)
        \/ \E p \in 0 .. MaxSize : ForeignTrade(p)
        \/ WsDown \/ WsUp
        \/ \E t \in {"entry", "anchor", "observe"} : Age(t)
        \/ Observe \/ Skip
        \/ Step \/ ManageAt(Market)
        \/ \E b \in Buffers : Enter(b)
        \/ Die \/ Start

Spec == Init /\ [][Next /\ UNCHANGED setting]_<<vars, setting>>

\* The loop's passes come to an end and the next one begins, and a supervisor
\* starts the process again.
EndPass == up /\ seen # NoView /\ seen' = NoView

FairSpec == Spec /\ WF_vars(Observe) /\ WF_vars(Start) /\ WF_seen(EndPass)

-----------------------------------------------------------------------------
TypeOK ==
    /\ setting \in Settings
    /\ pos \in 0 .. MaxSize
    /\ inbox \in [Oids -> 0 .. 2 * MaxSize] /\ missed \in [Oids -> 0 .. MaxSize]
    /\ wsUp \in BOOLEAN /\ up \in BOOLEAN /\ restored \in BOOLEAN 
    /\ budget \in 0 .. MaxFaults /\ entries \in 0 .. MaxEntries
    /\ \A o \in orders : /\ o.oid \in Oids /\ o.leg \in Legs
                         /\ o.size \in 1 .. MaxSize /\ o.left \in 0 .. o.size
    /\ \A s \in {rs, saved} : Live(s) =>
          /\ s.expected \in 1 .. MaxSize /\ s.basis[2] > 0
          /\ s.executed \subseteq Legs /\ s.hit \subseteq Legs /\ s.legs \subseteq Legs
          /\ \A l \in Legs : s.completed[l] \in 0 .. MaxSize
          /\ \A r \in s.refs : r.oid \in Oids /\ r.size \in 1 .. MaxSize
    /\ ~up => rs = NoSession /\ seen = NoView

-----------------------------------------------------------------------------
(* Correctness.                                                             *)

\* Nothing happened that the agent cannot make sense of.
Sighted == history \cap {"foreign", "raced", "stray", "replayed"} = {}

\* Between two passes, with every fill event handled, the session expects the
\* size that the position has: otherwise its soft stop is suspended
\* (step_risk_session returns early when the size changed).
InStep ==
    (/\ up /\ Live(rs) /\ seen = NoView /\ history = {}
     /\ ~Matches(rs, Plus(inbox, missed)))
    => rs.expected = pos

\* Every exit order that rests at the exchange is one the running session
\* refers to, also after a restart took the orders over.
ExitsTracked ==
    (up /\ Live(rs) /\ Sighted) => \A o \in orders : Open(o) => o.oid \in RefOids(rs)

\* No exit order outlives the position: it would reduce the next one.
NoOrphans ==
    (up /\ rs = NoSession /\ pos = 0 /\ Sighted /\ "crashed" \notin history) => {o \in orders : Open(o)} = {}

\* The exit orders at the exchange, the session that watches them and the
\* position stay together, through partial fills, lost events and restarts.
ExitsMatch == TypeOK /\ InStep /\ ExitsTracked /\ NoOrphans

\* A stage is entered only when its legs have left the position, however the
\* fills were learned of (event, backfill, order status, size, restart).
StageEarned ==
    (Live(rs) /\ Sighted) =>
        LET t(l) == Target(NewSession(MaxSize, 0), l)
        IN  \A l \in rs.hit : pos <= MaxSize - (IF l = TP1 THEN t(TP1) ELSE t(TP1) + t(TP2))

\* Before the tail, the stop that is watched is never below the stop of the
\* stage the plan has reached, less one buffer; a restart sets it anew.
Floor(s) == IF s.noCont THEN NoContinuationStop
            ELSE IF s.noFollow \/ Hit(s, TP1) THEN PostTp1Stop ELSE InitialStop
MostBuffer == CHOOSE b \in Buffers : \A c \in Buffers : c <= b

StageFloor == (Live(rs) /\ ~Hit(rs, TP2)) => ActiveSoftStop(rs) >= Floor(rs) - MostBuffer

\* The stage the session believes in is earned, and its stop is no lower than
\* that stage's.
StagesHonest == StageEarned /\ StageFloor

\* A session is given up only when the position is flat, as long as nothing
\* surprised the agent.
NeverAbandoned == [][(Live(rs) /\ rs' = NoSession /\ up') => (pos' = 0 \/ history' # {})]_vars

\* A file that was written brings the session back.
Resumes == [][(~restored /\ restored' /\ Live(saved)) => Live(rs')]_vars

\* The trailing stop of the tail only moves in the position's favour.
TailNeverLoosens ==
    [][(Live(rs) /\ Live(rs') /\ Hit(rs, TP2) /\ rs.trailing # NoStop)
           => rs'.trailing >= rs.trailing]_vars

\* Where every close is below the stop, a position whose session was saved is
\* closed, through crashes and refused orders, unless a fill was seen twice or
\* not at all.
Falling == \A c \in Closes : c < InitialStop - MostBuffer
Blind == history \cap {"foreign", "raced", "lost", "replayed"} # {}
Stopped == (Falling /\ Live(saved)) ~> (pos = 0 \/ Blind)

\* A position is watched until it is flat: its session is not given up, comes
\* back after a restart, never loosens the tail's stop, and closes the position
\* where the market stays below the stop.
WatchedToFlat == NeverAbandoned /\ Resumes /\ TailNeverLoosens /\ Stopped
=============================================================================
