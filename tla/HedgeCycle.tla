----------------------------- MODULE HedgeCycle ------------------------------
(***************************************************************************)
(* The funding hedge of one symbol (funding_fee_avoidance): watchers that  *)
(* poll the exchange, a cycle persisted in a state file, and orders on the *)
(* hedge account.                                                          *)
(*                                                                         *)
(* A polling round of a watcher is a sequence of steps between which       *)
(* anything may happen: it loads the stored cycle, reads the position of   *)
(* the hedge account, reads the fate of the cycle's orders, and only then  *)
(* takes the file lock, reconciles, decides, persists its intent and sends *)
(* an order.  Watchers may crash at every step; an order travels on its    *)
(* own and its reply may be lost.                                          *)
(*                                                                         *)
(* The exchange (positions, order statuses, the expiry of an action) is    *)
(* not code of this repository: it is modelled from what executor.py and   *)
(* hyperliquid_adapter.py rely on.  The primary account and the market are *)
(* read-only inputs and take any value of Exposures at every snapshot.     *)
(***************************************************************************)
EXTENDS HedgePolicy, FiniteSets

CONSTANTS Watcher,      \* processes running the watch loop on one state file
          Hours,        \* bound: the settlements that happen
          Exposures,    \* sizes the primary position can have
          LateFills,    \* an order may still land after the account was read again
          MaxFaults,    \* bound: failed reads, lost replies, unfilled orders
          MaxCrashes    \* bound: crashes of watchers

ASSUME HedgeAssumption ==
    /\ Hours \in Nat \ {0}
    /\ Exposures \subseteq Int
    /\ LateFills \in BOOLEAN
    /\ MaxFaults \in Nat
    /\ MaxCrashes \in Nat
    /\ NoCycle \notin [hour : Nat, status : TerminalStatus \cup ActiveStatus,
                       target : Int, closes : Nat, adjusts : Nat,
                       pending : BOOLEAN, pre : Int, confirmed : BOOLEAN]

VARIABLES hour, phase,  \* the wall clock: the hour, and the part of it
          waited,       \* timeouts of the stored cycle that have run out
          cycle,        \* the state file: the cycle stored for the symbol
          pc,           \* where each watcher is in its round
          view,         \* the cycle each watcher loaded at the start of its round
          snap,         \* the snapshot each watcher has taken
          intent,       \* what each watcher has decided under the lock
          position,     \* exchange: signed size of the hedge position
          sent,         \* exchange: orders on their way
          fate,         \* exchange: what became of the orders it has seen
          opened,       \* exchange: hedges opened, for each settlement
          faults, crashes

clockVars == <<hour, phase, waited>>
watcherVars == <<pc, view, snap, intent>>
exchangeVars == <<position, sent, fate, opened>>
vars == <<clockVars, cycle, watcherVars, exchangeVars, faults, crashes>>

-----------------------------------------------------------------------------
Timeout == {"open", "close", "adjust", "funding"}

Now == [hour |-> hour, phase |-> phase, waited |-> waited]

(* stable_cloid: the identity of an order is its cycle, its phase and the  *)
(* attempt.                                                                *)
OpenId(c)   == <<"open", c.hour, 1>>
CloseId(c)  == <<"close", c.hour, c.closes>>
AdjustId(c) == <<"adjust", c.hour, c.adjusts>>

OrderId(c, act) ==
    CASE act = "OPEN"   -> OpenId(c)
      [] act = "CLOSE"  -> CloseId(c)
      [] act = "ADJUST" -> AdjustId(c)

(* orderStatus for one CLOID.                                              *)
Lookup(id) ==
    IF id \notin DOMAIN fate THEN "unknown"
    ELSE IF fate[id] = "filled" THEN "filled" ELSE "canceled"

(* The timeouts that mean something for cycle c: each runs from its own    *)
(* submission, or from the settlement.                                     *)
Runs(t, c) ==
    /\ Active(c)
    /\ CASE t = "open"    -> c.status \in OpeningStatus
         [] t = "close"   -> c.status \in ClosingStatus
         [] t = "adjust"  -> c.pending
         [] t = "funding" -> Settled(c.hour, Now)

BlankSnap ==
    [hour |-> 0, phase |-> "early", final |-> FALSE, pos |-> 0, primary |-> 0,
     allowed |-> 0, unknown |-> FALSE, confirmed |-> FALSE,
     open |-> "none", close |-> "none", adjust |-> "none"]

NoIntent == [act |-> "HOLD", cycle |-> NoCycle, size |-> 0]

(* exclusive_file_lock: held from the reconciliation to the end of the     *)
(* round's transaction.                                                    *)
Holding == {"intend", "armed", "send", "reply"}

LockFree == \A w \in Watcher : pc[w] \notin Holding

Goto(w, l) == pc' = [pc EXCEPT ![w] = l]

(* The end of a round: what the watcher knew is gone.                      *)
EndRound(w) ==
    /\ Goto(w, "idle")
    /\ view' = [view EXCEPT ![w] = NoCycle]
    /\ snap' = [snap EXCEPT ![w] = BlankSnap]
    /\ intent' = [intent EXCEPT ![w] = NoIntent]

Fault == faults < MaxFaults /\ faults' = faults + 1 /\ UNCHANGED crashes

NoFault == UNCHANGED <<faults, crashes>>

(* The first watcher starts ahead of one of the settlements.               *)
Init ==
    /\ hour \in 0..(Hours - 1) /\ phase = "early" /\ waited = {}
    /\ cycle = NoCycle
    /\ pc = [w \in Watcher |-> "idle"]
    /\ view = [w \in Watcher |-> NoCycle]
    /\ snap = [w \in Watcher |-> BlankSnap]
    /\ intent = [w \in Watcher |-> NoIntent]
    /\ position = 0 /\ sent = {} /\ fate = <<>>
    /\ opened = [h \in 0..(Hours - 1) |-> 0]
    /\ faults = 0 /\ crashes = 0

-----------------------------------------------------------------------------
(* A polling round: reading.                                               *)

(* run_once and its refresh begin with the stored cycles, under the lock.  *)
Load(w) ==
    /\ pc[w] \in {"idle", "refresh"}
    /\ LockFree
    /\ view' = [view EXCEPT ![w] = cycle]
    /\ snap' = [snap EXCEPT ![w] = [BlankSnap EXCEPT !.hour = hour,
                                        !.phase = phase,
                                        !.final = pc[w] = "refresh"]]
    /\ Goto(w, "positions")
    /\ NoFault
    /\ UNCHANGED <<clockVars, cycle, intent, exchangeVars>>

(* The positions of both accounts and the market.  For a tracked hedge an  *)
(* unreadable primary counts as flat, and missing market data as a primary *)
(* that owes nothing.                                                      *)
ReadPositions(w) ==
    /\ pc[w] = "positions"
    /\ LateFills \/ sent = {}
    /\ \E p \in Exposures \cup {0} : \E q \in 0..Size(p) :
          snap' = [snap EXCEPT ![w] = [@ EXCEPT !.pos = position, !.primary = p,
                                                !.allowed = q]]
    /\ Goto(w, "orders")
    /\ NoFault
    /\ UNCHANGED <<clockVars, cycle, view, intent, exchangeVars>>

(* The hedge account cannot be read, or nothing is tracked and the rest    *)
(* cannot: there is no snapshot and the round is over.                     *)
ReadFails(w) ==
    /\ pc[w] = "positions"
    /\ Fault
    /\ EndRound(w)
    /\ UNCHANGED <<clockVars, cycle, exchangeVars>>

(* The statuses of the loaded cycle's orders, foreign orders on the        *)
(* account, and the funding record of a settlement that has passed.  Any   *)
(* of the lookups may fail; an order that cannot be looked up is unknown.  *)
ReadOrders(w) ==
    LET c == view[w]
        s == snap[w]
        open == IF c = NoCycle THEN "none" ELSE Lookup(OpenId(c))
        close == IF c = NoCycle \/ c.closes = 0 THEN "none" ELSE Lookup(CloseId(c))
        adjust == IF c = NoCycle \/ ~c.pending THEN "none" ELSE Lookup(AdjustId(c))
        seen(st, failed) == IF failed /\ st # "none" THEN "unknown" ELSE st
    IN  /\ pc[w] = "orders"
        /\ \E unknown \in BOOLEAN,
              confirmed \in {FALSE, Active(c) /\ s.hour > c.hour},
              failed \in SUBSET {"open", "close", "adjust"} :
              /\ snap' = [snap EXCEPT ![w] =
                            [s EXCEPT !.unknown = unknown, !.confirmed = confirmed,
                                      !.open = seen(open, "open" \in failed),
                                      !.close = seen(close, "close" \in failed),
                                      !.adjust = seen(adjust, "adjust" \in failed)]]
              /\ IF failed = {} THEN NoFault ELSE Fault
        /\ view' = [view EXCEPT ![w] = NoCycle]       \* not used again
        /\ Goto(w, IF s.final THEN "process" ELSE "preview")
        /\ UNCHANGED <<clockVars, cycle, intent, exchangeVars>>

(* The preview: process(execute=False) at the time the round began, which  *)
(* stores nothing (timeouts that ran out since then already count here).   *)
(* A new hedge sends the watcher back to read everything again.            *)
Preview(w) ==
    LET s == snap[w]
        then == [hour |-> s.hour, phase |-> s.phase, waited |-> waited]
        r == Reconciled(cycle, s, then)
    IN  /\ pc[w] = "preview"
        /\ LockFree
        /\ IF Decision(r, s, then) = "OPEN"
           THEN /\ Goto(w, "refresh")
                /\ snap' = [snap EXCEPT ![w] = BlankSnap]
           ELSE Goto(w, "process") /\ UNCHANGED snap
        /\ NoFault
        /\ UNCHANGED <<clockVars, cycle, view, intent, exchangeVars>>

-----------------------------------------------------------------------------
(* A polling round: acting, under the lock.                                *)

(* process(execute=True) up to its first flush: the cycle is reconciled    *)
(* and stored, and the decision is taken.                                  *)
Process(w) ==
    LET s == snap[w]
        r == Reconciled(cycle, s, Now)
        d == Decision(r, s, Now)
        size == CASE d = "OPEN"   -> NewCycle(s).target
                  [] d = "ADJUST" -> Sign(-s.pos) * (Size(s.pos) - s.allowed)
                  [] d = "CLOSE"  -> -s.pos
                  [] OTHER        -> 0
    IN  /\ pc[w] = "process"
        /\ LockFree
        /\ cycle' = r
        /\ waited' = {t \in waited : Runs(t, r)}
        /\ IF d = "HOLD" \/ Deferred(r, s, d)
           THEN EndRound(w)
           ELSE /\ Goto(w, "intend")
                /\ intent' = [intent EXCEPT ![w] =
                                 [act |-> d, size |-> size,
                                  cycle |-> Intended(r, s, Now, d)]]
                /\ snap' = [snap EXCEPT ![w] = BlankSnap]
                /\ UNCHANGED view
        /\ NoFault
        /\ UNCHANGED <<hour, phase, exchangeVars>>

(* The intent reaches the state file before anything is sent.  Waiting and *)
(* recovery send nothing; an open is stored twice.                         *)
Intend(w) ==
    LET i == intent[w]
    IN  /\ pc[w] = "intend"
        /\ cycle' = i.cycle
        /\ waited' = {t \in waited : Runs(t, i.cycle)}
                       \ CASE i.act = "OPEN"   -> {"open"}
                            [] i.act = "CLOSE"  -> {"close"}
                            [] i.act = "ADJUST" -> {"adjust"}
                            [] OTHER            -> {}
        /\ IF i.act \in {"WAIT", "RECOVERY"} THEN EndRound(w)
           ELSE /\ Goto(w, IF i.act = "OPEN" THEN "armed" ELSE "send")
                /\ UNCHANGED <<view, snap, intent>>
        /\ NoFault
        /\ UNCHANGED <<hour, phase, exchangeVars>>

(* The second flush of an open: OPEN_SUBMITTED.                            *)
SubmitOpen(w) ==
    /\ pc[w] = "armed"
    /\ cycle' = [intent[w].cycle EXCEPT !.status = "OPEN_SUBMITTED"]
    /\ intent' = [intent EXCEPT ![w].cycle.status = "OPEN_SUBMITTED"]
    /\ Goto(w, "send")
    /\ NoFault
    /\ UNCHANGED <<clockVars, view, snap, exchangeVars>>

(* The executor refuses to send an open once the cutoff has passed.        *)
BeforeCutoff(h) == hour = h /\ phase = "window"

(* Mutants: an open that does not expire at the cutoff, a close that may   *)
(* turn the position.                                                      *)
Order_NoCutoff(c, act, size) ==
    [id |-> OrderId(c, act), hour |-> c.hour, size |-> size,
     reduces |-> act # "OPEN", cutoff |-> FALSE]

Order_NotReduceOnly(c, act, size) ==
    [id |-> OrderId(c, act), hour |-> c.hour, size |-> size,
     reduces |-> FALSE, cutoff |-> act = "OPEN"]

(* set_expires_after: the expiry of an open is cut down to the cutoff.     *)
(* The plain expiry that every action has is one of the ways to be lost.   *)
Order(c, act, size) ==
    [id |-> OrderId(c, act), hour |-> c.hour, size |-> size,
     reduces |-> act # "OPEN", cutoff |-> act = "OPEN"]

Send(w) ==
    LET i == intent[w]
    IN  /\ pc[w] = "send"
        /\ i.act = "OPEN" => BeforeCutoff(i.cycle.hour)
        /\ sent' = sent \cup {Order(i.cycle, i.act, i.size)}
        /\ Goto(w, "reply")
        /\ NoFault
        /\ UNCHANGED <<clockVars, cycle, view, snap, intent, position, fate, opened>>

(* An exception before the order left: the deadline, the leverage call,    *)
(* the price read.  The cycle keeps its status.                            *)
SendRaises(w) ==
    LET i == intent[w]
    IN  /\ pc[w] = "send"
        /\ IF i.act = "OPEN" /\ ~BeforeCutoff(i.cycle.hour) THEN NoFault ELSE Fault
        /\ EndRound(w)
        /\ UNCHANGED <<clockVars, cycle, exchangeVars>>

MyId(w) == OrderId(intent[w].cycle, intent[w].act)

(* The exchange accepted the order, filled in whole or in part.            *)
ReplyAccepted(w) ==
    /\ pc[w] = "reply"
    /\ MyId(w) \in DOMAIN fate /\ fate[MyId(w)] # "refused"
    /\ EndRound(w)
    /\ NoFault
    /\ UNCHANGED <<clockVars, cycle, exchangeVars>>

(* The exchange refused it: nothing was filled.                            *)
Refused(c, act) ==
    CASE act = "OPEN"   -> [c EXCEPT !.status = "ABORTED"]
      [] act = "ADJUST" -> [c EXCEPT !.pending = FALSE, !.pre = 0]
      [] act = "CLOSE"  -> [c EXCEPT !.status = "CLOSE_PARTIAL"]

ReplyRefused(w) ==
    LET i == intent[w]
    IN  /\ pc[w] = "reply"
        /\ MyId(w) \in DOMAIN fate /\ fate[MyId(w)] = "refused"
        /\ cycle' = Refused(i.cycle, i.act)
        /\ waited' = {t \in waited : Runs(t, cycle')}
        /\ EndRound(w)
        /\ NoFault
        /\ UNCHANGED <<hour, phase, exchangeVars>>

(* No reply in time: the outcome is ambiguous and the cycle stays as it    *)
(* was submitted.  If the order itself was lost there can be no other end. *)
ReplyLost(w) ==
    /\ pc[w] = "reply"
    /\ IF MyId(w) \notin DOMAIN fate /\ \A o \in sent : o.id # MyId(w)
       THEN NoFault ELSE Fault
    /\ EndRound(w)
    /\ UNCHANGED <<clockVars, cycle, exchangeVars>>

(* The process dies; the lock goes with it and the state file stays.       *)
Crash(w) ==
    /\ pc[w] # "idle"
    /\ crashes < MaxCrashes
    /\ crashes' = crashes + 1
    /\ EndRound(w)
    /\ UNCHANGED <<clockVars, cycle, exchangeVars, faults>>

-----------------------------------------------------------------------------
(* The exchange.                                                           *)

Decided(o, f) ==
    /\ sent' = sent \ {o}
    /\ fate' = [x \in DOMAIN fate \cup {o.id} |->
                  IF x = o.id THEN f ELSE fate[x]]

(* How much of an order can be filled: a reduce-only order never adds to   *)
(* the position or turns it.                                               *)
Fillable(o) ==
    IF ~o.reduces THEN Size(o.size)
    ELSE IF Sign(o.size) # -Sign(position) THEN 0
    ELSE IF Size(o.size) < Size(position) THEN Size(o.size) ELSE Size(position)

(* An action past its expiry is void.                                      *)
Void(o) == o.cutoff /\ ~BeforeCutoff(o.hour)

(* An immediate-or-cancel order is filled as far as it can be ...          *)
Fill(o) ==
    /\ o \in sent /\ ~Void(o) /\ Fillable(o) > 0
    /\ position' = position + Sign(o.size) * Fillable(o)
    /\ opened' = IF o.reduces THEN opened
                 ELSE [opened EXCEPT ![o.hour] = @ + 1]
    /\ Decided(o, "filled")
    /\ NoFault
    /\ UNCHANGED <<clockVars, cycle, watcherVars>>

(* ... or only in part, and the rest is cancelled ...                      *)
FillPart(o) ==
    /\ o \in sent /\ ~Void(o)
    /\ \E q \in 1..(Fillable(o) - 1) :
          position' = position + Sign(o.size) * q
    /\ opened' = IF o.reduces THEN opened
                 ELSE [opened EXCEPT ![o.hour] = @ + 1]
    /\ \E f \in {"filled", "cut"} : Decided(o, f)
    /\ Fault
    /\ UNCHANGED <<clockVars, cycle, watcherVars>>

(* ... or refused ...                                                      *)
Refuse(o) ==
    /\ o \in sent
    /\ IF Void(o) \/ Fillable(o) = 0 THEN NoFault ELSE Fault
    /\ Decided(o, "refused")
    /\ UNCHANGED <<clockVars, cycle, watcherVars, position, opened>>

(* ... or it never arrives.                                                *)
Lose(o) ==
    /\ o \in sent
    /\ Fault
    /\ sent' = sent \ {o}
    /\ UNCHANGED <<clockVars, cycle, watcherVars, position, fate, opened>>

-----------------------------------------------------------------------------
(* Time.                                                                   *)

(* The hour passes from outside the opening window to the window, to the   *)
(* stretch after the cutoff, to the settlement and the next hour.          *)
Tick ==
    /\ hour < Hours
    /\ \/ phase = "early"  /\ phase' = "window" /\ UNCHANGED hour
       \/ phase = "window" /\ phase' = "late"   /\ UNCHANGED hour
       \/ phase = "late"   /\ phase' = "early"  /\ hour' = hour + 1
    /\ NoFault
    /\ UNCHANGED <<waited, cycle, watcherVars, exchangeVars>>

(* A timeout of the stored cycle runs out.                                 *)
Elapse(t) ==
    /\ Runs(t, cycle)
    /\ t \notin waited
    /\ waited' = waited \cup {t}
    /\ NoFault
    /\ UNCHANGED <<hour, phase, cycle, watcherVars, exchangeVars>>

-----------------------------------------------------------------------------
Round(w) ==
    \/ Load(w) \/ ReadPositions(w) \/ ReadOrders(w) \/ Preview(w)
    \/ Process(w) \/ Intend(w) \/ SubmitOpen(w) \/ Send(w)
    \/ ReplyAccepted(w) \/ ReplyRefused(w)

RoundFails(w) == ReadFails(w) \/ SendRaises(w) \/ ReplyLost(w)

Exchange(o) == Fill(o) \/ FillPart(o) \/ Refuse(o) \/ Lose(o)

Next ==
    \/ \E w \in Watcher : Round(w) \/ RoundFails(w) \/ Crash(w)
    \/ \E o \in sent : Exchange(o)
    \/ Tick
    \/ \E t \in Timeout : Elapse(t)

Spec == Init /\ [][Next]_vars

(* The watch loop polls for ever, time passes, and the exchange deals with *)
(* every order that reaches it.                                            *)
FairSpec ==
    /\ Spec
    /\ \A w \in Watcher : WF_vars(Round(w) \/ RoundFails(w))
    /\ WF_vars(\E o \in sent : Exchange(o))
    /\ WF_vars(Tick)
    /\ \A t \in Timeout : WF_vars(Elapse(t))

-----------------------------------------------------------------------------
(* Properties.                                                             *)

Cycle == [hour : 0..(Hours - 1), status : TerminalStatus \cup ActiveStatus,
          target : Int, closes : Nat, adjusts : Nat,
          pending : BOOLEAN, pre : Int, confirmed : BOOLEAN]

Snapshot == [hour : 0..Hours, phase : {"early", "window", "late"},
             final : BOOLEAN, pos : Int, primary : Int, allowed : Nat,
             unknown : BOOLEAN, confirmed : BOOLEAN,
             open : OrderStatus, close : OrderStatus, adjust : OrderStatus]

Acts == {"OPEN", "ADJUST", "CLOSE", "WAIT", "RECOVERY"}

(* The shape of every variable; in particular whatever is stored is a      *)
(* cycle of a settlement that happens, and a watcher that has decided to   *)
(* act has a cycle to act on (process never dereferences an absent one).   *)
TypeOK ==
    /\ hour \in 0..Hours /\ phase \in {"early", "window", "late"}
    /\ waited \subseteq Timeout
    /\ cycle \in Cycle \cup {NoCycle}
    /\ pc \in [Watcher -> {"idle", "refresh", "positions", "orders", "preview",
                           "process"} \cup Holding]
    /\ view \in [Watcher -> Cycle \cup {NoCycle}]
    /\ snap \in [Watcher -> Snapshot]
    /\ intent \in [Watcher -> [act : Acts, cycle : Cycle, size : Int]
                                \cup {NoIntent}]
    /\ \A w \in Watcher : pc[w] \in Holding => intent[w] # NoIntent
    /\ position \in Int
    /\ \A o \in sent : o.hour \in 0..(Hours - 1) /\ o.size \in Int
    /\ opened \in [0..(Hours - 1) -> Nat]
    /\ faults \in 0..MaxFaults /\ crashes \in 0..MaxCrashes

(* README: an ambiguous answer never leads to a blind second open.  At     *)
(* most one hedge is opened against a settlement, whatever is lost, late,  *)
(* repeated by another watcher or interrupted by a crash.                  *)
OneOpenPerSettlement == \A h \in 0..(Hours - 1) : opened[h] <= 1

(* What is at risk on the hedge account never exceeds the one hedge the    *)
(* stored cycle was opened for, and it never points the other way.         *)
WithinTarget ==
    position # 0 =>
        /\ cycle # NoCycle
        /\ Sign(position) = Sign(cycle.target)
        /\ Size(position) <= Size(cycle.target)

(* A live hedge belongs to an active cycle, so some round will close it.   *)
Tracked == position # 0 => Active(cycle)

(* A cycle is COMPLETED only when its hedge is gone for good: the account  *)
(* is flat and no valid open is on its way.                                *)
CompletedIsFlat ==
    cycle # NoCycle /\ cycle.status = "COMPLETED" =>
        position = 0 /\ \A o \in sent : o.reduces \/ Void(o)

(* A finished cycle stays as it is until a later settlement replaces it.   *)
FinishedStays ==
    [][cycle # NoCycle /\ ~Active(cycle) =>
          cycle' = cycle \/ (cycle' # NoCycle /\ cycle'.hour > cycle.hour)]_vars

(* Exposure is only ever added inside the opening window of the settlement *)
(* it is meant for: a slow request never opens a hedge after the cutoff.   *)
OpensInTime ==
    [][Size(position') > Size(position) =>
          phase = "window" /\ cycle # NoCycle /\ cycle.hour = hour]_vars

(* Every cycle comes to an end.                                            *)
CyclesEnd == Active(cycle) ~> ~Active(cycle)

(* "an opened hedge is managed to flat": the reason the command line gives *)
(* for running live only as a watch loop.                                  *)
ManagedToFlat == (position # 0) ~> (position = 0)
=============================================================================
