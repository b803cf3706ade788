-------------------------- MODULE HedgeCycleProofs ---------------------------
(***************************************************************************)
(* What the funding hedge guarantees for every number of watchers, hours,  *)
(* faults and crashes, whether or not orders may land late; and, from the  *)
(* section on what is not forgotten on, with one watcher.                  *)
(***************************************************************************)
EXTENDS MCHedge, TLAPS

USE HedgeAssumption

(***************************************************************************)
(* Type correctness needs two facts more: the opening window exists only   *)
(* in an hour that has a settlement, and a watcher sends only what can be  *)
(* sent.                                                                   *)
(***************************************************************************)

ClockOK == phase # "early" => hour < Hours

ActOK ==
    \A w \in Watcher :
        /\ pc[w] = "armed" => intent[w].act = "OPEN"
        /\ pc[w] \in {"send", "reply"} => intent[w].act \in {"OPEN", "ADJUST", "CLOSE"}

TypeInv == TypeOK /\ ClockOK /\ ActOK

Moment == [hour : 0..Hours, phase : {"early", "window", "late"},
           waited : SUBSET Timeout]

Status == TerminalStatus \cup ActiveStatus

\* A stored cycle is not the absent one.
LEMMA CycleIsNotNone == NoCycle \notin Cycle
  BY DEF Cycle

\* The signed arithmetic of the policy stays within the integers.
LEMMA SizeTypes ==
  ASSUME NEW n \in Int
  PROVE  Size(n) \in Nat /\ Sign(n) \in {-1, 0, 1}
  BY DEF Size, Sign

\* A new status leaves a cycle of the same settlement.
LEMMA StatusUpdate ==
  ASSUME NEW c \in Cycle, NEW st \in Status
  PROVE  /\ [c EXCEPT !.status = st] \in Cycle
         /\ [c EXCEPT !.status = st].hour = c.hour
         /\ [c EXCEPT !.status = st].status = st
  BY DEF Cycle, Status

\* So does the end of an adjustment, with and without a new status ...
LEMMA AdjustEnds ==
  ASSUME NEW c \in Cycle
  PROVE  /\ [c EXCEPT !.pending = FALSE, !.pre = 0, !.status = "HEDGED"] \in Cycle
         /\ [c EXCEPT !.pending = FALSE, !.pre = 0, !.status = "HEDGED"].hour = c.hour
         /\ [c EXCEPT !.pending = FALSE, !.pre = 0] \in Cycle
         /\ [c EXCEPT !.pending = FALSE, !.pre = 0].hour = c.hour
<1> DEFINE e == [c EXCEPT !.pending = FALSE]
           f == [e EXCEPT !.pre = 0]
           g == [f EXCEPT !.status = "HEDGED"]
<1>1. e \in Cycle /\ e.hour = c.hour
  BY DEF Cycle
<1>2. f \in Cycle /\ f.hour = e.hour
  <2> HIDE DEF e
  <2> QED BY <1>1 DEF Cycle
<1>3. g \in Cycle /\ g.hour = f.hour
  <2> HIDE DEF f
  <2> QED BY <1>2 DEF Cycle, ActiveStatus
<1> QED
  BY <1>1, <1>2, <1>3

\* ... and a status that comes with the funding record.
LEMMA ConfirmUpdate ==
  ASSUME NEW c \in Cycle, NEW st \in Status, NEW b \in BOOLEAN
  PROVE  /\ [c EXCEPT !.status = st, !.confirmed = b] \in Cycle
         /\ [c EXCEPT !.status = st, !.confirmed = b].hour = c.hour
  BY DEF Cycle, Status

\* The next close attempt is counted ...
LEMMA CloseBegins ==
  ASSUME NEW c \in Cycle
  PROVE  /\ [c EXCEPT !.status = "CLOSE_SUBMITTED", !.closes = @ + 1] \in Cycle
         /\ [c EXCEPT !.status = "CLOSE_SUBMITTED", !.closes = @ + 1].hour = c.hour
<1> DEFINE e == [c EXCEPT !.status = "CLOSE_SUBMITTED"]
           f == [e EXCEPT !.closes = e.closes + 1]
<1>1. e \in Cycle /\ e.hour = c.hour /\ e.closes \in Nat
  BY DEF Cycle, ActiveStatus
<1>2. f \in Cycle /\ f.hour = e.hour
  <2> HIDE DEF e
  <2> QED BY <1>1 DEF Cycle
<1> QED
  BY <1>1, <1>2

\* ... and so is the next adjustment, with the position it starts from.
LEMMA AdjustBegins ==
  ASSUME NEW c \in Cycle, NEW n \in Int
  PROVE  /\ [c EXCEPT !.adjusts = @ + 1, !.pending = TRUE, !.pre = n] \in Cycle
         /\ [c EXCEPT !.adjusts = @ + 1, !.pending = TRUE, !.pre = n].hour = c.hour
<1> DEFINE e == [c EXCEPT !.adjusts = c.adjusts + 1]
           f == [e EXCEPT !.pending = TRUE]
           g == [f EXCEPT !.pre = n]
<1>1. e \in Cycle /\ e.hour = c.hour
  BY DEF Cycle
<1>2. f \in Cycle /\ f.hour = e.hour
  <2> HIDE DEF e
  <2> QED BY <1>1 DEF Cycle
<1>3. g \in Cycle /\ g.hour = f.hour
  <2> HIDE DEF f
  <2> QED BY <1>2 DEF Cycle
<1> QED
  BY <1>1, <1>2, <1>3

\* Reconciliation (_reconcile) yields a cycle of the same settlement.
LEMMA ReconciledKeeps ==
  ASSUME NEW c \in Cycle \cup {NoCycle}, NEW s \in Snapshot, NEW now \in Moment
  PROVE  /\ Reconciled(c, s, now) \in Cycle \cup {NoCycle}
         /\ Reconciled(c, s, now) = NoCycle <=> c = NoCycle
         /\ c # NoCycle => Reconciled(c, s, now).hour = c.hour
         /\ ~Active(c) => Reconciled(c, s, now) = c
<1>1. CASE ~Active(c)
  BY <1>1 DEF Reconciled
<1>2. CASE Active(c)
  <2>1. c \in Cycle
    BY <1>2 DEF Active
  <2> DEFINE a == ReconcileAdjust(c, s, now)
  <2>2. a \in Cycle /\ a.hour = c.hour
    BY <2>1, StatusUpdate, AdjustEnds DEF ReconcileAdjust, Status, TerminalStatus, ActiveStatus
  <2> HIDE DEF a
  <2>3. ReconciledStatus(a, s, now) \in Status
    <3>1. a.status \in Status
      BY <2>2 DEF Cycle, Status
    <3>2. OpenStatus(a, s, now) \in Status
      BY <3>1 DEF OpenStatus, Status, TerminalStatus, ActiveStatus
    <3>3. \A st \in Status : CloseStatus([a EXCEPT !.status = st], s, now) \in Status
      BY <2>2, StatusUpdate DEF CloseStatus, Status, TerminalStatus, ActiveStatus
    <3> QED
      BY <3>1, <3>2, <3>3 DEF ReconciledStatus, Status, ActiveStatus
  <2>4. a.confirmed \in BOOLEAN /\ s.confirmed \in BOOLEAN
    BY <2>2 DEF Cycle, Snapshot
  <2> DEFINE b == a.confirmed \/ s.confirmed
  <2>5. b \in BOOLEAN
    OBVIOUS
  <2>6. Reconciled(c, s, now) = [a EXCEPT !.status = ReconciledStatus(a, s, now),
                                          !.confirmed = b]
    BY <1>2 DEF Reconciled, a
  <2> HIDE DEF b
  <2> DEFINE st == ReconciledStatus(a, s, now)
  <2> HIDE DEF st
  <2>7. /\ [a EXCEPT !.status = st, !.confirmed = b] \in Cycle
        /\ [a EXCEPT !.status = st, !.confirmed = b].hour = a.hour
    <3>1. st \in Status
      BY <2>3 DEF st
    <3> QED
      BY <2>2, <2>5, <3>1, ConfirmUpdate, Zenon
  <2> QED
    BY <1>2, <2>1, <2>2, <2>6, <2>7, CycleIsNotNone DEF st
<1> QED
  BY <1>1, <1>2

\* What process intends for an active cycle is a cycle of the same settlement.
LEMMA IntendedKeeps ==
  ASSUME NEW c \in Cycle, NEW s \in Snapshot, NEW now \in Moment,
         NEW d \in Acts \ {"OPEN"}
  PROVE  Intended(c, s, now, d) \in Cycle /\ Intended(c, s, now, d).hour = c.hour
<1> USE DEF Intended, Status, TerminalStatus, ActiveStatus
<1>1. CASE d = "WAIT"
  <2> DEFINE st == IF Settled(c.hour, now) THEN "AWAITING_FUNDING"
                   ELSE IF Size(s.pos) < Size(c.target)
                        THEN "OPEN_PARTIAL" ELSE "HEDGED"
             b == c.confirmed \/ s.confirmed
  <2>1. st \in Status
    OBVIOUS
  <2>2. b \in BOOLEAN
    OBVIOUS
  <2>3. Waiting(c, s, now) = [c EXCEPT !.status = st, !.confirmed = b]
    BY DEF Waiting
  <2> HIDE DEF st, b
  <2> QED
    <3>1. /\ [c EXCEPT !.status = st, !.confirmed = b] \in Cycle
          /\ [c EXCEPT !.status = st, !.confirmed = b].hour = c.hour
      BY <2>1, <2>2, ConfirmUpdate, Zenon
    <3> QED
      BY <1>1, <2>3, <3>1
<1>2. CASE d = "ADJUST"
  <2>1. s.pos \in Int
    BY DEF Snapshot
  <2> QED
    BY <1>2, <2>1, AdjustBegins DEF Adjusting
<1>3. CASE d = "CLOSE"
  BY <1>3, CloseBegins DEF Closing
<1>4. CASE d = "RECOVERY"
  BY <1>4, StatusUpdate
<1> QED
  BY <1>1, <1>2, <1>3, <1>4 DEF Acts

\* The decisions: HOLD, or an act; only an open is decided without an active
\* cycle, and then MayOpen holds.
LEMMA DecisionKinds ==
  ASSUME NEW c, NEW s, NEW now, Decision(c, s, now) # "HOLD"
  PROVE  /\ Decision(c, s, now) \in Acts
         /\ Decision(c, s, now) = "OPEN" => MayOpen(c, s, now)
         /\ Decision(c, s, now) # "OPEN" => Active(c)
  BY DEF Decision, Acts

\* A new cycle is a cycle of the snapshot's settlement.
LEMMA NewCycleType ==
  ASSUME NEW s \in Snapshot, s.hour < Hours
  PROVE  NewCycle(s) \in Cycle /\ NewCycle(s).hour = s.hour
<1>1. s.hour \in 0..(Hours - 1) /\ s.allowed \in Nat /\ s.primary \in Int
  BY DEF Snapshot
<1>2. -Sign(s.primary) * s.allowed \in Int
  BY <1>1 DEF Sign
<1> QED
  BY <1>1, <1>2 DEF NewCycle, Cycle, ActiveStatus

-----------------------------------------------------------------------------
(* Type correctness.                                                       *)

\* The initial state is well typed.
LEMMA InitTypes == Init => TypeInv
  BY DEF Init, TypeInv, TypeOK, ClockOK, ActOK, BlankSnap, NoIntent, Snapshot,
         OrderStatus, Holding

\* A watcher that ends its round forgets what it knew, and nothing else
\* about the watchers changes.
LEMMA EndRoundTypes ==
  ASSUME TypeInv, NEW w \in Watcher, EndRound(w)
  PROVE  /\ pc' \in [Watcher -> {"idle", "refresh", "positions", "orders", "preview",
                                 "process"} \cup Holding]
         /\ view' \in [Watcher -> Cycle \cup {NoCycle}]
         /\ snap' \in [Watcher -> Snapshot]
         /\ intent' \in [Watcher -> [act : Acts, cycle : Cycle, size : Int]
                                    \cup {NoIntent}]
         /\ \A v \in Watcher : pc'[v] \in Holding => intent'[v] # NoIntent
         /\ ActOK'
<1>1. BlankSnap \in Snapshot
  BY DEF BlankSnap, Snapshot, OrderStatus
<1>2. /\ pc' = [pc EXCEPT ![w] = "idle"]
      /\ view' = [view EXCEPT ![w] = NoCycle]
      /\ snap' = [snap EXCEPT ![w] = BlankSnap]
      /\ intent' = [intent EXCEPT ![w] = NoIntent]
  BY DEF EndRound, Goto
<1>3. \A v \in Watcher : pc'[v] # "idle" => v # w /\ pc'[v] = pc[v]
                                                /\ intent'[v] = intent[v]
  BY <1>2 DEF TypeInv, TypeOK
<1>4. ActOK'
  BY <1>3 DEF TypeInv, ActOK
<1>5. \A v \in Watcher : pc'[v] \in Holding => intent'[v] # NoIntent
  BY <1>3 DEF TypeInv, TypeOK, Holding
<1>6. snap' \in [Watcher -> Snapshot]
  BY <1>1, <1>2 DEF TypeInv, TypeOK
<1>7. view' \in [Watcher -> Cycle \cup {NoCycle}]
  BY <1>2 DEF TypeInv, TypeOK
<1>8. intent' \in [Watcher -> [act : Acts, cycle : Cycle, size : Int] \cup {NoIntent}]
  BY <1>2 DEF TypeInv, TypeOK
<1>9. pc' \in [Watcher -> {"idle", "refresh", "positions", "orders", "preview",
                           "process"} \cup Holding]
  BY <1>2 DEF TypeInv, TypeOK
<1> QED
  BY <1>4, <1>5, <1>6, <1>7, <1>8, <1>9

\* A step of the wall clock, of a timeout or of the exchange.
LEMMA OutsideTypes ==
  ASSUME TypeInv, Tick \/ (\E t \in Timeout : Elapse(t)) \/ (\E o \in sent : Exchange(o))
  PROVE  TypeInv'
<1> USE DEF TypeInv, TypeOK, ClockOK, ActOK, NoFault, Fault, watcherVars, exchangeVars,
            clockVars
<1>1. CASE Tick
  BY <1>1 DEF Tick
<1>2. ASSUME NEW t \in Timeout, Elapse(t) PROVE TypeInv'
  BY <1>2 DEF Elapse
<1>3. ASSUME NEW o \in sent, Exchange(o) PROVE TypeInv'
  <2>1. o.size \in Int /\ o.hour \in 0..(Hours - 1)
    OBVIOUS
  <2>2. Sign(o.size) \in {-1, 0, 1} /\ Fillable(o) \in Nat
    BY <2>1 DEF Fillable, Sign, Size
  <2>3. sent' \subseteq sent /\ UNCHANGED <<clockVars, cycle, watcherVars>>
    BY <1>3 DEF Exchange, Fill, FillPart, Refuse, Lose, Decided
  <2>4. faults' \in 0..MaxFaults /\ crashes' = crashes
    <3>1. NoFault \/ Fault
      BY <1>3 DEF Exchange, Fill, FillPart, Refuse, Lose
    <3> QED
      BY <3>1
  <2>5. position' \in Int
    <3>1. CASE Fill(o)
      BY <2>2, <3>1 DEF Fill
    <3>2. CASE FillPart(o)
      <4>1. PICK q \in 1..(Fillable(o) - 1) : position' = position + Sign(o.size) * q
        BY <3>2 DEF FillPart
      <4> QED
        BY <2>2, <4>1
    <3>3. CASE Refuse(o) \/ Lose(o)
      BY <3>3 DEF Refuse, Lose
    <3> QED
      BY <1>3, <3>1, <3>2, <3>3 DEF Exchange
  <2>6. opened' \in [0..(Hours - 1) -> Nat]
    <3>1. [opened EXCEPT ![o.hour] = @ + 1] \in [0..(Hours - 1) -> Nat]
      BY <2>1
    <3> QED
      BY <1>3, <3>1 DEF Exchange, Fill, FillPart, Refuse, Lose
  <2> QED
    BY <2>3, <2>4, <2>5, <2>6
<1> QED
  BY <1>1, <1>2, <1>3

\* A snapshot is filled in field by field: its time ...
LEMMA SnapStarts ==
  ASSUME NEW h \in 0..Hours, NEW ph \in {"early", "window", "late"}, NEW b \in BOOLEAN
  PROVE  [BlankSnap EXCEPT !.hour = h, !.phase = ph, !.final = b] \in Snapshot
<1> DEFINE e == [BlankSnap EXCEPT !.hour = h]
           f == [e EXCEPT !.phase = ph]
           g == [f EXCEPT !.final = b]
<1>0. BlankSnap \in Snapshot
  BY DEF BlankSnap, Snapshot, OrderStatus
<1>1. e \in Snapshot
  BY <1>0 DEF Snapshot
<1>2. f \in Snapshot
  <2> HIDE DEF e
  <2> QED BY <1>1 DEF Snapshot
<1>3. g \in Snapshot
  <2> HIDE DEF f
  <2> QED BY <1>2 DEF Snapshot
<1> QED
  BY <1>3

\* ... the positions of the two accounts ...
LEMMA SnapPositions ==
  ASSUME NEW s \in Snapshot, NEW x \in Int, NEW p \in Int, NEW q \in Nat
  PROVE  [s EXCEPT !.pos = x, !.primary = p, !.allowed = q] \in Snapshot
<1> DEFINE e == [s EXCEPT !.pos = x]
           f == [e EXCEPT !.primary = p]
           g == [f EXCEPT !.allowed = q]
<1>1. e \in Snapshot
  BY DEF Snapshot
<1>2. f \in Snapshot
  <2> HIDE DEF e
  <2> QED BY <1>1 DEF Snapshot
<1>3. g \in Snapshot
  <2> HIDE DEF f
  <2> QED BY <1>2 DEF Snapshot
<1> QED
  BY <1>3

\* ... and the statuses of the cycle's orders.
LEMMA SnapOrders ==
  ASSUME NEW s \in Snapshot, NEW u \in BOOLEAN, NEW b \in BOOLEAN,
         NEW x \in OrderStatus, NEW y \in OrderStatus, NEW z \in OrderStatus
  PROVE  [s EXCEPT !.unknown = u, !.confirmed = b,
                   !.open = x, !.close = y, !.adjust = z] \in Snapshot
<1> DEFINE e == [s EXCEPT !.unknown = u]
           f == [e EXCEPT !.confirmed = b]
           g == [f EXCEPT !.open = x]
           h == [g EXCEPT !.close = y]
           i == [h EXCEPT !.adjust = z]
<1>1. e \in Snapshot
  BY DEF Snapshot
<1>2. f \in Snapshot
  <2> HIDE DEF e
  <2> QED BY <1>1 DEF Snapshot
<1>3. g \in Snapshot
  <2> HIDE DEF f
  <2> QED BY <1>2 DEF Snapshot
<1>4. h \in Snapshot
  <2> HIDE DEF g
  <2> QED BY <1>3 DEF Snapshot
<1>5. i \in Snapshot
  <2> HIDE DEF h
  <2> QED BY <1>4 DEF Snapshot
<1> QED
  BY <1>5

\* The reading half of a round.
LEMMA ReadingTypes ==
  ASSUME TypeInv, NEW w \in Watcher,
         Load(w) \/ ReadPositions(w) \/ ReadOrders(w) \/ Preview(w)
  PROVE  TypeInv'
<1> DEFINE Labels == {"idle", "refresh", "positions", "orders", "preview", "process"}
                       \cup Holding
           Rest == UNCHANGED <<hour, phase, waited, cycle, intent, position, sent,
                               opened, crashes>> /\ faults' \in 0..MaxFaults
           Away(l) == pc' = [pc EXCEPT ![w] = l] /\ l \in Labels \ Holding
                        /\ l \notin {"armed", "send", "reply"}
<1>1. BlankSnap \in Snapshot
  BY DEF BlankSnap, Snapshot, OrderStatus
<1>2. ASSUME NEW l, Away(l), Rest, snap' \in [Watcher -> Snapshot],
             view' \in [Watcher -> Cycle \cup {NoCycle}]
      PROVE  TypeInv'
  <2>1. \A v \in Watcher : pc'[v] \in Holding => pc'[v] = pc[v]
    BY <1>2 DEF TypeInv, TypeOK, Holding
  <2>2. ActOK'
    BY <1>2, <2>1 DEF TypeInv, TypeOK, ActOK, Holding
  <2>3. TypeOK'
    BY <1>2, <2>1 DEF TypeInv, TypeOK
  <2> QED
    BY <1>2, <2>2, <2>3 DEF TypeInv, ClockOK
<1> USE DEF NoFault, Fault, Goto, Holding, clockVars, exchangeVars
<1>3. CASE Load(w)
  <2> DEFINE again == pc[w] = "refresh"
  <2>0. again \in BOOLEAN
    OBVIOUS
  <2> HIDE DEF again
  <2>1. [BlankSnap EXCEPT !.hour = hour, !.phase = phase, !.final = again] \in Snapshot
    BY <2>0, SnapStarts, Zenon DEF TypeInv, TypeOK
  <2>2. snap' \in [Watcher -> Snapshot] /\ view' \in [Watcher -> Cycle \cup {NoCycle}]
    BY <1>3, <2>1 DEF Load, TypeInv, TypeOK, again
  <2>3. Away("positions") /\ Rest
    BY <1>3 DEF Load, TypeInv, TypeOK
  <2> QED
    BY <1>2, <2>2, <2>3
<1>4. CASE ReadPositions(w)
  <2>1. PICK p \in Exposures \cup {0} : \E q \in 0..Size(p) :
          snap' = [snap EXCEPT ![w] = [snap[w] EXCEPT !.pos = position, !.primary = p,
                                                      !.allowed = q]]
    BY <1>4 DEF ReadPositions
  <2>2. PICK q \in 0..Size(p) :
          snap' = [snap EXCEPT ![w] = [snap[w] EXCEPT !.pos = position, !.primary = p,
                                                      !.allowed = q]]
    BY <2>1
  <2>3. p \in Int /\ q \in Nat
    BY SizeTypes
  <2>4. snap' \in [Watcher -> Snapshot]
    <3>1. snap[w] \in Snapshot /\ position \in Int
      BY DEF TypeInv, TypeOK
    <3>2. [snap[w] EXCEPT !.pos = position, !.primary = p, !.allowed = q] \in Snapshot
      BY <2>3, <3>1, SnapPositions, Zenon
    <3> QED
      BY <2>2, <3>2 DEF TypeInv, TypeOK
  <2>5. Away("orders") /\ Rest /\ view' = view
    BY <1>4 DEF ReadPositions, TypeInv, TypeOK
  <2> QED
    BY <1>2, <2>4, <2>5 DEF TypeInv, TypeOK
<1>5. CASE ReadOrders(w)
  <2> DEFINE c == view[w]
             open == IF c = NoCycle THEN "none" ELSE Lookup(OpenId(c))
             close == IF c = NoCycle \/ c.closes = 0 THEN "none" ELSE Lookup(CloseId(c))
             adjust == IF c = NoCycle \/ ~c.pending THEN "none" ELSE Lookup(AdjustId(c))
             seen(st, failed) == IF failed /\ st # "none" THEN "unknown" ELSE st
             Filled(u, b, F) ==
               [snap[w] EXCEPT !.unknown = u, !.confirmed = b,
                               !.open = seen(open, "open" \in F),
                               !.close = seen(close, "close" \in F),
                               !.adjust = seen(adjust, "adjust" \in F)]
  <2>1. PICK u \in BOOLEAN, b \in {FALSE, Active(c) /\ snap[w].hour > c.hour},
             F \in SUBSET {"open", "close", "adjust"} :
          /\ snap' = [snap EXCEPT ![w] = Filled(u, b, F)]
          /\ IF F = {} THEN NoFault ELSE Fault
    BY <1>5 DEF ReadOrders
  <2>2. snap' \in [Watcher -> Snapshot]
    <3>1. snap[w] \in Snapshot
      BY DEF TypeInv, TypeOK
    <3>2. b \in BOOLEAN
      BY <2>1
    <3>3. \A id : Lookup(id) \in OrderStatus
      BY DEF Lookup, OrderStatus
    <3>4. open \in OrderStatus /\ close \in OrderStatus /\ adjust \in OrderStatus
      BY <3>3 DEF OrderStatus
    <3> HIDE DEF open, close, adjust
    <3>5. \A st \in OrderStatus, x \in BOOLEAN : seen(st, x) \in OrderStatus
      BY DEF OrderStatus
    <3>6. /\ seen(open, "open" \in F) \in OrderStatus
          /\ seen(close, "close" \in F) \in OrderStatus
          /\ seen(adjust, "adjust" \in F) \in OrderStatus
      BY <3>4, <3>5
    <3> HIDE DEF seen
    <3>7. Filled(u, b, F) \in Snapshot
      BY <3>1, <3>2, <3>6, SnapOrders, Zenon
    <3> QED
      BY <2>1, <3>7 DEF TypeInv, TypeOK
  <2>3. view' \in [Watcher -> Cycle \cup {NoCycle}]
    BY <1>5 DEF ReadOrders, TypeInv, TypeOK
  <2>4. Rest
    <3>1. faults' \in 0..MaxFaults /\ crashes' = crashes
      BY <2>1 DEF TypeInv, TypeOK
    <3> QED
      BY <1>5, <3>1 DEF ReadOrders
  <2>5. Away("process") \/ Away("preview")
    BY <1>5 DEF ReadOrders
  <2> QED
    BY <1>2, <2>2, <2>3, <2>4, <2>5
<1>6. CASE Preview(w)
  <2>1. snap' \in [Watcher -> Snapshot] /\ view' = view /\ Rest
    BY <1>1, <1>6 DEF Preview, TypeInv, TypeOK
  <2>2. Away("process") \/ Away("refresh")
    BY <1>6 DEF Preview
  <2> QED
    BY <1>2, <2>1, <2>2 DEF TypeInv, TypeOK
<1> QED
  BY <1>3, <1>4, <1>5, <1>6

Plan == [act : Acts, cycle : Cycle, size : Int]

\* What Process does: the stored cycle is reconciled, and the watcher either
\* ends its round or plans an act.  An open is planned only in the window of
\* an hour whose settlement has no cycle yet.
LEMMA ProcessFacts ==
  ASSUME TypeInv, NEW w \in Watcher, Process(w)
  PROVE  /\ cycle' \in Cycle \cup {NoCycle}
         /\ cycle' = NoCycle <=> cycle = NoCycle
         /\ cycle # NoCycle => cycle'.hour = cycle.hour
         /\ cycle # NoCycle /\ ~Active(cycle) => cycle' = cycle
         /\ LockFree
         /\ UNCHANGED <<hour, phase, exchangeVars, faults, crashes>>
         /\ waited' \subseteq waited
         /\ \/ EndRound(w)
            \/ \E i \in Plan :
                  /\ pc' = [pc EXCEPT ![w] = "intend"]
                  /\ intent' = [intent EXCEPT ![w] = i]
                  /\ snap' = [snap EXCEPT ![w] = BlankSnap]
                  /\ view' = view
                  /\ i.act # "OPEN" => cycle' # NoCycle /\ i.cycle.hour = cycle'.hour
                  /\ i.act = "OPEN" =>
                        i.cycle.hour = hour /\ (cycle' # NoCycle => cycle'.hour # hour)
<1> DEFINE s == snap[w]
           r == Reconciled(cycle, s, Now)
           d == Decision(r, s, Now)
           size == CASE d = "OPEN"   -> NewCycle(s).target
                     [] d = "ADJUST" -> Sign(-s.pos) * (Size(s.pos) - s.allowed)
                     [] d = "CLOSE"  -> -s.pos
                     [] OTHER        -> 0
           i == [act |-> d, size |-> size, cycle |-> Intended(r, s, Now, d)]
<1>1. s \in Snapshot /\ Now \in Moment /\ cycle \in Cycle \cup {NoCycle}
  BY DEF TypeInv, TypeOK, Now, Moment
<1>2. /\ r \in Cycle \cup {NoCycle}
      /\ r = NoCycle <=> cycle = NoCycle
      /\ cycle # NoCycle => r.hour = cycle.hour
      /\ ~Active(cycle) => r = cycle
  BY <1>1, ReconciledKeeps
<1>3. /\ LockFree /\ cycle' = r /\ waited' \subseteq waited
      /\ UNCHANGED <<hour, phase, exchangeVars, faults, crashes>>
      /\ \/ EndRound(w)
         \/ /\ d # "HOLD"
            /\ pc' = [pc EXCEPT ![w] = "intend"]
            /\ intent' = [intent EXCEPT ![w] = i]
            /\ snap' = [snap EXCEPT ![w] = BlankSnap]
            /\ view' = view
  BY DEF Process, Goto, NoFault
<1>4. ASSUME d # "HOLD"
      PROVE  /\ i \in Plan
             /\ i.act # "OPEN" => r # NoCycle /\ i.cycle.hour = r.hour
             /\ i.act = "OPEN" => i.cycle.hour = hour /\ (r # NoCycle => r.hour # hour)
  <2>1. /\ d \in Acts
        /\ d = "OPEN" => MayOpen(r, s, Now)
        /\ d # "OPEN" => Active(r)
    BY <1>4, DecisionKinds
  <2>2. s.pos \in Int /\ s.allowed \in Nat
    BY <1>1 DEF Snapshot
  <2> HIDE DEF s, r, d
  <2>3. CASE d = "OPEN"
    <3>1. /\ s.hour = hour /\ phase = "window"
          /\ r # NoCycle => r.hour # s.hour
      BY <2>1, <2>3 DEF MayOpen, Now
    <3>2. s.hour < Hours
      BY <3>1 DEF TypeInv, ClockOK
    <3>3. NewCycle(s) \in Cycle /\ NewCycle(s).hour = s.hour
      BY <1>1, <3>2, NewCycleType DEF s
    <3>4. Intended(r, s, Now, d) = NewCycle(s) /\ size = NewCycle(s).target
      BY <2>3 DEF Intended
    <3>5. size \in Int
      BY <3>3, <3>4 DEF Cycle
    <3> HIDE DEF size
    <3> QED
      BY <2>1, <2>3, <3>1, <3>3, <3>4, <3>5 DEF Plan
  <2>4. CASE d # "OPEN"
    <3>1. r \in Cycle /\ r # NoCycle
      BY <1>2, <2>1, <2>4 DEF Active, r
    <3>2. Intended(r, s, Now, d) \in Cycle /\ Intended(r, s, Now, d).hour = r.hour
      BY <1>1, <2>1, <2>4, <3>1, IntendedKeeps DEF s
    <3>3. size \in Int
      <4>1. Sign(-s.pos) \in Int /\ Size(s.pos) \in Int /\ -s.pos \in Int
        BY <2>2, SizeTypes
      <4>2. Sign(-s.pos) * (Size(s.pos) - s.allowed) \in Int
        BY <2>2, <4>1
      <4> QED
        BY <2>4, <4>1, <4>2
    <3> HIDE DEF size
    <3> QED
      BY <2>1, <2>4, <3>1, <3>2, <3>3 DEF Plan
  <2> QED
    BY <2>3, <2>4
<1> HIDE DEF i, d, r
<1> QED
  BY <1>2, <1>3, <1>4

\* The acting half of a round keeps the types.
LEMMA ActingTypes ==
  ASSUME TypeInv, NEW w \in Watcher,
         \/ Process(w) \/ Intend(w) \/ SubmitOpen(w) \/ Send(w)
         \/ ReplyAccepted(w) \/ ReplyRefused(w)
         \/ RoundFails(w) \/ Crash(w)
  PROVE  TypeInv'
<1> DEFINE Stored == cycle' \in Cycle \cup {NoCycle} /\ waited' \subseteq Timeout
           Rest == /\ UNCHANGED <<hour, phase, position, opened>>
                   /\ faults' \in 0..MaxFaults /\ crashes' \in 0..MaxCrashes
<1>0. BlankSnap \in Snapshot
  BY DEF BlankSnap, Snapshot, OrderStatus
<1>1. ASSUME EndRound(w), Stored, Rest, sent' = sent PROVE TypeInv'
  <2>1. TypeOK' /\ ActOK'
    BY <1>1, EndRoundTypes DEF TypeInv, TypeOK
  <2> QED
    BY <1>1, <2>1 DEF TypeInv, ClockOK
<1>2. ASSUME NEW l \in Holding, NEW i \in Plan,
             pc' = [pc EXCEPT ![w] = l],
             intent' = [intent EXCEPT ![w] = i],
             snap' \in [Watcher -> Snapshot], view' = view,
             l = "armed" => i.act = "OPEN",
             l \in {"send", "reply"} => i.act \in {"OPEN", "ADJUST", "CLOSE"},
             Stored, Rest,
             \A o \in sent' : o.hour \in 0..(Hours - 1) /\ o.size \in Int
      PROVE  TypeInv'
  <2>1. i # NoIntent
    BY <1>2, CycleIsNotNone DEF NoIntent, Plan, Acts
  <2>2. \A v \in Watcher : v # w => pc'[v] = pc[v] /\ intent'[v] = intent[v]
    BY <1>2 DEF TypeInv, TypeOK
  <2>3. pc'[w] = l /\ intent'[w] = i
    BY <1>2 DEF TypeInv, TypeOK
  <2>4. ActOK'
    BY <1>2, <2>2, <2>3 DEF TypeInv, ActOK
  <2>5. \A v \in Watcher : pc'[v] \in Holding => intent'[v] # NoIntent
    BY <2>1, <2>2, <2>3 DEF TypeInv, TypeOK
  <2>6. intent' \in [Watcher -> Plan \cup {NoIntent}]
    BY <1>2 DEF TypeInv, TypeOK, Plan
  <2>7. pc' \in [Watcher -> {"idle", "refresh", "positions", "orders", "preview",
                             "process"} \cup Holding]
    BY <1>2 DEF TypeInv, TypeOK
  <2>8. TypeOK'
    BY <1>2, <2>5, <2>6, <2>7 DEF TypeInv, TypeOK, Plan
  <2> QED
    BY <1>2, <2>4, <2>8 DEF TypeInv, ClockOK
<1>3. CASE Process(w)
  <2>1. Stored /\ Rest /\ sent' = sent
    BY <1>3, ProcessFacts DEF TypeInv, TypeOK, exchangeVars
  <2>2. CASE EndRound(w)
    BY <1>1, <2>1, <2>2
  <2>3. CASE ~EndRound(w)
    <3>1. PICK i \in Plan : /\ pc' = [pc EXCEPT ![w] = "intend"]
                            /\ intent' = [intent EXCEPT ![w] = i]
                            /\ snap' = [snap EXCEPT ![w] = BlankSnap]
                            /\ view' = view
      BY <1>3, <2>3, ProcessFacts
    <3>2. snap' \in [Watcher -> Snapshot]
      BY <1>0, <3>1 DEF TypeInv, TypeOK
    <3>3. \A o \in sent' : o.hour \in 0..(Hours - 1) /\ o.size \in Int
      BY <2>1 DEF TypeInv, TypeOK
    <3> QED
      BY <1>2, <2>1, <3>1, <3>2, <3>3 DEF Holding
  <2> QED
    BY <2>2, <2>3
<1>4. ASSUME pc[w] \in Holding
      PROVE  /\ intent[w] \in Plan /\ intent[w].cycle \in Cycle
             /\ snap \in [Watcher -> Snapshot]
             /\ \A o \in sent : o.hour \in 0..(Hours - 1) /\ o.size \in Int
             /\ intent = [intent EXCEPT ![w] = intent[w]]
  BY <1>4 DEF TypeInv, TypeOK, Plan
<1> USE DEF clockVars, exchangeVars, watcherVars, NoFault, Fault
<1>5. CASE Intend(w)
  <2> DEFINE i == intent[w]
  <2>1. pc[w] \in Holding /\ cycle' = i.cycle /\ Rest /\ sent' = sent
    BY <1>5 DEF Intend, Holding, TypeInv, TypeOK
  <2>2. Stored
    BY <1>4, <1>5, <2>1 DEF Intend, TypeInv, TypeOK
  <2>3. CASE i.act \in {"WAIT", "RECOVERY"}
    BY <1>1, <1>5, <2>1, <2>2, <2>3 DEF Intend
  <2>4. CASE i.act = "OPEN"
    <3>1. pc' = [pc EXCEPT ![w] = "armed"] /\ UNCHANGED <<view, snap, intent>>
      BY <1>5, <2>4 DEF Intend, Goto
    <3> QED
      BY <1>2, <1>4, <2>1, <2>2, <2>4, <3>1 DEF Holding
  <2>5. CASE i.act \in {"ADJUST", "CLOSE"}
    <3>1. pc' = [pc EXCEPT ![w] = "send"] /\ UNCHANGED <<view, snap, intent>>
      BY <1>5, <2>5 DEF Intend, Goto
    <3> QED
      BY <1>2, <1>4, <2>1, <2>2, <2>5, <3>1 DEF Holding
  <2> QED
    BY <1>4, <2>1, <2>3, <2>4, <2>5 DEF Plan, Acts
<1>6. CASE SubmitOpen(w)
  <2>1. pc[w] \in Holding /\ Rest /\ sent' = sent /\ waited' = waited
    BY <1>6 DEF SubmitOpen, Holding, TypeInv, TypeOK
  <2> DEFINE c == [intent[w].cycle EXCEPT !.status = "OPEN_SUBMITTED"]
             i == [intent[w] EXCEPT !.cycle = c]
  <2>2. c \in Cycle
    BY <1>4, <2>1, StatusUpdate DEF Status, ActiveStatus
  <2>3. intent' = [intent EXCEPT ![w] = i] /\ cycle' = c
    BY <1>6 DEF SubmitOpen
  <2> HIDE DEF c
  <2>4. i \in Plan /\ i.act = intent[w].act
    BY <1>4, <2>1, <2>2 DEF Plan
  <2>5. i.act = "OPEN"
    BY <1>6, <2>4 DEF SubmitOpen, TypeInv, ActOK
  <2>6. pc' = [pc EXCEPT ![w] = "send"] /\ UNCHANGED <<view, snap>>
    BY <1>6 DEF SubmitOpen, Goto
  <2>7. Stored
    BY <2>1, <2>2, <2>3 DEF TypeInv, TypeOK
  <2> HIDE DEF i
  <2> QED
    BY <1>2, <1>4, <2>1, <2>3, <2>4, <2>5, <2>6, <2>7 DEF Holding
<1>7. CASE Send(w)
  <2>1. pc[w] \in Holding /\ Rest /\ Stored /\ UNCHANGED <<view, snap, intent>>
    BY <1>7 DEF Send, Holding, TypeInv, TypeOK
  <2>2. sent' = sent \cup {Order(intent[w].cycle, intent[w].act, intent[w].size)}
    BY <1>7 DEF Send
  <2>3. \A o \in sent' : o.hour \in 0..(Hours - 1) /\ o.size \in Int
    BY <1>4, <2>1, <2>2 DEF Order, Plan, Cycle
  <2>4. pc' = [pc EXCEPT ![w] = "reply"]
    BY <1>7 DEF Send, Goto
  <2>5. intent[w].act \in {"OPEN", "ADJUST", "CLOSE"}
    BY <1>7 DEF Send, TypeInv, ActOK
  <2> QED
    BY <1>2, <1>4, <2>1, <2>3, <2>4, <2>5 DEF Holding
<1>8. CASE ReplyRefused(w)
  <2>1. pc[w] \in Holding /\ EndRound(w) /\ Rest /\ sent' = sent
    BY <1>8 DEF ReplyRefused, Holding, TypeInv, TypeOK
  <2>2. intent[w].act \in {"OPEN", "ADJUST", "CLOSE"}
    BY <1>8 DEF ReplyRefused, TypeInv, ActOK
  <2>3. Refused(intent[w].cycle, intent[w].act) \in Cycle
    BY <1>4, <2>1, <2>2, StatusUpdate, AdjustEnds
       DEF Refused, Status, TerminalStatus, ActiveStatus
  <2>4. Stored
    BY <1>8, <2>3 DEF ReplyRefused, TypeInv, TypeOK
  <2> QED
    BY <1>1, <2>1, <2>4
<1>9. CASE ReplyAccepted(w) \/ RoundFails(w) \/ Crash(w)
  <2>1. EndRound(w) /\ Stored /\ Rest /\ sent' = sent
    BY <1>9 DEF ReplyAccepted, RoundFails, ReadFails, SendRaises, ReplyLost, Crash,
                TypeInv, TypeOK
  <2> QED
    BY <1>1, <2>1
<1> QED
  BY <1>3, <1>5, <1>6, <1>7, <1>8, <1>9

\* Every step keeps the types.
LEMMA NextTypes == TypeInv /\ [Next]_vars => TypeInv'
<1> SUFFICES ASSUME TypeInv, [Next]_vars PROVE TypeInv'
  OBVIOUS
<1>1. CASE UNCHANGED vars
  BY <1>1 DEF vars, clockVars, watcherVars, exchangeVars, TypeInv, TypeOK, ClockOK, ActOK
<1>2. CASE Next
  BY <1>2, OutsideTypes, ReadingTypes, ActingTypes DEF Next, Round
<1> QED
  BY <1>1, <1>2

\* Type correctness: in every reachable state whatever is stored is a cycle of
\* a settlement that happens, and a watcher that acts has a cycle to act on.
THEOREM HedgeTypes == Spec => []TypeOK
<1>1. TypeInv => TypeOK
  BY DEF TypeInv
<1> QED
  BY <1>1, InitTypes, NextTypes, PTL DEF Spec

-----------------------------------------------------------------------------
(***************************************************************************)
(* At most one hedge is opened against a settlement.  No single variable   *)
(* says so.  The exchange would take a second open; the state file is what *)
(* prevents it, because an open is stored before it is sent, later cycles  *)
(* only belong to later settlements, and a stored cycle of the same        *)
(* settlement forbids a new one.  The invariant follows an open from the   *)
(* plan of the watcher that holds the lock to the state file, to the       *)
(* network and to the exchange.                                            *)
(***************************************************************************)

(* An open against settlement h is on its way or has been filled.          *)
Used(h) == opened[h] > 0 \/ \E o \in sent : ~o.reduces /\ o.hour = h

(* The stored cycle is not from the future.                                *)
Dated == cycle # NoCycle => cycle.hour <= hour

(* The file lock excludes.                                                 *)
LockOK == \A v, w \in Watcher : pc[v] \in Holding /\ pc[w] \in Holding => v = w

(* What the holder of the lock has in hand agrees with the state file: a   *)
(* new cycle is of a later settlement than the stored one, and once stored *)
(* it is the stored one.                                                   *)
InHand(w) ==
    LET i == intent[w]
    IN  /\ pc[w] = "intend" /\ i.act # "OPEN" =>
              cycle # NoCycle /\ cycle.hour = i.cycle.hour
        /\ pc[w] = "intend" /\ i.act = "OPEN" =>
              /\ i.cycle.hour <= hour
              /\ cycle # NoCycle => cycle.hour < i.cycle.hour
        /\ pc[w] \in {"armed", "send", "reply"} =>
              cycle # NoCycle /\ cycle.hour = i.cycle.hour
        /\ pc[w] \in {"armed", "send"} /\ i.act = "OPEN" => ~Used(i.cycle.hour)

(* Whatever was opened was stored: its settlement is not after the stored  *)
(* cycle's.                                                                *)
UsedOK == \A h \in 0..(Hours - 1) : Used(h) => cycle # NoCycle /\ h <= cycle.hour

(* An open on its way is the only one of its settlement.                   *)
Single ==
    /\ \A o \in sent : ~o.reduces => opened[o.hour] = 0
    /\ \A o, p \in sent : ~o.reduces /\ ~p.reduces /\ o.hour = p.hour => o = p

OpenInv ==
    /\ Dated
    /\ LockOK
    /\ \A w \in Watcher : InHand(w)
    /\ UsedOK
    /\ Single
    /\ OneOpenPerSettlement

\* Nothing is stored, held or sent at first.
LEMMA InitOpens == Init => OpenInv
  BY DEF Init, OpenInv, Dated, LockOK, InHand, UsedOK, Used, Single, Holding,
         OneOpenPerSettlement

(* A step that opens nothing: the stored cycle keeps its settlement, no    *)
(* order is sent or dealt with, and nobody takes the lock or moves under   *)
(* it.                                                                     *)
Quiet ==
    /\ cycle' = NoCycle <=> cycle = NoCycle
    /\ cycle # NoCycle => cycle'.hour = cycle.hour
    /\ sent' = sent /\ opened' = opened
    /\ hour' \in Int /\ hour <= hour'
    /\ \A v \in Watcher : pc'[v] \in Holding => pc'[v] = pc[v] /\ intent'[v] = intent[v]

\* A quiet step keeps the invariant.
LEMMA QuietOpens ==
  ASSUME TypeInv, OpenInv, Quiet
  PROVE  OpenInv'
<1>1. \A h : Used(h)' <=> Used(h)
  BY DEF Used, Quiet
<1>2. hour \in Int /\ hour' \in Int /\ (cycle # NoCycle => cycle.hour \in Int)
  BY DEF Quiet, TypeInv, TypeOK, Cycle
<1>3. Dated'
  BY <1>2 DEF OpenInv, Dated, Quiet
<1>4. LockOK'
  BY DEF OpenInv, LockOK, Quiet
<1>5. ASSUME NEW w \in Watcher PROVE InHand(w)'
  <2>1. CASE pc'[w] \notin Holding
    BY <2>1 DEF InHand, Holding
  <2>2. CASE pc'[w] \in Holding
    <3>1. pc'[w] = pc[w] /\ intent'[w] = intent[w] /\ InHand(w)
      BY <2>2 DEF Quiet, OpenInv
    <3>2. intent[w].cycle.hour \in Int
      BY <2>2, <3>1 DEF TypeInv, TypeOK, Cycle
    <3> QED
      BY <1>1, <1>2, <3>1, <3>2 DEF InHand, Quiet
  <2> QED
    BY <2>1, <2>2
<1>6. UsedOK'
  BY <1>1 DEF OpenInv, UsedOK, Quiet
<1>7. Single' /\ OneOpenPerSettlement'
  BY DEF OpenInv, Single, OneOpenPerSettlement, Quiet
<1> QED
  BY <1>3, <1>4, <1>5, <1>6, <1>7 DEF OpenInv

\* Ending a round lets go of the lock.
LEMMA EndRoundLetsGo ==
  ASSUME TypeInv, NEW w \in Watcher, EndRound(w)
  PROVE  \A v \in Watcher : pc'[v] \in Holding => pc'[v] = pc[v] /\ intent'[v] = intent[v]
  BY DEF EndRound, Goto, TypeInv, TypeOK, Holding

\* The holder of the lock has planned for a cycle.
LEMMA HolderPlans ==
  ASSUME TypeInv, NEW w \in Watcher, pc[w] \in Holding
  PROVE  intent[w] \in Plan /\ intent[w].cycle \in Cycle /\ intent[w].cycle.hour \in Int
  BY DEF TypeInv, TypeOK, Plan, Cycle

\* A refused order leaves the cycle's settlement.
LEMMA RefusedKeeps ==
  ASSUME NEW c \in Cycle, NEW act \in {"OPEN", "ADJUST", "CLOSE"}
  PROVE  Refused(c, act) \in Cycle /\ Refused(c, act).hour = c.hour
  BY StatusUpdate, AdjustEnds DEF Refused, Status, TerminalStatus, ActiveStatus

\* The steps that open nothing.
LEMMA QuietSteps ==
  ASSUME TypeInv, OpenInv
  PROVE  /\ UNCHANGED vars => Quiet
         /\ Tick \/ (\E t \in Timeout : Elapse(t)) => Quiet
         /\ \A w \in Watcher :
              \/ Load(w) \/ ReadPositions(w) \/ ReadOrders(w) \/ Preview(w)
              \/ ReplyAccepted(w) \/ ReplyRefused(w) \/ RoundFails(w) \/ Crash(w)
              => Quiet
<1> USE DEF clockVars, watcherVars, exchangeVars
<1>0. hour \in Int
  BY DEF TypeInv, TypeOK
<1>1. UNCHANGED vars => Quiet
  BY <1>0 DEF vars, Quiet
<1>2. Tick \/ (\E t \in Timeout : Elapse(t)) => Quiet
  BY <1>0 DEF Tick, Elapse, Quiet
<1>3. ASSUME NEW w \in Watcher,
             Load(w) \/ ReadPositions(w) \/ ReadOrders(w) \/ Preview(w)
      PROVE  Quiet
  <2>1. UNCHANGED <<hour, cycle, sent, opened, intent>>
    BY <1>3 DEF Load, ReadPositions, ReadOrders, Preview
  <2>2. \E l \in {"refresh", "positions", "orders", "preview", "process"} :
           pc' = [pc EXCEPT ![w] = l]
    BY <1>3 DEF Load, ReadPositions, ReadOrders, Preview, Goto
  <2>3. \A v \in Watcher : pc'[v] \in Holding => pc'[v] = pc[v]
    BY <2>2 DEF Holding, TypeInv, TypeOK
  <2> QED
    BY <1>0, <2>1, <2>3 DEF Quiet
<1>4. ASSUME NEW w \in Watcher, ReplyAccepted(w) \/ RoundFails(w) \/ Crash(w)
      PROVE  Quiet
  <2>1. UNCHANGED <<hour, cycle, sent, opened>> /\ EndRound(w)
    BY <1>4 DEF ReplyAccepted, RoundFails, ReadFails, SendRaises, ReplyLost, Crash
  <2> QED
    BY <1>0, <2>1, EndRoundLetsGo DEF Quiet
<1>5. ASSUME NEW w \in Watcher, ReplyRefused(w) PROVE Quiet
  <2>1. /\ UNCHANGED <<hour, sent, opened>> /\ EndRound(w) /\ pc[w] = "reply"
        /\ cycle' = Refused(intent[w].cycle, intent[w].act)
    BY <1>5 DEF ReplyRefused
  <2>2. intent[w].act \in {"OPEN", "ADJUST", "CLOSE"} /\ intent[w].cycle \in Cycle
    BY <2>1, HolderPlans DEF TypeInv, ActOK, Holding
  <2>3. cycle' \in Cycle /\ cycle'.hour = intent[w].cycle.hour
    BY <2>1, <2>2, RefusedKeeps
  <2>4. cycle # NoCycle /\ cycle.hour = intent[w].cycle.hour
    BY <2>1 DEF OpenInv, InHand
  <2> QED
    BY <1>0, <2>1, <2>3, <2>4, EndRoundLetsGo, CycleIsNotNone DEF Quiet
<1> QED
  BY <1>1, <1>2, <1>3, <1>4, <1>5

(* A step of the holder w of the lock to label l, with plan i.             *)
Moves(w, l, i) ==
    /\ \A v \in Watcher : v # w => pc'[v] \notin Holding
    /\ pc'[w] = l /\ intent'[w] = i

\* Only the holder is under the lock, before and after it moves.
LEMMA HolderMoves ==
  ASSUME TypeInv, OpenInv, NEW w \in Watcher, NEW l, NEW i,
         pc[w] \in Holding \/ LockFree,
         pc' = [pc EXCEPT ![w] = l], intent' = [intent EXCEPT ![w] = i]
  PROVE  Moves(w, l, i) /\ LockOK'
<1>1. \A v \in Watcher : v # w => pc[v] \notin Holding /\ pc'[v] = pc[v]
  BY DEF OpenInv, LockOK, LockFree, TypeInv, TypeOK
<1>2. pc'[w] = l /\ intent'[w] = i
  BY DEF TypeInv, TypeOK
<1> QED
  BY <1>1, <1>2 DEF Moves, LockOK

\* Reconciling and deciding (process up to its first flush).
LEMMA ProcessOpens ==
  ASSUME TypeInv, OpenInv, NEW w \in Watcher, Process(w)
  PROVE  OpenInv'
<1>1. /\ cycle' = NoCycle <=> cycle = NoCycle
      /\ cycle # NoCycle => cycle'.hour = cycle.hour
      /\ LockFree
      /\ UNCHANGED <<hour, sent, opened>>
  BY ProcessFacts DEF exchangeVars
<1>2. hour \in Int /\ (cycle # NoCycle => cycle.hour \in Int)
  BY DEF TypeInv, TypeOK, Cycle
<1>3. CASE EndRound(w)
  BY <1>1, <1>2, <1>3, EndRoundLetsGo, QuietOpens DEF Quiet
<1>4. CASE ~EndRound(w)
  <2>1. PICK i \in Plan :
           /\ pc' = [pc EXCEPT ![w] = "intend"]
           /\ intent' = [intent EXCEPT ![w] = i]
           /\ i.act # "OPEN" => cycle' # NoCycle /\ i.cycle.hour = cycle'.hour
           /\ i.act = "OPEN" =>
                 i.cycle.hour = hour /\ (cycle' # NoCycle => cycle'.hour # hour)
    BY <1>4, ProcessFacts
  <2>2. Moves(w, "intend", i) /\ LockOK'
    BY <1>1, <2>1, HolderMoves
  <2>3. \A h : Used(h)' <=> Used(h)
    BY <1>1 DEF Used
  <2>4. Dated'
    BY <1>1 DEF OpenInv, Dated
  <2>5. ASSUME NEW v \in Watcher PROVE InHand(v)'
    <3>1. CASE v # w
      BY <2>2, <3>1 DEF Moves, InHand, Holding
    <3>2. CASE v = w
      <4>1. pc'[w] = "intend" /\ intent'[w] = i
        BY <2>2 DEF Moves
      <4>2. i.act = "OPEN" =>
               i.cycle.hour <= hour' /\ (cycle' # NoCycle => cycle'.hour < i.cycle.hour)
        BY <1>1, <1>2, <2>1, <2>4 DEF Dated
      <4> QED
        BY <2>1, <3>2, <4>1, <4>2 DEF InHand
    <3> QED
      BY <3>1, <3>2
  <2>6. UsedOK'
    BY <1>1, <2>3 DEF OpenInv, UsedOK
  <2>7. Single' /\ OneOpenPerSettlement'
    BY <1>1 DEF OpenInv, Single, OneOpenPerSettlement
  <2> QED
    BY <2>2, <2>4, <2>5, <2>6, <2>7 DEF OpenInv
<1> QED
  BY <1>3, <1>4

\* Storing the intent.
LEMMA IntendOpens ==
  ASSUME TypeInv, OpenInv, NEW w \in Watcher, Intend(w)
  PROVE  OpenInv'
<1> DEFINE i == intent[w]
<1>1. pc[w] = "intend" /\ cycle' = i.cycle /\ UNCHANGED <<hour, sent, opened>>
  BY DEF Intend, exchangeVars
<1>2. i \in Plan /\ i.cycle \in Cycle /\ i.cycle.hour \in Int /\ cycle' # NoCycle
  BY <1>1, HolderPlans, CycleIsNotNone DEF Holding
<1>3. hour \in Int /\ (cycle # NoCycle => cycle.hour \in Int)
  BY DEF TypeInv, TypeOK, Cycle
<1>4. \A h : Used(h)' <=> Used(h)
  BY <1>1 DEF Used
<1>5. InHand(w)
  BY DEF OpenInv
<1>6. CASE i.act \in {"WAIT", "RECOVERY"}
  <2>1. EndRound(w)
    BY <1>6 DEF Intend
  <2>2. cycle # NoCycle /\ cycle.hour = i.cycle.hour
    BY <1>1, <1>5, <1>6 DEF InHand
  <2>3. Quiet
    BY <1>1, <1>2, <1>3, <2>1, <2>2, EndRoundLetsGo DEF Quiet
  <2> QED
    BY <2>3, QuietOpens
<1>7. CASE i.act \notin {"WAIT", "RECOVERY"}
  <2> DEFINE l == IF i.act = "OPEN" THEN "armed" ELSE "send"
  <2>1. pc' = [pc EXCEPT ![w] = l] /\ intent' = [intent EXCEPT ![w] = i]
    BY <1>7 DEF Intend, Goto, TypeInv, TypeOK
  <2>2. Moves(w, l, i) /\ LockOK'
    BY <1>1, <2>1, HolderMoves DEF Holding
  <2>3. /\ i.cycle.hour <= hour
        /\ cycle # NoCycle => cycle.hour <= i.cycle.hour
        /\ i.act = "OPEN" /\ cycle # NoCycle => cycle.hour < i.cycle.hour
    BY <1>1, <1>2, <1>3, <1>5 DEF InHand, OpenInv, Dated
  <2>4. UsedOK'
    <3> SUFFICES ASSUME NEW h \in 0..(Hours - 1), Used(h) PROVE h <= cycle'.hour
      BY <1>2, <1>4 DEF UsedOK
    <3> QED
      BY <1>1, <1>2, <1>3, <2>3 DEF OpenInv, UsedOK
  <2>5. i.act = "OPEN" => ~Used(i.cycle.hour)
    BY <1>2, <1>3, <2>3 DEF OpenInv, UsedOK, Cycle
  <2>6. ASSUME NEW v \in Watcher PROVE InHand(v)'
    <3>1. CASE v # w
      BY <2>2, <3>1 DEF Moves, InHand, Holding
    <3>2. CASE v = w
      BY <1>1, <1>2, <1>4, <2>2, <2>5, <3>2 DEF Moves, InHand
    <3> QED
      BY <3>1, <3>2
  <2>7. Dated'
    BY <1>1, <2>3 DEF Dated
  <2>8. Single' /\ OneOpenPerSettlement'
    BY <1>1 DEF OpenInv, Single, OneOpenPerSettlement
  <2> QED
    BY <2>2, <2>4, <2>6, <2>7, <2>8 DEF OpenInv
<1> QED
  BY <1>6, <1>7

\* The second flush of an open.
LEMMA SubmitOpens ==
  ASSUME TypeInv, OpenInv, NEW w \in Watcher, SubmitOpen(w)
  PROVE  OpenInv'
<1> DEFINE c == [intent[w].cycle EXCEPT !.status = "OPEN_SUBMITTED"]
           i == [intent[w] EXCEPT !.cycle = c]
<1>1. /\ pc[w] = "armed" /\ UNCHANGED <<hour, sent, opened>>
      /\ cycle' = c /\ intent' = [intent EXCEPT ![w] = i]
      /\ pc' = [pc EXCEPT ![w] = "send"]
  BY DEF SubmitOpen, Goto, clockVars, exchangeVars
<1>2. intent[w] \in Plan /\ intent[w].cycle \in Cycle
  BY <1>1, HolderPlans DEF Holding
<1>3. c \in Cycle /\ c.hour = intent[w].cycle.hour /\ c # NoCycle
  BY <1>2, StatusUpdate, CycleIsNotNone DEF Status, ActiveStatus
<1> HIDE DEF c
<1>4. i.act = intent[w].act /\ i.cycle = c
  BY <1>2 DEF Plan
<1> HIDE DEF i
<1>5. Moves(w, "send", i) /\ LockOK'
  BY <1>1, HolderMoves DEF Holding
<1>6. cycle # NoCycle /\ cycle.hour = c.hour /\ (i.act = "OPEN" => ~Used(c.hour))
  BY <1>1, <1>3, <1>4 DEF OpenInv, InHand
<1>7. \A h : Used(h)' <=> Used(h)
  BY <1>1 DEF Used
<1>8. ASSUME NEW v \in Watcher PROVE InHand(v)'
  <2>1. CASE v # w
    BY <1>5, <2>1 DEF Moves, InHand, Holding
  <2>2. CASE v = w
    BY <1>1, <1>3, <1>4, <1>5, <1>6, <1>7, <2>2 DEF Moves, InHand
  <2> QED
    BY <2>1, <2>2
<1>9. Dated' /\ UsedOK' /\ Single' /\ OneOpenPerSettlement'
  BY <1>1, <1>3, <1>6, <1>7 DEF OpenInv, Dated, UsedOK, Single, OneOpenPerSettlement
<1> QED
  BY <1>5, <1>8, <1>9 DEF OpenInv

\* Sending: the new order is the only open of its settlement.
LEMMA SendOpens ==
  ASSUME TypeInv, OpenInv, NEW w \in Watcher, Send(w)
  PROVE  OpenInv'
<1> DEFINE i == intent[w]
           n == Order(i.cycle, i.act, i.size)
<1>1. /\ pc[w] = "send" /\ sent' = sent \cup {n}
      /\ UNCHANGED <<hour, cycle, opened, intent>>
      /\ pc' = [pc EXCEPT ![w] = "reply"]
  BY DEF Send, Goto, clockVars
<1>2. i \in Plan /\ i.cycle \in Cycle /\ i.cycle.hour \in 0..(Hours - 1)
  BY <1>1, HolderPlans DEF Holding, Cycle
<1>3. intent' = [intent EXCEPT ![w] = i]
  BY <1>1 DEF TypeInv, TypeOK
<1>4. Moves(w, "reply", i) /\ LockOK'
  BY <1>1, <1>3, HolderMoves DEF Holding
<1>5. n.hour = i.cycle.hour /\ (~n.reduces <=> i.act = "OPEN")
  BY DEF Order
<1>6. cycle # NoCycle /\ cycle.hour = i.cycle.hour /\ (i.act = "OPEN" => ~Used(i.cycle.hour))
  BY <1>1 DEF OpenInv, InHand
<1> HIDE DEF n
<1>7. \A h : Used(h)' => Used(h) \/ h = cycle.hour
  BY <1>1, <1>5, <1>6 DEF Used
<1>8. UsedOK'
  <2> SUFFICES ASSUME NEW h \in 0..(Hours - 1), Used(h)' PROVE h <= cycle.hour
    BY <1>1, <1>6 DEF UsedOK
  <2> QED
    BY <1>2, <1>6, <1>7 DEF OpenInv, UsedOK
<1>9. Single'
  <2>1. ~n.reduces => /\ ~(opened[n.hour] > 0)
                      /\ \A o \in sent : ~o.reduces => o.hour # n.hour
    BY <1>5, <1>6 DEF Used
  <2>2. opened[n.hour] \in Nat
    BY <1>2, <1>5 DEF TypeInv, TypeOK
  <2>3. \A o \in sent' : ~o.reduces => opened'[o.hour] = 0
    BY <1>1, <2>1, <2>2 DEF OpenInv, Single
  <2>4. \A o, p \in sent' : ~o.reduces /\ ~p.reduces /\ o.hour = p.hour => o = p
    BY <1>1, <2>1 DEF OpenInv, Single
  <2> QED
    BY <2>3, <2>4 DEF Single
<1>10. ASSUME NEW v \in Watcher PROVE InHand(v)'
  <2>1. CASE v # w
    BY <1>4, <2>1 DEF Moves, InHand, Holding
  <2>2. CASE v = w
    BY <1>1, <1>4, <1>6, <2>2 DEF Moves, InHand
  <2> QED
    BY <2>1, <2>2
<1>11. Dated' /\ OneOpenPerSettlement'
  BY <1>1 DEF OpenInv, Dated, OneOpenPerSettlement
<1> QED
  BY <1>4, <1>8, <1>9, <1>10, <1>11 DEF OpenInv

\* The exchange deals with an order: an open that is filled was the only one
\* of its settlement, and it is no longer on its way.
LEMMA ExchangeOpens ==
  ASSUME TypeInv, OpenInv, NEW o \in sent, Exchange(o)
  PROVE  OpenInv'
<1>1. sent' = sent \ {o} /\ UNCHANGED <<hour, cycle, pc, intent>>
  BY DEF Exchange, Fill, FillPart, Refuse, Lose, Decided, clockVars, watcherVars
<1>2. \/ opened' = opened
      \/ ~o.reduces /\ opened' = [opened EXCEPT ![o.hour] = @ + 1]
  BY DEF Exchange, Fill, FillPart, Refuse, Lose
<1>3. o.hour \in 0..(Hours - 1) /\ opened \in [0..(Hours - 1) -> Nat]
  BY DEF TypeInv, TypeOK
<1>4. ~o.reduces => opened[o.hour] = 0 /\ \A p \in sent' : ~p.reduces => p.hour # o.hour
  BY <1>1 DEF OpenInv, Single
<1>5. \A h \in 0..(Hours - 1) : Used(h)' => Used(h)
  BY <1>1, <1>2, <1>3 DEF Used
<1>6. Single'
  <2>1. ASSUME NEW p \in sent', ~p.reduces PROVE opened'[p.hour] = 0
    <3>1. p \in sent /\ opened[p.hour] = 0 /\ p.hour \in 0..(Hours - 1)
      BY <1>1, <2>1 DEF OpenInv, Single, TypeInv, TypeOK
    <3> QED
      BY <1>2, <1>3, <1>4, <2>1, <3>1
  <2> QED
    BY <1>1, <2>1 DEF OpenInv, Single
<1>7. OneOpenPerSettlement'
  <2> SUFFICES ASSUME NEW h \in 0..(Hours - 1) PROVE opened'[h] <= 1
    BY DEF OneOpenPerSettlement
  <2>1. opened[h] <= 1
    BY DEF OpenInv, OneOpenPerSettlement
  <2>2. CASE h = o.hour
    BY <1>2, <1>3, <1>4, <2>1, <2>2
  <2>3. CASE h # o.hour
    BY <1>2, <1>3, <2>1, <2>3
  <2> QED
    BY <2>2, <2>3
<1>8. UsedOK'
  BY <1>1, <1>5 DEF OpenInv, UsedOK
<1>9. ASSUME NEW v \in Watcher PROVE InHand(v)'
  <2>1. InHand(v)
    BY DEF OpenInv
  <2>2. pc[v] \in Holding => intent[v].cycle.hour \in 0..(Hours - 1)
    BY HolderPlans DEF Cycle
  <2> QED
    BY <1>1, <1>5, <2>1, <2>2 DEF InHand, Holding
<1>10. Dated' /\ LockOK'
  BY <1>1 DEF OpenInv, Dated, LockOK
<1> QED
  BY <1>6, <1>7, <1>8, <1>9, <1>10 DEF OpenInv

\* Every step keeps the invariant.
LEMMA NextOpens == TypeInv /\ OpenInv /\ [Next]_vars => OpenInv'
<1> SUFFICES ASSUME TypeInv, OpenInv, [Next]_vars PROVE OpenInv'
  OBVIOUS
<1>1. CASE Quiet
  BY <1>1, QuietOpens
<1>2. CASE ~Quiet
  <2>1. Next
    BY <1>2, QuietSteps
  <2>2. \/ \E w \in Watcher : Process(w) \/ Intend(w) \/ SubmitOpen(w) \/ Send(w)
        \/ \E o \in sent : Exchange(o)
    BY <1>2, <2>1, QuietSteps DEF Next, Round
  <2> QED
    BY <2>2, ProcessOpens, IntendOpens, SubmitOpens, SendOpens, ExchangeOpens
<1> QED
  BY <1>1, <1>2

\* No settlement is hedged twice: however many watchers run, whatever is lost,
\* late or answered ambiguously, and wherever a watcher crashes, the exchange
\* never fills two opens against the same settlement.
THEOREM NeverTwice == Spec => []OneOpenPerSettlement
<1>1. OpenInv => OneOpenPerSettlement
  BY DEF OpenInv
<1>2. TypeInv /\ OpenInv /\ [Next]_vars => (TypeInv /\ OpenInv)'
  BY NextTypes, NextOpens
<1>3. Init => TypeInv /\ OpenInv
  BY InitTypes, InitOpens
<1> QED
  BY <1>1, <1>2, <1>3, PTL DEF Spec

-----------------------------------------------------------------------------
(***************************************************************************)
(* What is at risk on the hedge account, for every number of watchers,     *)
(* hours, faults and crashes, whether or not orders land late: never more  *)
(* than the one hedge the stored cycle was opened for, added to only       *)
(* inside the window, while a finished cycle stays as it is.               *)
(*                                                                         *)
(* A watcher decides on a snapshot that may be old.  What saves it is the  *)
(* clock: a plan to open is only made in the hour of its snapshot, and in  *)
(* one hour the account can only be added to by an open of that hour's     *)
(* settlement, whose cycle is stored by then and forbids the plan.         *)
(***************************************************************************)

(* A snapshot has its time from the first of these labels on, and the      *)
(* position from the second on.                                            *)
Reading == {"positions", "orders", "preview", "process"}
Informed == {"orders", "preview", "process"}

(* No snapshot is from the future.                                         *)
SnapDated == \A w \in Watcher : pc[w] \in Reading => snap[w].hour <= hour

(* An account seen flat in this hour is flat still, unless a cycle of this *)
(* hour's settlement has been stored since.                                *)
SeenFlat ==
    \A w \in Watcher :
        pc[w] \in Informed /\ snap[w].hour = hour /\ snap[w].pos = 0 =>
            position = 0 \/ (cycle # NoCycle /\ cycle.hour = hour)

(* The holder of the lock opens on a flat account, acts on an active cycle *)
(* and has stored what it is about to send.                                *)
HandFits(w) ==
    LET i == intent[w]
    IN  /\ pc[w] \in {"intend", "armed", "send"} /\ i.act = "OPEN" =>
              position = 0 /\ i.size = i.cycle.target
        /\ pc[w] = "intend" /\ i.act # "OPEN" =>
              Active(cycle) /\ cycle.target = i.cycle.target
        /\ pc[w] \in Holding /\ i.act \in {"OPEN", "ADJUST", "CLOSE"} => Active(i.cycle)
        /\ pc[w] \in {"armed", "send", "reply"} => cycle = i.cycle

(* An open that can still be filled is the stored cycle's, and the account *)
(* it will find is flat.                                                   *)
OpensFit ==
    \A o \in sent :
        /\ ~o.reduces => o.cutoff
        /\ ~o.reduces /\ o.hour = hour =>
              position = 0 /\ cycle # NoCycle /\ o.size = cycle.target

ExposureInv ==
    /\ SnapDated
    /\ SeenFlat
    /\ \A w \in Watcher : HandFits(w)
    /\ OpensFit
    /\ WithinTarget

\* Nothing is read, held, sent or at risk at first.
LEMMA InitExposure == Init => ExposureInv
  BY DEF Init, ExposureInv, SnapDated, SeenFlat, HandFits, OpensFit, WithinTarget,
         Reading, Informed, Holding

-----------------------------------------------------------------------------
(* The policy leaves the target of a cycle alone.                          *)

\* A change of other fields keeps the target.
LEMMA TargetKept ==
  ASSUME NEW c \in Cycle, NEW st, NEW b, NEW n
  PROVE  /\ [c EXCEPT !.status = st].target = c.target
         /\ [c EXCEPT !.status = st, !.confirmed = b].target = c.target
         /\ [c EXCEPT !.pending = FALSE, !.pre = 0].target = c.target
         /\ [c EXCEPT !.pending = FALSE, !.pre = 0, !.status = "HEDGED"].target = c.target
         /\ [c EXCEPT !.status = "CLOSE_SUBMITTED", !.closes = @ + 1].target = c.target
         /\ [c EXCEPT !.adjusts = @ + 1, !.pending = TRUE, !.pre = n].target = c.target
         /\ [c EXCEPT !.adjusts = @ + 1, !.pending = TRUE, !.pre = n].status = c.status
         /\ [c EXCEPT !.status = "CLOSE_SUBMITTED", !.closes = @ + 1].status = "CLOSE_SUBMITTED"
  BY DEF Cycle

\* Reconciliation (_reconcile) keeps the target ...
LEMMA ReconciledTarget ==
  ASSUME NEW c \in Cycle, NEW s, NEW now
  PROVE  Reconciled(c, s, now).target = c.target
<1> DEFINE a == ReconcileAdjust(c, s, now)
<1>1. a \in Cycle
  BY StatusUpdate, AdjustEnds DEF ReconcileAdjust, Status, TerminalStatus, ActiveStatus
<1>2. a.target = c.target
  BY TargetKept DEF ReconcileAdjust
<1> HIDE DEF a
<1>3. \A st, b : [a EXCEPT !.status = st, !.confirmed = b].target = a.target
  BY <1>1, TargetKept
<1>4. CASE Active(c)
  BY <1>2, <1>3, <1>4 DEF Reconciled, a
<1> QED
  BY <1>4 DEF Reconciled

\* ... and so does what process intends for an active cycle, which stays
\* active when something will be sent.
LEMMA IntendedTarget ==
  ASSUME NEW c \in Cycle, NEW s \in Snapshot, NEW now, NEW d \in Acts \ {"OPEN"}, Active(c)
  PROVE  /\ Intended(c, s, now, d).target = c.target
         /\ d \in {"ADJUST", "CLOSE"} => Active(Intended(c, s, now, d))
<1> USE DEF Intended
<1>1. CASE d = "WAIT"
  <2> DEFINE st == IF Settled(c.hour, now) THEN "AWAITING_FUNDING"
                   ELSE IF Size(s.pos) < Size(c.target)
                        THEN "OPEN_PARTIAL" ELSE "HEDGED"
             b == c.confirmed \/ s.confirmed
  <2>1. Waiting(c, s, now) = [c EXCEPT !.status = st, !.confirmed = b]
    BY DEF Waiting
  <2> HIDE DEF st, b
  <2>2. [c EXCEPT !.status = st, !.confirmed = b].target = c.target
    BY TargetKept
  <2> QED
    BY <1>1, <2>1, <2>2
<1>2. CASE d = "ADJUST"
  <2> DEFINE e == [c EXCEPT !.adjusts = @ + 1, !.pending = TRUE, !.pre = s.pos]
  <2>1. e.target = c.target /\ e.status = c.status
    BY TargetKept
  <2>2. e \in Cycle
    <3>1. s.pos \in Int
      BY DEF Snapshot
    <3> QED
      BY <3>1, AdjustBegins
  <2> HIDE DEF e
  <2> QED
    BY <1>2, <2>1, <2>2, CycleIsNotNone DEF Adjusting, Active, e
<1>3. CASE d = "CLOSE"
  <2> DEFINE e == [c EXCEPT !.status = "CLOSE_SUBMITTED", !.closes = @ + 1]
  <2>1. e.target = c.target /\ e.status = "CLOSE_SUBMITTED" /\ e \in Cycle
    BY TargetKept, CloseBegins
  <2> HIDE DEF e
  <2> QED
    BY <1>3, <2>1, CycleIsNotNone DEF Closing, Active, TerminalStatus, e
<1>4. CASE d = "RECOVERY"
  BY <1>4, TargetKept
<1> QED
  BY <1>1, <1>2, <1>3, <1>4 DEF Acts

-----------------------------------------------------------------------------
(* Snapshots.                                                              *)

\* An open on its way belongs to a settlement up to the stored cycle's.
LEMMA OpenDates ==
  ASSUME TypeInv, OpenInv, NEW o \in sent, ~o.reduces
  PROVE  /\ cycle # NoCycle /\ cycle \in Cycle
         /\ o.hour \in Int /\ cycle.hour \in Int /\ hour \in Int
         /\ o.hour <= cycle.hour /\ cycle.hour <= hour
<1>1. o.hour \in 0..(Hours - 1) /\ hour \in Int
  BY DEF TypeInv, TypeOK
<1>2. Used(o.hour)
  BY DEF Used
<1>3. cycle # NoCycle /\ o.hour <= cycle.hour /\ cycle.hour <= hour
  BY <1>1, <1>2 DEF OpenInv, UsedOK, Dated
<1>4. cycle \in Cycle
  BY <1>3 DEF TypeInv, TypeOK
<1> QED
  BY <1>1, <1>3, <1>4 DEF Cycle

(* Nobody reads: whoever has a snapshot has had it before.                 *)
SnapsKept ==
    \A v \in Watcher : pc'[v] \in Reading => pc'[v] = pc[v] /\ snap'[v] = snap[v]

\* Old snapshots stay true: the hour passes, or the account stays flat, or a
\* cycle of this hour has been stored.
LEMMA SnapsStayTrue ==
  ASSUME TypeInv, TypeInv', OpenInv', SnapDated, SeenFlat, SnapsKept, hour <= hour',
         cycle # NoCycle => cycle' # NoCycle /\ cycle.hour <= cycle'.hour,
         hour' = hour /\ position = 0 =>
            position' = 0 \/ (cycle' # NoCycle /\ cycle'.hour = hour)
  PROVE  SnapDated' /\ SeenFlat'
<1>1. /\ hour \in Int /\ hour' \in Int
      /\ cycle # NoCycle => cycle.hour \in Int
      /\ cycle' # NoCycle => cycle'.hour \in Int /\ cycle'.hour <= hour'
      /\ \A v \in Watcher : snap[v].hour \in Int
  <2>1. \A v \in Watcher : snap[v] \in Snapshot
    BY DEF TypeInv, TypeOK
  <2>2. \A v \in Watcher : snap[v].hour \in Int
    BY <2>1 DEF Snapshot
  <2>3. hour \in Int /\ hour' \in Int
    BY DEF TypeInv, TypeOK
  <2>4. cycle # NoCycle => cycle.hour \in Int
    BY DEF TypeInv, TypeOK, Cycle
  <2>5. cycle' # NoCycle => cycle'.hour \in Int /\ cycle'.hour <= hour'
    BY DEF TypeInv, TypeOK, Cycle, OpenInv, Dated
  <2> QED
    BY <2>2, <2>3, <2>4, <2>5
<1>2. SnapDated'
  BY <1>1 DEF SnapDated, SnapsKept
<1>3. ASSUME NEW w \in Watcher, pc'[w] \in Informed, snap'[w].hour = hour', snap'[w].pos = 0
      PROVE  position' = 0 \/ (cycle' # NoCycle /\ cycle'.hour = hour')
  <2>1. pc'[w] \in Reading
    BY <1>3 DEF Informed, Reading
  <2>2. pc[w] \in Reading /\ pc[w] \in Informed /\ snap[w].hour = hour' /\ snap[w].pos = 0
    BY <1>3, <2>1 DEF SnapsKept
  <2>3. hour' = hour
    BY <1>1, <2>2 DEF SnapDated
  <2>4. position = 0 \/ (cycle # NoCycle /\ cycle.hour = hour)
    BY <2>2, <2>3 DEF SeenFlat
  <2> QED
    BY <1>1, <2>3, <2>4
<1>4. SeenFlat'
  BY <1>3 DEF SeenFlat
<1> QED
  BY <1>2, <1>4

\* What a later read of the round leaves of a snapshot.
LEMMA SnapFields ==
  ASSUME NEW s \in Snapshot, NEW a, NEW b, NEW c, NEW d, NEW e
  PROVE  /\ [s EXCEPT !.pos = a, !.primary = b, !.allowed = c].hour = s.hour
         /\ [s EXCEPT !.pos = a, !.primary = b, !.allowed = c].pos = a
         /\ [s EXCEPT !.unknown = a, !.confirmed = b,
                      !.open = c, !.close = d, !.adjust = e].hour = s.hour
         /\ [s EXCEPT !.unknown = a, !.confirmed = b,
                      !.open = c, !.close = d, !.adjust = e].pos = s.pos
         /\ [s EXCEPT !.unknown = a, !.confirmed = b,
                      !.open = c, !.close = d, !.adjust = e].adjust = e
  BY DEF Snapshot

\* Asking for the orders leaves the time and the position of the snapshot, and
\* an adjustment is only seen filled that the exchange has filled.
LEMMA OrdersRead ==
  ASSUME TypeInv, NEW w \in Watcher, ReadOrders(w)
  PROVE  /\ snap'[w].hour = snap[w].hour /\ snap'[w].pos = snap[w].pos
         /\ \A v \in Watcher : v # w => snap'[v] = snap[v]
         /\ snap'[w].adjust = "filled" =>
               LET c == view[w]
               IN  c # NoCycle /\ AdjustId(c) \in DOMAIN fate /\ fate[AdjustId(c)] = "filled"
<1> DEFINE c == view[w]
           open == IF c = NoCycle THEN "none" ELSE Lookup(OpenId(c))
           close == IF c = NoCycle \/ c.closes = 0 THEN "none" ELSE Lookup(CloseId(c))
           adjust == IF c = NoCycle \/ ~c.pending THEN "none" ELSE Lookup(AdjustId(c))
           seen(st, failed) == IF failed /\ st # "none" THEN "unknown" ELSE st
<1>1. PICK u \in BOOLEAN, b \in {FALSE, Active(c) /\ snap[w].hour > c.hour},
           F \in SUBSET {"open", "close", "adjust"} :
        /\ snap' = [snap EXCEPT ![w] =
                      [snap[w] EXCEPT !.unknown = u, !.confirmed = b,
                                      !.open = seen(open, "open" \in F),
                                      !.close = seen(close, "close" \in F),
                                      !.adjust = seen(adjust, "adjust" \in F)]]
        /\ IF F = {} THEN NoFault ELSE Fault
  BY DEF ReadOrders
<1>2. \A f : seen(adjust, f) = "filled" =>
         c # NoCycle /\ AdjustId(c) \in DOMAIN fate /\ fate[AdjustId(c)] = "filled"
  BY DEF Lookup
<1>3. snap[w] \in Snapshot /\ snap \in [Watcher -> Snapshot]
  BY DEF TypeInv, TypeOK
<1> HIDE DEF c, open, close, adjust, seen
<1>4. snap'[w] = [snap[w] EXCEPT !.unknown = u, !.confirmed = b,
                                 !.open = seen(open, "open" \in F),
                                 !.close = seen(close, "close" \in F),
                                 !.adjust = seen(adjust, "adjust" \in F)]
  BY <1>1, <1>3
<1>5. /\ snap'[w].hour = snap[w].hour /\ snap'[w].pos = snap[w].pos
      /\ snap'[w].adjust = seen(adjust, "adjust" \in F)
  BY <1>3, <1>4, SnapFields
<1>6. \A v \in Watcher : v # w => snap'[v] = snap[v]
  BY <1>1, <1>3
<1> QED
  BY <1>2, <1>5, <1>6 DEF c

\* Reading changes one snapshot, and that one is true.
LEMMA ReadingExposure ==
  ASSUME TypeInv, ExposureInv, NEW w \in Watcher,
         Load(w) \/ ReadPositions(w) \/ ReadOrders(w) \/ Preview(w)
  PROVE  ExposureInv' /\ cycle' = cycle /\ position' = position
<1> USE DEF clockVars, exchangeVars
<1>1. UNCHANGED <<hour, cycle, position, sent, intent>>
  BY DEF Load, ReadPositions, ReadOrders, Preview
<1>2. \E l \in {"refresh", "positions", "orders", "preview", "process"} :
         pc' = [pc EXCEPT ![w] = l]
  BY DEF Load, ReadPositions, ReadOrders, Preview, Goto
<1>3. \A v \in Watcher : /\ v # w => pc'[v] = pc[v]
                         /\ pc'[v] \in Holding => pc'[v] = pc[v]
  BY <1>2 DEF Holding, TypeInv, TypeOK
<1>4. \A v \in Watcher : v # w => snap'[v] = snap[v]
  BY DEF Load, ReadPositions, ReadOrders, Preview, TypeInv, TypeOK
<1>5. ASSUME NEW v \in Watcher PROVE HandFits(v)'
  <2>1. HandFits(v)
    BY DEF ExposureInv
  <2>2. pc'[v] \in {"intend", "armed", "send", "reply"} => pc'[v] = pc[v]
    BY <1>3 DEF Holding
  <2> QED
    BY <1>1, <2>1, <2>2 DEF HandFits, Holding
<1>6. OpensFit' /\ WithinTarget'
  BY <1>1 DEF ExposureInv, OpensFit, WithinTarget
<1>7. hour \in Int /\ snap[w] \in Snapshot /\ snap[w].hour \in Int
  BY DEF TypeInv, TypeOK, Snapshot
<1>8. /\ pc'[w] \in Reading => snap'[w].hour <= hour
      /\ pc'[w] \in Informed /\ snap'[w].hour = hour /\ snap'[w].pos = 0 =>
            position = 0 \/ (cycle # NoCycle /\ cycle.hour = hour)
  <2>1. CASE Load(w)
    <3>1. snap'[w].hour = hour
      BY <2>1 DEF Load, BlankSnap, TypeInv, TypeOK
    <3>2. pc'[w] = "positions"
      BY <2>1 DEF Load, Goto, TypeInv, TypeOK
    <3> QED
      BY <1>7, <3>1, <3>2 DEF Informed
  <2>2. CASE ReadPositions(w)
    <3>1. pc[w] = "positions"
      BY <2>2 DEF ReadPositions
    <3>2. snap'[w].hour = snap[w].hour /\ snap'[w].pos = position
      <4>1. \E p, q : snap' = [snap EXCEPT ![w] = [snap[w] EXCEPT !.pos = position,
                                                   !.primary = p, !.allowed = q]]
        BY <2>2 DEF ReadPositions
      <4> QED
        BY <1>7, <4>1, SnapFields DEF TypeInv, TypeOK
    <3> QED
      BY <1>7, <3>1, <3>2 DEF ExposureInv, SnapDated, Reading
  <2>3. CASE ReadOrders(w)
    <3>1. pc[w] = "orders"
      BY <2>3 DEF ReadOrders
    <3>2. snap'[w].hour = snap[w].hour /\ snap'[w].pos = snap[w].pos
      BY <2>3, OrdersRead
    <3> QED
      BY <1>7, <3>1, <3>2 DEF ExposureInv, SnapDated, SeenFlat, Reading, Informed
  <2>4. CASE Preview(w)
    <3>1. pc[w] = "preview" /\ (pc'[w] = "refresh" \/ snap' = snap)
      BY <2>4 DEF Preview, Goto, TypeInv, TypeOK
    <3> QED
      BY <3>1 DEF ExposureInv, SnapDated, SeenFlat, Reading, Informed
  <2> QED
    BY <2>1, <2>2, <2>3, <2>4
<1>9. SnapDated' /\ SeenFlat'
  <2>1. \A v \in Watcher : pc'[v] \in Reading => snap'[v].hour <= hour
    BY <1>3, <1>4, <1>8 DEF ExposureInv, SnapDated
  <2>2. ASSUME NEW v \in Watcher, pc'[v] \in Informed, snap'[v].hour = hour, snap'[v].pos = 0
        PROVE  position = 0 \/ (cycle # NoCycle /\ cycle.hour = hour)
    BY <1>3, <1>4, <1>8, <2>2 DEF ExposureInv, SeenFlat
  <2> QED
    BY <1>1, <2>1, <2>2 DEF SnapDated, SeenFlat
<1> QED
  BY <1>1, <1>5, <1>6, <1>9 DEF ExposureInv

-----------------------------------------------------------------------------
(* Acting, and what happens meanwhile.                                     *)

(* A finished cycle is left alone or replaced by a later settlement's.     *)
Stays ==
    cycle # NoCycle /\ ~Active(cycle) =>
        cycle' = cycle \/ (cycle' # NoCycle /\ cycle'.hour > cycle.hour)

(* Exposure is only added in the window of the stored cycle's settlement.  *)
InTime ==
    Size(position') > Size(position) =>
        phase = "window" /\ cycle # NoCycle /\ cycle.hour = hour

\* Nobody ends a round with the lock or with a snapshot.
LEMMA EndRoundForgets ==
  ASSUME TypeInv, NEW w \in Watcher, EndRound(w)
  PROVE  SnapsKept
  BY DEF EndRound, Goto, SnapsKept, Reading, TypeInv, TypeOK

\* What the holder of the lock has in hand fits as long as nobody moves and
\* neither the cycle nor the account changes.
LEMMA HandsStayFit ==
  ASSUME ExposureInv, cycle' = cycle, position' = position,
         \A v \in Watcher : pc'[v] \in Holding => pc'[v] = pc[v] /\ intent'[v] = intent[v]
  PROVE  \A v \in Watcher : HandFits(v)'
<1> SUFFICES ASSUME NEW v \in Watcher PROVE HandFits(v)'
  OBVIOUS
<1>1. HandFits(v)
  BY DEF ExposureInv
<1>2. CASE pc'[v] \in Holding
  BY <1>1, <1>2 DEF HandFits
<1>3. CASE pc'[v] \notin Holding
  BY <1>3 DEF HandFits, Holding
<1> QED
  BY <1>2, <1>3

\* The clock, a timeout and the end of a round change nothing at risk.
LEMMA PassingExposure ==
  ASSUME TypeInv, TypeInv', OpenInv, OpenInv', ExposureInv,
         \/ Tick \/ (\E t \in Timeout : Elapse(t))
         \/ \E w \in Watcher : ReplyAccepted(w) \/ RoundFails(w) \/ Crash(w)
         \/ UNCHANGED vars
  PROVE  ExposureInv' /\ cycle' = cycle /\ position' = position
<1> USE DEF clockVars, watcherVars, exchangeVars
<1>0. hour \in Int
  BY DEF TypeInv, TypeOK
<1>1. /\ cycle' = cycle /\ position' = position /\ sent' = sent
      /\ hour' \in Int /\ hour <= hour'
      /\ \/ UNCHANGED watcherVars
         \/ \E w \in Watcher : EndRound(w)
  BY <1>0 DEF Tick, Elapse, ReplyAccepted, RoundFails, ReadFails, SendRaises, ReplyLost,
              Crash, vars
<1>2. SnapsKept /\ \A v \in Watcher : pc'[v] \in Holding =>
                      pc'[v] = pc[v] /\ intent'[v] = intent[v]
  <2>1. CASE UNCHANGED watcherVars
    BY <2>1 DEF SnapsKept
  <2> QED
    BY <1>1, <2>1, EndRoundForgets, EndRoundLetsGo
<1>3. \A v \in Watcher : HandFits(v)'
  BY <1>1, <1>2, HandsStayFit
<1>4. cycle # NoCycle => cycle.hour \in Int
  BY DEF TypeInv, TypeOK, Cycle
<1>5. SnapDated' /\ SeenFlat'
  BY <1>1, <1>2, <1>4, SnapsStayTrue DEF ExposureInv
<1>6. OpensFit'
  <2> SUFFICES ASSUME NEW o \in sent, ~o.reduces
               PROVE  /\ o.cutoff
                      /\ o.hour = hour' =>
                            position = 0 /\ cycle # NoCycle /\ o.size = cycle.target
    BY <1>1 DEF OpensFit
  <2>1. o.hour <= hour /\ o.hour \in Int
    BY <1>0, OpenDates
  <2>2. o.hour = hour' => hour' = hour
    BY <1>0, <1>1, <2>1
  <2> QED
    BY <2>2 DEF ExposureInv, OpensFit
<1>7. WithinTarget'
  BY <1>1 DEF ExposureInv, WithinTarget
<1> QED
  BY <1>1, <1>3, <1>5, <1>6, <1>7 DEF ExposureInv

\* What Process plans fits the account and the reconciled cycle.
LEMMA ProcessPlans ==
  ASSUME TypeInv, ExposureInv, NEW w \in Watcher, Process(w)
  PROVE  /\ cycle # NoCycle => cycle'.target = cycle.target
         /\ \/ EndRound(w)
            \/ LET i == intent'[w]
               IN  /\ pc' = [pc EXCEPT ![w] = "intend"]
                   /\ snap' = [snap EXCEPT ![w] = BlankSnap]
                   /\ i.act = "OPEN" => position = 0 /\ i.size = i.cycle.target
                   /\ i.act # "OPEN" => Active(cycle') /\ cycle'.target = i.cycle.target
                   /\ i.act \in {"OPEN", "ADJUST", "CLOSE"} => Active(i.cycle)
<1> DEFINE s == snap[w]
           r == Reconciled(cycle, s, Now)
           d == Decision(r, s, Now)
           size == CASE d = "OPEN"   -> NewCycle(s).target
                     [] d = "ADJUST" -> Sign(-s.pos) * (Size(s.pos) - s.allowed)
                     [] d = "CLOSE"  -> -s.pos
                     [] OTHER        -> 0
           i == [act |-> d, size |-> size, cycle |-> Intended(r, s, Now, d)]
<1>1. s \in Snapshot /\ Now \in Moment /\ cycle \in Cycle \cup {NoCycle}
  BY DEF TypeInv, TypeOK, Now, Moment
<1>2. /\ r \in Cycle \cup {NoCycle}
      /\ cycle # NoCycle => r.hour = cycle.hour /\ r # NoCycle
  BY <1>1, ReconciledKeeps
<1>3. cycle # NoCycle => r.target = cycle.target
  BY <1>1, ReconciledTarget
<1>4. /\ cycle' = r /\ pc[w] = "process"
      /\ \/ EndRound(w)
         \/ /\ d # "HOLD"
            /\ pc' = [pc EXCEPT ![w] = "intend"]
            /\ intent' = [intent EXCEPT ![w] = i]
            /\ snap' = [snap EXCEPT ![w] = BlankSnap]
  BY DEF Process, Goto
<1>5. ASSUME d # "HOLD"
      PROVE  /\ i.act = "OPEN" => position = 0 /\ i.size = i.cycle.target
             /\ i.act # "OPEN" => Active(r) /\ r.target = i.cycle.target
             /\ i.act \in {"OPEN", "ADJUST", "CLOSE"} => Active(i.cycle)
  <2>1. /\ d \in Acts
        /\ d = "OPEN" => MayOpen(r, s, Now)
        /\ d # "OPEN" => Active(r)
    BY <1>5, DecisionKinds
  <2>2. CASE d = "OPEN"
    <3>1. /\ s.hour = hour /\ phase = "window" /\ s.pos = 0
          /\ r # NoCycle => r.hour # s.hour
      BY <2>1, <2>2 DEF MayOpen, Now
    <3>2. position = 0
      BY <1>2, <1>4, <3>1 DEF ExposureInv, SeenFlat, Informed
    <3>3. s.hour < Hours
      BY <3>1 DEF TypeInv, ClockOK
    <3>4. NewCycle(s) \in Cycle /\ NewCycle(s).status = "ARMED"
      BY <1>1, <3>3, NewCycleType DEF NewCycle
    <3>5. Active(NewCycle(s))
      BY <3>4, CycleIsNotNone DEF Active, TerminalStatus
    <3>6. Intended(r, s, Now, d) = NewCycle(s) /\ size = NewCycle(s).target
      BY <2>2 DEF Intended
    <3> HIDE DEF size, d, s, r
    <3> QED
      BY <2>2, <3>2, <3>5, <3>6
  <2>3. CASE d # "OPEN"
    <3>1. r \in Cycle /\ Active(r)
      BY <1>2, <2>1, <2>3 DEF Active
    <3> HIDE DEF d, s, r, size
    <3>2. /\ Intended(r, s, Now, d).target = r.target
          /\ d \in {"ADJUST", "CLOSE"} => Active(Intended(r, s, Now, d))
      BY <1>1, <2>1, <2>3, <3>1, IntendedTarget DEF s
    <3> QED
      BY <2>3, <3>1, <3>2
  <2> QED
    BY <2>2, <2>3
<1> HIDE DEF i, d, r
<1>6. CASE ~EndRound(w)
  <2>1. intent'[w] = i
    BY <1>4, <1>6 DEF TypeInv, TypeOK
  <2> QED
    BY <1>3, <1>4, <1>5, <1>6, <2>1
<1> QED
  BY <1>3, <1>4, <1>6

\* Reconciling and planning.
LEMMA ProcessExposure ==
  ASSUME TypeInv, TypeInv', OpenInv, OpenInv', ExposureInv, NEW w \in Watcher, Process(w)
  PROVE  ExposureInv' /\ Stays /\ position' = position
<1>1. /\ cycle' = NoCycle <=> cycle = NoCycle
      /\ cycle # NoCycle => cycle'.hour = cycle.hour /\ cycle'.target = cycle.target
      /\ cycle # NoCycle /\ ~Active(cycle) => cycle' = cycle
      /\ LockFree /\ UNCHANGED <<hour, position, sent>>
  BY ProcessFacts, ProcessPlans DEF exchangeVars
<1>2. /\ hour \in Int
      /\ cycle # NoCycle => cycle.hour \in Int
  BY DEF TypeInv, TypeOK, Cycle
<1>3. SnapsKept
  <2>1. CASE EndRound(w)
    BY <2>1, EndRoundForgets
  <2>2. CASE pc' = [pc EXCEPT ![w] = "intend"] /\ snap' = [snap EXCEPT ![w] = BlankSnap]
    BY <2>2 DEF SnapsKept, Reading, TypeInv, TypeOK
  <2> QED
    BY <2>1, <2>2, ProcessPlans
<1>4. SnapDated' /\ SeenFlat'
  BY <1>1, <1>2, <1>3, SnapsStayTrue DEF ExposureInv
<1>5. ASSUME NEW v \in Watcher PROVE HandFits(v)'
  <2>1. CASE v # w \/ EndRound(w)
    <3>1. pc'[v] \notin Holding
      BY <1>1, <2>1, ProcessPlans DEF LockFree, EndRound, Goto, Holding, TypeInv, TypeOK
    <3> QED
      BY <3>1 DEF HandFits, Holding
  <2>2. CASE v = w /\ ~EndRound(w)
    <3>1. pc'[w] = "intend"
      BY <2>2, ProcessPlans DEF TypeInv, TypeOK
    <3> QED
      BY <1>1, <2>2, <3>1, ProcessPlans DEF HandFits
  <2> QED
    BY <2>1, <2>2
<1>6. OpensFit' /\ WithinTarget'
  BY <1>1 DEF ExposureInv, OpensFit, WithinTarget
<1> QED
  BY <1>1, <1>4, <1>5, <1>6 DEF ExposureInv, Stays

(* The holder w of the lock goes on to a later label.                      *)
GoesOn(w, l) ==
    /\ pc[w] \in Holding /\ pc' = [pc EXCEPT ![w] = l] /\ snap' = snap
    /\ l \in Holding
    /\ \A v \in Watcher : v # w => intent'[v] = intent[v]

\* Nobody else has the lock, and nobody reads.
LEMMA OthersWait ==
  ASSUME TypeInv, OpenInv, NEW w \in Watcher, NEW l, GoesOn(w, l)
  PROVE  /\ SnapsKept
         /\ pc'[w] = l
         /\ \A v \in Watcher : v # w => pc'[v] \notin Holding /\ HandFits(v)'
<1>1. pc'[w] = l /\ \A v \in Watcher : v # w => pc'[v] = pc[v] /\ pc[v] \notin Holding
  BY DEF GoesOn, TypeInv, TypeOK, OpenInv, LockOK
<1>2. SnapsKept
  BY <1>1 DEF SnapsKept, GoesOn, Reading, Holding
<1>3. \A v \in Watcher : v # w => HandFits(v)'
  BY <1>1 DEF HandFits, Holding
<1> QED
  BY <1>1, <1>2, <1>3

\* Storing the intent: an open replaces a cycle whose opens are void and
\* whose hedge is gone, everything else is of the stored cycle.
LEMMA IntendExposure ==
  ASSUME TypeInv, TypeInv', OpenInv, OpenInv', ExposureInv, NEW w \in Watcher, Intend(w)
  PROVE  ExposureInv' /\ Stays /\ position' = position
<1> DEFINE i == intent[w]
<1>1. pc[w] = "intend" /\ cycle' = i.cycle /\ UNCHANGED <<hour, position, sent>>
  BY DEF Intend, exchangeVars
<1>2. i \in Plan /\ i.cycle \in Cycle /\ i.cycle.hour \in Int /\ cycle' # NoCycle
  BY <1>1, HolderPlans, CycleIsNotNone DEF Holding
<1>3. hour \in Int /\ (cycle # NoCycle => cycle.hour \in Int)
  BY DEF TypeInv, TypeOK, Cycle
<1>4. InHand(w) /\ HandFits(w)
  BY DEF OpenInv, ExposureInv
<1>5. /\ i.act = "OPEN" => /\ position = 0 /\ i.cycle.hour <= hour
                           /\ cycle # NoCycle => cycle.hour < i.cycle.hour
      /\ i.act # "OPEN" => /\ cycle # NoCycle /\ Active(cycle)
                           /\ cycle.hour = i.cycle.hour /\ cycle.target = i.cycle.target
  BY <1>1, <1>4 DEF InHand, HandFits
<1>6. Stays
  BY <1>1, <1>2, <1>3, <1>5 DEF Stays
<1>7. WithinTarget'
  BY <1>1, <1>2, <1>5 DEF ExposureInv, WithinTarget
<1>8. OpensFit'
  <2> SUFFICES ASSUME NEW o \in sent, ~o.reduces
               PROVE  /\ o.cutoff
                      /\ o.hour = hour => position = 0 /\ o.size = cycle'.target
    BY <1>1, <1>2 DEF OpensFit
  <2>1. o.hour <= cycle.hour /\ o.hour \in Int /\ cycle.hour \in Int /\ cycle # NoCycle
    BY OpenDates
  <2>2. i.act = "OPEN" => o.hour # hour
    BY <1>2, <1>3, <1>5, <2>1
  <2> QED
    BY <1>1, <1>5, <2>2 DEF ExposureInv, OpensFit
<1>9. SnapsKept => SnapDated' /\ SeenFlat'
  BY <1>1, <1>2, <1>3, <1>5, SnapsStayTrue DEF ExposureInv
<1>10. CASE i.act \in {"WAIT", "RECOVERY"}
  <2>1. EndRound(w)
    BY <1>10 DEF Intend
  <2>2. \A v \in Watcher : pc'[v] \notin Holding
    BY <1>1, <2>1 DEF EndRound, Goto, OpenInv, LockOK, Holding, TypeInv, TypeOK
  <2>3. \A v \in Watcher : HandFits(v)'
    BY <2>2 DEF HandFits, Holding
  <2> QED
    BY <1>1, <1>6, <1>7, <1>8, <1>9, <2>1, <2>3, EndRoundForgets DEF ExposureInv
<1>11. CASE i.act \notin {"WAIT", "RECOVERY"}
  <2> DEFINE l == IF i.act = "OPEN" THEN "armed" ELSE "send"
  <2>1. GoesOn(w, l) /\ intent' = intent
    BY <1>1, <1>11 DEF Intend, Goto, GoesOn, Holding
  <2>2. i.act \in {"OPEN", "ADJUST", "CLOSE"}
    BY <1>2, <1>11 DEF Plan, Acts
  <2>3. HandFits(w)'
    BY <1>1, <1>4, <2>1, <2>2, OthersWait DEF HandFits, Holding
  <2> QED
    BY <1>1, <1>6, <1>7, <1>8, <1>9, <2>1, <2>3, OthersWait DEF ExposureInv
<1> QED
  BY <1>10, <1>11

\* The second flush of an open.
LEMMA SubmitExposure ==
  ASSUME TypeInv, TypeInv', OpenInv, OpenInv', ExposureInv, NEW w \in Watcher, SubmitOpen(w)
  PROVE  ExposureInv' /\ Stays /\ position' = position
<1> DEFINE c == [intent[w].cycle EXCEPT !.status = "OPEN_SUBMITTED"]
           i == [intent[w] EXCEPT !.cycle = c]
<1>1. /\ pc[w] = "armed" /\ UNCHANGED <<hour, position, sent, snap>>
      /\ cycle' = c /\ intent' = [intent EXCEPT ![w] = i]
      /\ pc' = [pc EXCEPT ![w] = "send"]
  BY DEF SubmitOpen, Goto, clockVars, exchangeVars
<1>2. intent[w] \in Plan /\ intent[w].cycle \in Cycle /\ intent[w].act = "OPEN"
  BY <1>1, HolderPlans DEF Holding, TypeInv, ActOK
<1>3. /\ c \in Cycle /\ c.hour = intent[w].cycle.hour /\ c.status = "OPEN_SUBMITTED"
      /\ c.target = intent[w].cycle.target /\ c # NoCycle
  BY <1>2, StatusUpdate, TargetKept, CycleIsNotNone DEF Status, ActiveStatus
<1> HIDE DEF c
<1>4. i.act = "OPEN" /\ i.cycle = c /\ i.size = intent[w].size
  BY <1>2 DEF Plan
<1> HIDE DEF i
<1>5. intent'[w] = i /\ \A v \in Watcher : v # w => intent'[v] = intent[v]
  BY <1>1 DEF TypeInv, TypeOK
<1>6. HandFits(w)
  BY DEF ExposureInv
<1>7. /\ cycle = intent[w].cycle /\ Active(cycle)
      /\ position = 0 /\ intent[w].size = intent[w].cycle.target
  BY <1>1, <1>2, <1>6 DEF HandFits, Holding
<1>8. Active(c)
  BY <1>3 DEF Active, TerminalStatus
<1>9. GoesOn(w, "send")
  BY <1>1, <1>5 DEF GoesOn, Holding
<1>10. HandFits(w)'
  BY <1>1, <1>3, <1>4, <1>5, <1>7, <1>8, <1>9, OthersWait DEF HandFits
<1>11. OpensFit' /\ WithinTarget' /\ Stays
  BY <1>1, <1>3, <1>7 DEF ExposureInv, OpensFit, WithinTarget, Stays
<1>12. hour \in Int /\ c.hour \in Int
  BY <1>3 DEF TypeInv, TypeOK, Cycle
<1>13. SnapDated' /\ SeenFlat'
  BY <1>1, <1>3, <1>7, <1>9, <1>12, OthersWait, SnapsStayTrue DEF ExposureInv
<1> QED
  BY <1>1, <1>9, <1>10, <1>11, <1>13, OthersWait DEF ExposureInv

\* Sending: the account the open will find is flat.
LEMMA SendExposure ==
  ASSUME TypeInv, TypeInv', OpenInv, OpenInv', ExposureInv, NEW w \in Watcher, Send(w)
  PROVE  ExposureInv' /\ cycle' = cycle /\ position' = position
<1> DEFINE i == intent[w]
           n == Order(i.cycle, i.act, i.size)
<1>1. /\ pc[w] = "send" /\ sent' = sent \cup {n}
      /\ UNCHANGED <<hour, cycle, position, intent, snap>>
      /\ pc' = [pc EXCEPT ![w] = "reply"]
  BY DEF Send, Goto, clockVars
<1>2. GoesOn(w, "reply")
  BY <1>1 DEF GoesOn, Holding
<1>3. HandFits(w) /\ InHand(w)
  BY DEF ExposureInv, OpenInv
<1>4. /\ cycle = i.cycle /\ cycle # NoCycle
      /\ i.act = "OPEN" => position = 0 /\ i.size = cycle.target
  BY <1>1, <1>3 DEF HandFits, InHand
<1>5. n.size = i.size /\ (~n.reduces => i.act = "OPEN" /\ n.cutoff)
  BY DEF Order
<1> HIDE DEF n
<1>6. OpensFit'
  BY <1>1, <1>4, <1>5 DEF ExposureInv, OpensFit
<1>7. WithinTarget'
  BY <1>1 DEF ExposureInv, WithinTarget
<1>8. HandFits(w)'
  BY <1>1, <1>2, <1>3, OthersWait DEF HandFits, Holding
<1>9. hour \in Int /\ cycle.hour \in Int
  BY <1>4 DEF TypeInv, TypeOK, Cycle
<1>10. SnapDated' /\ SeenFlat'
  BY <1>1, <1>2, <1>4, <1>9, OthersWait, SnapsStayTrue DEF ExposureInv
<1> QED
  BY <1>1, <1>2, <1>6, <1>7, <1>8, <1>10, OthersWait DEF ExposureInv

\* A refusal is booked on the cycle the order was sent for.
LEMMA RefusedExposure ==
  ASSUME TypeInv, TypeInv', OpenInv, OpenInv', ExposureInv, NEW w \in Watcher, ReplyRefused(w)
  PROVE  ExposureInv' /\ Stays /\ position' = position
<1> DEFINE i == intent[w]
<1>1. /\ pc[w] = "reply" /\ UNCHANGED <<hour, position, sent>> /\ EndRound(w)
      /\ cycle' = Refused(i.cycle, i.act)
  BY DEF ReplyRefused, exchangeVars
<1>2. i.act \in {"OPEN", "ADJUST", "CLOSE"} /\ i.cycle \in Cycle
  BY <1>1, HolderPlans DEF TypeInv, ActOK, Holding
<1>3. /\ cycle' \in Cycle /\ cycle'.hour = i.cycle.hour /\ cycle' # NoCycle
      /\ cycle'.target = i.cycle.target
  <2>1. Refused(i.cycle, i.act).target = i.cycle.target
    BY <1>2, TargetKept DEF Refused
  <2> QED
    BY <1>1, <1>2, <2>1, RefusedKeeps, CycleIsNotNone
<1>4. HandFits(w)
  BY DEF ExposureInv
<1>5. cycle = i.cycle /\ Active(cycle)
  BY <1>1, <1>2, <1>4 DEF HandFits, Holding
<1>6. \A v \in Watcher : HandFits(v)'
  <2>1. \A v \in Watcher : pc'[v] \notin Holding
    BY <1>1 DEF EndRound, Goto, OpenInv, LockOK, Holding, TypeInv, TypeOK
  <2> QED
    BY <2>1 DEF HandFits, Holding
<1>7. OpensFit' /\ WithinTarget' /\ Stays
  BY <1>1, <1>3, <1>5 DEF ExposureInv, OpensFit, WithinTarget, Stays
<1>8. hour \in Int /\ cycle.hour \in Int
  BY <1>2, <1>5 DEF TypeInv, TypeOK, Cycle
<1>9. SnapDated' /\ SeenFlat'
  BY <1>1, <1>3, <1>5, <1>8, EndRoundForgets, SnapsStayTrue DEF ExposureInv
<1> QED
  BY <1>1, <1>6, <1>7, <1>9 DEF ExposureInv

-----------------------------------------------------------------------------
(* The exchange.                                                           *)

\* A signed number is its sign times its size.
LEMMA SignSize ==
  ASSUME NEW n \in Int
  PROVE  /\ Sign(n) = 0 <=> n = 0
         /\ Size(n) = 0 <=> n = 0
         /\ Sign(n) \in {-1, 0, 1} /\ Size(n) \in Nat
         /\ n > 0 => Sign(n) = 1 /\ Size(n) = n
         /\ n < 0 => Sign(n) = -1 /\ Size(n) = -n
  BY DEF Sign, Size

\* What an order does to the account: nothing, or a valid open adds to it, or
\* a reduce-only order takes from it without turning it.
LEMMA ExchangeEffect ==
  ASSUME TypeInv, NEW o \in sent, Exchange(o)
  PROVE  \/ position' = position /\ (Refuse(o) \/ Lose(o))
         \/ /\ ~o.reduces /\ ~Void(o) /\ (Fill(o) \/ FillPart(o))
            /\ \E q \in 1..Size(o.size) : position' = position + Sign(o.size) * q
         \/ /\ o.reduces /\ position # 0
            /\ Size(position') < Size(position)
            /\ position' = 0 \/ Sign(position') = Sign(position)
<1>1. position \in Int /\ o.size \in Int
  BY DEF TypeInv, TypeOK
<1>2. /\ Sign(o.size) \in {-1, 0, 1} /\ Size(o.size) \in Nat
      /\ Sign(position) \in {-1, 0, 1} /\ Size(position) \in Nat
  BY <1>1, SignSize
<1>3. CASE Refuse(o) \/ Lose(o)
  BY <1>3 DEF Refuse, Lose
<1>4. CASE Fill(o) \/ FillPart(o)
  <2>1. ~Void(o) /\ \E q \in 1..Fillable(o) : position' = position + Sign(o.size) * q
    <3>1. Fillable(o) \in Nat
      BY <1>2 DEF Fillable
    <3>2. CASE Fill(o)
      BY <3>1, <3>2 DEF Fill
    <3>3. CASE FillPart(o)
      BY <3>1, <3>3 DEF FillPart
    <3> QED
      BY <1>4, <3>2, <3>3
  <2>2. CASE ~o.reduces
    BY <1>4, <2>1, <2>2 DEF Fillable
  <2>3. CASE o.reduces
    <3>1. PICK q \in 1..Fillable(o) : position' = position + Sign(o.size) * q
      BY <2>1
    <3>2. Sign(o.size) = -Sign(position) /\ q <= Size(position) /\ q >= 1 /\ q \in Int
      BY <1>2, <2>3, <3>1 DEF Fillable
    <3>3. CASE position > 0
      <4>1. Sign(position) = 1 /\ Size(position) = position
        BY <1>1, <3>3, SignSize
      <4>2. position' = position - q /\ position' \in Int /\ position' >= 0
        BY <1>1, <3>1, <3>2, <4>1
      <4> QED
        BY <1>1, <2>3, <3>2, <3>3, <4>1, <4>2 DEF Sign, Size
    <3>4. CASE position < 0
      <4>1. Sign(position) = -1 /\ Size(position) = -position
        BY <1>1, <3>4, SignSize
      <4>2. position' = position + q /\ position' \in Int /\ position' <= 0
        BY <1>1, <3>1, <3>2, <4>1
      <4> QED
        BY <1>1, <2>3, <3>2, <3>4, <4>1, <4>2 DEF Sign, Size
    <3>5. CASE position = 0
      BY <1>1, <3>2, <3>5, SignSize
    <3> QED
      BY <1>1, <3>3, <3>4, <3>5
  <2> QED
    BY <2>2, <2>3
<1> QED
  BY <1>3, <1>4 DEF Exchange

\* The exchange deals with an order: what it adds is the hedge the stored
\* cycle was opened for, on a flat account, inside the window.
LEMMA ExchangeExposure ==
  ASSUME TypeInv, TypeInv', OpenInv, OpenInv', ExposureInv, NEW o \in sent, Exchange(o)
  PROVE  ExposureInv' /\ cycle' = cycle /\ InTime
<1>1. sent' = sent \ {o} /\ UNCHANGED <<hour, phase, cycle, pc, intent, snap>>
  BY DEF Exchange, Fill, FillPart, Refuse, Lose, Decided, clockVars, watcherVars
<1>2. /\ position \in Int /\ position' \in Int /\ o.size \in Int /\ hour \in Int
      /\ cycle # NoCycle => cycle.hour \in Int
  BY DEF TypeInv, TypeOK, Cycle
<1>3. SnapsKept
  BY <1>1 DEF SnapsKept
<1>4. CASE position' = position
  <2>1. \A v \in Watcher : HandFits(v)'
    BY <1>1, <1>4, HandsStayFit
  <2>2. OpensFit' /\ WithinTarget'
    BY <1>1, <1>4 DEF ExposureInv, OpensFit, WithinTarget
  <2>3. SnapDated' /\ SeenFlat'
    BY <1>1, <1>2, <1>3, <1>4, SnapsStayTrue DEF ExposureInv
  <2>4. InTime
    BY <1>2, <1>4, SizeTypes DEF InTime
  <2> QED
    BY <1>1, <2>1, <2>2, <2>3, <2>4 DEF ExposureInv
<1>5. CASE /\ ~o.reduces /\ ~Void(o)
           /\ \E q \in 1..Size(o.size) : position' = position + Sign(o.size) * q
  <2>1. hour = o.hour /\ phase = "window"
    BY <1>5 DEF Void, BeforeCutoff, ExposureInv, OpensFit
  <2>2. cycle # NoCycle /\ cycle.hour = hour
    BY <1>2, <1>5, <2>1, OpenDates
  <2>3. position = 0 /\ o.size = cycle.target
    BY <1>5, <2>1 DEF ExposureInv, OpensFit
  <2>4. WithinTarget'
    <3>1. PICK q \in 1..Size(o.size) : position' = position + Sign(o.size) * q
      BY <1>5
    <3>2. CASE o.size > 0
      <4>1. Sign(o.size) = 1 /\ Size(o.size) = o.size
        BY <1>2, <3>2, SignSize
      <4>2. position' = q /\ q \in 1..o.size
        BY <2>3, <3>1, <4>1
      <4>3. Sign(position') = 1 /\ Size(position') = q
        BY <1>2, <4>2, SignSize
      <4> QED
        BY <1>1, <1>2, <2>2, <2>3, <4>1, <4>2, <4>3 DEF WithinTarget
    <3>3. CASE o.size < 0
      <4>1. Sign(o.size) = -1 /\ Size(o.size) = -o.size
        BY <1>2, <3>3, SignSize
      <4>2. position' = -q /\ q \in 1..(-o.size)
        BY <2>3, <3>1, <4>1
      <4>3. Sign(position') = -1 /\ Size(position') = q
        BY <1>2, <4>2, SignSize
      <4> QED
        BY <1>1, <1>2, <2>2, <2>3, <4>1, <4>2, <4>3 DEF WithinTarget
    <3>4. CASE o.size = 0
      BY <1>2, <3>1, <3>4, SignSize
    <3> QED
      BY <1>2, <3>2, <3>3, <3>4
  <2>5. OpensFit'
    <3> SUFFICES ASSUME NEW p \in sent, p # o, ~p.reduces
                 PROVE  p.cutoff /\ p.hour # hour
      BY <1>1 DEF OpensFit
    <3> QED
      BY <1>5, <2>1 DEF ExposureInv, OpensFit, OpenInv, Single
  <2>6. ASSUME NEW v \in Watcher PROVE HandFits(v)'
    <3>1. HandFits(v) /\ InHand(v)
      BY DEF ExposureInv, OpenInv
    <3>2. Used(hour)
      BY <1>5, <2>1 DEF Used
    <3>3. ~(pc[v] \in {"intend", "armed", "send"} /\ intent[v].act = "OPEN")
      <4> SUFFICES ASSUME pc[v] \in {"intend", "armed", "send"}, intent[v].act = "OPEN"
                   PROVE  FALSE
        OBVIOUS
      <4>1. intent[v].cycle.hour \in Int
        BY HolderPlans DEF Holding
      <4>2. CASE pc[v] = "intend"
        BY <1>2, <2>2, <3>1, <4>1, <4>2 DEF InHand
      <4>3. CASE pc[v] \in {"armed", "send"}
        BY <2>2, <3>1, <3>2, <4>3 DEF InHand
      <4> QED
        BY <4>2, <4>3
    <3> QED
      BY <1>1, <3>1, <3>3 DEF HandFits
  <2>7. SnapDated' /\ SeenFlat'
    BY <1>1, <1>2, <1>3, <2>2, SnapsStayTrue DEF ExposureInv
  <2> QED
    BY <1>1, <2>1, <2>2, <2>4, <2>5, <2>6, <2>7 DEF ExposureInv, InTime
<1>6. CASE /\ o.reduces /\ position # 0
           /\ Size(position') < Size(position)
           /\ position' = 0 \/ Sign(position') = Sign(position)
  <2>1. WithinTarget'
    <3>1. position' # 0 =>
             /\ cycle # NoCycle /\ Sign(position') = Sign(cycle.target)
             /\ Size(position) <= Size(cycle.target) /\ Size(position') < Size(position)
      BY <1>6 DEF ExposureInv, WithinTarget
    <3>2. cycle # NoCycle => Size(cycle.target) \in Nat
      BY SizeTypes DEF TypeInv, TypeOK, Cycle
    <3>3. Size(position) \in Nat /\ Size(position') \in Nat
      BY <1>2, SizeTypes
    <3> QED
      BY <1>1, <3>1, <3>2, <3>3 DEF WithinTarget
  <2>2. OpensFit'
    BY <1>1, <1>6 DEF ExposureInv, OpensFit
  <2>3. ASSUME NEW v \in Watcher PROVE HandFits(v)'
    <3>1. HandFits(v)
      BY DEF ExposureInv
    <3> QED
      BY <1>1, <1>6, <3>1 DEF HandFits
  <2>4. SnapDated' /\ SeenFlat'
    BY <1>1, <1>2, <1>3, <1>6, SnapsStayTrue DEF ExposureInv
  <2>5. InTime
    BY <1>2, <1>6, SizeTypes DEF InTime
  <2> QED
    BY <1>1, <2>1, <2>2, <2>3, <2>4, <2>5 DEF ExposureInv
<1> QED
  BY <1>4, <1>5, <1>6, ExchangeEffect

-----------------------------------------------------------------------------
\* Every step keeps the invariant, leaves a finished cycle alone and adds
\* exposure only in time.
LEMMA NextExposure ==
  ASSUME TypeInv, TypeInv', OpenInv, OpenInv', ExposureInv, [Next]_vars
  PROVE  ExposureInv' /\ Stays /\ InTime
<1>1. position \in Int
  BY DEF TypeInv, TypeOK
<1>2. position' = position => InTime
  BY <1>1, SizeTypes DEF InTime
<1>3. cycle' = cycle => Stays
  BY DEF Stays
<1>4. CASE \/ Tick \/ (\E t \in Timeout : Elapse(t))
           \/ \E w \in Watcher : ReplyAccepted(w) \/ RoundFails(w) \/ Crash(w)
           \/ UNCHANGED vars
  BY <1>2, <1>3, <1>4, PassingExposure
<1>5. CASE \E w \in Watcher : Load(w) \/ ReadPositions(w) \/ ReadOrders(w) \/ Preview(w)
  BY <1>2, <1>3, <1>5, ReadingExposure
<1>6. CASE \E w \in Watcher : \/ Process(w) \/ Intend(w) \/ SubmitOpen(w) \/ Send(w)
                              \/ ReplyRefused(w)
  BY <1>2, <1>3, <1>6, ProcessExposure, IntendExposure, SubmitExposure, SendExposure,
     RefusedExposure
<1>7. CASE \E o \in sent : Exchange(o)
  BY <1>3, <1>7, ExchangeExposure
<1> QED
  BY <1>4, <1>5, <1>6, <1>7 DEF Next, Round

\* The three invariants hold together.
LEMMA AllInvariant == Spec => [](TypeInv /\ OpenInv /\ ExposureInv)
<1>1. Init => TypeInv /\ OpenInv /\ ExposureInv
  BY InitTypes, InitOpens, InitExposure
<1>2. TypeInv /\ OpenInv /\ ExposureInv /\ [Next]_vars => (TypeInv /\ OpenInv /\ ExposureInv)'
  BY NextTypes, NextOpens, NextExposure
<1> QED
  BY <1>1, <1>2, PTL DEF Spec

\* What is at risk on the hedge account never exceeds the hedge the stored
\* cycle was opened for and never points the other way: no watcher that acts
\* on an old snapshot adds a second hedge to a first or turns it.
THEOREM NeverOverHedged == Spec => []WithinTarget
<1>1. ExposureInv => WithinTarget
  BY DEF ExposureInv
<1> QED
  BY <1>1, AllInvariant, PTL

\* A finished cycle stays as it is until a later settlement replaces it: no
\* reply, no timeout and no old snapshot brings it back.
THEOREM FinishedForGood == Spec => FinishedStays
<1>1. TypeInv /\ OpenInv /\ ExposureInv /\ (TypeInv /\ OpenInv /\ ExposureInv)' /\ [Next]_vars
        => [Stays]_vars
  BY NextExposure
<1> QED
  BY <1>1, AllInvariant, PTL DEF Spec, FinishedStays, Stays

\* Exposure is only added inside the opening window of the settlement it is
\* meant for, however slow the request was.
THEOREM NeverLate == Spec => OpensInTime
<1>1. TypeInv /\ OpenInv /\ ExposureInv /\ (TypeInv /\ OpenInv /\ ExposureInv)' /\ [Next]_vars
        => [InTime]_vars
  BY NextExposure
<1> QED
  BY <1>1, AllInvariant, PTL DEF Spec, OpensInTime, InTime

-----------------------------------------------------------------------------
(***************************************************************************)
(* No hedge is forgotten, where one watcher runs on a state file: a cycle  *)
(* is COMPLETED only when its hedge is gone for good and, where no order   *)
(* lands after the account was read again, a live hedge belongs to an      *)
(* active cycle.                                                           *)
(*                                                                         *)
(* With two watchers both fail: a snapshot from before the open of the     *)
(* other one ends the cycle of a live hedge.  With one, nobody stores a    *)
(* cycle between its snapshot and its lock, so the snapshot is as good as  *)
(* what the exchange did since; and a cycle that is past its opening is of *)
(* a settlement whose one open has been filled, so the exchange can only   *)
(* have reduced the position (FlatInv).                                    *)
(***************************************************************************)
OneWatcher == \A v, w \in Watcher : v = w

(* The statuses that are only reached past the opening of the hedge.       *)
PastOpening == {"OPEN_PARTIAL", "HEDGED", "AWAITING_FUNDING",
                "CLOSE_SUBMITTED", "CLOSE_PARTIAL", "COMPLETED"}
Hedging(c) == c.status \in PastOpening \/ c.pending
Opened(c) == opened[c.hour] > 0

(* A position, a snapshot of one and a cycle past its opening are all of a *)
(* settlement whose open has been filled.                                  *)
PositionOpened == position # 0 => Opened(cycle)
CycleOpened == cycle # NoCycle /\ Hedging(cycle) => Opened(cycle)
SnapOpened ==
    \A w \in Watcher : pc[w] \in Informed /\ snap[w].pos # 0 => cycle # NoCycle /\ Opened(cycle)
HandOpened ==
    \A w \in Watcher : pc[w] \in Holding =>
        /\ Hedging(intent[w].cycle) => Opened(intent[w].cycle)
        /\ intent[w].cycle.status # "COMPLETED"
        /\ intent[w].act = "CLOSE" => intent[w].cycle.status = "CLOSE_SUBMITTED"

(* An account seen flat past the opening is flat still.                    *)
SnapFlat ==
    \A w \in Watcher :
        pc[w] \in Informed /\ snap[w].pos = 0 /\ cycle # NoCycle /\ Hedging(cycle) => position = 0
EndedFlat == cycle # NoCycle /\ cycle.status = "COMPLETED" => position = 0

FlatInv ==
    /\ PositionOpened /\ CycleOpened /\ SnapOpened /\ HandOpened
    /\ SnapFlat /\ EndedFlat

-----------------------------------------------------------------------------
(* Orders are known by their identity: the open of a settlement, and the   *)
(* adjustments of its cycle in their order.                                *)
OpenKey(h) == <<"open", h, 1>>
Keys == DOMAIN fate \cup {o.id : o \in sent}

(* Nothing is on its way while the watcher has read the account and not    *)
(* stored its intent yet; what it has read of the cycle still holds.       *)
ReadTrue ==
    \A w \in Watcher :
        /\ pc[w] \in Informed => sent = {} /\ position = snap[w].pos
        /\ pc[w] \in {"positions", "orders"} => view[w] = cycle
        /\ pc[w] \in {"preview", "process"} /\ snap[w].adjust = "filled" =>
              cycle # NoCycle /\ AdjustId(cycle) \in DOMAIN fate /\ fate[AdjustId(cycle)] = "filled"

(* What the watcher is about to store and to send.                         *)
IntentTrue ==
    \A w \in Watcher :
        LET i == intent[w]
        IN  /\ pc[w] \in {"intend", "armed", "send"} => sent = {}
            /\ pc[w] = "intend" /\ i.act = "OPEN" => ~i.cycle.pending
            /\ pc[w] = "intend" /\ i.act = "RECOVERY" => position = 0
            /\ pc[w] = "intend" /\ i.act = "WAIT" => Active(i.cycle)
            /\ pc[w] = "intend" /\ i.act = "ADJUST" =>
                  i.cycle.pre = position /\ i.cycle.adjusts = cycle.adjusts + 1
            /\ pc[w] = "intend" /\ i.act \notin {"OPEN", "ADJUST"} =>
                  /\ i.cycle.pending = cycle.pending /\ i.cycle.pre = cycle.pre
                  /\ i.cycle.adjusts = cycle.adjusts
            /\ pc[w] \in {"armed", "send"} /\ i.act = "OPEN" =>
                  OpenKey(i.cycle.hour) \notin DOMAIN fate

(* The identities of the orders, on their way or dealt with.               *)
KeysFit ==
    /\ \A o \in sent : o.reduces => o.id[1] # "open"
    /\ \A o \in sent : ~o.reduces => o.id = OpenKey(o.hour)
    /\ \A h \in 0..(Hours - 1) : OpenKey(h) \in DOMAIN fate =>
          /\ cycle # NoCycle /\ h <= cycle.hour
          /\ \A o \in sent : o.reduces \/ o.hour # h
          /\ fate[OpenKey(h)] = "refused" => opened[h] = 0
    /\ \A id \in Keys : id[1] = "adjust" =>
          /\ cycle # NoCycle /\ id[2] \in Nat /\ id[3] \in Nat
          /\ id[2] <= cycle.hour
          /\ id[2] = cycle.hour => id[3] <= cycle.adjusts

(* An adjustment that was filled has made the position smaller.            *)
AdjustTrue ==
    cycle # NoCycle /\ cycle.pending =>
        /\ Size(position) <= Size(cycle.pre)
        /\ AdjustId(cycle) \in DOMAIN fate /\ fate[AdjustId(cycle)] = "filled" =>
              Size(position) < Size(cycle.pre)

(* An open that can still be filled is of an active cycle.                 *)
OpensTracked == \A o \in sent : ~o.reduces /\ o.hour = hour => Active(cycle)

TrackInv ==
    /\ ReadTrue /\ IntentTrue /\ KeysFit /\ AdjustTrue /\ OpensTracked /\ Tracked

-----------------------------------------------------------------------------
(* What the policy makes of a cycle.                                       *)

\* The fields that an update leaves, and those it sets.
LEMMA FieldsKept ==
  ASSUME NEW c \in Cycle, NEW st, NEW b, NEW n
  PROVE  /\ LET e == [c EXCEPT !.status = st]
            IN e.status = st /\ e.pending = c.pending /\ e.pre = c.pre /\ e.adjusts = c.adjusts
         /\ LET e == [c EXCEPT !.status = st, !.confirmed = b]
            IN e.status = st /\ e.pending = c.pending /\ e.pre = c.pre /\ e.adjusts = c.adjusts
         /\ LET e == [c EXCEPT !.pending = FALSE, !.pre = 0]
            IN e.status = c.status /\ e.pending = FALSE /\ e.adjusts = c.adjusts
         /\ LET e == [c EXCEPT !.pending = FALSE, !.pre = 0, !.status = "HEDGED"]
            IN e.status = "HEDGED" /\ e.pending = FALSE /\ e.adjusts = c.adjusts
         /\ LET e == [c EXCEPT !.status = "CLOSE_SUBMITTED", !.closes = @ + 1]
            IN e.pending = c.pending /\ e.pre = c.pre /\ e.adjusts = c.adjusts
         /\ LET e == [c EXCEPT !.adjusts = @ + 1, !.pending = TRUE, !.pre = n]
            IN e.pre = n /\ e.adjusts = c.adjusts + 1
  BY DEF Cycle

\* Reconciliation takes a cycle past its opening on the sight of a position
\* only, completes it past its opening and on the sight of a flat account
\* only, and ends an active cycle on the sight of a position only if an
\* adjustment was filled and has changed nothing.
LEMMA ReconciledHedging ==
  ASSUME NEW c \in Cycle, Active(c), NEW s, NEW now
  PROVE  LET r == Reconciled(c, s, now) IN
         /\ Hedging(r) => Hedging(c) \/ s.pos # 0
         /\ r.status = "COMPLETED" => Hedging(c) /\ s.pos = 0
         /\ r.status \in TerminalStatus /\ s.pos # 0 =>
               c.pending /\ s.adjust = "filled" /\ ~(Size(s.pos) < Size(c.pre))
         /\ r.pending => c.pending /\ r.pre = c.pre
         /\ r.adjusts = c.adjusts
<1> DEFINE a == ReconcileAdjust(c, s, now)
           st == ReconciledStatus(a, s, now)
           b == a.confirmed \/ s.confirmed
           r == Reconciled(c, s, now)
<1>1. /\ a \in Cycle /\ a.adjusts = c.adjusts
      /\ \/ a = c
         \/ c.pending /\ a.status = "HEDGED" /\ a.pending = FALSE
         \/ /\ a.status = "RECOVERY_REQUIRED" /\ a.pending = c.pending /\ a.pre = c.pre
            /\ c.pending /\ s.adjust = "filled" /\ ~(Size(s.pos) < Size(c.pre))
  <2> DEFINE f == [c EXCEPT !.pending = FALSE, !.pre = 0, !.status = "HEDGED"]
             g == [c EXCEPT !.status = "RECOVERY_REQUIRED"]
             unmoved == s.pos = c.pre
             ended == \/ Size(s.pos) < Size(c.pre)
                      \/ s.adjust = "canceled"
                      \/ s.adjust # "filled" /\ unmoved /\ "adjust" \in now.waited
  <2>1. a = IF ~c.pending THEN c
            ELSE IF ended THEN f
                 ELSE IF s.adjust = "filled" /\ unmoved THEN g ELSE c
    BY DEF ReconcileAdjust
  <2>2. ~ended => ~(Size(s.pos) < Size(c.pre))
    OBVIOUS
  <2>3. f \in Cycle /\ f.status = "HEDGED" /\ f.pending = FALSE /\ f.adjusts = c.adjusts
    BY AdjustEnds, FieldsKept
  <2>4. /\ g \in Cycle /\ g.status = "RECOVERY_REQUIRED" /\ g.pending = c.pending
        /\ g.pre = c.pre /\ g.adjusts = c.adjusts
    <3>1. "RECOVERY_REQUIRED" \in Status
      BY DEF Status, TerminalStatus
    <3> QED
      BY <3>1, StatusUpdate, FieldsKept
  <2> HIDE DEF a, f, g, unmoved, ended
  <2> QED
    BY <2>1, <2>2, <2>3, <2>4
<1>2. c.status \in ActiveStatus
  BY DEF Active, Cycle
<1> HIDE DEF a
<1>3. r = [a EXCEPT !.status = st, !.confirmed = b]
  BY DEF Reconciled, a
<1>4. r.status = st /\ r.pending = a.pending /\ r.pre = a.pre /\ r.adjusts = a.adjusts
  <2> HIDE DEF st, b
  <2> QED
    BY <1>1, <1>3, FieldsKept
<1>5. /\ st \in PastOpening => a.status \in PastOpening \/ s.pos # 0
      /\ st = "COMPLETED" => a.status \in ClosingStatus \cup {"COMPLETED"}
      /\ st = "COMPLETED" /\ a.status \in ClosingStatus => s.pos = 0
      /\ st \in TerminalStatus /\ s.pos # 0 => a.status \in TerminalStatus
  <2> DEFINE o == IF a.status \in OpeningStatus THEN OpenStatus(a, s, now) ELSE a.status
             e == IF o \in ClosingStatus THEN CloseStatus([a EXCEPT !.status = o], s, now) ELSE o
  <2>1. /\ a.status \in OpeningStatus =>
              IF s.pos # 0 THEN o \in {"OPEN_PARTIAL", "HEDGED"}
              ELSE o \in {"ABORTED", "RECOVERY_REQUIRED", a.status}
        /\ a.status \notin OpeningStatus => o = a.status
    BY DEF OpenStatus
  <2>2. [a EXCEPT !.status = o].status = o
    BY <1>1, FieldsKept
  <2>3. /\ o \in ClosingStatus =>
              IF s.pos = 0 THEN e = "COMPLETED" ELSE e \in {"CLOSE_PARTIAL", o}
        /\ o \notin ClosingStatus => e = o
    BY <2>2 DEF CloseStatus
  <2>4. st = e \/ (e \in {"HEDGED", "OPEN_PARTIAL"} /\ st = "AWAITING_FUNDING")
    BY DEF ReconciledStatus
  <2> HIDE DEF o, e, st
  <2> QED
    BY <2>1, <2>3, <2>4 DEF PastOpening, ClosingStatus, OpeningStatus, TerminalStatus
<1> HIDE DEF st, r
<1>6. Hedging(r) => Hedging(c) \/ s.pos # 0
  BY <1>1, <1>4, <1>5 DEF Hedging, PastOpening
<1>7. r.status = "COMPLETED" => Hedging(c) /\ s.pos = 0
  BY <1>1, <1>2, <1>4, <1>5 DEF Hedging, PastOpening, ClosingStatus, ActiveStatus
<1>8. r.status \in TerminalStatus /\ s.pos # 0 =>
         c.pending /\ s.adjust = "filled" /\ ~(Size(s.pos) < Size(c.pre))
  BY <1>1, <1>2, <1>4, <1>5 DEF ActiveStatus, TerminalStatus
<1>9. (r.pending => c.pending /\ r.pre = c.pre) /\ r.adjusts = c.adjusts
  BY <1>1, <1>4
<1> QED
  BY <1>6, <1>7, <1>8, <1>9 DEF r

\* What is decided on the sight of a position, and of a flat account.
LEMMA DecisionSees ==
  ASSUME NEW c, NEW s, NEW now
  PROVE  /\ Decision(c, s, now) \in {"WAIT", "ADJUST", "CLOSE"} => s.pos # 0
         /\ Decision(c, s, now) = "RECOVERY" => s.pos = 0
  BY DEF Decision

\* What is intended for an active cycle is past the opening.
LEMMA IntendedHedging ==
  ASSUME NEW c \in Cycle, Active(c), NEW s \in Snapshot, NEW now, NEW d \in Acts \ {"OPEN"}
  PROVE  LET i == Intended(c, s, now, d) IN
         /\ i.status # "COMPLETED"
         /\ d = "RECOVERY" /\ Hedging(i) => Hedging(c)
         /\ d # "RECOVERY" => i.status \notin TerminalStatus
         /\ d = "CLOSE" => i.status = "CLOSE_SUBMITTED"
         /\ d = "ADJUST" => i.pre = s.pos /\ i.adjusts = c.adjusts + 1
         /\ d # "ADJUST" => i.pending = c.pending /\ i.pre = c.pre /\ i.adjusts = c.adjusts
<1> USE DEF Intended
<1>0. c.status \notin TerminalStatus
  BY DEF Active
<1>1. CASE d = "WAIT"
  <2> DEFINE st == IF Settled(c.hour, now) THEN "AWAITING_FUNDING"
                   ELSE IF Size(s.pos) < Size(c.target)
                        THEN "OPEN_PARTIAL" ELSE "HEDGED"
             b == c.confirmed \/ s.confirmed
             e == [c EXCEPT !.status = st, !.confirmed = b]
  <2>1. st \notin TerminalStatus
    BY DEF TerminalStatus
  <2>2. Waiting(c, s, now) = e
    BY DEF Waiting
  <2>3. e.status = st /\ e.pending = c.pending /\ e.pre = c.pre /\ e.adjusts = c.adjusts
    <3> HIDE DEF st, b
    <3> QED
      BY FieldsKept
  <2> HIDE DEF st, e
  <2> QED
    BY <1>1, <2>1, <2>2, <2>3 DEF TerminalStatus
<1>2. CASE d = "ADJUST"
  <2> DEFINE e == [c EXCEPT !.adjusts = @ + 1, !.pending = TRUE, !.pre = s.pos]
  <2>1. e.status = c.status /\ e.pre = s.pos /\ e.adjusts = c.adjusts + 1
    BY TargetKept, FieldsKept
  <2> HIDE DEF e
  <2> QED
    BY <1>0, <1>2, <2>1 DEF Adjusting, e, TerminalStatus
<1>3. CASE d = "CLOSE"
  <2> DEFINE e == [c EXCEPT !.status = "CLOSE_SUBMITTED", !.closes = @ + 1]
  <2>1. /\ e.status = "CLOSE_SUBMITTED" /\ e.pending = c.pending /\ e.pre = c.pre
        /\ e.adjusts = c.adjusts
    BY TargetKept, FieldsKept
  <2> HIDE DEF e
  <2> QED
    BY <1>3, <2>1 DEF Closing, e, TerminalStatus
<1>4. CASE d = "RECOVERY"
  <2> DEFINE e == [c EXCEPT !.status = "RECOVERY_REQUIRED"]
  <2>1. /\ e.status = "RECOVERY_REQUIRED" /\ e.pending = c.pending /\ e.pre = c.pre
        /\ e.adjusts = c.adjusts
    BY FieldsKept
  <2> HIDE DEF e
  <2> QED
    BY <1>4, <2>1 DEF e, Hedging, PastOpening
<1> QED
  BY <1>1, <1>2, <1>3, <1>4 DEF Acts

-----------------------------------------------------------------------------
(* A cycle past its opening is of a settlement that was opened.            *)

\* Nothing is stored, read or held at first.
LEMMA InitFlat == Init => FlatInv
  BY DEF Init, FlatInv, PositionOpened, CycleOpened, SnapOpened, HandOpened, SnapFlat,
         EndedFlat, Informed, Holding

(* Nobody reads the account or takes the lock: whoever knows the account   *)
(* has known it before, and so has whoever holds the lock.                 *)
InformedKept ==
    \A v \in Watcher : pc'[v] \in Informed => pc[v] \in Informed /\ snap'[v].pos = snap[v].pos
HandsKept ==
    \A v \in Watcher :
        pc'[v] \in Holding =>
            /\ pc[v] \in Holding /\ intent'[v] = intent[v]
            /\ pc'[v] # "reply" => pc'[v] = pc[v]

\* The steps that store nothing and read no position.
LEMMA StillSteps ==
  ASSUME TypeInv, NEW w \in Watcher,
         \/ Load(w) \/ ReadOrders(w) \/ Preview(w) \/ Send(w)
         \/ ReplyAccepted(w) \/ RoundFails(w) \/ Crash(w)
  PROVE  /\ InformedKept /\ HandsKept /\ UNCHANGED <<hour, cycle, position, fate, opened>>
         /\ ~Send(w) => sent' = sent
<1> USE DEF clockVars, exchangeVars
<1>1. /\ UNCHANGED <<hour, cycle, position, fate, opened>>
      /\ ~Send(w) => sent' = sent
  BY DEF Load, ReadOrders, Preview, Send, ReplyAccepted, RoundFails, ReadFails, SendRaises,
         ReplyLost, Crash
<1>2. CASE ReplyAccepted(w) \/ RoundFails(w) \/ Crash(w)
  <2>1. EndRound(w)
    BY <1>2 DEF ReplyAccepted, RoundFails, ReadFails, SendRaises, ReplyLost, Crash
  <2>2. InformedKept
    BY <2>1, EndRoundForgets DEF SnapsKept, InformedKept, Informed, Reading
  <2>3. HandsKept
    BY <2>1, EndRoundLetsGo DEF HandsKept
  <2> QED
    BY <1>1, <2>2, <2>3
<1>3. CASE Send(w)
  BY <1>1, <1>3 DEF Send, Goto, InformedKept, HandsKept, Informed, Holding, TypeInv, TypeOK
<1>4. CASE Load(w)
  BY <1>1, <1>4 DEF Load, Goto, InformedKept, HandsKept, Informed, Holding, TypeInv, TypeOK
<1>5. CASE Preview(w)
  BY <1>1, <1>5 DEF Preview, Goto, InformedKept, HandsKept, Informed, Holding, TypeInv, TypeOK
<1>6. CASE ReadOrders(w)
  <2>1. pc[w] = "orders" /\ intent' = intent
        /\ \E l \in {"process", "preview"} : pc' = [pc EXCEPT ![w] = l]
    BY <1>6 DEF ReadOrders, Goto
  <2>2. HandsKept
    BY <2>1 DEF HandsKept, Holding, TypeInv, TypeOK
  <2>3. snap'[w].pos = snap[w].pos /\ \A v \in Watcher : v # w => snap'[v] = snap[v]
    BY <1>6, OrdersRead
  <2>4. InformedKept
    BY <2>1, <2>3 DEF InformedKept, Informed, TypeInv, TypeOK
  <2> QED
    BY <1>1, <2>2, <2>4
<1> QED
  BY <1>2, <1>3, <1>4, <1>5, <1>6

\* They change nothing here.
LEMMA StillFlat ==
  ASSUME FlatInv, InformedKept, HandsKept, UNCHANGED <<cycle, position, opened>>
  PROVE  FlatInv'
<1>1. PositionOpened' /\ CycleOpened' /\ EndedFlat'
  BY DEF FlatInv, PositionOpened, CycleOpened, EndedFlat, Opened, Hedging
<1>2. SnapOpened' /\ SnapFlat'
  BY DEF FlatInv, SnapOpened, SnapFlat, Opened, Hedging, InformedKept
<1>3. HandOpened'
  BY DEF FlatInv, HandOpened, Opened, Hedging, HandsKept
<1> QED
  BY <1>1, <1>2, <1>3 DEF FlatInv

\* The clock and the timeouts are as still.
LEMMA TimePasses ==
  ASSUME \/ Tick \/ (\E t \in Timeout : Elapse(t)) \/ UNCHANGED vars
  PROVE  /\ InformedKept /\ HandsKept
         /\ UNCHANGED <<cycle, position, sent, fate, opened, pc, view, snap, intent>>
  BY DEF Tick, Elapse, vars, clockVars, watcherVars, exchangeVars, InformedKept, HandsKept

\* What the watcher reads is what there is.
LEMMA PositionsRead ==
  ASSUME TypeInv, NEW w \in Watcher, ReadPositions(w)
  PROVE  /\ pc[w] = "positions" /\ pc'[w] = "orders" /\ snap'[w].pos = position
         /\ LateFills \/ sent = {}
         /\ \A v \in Watcher : v # w => pc'[v] = pc[v] /\ snap'[v] = snap[v]
         /\ UNCHANGED <<hour, cycle, view, intent, position, sent, fate, opened>>
<1>1. \E p, q : snap' = [snap EXCEPT ![w] = [snap[w] EXCEPT !.pos = position,
                                             !.primary = p, !.allowed = q]]
  BY DEF ReadPositions
<1>2. snap[w] \in Snapshot /\ snap \in [Watcher -> Snapshot]
  BY DEF TypeInv, TypeOK
<1>3. snap'[w].pos = position /\ \A v \in Watcher : v # w => snap'[v] = snap[v]
  BY <1>1, <1>2, SnapFields
<1> QED
  BY <1>3 DEF ReadPositions, Goto, clockVars, exchangeVars, TypeInv, TypeOK

LEMMA PositionsFlat ==
  ASSUME TypeInv, ExposureInv, FlatInv, NEW w \in Watcher, ReadPositions(w)
  PROVE  FlatInv'
<1>1. UNCHANGED <<cycle, position, opened>> /\ HandsKept
  BY PositionsRead DEF HandsKept, Holding
<1>2. PositionOpened' /\ CycleOpened' /\ EndedFlat' /\ HandOpened'
  BY <1>1 DEF FlatInv, PositionOpened, CycleOpened, EndedFlat, HandOpened, HandsKept, Opened,
              Hedging
<1>3. position # 0 => cycle # NoCycle /\ Opened(cycle)
  BY DEF ExposureInv, WithinTarget, FlatInv, PositionOpened
<1>4. SnapOpened' /\ SnapFlat'
  BY <1>1, <1>3, PositionsRead DEF FlatInv, SnapOpened, SnapFlat, Opened, Hedging
<1> QED
  BY <1>2, <1>4 DEF FlatInv

\* An order that is dealt with: an open is of a settlement that was not
\* opened, and is opened by what it adds.
LEMMA OrderDealt ==
  ASSUME TypeInv, OpenInv, ExposureInv, NEW o \in sent, Exchange(o)
  PROVE  /\ UNCHANGED <<hour, cycle, pc, view, snap, intent>> /\ sent' = sent \ {o}
         /\ \A h \in 0..(Hours - 1) :
               /\ opened[h] \in Nat /\ opened'[h] \in Nat /\ opened[h] <= opened'[h]
               /\ opened'[h] # opened[h] =>
                     /\ ~o.reduces /\ h = o.hour
                     /\ o.id \in DOMAIN fate' /\ fate'[o.id] # "refused"
         /\ \/ position' = position /\ (Refuse(o) \/ Lose(o))
            \/ /\ ~o.reduces /\ position = 0 /\ o.hour = hour
               /\ cycle # NoCycle /\ cycle \in Cycle /\ cycle.hour = hour
               /\ ~Opened(cycle) /\ Opened(cycle)'
            \/ /\ o.reduces /\ position # 0 /\ Size(position') < Size(position)
<1>1. UNCHANGED <<hour, cycle, pc, view, snap, intent>> /\ sent' = sent \ {o}
  BY DEF Exchange, Fill, FillPart, Refuse, Lose, Decided, clockVars, watcherVars
<1>2. o.hour \in 0..(Hours - 1) /\ opened \in [0..(Hours - 1) -> Nat]
  BY DEF TypeInv, TypeOK
<1>3. \/ opened' = opened /\ (o.reduces \/ Refuse(o) \/ Lose(o))
      \/ opened' = [opened EXCEPT ![o.hour] = @ + 1] /\ ~o.reduces /\ (Fill(o) \/ FillPart(o))
  BY DEF Exchange, Fill, FillPart, Refuse, Lose
<1>4. Fill(o) \/ FillPart(o) => o.id \in DOMAIN fate' /\ fate'[o.id] # "refused"
  BY DEF Fill, FillPart, Decided
<1>5. \A h \in 0..(Hours - 1) :
         /\ opened[h] \in Nat /\ opened'[h] \in Nat /\ opened[h] <= opened'[h]
         /\ opened'[h] # opened[h] =>
               ~o.reduces /\ h = o.hour /\ o.id \in DOMAIN fate' /\ fate'[o.id] # "refused"
  BY <1>2, <1>3, <1>4
<1>6. ASSUME ~o.reduces, ~Void(o), Fill(o) \/ FillPart(o)
      PROVE  /\ position = 0 /\ o.hour = hour
             /\ cycle # NoCycle /\ cycle \in Cycle /\ cycle.hour = hour
             /\ ~Opened(cycle) /\ Opened(cycle)'
  <2>1. o.hour = hour /\ position = 0
    BY <1>6 DEF Void, BeforeCutoff, ExposureInv, OpensFit
  <2>2. cycle # NoCycle /\ cycle \in Cycle /\ cycle.hour = hour
    BY <1>6, <2>1, OpenDates
  <2>3. opened[o.hour] = 0
    BY <1>6 DEF OpenInv, Single
  <2>4. opened'[o.hour] = 1
    <3>1. opened' = [opened EXCEPT ![o.hour] = @ + 1]
      BY <1>6 DEF Fill, FillPart
    <3> QED
      BY <1>2, <2>3, <3>1
  <2> QED
    BY <1>1, <2>1, <2>2, <2>3, <2>4 DEF Opened
<1> QED
  BY <1>1, <1>5, <1>6, ExchangeEffect

LEMMA ExchangeFlat ==
  ASSUME TypeInv, OpenInv, ExposureInv, FlatInv, NEW o \in sent, Exchange(o)
  PROVE  FlatInv'
<1>1. UNCHANGED <<hour, cycle, pc, snap, intent>>
  BY OrderDealt
<1>2. \A c \in Cycle : Opened(c) => Opened(c)'
  <2> SUFFICES ASSUME NEW c \in Cycle, opened[c.hour] > 0
               PROVE  opened'[c.hour] > 0
    BY DEF Opened
  <2>1. c.hour \in 0..(Hours - 1)
    BY DEF Cycle
  <2> QED
    BY <2>1, OrderDealt
<1>3. cycle # NoCycle => cycle \in Cycle
  BY DEF TypeInv, TypeOK
<1>4. CycleOpened'
  BY <1>1, <1>2, <1>3 DEF FlatInv, CycleOpened, Hedging, Opened
<1>5. HandOpened'
  <2> SUFFICES ASSUME NEW v \in Watcher, pc[v] \in Holding
               PROVE  /\ Hedging(intent[v].cycle) => Opened(intent[v].cycle)'
                      /\ intent[v].cycle.status # "COMPLETED"
                      /\ intent[v].act = "CLOSE" => intent[v].cycle.status = "CLOSE_SUBMITTED"
    BY <1>1 DEF HandOpened, Hedging, Opened
  <2>1. intent[v].cycle \in Cycle
    BY HolderPlans
  <2> QED
    BY <1>1, <1>2, <2>1 DEF FlatInv, HandOpened, Opened
<1>6. SnapOpened'
  BY <1>1, <1>2, <1>3 DEF FlatInv, SnapOpened, Opened
<1>7. PositionOpened' /\ SnapFlat' /\ EndedFlat'
  <2>1. CASE position' = position
    <3>1. position # 0 => cycle # NoCycle
      BY DEF ExposureInv, WithinTarget
    <3> QED
      BY <1>1, <1>2, <1>3, <2>1, <3>1
         DEF FlatInv, PositionOpened, SnapFlat, EndedFlat, Hedging, Opened
  <2>2. CASE /\ ~o.reduces /\ position = 0 /\ o.hour = hour
             /\ cycle # NoCycle /\ cycle \in Cycle /\ cycle.hour = hour
             /\ ~Opened(cycle) /\ Opened(cycle)'
    <3>1. ~Hedging(cycle)
      BY <2>2 DEF FlatInv, CycleOpened
    <3>2. cycle.status # "COMPLETED"
      BY <3>1 DEF Hedging, PastOpening
    <3> QED
      BY <1>1, <2>2, <3>1, <3>2 DEF PositionOpened, SnapFlat, EndedFlat, Hedging
  <2>3. CASE o.reduces /\ position # 0
    <3>1. cycle # NoCycle /\ Opened(cycle)
      BY <2>3 DEF ExposureInv, WithinTarget, FlatInv, PositionOpened
    <3>2. PositionOpened'
      BY <1>1, <1>2, <1>3, <3>1 DEF PositionOpened, Opened
    <3>3. SnapFlat' /\ EndedFlat'
      BY <1>1, <2>3 DEF FlatInv, SnapFlat, EndedFlat, Hedging
    <3> QED
      BY <3>2, <3>3
  <2> QED
    BY <2>1, <2>2, <2>3, OrderDealt
<1> QED
  BY <1>4, <1>5, <1>6, <1>7 DEF FlatInv

-----------------------------------------------------------------------------
(* The acting half of a round, where the watcher is the only one.          *)

\* What Process stores and plans.
LEMMA ProcessMakes ==
  ASSUME TypeInv, NEW w \in Watcher, Process(w)
  PROVE  LET s == snap[w]
             r == Reconciled(cycle, s, Now)
         IN  /\ pc[w] = "process" /\ cycle' = r
             /\ UNCHANGED <<hour, position, sent, fate, opened>>
             /\ \/ EndRound(w)
                \/ \E d \in Acts :
                     /\ pc'[w] = "intend"
                     /\ intent'[w].act = d /\ intent'[w].cycle = Intended(r, s, Now, d)
                     /\ d = "OPEN" => Intended(r, s, Now, d) = NewCycle(s)
                     /\ d # "OPEN" => Active(r)
                     /\ d \in {"WAIT", "ADJUST", "CLOSE"} => s.pos # 0
                     /\ d = "RECOVERY" => s.pos = 0
<1> DEFINE s == snap[w]
           r == Reconciled(cycle, s, Now)
           d == Decision(r, s, Now)
           size == CASE d = "OPEN"   -> NewCycle(s).target
                     [] d = "ADJUST" -> Sign(-s.pos) * (Size(s.pos) - s.allowed)
                     [] d = "CLOSE"  -> -s.pos
                     [] OTHER        -> 0
           i == [act |-> d, size |-> size, cycle |-> Intended(r, s, Now, d)]
<1>1. /\ pc[w] = "process" /\ cycle' = r
      /\ UNCHANGED <<hour, position, sent, fate, opened>>
      /\ \/ EndRound(w)
         \/ /\ d # "HOLD"
            /\ pc' = [pc EXCEPT ![w] = "intend"]
            /\ intent' = [intent EXCEPT ![w] = i]
  BY DEF Process, Goto, exchangeVars
<1>2. i.act = d /\ i.cycle = Intended(r, s, Now, d)
  OBVIOUS
<1>3. d # "HOLD" => /\ d \in Acts
                    /\ d # "OPEN" => Active(r)
                    /\ d \in {"WAIT", "ADJUST", "CLOSE"} => s.pos # 0
                    /\ d = "RECOVERY" => s.pos = 0
  BY DecisionKinds, DecisionSees
<1>4. d = "OPEN" => Intended(r, s, Now, d) = NewCycle(s)
  BY DEF Intended
<1> HIDE DEF d, i, r, s
<1>5. CASE EndRound(w)
  BY <1>1, <1>5 DEF r, s
<1>6. CASE /\ d # "HOLD" /\ pc' = [pc EXCEPT ![w] = "intend"]
           /\ intent' = [intent EXCEPT ![w] = i]
  <2>1. pc'[w] = "intend" /\ intent'[w] = i
    BY <1>6 DEF TypeInv, TypeOK
  <2> QED
    BY <1>1, <1>2, <1>3, <1>4, <1>6, <2>1 DEF r, s
<1> QED
  BY <1>1, <1>5, <1>6

\* A watcher that holds the lock or ends its round knows no account, and it
\* is the only one.
LEMMA NobodyReads ==
  ASSUME OneWatcher, NEW w \in Watcher, pc'[w] \notin Informed
  PROVE  \A v \in Watcher : pc'[v] \notin Informed
  BY DEF OneWatcher

LEMMA ProcessFlat ==
  ASSUME TypeInv, ExposureInv, FlatInv, OneWatcher, NEW w \in Watcher, Process(w)
  PROVE  FlatInv'
<1> DEFINE s == snap[w]
           r == Reconciled(cycle, s, Now)
<1>1. /\ pc[w] = "process" /\ cycle' = r
      /\ UNCHANGED <<hour, position, opened>>
      /\ s \in Snapshot /\ cycle \in Cycle \cup {NoCycle} /\ Now \in Moment
  BY ProcessMakes DEF TypeInv, TypeOK, Now, Moment
<1>2. /\ cycle' \in Cycle \cup {NoCycle} /\ (cycle' = NoCycle <=> cycle = NoCycle)
      /\ cycle # NoCycle => cycle'.hour = cycle.hour
      /\ ~Active(cycle) => cycle' = cycle
  BY <1>1, ReconciledKeeps
<1>3. Active(cycle) => /\ Hedging(cycle') => Hedging(cycle) \/ s.pos # 0
                       /\ cycle'.status = "COMPLETED" => Hedging(cycle) /\ s.pos = 0
  BY <1>1, ReconciledHedging DEF Active
<1>4. s.pos # 0 => cycle # NoCycle /\ Opened(cycle)
  BY <1>1 DEF FlatInv, SnapOpened, Informed
<1> HIDE DEF r
<1>6. CycleOpened'
  <2>1. cycle' # NoCycle /\ Hedging(cycle') => cycle # NoCycle /\ Opened(cycle)
    BY <1>2, <1>3, <1>4 DEF FlatInv, CycleOpened
  <2> QED
    BY <1>1, <1>2, <2>1 DEF CycleOpened, Opened, Hedging
<1>7. PositionOpened'
  BY <1>1, <1>2 DEF FlatInv, PositionOpened, Opened, ExposureInv, WithinTarget
<1>8. EndedFlat'
  BY <1>1, <1>2, <1>3 DEF FlatInv, EndedFlat, SnapFlat, Informed, Active
<1>9. pc'[w] \notin Informed
  BY ProcessMakes DEF EndRound, Goto, Informed, TypeInv, TypeOK
<1>10. SnapOpened' /\ SnapFlat'
  BY <1>9, NobodyReads DEF SnapOpened, SnapFlat
<1>11. HandOpened'
  <2> DEFINE i == intent'[w]
  <2> SUFFICES ASSUME pc'[w] \in Holding
               PROVE  /\ Hedging(i.cycle) => opened'[i.cycle.hour] > 0
                      /\ i.cycle.status # "COMPLETED"
                      /\ i.act = "CLOSE" => i.cycle.status = "CLOSE_SUBMITTED"
    BY DEF HandOpened, OneWatcher, Hedging, Opened
  <2>1. ~EndRound(w)
    BY DEF EndRound, Goto, Holding, TypeInv, TypeOK
  <2>2. PICK d \in Acts :
           /\ i.act = d /\ i.cycle = Intended(r, s, Now, d)
           /\ d = "OPEN" => Intended(r, s, Now, d) = NewCycle(s)
           /\ d # "OPEN" => Active(r)
           /\ d \in {"WAIT", "ADJUST", "CLOSE"} => s.pos # 0
    BY <2>1, ProcessMakes DEF r
  <2> HIDE DEF i
  <2>3. CASE d = "OPEN"
    <3>1. i.cycle.status = "ARMED" /\ i.cycle.pending = FALSE
      BY <2>2, <2>3 DEF NewCycle
    <3> QED
      BY <2>2, <2>3, <3>1 DEF Hedging, PastOpening
  <2>4. CASE d # "OPEN"
    <3>1. Active(r) /\ r \in Cycle /\ cycle # NoCycle
      BY <1>1, <1>2, <2>2, <2>4 DEF Active
    <3>2. i.cycle \in Cycle /\ i.cycle.hour = r.hour
      BY <1>1, <2>2, <2>4, <3>1, IntendedKeeps
    <3>3. /\ i.cycle.status # "COMPLETED"
          /\ d = "RECOVERY" /\ Hedging(i.cycle) => Hedging(r)
          /\ d = "CLOSE" => i.cycle.status = "CLOSE_SUBMITTED"
      BY <1>1, <2>2, <2>4, <3>1, IntendedHedging
    <3>4. Hedging(i.cycle) => Opened(cycle)
      <4>1. CASE d = "RECOVERY"
        BY <1>1, <1>3, <1>2, <1>4, <3>1, <3>3, <4>1 DEF FlatInv, CycleOpened
      <4>2. CASE d # "RECOVERY"
        BY <1>4, <2>2, <2>4, <4>2 DEF Acts
      <4> QED
        BY <4>1, <4>2
    <3> QED
      BY <1>1, <1>2, <2>2, <3>1, <3>2, <3>3, <3>4 DEF Opened
  <2> QED
    BY <2>3, <2>4
<1> QED
  BY <1>6, <1>7, <1>8, <1>10, <1>11 DEF FlatInv

\* Storing an intent, in either of its flushes.
LEMMA IntendFlat ==
  ASSUME TypeInv, OpenInv, ExposureInv, FlatInv, OneWatcher, NEW w \in Watcher, Intend(w)
  PROVE  FlatInv'
<1> DEFINE i == intent[w]
<1>1. pc[w] = "intend" /\ cycle' = i.cycle /\ UNCHANGED <<position, opened>>
  BY DEF Intend, exchangeVars
<1>2. /\ Hedging(i.cycle) => Opened(i.cycle)
      /\ i.cycle.status # "COMPLETED"
  BY <1>1 DEF FlatInv, HandOpened, Holding
<1>3. /\ i.act = "OPEN" => position = 0
      /\ i.act # "OPEN" => cycle.hour = i.cycle.hour
  BY <1>1 DEF OpenInv, InHand, ExposureInv, HandFits
<1>4. CycleOpened' /\ EndedFlat'
  BY <1>1, <1>2 DEF CycleOpened, EndedFlat, Hedging, Opened
<1>5. PositionOpened'
  BY <1>1, <1>3 DEF FlatInv, PositionOpened, Opened
<1>6. /\ pc'[w] \in Holding => intent' = intent
      /\ pc'[w] \notin Informed
  BY DEF Intend, EndRound, Goto, Holding, Informed, TypeInv, TypeOK
<1>7. HandOpened'
  BY <1>1, <1>6 DEF FlatInv, HandOpened, OneWatcher, Hedging, Opened, Holding
<1> QED
  BY <1>4, <1>5, <1>6, <1>7, NobodyReads DEF FlatInv, SnapOpened, SnapFlat

\* What the second flush of an open stores.
LEMMA SubmitMakes ==
  ASSUME TypeInv, NEW w \in Watcher, SubmitOpen(w)
  PROVE  LET c == intent[w].cycle
         IN  /\ pc[w] = "armed" /\ pc'[w] = "send"
             /\ UNCHANGED <<hour, position, sent, fate, opened, view, snap>>
             /\ cycle' = intent'[w].cycle /\ intent'[w].act = "OPEN" /\ intent[w].act = "OPEN"
             /\ cycle' \in Cycle /\ cycle' # NoCycle /\ Active(cycle')
             /\ cycle'.status = "OPEN_SUBMITTED"
             /\ cycle'.hour = c.hour /\ cycle'.pending = c.pending
             /\ cycle'.pre = c.pre /\ cycle'.adjusts = c.adjusts
<1> DEFINE c == [intent[w].cycle EXCEPT !.status = "OPEN_SUBMITTED"]
           i == [intent[w] EXCEPT !.cycle = c]
<1>1. /\ pc[w] = "armed" /\ UNCHANGED <<hour, position, sent, fate, opened, view, snap>>
      /\ cycle' = c /\ intent' = [intent EXCEPT ![w] = i]
      /\ pc' = [pc EXCEPT ![w] = "send"]
  BY DEF SubmitOpen, Goto, clockVars, exchangeVars
<1>2. intent[w] \in Plan /\ intent[w].cycle \in Cycle /\ intent[w].act = "OPEN"
  BY <1>1, HolderPlans DEF Holding, TypeInv, ActOK
<1>3. /\ c \in Cycle /\ c.hour = intent[w].cycle.hour /\ c.status = "OPEN_SUBMITTED"
      /\ c.pending = intent[w].cycle.pending /\ c.pre = intent[w].cycle.pre
      /\ c.adjusts = intent[w].cycle.adjusts /\ c # NoCycle
  BY <1>2, StatusUpdate, FieldsKept, CycleIsNotNone DEF Status, ActiveStatus
<1> HIDE DEF c
<1>4. i.act = "OPEN" /\ i.cycle = c
  BY <1>2 DEF Plan
<1> HIDE DEF i
<1>5. intent'[w] = i /\ pc'[w] = "send"
  BY <1>1 DEF TypeInv, TypeOK
<1>6. Active(c)
  BY <1>3 DEF Active, TerminalStatus
<1> QED
  BY <1>1, <1>2, <1>3, <1>4, <1>5, <1>6

LEMMA SubmitFlat ==
  ASSUME TypeInv, OpenInv, ExposureInv, FlatInv, OneWatcher, NEW w \in Watcher, SubmitOpen(w)
  PROVE  FlatInv'
<1> DEFINE c == intent[w].cycle
<1>1. /\ pc[w] = "armed" /\ pc'[w] = "send" /\ UNCHANGED <<position, opened>>
      /\ cycle' = intent'[w].cycle /\ intent'[w].act = "OPEN" /\ intent[w].act = "OPEN"
      /\ cycle'.status = "OPEN_SUBMITTED"
      /\ cycle'.hour = c.hour /\ cycle'.pending = c.pending
  BY SubmitMakes
<1>2. Hedging(c) => Opened(c)
  BY <1>1 DEF FlatInv, HandOpened, Holding
<1>3. position = 0
  BY <1>1 DEF ExposureInv, HandFits
<1>4. Hedging(cycle') => opened'[cycle'.hour] > 0
  BY <1>1, <1>2 DEF Hedging, PastOpening, Opened
<1>5. CycleOpened' /\ EndedFlat' /\ PositionOpened'
  BY <1>1, <1>3, <1>4 DEF CycleOpened, EndedFlat, PositionOpened, Hedging, Opened
<1>6. HandOpened'
  BY <1>1, <1>4 DEF HandOpened, OneWatcher, Hedging, Opened
<1>7. pc'[w] \notin Informed
  BY <1>1 DEF Informed
<1> QED
  BY <1>5, <1>6, <1>7, NobodyReads DEF FlatInv, SnapOpened, SnapFlat

\* What a refusal leaves.
LEMMA RefusedMakes ==
  ASSUME TypeInv, ExposureInv, NEW w \in Watcher, ReplyRefused(w)
  PROVE  LET i == intent[w]
         IN  /\ pc[w] = "reply" /\ pc'[w] = "idle" /\ cycle = i.cycle /\ Active(cycle)
             /\ MyId(w) \in DOMAIN fate /\ fate[MyId(w)] = "refused"
             /\ UNCHANGED <<hour, position, sent, fate, opened>>
             /\ cycle \in Cycle /\ cycle' \in Cycle /\ cycle' # NoCycle
             /\ cycle'.hour = cycle.hour /\ cycle'.adjusts = cycle.adjusts
             /\ cycle'.pending => cycle.pending /\ cycle'.pre = cycle.pre
             /\ \/ i.act = "OPEN" /\ cycle'.status = "ABORTED"
                \/ i.act = "ADJUST" /\ cycle'.status = cycle.status
                \/ i.act = "CLOSE" /\ cycle'.status = "CLOSE_PARTIAL"
<1> DEFINE i == intent[w]
<1>1. /\ pc[w] = "reply" /\ EndRound(w) /\ cycle' = Refused(i.cycle, i.act)
      /\ MyId(w) \in DOMAIN fate /\ fate[MyId(w)] = "refused"
      /\ UNCHANGED <<hour, position, sent, fate, opened>>
  BY DEF ReplyRefused, exchangeVars
<1>2. i.act \in {"OPEN", "ADJUST", "CLOSE"} /\ i.cycle \in Cycle
  BY <1>1, HolderPlans DEF TypeInv, ActOK, Holding
<1>3. cycle = i.cycle /\ Active(cycle)
  BY <1>1, <1>2 DEF ExposureInv, HandFits, Holding
<1>4. cycle' \in Cycle /\ cycle'.hour = i.cycle.hour /\ cycle' # NoCycle
  BY <1>1, <1>2, RefusedKeeps, CycleIsNotNone
<1>5. pc'[w] = "idle"
  BY <1>1 DEF EndRound, Goto, TypeInv, TypeOK
<1>6. /\ cycle'.adjusts = cycle.adjusts
      /\ cycle'.pending => cycle.pending /\ cycle'.pre = cycle.pre
      /\ \/ i.act = "OPEN" /\ cycle'.status = "ABORTED"
         \/ i.act = "ADJUST" /\ cycle'.status = cycle.status
         \/ i.act = "CLOSE" /\ cycle'.status = "CLOSE_PARTIAL"
  <2>1. CASE i.act = "OPEN"
    <3>1. cycle' = [cycle EXCEPT !.status = "ABORTED"]
      BY <1>1, <1>3, <2>1 DEF Refused
    <3> QED
      BY <1>2, <1>3, <2>1, <3>1, FieldsKept
  <2>2. CASE i.act = "ADJUST"
    <3>1. cycle' = [cycle EXCEPT !.pending = FALSE, !.pre = 0]
      BY <1>1, <1>3, <2>2 DEF Refused
    <3> QED
      BY <1>2, <1>3, <2>2, <3>1, FieldsKept
  <2>3. CASE i.act = "CLOSE"
    <3>1. cycle' = [cycle EXCEPT !.status = "CLOSE_PARTIAL"]
      BY <1>1, <1>3, <2>3 DEF Refused
    <3> QED
      BY <1>2, <1>3, <2>3, <3>1, FieldsKept
  <2> QED
    BY <1>2, <2>1, <2>2, <2>3
<1> QED
  BY <1>1, <1>2, <1>3, <1>4, <1>5, <1>6

LEMMA RefusedFlat ==
  ASSUME TypeInv, ExposureInv, FlatInv, OneWatcher, NEW w \in Watcher, ReplyRefused(w)
  PROVE  FlatInv'
<1> DEFINE i == intent[w]
<1>1. /\ pc[w] = "reply" /\ pc'[w] = "idle" /\ cycle = i.cycle /\ Active(cycle)
      /\ UNCHANGED <<position, opened>> /\ cycle # NoCycle
      /\ cycle'.hour = cycle.hour
      /\ cycle'.pending => cycle.pending
      /\ \/ i.act = "OPEN" /\ cycle'.status = "ABORTED"
         \/ i.act = "ADJUST" /\ cycle'.status = cycle.status
         \/ i.act = "CLOSE" /\ cycle'.status = "CLOSE_PARTIAL"
  BY RefusedMakes, CycleIsNotNone
<1>2. i.act = "CLOSE" => cycle.status = "CLOSE_SUBMITTED"
  BY <1>1 DEF FlatInv, HandOpened, Holding
<1>3. Hedging(cycle') => Hedging(cycle)
  BY <1>1, <1>2 DEF Hedging, PastOpening
<1>4. CycleOpened' /\ PositionOpened'
  BY <1>1, <1>3 DEF FlatInv, CycleOpened, PositionOpened, Hedging, Opened
<1>5. EndedFlat'
  BY <1>1 DEF EndedFlat, Active, TerminalStatus
<1>6. SnapOpened' /\ SnapFlat' /\ HandOpened'
  BY <1>1 DEF SnapOpened, SnapFlat, HandOpened, OneWatcher, Informed, Holding
<1> QED
  BY <1>4, <1>5, <1>6 DEF FlatInv

-----------------------------------------------------------------------------
LEMMA NextFlat ==
  ASSUME TypeInv, OpenInv, ExposureInv, FlatInv, OneWatcher, [Next]_vars
  PROVE  FlatInv'
<1>1. CASE Tick \/ (\E t \in Timeout : Elapse(t)) \/ UNCHANGED vars
  BY <1>1, TimePasses, StillFlat
<1>2. CASE \E w \in Watcher : \/ Load(w) \/ ReadOrders(w) \/ Preview(w) \/ Send(w)
                              \/ ReplyAccepted(w) \/ RoundFails(w) \/ Crash(w)
  BY <1>2, StillSteps, StillFlat
<1>3. CASE \E w \in Watcher : ReadPositions(w)
  BY <1>3, PositionsFlat
<1>4. CASE \E w \in Watcher : Process(w) \/ Intend(w) \/ SubmitOpen(w) \/ ReplyRefused(w)
  BY <1>4, ProcessFlat, IntendFlat, SubmitFlat, RefusedFlat
<1>5. CASE \E o \in sent : Exchange(o)
  BY <1>5, ExchangeFlat
<1> QED
  BY <1>1, <1>2, <1>3, <1>4, <1>5 DEF Next, Round

LEMMA FlatInvariant ==
  ASSUME OneWatcher
  PROVE  Spec => [](TypeInv /\ OpenInv /\ ExposureInv /\ FlatInv)
<1>1. Init => FlatInv
  BY InitFlat
<1>2. TypeInv /\ OpenInv /\ ExposureInv /\ FlatInv /\ [Next]_vars => FlatInv'
  BY NextFlat
<1> QED
  BY <1>1, <1>2, AllInvariant, PTL DEF Spec

\* A cycle that is COMPLETED has left nothing on the account and nothing on
\* its way there, where one watcher runs on the state file: however late its
\* orders land and however often it crashes, the round that ends the cycle has
\* seen an account that stays flat.
THEOREM CompletedForGood ==
  ASSUME OneWatcher
  PROVE  Spec => []CompletedIsFlat
<1>1. TypeInv /\ OpenInv /\ ExposureInv /\ FlatInv => CompletedIsFlat
  <2> SUFFICES ASSUME TypeInv, OpenInv, ExposureInv, FlatInv,
                      cycle # NoCycle, cycle.status = "COMPLETED"
               PROVE  position = 0 /\ \A o \in sent : o.reduces \/ Void(o)
    BY DEF CompletedIsFlat
  <2>1. position = 0
    BY DEF FlatInv, EndedFlat
  <2>2. Opened(cycle)
    BY DEF FlatInv, CycleOpened, Hedging, PastOpening
  <2>3. ASSUME NEW o \in sent, ~o.reduces, ~Void(o) PROVE FALSE
    <3>1. o.hour = hour
      BY <2>3 DEF Void, BeforeCutoff, ExposureInv, OpensFit
    <3>2. o.hour = cycle.hour
      BY <2>3, <3>1, OpenDates
    <3> QED
      BY <2>2, <2>3, <3>2 DEF OpenInv, Single, Opened
  <2> QED
    BY <2>1, <2>3
<1> QED
  BY <1>1, FlatInvariant, PTL

-----------------------------------------------------------------------------
(* Until the account is read while an order is on its way.                 *)

\* Nothing is read, held, sent or at risk at first.
LEMMA InitTrack == Init => TrackInv
<1> SUFFICES ASSUME Init PROVE TrackInv
  OBVIOUS
<1>1. /\ cycle = NoCycle /\ position = 0 /\ sent = {} /\ DOMAIN fate = {}
      /\ \A w \in Watcher : pc[w] = "idle"
  BY DEF Init
<1>2. ReadTrue /\ IntentTrue
  BY <1>1 DEF ReadTrue, IntentTrue, Informed
<1>3. KeysFit /\ AdjustTrue /\ OpensTracked /\ Tracked
  BY <1>1 DEF KeysFit, Keys, AdjustTrue, OpensTracked, Tracked
<1> QED
  BY <1>2, <1>3 DEF TrackInv

\* The identities of orders tell them apart.
LEMMA KeyFacts ==
  ASSUME NEW c, NEW g, NEW h
  PROVE  /\ OpenKey(g) = OpenKey(h) => g = h
         /\ OpenKey(h)[1] = "open"
         /\ AdjustId(c)[1] = "adjust" /\ AdjustId(c)[2] = c.hour /\ AdjustId(c)[3] = c.adjusts
         /\ OrderId(c, "OPEN") = OpenKey(c.hour)
         /\ OrderId(c, "ADJUST") = AdjustId(c)
         /\ OrderId(c, "CLOSE")[1] = "close"
  BY DEF OpenKey, AdjustId, OrderId, OpenId, CloseId

\* A later cycle, or a later adjustment, leaves the identities fit.
LEMMA KeysStayFit ==
  ASSUME TypeInv, TypeInv', KeysFit, UNCHANGED <<sent, fate, opened>>,
         cycle # NoCycle =>
            /\ cycle' # NoCycle /\ cycle.hour <= cycle'.hour
            /\ cycle.hour = cycle'.hour => cycle.adjusts <= cycle'.adjusts
  PROVE  KeysFit'
<1>1. /\ cycle # NoCycle => cycle.hour \in Nat /\ cycle.adjusts \in Nat
      /\ cycle' # NoCycle => cycle'.hour \in Nat /\ cycle'.adjusts \in Nat
  BY DEF TypeInv, TypeOK, Cycle
<1>2. Keys' = Keys
  BY DEF Keys
<1>3. ASSUME NEW id \in Keys, id[1] = "adjust"
      PROVE  /\ cycle' # NoCycle /\ id[2] \in Nat /\ id[3] \in Nat
             /\ id[2] <= cycle'.hour
             /\ id[2] = cycle'.hour => id[3] <= cycle'.adjusts
  <2>1. /\ cycle # NoCycle /\ id[2] \in Nat /\ id[3] \in Nat
        /\ id[2] <= cycle.hour
        /\ id[2] = cycle.hour => id[3] <= cycle.adjusts
    BY <1>3 DEF KeysFit
  <2> QED
    BY <1>1, <2>1
<1>4. ASSUME NEW h \in 0..(Hours - 1), OpenKey(h) \in DOMAIN fate
      PROVE  /\ cycle' # NoCycle /\ h <= cycle'.hour
             /\ \A o \in sent : o.reduces \/ o.hour # h
             /\ fate[OpenKey(h)] = "refused" => opened[h] = 0
  BY <1>1, <1>4 DEF KeysFit
<1>5. /\ \A o \in sent : o.reduces => o.id[1] # "open"
      /\ \A o \in sent : ~o.reduces => o.id = OpenKey(o.hour)
  BY DEF KeysFit
<1> QED
  BY <1>2, <1>3, <1>4, <1>5 DEF KeysFit, OpenKey

\* A step that stores nothing and sends nothing.
LEMMA StillTrack ==
  ASSUME TypeInv, TypeInv', OpenInv, TrackInv, HandsKept, ReadTrue', hour <= hour',
         UNCHANGED <<cycle, position, sent, fate, opened>>
  PROVE  TrackInv'
<1>1. IntentTrue'
  <2> SUFFICES ASSUME NEW w \in Watcher, pc'[w] \in {"intend", "armed", "send"}
               PROVE  pc'[w] = pc[w] /\ intent'[w] = intent[w]
    BY DEF TrackInv, IntentTrue, OpenKey
  <2> QED
    BY DEF HandsKept, Holding
<1>2. KeysFit'
  <2>1. cycle # NoCycle => cycle.hour \in Nat /\ cycle.adjusts \in Nat
    BY DEF TypeInv, TypeOK, Cycle
  <2> QED
    BY <2>1, KeysStayFit DEF TrackInv
<1>3. AdjustTrue' /\ Tracked'
  BY DEF TrackInv, AdjustTrue, AdjustId, Tracked
<1>4. OpensTracked'
  <2> SUFFICES ASSUME NEW o \in sent, ~o.reduces, o.hour = hour'
               PROVE  Active(cycle)
    BY DEF OpensTracked
  <2>1. o.hour \in Int /\ hour \in Int /\ o.hour <= hour
    BY OpenDates
  <2> QED
    BY <2>1 DEF TrackInv, OpensTracked
<1> QED
  BY <1>1, <1>2, <1>3, <1>4 DEF TrackInv

\* Reading.
LEMMA ReadingTrack ==
  ASSUME TypeInv, TypeInv', OpenInv, TrackInv, OneWatcher, ~Overtakes, NEW w \in Watcher,
         Load(w) \/ ReadPositions(w) \/ ReadOrders(w) \/ Preview(w)
  PROVE  TrackInv'
<1>1. /\ HandsKept /\ UNCHANGED <<hour, cycle, position, sent, fate, opened>>
  <2>1. CASE ReadPositions(w)
    BY <2>1, PositionsRead DEF HandsKept, Holding
  <2>2. CASE Load(w) \/ ReadOrders(w) \/ Preview(w)
    <3>1. sent' = sent
      BY <2>2 DEF Load, ReadOrders, Preview, exchangeVars
    <3> QED
      BY <2>2, <3>1, StillSteps
  <2> QED
    BY <2>1, <2>2
<1>2. hour \in Int
  BY DEF TypeInv, TypeOK
<1>3. ReadTrue'
  <2> DEFINE Filled == /\ cycle # NoCycle /\ AdjustId(cycle) \in DOMAIN fate
                       /\ fate[AdjustId(cycle)] = "filled"
  <2> SUFFICES /\ pc'[w] \in Informed => sent = {} /\ position = snap'[w].pos
               /\ pc'[w] \in {"positions", "orders"} => view'[w] = cycle
               /\ pc'[w] \in {"preview", "process"} /\ snap'[w].adjust = "filled" => Filled
    BY <1>1 DEF ReadTrue, OneWatcher, AdjustId
  <2>1. CASE Load(w)
    <3>1. pc'[w] = "positions" /\ view'[w] = cycle
      BY <2>1 DEF Load, Goto, TypeInv, TypeOK
    <3> QED
      BY <3>1 DEF Informed
  <2>2. CASE ReadPositions(w)
    <3>1. sent = {}
      BY <2>2, PositionsRead DEF Overtakes
    <3> QED
      BY <2>2, <3>1, PositionsRead DEF TrackInv, ReadTrue, Informed
  <2>3. CASE ReadOrders(w)
    <3>1. pc[w] = "orders" /\ pc'[w] \in {"process", "preview"}
      BY <2>3 DEF ReadOrders, Goto, TypeInv, TypeOK
    <3>2. sent = {} /\ position = snap[w].pos /\ view[w] = cycle
      BY <3>1 DEF TrackInv, ReadTrue, Informed
    <3> QED
      BY <2>3, <3>1, <3>2, OrdersRead
  <2>4. CASE Preview(w)
    <3>1. pc[w] = "preview" /\ (pc'[w] = "refresh" \/ (pc'[w] = "process" /\ snap' = snap))
      BY <2>4 DEF Preview, Goto, TypeInv, TypeOK
    <3> QED
      BY <3>1 DEF TrackInv, ReadTrue, Informed
  <2> QED
    BY <2>1, <2>2, <2>3, <2>4
<1> QED
  BY <1>1, <1>2, <1>3, StillTrack

\* The end of a round, the clock and the timeouts.
LEMMA PassingTrack ==
  ASSUME TypeInv, TypeInv', OpenInv, TrackInv, OneWatcher,
         \/ Tick \/ (\E t \in Timeout : Elapse(t)) \/ UNCHANGED vars
         \/ \E w \in Watcher : ReplyAccepted(w) \/ RoundFails(w) \/ Crash(w)
  PROVE  TrackInv'
<1>0. hour \in Int
  BY DEF TypeInv, TypeOK
<1>1. CASE Tick \/ (\E t \in Timeout : Elapse(t)) \/ UNCHANGED vars
  <2>1. hour <= hour'
    BY <1>0, <1>1 DEF Tick, Elapse, vars, clockVars
  <2>2. ReadTrue'
    BY <1>1, TimePasses DEF TrackInv, ReadTrue, AdjustId
  <2> QED
    BY <1>1, <2>1, <2>2, TimePasses, StillTrack
<1>2. ASSUME NEW w \in Watcher, ReplyAccepted(w) \/ RoundFails(w) \/ Crash(w)
      PROVE  TrackInv'
  <2>1. pc'[w] = "idle" /\ sent' = sent
    BY <1>2 DEF ReplyAccepted, RoundFails, ReadFails, SendRaises, ReplyLost, Crash, EndRound,
                Goto, exchangeVars, TypeInv, TypeOK
  <2>2. ReadTrue'
    BY <2>1 DEF ReadTrue, OneWatcher, Informed
  <2> QED
    BY <1>0, <1>2, <2>1, <2>2, StillSteps, StillTrack
<1> QED
  BY <1>1, <1>2

\* Sending: the only order on its way is of the stored cycle, which is active.
LEMMA SendTrack ==
  ASSUME TypeInv, OpenInv, ExposureInv, TrackInv, OneWatcher, NEW w \in Watcher, Send(w)
  PROVE  TrackInv'
<1> DEFINE i == intent[w]
           n == Order(i.cycle, i.act, i.size)
<1>1. /\ pc[w] = "send" /\ sent' = sent \cup {n} /\ pc' = [pc EXCEPT ![w] = "reply"]
      /\ UNCHANGED <<hour, cycle, position, intent, snap, view, fate, opened>>
  BY DEF Send, Goto, clockVars
<1>2. pc'[w] = "reply" /\ i.act \in {"OPEN", "ADJUST", "CLOSE"} /\ i.cycle \in Cycle
  BY <1>1, HolderPlans DEF TypeInv, TypeOK, ActOK, Holding
<1>3. /\ cycle = i.cycle /\ Active(cycle) /\ cycle # NoCycle
      /\ cycle.hour \in Nat /\ cycle.adjusts \in Nat
  BY <1>1, <1>2 DEF ExposureInv, HandFits, Holding, Active, Cycle
<1>4. sent = {} /\ (i.act = "OPEN" => OpenKey(cycle.hour) \notin DOMAIN fate)
  BY <1>1, <1>3 DEF TrackInv, IntentTrue
<1>5. n.id = OrderId(cycle, i.act) /\ n.hour = cycle.hour /\ (n.reduces <=> i.act # "OPEN")
  BY <1>3 DEF Order
<1> HIDE DEF n
<1>6. ReadTrue' /\ IntentTrue'
  BY <1>2 DEF ReadTrue, IntentTrue, OneWatcher, Informed
<1>7. AdjustTrue' /\ Tracked' /\ OpensTracked'
  BY <1>1, <1>3, <1>4 DEF TrackInv, AdjustTrue, AdjustId, Tracked, OpensTracked
<1>8. KeysFit'
  <2>1. /\ n.reduces => n.id[1] # "open" /\ (n.id[1] = "adjust" => n.id = AdjustId(cycle))
        /\ ~n.reduces => n.id = OpenKey(n.hour) /\ n.id[1] = "open"
                         /\ OpenKey(n.hour) \notin DOMAIN fate
    <3>1. CASE i.act = "OPEN"
      <4>1. n.id = OpenKey(n.hour) /\ n.hour = cycle.hour /\ ~n.reduces
        <5>1. OrderId(cycle, "OPEN") = OpenKey(cycle.hour)
          BY KeyFacts
        <5> QED
          BY <1>5, <3>1, <5>1
      <4>2. OpenKey(n.hour)[1] = "open" /\ OpenKey(n.hour) \notin DOMAIN fate
        BY <1>4, <3>1, <4>1, KeyFacts
      <4> QED
        BY <4>1, <4>2
    <3>2. CASE i.act = "ADJUST"
      BY <1>5, <3>2, KeyFacts
    <3>3. CASE i.act = "CLOSE"
      BY <1>5, <3>3, KeyFacts
    <3> QED
      BY <1>2, <3>1, <3>2, <3>3
  <2>2. sent' = {n} /\ Keys' = DOMAIN fate \cup {n.id}
    BY <1>1, <1>4 DEF Keys
  <2>3. ASSUME NEW h \in 0..(Hours - 1), OpenKey(h) \in DOMAIN fate
        PROVE  /\ cycle # NoCycle /\ h <= cycle.hour
               /\ n.reduces \/ n.hour # h
               /\ fate[OpenKey(h)] = "refused" => opened[h] = 0
    BY <2>1, <2>3 DEF TrackInv, KeysFit
  <2>4. ASSUME NEW id \in Keys', id[1] = "adjust"
        PROVE  /\ cycle # NoCycle /\ id[2] \in Nat /\ id[3] \in Nat
               /\ id[2] <= cycle.hour
               /\ id[2] = cycle.hour => id[3] <= cycle.adjusts
    <3>1. CASE id \in DOMAIN fate
      BY <2>4, <3>1 DEF TrackInv, KeysFit, Keys
    <3>2. CASE id = n.id
      <4>1. id = AdjustId(cycle)
        BY <2>1, <2>4, <3>2
      <4> QED
        BY <1>3, <4>1, KeyFacts
    <3> QED
      BY <2>2, <3>1, <3>2
  <2> QED
    BY <1>1, <2>1, <2>2, <2>3, <2>4 DEF KeysFit, OpenKey
<1> QED
  BY <1>6, <1>7, <1>8 DEF TrackInv

\* What the exchange remembers of an order it has dealt with.
LEMMA FateBecomes ==
  ASSUME NEW o \in sent, Exchange(o)
  PROVE  /\ DOMAIN fate' \subseteq DOMAIN fate \cup {o.id}
         /\ \A x \in DOMAIN fate' : x # o.id => x \in DOMAIN fate /\ fate'[x] = fate[x]
         /\ Lose(o) => fate' = fate
         /\ Refuse(o) => fate'[o.id] = "refused"
  BY DEF Exchange, Fill, FillPart, Refuse, Lose, Decided

\* The exchange deals with an order.
LEMMA ExchangeTrack ==
  ASSUME TypeInv, TypeInv', OpenInv, ExposureInv, FlatInv, TrackInv, NEW o \in sent, Exchange(o)
  PROVE  TrackInv'
<1>1. UNCHANGED <<hour, cycle, pc, view, snap, intent>> /\ sent' = sent \ {o} /\ sent # {}
  BY OrderDealt
<1>2. ReadTrue' /\ IntentTrue'
  BY <1>1 DEF TrackInv, ReadTrue, IntentTrue, Informed
<1>3. OpensTracked'
  BY <1>1 DEF TrackInv, OpensTracked
<1>4. Tracked'
  BY <1>1, OrderDealt DEF TrackInv, Tracked, OpensTracked
<1>5. KeysFit'
  <2>1. Keys' \subseteq Keys
    BY <1>1, FateBecomes DEF Keys
  <2>2. /\ o.reduces => o.id[1] # "open"
        /\ ~o.reduces => o.id = OpenKey(o.hour) /\ o.hour \in 0..(Hours - 1)
    BY DEF TrackInv, KeysFit, TypeInv, TypeOK
  <2>3. ASSUME NEW h \in 0..(Hours - 1), OpenKey(h) \in DOMAIN fate'
        PROVE  /\ cycle # NoCycle /\ h <= cycle.hour
               /\ \A p \in sent' : p.reduces \/ p.hour # h
               /\ fate'[OpenKey(h)] = "refused" => opened'[h] = 0
    <3>1. CASE OpenKey(h) # o.id
      <4>1. OpenKey(h) \in DOMAIN fate /\ fate'[OpenKey(h)] = fate[OpenKey(h)]
        BY <2>3, <3>1, FateBecomes
      <4>2. /\ cycle # NoCycle /\ h <= cycle.hour
            /\ \A p \in sent : p.reduces \/ p.hour # h
            /\ fate[OpenKey(h)] = "refused" => opened[h] = 0
        BY <4>1 DEF TrackInv, KeysFit
      <4> QED
        BY <1>1, <4>1, <4>2, OrderDealt
    <3>2. CASE OpenKey(h) = o.id
      <4>1. ~o.reduces
        BY <2>2, <3>2, KeyFacts
      <4>2. o.hour = h
        BY <2>2, <3>2, <4>1, KeyFacts
      <4>3. cycle # NoCycle /\ h <= cycle.hour
        BY <4>1, <4>2, OpenDates
      <4>4. opened[h] = 0 /\ \A p \in sent : ~p.reduces /\ p.hour = h => p = o
        BY <4>1, <4>2 DEF OpenInv, Single
      <4>5. fate'[OpenKey(h)] = "refused" => opened'[h] = opened[h]
        BY <3>2, OrderDealt
      <4> QED
        BY <1>1, <4>3, <4>4, <4>5
    <3> QED
      BY <3>1, <3>2
  <2>4. /\ \A p \in sent' : p.reduces => p.id[1] # "open"
        /\ \A p \in sent' : ~p.reduces => p.id = OpenKey(p.hour)
    BY <1>1 DEF TrackInv, KeysFit
  <2>5. \A id \in Keys' : id[1] = "adjust" =>
          /\ cycle # NoCycle /\ id[2] \in Nat /\ id[3] \in Nat
          /\ id[2] <= cycle.hour
          /\ id[2] = cycle.hour => id[3] <= cycle.adjusts
    BY <2>1 DEF TrackInv, KeysFit
  <2> QED
    BY <1>1, <2>3, <2>4, <2>5 DEF KeysFit, OpenKey
<1>6. AdjustTrue'
  <2> DEFINE a == AdjustId(cycle)
  <2> SUFFICES ASSUME cycle # NoCycle, cycle.pending
               PROVE  /\ Size(position') <= Size(cycle.pre)
                      /\ a \in DOMAIN fate' /\ fate'[a] = "filled" =>
                            Size(position') < Size(cycle.pre)
    BY <1>1 DEF AdjustTrue, AdjustId
  <2>1. /\ Size(position) <= Size(cycle.pre)
        /\ a \in DOMAIN fate /\ fate[a] = "filled" => Size(position) < Size(cycle.pre)
    BY DEF TrackInv, AdjustTrue
  <2>2. a[1] = "adjust"
    BY KeyFacts
  <2> HIDE DEF a
  <2>3. Size(position) \in Nat /\ Size(position') \in Int /\ Size(cycle.pre) \in Nat
    <3>1. position \in Int /\ cycle.pre \in Int
      BY DEF TypeInv, TypeOK, Cycle
    <3>2. position' \in Int
      BY DEF TypeInv, TypeOK
    <3> QED
      BY <3>1, <3>2, SizeTypes
  <2>4. CASE position' = position /\ (Refuse(o) \/ Lose(o))
    <3>1. a \in DOMAIN fate' /\ fate'[a] = "filled" => a \in DOMAIN fate /\ fate[a] = "filled"
      BY <2>4, FateBecomes
    <3> QED
      BY <2>1, <2>4, <3>1
  <2>5. CASE o.reduces /\ position # 0 /\ Size(position') < Size(position)
    BY <2>1, <2>3, <2>5
  <2>6. CASE cycle # NoCycle /\ ~Opened(cycle)
    BY <2>6 DEF FlatInv, CycleOpened, Hedging
  <2> QED
    BY <2>4, <2>5, <2>6, OrderDealt
<1> QED
  BY <1>2, <1>3, <1>4, <1>5, <1>6 DEF TrackInv

\* Reconciling and planning: what was read still holds, so a cycle with a live
\* hedge stays active.
LEMMA ProcessTrack ==
  ASSUME TypeInv, TypeInv', TrackInv, OneWatcher, NEW w \in Watcher, Process(w)
  PROVE  TrackInv'
<1> DEFINE s == snap[w]
           r == Reconciled(cycle, s, Now)
<1>1. /\ pc[w] = "process" /\ cycle' = r
      /\ UNCHANGED <<hour, position, sent, fate, opened>>
      /\ s \in Snapshot /\ cycle \in Cycle \cup {NoCycle} /\ Now \in Moment
  BY ProcessMakes DEF TypeInv, TypeOK, Now, Moment
<1>2. /\ cycle' \in Cycle \cup {NoCycle} /\ (cycle' = NoCycle <=> cycle = NoCycle)
      /\ cycle # NoCycle => cycle'.hour = cycle.hour
      /\ ~Active(cycle) => cycle' = cycle
  BY <1>1, ReconciledKeeps
<1>3. Active(cycle) =>
         /\ cycle'.status \in TerminalStatus /\ s.pos # 0 =>
               cycle.pending /\ s.adjust = "filled" /\ ~(Size(s.pos) < Size(cycle.pre))
         /\ cycle'.pending => cycle.pending /\ cycle'.pre = cycle.pre
         /\ cycle'.adjusts = cycle.adjusts
  BY <1>1, ReconciledHedging DEF Active
<1>4. /\ sent = {} /\ position = s.pos
      /\ s.adjust = "filled" => AdjustId(cycle) \in DOMAIN fate /\ fate[AdjustId(cycle)] = "filled"
  BY <1>1 DEF TrackInv, ReadTrue, Informed
<1> HIDE DEF r
<1>5. cycle # NoCycle => /\ cycle'.pending => cycle.pending /\ cycle'.pre = cycle.pre
                         /\ cycle'.adjusts = cycle.adjusts /\ cycle'.hour = cycle.hour
  BY <1>2, <1>3
<1>6. Tracked'
  <2> SUFFICES ASSUME position # 0 PROVE Active(cycle')
    BY <1>1 DEF Tracked
  <2>1. Active(cycle) /\ cycle # NoCycle
    BY DEF TrackInv, Tracked, Active
  <2>2. ASSUME cycle'.status \in TerminalStatus PROVE FALSE
    <3>1. cycle.pending /\ s.adjust = "filled" /\ ~(Size(position) < Size(cycle.pre))
      BY <1>3, <1>4, <2>1, <2>2
    <3> QED
      BY <1>4, <2>1, <3>1 DEF TrackInv, AdjustTrue
  <2> QED
    BY <1>2, <2>1, <2>2 DEF Active
<1>7. AdjustTrue'
  <2> SUFFICES ASSUME cycle' # NoCycle, cycle'.pending
               PROVE  /\ Size(position) <= Size(cycle'.pre)
                      /\ AdjustId(cycle') \in DOMAIN fate /\ fate[AdjustId(cycle')] = "filled" =>
                            Size(position) < Size(cycle'.pre)
    BY <1>1 DEF AdjustTrue, AdjustId
  <2>1. AdjustId(cycle') = AdjustId(cycle) /\ cycle'.pre = cycle.pre /\ cycle.pending
    BY <1>2, <1>5 DEF AdjustId
  <2> QED
    BY <1>2, <2>1 DEF TrackInv, AdjustTrue
<1>8. KeysFit'
  <2>1. cycle # NoCycle => cycle.hour \in Nat /\ cycle.adjusts \in Nat
    BY <1>1 DEF Cycle
  <2> QED
    BY <1>1, <1>2, <1>5, <2>1, KeysStayFit DEF TrackInv
<1>9. OpensTracked'
  BY <1>1, <1>4 DEF OpensTracked
<1>10. pc'[w] \in {"idle", "intend"}
  BY ProcessMakes DEF EndRound, Goto, TypeInv, TypeOK
<1>11. ReadTrue'
  BY <1>10 DEF ReadTrue, OneWatcher, Informed
<1>12. IntentTrue'
  <2> DEFINE i == intent'[w]
  <2> SUFFICES ASSUME pc'[w] = "intend"
               PROVE  /\ i.act = "OPEN" => ~i.cycle.pending
                      /\ i.act = "RECOVERY" => position = 0
                      /\ i.act = "WAIT" => Active(i.cycle)
                      /\ i.act = "ADJUST" =>
                            i.cycle.pre = position /\ i.cycle.adjusts = cycle'.adjusts + 1
                      /\ i.act \notin {"OPEN", "ADJUST"} =>
                            /\ i.cycle.pending = cycle'.pending /\ i.cycle.pre = cycle'.pre
                            /\ i.cycle.adjusts = cycle'.adjusts
    BY <1>1, <1>4, <1>10 DEF IntentTrue, OneWatcher
  <2>1. ~EndRound(w)
    BY DEF EndRound, Goto, TypeInv, TypeOK
  <2>2. PICK d \in Acts :
           /\ i.act = d /\ i.cycle = Intended(r, s, Now, d)
           /\ d = "OPEN" => Intended(r, s, Now, d) = NewCycle(s)
           /\ d # "OPEN" => Active(r)
           /\ d = "RECOVERY" => s.pos = 0
    BY <2>1, ProcessMakes DEF r
  <2> HIDE DEF i
  <2>3. CASE d = "OPEN"
    BY <2>2, <2>3 DEF NewCycle
  <2>4. CASE d # "OPEN"
    <3>1. Active(r) /\ r \in Cycle
      BY <1>1, <1>2, <2>2, <2>4 DEF Active
    <3>2. i.cycle \in Cycle
      BY <1>1, <2>2, <2>4, <3>1, IntendedKeeps
    <3>3. /\ d # "RECOVERY" => i.cycle.status \notin TerminalStatus
          /\ d = "ADJUST" => i.cycle.pre = s.pos /\ i.cycle.adjusts = r.adjusts + 1
          /\ d # "ADJUST" => /\ i.cycle.pending = r.pending /\ i.cycle.pre = r.pre
                             /\ i.cycle.adjusts = r.adjusts
      BY <1>1, <2>2, <2>4, <3>1, IntendedHedging
    <3>4. d # "RECOVERY" => Active(i.cycle)
      BY <3>2, <3>3, CycleIsNotNone DEF Active
    <3> QED
      BY <1>1, <1>4, <2>2, <2>4, <3>3, <3>4
  <2> QED
    BY <2>3, <2>4
<1> QED
  BY <1>6, <1>7, <1>8, <1>9, <1>11, <1>12 DEF TrackInv

\* Storing the intent: a new cycle is of a later settlement, an adjustment is a
\* new one, and what does not act on the hedge keeps what was stored of it.
LEMMA IntendTrack ==
  ASSUME TypeInv, TypeInv', OpenInv, ExposureInv, TrackInv, OneWatcher,
         NEW w \in Watcher, Intend(w)
  PROVE  TrackInv'
<1> DEFINE i == intent[w]
<1>1. /\ pc[w] = "intend" /\ cycle' = i.cycle
      /\ UNCHANGED <<hour, position, sent, fate, opened>>
  BY DEF Intend, exchangeVars
<1>2. /\ i.act \in Acts /\ i.cycle \in Cycle /\ i.cycle # NoCycle
      /\ i.cycle.hour \in Nat /\ i.cycle.adjusts \in Nat
      /\ cycle # NoCycle => cycle.hour \in Nat /\ cycle.adjusts \in Nat
  <2>1. i \in Plan /\ i.cycle \in Cycle
    BY <1>1, HolderPlans DEF Holding
  <2>2. i.cycle.hour \in Nat /\ i.cycle.adjusts \in Nat
    BY <2>1 DEF Cycle
  <2>3. cycle # NoCycle => cycle.hour \in Nat /\ cycle.adjusts \in Nat
    BY DEF TypeInv, TypeOK, Cycle
  <2>4. i.act \in Acts
    BY <2>1 DEF Plan
  <2> QED
    BY <2>1, <2>2, <2>3, <2>4, CycleIsNotNone
<1>3. /\ sent = {}
      /\ i.act = "OPEN" => ~i.cycle.pending
      /\ i.act = "RECOVERY" => position = 0
      /\ i.act = "WAIT" => Active(i.cycle)
      /\ i.act = "ADJUST" => i.cycle.pre = position /\ i.cycle.adjusts = cycle.adjusts + 1
      /\ i.act \notin {"OPEN", "ADJUST"} =>
            /\ i.cycle.pending = cycle.pending /\ i.cycle.pre = cycle.pre
            /\ i.cycle.adjusts = cycle.adjusts
  BY <1>1 DEF TrackInv, IntentTrue
<1>4. /\ i.act = "OPEN" => position = 0 /\ (cycle # NoCycle => cycle.hour < i.cycle.hour)
      /\ i.act # "OPEN" => cycle # NoCycle /\ cycle.hour = i.cycle.hour
      /\ i.act \in {"OPEN", "ADJUST", "CLOSE"} => Active(i.cycle)
  BY <1>1 DEF OpenInv, InHand, ExposureInv, HandFits, Holding
<1>5. Tracked' /\ OpensTracked'
  BY <1>1, <1>2, <1>3, <1>4 DEF Tracked, OpensTracked, Acts
<1>6. KeysFit'
  BY <1>1, <1>2, <1>3, <1>4, KeysStayFit DEF TrackInv
<1>7. AdjustTrue'
  <2> DEFINE c == i.cycle
  <2> SUFFICES ASSUME c.pending
               PROVE  /\ Size(position) <= Size(c.pre)
                      /\ AdjustId(c) \in DOMAIN fate /\ fate[AdjustId(c)] = "filled" =>
                            Size(position) < Size(c.pre)
    BY <1>1 DEF AdjustTrue, AdjustId
  <2>1. CASE i.act = "ADJUST"
    <3>1. Size(position) \in Nat
      BY SizeTypes DEF TypeInv, TypeOK
    <3>2. AdjustId(c) \notin DOMAIN fate
      <4> SUFFICES ASSUME AdjustId(c) \in DOMAIN fate PROVE FALSE
        OBVIOUS
      <4>1. /\ AdjustId(c) \in Keys /\ AdjustId(c)[1] = "adjust"
            /\ AdjustId(c)[2] = c.hour /\ AdjustId(c)[3] = c.adjusts
        BY KeyFacts DEF Keys
      <4>2. AdjustId(c)[2] = cycle.hour => AdjustId(c)[3] <= cycle.adjusts
        BY <4>1 DEF TrackInv, KeysFit
      <4> QED
        BY <1>2, <1>3, <1>4, <2>1, <4>1, <4>2
    <3> QED
      BY <1>3, <2>1, <3>1, <3>2
  <2>2. CASE i.act \notin {"OPEN", "ADJUST"}
    <3>1. AdjustId(c) = AdjustId(cycle) /\ c.pre = cycle.pre /\ cycle.pending /\ cycle # NoCycle
      BY <1>3, <1>4, <2>2 DEF AdjustId
    <3> QED
      BY <3>1 DEF TrackInv, AdjustTrue
  <2> QED
    BY <1>3, <2>1, <2>2
<1>8. /\ pc'[w] \in {"idle", "armed", "send"}
      /\ pc'[w] \in Holding => intent' = intent
  BY DEF Intend, EndRound, Goto, Holding, TypeInv, TypeOK
<1>9. ReadTrue'
  BY <1>8 DEF ReadTrue, OneWatcher, Informed
<1>10. IntentTrue'
  <2>1. i.act = "OPEN" => OpenKey(i.cycle.hour) \notin DOMAIN fate
    <3>1. i.cycle.hour \in 0..(Hours - 1)
      BY <1>2 DEF Cycle
    <3> QED
      BY <1>2, <1>4, <3>1 DEF TrackInv, KeysFit
  <2> QED
    BY <1>1, <1>3, <1>8, <2>1 DEF IntentTrue, OneWatcher, OpenKey, Holding
<1> QED
  BY <1>5, <1>6, <1>7, <1>9, <1>10 DEF TrackInv

\* The second flush of an open.
LEMMA SubmitTrack ==
  ASSUME TypeInv, TypeInv', OpenInv, ExposureInv, TrackInv, OneWatcher,
         NEW w \in Watcher, SubmitOpen(w)
  PROVE  TrackInv'
<1> DEFINE c == intent[w].cycle
<1>1. /\ pc[w] = "armed" /\ pc'[w] = "send" /\ intent[w].act = "OPEN"
      /\ UNCHANGED <<hour, position, sent, fate, opened>>
      /\ cycle' = intent'[w].cycle /\ intent'[w].act = "OPEN"
      /\ Active(cycle') /\ cycle' # NoCycle
      /\ cycle'.hour = c.hour /\ cycle'.pending = c.pending
      /\ cycle'.pre = c.pre /\ cycle'.adjusts = c.adjusts
  BY SubmitMakes
<1>2. cycle = c /\ cycle # NoCycle
  BY <1>1 DEF ExposureInv, HandFits, OpenInv, InHand
<1>3. sent = {} /\ OpenKey(c.hour) \notin DOMAIN fate
  BY <1>1 DEF TrackInv, IntentTrue
<1>4. Tracked' /\ OpensTracked'
  BY <1>1 DEF Tracked, OpensTracked
<1>5. KeysFit'
  <2>1. cycle.hour \in Nat /\ cycle.adjusts \in Nat
    BY <1>2 DEF TypeInv, TypeOK, Cycle
  <2> QED
    BY <1>1, <1>2, <2>1, KeysStayFit DEF TrackInv
<1>6. AdjustTrue'
  BY <1>1, <1>2 DEF TrackInv, AdjustTrue, AdjustId
<1>7. ReadTrue'
  BY <1>1 DEF ReadTrue, OneWatcher, Informed
<1>8. IntentTrue'
  BY <1>1, <1>3 DEF IntentTrue, OneWatcher, OpenKey
<1> QED
  BY <1>4, <1>5, <1>6, <1>7, <1>8 DEF TrackInv

\* A refusal ends the cycle of an open only, whose settlement was not opened.
LEMMA RefusedTrack ==
  ASSUME TypeInv, TypeInv', OpenInv, ExposureInv, FlatInv, TrackInv, OneWatcher,
         NEW w \in Watcher, ReplyRefused(w)
  PROVE  TrackInv'
<1> DEFINE i == intent[w]
<1>1. /\ pc[w] = "reply" /\ pc'[w] = "idle" /\ cycle = i.cycle /\ Active(cycle)
      /\ MyId(w) \in DOMAIN fate /\ fate[MyId(w)] = "refused"
      /\ UNCHANGED <<hour, position, sent, fate, opened>>
      /\ cycle \in Cycle /\ cycle # NoCycle /\ cycle' # NoCycle
      /\ cycle'.hour = cycle.hour /\ cycle'.adjusts = cycle.adjusts
      /\ cycle'.pending => cycle.pending /\ cycle'.pre = cycle.pre
      /\ \/ i.act = "OPEN" /\ cycle'.status = "ABORTED"
         \/ i.act = "ADJUST" /\ cycle'.status = cycle.status
         \/ i.act = "CLOSE" /\ cycle'.status = "CLOSE_PARTIAL"
  BY RefusedMakes, CycleIsNotNone
<1>2. cycle.hour \in 0..(Hours - 1) /\ cycle.adjusts \in Nat /\ hour \in Int
  BY <1>1 DEF Cycle, TypeInv, TypeOK
<1>3. i.act # "OPEN" => Active(cycle')
  BY <1>1 DEF Active, TerminalStatus
<1>4. ASSUME i.act = "OPEN"
      PROVE  /\ opened[cycle.hour] = 0
             /\ \A o \in sent : o.reduces \/ o.hour # cycle.hour
  <2>1. MyId(w) = OpenKey(cycle.hour)
    BY <1>1, <1>4, KeyFacts DEF MyId
  <2> QED
    BY <1>1, <1>2, <2>1 DEF TrackInv, KeysFit
<1>5. Tracked'
  BY <1>1, <1>2, <1>3, <1>4 DEF Tracked, FlatInv, PositionOpened, Opened
<1>6. OpensTracked'
  <2> SUFFICES ASSUME NEW o \in sent, ~o.reduces, o.hour = hour
               PROVE  Active(cycle')
    BY <1>1 DEF OpensTracked
  <2>1. o.hour = cycle.hour
    BY <1>2, OpenDates
  <2> QED
    BY <1>3, <1>4, <2>1
<1>7. KeysFit'
  BY <1>1, <1>2, KeysStayFit DEF TrackInv
<1>8. AdjustTrue'
  BY <1>1 DEF TrackInv, AdjustTrue, AdjustId
<1>9. ReadTrue' /\ IntentTrue'
  BY <1>1 DEF ReadTrue, IntentTrue, OneWatcher, Informed
<1> QED
  BY <1>5, <1>6, <1>7, <1>8, <1>9 DEF TrackInv

-----------------------------------------------------------------------------
LEMMA NextTrack ==
  ASSUME TypeInv, TypeInv', OpenInv, ExposureInv, FlatInv, TrackInv, OneWatcher, ~Overtakes,
         [Next]_vars
  PROVE  TrackInv'
<1>1. CASE \/ Tick \/ (\E t \in Timeout : Elapse(t)) \/ UNCHANGED vars
           \/ \E w \in Watcher : ReplyAccepted(w) \/ RoundFails(w) \/ Crash(w)
  BY <1>1, PassingTrack
<1>2. CASE \E w \in Watcher : Load(w) \/ ReadPositions(w) \/ ReadOrders(w) \/ Preview(w)
  BY <1>2, ReadingTrack
<1>3. CASE \E w \in Watcher : \/ Process(w) \/ Intend(w) \/ SubmitOpen(w) \/ Send(w)
                              \/ ReplyRefused(w)
  BY <1>3, ProcessTrack, IntendTrack, SubmitTrack, SendTrack, RefusedTrack
<1>4. CASE \E o \in sent : Exchange(o)
  BY <1>4, ExchangeTrack
<1> QED
  BY <1>1, <1>2, <1>3, <1>4 DEF Next, Round

\* The behaviours of the hedge, with the history of its readings.
HistorySpec ==
    Init /\ overtaken = FALSE /\ [][Next /\ Remembers]_<<vars, overtaken>>

\* A live hedge belongs to an active cycle, so some round will close it: no
\* reply, timeout, failed lookup or crash ends the cycle of a hedge that is
\* still there, unless a round has read the account while an order was still
\* on its way.  Orders may land as late as they like; one watcher runs on the
\* state file.
THEOREM NeverUntracked ==
  ASSUME OneWatcher
  PROVE  HistorySpec => [](~overtaken => Tracked)
<1> DEFINE Kept == ~overtaken => TrackInv
<1>1. Init /\ overtaken = FALSE => Kept
  BY InitTrack
<1>2. [Next /\ Remembers]_<<vars, overtaken>> => [Next]_vars
  OBVIOUS
<1>3. TypeInv /\ OpenInv /\ ExposureInv /\ FlatInv /\ TypeInv' /\ Kept
        /\ [Next /\ Remembers]_<<vars, overtaken>> => Kept'
  <2> SUFFICES ASSUME TypeInv, OpenInv, ExposureInv, FlatInv, TypeInv', Kept, ~overtaken',
                      [Next /\ Remembers]_<<vars, overtaken>>
               PROVE  TrackInv'
    OBVIOUS
  <2>1. CASE Next /\ Remembers
    <3>1. ~overtaken /\ ~Overtakes
      BY <2>1 DEF Remembers
    <3> QED
      BY <2>1, <3>1, NextTrack
  <2>2. CASE UNCHANGED <<vars, overtaken>>
    <3>1. TrackInv /\ UNCHANGED vars /\ ~Overtakes
      BY <2>2 DEF vars, watcherVars, Overtakes
    <3> QED
      BY <3>1, NextTrack
  <2> QED
    BY <2>1, <2>2
<1>4. Kept => (~overtaken => Tracked)
  BY DEF TrackInv
<1> HIDE DEF Kept
<1> QED
  BY <1>1, <1>2, <1>3, <1>4, FlatInvariant, PTL DEF Spec, HistorySpec

\* No hedge is forgotten: whatever lands late, the account of a COMPLETED cycle
\* is flat for good, and a live hedge is tracked up to the first reading that
\* overtakes an order.
THEOREM NothingForgotten ==
  ASSUME OneWatcher
  PROVE  HistorySpec => []NeverForgotten
<1>1. CompletedIsFlat /\ (~overtaken => Tracked) => NeverForgotten
  BY DEF NeverForgotten
<1>2. [Next /\ Remembers]_<<vars, overtaken>> => [Next]_vars
  OBVIOUS
<1>3. HistorySpec => Spec
  BY <1>2, PTL DEF Spec, HistorySpec
<1> QED
  BY <1>1, <1>3, CompletedForGood, NeverUntracked, PTL
=============================================================================
