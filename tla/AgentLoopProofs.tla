-------------------------- MODULE AgentLoopProofs --------------------------
(***************************************************************************)
(* Proofs about the main loop of the trading agent (AgentLoop), for every  *)
(* set of sizes and confidences, every threshold and every bound:          *)
(*                                                                         *)
(*   ActsOnceTheorem  a scenario is executed once, nothing stale is traded *)
(*   PlanKeptTheorem  an open position has its risk session, and is never  *)
(*                    larger than the largest plan and the exits filled    *)
(*                    between the read of the position and the order       *)
(*                                                                         *)
(* Both follow from LoopInv.  What makes it inductive is what the snapshot *)
(* of the position (snap) still says of the position (pos) while an order  *)
(* is on its way (Drift), what the conversion of a plan promises about the *)
(* position it was made for (Suits), and what an armed scenario may still  *)
(* do when it finally acts (Waitable).                                     *)
(***************************************************************************)
EXTENDS AgentLoop, WellFoundedInduction, TLAPS

(* What the model is made of.                                              *)
Results == {NoResult} \cup UNION {Judged(k) \cup {Failed(k)} : k \in Kinds}
Futures == [st : {"idle", "running", "done"}, batch : Batches \cup {NoBatch}, res : Results]
EntryPlans ==
  {p \in [act : Sides \cup {"no_trade"}, now : BOOLEAN, scenario : BOOLEAN, size : Sizes,
          conf : Percent \cup {None}, closed : BOOLEAN] :
     p.scenario => p.conf = None /\ ~p.now}
Bases == [side : Sides \cup {""}, raw : Percent \cup {None}, validity : Percent]
Decisions ==
  [action : {"no_change", "close", "trim"} \cup Exposure, size : Int, close : Nat,
   refresh : BOOLEAN, cont : BOOLEAN, opposite : BOOLEAN]
Materials == [now : BOOLEAN, dec : Decisions, scenario : BOOLEAN, pass : BOOLEAN]
Managements ==
  [on : BOOLEAN, plan : Materials, passive : BOOLEAN, done : BOOLEAN, acts : {0, 1}]

-----------------------------------------------------------------------------
(* What the conversion promises of a decision made for the position p.     *)
Capped(d) == d.action \in Exposure => d.size <= MaxSize
Suits(d, p) ==
  /\ d.action \in Sides => p = 0 /\ d.size > 0
  /\ d.action = "add_to_long" => p > 0 /\ d.size > p
  /\ d.action = "add_to_short" => p < 0 /\ d.size > -p
  /\ d.action = "reverse_to_long" => p < 0 /\ d.size > 0
  /\ d.action = "reverse_to_short" => p > 0 /\ d.size > 0
  /\ d.action \in {"close", "trim"} => p # 0
  /\ d.refresh => d.action = "no_change" /\ ~d.opposite

(* A plan that waits for its scenario neither closes nor answers an        *)
(* opposite event; one that changes nothing keeps the session there is, or *)
(* was made for a flat account.                                            *)
Waitable(m, flat) ==
  /\ m.scenario /\ m.dec.action # "close" /\ ~m.dec.opposite
  /\ m.dec.action = "no_change" /\ ~m.dec.refresh => m.pass \/ flat

-----------------------------------------------------------------------------
(* The inductive invariant.                                                *)
EventsInv ==
  /\ inbox \in [Kinds -> Nat] /\ inbox["fresh"] + inbox["stale"] <= MaxEvents
  /\ future \in Futures /\ (future.st = "running" => future.batch \in Batches)
  /\ {waiting, fresh} \subseteq Batches \cup {NoBatch}
  /\ fallback \in Kinds \cup {"none"} /\ started \in BOOLEAN
  /\ ready \in Results /\ ready.kind # "stale"

LoopTypes ==
  /\ pc \in {"top", "poll", "dispatch", "monitor", "manage", "idle", "query", "act"}
  /\ reason \in {"active", "passive", "helper"}
  /\ pos \in Int /\ snap \in Int /\ gap \in Nat
  /\ risk \in Sides \cup {"none"} /\ basis \in Bases /\ excused \in {"no", "fault", "stop"}
  /\ pm \in Managements /\ act \in Materials

TriggerInv ==
  /\ trigger \in Results
  /\ trigger.rel \notin {"none", "failed"} => trigger.kind = "fresh"

ScenarioInv ==
  /\ ~pm.done => pm.acts = 0
  /\ pm.on => Capped(pm.plan.dec) /\ Waitable(pm.plan, pos = 0 \/ excused = "fault")

(* The exits may have taken the position towards zero since it was read.   *)
Drift ==
  /\ Abs(pos) <= Abs(snap) /\ Abs(snap) <= Abs(pos) + gap
  /\ pos # 0 => Side(pos) = Side(snap)
  /\ pos # snap => risk = Side(snap)

ActInv ==
  IF pc = "act"
  THEN /\ Drift /\ Capped(act.dec)
       /\ IF Scenario THEN pm.on /\ pm.done /\ act = pm.plan
          ELSE /\ plan \in EntryPlans /\ Suits(act.dec, snap)
               /\ act.dec.action = "no_change" => act.dec.refresh
  ELSE plan = NoEntry

GuardInv == pos # 0 => risk = Side(pos) \/ excused # "no"

AgentInv == LoopTypes /\ TriggerInv /\ ScenarioInv /\ ActInv /\ GuardInv /\ WithinPlan
LoopInv == EventsInv /\ AgentInv

-----------------------------------------------------------------------------
(* Facts about the operators.                                              *)

\* The largest size is one of the sizes.
LEMMA LargestSize ==
  MaxSize \in Nat /\ \A n \in Sizes : n \in Nat /\ n > 0 /\ n <= MaxSize
<1>1. MaxSize \in Sizes /\ \A n \in Sizes : n <= MaxSize
  BY SizesAssumption DEF MaxSize
<1>2. \A n \in Sizes : n \in Nat /\ n > 0
  <2>1. Sizes \subseteq Nat \ {0}
    BY SizesAssumption
  <2>. QED  BY <2>1
<1>. QED  BY <1>1, <1>2

\* A share of an amount, rounded down, is between nothing and the amount.
LEMMA ShareUp ==
  ASSUME NEW share \in 0..100, NEW n \in Nat
  PROVE  (share * n) \div 100 \in Int /\ 0 <= (share * n) \div 100 /\ (share * n) \div 100 <= n
<1>1. share * n \in Int /\ 0 <= share * n
  OBVIOUS
<1>2. share * n <= 100 * n
  <2>1. (100 - share) * n >= 0
    OBVIOUS
  <2>2. (100 - share) * n = 100 * n - share * n
    OBVIOUS
  <2>. QED  BY <2>1, <2>2, <1>1
<1>. DEFINE x == share * n
<1>3. x \in Int /\ 0 <= x /\ x <= 100 * n
  BY <1>1, <1>2
<1>. HIDE DEF x
<1>4. x \div 100 \in Int /\ 0 <= x \div 100 /\ x \div 100 <= n
  BY <1>3
<1>. QED  BY <1>4 DEF x

\* The same of a negative amount.
LEMMA ShareDown ==
  ASSUME NEW share \in 0..100, NEW d \in Int, d <= 0
  PROVE  (share * d) \div 100 \in Int /\ d <= (share * d) \div 100 /\ (share * d) \div 100 <= 0
<1>1. share * d \in Int /\ share * d <= 0
  OBVIOUS
<1>2. 100 * d <= share * d
  <2>1. (100 - share) * d <= 0
    OBVIOUS
  <2>2. (100 - share) * d = 100 * d - share * d
    OBVIOUS
  <2>. QED  BY <2>1, <2>2, <1>1
<1>. DEFINE x == share * d
<1>3. x \in Int /\ x <= 0 /\ 100 * d <= x
  BY <1>1, <1>2
<1>. HIDE DEF x
<1>4. x \div 100 \in Int /\ d <= x \div 100 /\ x \div 100 <= 0
  BY <1>3
<1>. QED  BY <1>4 DEF x

\* A quotient of natural numbers is a natural number.
LEMMA QuotientNat ==
  ASSUME NEW a \in Nat, NEW b \in Nat, b > 0
  PROVE  a \div b \in Nat
<1>1. a \div b \in Int
  OBVIOUS
<1>2. a \div b >= 0
  OBVIOUS
<1>. QED  BY <1>1, <1>2

\* Clamping an integer.
LEMMA ClampType ==
  ASSUME NEW x \in Int, NEW hi \in 0..100
  PROVE  Clamp(x, 0, hi) \in 0..hi
BY DEF Clamp

\* The share a confidence stands for is a percentage.
LEMMA NormalizedType ==
  ASSUME NEW c \in Percent \cup {None}
  PROVE  /\ c = None => Normalized(c) = None
         /\ c # None => Normalized(c) \in 0..100
<1>1. CASE c = None
  BY <1>1 DEF Normalized, None, Percent
<1>2. CASE c # None
  <2>1. c \in Int /\ RelevanceAt \in Int /\ FullScale \in Int /\ FullScale - RelevanceAt > 0
    BY <1>2, PercentagesAssumption DEF Percent
  <2>. DEFINE w == FullScale - RelevanceAt
              y == (c - RelevanceAt) * 100
  <2>2. w \in Int /\ w > 0 /\ y \in Int
    BY <2>1
  <2>3. Normalized(c) = Clamp(y \div w, 0, 100)
    BY <1>2 DEF Normalized
  <2>. HIDE DEF w, y
  <2>4. y \div w \in Int
    BY <2>2
  <2>. QED  BY <1>2, <2>3, <2>4, ClampType
<1>. QED  BY <1>1, <1>2

\* What is known of how sure the agent was is a percentage or nothing.
LEMMA BasisEffType ==
  ASSUME NEW b \in Bases, NEW side
  PROVE  BasisEff(b, side) \in Int
<1>1. CASE BasisFor(b, side).raw = None
  BY <1>1 DEF BasisEff, None
<1>2. CASE BasisFor(b, side).raw # None
  <2>1. b.raw \in Percent /\ b.validity \in Percent
    BY <1>2 DEF BasisFor, NoBasis, Bases
  <2>. DEFINE x == b.raw * b.validity
  <2>2. x \in Int
    <3>1. b.raw \in Int /\ b.validity \in Int
      BY <2>1 DEF Percent
    <3>. QED  BY <3>1
  <2>. HIDE DEF x
  <2>3. x \div 100 \in Int
    BY <2>2
  <2>. QED  BY <1>2, <2>3 DEF BasisEff, x
<1>. QED  BY <1>1, <1>2

\* What a signal against the position does closes a share of it; without a
\* confidence the answer is the legacy one.
LEMMA OppositeEventType ==
  ASSUME NEW b \in Bases, NEW side, NEW c \in Percent \cup {None}
  PROVE  /\ OppositeEvent(b, side, c) \in
              [kind : {"legacy", "no_change", "reverse", "flatten", "trim"}, close : 0..100]
         /\ c = None => OppositeEvent(b, side, c).kind = "legacy"
<1>1. CASE c = None
  <2>1. OppositeEvent(b, side, c) = [kind |-> "legacy", close |-> 0]
    BY <1>1, Zenon DEF OppositeEvent
  <2>. QED  BY <2>1
<1>2. CASE c # None
  <2>. DEFINE eff == BasisEff(b, side)
              reverse == IF eff = None THEN UnknownReverse
                         ELSE IF eff + ReverseEdge > MinReverse THEN eff + ReverseEdge ELSE MinReverse
              w == FullConfidence - TrimAt
              y == (c - TrimAt) * 100
              strength == Clamp(y \div w, 0, 100)
              z == 1500 + 85 * strength - 10 * (IF eff = None THEN 50 ELSE eff)
              close == Clamp(z \div 100, 0, 95)
  <2>1. eff \in Int
    BY BasisEffType
  <2>2. w \in Int /\ w > 0 /\ y \in Int
    BY <1>2, PercentagesAssumption DEF Percent
  <2>3. y \div w \in Int
    <3>. HIDE DEF w, y
    <3>. QED  BY <2>2
  <2>4. strength \in 0..100
    <3>. HIDE DEF w, y
    <3>. QED  BY <2>3, ClampType
  <2>5. z \in Int
    <3>. HIDE DEF eff, strength
    <3>. QED  BY <2>1, <2>4
  <2>6. z \div 100 \in Int
    <3>. HIDE DEF z
    <3>. QED  BY <2>5
  <2>7. close \in 0..95
    <3>. HIDE DEF z
    <3>. QED  BY <2>6, ClampType
  <2>8. OppositeEvent(b, side, c) =
          IF c = None               THEN [kind |-> "legacy", close |-> 0]
          ELSE IF c < TrimAt        THEN [kind |-> "no_change", close |-> 0]
          ELSE IF c >= reverse      THEN [kind |-> "reverse", close |-> 100]
          ELSE IF close >= FlattenAt THEN [kind |-> "flatten", close |-> 100]
          ELSE                           [kind |-> "trim", close |-> close]
    BY Zenon DEF OppositeEvent
  <2>. HIDE DEF reverse, close
  <2>. QED  BY <1>2, <2>7, <2>8
<1>. QED  BY <1>1, <1>2

\* To change nothing is a decision.
LEMMA NoChangeType ==
  ASSUME NEW p \in Int
  PROVE  /\ NoChange(p) \in Decisions /\ NoChange(p).action = "no_change"
         /\ NoChange(p).refresh = FALSE /\ NoChange(p).opposite = FALSE
BY DEF NoChange, Decision, Decisions, Abs

\* Marking a decision as the answer to an opposite event changes nothing else.
LEMMA MarkedOpposite ==
  ASSUME NEW d \in Decisions
  PROVE  LET e == [d EXCEPT !.opposite = TRUE] IN
         /\ e \in Decisions /\ e.action = d.action /\ e.size = d.size
         /\ e.refresh = d.refresh /\ e.cont = d.cont
BY DEF Decisions

\* Opening from a flat account stays within the plan.
LEMMA FromFlatSuits ==
  ASSUME NEW pl \in EntryPlans, pl.act \in Sides, NEW share \in 0..100
  PROVE  /\ FromFlat(pl, share) \in Decisions /\ Capped(FromFlat(pl, share))
         /\ Suits(FromFlat(pl, share), 0) /\ FromFlat(pl, share).action # "close"
         /\ FromFlat(pl, share).opposite = FALSE
<1>. DEFINE aim == (share * pl.size) \div 100
<1>1. pl.size \in Nat /\ pl.size <= MaxSize /\ MaxSize \in Nat
  <2>1. pl.size \in Sizes
    BY DEF EntryPlans
  <2>. QED  BY <2>1, LargestSize
<1>2. aim \in Int /\ aim <= pl.size
  BY <1>1, ShareUp
<1>3. FromFlat(pl, share) = IF aim > 0 THEN Decision(pl.act, aim, 0) ELSE NoChange(0)
  BY DEF FromFlat
<1>. HIDE DEF aim
<1>4. CASE aim > 0
  <2>1. pl.act \in Exposure
    BY DEF Exposure, Sides
  <2>. QED  BY <1>1, <1>2, <1>3, <1>4, <2>1 DEF Decision, Decisions, Capped, Suits, Sides
<1>5. CASE ~(aim > 0)
  <2>1. FromFlat(pl, share) = NoChange(0)
    BY <1>3, <1>5
  <2>. QED  BY <2>1 DEF NoChange, Decision, Decisions, Abs, Capped, Suits, Exposure, Sides
<1>. QED  BY <1>4, <1>5

\* Following the side already held stays within the plan, and never closes.
LEMMA SameSideSuits ==
  ASSUME NEW pl \in EntryPlans, pl.act \in Sides, NEW share \in 0..100,
         NEW p \in Int, p # 0, Side(p) = pl.act
  PROVE  /\ SameSide(pl, p, share) \in Decisions /\ Capped(SameSide(pl, p, share))
         /\ Suits(SameSide(pl, p, share), p) /\ SameSide(pl, p, share).action # "close"
         /\ SameSide(pl, p, share).opposite = FALSE
<1>. DEFINE cur == Abs(p)
            d == pl.size - cur
            part == (share * d) \div 100
            aim == cur + part
            cut == ((cur - aim) * 100) \div cur
<1>1. pl.size \in Nat /\ pl.size > 0 /\ pl.size <= MaxSize /\ MaxSize \in Nat
  <2>1. pl.size \in Sizes
    BY DEF EntryPlans
  <2>. QED  BY <2>1, LargestSize
<1>2. cur \in Nat /\ cur > 0 /\ d \in Int
  BY <1>1 DEF Abs
<1>3. part \in Int /\ (d >= 0 => 0 <= part /\ part <= d) /\ (d <= 0 => d <= part /\ part <= 0)
  <2>. HIDE DEF d
  <2>1. CASE d >= 0
    BY <1>2, <2>1, ShareUp
  <2>2. CASE d <= 0
    BY <1>2, <2>2, ShareDown
  <2>. QED  BY <1>2, <2>1, <2>2
<1>4. aim \in Int /\ 0 < aim /\ (aim > cur => aim <= MaxSize)
  <2>. HIDE DEF part
  <2>. QED  BY <1>1, <1>2, <1>3
<1>5. aim <= cur => cut \in Nat
  <2>. DEFINE y == (cur - aim) * 100
  <2>. SUFFICES ASSUME aim <= cur PROVE y \div cur \in Nat
    OBVIOUS
  <2>1. y \in Nat
    <3>. HIDE DEF aim, cur
    <3>. QED  BY <1>2, <1>4
  <2>. HIDE DEF y, cur
  <2>. QED  BY <2>1, <1>2, QuotientNat
<1>6. SameSide(pl, p, share) =
        CASE aim > cur -> Decision(AddTo(pl.act), aim, 0)
          [] aim <= 0  -> Decision("close", 0, 100)
          [] 0 < aim /\ (cur - aim) * 100 >= cur -> Decision("trim", aim, cut)
          [] OTHER     -> [NoChange(p) EXCEPT !.refresh = TRUE]
  BY Zenon DEF SameSide
<1>. HIDE DEF aim, cut
<1>7. CASE aim > cur
  <2>1. SameSide(pl, p, share) = Decision(AddTo(pl.act), aim, 0)
    BY <1>2, <1>4, <1>6, <1>7
  <2>2. AddTo(pl.act) \in Exposure \ Sides
    BY DEF AddTo, Exposure, Sides
  <2>3. /\ AddTo(pl.act) = "add_to_long" => p > 0 /\ aim > p
        /\ AddTo(pl.act) = "add_to_short" => p < 0 /\ aim > -p
        /\ AddTo(pl.act) \in {"add_to_long", "add_to_short"}
    BY <1>7 DEF AddTo, Side, Abs, Sides
  <2>. QED  BY <2>1, <2>2, <2>3, <1>4, <1>7 DEF Decision, Decisions, Capped, Suits, Sides, Exposure
<1>8. CASE ~(aim > cur) /\ (cur - aim) * 100 >= cur
  <2>1. SameSide(pl, p, share) = Decision("trim", aim, cut)
    BY <1>2, <1>4, <1>6, <1>8
  <2>2. cut \in Nat
    BY <1>2, <1>4, <1>5, <1>8
  <2>. QED  BY <2>1, <2>2, <1>4 DEF Decision, Decisions, Capped, Suits, Exposure, Sides
<1>9. CASE ~(aim > cur) /\ ~((cur - aim) * 100 >= cur)
  <2>1. SameSide(pl, p, share) = [NoChange(p) EXCEPT !.refresh = TRUE]
    BY <1>2, <1>4, <1>6, <1>9
  <2>. QED  BY <2>1, NoChangeType DEF Capped, Suits, Exposure, Sides, Decisions
<1>. QED  BY <1>7, <1>8, <1>9

\* A signal against the position turns it within the plan, and a plan that
\* waits for a scenario closes it.
LEMMA AgainstSuits ==
  ASSUME NEW pl \in EntryPlans, pl.act \in Sides, NEW share \in 0..100, NEW b \in Bases,
         NEW p \in Int, p # 0, Side(p) # pl.act
  PROVE  /\ Against(pl, p, share, b) \in Decisions /\ Capped(Against(pl, p, share, b))
         /\ Suits(Against(pl, p, share, b), p)
         /\ pl.scenario => Against(pl, p, share, b).action = "close" /\ Against(pl, p, share, b).cont
<1>. DEFINE aim == (share * pl.size) \div 100
            ev == OppositeEvent(b, Side(p), pl.conf)
            left == (Abs(p) * (100 - ev.close)) \div 100
            turn == IF aim > 0 /\ pl.now THEN Decision(ReverseTo(pl.act), aim, 0)
                    ELSE Decision("close", 0, 100)
            dec == CASE ev.kind = "no_change" \/ (ev.close < 1 /\ ev.kind = "trim") -> NoChange(p)
                     [] ev.kind \in {"reverse", "legacy"} -> turn
                     [] ev.kind = "flatten"   -> Decision("close", 0, 100)
                     [] OTHER                 -> Decision("trim", left, ev.close)
<1>1. pl.size \in Nat /\ pl.size <= MaxSize /\ MaxSize \in Nat
  <2>1. pl.size \in Sizes
    BY DEF EntryPlans
  <2>. QED  BY <2>1, LargestSize
<1>2. aim \in Int /\ aim <= MaxSize
  <2>1. aim \in Int /\ aim <= pl.size
    BY <1>1, ShareUp
  <2>. HIDE DEF aim
  <2>. QED  BY <2>1, <1>1
<1>3. /\ ev \in [kind : {"legacy", "no_change", "reverse", "flatten", "trim"}, close : 0..100]
      /\ pl.conf = None => ev.kind = "legacy"
  BY OppositeEventType DEF EntryPlans
<1>. HIDE DEF ev
<1>4. left \in Int
  <2>. DEFINE rest == 100 - ev.close
              x == Abs(p) * rest
  <2>1. rest \in Int /\ Abs(p) \in Int
    BY <1>3 DEF Abs
  <2>2. x \in Int
    <3>. HIDE DEF rest
    <3>. QED  BY <2>1
  <2>. HIDE DEF x
  <2>3. x \div 100 \in Int
    BY <2>2
  <2>. QED  BY <2>3 DEF x
<1>. HIDE DEF aim, left
<1>5. Against(pl, p, share, b) = [dec EXCEPT !.opposite = TRUE]
  BY Zenon DEF Against, ev, aim, left
<1>6. CASE ev.kind = "no_change" \/ (ev.close < 1 /\ ev.kind = "trim")
  <2>1. dec = NoChange(p)
    BY <1>6
  <2>2. ~pl.scenario
    BY <1>3, <1>6 DEF EntryPlans
  <2>. HIDE DEF dec
  <2>3. /\ dec \in Decisions /\ dec.action = "no_change" /\ dec.refresh = FALSE
    BY <2>1, NoChangeType
  <2>. QED  BY <1>5, <2>2, <2>3, MarkedOpposite DEF Capped, Suits, Exposure, Sides
<1>7. CASE ev.kind \in {"reverse", "legacy"}
  <2>1. dec = turn
    BY <1>7
  <2>2. CASE aim > 0 /\ pl.now
    <3>1. turn = Decision(ReverseTo(pl.act), aim, 0)
      BY <2>2
    <3>2. /\ ReverseTo(pl.act) \in {"reverse_to_long", "reverse_to_short"}
          /\ ReverseTo(pl.act) = "reverse_to_long" => p < 0
          /\ ReverseTo(pl.act) = "reverse_to_short" => p > 0
      BY DEF ReverseTo, Side, Sides
    <3>3. ~pl.scenario
      BY <2>2 DEF EntryPlans
    <3>. HIDE DEF dec, turn
    <3>4. dec \in Decisions /\ dec.action = ReverseTo(pl.act) /\ dec.size = aim /\ ~dec.refresh
      BY <1>2, <2>1, <3>1, <3>2 DEF Decision, Decisions, Exposure
    <3>. QED  BY <1>2, <1>5, <2>2, <3>2, <3>3, <3>4, MarkedOpposite
                 DEF Capped, Suits, Exposure, Sides
  <2>3. CASE ~(aim > 0 /\ pl.now)
    <3>1. dec = Decision("close", 0, 100)
      BY <2>1, <2>3
    <3>. HIDE DEF dec
    <3>2. dec \in Decisions /\ dec.action = "close" /\ dec.cont /\ ~dec.refresh
      <4>1. dec = [action |-> "close", size |-> 0, close |-> 100, refresh |-> FALSE, cont |-> TRUE,
                  opposite |-> FALSE]
        BY <3>1 DEF Decision
      <4>. QED  BY <4>1 DEF Decisions
    <3>. QED  BY <1>5, <3>2, MarkedOpposite DEF Capped, Suits, Exposure, Sides
  <2>. QED  BY <2>2, <2>3
<1>8. CASE ev.kind = "flatten"
  <2>1. dec = Decision("close", 0, 100)
    BY <1>8
  <2>. HIDE DEF dec
  <2>2. dec \in Decisions /\ dec.action = "close" /\ dec.cont /\ ~dec.refresh
    <3>1. dec = [action |-> "close", size |-> 0, close |-> 100, refresh |-> FALSE, cont |-> TRUE,
                opposite |-> FALSE]
      BY <2>1 DEF Decision
    <3>. QED  BY <3>1 DEF Decisions
  <2>. QED  BY <1>5, <2>2, MarkedOpposite DEF Capped, Suits, Exposure, Sides
<1>9. CASE ev.kind = "trim" /\ ~(ev.close < 1)
  <2>1. dec = Decision("trim", left, ev.close)
    BY <1>9
  <2>2. ~pl.scenario
    BY <1>3, <1>9 DEF EntryPlans
  <2>3. ev.close \in Nat
    BY <1>3
  <2>. HIDE DEF dec
  <2>4. dec \in Decisions /\ dec.action = "trim" /\ ~dec.refresh
    BY <1>4, <2>1, <2>3 DEF Decision, Decisions
  <2>. QED  BY <1>5, <2>2, <2>4, MarkedOpposite DEF Capped, Suits, Exposure, Sides
<1>. QED  BY <1>3, <1>6, <1>7, <1>8, <1>9

\* The entry decision against the live position.
LEMMA ConvertSuits ==
  ASSUME NEW pl \in EntryPlans, NEW p \in Int, NEW b \in Bases
  PROVE  /\ Convert(pl, p, b) \in Decisions /\ Capped(Convert(pl, p, b))
         /\ Suits(Convert(pl, p, b), p)
         /\ pl.scenario => \/ Convert(pl, p, b).action = "close" /\ Convert(pl, p, b).cont
                           \/ Convert(pl, p, b).action # "close" /\ ~Convert(pl, p, b).opposite
<1>. DEFINE n == Normalized(pl.conf)
            share == IF n = None THEN 100 ELSE n
            dec == IF pl.act = "no_trade"                THEN NoChange(p)
                   ELSE IF p # 0 /\ Side(p) # pl.act     THEN Against(pl, p, share, b)
                   ELSE IF n = 0                         THEN NoChange(p)
                   ELSE IF p = 0                         THEN FromFlat(pl, share)
                   ELSE                                       SameSide(pl, p, share)
            Good(d) == /\ d \in Decisions /\ Capped(d) /\ Suits(d, p)
                       /\ pl.scenario => \/ d.action = "close" /\ d.cont
                                         \/ d.action # "close" /\ ~d.opposite
<1>1. share \in 0..100
  <2>1. pl.conf \in Percent \cup {None}
    BY DEF EntryPlans
  <2>. QED  BY <2>1, NormalizedType DEF None
<1>2. Convert(pl, p, b) = IF dec.action \in Exposure /\ pl.closed THEN NoChange(p) ELSE dec
  BY Zenon DEF Convert
<1>. HIDE DEF share, n
<1>3. Good(NoChange(p))
  BY DEF NoChange, Decision, Decisions, Abs, Capped, Suits, Exposure, Sides
<1>4. pl.act # "no_trade" => pl.act \in Sides
  BY DEF EntryPlans
<1>5. ASSUME pl.act # "no_trade", p # 0, Side(p) # pl.act  PROVE Good(Against(pl, p, share, b))
  BY <1>1, <1>4, <1>5, AgainstSuits
<1>6. ASSUME pl.act # "no_trade", p = 0  PROVE Good(FromFlat(pl, share))
  BY <1>1, <1>4, <1>6, FromFlatSuits
<1>7. ASSUME pl.act # "no_trade", p # 0, Side(p) = pl.act  PROVE Good(SameSide(pl, p, share))
  BY <1>1, <1>4, <1>7, SameSideSuits
<1>. HIDE DEF Good
<1>8. Good(dec)
  BY <1>3, <1>5, <1>6, <1>7
<1>. HIDE DEF dec
<1>9. Good(Convert(pl, p, b))
  BY <1>2, <1>3, <1>8
<1>. QED  BY <1>9 DEF Good

\* The stored plan: what is executed at once suits the position, what waits
\* for a scenario may wait.
LEMMA MaterializeSuits ==
  ASSUME NEW pl \in EntryPlans, NEW p \in Int, NEW b \in Bases
  PROVE  LET m == Materialize(pl, p, b) IN
         /\ m \in Materials /\ Capped(m.dec) /\ Suits(m.dec, p)
         /\ m.now /\ m.dec.action = "no_change" => m.dec.refresh
         /\ m.scenario => Waitable(m, p = 0)
<1>. DEFINE dec == Convert(pl, p, b)
            forced == p # 0 /\ pl.scenario /\ dec.action = "close" /\ dec.cont
            now == pl.now /\ (dec.action # "no_change" \/ (dec.refresh /\ pl.act = Side(p)))
            kept == IF pl.now /\ dec.action = "close" THEN [dec EXCEPT !.cont = FALSE] ELSE dec
<1>1. /\ dec \in Decisions /\ Capped(dec) /\ Suits(dec, p)
      /\ pl.scenario => \/ dec.action = "close" /\ dec.cont
                        \/ dec.action # "close" /\ ~dec.opposite
  BY ConvertSuits
<1>2. Materialize(pl, p, b) =
        [now |-> now \/ forced, dec |-> kept, scenario |-> pl.scenario /\ ~now /\ ~forced,
         pass |-> p # 0 /\ dec.action = "no_change" /\ ~dec.refresh]
  BY Zenon DEF Materialize
<1>. HIDE DEF dec
<1>3. /\ kept \in Decisions /\ kept.action = dec.action /\ kept.size = dec.size
      /\ kept.refresh = dec.refresh /\ kept.opposite = dec.opposite
  BY <1>1 DEF Decisions
<1>4. pl.now \in BOOLEAN /\ pl.scenario \in BOOLEAN
  BY DEF EntryPlans
<1>5. Capped(kept) /\ Suits(kept, p)
  BY <1>1, <1>3 DEF Capped, Suits
<1>6. forced \in BOOLEAN /\ now \in BOOLEAN /\ dec.refresh \in BOOLEAN
  BY <1>1, <1>4 DEF Decisions
<1>7. Suits(dec, p) => (dec.action = "close" => p # 0)
  BY DEF Suits
<1>. HIDE DEF kept
<1>8. Materialize(pl, p, b) \in Materials
  BY <1>2, <1>3, <1>4, <1>6 DEF Materials
<1>9. Materialize(pl, p, b).now /\ kept.action = "no_change" => kept.refresh
  BY <1>2, <1>3, <1>4, <1>6
<1>10. Materialize(pl, p, b).scenario => Waitable(Materialize(pl, p, b), p = 0)
  <2>. DEFINE m == Materialize(pl, p, b)
  <2>2. /\ m.scenario = (pl.scenario /\ ~now /\ ~forced) /\ m.dec = kept
        /\ m.pass = (p # 0 /\ dec.action = "no_change" /\ ~dec.refresh)
    BY <1>2
  <2>. HIDE DEF m, now
  <2>. SUFFICES ASSUME pl.scenario, ~now, ~forced  PROVE Waitable(m, p = 0)
    BY <2>2 DEF m
  <2>1. dec.action # "close" /\ ~dec.opposite
    BY <1>1, <1>7
  <2>. QED  BY <2>1, <2>2, <1>3, <1>6 DEF Waitable
<1>. QED  BY <1>2, <1>5, <1>8, <1>9, <1>10

-----------------------------------------------------------------------------
(* Orders.                                                                 *)

\* The order for a target: it opens on the side of the target and by what is
\* missing, or reduces.
LEMMA TargetShape ==
  ASSUME NEW side \in Sides \cup {"flat"}, NEW size \in Int, NEW s \in Int
  PROVE  LET o == Target(side, size, s) IN
         /\ o.kind \in {"none", "open", "reduce"} /\ o.qty \in Int
         /\ o.kind = "open" =>
              /\ side \in Sides /\ size > 0 /\ Side(o.qty) = side
              /\ Side(s) = side => size > Abs(s) /\ Abs(o.qty) = size - Abs(s)
              /\ Side(s) # side => Abs(o.qty) = Abs(s) + size
BY DEF Target, NoOrder, OpenDelta, ReduceDelta, Signed, Side, Abs, Sides

\* What a fill can do to the position.
LEMMA FilledShape ==
  ASSUME NEW p \in Int, NEW o, o.kind \in {"none", "open", "reduce"}, o.qty \in Int,
         NEW q \in Filled(p, o)
  PROVE  /\ q \in Int
         /\ o.kind = "none" => q = p
         /\ o.kind = "open" =>
              \E k \in 0..Abs(o.qty) : q = p + Signed(Side(o.qty), k)
         /\ o.kind = "reduce" => Abs(q) <= Abs(p) /\ (q # 0 => Side(q) = Side(p))
<1>1. Abs(o.qty) \in Nat
  BY DEF Abs
<1>2. CASE o.kind = "none"
  BY <1>2 DEF Filled
<1>3. CASE o.kind = "open"
  <2>1. q \in {p} \cup {p + Signed(Side(o.qty), k) : k \in 1..Abs(o.qty)}
    BY <1>3 DEF Filled
  <2>2. CASE q = p
    <3>1. 0 \in 0..Abs(o.qty) /\ q = p + Signed(Side(o.qty), 0)
      BY <1>1, <2>2 DEF Signed
    <3>. QED  BY <1>3, <2>2, <3>1
  <2>3. CASE q # p
    <3>1. PICK k \in 1..Abs(o.qty) : q = p + Signed(Side(o.qty), k)
      BY <2>1, <2>3
    <3>2. k \in 0..Abs(o.qty) /\ q \in Int
      BY <1>1, <3>1 DEF Signed
    <3>. QED  BY <1>3, <3>1, <3>2
  <2>. QED  BY <2>2, <2>3
<1>4. CASE o.kind = "reduce"
  <2>1. q \in IF p = 0 \/ Side(o.qty) = Side(p) THEN {p}
              ELSE {p, p + Signed(Side(o.qty),
                                IF Abs(o.qty) < Abs(p) THEN Abs(o.qty) ELSE Abs(p))}
    BY <1>4 DEF Filled
  <2>2. q \in Int /\ Abs(q) <= Abs(p) /\ (q # 0 => Side(q) = Side(p))
    BY <2>1 DEF Signed, Side, Abs
  <2>. QED  BY <1>4, <2>2
<1>. QED  BY <1>2, <1>3, <1>4

\* The order for a decision: only an exposure action opens, and never for more
\* than it takes from the position it was computed for to the size decided.
LEMMA OrderShape ==
  ASSUME NEW d \in Decisions, NEW s \in Int
  PROVE  LET o == Order(d, s)
             side == IF d.action \in {"long", "add_to_long", "reverse_to_long"} THEN "long" ELSE "short"
         IN
         /\ o.kind \in {"none", "open", "reduce"} /\ o.qty \in Int
         /\ d.action = "no_change" => o.kind = "none"
         /\ o.kind = "open" =>
              /\ d.action \in Exposure /\ d.size > 0 /\ Side(o.qty) = side
              /\ Side(s) = side => d.size > Abs(s) /\ Abs(o.qty) = d.size - Abs(s)
              /\ Side(s) # side => Abs(o.qty) = Abs(s) + d.size
<1>. DEFINE Good(o) ==
       LET side == IF d.action \in {"long", "add_to_long", "reverse_to_long"} THEN "long" ELSE "short"
       IN /\ o.kind \in {"none", "open", "reduce"} /\ o.qty \in Int
          /\ d.action = "no_change" => o.kind = "none"
          /\ o.kind = "open" =>
               /\ d.action \in Exposure /\ d.size > 0 /\ Side(o.qty) = side
               /\ Side(s) = side => d.size > Abs(s) /\ Abs(o.qty) = d.size - Abs(s)
               /\ Side(s) # side => Abs(o.qty) = Abs(s) + d.size
<1>1. d.size \in Int /\ d.close \in Nat /\ d.action \in {"no_change", "close", "trim"} \cup Exposure
  BY DEF Decisions
<1>2. Good(NoOrder)
  BY DEF NoOrder
<1>3. CASE d.action = "no_change"
  <2>1. Order(d, s) = NoOrder
    BY <1>3 DEF Order, Sides
  <2>. QED  BY <1>2, <2>1
<1>4. CASE d.action = "close"
  <2>1. Order(d, s) = Target("flat", 0, s)
    BY <1>4 DEF Order, Sides
  <2>. QED  BY <1>4, <2>1, TargetShape DEF Sides
<1>5. CASE d.action = "trim"
  <2>. DEFINE rest == 100 - d.close
              x == Abs(s) * rest
              n == x \div 100
  <2>1. Order(d, s) = Target(Side(s), n, s)
    BY <1>5 DEF Order, Sides
  <2>2. Abs(s) \in Nat /\ rest \in Int /\ rest <= 100
    BY <1>1 DEF Abs
  <2>3. x \in Int /\ x <= 100 * Abs(s)
    <3>1. x \in Int
      <4>. HIDE DEF rest
      <4>. QED  BY <2>2
    <3>2. Abs(s) * (100 - rest) >= 0
      <4>. HIDE DEF rest
      <4>. QED  BY <2>2
    <3>3. Abs(s) * (100 - rest) = 100 * Abs(s) - x
      <4>. HIDE DEF rest
      <4>. QED  BY <2>2
    <3>. HIDE DEF x, rest
    <3>. QED  BY <3>1, <3>2, <3>3, <2>2
  <2>4. n \in Int /\ n <= Abs(s)
    <3>. HIDE DEF x
    <3>. QED  BY <2>2, <2>3
  <2>. HIDE DEF n
  <2>5. Side(s) \in Sides \cup {"flat"}
    BY DEF Side, Sides
  <2>6. /\ Target(Side(s), n, s).kind \in {"none", "open", "reduce"} /\ Target(Side(s), n, s).qty \in Int
        /\ Target(Side(s), n, s).kind = "open" => n > Abs(s)
    BY <2>4, <2>5, TargetShape
  <2>. QED  BY <1>5, <2>1, <2>2, <2>4, <2>6
<1>6. CASE d.action \in Exposure
  <2>. DEFINE side == IF d.action \in {"long", "add_to_long", "reverse_to_long"} THEN "long" ELSE "short"
  <2>1. Order(d, s) \in {NoOrder, Target(side, d.size, s)}
    BY <1>6 DEF Order, Sides, Exposure
  <2>2. side \in Sides \cup {"flat"} /\ d.action # "no_change"
    BY <1>6 DEF Sides, Exposure
  <2>. HIDE DEF side
  <2>3. LET o == Target(side, d.size, s) IN
        /\ o.kind \in {"none", "open", "reduce"} /\ o.qty \in Int
        /\ o.kind = "open" =>
              /\ d.size > 0 /\ Side(o.qty) = side
              /\ Side(s) = side => d.size > Abs(s) /\ Abs(o.qty) = d.size - Abs(s)
              /\ Side(s) # side => Abs(o.qty) = Abs(s) + d.size
    BY <1>1, <2>2, TargetShape
  <2>4. Good(Target(side, d.size, s))
    BY <1>6, <2>2, <2>3 DEF side
  <2>. HIDE DEF Good
  <2>5. Good(Order(d, s))
    BY <1>2, <2>1, <2>4
  <2>. QED  BY <2>5 DEF Good
<1>. QED  BY <1>1, <1>3, <1>4, <1>5, <1>6

\* A fill never takes the position beyond the largest size and the lots the
\* exits took from it since it was read, and only an exposure action turns it.
LEMMA FillWithin ==
  ASSUME NEW d \in Decisions, Capped(d), NEW s \in Int, NEW p \in Int, NEW g \in Nat,
         Abs(p) <= Abs(s), Abs(s) <= Abs(p) + g, p # 0 => Side(p) = Side(s),
         Abs(p) <= MaxSize + g, NEW q \in Filled(p, Order(d, s))
  PROVE  /\ q \in Int /\ Abs(q) <= MaxSize + g
         /\ d.action = "no_change" => q = p
         /\ d.action \notin Exposure /\ q # 0 => Side(q) = Side(p)
<1>. DEFINE o == Order(d, s)
            side == IF d.action \in {"long", "add_to_long", "reverse_to_long"} THEN "long" ELSE "short"
<1>1. /\ o.kind \in {"none", "open", "reduce"} /\ o.qty \in Int
      /\ d.action = "no_change" => o.kind = "none"
      /\ o.kind = "open" =>
              /\ d.action \in Exposure /\ d.size > 0 /\ Side(o.qty) = side
              /\ Side(s) = side => d.size > Abs(s) /\ Abs(o.qty) = d.size - Abs(s)
              /\ Side(s) # side => Abs(o.qty) = Abs(s) + d.size
  BY OrderShape
<1>. HIDE DEF o
<1>2. /\ q \in Int
      /\ o.kind = "none" => q = p
      /\ o.kind = "open" => \E k \in 0..Abs(o.qty) : q = p + Signed(Side(o.qty), k)
      /\ o.kind = "reduce" => Abs(q) <= Abs(p) /\ (q # 0 => Side(q) = Side(p))
  BY <1>1, FilledShape DEF o
<1>3. MaxSize \in Nat /\ d.size \in Int
  BY LargestSize DEF Decisions
<1>4. CASE o.kind = "none"
  BY <1>2, <1>4
<1>5. CASE o.kind = "reduce"
  BY <1>1, <1>2, <1>3, <1>5 DEF Abs
<1>6. CASE o.kind = "open"
  <2>1. PICK k \in 0..Abs(o.qty) : q = p + Signed(side, k)
    BY <1>1, <1>2, <1>6
  <2>2. d.action \in Exposure /\ d.size > 0 /\ d.size <= MaxSize
    BY <1>1, <1>6 DEF Capped
  <2>3. side \in Sides
    BY DEF Sides
  <2>. HIDE DEF side
  <2>4. k \in Nat /\ k <= Abs(o.qty) /\ Abs(o.qty) \in Nat
    BY <1>1 DEF Abs
  <2>5. CASE Side(s) = side
    <3>1. k <= d.size - Abs(s)
      BY <1>1, <1>3, <1>6, <2>4, <2>5 DEF Abs
    <3>. QED  BY <1>2, <1>3, <2>1, <2>2, <2>3, <2>4, <2>5, <3>1, <1>6, <1>1 DEF Abs, Signed, Side, Sides
  <2>6. CASE Side(s) # side
    <3>1. k <= Abs(s) + d.size
      BY <1>1, <1>3, <1>6, <2>4, <2>6 DEF Abs
    <3>. QED  BY <1>2, <1>3, <2>1, <2>2, <2>3, <2>4, <2>6, <3>1, <1>6, <1>1 DEF Abs, Signed, Side, Sides
  <2>. QED  BY <2>5, <2>6
<1>. QED  BY <1>1, <1>4, <1>5, <1>6

\* A fill that leaves the position on a side it was not on shows the decision,
\* or is an addition to a position the exits closed meanwhile.
LEMMA FillTurns ==
  ASSUME NEW d \in Decisions, NEW s \in Int, Suits(d, s), NEW p \in Int,
         Abs(p) <= Abs(s), p # 0 => Side(p) = Side(s), NEW lev,
         NEW q \in Filled(p, Order(d, s)), q # 0, Side(q) # Side(p)
  PROVE  Effective(d, s, q, lev) \/ (p # s /\ Side(q) = Side(s))
<1>. DEFINE o == Order(d, s)
            side == IF d.action \in {"long", "add_to_long", "reverse_to_long"} THEN "long" ELSE "short"
<1>1. /\ o.kind \in {"none", "open", "reduce"} /\ o.qty \in Int
      /\ o.kind = "open" => d.action \in Exposure /\ Side(o.qty) = side
  BY OrderShape
<1>. HIDE DEF o
<1>2. /\ q \in Int
      /\ o.kind = "none" => q = p
      /\ o.kind = "open" => \E k \in 0..Abs(o.qty) : q = p + Signed(Side(o.qty), k)
      /\ o.kind = "reduce" => Abs(q) <= Abs(p) /\ (q # 0 => Side(q) = Side(p))
  BY <1>1, FilledShape DEF o
<1>3. o.kind = "open"
  BY <1>1, <1>2
<1>4. PICK k \in 0..Abs(o.qty) : q = p + Signed(side, k)
  BY <1>1, <1>2, <1>3
<1>5. k \in Nat
  BY <1>1 DEF Abs
<1>6. Side(q) = side
  BY <1>2, <1>4, <1>5 DEF Signed, Side
<1>7. d.action \in Exposure
  BY <1>1, <1>3
<1>8. CASE d.action \in {"add_to_long", "add_to_short"}
  BY <1>2, <1>6, <1>7, <1>8 DEF Suits, Side, Abs
<1>9. CASE d.action \in Sides
  BY <1>2, <1>6, <1>7, <1>9 DEF Suits, Side, Effective, Sides
<1>10. CASE d.action \in {"reverse_to_long", "reverse_to_short"}
  BY <1>2, <1>6, <1>7, <1>10 DEF Suits, Side, Effective, Sides
<1>. QED  BY <1>7, <1>8, <1>9, <1>10 DEF Exposure, Sides

-----------------------------------------------------------------------------
(* The basis and the judged events.                                        *)

\* No basis is a basis.
LEMMA NoBasisType == NoBasis \in Bases
BY DEF NoBasis, Bases, Percent, None

\* A basis that is set is a basis.
LEMMA SetBasisType ==
  ASSUME NEW side, NEW raw \in Int, NEW validity \in Int
  PROVE  SetBasis(side, raw, validity) \in Bases
<1>1. Clamp(raw, 0, 100) \in 0..100 /\ Clamp(validity, 0, 100) \in 0..100
  BY ClampType
<1>3. side \in Sides => [side |-> side, raw |-> Clamp(raw, 0, 100), validity |-> Clamp(validity, 0, 100)]
                         \in Bases
  BY <1>1 DEF Bases, Percent
<1>. QED  BY <1>3, NoBasisType DEF SetBasis

\* The basis after an execution is one.
LEMMA BasisAfterType ==
  ASSUME NEW b \in Bases, NEW d \in Decisions, NEW c \in Percent \cup {None},
         NEW s \in Int, NEW q \in Int
  PROVE  BasisAfter(b, d, c, s, q) \in Bases
<1>. DEFINE old == BasisFor(b, Side(q))
            own == BasisFor(b, Side(s))
            added == IF Abs(q) > Abs(s) THEN Abs(q) - Abs(s) ELSE 0
            mean == (old.raw * Abs(s) + c * added) \div (Abs(s) + added)
            faded == (own.validity * (10000 - Decay * d.close)) \div 10000
<1>1. NoBasis \in Bases /\ old \in Bases /\ own \in Bases
  BY NoBasisType DEF BasisFor
<1>2. Abs(s) \in Nat /\ Abs(q) \in Nat /\ added \in Nat /\ (s # 0 => Abs(s) + added > 0)
  BY DEF Abs
<1>3. c \in Int /\ old.raw \in Int /\ old.validity \in Int /\ own.raw \in Int /\ own.validity \in Int
  <2>1. Percent \cup {None} \subseteq Int
    BY DEF Percent, None
  <2>2. \A x \in Bases : x.raw \in Percent \cup {None} /\ x.validity \in Percent
    BY DEF Bases
  <2>. HIDE DEF old, own
  <2>. QED  BY <1>1, <2>1, <2>2
<1>. HIDE DEF old, own, added
<1>4. s # 0 => mean \in Int
  <2>. DEFINE x == old.raw * Abs(s)
              y == c * added
              w == Abs(s) + added
  <2>. SUFFICES ASSUME s # 0 PROVE (x + y) \div w \in Int
    OBVIOUS
  <2>1. x \in Int /\ y \in Int /\ w \in Int /\ w > 0
    BY <1>2, <1>3
  <2>. HIDE DEF x, y, w
  <2>. QED  BY <2>1
<1>5. faded \in Int
  <2>. DEFINE x == Decay * d.close
              y == own.validity * (10000 - x)
  <2>1. Decay \in Int /\ d.close \in Int
    BY PercentagesAssumption DEF Decisions
  <2>2. x \in Int
    BY <2>1
  <2>3. y \in Int
    <3>. HIDE DEF x
    <3>. QED  BY <1>3, <2>2
  <2>4. y \div 10000 \in Int
    <3>. HIDE DEF y
    <3>. QED  BY <2>3
  <2>. QED  BY <2>4
<1>. HIDE DEF mean, faded
<1>6. SetBasis(Side(q), c, 100) \in Bases
  BY <1>3, SetBasisType
<1>7. s # 0 => SetBasis(Side(q), mean, old.validity) \in Bases
  BY <1>3, <1>4, SetBasisType
<1>8. SetBasis(Side(q), own.raw, faded) \in Bases
  BY <1>3, <1>5, SetBasisType
<1>9. BasisAfter(b, d, c, s, q) \in
        {NoBasis, b, SetBasis(Side(q), c, 100), SetBasis(Side(q), own.raw, faded)}
          \cup (IF s # 0 THEN {SetBasis(Side(q), mean, old.validity)} ELSE {})
  BY DEF BasisAfter, old, own, added, mean, faded
<1>. QED  BY <1>1, <1>6, <1>7, <1>8, <1>9

\* A nonempty set of natural numbers has a least element.
LEMMA LeastNatural ==
  ASSUME NEW T, T \subseteq Nat, T # {}
  PROVE  \E x \in T : \A y \in T : x <= y
<1>. DEFINE R == OpToRel(<, Nat)
<1>1. IsWellFoundedOn(R, Nat)
  BY NatLessThanWellFounded
<1>2. \A a, b \in Nat : a < b => <<a, b>> \in R
  BY DEF OpToRel
<1>. HIDE DEF R
<1>3. PICK x \in T : \A y \in T : ~(<<y, x>> \in R)
  BY <1>1, WFMin
<1>4. \A y \in T : y \in Nat /\ x \in Nat
  OBVIOUS
<1>5. \A y \in T : ~(y < x)
  BY <1>2, <1>3, <1>4
<1>6. \A y \in T : x <= y
  BY <1>4, <1>5
<1>. QED  BY <1>6

\* A bounded function has a greatest value.
LEMMA GreatestValue ==
  ASSUME NEW S, S # {}, NEW n \in Nat, NEW f \in [S -> 0..n]
  PROVE  \E x \in S : \A y \in S : f[y] <= f[x]
<1>. DEFINE T == {n - f[x] : x \in S}
<1>1. \A x \in S : f[x] \in 0..n /\ n - f[x] \in Nat
  OBVIOUS
<1>2. T \subseteq Nat /\ T # {}
  BY <1>1
<1>3. \A x \in S : n - f[x] \in T
  OBVIOUS
<1>4. \A t \in T : \E x \in S : t = n - f[x]
  OBVIOUS
<1>. HIDE DEF T
<1>5. PICK m \in T : \A t \in T : m <= t
  BY <1>2, LeastNatural
<1>6. PICK x \in S : m = n - f[x]
  BY <1>4
<1>7. \A y \in S : n - f[x] <= n - f[y]
  BY <1>3, <1>5, <1>6
<1>8. \A y \in S : f[y] <= f[x]
  BY <1>1, <1>7
<1>. QED  BY <1>8

\* A judged batch is reduced to one of its events: the one that none of the
\* others comes after.
LEMMA BestIsJudged ==
  ASSUME NEW n \in Nat, n > 0, NEW k \in Kinds,
         NEW rs \in [1..n -> Judged(k) \cup {Failed(k)}]
  PROVE  Best(rs) \in Judged(k) \cup {Failed(k)}
<1>1. \A i \in 1..n : rs[i] \in Judged(k) \cup {Failed(k)}
  OBVIOUS
<1>2. \A r \in Judged(k) \cup {Failed(k)} : Rank(r) \in 0..3 /\ r.conf \in 0..100
  <2>1. \A r \in Judged(k) \cup {Failed(k)} :
          /\ r.rel \in {"relevant", "unrelated", "duplicate", "failed"}
          /\ r.conf \in Confs \cup {0}
    BY DEF Judged, Failed
  <2>2. \A r : r.rel \in {"relevant", "unrelated", "duplicate", "failed"} => Rank(r) \in 0..3
    BY DEF Rank
  <2>3. Confs \cup {0} \subseteq 0..100
    BY EventsAssumption DEF Percent
  <2>. QED  BY <2>1, <2>2, <2>3
<1>. DEFINE rank(i) == Rank(rs[i])
            conf(i) == rs[i].conf
<1>3. \A i \in 1..n : rank(i) \in 0..3 /\ conf(i) \in 0..100
  BY <1>1, <1>2
<1>11. \A i \in 1..n : rank(i) \in Int /\ conf(i) \in Int
  <2>1. 0..3 \subseteq Int /\ 0..100 \subseteq Int
    OBVIOUS
  <2>. QED  BY <1>3, <2>1, Zenon
<1>10. \A i, j \in 1..n : Before(rs, i, j) <=>
         \/ rank(i) < rank(j)
         \/ rank(i) = rank(j) /\ conf(i) < conf(j)
         \/ rank(i) = rank(j) /\ conf(i) = conf(j) /\ i <= j
  BY DEF Before
<1>. HIDE DEF rank, conf
<1>. DEFINE All == 1..n
            ranks == [i \in All |-> rank(i)]
<1>4. PICK a \in 1..n : \A i \in 1..n : rank(i) <= rank(a)
  <2>1. ranks \in [All -> 0..3] /\ All # {}
    <3>1. 1 \in All
      OBVIOUS
    <3>2. \A i \in All : rank(i) \in 0..3
      BY <1>3
    <3>. HIDE DEF All
    <3>. QED  BY <3>1, <3>2
  <2>2. PICK a \in All : \A i \in All : ranks[i] <= ranks[a]
    <3>. HIDE DEF All, ranks
    <3>. QED  BY <2>1, GreatestValue
  <2>. QED  BY <2>2
<1>. DEFINE Top1 == {i \in 1..n : rank(i) = rank(a)}
            confs == [i \in Top1 |-> conf(i)]
<1>5. PICK b \in Top1 : \A i \in Top1 : conf(i) <= conf(b)
  <2>1. confs \in [Top1 -> 0..100] /\ Top1 # {}
    BY <1>3
  <2>2. PICK b \in Top1 : \A i \in Top1 : confs[i] <= confs[b]
    <3>. HIDE DEF Top1, confs
    <3>. QED  BY <2>1, GreatestValue
  <2>3. \A i \in Top1 : confs[i] = conf(i)
    OBVIOUS
  <2>. HIDE DEF Top1, confs
  <2>. QED  BY <2>2, <2>3
<1>. DEFINE Top2 == {i \in Top1 : conf(i) = conf(b)}
            last == [i \in Top2 |-> i]
<1>6. PICK c \in Top2 : \A i \in Top2 : i <= c
  <2>1. last \in [Top2 -> 0..n] /\ Top2 # {}
    OBVIOUS
  <2>2. PICK c \in Top2 : \A i \in Top2 : last[i] <= last[c]
    <3>. HIDE DEF Top2, last
    <3>. QED  BY <2>1, GreatestValue
  <2>3. \A i \in Top2 : last[i] = i
    OBVIOUS
  <2>. HIDE DEF Top2, last
  <2>. QED  BY <2>2, <2>3
<1>7. c \in 1..n /\ \A i \in 1..n : Before(rs, i, c)
  <2>1. c \in 1..n /\ b \in 1..n /\ rank(c) = rank(a) /\ conf(c) = conf(b)
    OBVIOUS
  <2>. SUFFICES ASSUME NEW i \in 1..n  PROVE Before(rs, i, c)
    BY <2>1
  <2>2. rank(i) <= rank(c) /\ rank(i) \in Int /\ rank(c) \in Int /\ conf(i) \in Int /\ conf(c) \in Int
    <3>1. rank(i) <= rank(a)
      BY <1>4
    <3>. QED  BY <1>11, <2>1, <3>1
  <2>3. rank(i) = rank(c) => conf(i) <= conf(c)
    BY <1>5, <2>1
  <2>4. rank(i) = rank(c) /\ conf(i) = conf(c) => i <= c
    BY <1>6, <2>1
  <2>. QED  BY <1>10, <2>1, <2>2, <2>3, <2>4
<1>8. DOMAIN rs = 1..n
  OBVIOUS
<1>9. (CHOOSE j \in DOMAIN rs : \A i \in DOMAIN rs : Before(rs, i, j)) \in 1..n
  BY <1>7, <1>8
<1>. QED  BY <1>1, <1>9 DEF Best

-----------------------------------------------------------------------------
(* The events: every step keeps EventsInv.                                 *)

\* The results of judgements: what a failed, a missing and a judged one are.
LEMMA ResultFacts ==
  /\ NoResult \in Results
  /\ \A k \in Kinds : Failed(k) \in Results /\ Judged(k) \subseteq Results
  /\ \A r \in Results :
       /\ r.rel \in {"none", "failed", "relevant", "unrelated", "duplicate"}
       /\ r.act \in Sides \cup {"no_trade"} /\ r.conf \in Percent
       /\ r.kind \in Kinds \cup {"none"} /\ (r.kind = "none" => r.rel = "none")
<1>1. \A k \in Kinds : Failed(k) \in Results /\ Judged(k) \subseteq Results
  BY DEF Results
<1>2. NoResult \in Results
  BY DEF Results
<1>. DEFINE Good(r) ==
       /\ r.rel \in {"none", "failed", "relevant", "unrelated", "duplicate"}
       /\ r.act \in Sides \cup {"no_trade"} /\ r.conf \in Percent
       /\ r.kind \in Kinds \cup {"none"} /\ (r.kind = "none" => r.rel = "none")
<1>3. Good(NoResult)
  BY DEF NoResult, Percent
<1>4. ASSUME NEW k \in Kinds  PROVE Good(Failed(k)) /\ \A r \in Judged(k) : Good(r)
  <2>1. Good(Failed(k))
    BY DEF Failed, Percent, Kinds
  <2>2. \A r \in [rel : {"relevant"}, act : Sides \cup {"no_trade"}, conf : Confs, kind : {k}] : Good(r)
    BY EventsAssumption DEF Kinds
  <2>3. \A x \in {"unrelated", "duplicate"} :
          Good([rel |-> x, act |-> "no_trade", conf |-> 0, kind |-> k])
    BY DEF Percent, Kinds
  <2>4. \A r \in Judged(k) :
          \/ r \in [rel : {"relevant"}, act : Sides \cup {"no_trade"}, conf : Confs, kind : {k}]
          \/ \E x \in {"unrelated", "duplicate"} :
               r = [rel |-> x, act |-> "no_trade", conf |-> 0, kind |-> k]
    BY Zenon DEF Judged
  <2>. HIDE DEF Good
  <2>. QED  BY <2>1, <2>2, <2>3, <2>4
<1>. HIDE DEF Good
<1>5. \A r \in Results : Good(r)
  BY <1>3, <1>4 DEF Results
<1>. QED  BY <1>1, <1>2, <1>5 DEF Good

\* Nothing about the events changes.
LEMMA SameEvents == EventsInv /\ UNCHANGED passive => EventsInv'
BY DEF EventsInv, passive

\* A call that is started has a batch and no result yet.
LEMMA RunningType ==
  ASSUME NEW b \in Batches
  PROVE  Running(b) \in Futures /\ Running(b).st = "running" /\ Running(b).batch = b
BY ResultFacts DEF Running, Futures

\* No call is a future.
LEMMA IdleType == Idle \in Futures /\ Idle.st = "idle"
BY ResultFacts DEF Idle, Futures

\* Events are published.
LEMMA PublishKeeps == ASSUME EventsInv, NEW k \in Kinds, Publish(k)  PROVE EventsInv'
<1>1. inbox' \in [Kinds -> Nat] /\ inbox'["fresh"] + inbox'["stale"] <= MaxEvents
  BY EventsAssumption DEF EventsInv, Publish, Kinds
<1>. QED  BY <1>1 DEF EventsInv, Publish

\* A judge call ends.
LEMMA JudgeDoneKeeps == ASSUME EventsInv, JudgeDone  PROVE EventsInv'
<1>1. future \in Futures /\ future.batch \in Batches
  BY DEF EventsInv, JudgeDone
<1>2. future.batch.n \in Nat /\ future.batch.n > 0 /\ future.batch.kind \in Kinds
  BY <1>1, EventsAssumption DEF Batches
<1>3. PICK rs \in [1..future.batch.n ->
                     Judged(future.batch.kind) \cup {Failed(future.batch.kind)}] :
        future' = [future EXCEPT !.st = "done", !.res = Best(rs)]
  BY DEF JudgeDone
<1>4. Best(rs) \in Judged(future.batch.kind) \cup {Failed(future.batch.kind)}
  BY <1>2, BestIsJudged
<1>5. Best(rs) \in Results
  BY <1>2, <1>4, ResultFacts
<1>6. future' \in Futures /\ future'.st = "done"
  BY <1>1, <1>3, <1>5 DEF Futures
<1>. QED  BY <1>6 DEF EventsInv, JudgeDone

\* A finished judgement is consumed: nothing stale becomes ready.
LEMMA ConsumeKeeps == ASSUME EventsInv, Consume  PROVE EventsInv'
<1>1. NoResult \in Results /\ NoResult.kind # "stale"
  BY ResultFacts DEF NoResult
<1>2. \A b \in Batches : b.kind \in Kinds /\ b # NoBatch
  BY DEF Batches, NoBatch, Kinds
<1>3. CASE ConsumeWaiting
  <2>1. waiting \in Batches
    BY <1>3 DEF EventsInv, ConsumeWaiting
  <2>2. future' \in Futures /\ (future'.st = "running" => future'.batch \in Batches)
    BY <1>3, <2>1, RunningType, IdleType DEF ConsumeWaiting
  <2>. QED  BY <1>1, <1>3, <2>2 DEF EventsInv, ConsumeWaiting
<1>4. CASE ConsumeReady
  <2>1. future.res \in Results /\ future.res.kind # "stale"
    BY <1>4 DEF EventsInv, ConsumeReady, Futures, Blocked
  <2>. QED  BY <1>4, <2>1, IdleType DEF EventsInv, ConsumeReady
<1>5. CASE ConsumeBlocked
  <2>1. /\ future' \in Futures /\ (future'.st = "running" => future'.batch \in Batches)
        /\ fallback' \in Kinds \cup {"none"} /\ started' \in BOOLEAN
    <3>1. CASE fresh = NoBatch
      BY <1>5, <3>1, IdleType DEF ConsumeBlocked, EventsInv
    <3>2. CASE fresh # NoBatch
      <4>1. fresh \in Batches /\ fresh.kind \in Kinds
        BY <1>2, <3>2 DEF EventsInv
      <4>. QED  BY <1>5, <3>2, <4>1, IdleType, RunningType DEF ConsumeBlocked, EventsInv
    <3>. QED  BY <3>1, <3>2
  <2>. QED  BY <1>1, <1>5, <2>1 DEF EventsInv, ConsumeBlocked
<1>6. CASE ConsumeNothing
  BY <1>1, <1>6 DEF EventsInv, ConsumeNothing
<1>. QED  BY <1>3, <1>4, <1>5, <1>6 DEF Consume

\* New events are polled: what is judged next is a batch of them.
LEMMA PollKeeps == ASSUME EventsInv, Poll  PROVE EventsInv'
<1>1. CASE PollNothing
  BY <1>1, SameEvents DEF PollNothing
<1>2. CASE PollBatch
  <2>. DEFINE first == IF inbox["stale"] > 0 THEN Polled["stale"] ELSE Polled["fresh"]
  <2>1. inbox["fresh"] \in Nat /\ inbox["stale"] \in Nat /\ MaxEvents \in Nat
        /\ inbox["fresh"] + inbox["stale"] <= MaxEvents
    BY EventsAssumption DEF EventsInv, Kinds
  <2>2. /\ Polled["fresh"] = [kind |-> "fresh", n |-> inbox["fresh"]]
        /\ Polled["stale"] = [kind |-> "stale", n |-> inbox["stale"]]
    BY DEF Polled, Kinds
  <2>3. inbox["fresh"] > 0 => Polled["fresh"] \in Batches
    BY <2>1, <2>2 DEF Batches, Kinds
  <2>4. inbox["stale"] > 0 => Polled["stale"] \in Batches
    BY <2>1, <2>2 DEF Batches, Kinds
  <2>5. first \in Batches /\ first.kind \in Kinds
    BY <1>2, <2>1, <2>2, <2>3, <2>4 DEF PollBatch, Kinds
  <2>6. fresh' \in Batches \cup {NoBatch}
    BY <1>2, <2>3 DEF PollBatch, EventsInv
  <2>7. /\ inbox' \in [Kinds -> Nat] /\ inbox'["fresh"] + inbox'["stale"] = 0
        /\ ready' = NoResult
    BY <1>2 DEF PollBatch, Kinds
  <2>8. \/ Starts(first) /\ fallback' = "none"
        \/ StartFails(first) /\ UNCHANGED started
    BY <1>2 DEF PollBatch
  <2>. HIDE DEF first
  <2>9. /\ future' \in Futures /\ (future'.st = "running" => future'.batch \in Batches)
        /\ waiting' \in Batches \cup {NoBatch}
        /\ fallback' \in Kinds \cup {"none"} /\ started' \in BOOLEAN
    BY <2>5, <2>8, RunningType DEF Starts, StartFails, EventsInv
  <2>. QED  BY <2>1, <2>6, <2>7, <2>9, ResultFacts DEF EventsInv, NoResult
<1>. QED  BY <1>1, <1>2 DEF Poll

\* A judged event is handed to a query.
LEMMA TriggerReadyEvents == ASSUME EventsInv, TriggerReady  PROVE EventsInv'
BY ResultFacts DEF EventsInv, TriggerReady, NoResult

\* An event no call could be started for is handed to a query.
LEMMA TriggerFallbackEvents == ASSUME EventsInv, TriggerFallback  PROVE EventsInv'
BY DEF EventsInv, TriggerFallback

-----------------------------------------------------------------------------
(* The agent: every step keeps AgentInv.                                   *)

\* No session is a session that waits for nothing.
LEMMA NoSession ==
  /\ NoPlan \in Materials /\ NoPm \in Managements
  /\ NoPm.acts = 0 /\ NoPm.on = FALSE
<1>1. NoPlan \in Materials
  <2>1. NoChange(0) \in Decisions
    <3>1. 0 \in Int
      OBVIOUS
    <3>. QED  BY <3>1, NoChangeType, Zenon
  <2>. QED  BY <2>1 DEF NoPlan, Materials
<1>2. NoPm = [on |-> FALSE, plan |-> NoPlan, passive |-> FALSE, done |-> FALSE, acts |-> 0]
  BY DEF NoPm
<1>3. NoPm \in Managements
  BY <1>1, <1>2 DEF Managements
<1>. QED  BY <1>1, <1>2, <1>3

\* A session armed with a materialized plan waits for it.
LEMMA ArmedSession ==
  ASSUME NEW m \in Materials, NEW passiveReason \in BOOLEAN
  PROVE  LET t == Session(m, passiveReason) IN
         t \in Managements /\ t.acts = 0 /\ t.plan = m
BY DEF Session, Managements

\* A step that leaves the agent alone and executes nothing.
LEMMA QuietKeeps ==
  ASSUME AgentInv, UNCHANGED agent, pc # "act",
         pc' \in {"top", "poll", "dispatch", "monitor", "manage", "idle"}
  PROVE  AgentInv'
<1>1. UNCHANGED <<reason, trigger, snap, plan, act, pos, known, pm, risk, basis, excused, gap>>
  BY DEF agent, asking, work, counts
<1>2. LoopTypes' /\ TriggerInv'
  BY <1>1 DEF AgentInv, LoopTypes, TriggerInv
<1>3. ScenarioInv' /\ GuardInv' /\ WithinPlan'
  BY <1>1 DEF AgentInv, ScenarioInv, GuardInv, WithinPlan
<1>4. ActInv'
  BY <1>1 DEF AgentInv, ActInv
<1>. QED  BY <1>2, <1>3, <1>4 DEF AgentInv

\* A step of the events leaves the agent where it is.
LEMMA StillKeeps == ASSUME AgentInv, UNCHANGED <<pc, agent>>  PROVE AgentInv'
<1>1. UNCHANGED <<pc, reason, trigger, snap, plan, act, pos, known, pm, risk, basis, excused, gap>>
  BY DEF agent, asking, work, counts
<1>2. LoopTypes' /\ TriggerInv'
  BY <1>1 DEF AgentInv, LoopTypes, TriggerInv
<1>3. ScenarioInv' /\ GuardInv' /\ WithinPlan'
  BY <1>1 DEF AgentInv, ScenarioInv, GuardInv, WithinPlan
<1>4. ActInv'
  BY <1>1 DEF AgentInv, ActInv, Drift, Scenario
<1>. QED  BY <1>2, <1>3, <1>4 DEF AgentInv

\* A query is asked for, and what it is about is not stale.
LEMMA AskKeeps ==
  ASSUME AgentInv, NEW why \in {"active", "passive", "helper"}, NEW what \in Results,
         what.rel \notin {"none", "failed"} => what.kind = "fresh",
         Ask(why, what), pc # "act",
         UNCHANGED <<work, pos, known, pm, risk, basis, excused, counts>>
  PROVE  AgentInv'
<1>1. UNCHANGED <<snap, plan, act, pos, known, pm, risk, basis, excused, gap>>
  BY DEF work, counts
<1>2. LoopTypes' /\ TriggerInv'
  BY <1>1 DEF AgentInv, LoopTypes, TriggerInv, Ask
<1>3. ScenarioInv' /\ GuardInv' /\ WithinPlan'
  BY <1>1 DEF AgentInv, ScenarioInv, GuardInv, WithinPlan
<1>4. ActInv'
  BY <1>1 DEF AgentInv, ActInv, Ask
<1>. QED  BY <1>2, <1>3, <1>4 DEF AgentInv

\* The judged event of this pass was in time.
LEMMA TriggerReadyKeeps == ASSUME EventsInv, AgentInv, TriggerReady  PROVE AgentInv'
<1>1. ready \in Results /\ (ready.rel \notin {"none", "failed"} => ready.kind = "fresh")
  BY ResultFacts DEF EventsInv, Kinds
<1>. QED  BY <1>1, AskKeeps DEF TriggerReady

\* An event without a judgement is judged by the query.
LEMMA TriggerFallbackKeeps == ASSUME EventsInv, AgentInv, TriggerFallback  PROVE AgentInv'
<1>1. Failed(fallback) \in Results /\ Failed(fallback).rel = "failed"
  BY ResultFacts DEF EventsInv, TriggerFallback, Failed
<1>2. pc # "act" /\ Ask("passive", Failed(fallback))
      /\ UNCHANGED <<work, pos, known, pm, risk, basis, excused, counts>>
  BY DEF TriggerFallback
<1>. QED  BY <1>1, <1>2, AskKeeps

\* The periodic query is about no event.
LEMMA PeriodicQueryKeeps == ASSUME AgentInv, PeriodicQuery  PROVE AgentInv'
<1>1. NoResult \in Results /\ NoResult.rel = "none"
  BY ResultFacts DEF NoResult
<1>. QED  BY <1>1, AskKeeps DEF PeriodicQuery

\* A helper reset leaves a flat account and no session.
LEMMA HelperResetKeeps == ASSUME AgentInv, HelperReset  PROVE AgentInv'
<1>1. UNCHANGED <<snap, plan, act, gap>>
  BY DEF HelperReset, work, counts
<1>2. NoResult \in Results /\ NoResult.rel = "none"
  BY ResultFacts DEF NoResult
<1>3. LoopTypes' /\ TriggerInv'
  BY <1>1, <1>2, NoSession, NoBasisType DEF AgentInv, LoopTypes, TriggerInv, HelperReset, Ask
<1>4. ScenarioInv' /\ GuardInv'
  BY NoSession DEF ScenarioInv, GuardInv, HelperReset
<1>5. WithinPlan'
  BY <1>1, LargestSize DEF AgentInv, LoopTypes, WithinPlan, HelperReset, Abs
<1>6. ActInv'
  BY <1>1 DEF AgentInv, ActInv, HelperReset, Ask
<1>. QED  BY <1>3, <1>4, <1>5, <1>6 DEF AgentInv

\* Only a session that no longer fits its position is dropped.
LEMMA RiskStepKeeps == ASSUME AgentInv, RiskStep  PROVE AgentInv'
<1>1. UNCHANGED <<snap, plan, act, pos, pm, gap>> /\ pc = "monitor" /\ pc' \in {"manage", "query"}
  BY DEF RiskStep, work, counts, Ask
<1>2. NoResult \in Results /\ NoResult.rel = "none"
  BY ResultFacts DEF NoResult
<1>3. /\ risk' = risk \/ (risk' = "none" /\ risk # Side(pos))
      /\ basis' \in {basis, NoBasis} /\ excused' = IF pos = 0 THEN "no" ELSE excused
  BY DEF RiskStep
<1>4. /\ reason' \in {reason, "active"}
      /\ trigger' = trigger \/ trigger' = NoResult
  BY DEF RiskStep, Ask, asking
<1>5. LoopTypes'
  BY <1>1, <1>3, <1>4, NoBasisType DEF AgentInv, LoopTypes
<1>6. TriggerInv'
  BY <1>2, <1>4 DEF AgentInv, TriggerInv
<1>7. ScenarioInv'
  BY <1>1, <1>3 DEF AgentInv, ScenarioInv
<1>8. GuardInv' /\ WithinPlan'
  BY <1>1, <1>3 DEF AgentInv, GuardInv, WithinPlan
<1>9. ActInv'
  BY <1>1 DEF AgentInv, ActInv
<1>. QED  BY <1>5, <1>6, <1>7, <1>8, <1>9 DEF AgentInv

\* A scenario that is over is forgotten.
LEMMA NoScenarioKeeps == ASSUME AgentInv, NoScenario  PROVE AgentInv'
<1>1. UNCHANGED <<reason, trigger, snap, plan, act, pos, risk, basis, excused, gap>>
      /\ pc = "manage" /\ pc' = "idle" /\ pm' = NoPm
  BY DEF NoScenario, asking, work, counts
<1>2. LoopTypes' /\ TriggerInv'
  BY <1>1, NoSession DEF AgentInv, LoopTypes, TriggerInv
<1>3. ScenarioInv' /\ GuardInv' /\ WithinPlan'
  BY <1>1, NoSession DEF AgentInv, ScenarioInv, GuardInv, WithinPlan
<1>4. ActInv'
  BY <1>1 DEF AgentInv, ActInv
<1>. QED  BY <1>2, <1>3, <1>4 DEF AgentInv

\* A scenario that waited too long is forgotten, and a plan asked for.
LEMMA ScenarioTimeoutKeeps == ASSUME AgentInv, ScenarioTimeout  PROVE AgentInv'
<1>1. UNCHANGED <<snap, plan, act, pos, risk, basis, excused, gap>>
      /\ pc = "manage" /\ pc' = "query" /\ pm' = NoPm /\ reason' = "active" /\ trigger' = NoResult
  BY DEF ScenarioTimeout, Ask, work, counts
<1>2. NoResult \in Results /\ NoResult.rel = "none"
  BY ResultFacts DEF NoResult
<1>3. LoopTypes' /\ TriggerInv'
  BY <1>1, <1>2, NoSession DEF AgentInv, LoopTypes, TriggerInv
<1>4. ScenarioInv' /\ GuardInv' /\ WithinPlan'
  BY <1>1, NoSession DEF AgentInv, ScenarioInv, GuardInv, WithinPlan
<1>5. ActInv'
  BY <1>1 DEF AgentInv, ActInv
<1>. QED  BY <1>3, <1>4, <1>5 DEF AgentInv

\* A scenario is marked completed before it is executed, for the first time.
LEMMA ScenarioActsKeeps == ASSUME AgentInv, ScenarioActs  PROVE AgentInv'
<1>1. UNCHANGED <<trigger, plan, pos, risk, basis, excused, gap>>
      /\ pc = "manage" /\ pc' = "act" /\ snap' = pos /\ act' = pm.plan
      /\ pm' = [pm EXCEPT !.done = TRUE, !.acts = @ + 1] /\ pm.on /\ ~pm.done
      /\ reason' \in {"active", "passive"}
  BY DEF ScenarioActs, counts
<1>2. pm \in Managements /\ pm.acts = 0
  BY <1>1 DEF AgentInv, LoopTypes, ScenarioInv
<1>3. /\ pm' \in Managements /\ pm'.on = pm.on /\ pm'.done = TRUE /\ pm'.plan = pm.plan
      /\ pm.plan \in Materials
  <2>1. pm.plan \in Materials /\ pm.on \in BOOLEAN /\ pm.passive \in BOOLEAN
    BY <1>2 DEF Managements
  <2>2. pm = [on |-> pm.on, plan |-> pm.plan, passive |-> pm.passive, done |-> pm.done,
              acts |-> pm.acts]
    BY <1>2 DEF Managements
  <2>3. pm' = [on |-> pm.on, plan |-> pm.plan, passive |-> pm.passive, done |-> TRUE, acts |-> 1]
    <3>1. pm' = [pm EXCEPT !.done = TRUE, !.acts = 1]
      <4>1. pm.acts + 1 = 1
        BY <1>2
      <4>. QED  BY <1>1, <4>1
    <3>. QED  BY <2>2, <3>1
  <2>. QED  BY <2>1, <2>3 DEF Managements
<1>4. LoopTypes' /\ TriggerInv'
  BY <1>1, <1>3 DEF AgentInv, LoopTypes, TriggerInv
<1>5. ScenarioInv' /\ GuardInv' /\ WithinPlan'
  BY <1>1, <1>3 DEF AgentInv, ScenarioInv, GuardInv, WithinPlan
<1>6. pos \in Int /\ gap \in Nat
  BY DEF AgentInv, LoopTypes
<1>7. Drift'
  BY <1>1, <1>6 DEF Drift, Abs
<1>8. Capped(act'.dec)
  BY <1>1 DEF AgentInv, ScenarioInv
<1>9. plan' = NoEntry
  BY <1>1 DEF AgentInv, ActInv
<1>10. ActInv'
  BY <1>1, <1>3, <1>7, <1>8, <1>9 DEF ActInv, Scenario
<1>. QED  BY <1>4, <1>5, <1>10 DEF AgentInv

\* The pass is over: what is left to show is what it did to the position.
LEMMA PassEnds ==
  ASSUME Again, pos' \in Int, gap' \in Nat, risk' \in Sides \cup {"none"}, basis' \in Bases,
         excused' \in {"no", "fault", "stop"}, pm' \in Managements,
         ScenarioInv', GuardInv', WithinPlan'
  PROVE  AgentInv'
<1>1. NoResult \in Results /\ NoResult.rel = "none"
  BY ResultFacts DEF NoResult
<1>2. LoopTypes'
  BY NoSession DEF LoopTypes, Again
<1>3. TriggerInv'
  BY <1>1 DEF TriggerInv, Again
<1>4. ActInv'
  BY DEF ActInv, Again
<1>. QED  BY <1>2, <1>3, <1>4 DEF AgentInv

\* A query that comes to nothing.
LEMMA EmptyQueryKeeps ==
  ASSUME AgentInv, Again, UNCHANGED <<pos, pm, risk, basis, excused, counts>>  PROVE AgentInv'
<1>1. UNCHANGED gap
  BY DEF counts
<1>2. ScenarioInv' /\ GuardInv' /\ WithinPlan'
  BY <1>1 DEF AgentInv, ScenarioInv, GuardInv, WithinPlan
<1>3. /\ pos' \in Int /\ gap' \in Nat /\ risk' \in Sides \cup {"none"} /\ basis' \in Bases
      /\ excused' \in {"no", "fault", "stop"} /\ pm' \in Managements
  BY <1>1 DEF AgentInv, LoopTypes
<1>. QED  BY <1>2, <1>3, PassEnds

\* What the model may answer is an entry plan.
LEMMA AnswerType ==
  ASSUME AgentInv, NEW p \in IF reason = "passive" THEN PassivePlans ELSE ActivePlans
  PROVE  p \in EntryPlans /\ p # NoEntry
<1>1. p \in EntryPlans
  <2>1. CASE reason # "passive"
    <3>1. None \in Percent \cup {None}
      OBVIOUS
    <3>2. p \in ActivePlans
      BY <2>1
    <3>. QED  BY <3>1, <3>2 DEF ActivePlans, EntryPlans
  <2>2. CASE reason = "passive"
    <3>1. trigger \in Results
      BY DEF AgentInv, TriggerInv
    <3>2. Verdicts \subseteq Results
      BY <3>1, ResultFacts DEF Verdicts
    <3>3. PICK v \in Verdicts, n \in Sizes, c \in BOOLEAN :
            p = [act |-> v.act, now |-> v.act # "no_trade", scenario |-> FALSE, size |-> n,
                 conf |-> v.conf, closed |-> c]
      BY <2>2 DEF PassivePlans
    <3>4. v.act \in Sides \cup {"no_trade"} /\ v.conf \in Percent \cup {None}
      BY <3>2, ResultFacts
    <3>5. /\ p \in [act : Sides \cup {"no_trade"}, now : BOOLEAN, scenario : BOOLEAN, size : Sizes,
                   conf : Percent \cup {None}, closed : BOOLEAN]
          /\ ~p.scenario
      <4>. DEFINE now == v.act # "no_trade"
      <4>1. p = [act |-> v.act, now |-> now, scenario |-> FALSE, size |-> n,
                 conf |-> v.conf, closed |-> c]
        BY <3>3
      <4>2. now \in BOOLEAN
        OBVIOUS
      <4>. HIDE DEF now
      <4>. QED  BY <3>4, <4>1, <4>2
    <3>. QED  BY <3>5 DEF EntryPlans
  <2>. QED  BY <2>1, <2>2
<1>2. p.act # "none"
  BY <1>1 DEF EntryPlans, Sides
<1>. QED  BY <1>1, <1>2 DEF NoEntry

\* A plan is armed, or the scenario that is already waiting stays.
LEMMA ArmKeeps ==
  ASSUME AgentInv, NEW m \in Materials, m.scenario => Capped(m.dec) /\ Waitable(m, pos = 0),
         Arm(m), Again, UNCHANGED <<pos, basis, excused, gap>>
  PROVE  AgentInv'
<1>1. /\ pos \in Int /\ gap \in Nat /\ risk \in Sides \cup {"none"} /\ basis \in Bases
      /\ excused \in {"no", "fault", "stop"} /\ pm \in Managements
  BY DEF AgentInv, LoopTypes
<1>2. risk' = IF pos = 0 THEN "none" ELSE risk
  BY DEF Arm
<1>3. GuardInv' /\ WithinPlan' /\ risk' \in Sides \cup {"none"}
  BY <1>1, <1>2 DEF AgentInv, GuardInv, WithinPlan
<1>4. pm' \in Managements /\ ScenarioInv'
  <2>1. CASE UNCHANGED pm
    BY <1>1, <2>1 DEF AgentInv, ScenarioInv
  <2>2. CASE pm' = NoPm
    BY <2>2, NoSession DEF ScenarioInv
  <2>3. CASE m.scenario /\ pm' = Session(m, reason = "passive")
    <3>1. pm' \in Managements /\ pm'.acts = 0 /\ pm'.plan = m
      BY <2>3, ArmedSession
    <3>2. Waitable(m, pos' = 0 \/ excused' = "fault")
      BY <2>3 DEF Waitable
    <3>. QED  BY <2>3, <3>1, <3>2 DEF ScenarioInv
  <2>. QED  BY <2>1, <2>2, <2>3 DEF Arm
<1>. QED  BY <1>1, <1>3, <1>4, PassEnds

\* The selected symbol cannot be traded.
LEMMA QueryNotTradableKeeps == ASSUME AgentInv, QueryNotTradable  PROVE AgentInv'
<1>1. NoPlan \in Materials /\ ~NoPlan.scenario
  BY NoSession DEF NoPlan
<1>2. Arm(NoPlan) /\ Again /\ UNCHANGED <<pos, basis, excused, gap>>
  BY DEF QueryNotTradable, counts
<1>. QED  BY <1>1, <1>2, ArmKeeps

\* The answer is executed at once, for the position as read, or armed.
LEMMA QueryPlanKeeps == ASSUME AgentInv, QueryPlan  PROVE AgentInv'
<1>1. PICK p \in IF reason = "passive" THEN PassivePlans ELSE ActivePlans :
        IF Materialize(p, pos, basis).now
        THEN /\ plan' = p /\ snap' = pos /\ act' = Materialize(p, pos, basis) /\ trigger' = NoResult
             /\ pc' = "act" /\ UNCHANGED <<reason, pm, risk>>
        ELSE Arm(Materialize(p, pos, basis)) /\ Again
  BY DEF QueryPlan
<1>2. UNCHANGED <<pos, basis, excused, gap>> /\ pc = "query"
  BY DEF QueryPlan
<1>3. /\ pos \in Int /\ gap \in Nat /\ risk \in Sides \cup {"none"} /\ basis \in Bases
      /\ excused \in {"no", "fault", "stop"} /\ pm \in Managements
      /\ reason \in {"active", "passive", "helper"}
  BY DEF AgentInv, LoopTypes
<1>4. p \in EntryPlans /\ p # NoEntry
  BY AnswerType
<1>. DEFINE m == Materialize(p, pos, basis)
<1>5. /\ m \in Materials /\ Capped(m.dec) /\ Suits(m.dec, pos)
      /\ m.now /\ m.dec.action = "no_change" => m.dec.refresh
      /\ m.scenario => Waitable(m, pos = 0)
  BY <1>3, <1>4, MaterializeSuits
<1>6. IF m.now
      THEN /\ plan' = p /\ snap' = pos /\ act' = m /\ trigger' = NoResult
           /\ pc' = "act" /\ UNCHANGED <<reason, pm, risk>>
      ELSE Arm(m) /\ Again
  BY <1>1
<1>. HIDE DEF m
<1>7. CASE m.now
  <2>1. NoResult \in Results /\ NoResult.rel = "none"
    BY ResultFacts DEF NoResult
  <2>2. LoopTypes'
    BY <1>2, <1>3, <1>5, <1>6, <1>7 DEF LoopTypes
  <2>3. TriggerInv'
    BY <1>6, <1>7, <2>1 DEF TriggerInv
  <2>4. ScenarioInv' /\ GuardInv' /\ WithinPlan'
    BY <1>2, <1>6, <1>7 DEF AgentInv, ScenarioInv, GuardInv, WithinPlan
  <2>5. Drift'
    BY <1>2, <1>3, <1>6, <1>7 DEF Drift, Abs
  <2>6. ActInv'
    BY <1>4, <1>5, <1>6, <1>7, <2>5 DEF ActInv, Scenario
  <2>. QED  BY <2>2, <2>3, <2>4, <2>6 DEF AgentInv
<1>8. CASE ~m.now
  BY <1>2, <1>5, <1>6, <1>8, ArmKeeps
<1>. QED  BY <1>7, <1>8

\* The side of an open position is a side.
LEMMA SideType == ASSUME NEW q \in Int, q # 0  PROVE Side(q) \in Sides
BY DEF Side, Sides

\* Whatever the session is after an execution, it is a session of a side.
LEMMA RiskAfterType ==
  ASSUME NEW mat, NEW q \in Int, NEW passed \in BOOLEAN, risk \in Sides \cup {"none"}
  PROVE  RiskAfter(mat, q, passed) \in Sides \cup {"none"}
BY SideType DEF RiskAfter, Built

\* What the order of this pass leaves of the position.
LEMMA OrderFacts ==
  ASSUME AgentInv, pc = "act", NEW q \in Filled(pos, Order(act.dec, snap))
  PROVE  /\ q \in Int /\ Abs(q) <= MaxSize + gap
         /\ act.dec.action = "no_change" => q = pos
         /\ act.dec.action \notin Exposure /\ q # 0 => Side(q) = Side(pos)
<1>1. act.dec \in Decisions /\ snap \in Int /\ pos \in Int /\ gap \in Nat
  BY DEF AgentInv, LoopTypes, Materials
<1>2. /\ Abs(pos) <= Abs(snap) /\ Abs(snap) <= Abs(pos) + gap /\ (pos # 0 => Side(pos) = Side(snap))
      /\ Abs(pos) <= MaxSize + gap /\ Capped(act.dec)
  BY DEF AgentInv, ActInv, Drift, WithinPlan
<1>. QED  BY <1>1, <1>2, FillWithin

\* The guards refuse the order: the scenario is over, the position kept.
LEMMA GuardBlocksKeeps == ASSUME AgentInv, GuardBlocks  PROVE AgentInv'
<1>1. Again /\ UNCHANGED <<pos, basis, excused, gap>> /\ pm' = NoPm
      /\ (risk' = risk \/ (pos = 0 /\ risk' = "none"))
  BY DEF GuardBlocks, counts
<1>2. ScenarioInv' /\ GuardInv' /\ WithinPlan'
  BY <1>1, NoSession DEF AgentInv, ScenarioInv, GuardInv, WithinPlan
<1>3. /\ pos' \in Int /\ gap' \in Nat /\ risk' \in Sides \cup {"none"} /\ basis' \in Bases
      /\ excused' \in {"no", "fault", "stop"} /\ pm' \in Managements
  BY <1>1, NoSession DEF AgentInv, LoopTypes
<1>. QED  BY <1>1, <1>2, <1>3, PassEnds

\* The read after the order fails: the order is filled, nothing else follows.
LEMMA ReadFailsKeeps == ASSUME AgentInv, ReadFails  PROVE AgentInv'
<1>1. Again /\ UNCHANGED <<pm, risk, basis, gap>> /\ excused' = "fault" /\ pc = "act"
  BY DEF ReadFails
<1>2. pos' \in Filled(pos, Order(act.dec, snap))
  BY DEF ReadFails
<1>3. pos' \in Int /\ WithinPlan'
  BY <1>1, <1>2, OrderFacts DEF WithinPlan
<1>4. ScenarioInv'
  BY <1>1 DEF AgentInv, ScenarioInv, Waitable
<1>5. /\ gap' \in Nat /\ risk' \in Sides \cup {"none"} /\ basis' \in Bases /\ pm' \in Managements
  BY <1>1 DEF AgentInv, LoopTypes
<1>. QED  BY <1>1, <1>3, <1>4, <1>5, PassEnds DEF GuardInv

\* The resting exits take the position towards zero, never across it.
LEMMA ExitFillKeeps == ASSUME AgentInv, ExitFill  PROVE AgentInv'
<1>1. UNCHANGED <<pc, reason, trigger, snap, plan, act, pm, risk, basis, excused>>
      /\ risk = Side(pos) /\ risk # "none"
  BY DEF ExitFill, asking, work
<1>2. pos \in Int /\ snap \in Int /\ gap \in Nat /\ risk \in Sides \cup {"none"} /\ MaxSize \in Nat
  BY LargestSize DEF AgentInv, LoopTypes
<1>3. pos # 0
  BY <1>1, <1>2 DEF Side, Sides
<1>4. Abs(pos) \in Nat
  BY <1>2 DEF Abs
<1>5. PICK n \in 1..Abs(pos) :
        pos' = pos + Signed(Side(-pos), n) /\ gap' = IF pc = "act" THEN gap + n ELSE gap
  BY DEF ExitFill
<1>6. n \in Nat /\ n > 0 /\ n <= Abs(pos)
  BY <1>4, <1>5
<1>7. /\ pos' \in Int /\ Abs(pos') = Abs(pos) - n /\ (pos' # 0 => Side(pos') = Side(pos))
  BY <1>2, <1>3, <1>5, <1>6 DEF Abs, Side, Signed
<1>8. LoopTypes' /\ TriggerInv'
  BY <1>1, <1>2, <1>5, <1>6, <1>7 DEF AgentInv, LoopTypes, TriggerInv
<1>9. ScenarioInv'
  BY <1>1, <1>3 DEF AgentInv, ScenarioInv, Waitable
<1>10. GuardInv'
  BY <1>1, <1>7 DEF GuardInv
<1>11. WithinPlan'
  BY <1>2, <1>4, <1>5, <1>6, <1>7 DEF AgentInv, WithinPlan
<1>12. ActInv'
  <2>1. CASE pc # "act"
    BY <1>1, <2>1 DEF AgentInv, ActInv
  <2>2. CASE pc = "act"
    <3>1. Drift
      BY <2>2 DEF AgentInv, ActInv
    <3>2. Abs(snap) \in Nat
      BY <1>2 DEF Abs
    <3>3. Drift'
      BY <1>1, <1>2, <1>3, <1>4, <1>5, <1>6, <1>7, <2>2, <3>1, <3>2 DEF Drift
    <3>. QED  BY <1>1, <2>2, <3>3 DEF AgentInv, ActInv, Scenario
  <2>. QED  BY <2>1, <2>2
<1>. QED  BY <1>8, <1>9, <1>10, <1>11, <1>12 DEF AgentInv

\* A failed read stays an excuse as long as there is a position.
LEMMA ExcuseFacts ==
  ASSUME NEW q \in Int, NEW r, NEW passed \in BOOLEAN, excused \in {"no", "fault", "stop"}
  PROVE  /\ Excuse(q, r, passed) \in {"no", "fault", "stop"}
         /\ q # 0 /\ excused = "fault" => Excuse(q, r, passed) = "fault"
         /\ q # 0 /\ r # Side(q) /\ Excuse(q, r, passed) = "no" => ~passed /\ excused = "no"
BY DEF Excuse

\* After a scenario an open position has a session of its side, for the
\* scenario neither closes nor answers an opposite event.
LEMMA ScenarioGuards ==
  ASSUME AgentInv, pc = "act", Scenario, excused = "no",
         NEW q \in Filled(pos, Order(act.dec, snap)), q # 0
  PROVE  /\ RiskAfter(act, q, FALSE) = Side(q)
         /\ q = pos => risk = Side(q)
<1>1. q \in Int /\ (act.dec.action = "no_change" => q = pos)
      /\ (act.dec.action \notin Exposure => Side(q) = Side(pos))
  BY OrderFacts
<1>2. Waitable(act, pos = 0)
  BY DEF AgentInv, ActInv, ScenarioInv, Waitable
<1>3. pos \in Int /\ (pos # 0 => risk = Side(pos))
  BY DEF AgentInv, LoopTypes, GuardInv
<1>4. CASE act.dec.action \in Exposure
  BY <1>3, <1>4 DEF RiskAfter
<1>5. CASE act.dec.action \notin Exposure
  <2>1. pos # 0 /\ risk = Side(q)
    BY <1>1, <1>3, <1>5 DEF Side
  <2>2. act.pass \/ (HasStop(act) /\ ~act.dec.opposite /\ HasContent(act))
    BY <1>1, <1>2, <2>1 DEF Waitable, HasStop, HasContent
  <2>. QED  BY <1>5, <2>1, <2>2 DEF RiskAfter, Built
<1>. QED  BY <1>4, <1>5

\* The same of a plan that is executed at once: a trim keeps the session it
\* finds, a refused order the session of the position it did not change, and
\* an order that turned a position the exits had closed finds the session of
\* the side it was sent for.
LEMMA ImmediateGuards ==
  ASSUME AgentInv, pc = "act", ~Scenario, excused = "no", NEW lev \in BOOLEAN,
         NEW q \in Filled(pos, Order(act.dec, snap)), q # 0
  PROVE  LET r == IF Reused(act, q) THEN risk ELSE RiskAfter(act, q, FALSE) IN
         /\ act.dec.action = "no_change" => r = Side(q) /\ risk = Side(q)
         /\ act.dec.action # "no_change" /\ Effective(act.dec, snap, q, lev) => r = Side(q)
         /\ act.dec.action # "no_change" /\ ~Effective(act.dec, snap, q, lev) => risk = Side(q)
<1>1. q \in Int /\ (act.dec.action = "no_change" => q = pos)
      /\ (act.dec.action \notin Exposure => Side(q) = Side(pos))
  BY OrderFacts
<1>2. pos \in Int /\ snap \in Int /\ (pos # 0 => risk = Side(pos)) /\ act.dec \in Decisions
  BY DEF AgentInv, LoopTypes, GuardInv, Materials
<1>3. /\ Suits(act.dec, snap) /\ (act.dec.action = "no_change" => act.dec.refresh)
      /\ Abs(pos) <= Abs(snap) /\ (pos # 0 => Side(pos) = Side(snap))
      /\ (pos # snap => risk = Side(snap))
  BY DEF AgentInv, ActInv, Drift
<1>4. act.dec.action \in {"no_change", "close", "trim"} \cup Exposure
  BY <1>2 DEF Decisions
<1>5. Side(q) = Side(pos) => pos # 0 /\ risk = Side(q)
  BY <1>1, <1>2 DEF Side
<1>6. CASE act.dec.action = "no_change"
  <2>1. risk = Side(q) /\ ~Reused(act, q)
    BY <1>1, <1>5, <1>6 DEF Reused
  <2>2. HasStop(act) /\ ~act.dec.opposite
    BY <1>3, <1>6 DEF HasStop, Suits
  <2>3. RiskAfter(act, q, FALSE) = Side(q)
    BY <1>6, <2>1, <2>2 DEF RiskAfter, Built, HasContent, Exposure
  <2>. QED  BY <1>6, <2>1, <2>3
<1>7. CASE act.dec.action # "no_change" /\ Effective(act.dec, snap, q, lev)
  <2>1. CASE act.dec.action = "close"
    BY <1>7, <2>1 DEF Effective, Sides
  <2>2. CASE act.dec.action = "trim"
    <3>1. Side(q) = Side(snap) /\ Abs(q) < Abs(snap)
      BY <1>7, <2>2 DEF Effective, Sides
    <3>2. risk = Side(q)
      BY <1>1, <1>5, <2>2 DEF Exposure
    <3>. QED  BY <1>7, <2>2, <3>1, <3>2 DEF Reused
  <2>3. CASE act.dec.action \in Exposure
    <3>1. RiskAfter(act, q, FALSE) = Side(q)
      BY <2>3 DEF RiskAfter
    <3>2. ~Reused(act, q)
      BY <2>3 DEF Reused, Exposure
    <3>. QED  BY <1>7, <3>1, <3>2
  <2>. QED  BY <1>4, <1>7, <2>1, <2>2, <2>3
<1>8. CASE act.dec.action # "no_change" /\ ~Effective(act.dec, snap, q, lev)
  <2>1. CASE Side(q) = Side(pos)
    BY <1>5, <1>8, <2>1
  <2>2. CASE Side(q) # Side(pos)
    <3>1. pos # snap /\ Side(q) = Side(snap)
      BY <1>2, <1>3, <1>8, <2>2, FillTurns
    <3>. QED  BY <1>3, <1>8, <3>1
  <2>. QED  BY <2>1, <2>2
<1>. QED  BY <1>6, <1>7, <1>8

\* A plan that goes on after a close waits as a plan for a flat account.
LEMMA ContinuedSession ==
  ASSUME AgentInv, pc = "act", ~Scenario
  PROVE  Continued \in Materials /\ (Continued.scenario => Capped(Continued.dec) /\ Waitable(Continued, TRUE))
<1>1. plan \in EntryPlans
  BY DEF AgentInv, ActInv
<1>2. 0 \in Int /\ NoBasis \in Bases
  BY NoBasisType
<1>. DEFINE m == Materialize(plan, 0, NoBasis)
<1>3. m \in Materials /\ Capped(m.dec) /\ (m.scenario => Waitable(m, 0 = 0))
  BY <1>1, <1>2, MaterializeSuits
<1>4. Continued = m
  BY DEF Continued
<1>. HIDE DEF m
<1>. QED  BY <1>3, <1>4

\* The execution of a scenario ends the scenario.
LEMMA SettleScenarioKeeps ==
  ASSUME AgentInv, pc = "act", Scenario, NEW passed \in BOOLEAN, NEW accepted \in BOOLEAN,
         NEW q \in Filled(pos, Order(act.dec, snap)), ~accepted => q = pos,
         SettleScenario(q, accepted, passed)
  PROVE  /\ risk' \in Sides \cup {"none"} /\ pm' = NoPm
         /\ q # 0 /\ excused = "no" /\ ~passed => risk' = Side(q)
<1>1. q \in Int /\ risk \in Sides \cup {"none"}
  BY OrderFacts DEF AgentInv, LoopTypes
<1>2. pm' = NoPm /\ risk' = IF accepted THEN RiskAfter(act, q, passed) ELSE risk
  BY DEF SettleScenario
<1>3. risk' \in Sides \cup {"none"}
  BY <1>1, <1>2, RiskAfterType
<1>4. ASSUME q # 0, excused = "no", ~passed  PROVE risk' = Side(q)
  <2>1. passed = FALSE
    BY <1>4
  <2>. QED  BY <1>2, <1>4, <2>1, ScenarioGuards
<1>. QED  BY <1>2, <1>3, <1>4

\* The execution of a plan at once: no session outlives it but the one of a
\* plan that changed nothing, and a plan that goes on after a close.
LEMMA SettleNowKeeps ==
  ASSUME AgentInv, pc = "act", ~Scenario, NEW passed \in BOOLEAN, NEW accepted, NEW lev \in BOOLEAN,
         NEW q \in Filled(pos, Order(act.dec, snap)), SettleNow(q, accepted, lev, passed)
  PROVE  /\ risk' \in Sides \cup {"none"}
         /\ \/ pm' = NoPm
            \/ pm' = pm /\ q = pos
            \/ q = 0 /\ Continued.scenario /\ pm' = Session(Continued, reason = "passive")
         /\ q # 0 /\ excused = "no" /\ ~passed => risk' = Side(q)
<1>. DEFINE eff == Effective(act.dec, snap, q, lev)
            r == IF Reused(act, q) THEN risk ELSE RiskAfter(act, q, passed)
<1>1. q \in Int /\ risk \in Sides \cup {"none"} /\ (act.dec.action = "no_change" => q = pos)
  BY OrderFacts DEF AgentInv, LoopTypes
<1>2. r \in Sides \cup {"none"}
  BY <1>1, RiskAfterType
<1>3. /\ act.dec.action = "no_change" => risk' = (IF eff THEN r ELSE risk) /\ UNCHANGED pm
      /\ act.dec.action # "no_change" /\ eff =>
           /\ risk' = r
           /\ pm' = IF act.dec.cont /\ q = 0 /\ Continued.scenario
                    THEN Session(Continued, reason = "passive") ELSE NoPm
      /\ act.dec.action # "no_change" /\ ~eff =>
           risk' = (IF q = 0 THEN "none" ELSE risk) /\ pm' = NoPm
  <2>1. CASE act.dec.action = "no_change"
    BY <2>1 DEF SettleNow
  <2>2. CASE act.dec.action # "no_change" /\ eff
    BY <2>2 DEF SettleNow
  <2>3. CASE act.dec.action # "no_change" /\ ~eff
    BY <2>3 DEF SettleNow
  <2>. QED  BY <2>1, <2>2, <2>3
<1>4. ASSUME q # 0, excused = "no", ~passed
      PROVE  /\ act.dec.action = "no_change" => r = Side(q) /\ risk = Side(q)
             /\ act.dec.action # "no_change" /\ eff => r = Side(q)
             /\ act.dec.action # "no_change" /\ ~eff => risk = Side(q)
  <2>1. passed = FALSE
    BY <1>4
  <2>. QED  BY <1>4, <2>1, ImmediateGuards
<1>. HIDE DEF eff, r
<1>. QED  BY <1>1, <1>2, <1>3, <1>4

\* An order is executed, whatever of it is filled.
LEMMA ExecuteKeeps == ASSUME AgentInv, Execute  PROVE AgentInv'
<1>1. Again /\ UNCHANGED gap /\ pc = "act"
  BY DEF Execute, counts
<1>2. PICK q \in Filled(pos, Order(act.dec, snap)), lev \in BOOLEAN, passed \in BOOLEAN :
        LET accepted == Order(act.dec, snap).kind = "none" \/ q # pos
        IN /\ Executed(q, accepted)
           /\ IF Scenario THEN SettleScenario(q, accepted, passed)
              ELSE SettleNow(q, accepted, lev, passed)
           /\ excused' = Excuse(q, risk', passed)
  BY DEF Execute
<1>. DEFINE accepted == Order(act.dec, snap).kind = "none" \/ q # pos
            conf == IF Scenario \/ reason = "active" THEN None ELSE plan.conf
<1>3. /\ Executed(q, accepted)
      /\ IF Scenario THEN SettleScenario(q, accepted, passed) ELSE SettleNow(q, accepted, lev, passed)
      /\ excused' = Excuse(q, risk', passed)
  BY <1>2
<1>4. accepted \in BOOLEAN /\ (~accepted => q = pos)
  OBVIOUS
<1>5. /\ pos \in Int /\ snap \in Int /\ gap \in Nat /\ risk \in Sides \cup {"none"}
      /\ basis \in Bases /\ excused \in {"no", "fault", "stop"} /\ pm \in Managements
      /\ act.dec \in Decisions
  BY DEF AgentInv, LoopTypes, Materials
<1>6. q \in Int /\ Abs(q) <= MaxSize + gap
  BY <1>1, OrderFacts
<1>7. pos' = q /\ basis' \in Bases
  <2>1. conf \in Percent \cup {None}
    <3>1. CASE Scenario \/ reason = "active"
      BY <3>1
    <3>2. CASE ~Scenario /\ reason # "active"
      BY <1>1, <3>2 DEF AgentInv, ActInv, EntryPlans
    <3>. QED  BY <3>1, <3>2
  <2>2. pos' = q /\ basis' = IF accepted THEN BasisAfter(basis, act.dec, conf, snap, q) ELSE basis
    BY <1>3 DEF Executed
  <2>. HIDE DEF conf, accepted
  <2>. QED  BY <1>5, <1>6, <2>1, <2>2, BasisAfterType
<1>. HIDE DEF accepted
<1>8. /\ risk' \in Sides \cup {"none"}
      /\ \/ pm' = NoPm
         \/ pm' = pm /\ q = pos
         \/ q = 0 /\ ~Scenario /\ Continued.scenario /\ pm' = Session(Continued, reason = "passive")
      /\ q # 0 /\ excused = "no" /\ ~passed => risk' = Side(q)
  BY <1>1, <1>2, <1>3, <1>4, SettleScenarioKeeps, SettleNowKeeps
<1>9. /\ excused' \in {"no", "fault", "stop"}
      /\ q # 0 /\ excused = "fault" => excused' = "fault"
      /\ q # 0 /\ risk' # Side(q) => excused' # "no"
  BY <1>2, <1>3, <1>5, <1>6, <1>8, ExcuseFacts
<1>10. pm' \in Managements /\ ScenarioInv'
  <2>1. CASE pm' = NoPm
    BY <2>1, NoSession DEF ScenarioInv
  <2>2. CASE pm' = pm /\ q = pos
    BY <1>5, <1>7, <1>9, <2>2 DEF AgentInv, ScenarioInv, Waitable
  <2>3. CASE q = 0 /\ ~Scenario /\ Continued.scenario /\ pm' = Session(Continued, reason = "passive")
    <3>1. Continued \in Materials /\ Capped(Continued.dec) /\ Waitable(Continued, TRUE)
      BY <1>1, <2>3, ContinuedSession
    <3>2. pm' \in Managements /\ pm'.acts = 0 /\ pm'.plan = Continued
      BY <2>3, <3>1, ArmedSession
    <3>. QED  BY <1>7, <2>3, <3>1, <3>2 DEF ScenarioInv, Waitable
  <2>. QED  BY <1>8, <2>1, <2>2, <2>3
<1>11. GuardInv' /\ WithinPlan'
  BY <1>1, <1>6, <1>7, <1>9 DEF GuardInv, WithinPlan
<1>. QED  BY <1>1, <1>5, <1>6, <1>7, <1>8, <1>9, <1>10, <1>11, PassEnds

-----------------------------------------------------------------------------
(* The invariant, and what follows from it.                                *)

\* The initial states.
LEMMA LoopInvInit == LoopInit => LoopInv
<1>. SUFFICES ASSUME LoopInit  PROVE LoopInv
  OBVIOUS
<1>1. NoResult \in Results /\ NoResult.rel = "none" /\ NoResult.kind = "none"
  BY ResultFacts DEF NoResult
<1>2. EventsInv
  <2>1. inbox \in [Kinds -> Nat] /\ inbox["fresh"] = 0 /\ inbox["stale"] = 0
    BY DEF LoopInit, PassiveInit, Kinds
  <2>2. 0 <= MaxEvents
    BY EventsAssumption
  <2>3. future \in Futures /\ future.st = "idle"
    BY IdleType DEF LoopInit, PassiveInit
  <2>4. ready \in Results /\ ready.kind # "stale"
    BY <1>1 DEF LoopInit, PassiveInit
  <2>5. {waiting, fresh} \subseteq Batches \cup {NoBatch} /\ fallback \in Kinds \cup {"none"}
    BY DEF LoopInit, PassiveInit
  <2>6. started \in BOOLEAN
    BY Zenon DEF LoopInit, PassiveInit
  <2>7. inbox["fresh"] + inbox["stale"] <= MaxEvents
    BY <2>1, <2>2
  <2>. QED  BY <2>1, <2>3, <2>4, <2>5, <2>6, <2>7 DEF EventsInv
<1>3. LoopTypes /\ TriggerInv /\ ScenarioInv
  BY <1>1, NoSession, NoBasisType DEF LoopInit, LoopTypes, TriggerInv, ScenarioInv
<1>4. ActInv /\ GuardInv
  BY DEF LoopInit, ActInv, GuardInv
<1>5. WithinPlan
  BY LargestSize DEF LoopInit, WithinPlan, Abs
<1>. QED  BY <1>2, <1>3, <1>4, <1>5 DEF LoopInv, AgentInv

\* Every step keeps the invariant.
LEMMA LoopInvStep == LoopInv /\ [LoopNext]_vars => LoopInv'
<1>. SUFFICES ASSUME EventsInv, AgentInv, [LoopNext]_vars  PROVE EventsInv' /\ AgentInv'
  BY DEF LoopInv
<1>1. CASE UNCHANGED vars
  BY <1>1, SameEvents, StillKeeps DEF vars
<1>2. CASE Top
  <2>1. pc = "top" /\ Consume /\ pc' = "poll" /\ UNCHANGED agent
    BY <1>2 DEF Top
  <2>. QED  BY <2>1, ConsumeKeeps, QuietKeeps
<1>3. CASE PollEvents
  <2>1. pc = "poll" /\ Poll /\ pc' = "dispatch" /\ UNCHANGED agent
    BY <1>3 DEF PollEvents
  <2>. QED  BY <2>1, PollKeeps, QuietKeeps
<1>4. CASE TriggerReady
  BY <1>4, TriggerReadyEvents, TriggerReadyKeeps
<1>5. CASE TriggerFallback
  BY <1>5, TriggerFallbackEvents, TriggerFallbackKeeps
<1>6. CASE SleepInFlight \/ LookAfter \/ ScenarioWaits \/ Sleep
  <2>1. /\ pc \in {"dispatch", "manage", "idle"} /\ pc' \in {"top", "monitor", "idle"}
        /\ UNCHANGED <<passive, agent>>
    BY <1>6 DEF SleepInFlight, LookAfter, ScenarioWaits, Sleep
  <2>. QED  BY <2>1, SameEvents, QuietKeeps
<1>7. CASE HelperReset
  BY <1>7, SameEvents, HelperResetKeeps DEF HelperReset
<1>8. CASE RiskStep
  BY <1>8, SameEvents, RiskStepKeeps DEF RiskStep
<1>9. CASE NoScenario
  BY <1>9, SameEvents, NoScenarioKeeps DEF NoScenario
<1>10. CASE ScenarioTimeout
  BY <1>10, SameEvents, ScenarioTimeoutKeeps DEF ScenarioTimeout
<1>11. CASE ScenarioActs
  BY <1>11, SameEvents, ScenarioActsKeeps DEF ScenarioActs
<1>12. CASE PeriodicQuery
  BY <1>12, SameEvents, PeriodicQueryKeeps DEF PeriodicQuery
<1>13. CASE QueryFails \/ QueryIrrelevant \/ QueryHelper
  BY <1>13, SameEvents, EmptyQueryKeeps DEF QueryFails, QueryIrrelevant, QueryHelper
<1>14. CASE QueryNotTradable
  BY <1>14, SameEvents, QueryNotTradableKeeps DEF QueryNotTradable
<1>15. CASE QueryPlan
  BY <1>15, SameEvents, QueryPlanKeeps DEF QueryPlan
<1>16. CASE GuardBlocks
  BY <1>16, SameEvents, GuardBlocksKeeps DEF GuardBlocks
<1>17. CASE Execute
  BY <1>17, SameEvents, ExecuteKeeps DEF Execute
<1>18. CASE ReadFails
  BY <1>18, SameEvents, ReadFailsKeeps DEF ReadFails
<1>19. CASE ExitFill
  BY <1>19, SameEvents, ExitFillKeeps DEF ExitFill
<1>20. CASE News
  BY <1>20, PublishKeeps, StillKeeps DEF News
<1>21. CASE JudgeDone /\ UNCHANGED <<pc, agent>>
  BY <1>21, JudgeDoneKeeps, StillKeeps
<1>. QED  BY <1>1, <1>2, <1>3, <1>4, <1>5, <1>6, <1>7, <1>8, <1>9, <1>10, <1>11, <1>12, <1>13,
             <1>14, <1>15, <1>16, <1>17, <1>18, <1>19, <1>20, <1>21
          DEF LoopNext, Pass, Environment

\* The inductive invariant holds in every reachable state.
LEMMA LoopInvariant == LoopSpec => []LoopInv
BY LoopInvInit, LoopInvStep, PTL DEF LoopSpec

(* An armed scenario is executed at most once, also when the execution     *)
(* ended in an error after the order was sent, and no judgement of an      *)
(* event that arrived too late starts a query.                             *)
THEOREM ActsOnceTheorem == LoopSpec => []ActsOnce
<1>1. LoopInv => ActsOnce
  <2>1. ASSUME LoopInv  PROVE ScenarioOnce
    <3>1. pm.acts \in {0, 1}
      BY <2>1 DEF LoopInv, AgentInv, LoopTypes, Managements
    <3>. QED  BY <3>1 DEF ScenarioOnce
  <2>2. ASSUME LoopInv  PROVE StaleNeverTrades
    BY <2>2 DEF LoopInv, AgentInv, TriggerInv, StaleNeverTrades
  <2>. QED  BY <2>1, <2>2 DEF ActsOnce
<1>. QED  BY <1>1, LoopInvariant, PTL

(* Between two passes an open position has a risk session of its own side, *)
(* unless a fill passed its stop or the position could not be read after   *)
(* the order; and it is never larger than the largest plan and the exits   *)
(* filled between the read of the position and the order.                  *)
THEOREM PlanKeptTheorem == LoopSpec => []PlanKept
<1>1. LoopInv => PlanKept
  <2>. SUFFICES ASSUME LoopInv  PROVE PlanKept
    OBVIOUS
  <2>1. inbox \in [Kinds -> 0..MaxEvents]
    <3>1. inbox["fresh"] \in Nat /\ inbox["stale"] \in Nat /\ MaxEvents \in Nat
          /\ inbox["fresh"] + inbox["stale"] <= MaxEvents
      BY EventsAssumption DEF LoopInv, EventsInv, Kinds
    <3>2. \A k \in Kinds : inbox[k] \in 0..MaxEvents
      BY <3>1 DEF Kinds
    <3>. QED  BY <3>2 DEF LoopInv, EventsInv
  <2>2. future.st \in {"idle", "running", "done"} /\ future.batch \in Batches \cup {NoBatch}
        /\ future.res \in Results
    BY DEF LoopInv, EventsInv, Futures
  <2>3. PassiveTypeOK
    BY <2>1, <2>2 DEF LoopInv, EventsInv, PassiveTypeOK, Results
  <2>4. basis.side \in Sides \cup {""} /\ basis.raw \in Percent \cup {None}
    BY DEF LoopInv, AgentInv, LoopTypes, Bases
  <2>5. pm.on => pm.plan.scenario
    BY DEF LoopInv, AgentInv, ScenarioInv, Waitable
  <2>6. LoopTypeOK
    BY <2>3, <2>4, <2>5 DEF LoopInv, AgentInv, LoopTypes, LoopTypeOK
  <2>7. Guarded /\ WithinPlan
    BY DEF LoopInv, AgentInv, GuardInv, Guarded
  <2>. QED  BY <2>6, <2>7 DEF PlanKept
<1>. QED  BY <1>1, LoopInvariant, PTL
=============================================================================
