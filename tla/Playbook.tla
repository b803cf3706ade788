------------------------------ MODULE Playbook ------------------------------
(***************************************************************************)
(* What the trading agent makes of a plan of the language model, and what  *)
(* the order executor makes of the agent's decision: pure operators over   *)
(* a signed position in lots (long positive, short negative, flat 0).      *)
(*                                                                         *)
(*   Convert     the entry decision against the live position              *)
(*               (agent_materialization.py)                                *)
(*   Materialize the plan the agent stores and perhaps executes at once    *)
(*   Order       the decision as an order (exchange.py)                    *)
(*   Effective   whether the position shows what was decided               *)
(*                                                                         *)
(* Confidences and validities are percentages, a missing confidence is     *)
(* None.  Notional and size are the same number of lots: the price is 1.   *)
(***************************************************************************)
EXTENDS Orders

CONSTANTS
  RelevanceAt, FullScale,   \* calibration of a trigger confidence
  TrimAt, ReverseEdge, MinReverse, UnknownReverse, FullConfidence, FlattenAt,
  Decay                     \* the opposite-event configuration

ASSUME PercentagesAssumption ==
  /\ {RelevanceAt, FullScale, TrimAt, ReverseEdge, MinReverse, UnknownReverse,
      FullConfidence, FlattenAt, Decay} \subseteq 0..100
  /\ RelevanceAt < FullScale /\ TrimAt < FullConfidence

None == -1
Percent == 0..100

Clamp(x, lo, hi) == IF x < lo THEN lo ELSE IF x > hi THEN hi ELSE x

-----------------------------------------------------------------------------
(* How sure the agent was of the position it holds: position_basis_*.      *)
NoBasis == [side |-> "", raw |-> None, validity |-> 0]
SetBasis(side, raw, validity) ==
  IF side \notin Sides \/ raw = None THEN NoBasis
  ELSE [side |-> side, raw |-> Clamp(raw, 0, 100), validity |-> Clamp(validity, 0, 100)]

\* A basis is only looked at for a position of its own side.
BasisFor(b, side) == IF b.side = side THEN b ELSE NoBasis
BasisEff(b, side) == IF BasisFor(b, side).raw = None THEN None
                     ELSE (b.raw * b.validity) \div 100

(* The share of the full trade a confidence stands for.                    *)
Normalized(c) == IF c = None THEN None
                 ELSE Clamp(((c - RelevanceAt) * 100) \div (FullScale - RelevanceAt), 0, 100)

(* What a signal against the position does to it.                          *)
OppositeEvent(b, side, c) ==
  LET eff     == BasisEff(b, side)
      reverse == IF eff = None THEN UnknownReverse
                 ELSE IF eff + ReverseEdge > MinReverse THEN eff + ReverseEdge ELSE MinReverse
      strength == Clamp(((c - TrimAt) * 100) \div (FullConfidence - TrimAt), 0, 100)
      close    == Clamp((1500 + 85 * strength - 10 * (IF eff = None THEN 50 ELSE eff)) \div 100,
                        0, 95)
  IN IF c = None               THEN [kind |-> "legacy", close |-> 0]
     ELSE IF c < TrimAt        THEN [kind |-> "no_change", close |-> 0]
     ELSE IF c >= reverse      THEN [kind |-> "reverse", close |-> 100]
     ELSE IF close >= FlattenAt THEN [kind |-> "flatten", close |-> 100]
     ELSE                           [kind |-> "trim", close |-> close]

-----------------------------------------------------------------------------
(* A decision: what to do, the position it aims at (in lots), the share to *)
(* close, whether an unchanged position gets its exits rebuilt, whether a  *)
(* close continues with the plan, and whether it answers an opposite event.*)
Decision(action, size, close) ==
  [action |-> action, size |-> size, close |-> close,
   refresh |-> FALSE, cont |-> action = "close", opposite |-> FALSE]
NoChange(p) == Decision("no_change", Abs(p), 0)
Exposure == {"long", "short", "add_to_long", "add_to_short",
             "reverse_to_long", "reverse_to_short"}
AddTo(side) == IF side = "long" THEN "add_to_long" ELSE "add_to_short"
ReverseTo(side) == IF side = "long" THEN "reverse_to_long" ELSE "reverse_to_short"

(* A plan: the action, whether it is to be executed now, whether it waits  *)
(* for a scenario, the size the local sizing gives it, the confidence, and *)
(* whether trading is disabled on this weekday.                            *)
FromFlat(plan, share) ==
  LET aim == (share * plan.size) \div 100
  IN IF aim > 0 THEN Decision(plan.act, aim, 0) ELSE NoChange(0)

SameSide(plan, p, share) ==
  LET cur == Abs(p)
      aim == cur + (share * (plan.size - cur)) \div 100
  IN CASE aim > cur -> Decision(AddTo(plan.act), aim, 0)
       [] aim <= 0  -> Decision("close", 0, 100)
       [] 0 < aim /\ (cur - aim) * 100 >= cur -> Decision("trim", aim, ((cur - aim) * 100) \div cur)
       [] OTHER     -> [NoChange(p) EXCEPT !.refresh = TRUE]

Against(plan, p, share, b) ==
  LET aim == (share * plan.size) \div 100
      ev  == OppositeEvent(b, Side(p), plan.conf)
      left == (Abs(p) * (100 - ev.close)) \div 100
      turn == IF aim > 0 /\ plan.now THEN Decision(ReverseTo(plan.act), aim, 0)
              ELSE Decision("close", 0, 100)
      dec == CASE ev.kind = "no_change" \/ (ev.close < 1 /\ ev.kind = "trim") -> NoChange(p)
               [] ev.kind \in {"reverse", "legacy"} -> turn
               [] ev.kind = "flatten"   -> Decision("close", 0, 100)
               [] OTHER                 -> Decision("trim", left, ev.close)
  IN [dec EXCEPT !.opposite = TRUE]

Convert(plan, p, b) ==
  LET n     == Normalized(plan.conf)
      share == IF n = None THEN 100 ELSE n
      dec   == IF plan.act = "no_trade"                THEN NoChange(p)
               ELSE IF p # 0 /\ Side(p) # plan.act     THEN Against(plan, p, share, b)
               ELSE IF n = 0                           THEN NoChange(p)
               ELSE IF p = 0                           THEN FromFlat(plan, share)
               ELSE                                         SameSide(plan, p, share)
  IN IF dec.action \in Exposure /\ plan.closed THEN NoChange(p) ELSE dec

(* The stored plan.  A close that the plan continues after is executed at  *)
(* once even where the plan was to wait; an unchanged position keeps its   *)
(* risk session (pass) unless its exits are to be rebuilt.                 *)
NoPlan == [now |-> FALSE, dec |-> NoChange(0), scenario |-> FALSE, pass |-> FALSE]
Materialize(plan, p, b) ==
  LET dec    == Convert(plan, p, b)
      forced == p # 0 /\ plan.scenario /\ dec.action = "close" /\ dec.cont
      now    == plan.now /\ (dec.action # "no_change" \/ (dec.refresh /\ plan.act = Side(p)))
  IN [now      |-> now \/ forced,
      dec      |-> IF plan.now /\ dec.action = "close" THEN [dec EXCEPT !.cont = FALSE] ELSE dec,
      scenario |-> plan.scenario /\ ~now /\ ~forced,
      pass     |-> p # 0 /\ dec.action = "no_change" /\ ~dec.refresh]

\* The materialized plan carries a stop price unless nothing is to change.
HasStop(pm) == pm.dec.action # "no_change" \/ pm.dec.refresh
HasContent(pm) == pm.scenario \/ HasStop(pm) \/ (pm.now /\ pm.dec.action # "no_change")

-----------------------------------------------------------------------------
(* execute_management: the decision as a target.  A close or a trim of a   *)
(* flat account is no order: its target is flat.                           *)
Order(dec, s) ==
  CASE dec.action = "no_change" -> NoOrder
    [] dec.action \in Sides     -> Target(dec.action, dec.size, s)
    [] dec.action = "close"     -> Target("flat", 0, s)
    [] dec.action = "trim"      -> Target(Side(s), (Abs(s) * (100 - dec.close)) \div 100, s)
    [] dec.action = "add_to_long"  -> IF s > 0 THEN Target("long", dec.size, s) ELSE NoOrder
    [] dec.action = "add_to_short" -> IF s < 0 THEN Target("short", dec.size, s) ELSE NoOrder
    [] dec.action = "reverse_to_long"  -> Target("long", dec.size, s)
    [] dec.action = "reverse_to_short" -> Target("short", dec.size, s)

(* Whether the position shows the decision; for an unchanged one, whether  *)
(* the exchange took the leverage asked for.                               *)
Effective(dec, s, q, levered) ==
  CASE dec.action = "no_change" -> IF q = 0 THEN ~dec.refresh ELSE dec.refresh /\ levered
    [] dec.action = "close"     -> q = 0
    [] dec.action = "trim"      -> Side(q) = Side(s) /\ q # 0 /\ Abs(q) < Abs(s)
    [] dec.action \in Sides     -> s = 0 /\ Side(q) = dec.action
    [] dec.action = "add_to_long"  -> s > 0 /\ q > s
    [] dec.action = "add_to_short" -> s < 0 /\ q < s
    [] dec.action = "reverse_to_long"  -> q > 0
    [] dec.action = "reverse_to_short" -> q < 0

(* The basis after an accepted execution that left the position at q.      *)
BasisAfter(b, dec, conf, s, q) ==
  LET old   == BasisFor(b, Side(q))
      added == IF Abs(q) > Abs(s) THEN Abs(q) - Abs(s) ELSE 0
  IN CASE q = 0 -> NoBasis
       [] q # 0 /\ dec.action \in {"long", "short", "reverse_to_long", "reverse_to_short"} ->
            IF conf = None THEN b ELSE SetBasis(Side(q), conf, 100)
       [] q # 0 /\ dec.action \in {"add_to_long", "add_to_short"} /\ conf # None ->
            IF old.raw # None /\ s # 0 /\ added > 0
            THEN SetBasis(Side(q), (old.raw * Abs(s) + conf * added) \div (Abs(s) + added),
                          old.validity)
            ELSE SetBasis(Side(q), conf, 100)
       [] q # 0 /\ dec.action = "trim" /\ dec.opposite ->
            LET own == BasisFor(b, Side(s))
            IN IF own.raw = None THEN b
               ELSE SetBasis(Side(q), own.raw,
                             (own.validity * (10000 - Decay * dec.close)) \div 10000)
       [] OTHER -> b
=============================================================================
