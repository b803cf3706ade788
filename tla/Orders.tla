------------------------------- MODULE Orders -------------------------------
(***************************************************************************)
(* The orders HyperliquidExecutor (market_agent/exchange.py) makes of a    *)
(* target position, for the trading agent and for the web trade backend.   *)
(* A position is a signed number of lots: long positive, flat 0.  Notional *)
(* and size are the same number: the price is 1.                           *)
(***************************************************************************)
EXTENDS Integers

Sides == {"long", "short"}
Abs(x) == IF x < 0 THEN -x ELSE x
Side(p) == IF p > 0 THEN "long" ELSE IF p < 0 THEN "short" ELSE "flat"
Signed(side, n) == IF side = "long" THEN n ELSE -n

(* The change an order makes to a position now at p when the executor saw  *)
(* it at s: a market order opens or turns, a reduce-only one never crosses *)
(* zero.                                                                   *)
OpenDelta(side, n) == [kind |-> "open", qty |-> Signed(side, n)]
ReduceDelta(s, n) == [kind |-> "reduce", qty |-> Signed(Side(-s), n)]
NoOrder == [kind |-> "none", qty |-> 0]

Target(side, size, s) ==
  LET cur  == Abs(s)
      flat == side = "flat" \/ size <= 0
      kept == ~flat /\ Side(s) = side
  IN CASE flat /\ s = 0        -> NoOrder
       [] flat /\ s # 0        -> ReduceDelta(s, cur)
       [] ~flat /\ ~kept       -> OpenDelta(side, cur + size)    \* from flat, or turning
       [] kept /\ size > cur   -> OpenDelta(side, size - cur)
       [] kept /\ size < cur   -> ReduceDelta(s, cur - size)
       [] kept /\ size = cur   -> NoOrder

(* The positions an order can leave.  market_open is tried with four       *)
(* quantities, each one per cent smaller than the last, and may be filled  *)
(* in part; a rejected order leaves the position as it was.                *)
Filled(p, o) ==
  CASE o.kind = "none"   -> {p}
    [] o.kind = "open"   -> {p} \cup {p + Signed(Side(o.qty), k) : k \in 1..Abs(o.qty)}
    [] o.kind = "reduce" -> IF p = 0 \/ Side(o.qty) = Side(p) THEN {p}
                            ELSE {p, p + Signed(Side(o.qty),
                                              IF Abs(o.qty) < Abs(p) THEN Abs(o.qty) ELSE Abs(p))}
=============================================================================
