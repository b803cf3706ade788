------------------------------ MODULE WebTrade ------------------------------
(***************************************************************************)
(* The backend of the private trading page: WebTradeService and            *)
(* SyntheticPositionLedger (web_trade/backend/web_trade/service.py,        *)
(* ledger.py, margin.py), on one isolated market.                          *)
(*                                                                         *)
(* The exchange knows positions only; the ledger file remembers, for the   *)
(* life of a position, what hidden rebalances have realized (carried) and  *)
(* the capital invested (basis).  A leverage change closes the position    *)
(* and opens it again: each exchange call of it is a step that may fail.   *)
(* Requests that trade come one at a time; limit orders and triggers rest  *)
(* and fill meanwhile, the page polls the account, and a poll writes the   *)
(* ledger too.                                                             *)
(***************************************************************************)
EXTENDS Orders, FiniteSets

CONSTANTS
  Levers,       \* leverages the user asks for
  MaxLots,      \* bound: the position the margin allows
  MaxAsks,      \* bound: requests that trade
  MaxBreaks,    \* bound: calls that raise or fill in part
  MaxResting,   \* bound: orders resting at once
  MaxPolls      \* bound: account polls that start a state

ASSUME LeversAssumption == MaxLots \in Nat /\ Levers \subseteq 1..MaxLots

VARIABLES
  wpos,         \* the position at the exchange, its leverage and its margin
  wpnl,         \* its unrealized profit
  ledger,       \* the ledger file: the state of the market, or NoState
  restingOrders,\* limit orders and triggers at the exchange
  ask,          \* the request being served
  accountPoll,  \* the poll being served
  booked,       \* ghost: realized by hidden closes since the ledger's state began
  harmed,       \* ghost: a hidden close of this state raised or met other fills
  raced,        \* ghost: a poll wrote over what it had not read, or between
                \* a close and its record
  asks, breaks, polls

ghosts == <<booked, harmed, raced>>
web == <<wpos, wpnl, ledger, restingOrders, ask, accountPoll, ghosts, asks, breaks, polls>>

NoState == [side |-> "none", basis |-> 0, carried |-> 0]
NoAsk == [at |-> "idle", side |-> "flat", aim |-> 0, lever |-> 0, pnl |-> 0, left |-> 0,
          ok |-> TRUE, answer |-> "none"]
NoAccountPoll == [at |-> "idle", seen |-> NoState, side |-> "flat", margin |-> 0]
Flat == [lots |-> 0, lever |-> 0, margin |-> 0]

WebTypeOK ==
  /\ wpos.lots \in -MaxLots..MaxLots /\ wpos.lever \in Levers \cup {0, 1} /\ wpos.margin \in Nat
  /\ wpnl \in -1..1 /\ wpos.lots = 0 => wpnl = 0
  /\ ledger.side \in Sides \cup {"none"} /\ ledger.basis \in Nat /\ ledger.carried \in Int
  /\ ask.at \in {"idle", "close", "lever", "open", "record", "margin", "delta", "order"}
  /\ accountPoll.at \in {"idle", "save"}
  /\ \A o \in restingOrders : o.kind \in {"open", "reduce"} /\ o.qty # 0

WebInit ==
  /\ wpos = Flat /\ wpnl = 0 /\ ledger = NoState /\ ask = NoAsk /\ accountPoll = NoAccountPoll
  /\ restingOrders = {} /\ booked = 0 /\ harmed = FALSE /\ raced = FALSE
  /\ asks = 0 /\ breaks = 0 /\ polls = 0

-----------------------------------------------------------------------------
(* The ledger.  state_for_snapshot starts a new state for an open position *)
(* of another side than the one it remembers; a flat one changes nothing.  *)
Fresh(side, margin) == [side |-> side, basis |-> margin, carried |-> 0]
StateFor(f, side, margin) ==
  IF side \in Sides /\ f.side # side THEN Fresh(side, margin) ELSE f
WithMargin(f, amount) ==
  [f EXCEPT !.basis = IF @ + amount < 0 THEN 0 ELSE @ + amount]
WithRealized(f, pnl) == [f EXCEPT !.carried = @ + pnl]

(* The file is saved; a state of another side starts the count again.      *)
Save(f) ==
  /\ ledger' = f
  /\ IF f.side = ledger.side THEN UNCHANGED ghosts
     ELSE booked' = 0 /\ harmed' = FALSE /\ raced' = FALSE

(* An order changed the position.                                          *)
Trade(q, lever) ==
  /\ Abs(q) <= MaxLots
  /\ wpos' = IF q = 0 THEN Flat
             ELSE [lots |-> q, lever |-> lever, margin |-> Abs(q) \div lever]
PnlAfter(q) == IF q = 0 \/ Side(q) # Side(wpos.lots) THEN 0 ELSE wpnl

MayBreak == breaks < MaxBreaks /\ breaks' = breaks + 1
Answered(how) == [NoAsk EXCEPT !.answer = how]
NoRequest == ask.at = "idle"
BeginAsk(rec) == NoRequest /\ asks < MaxAsks /\ asks' = asks + 1 /\ ask' = rec

(* The price moves.                                                        *)
PriceMoves ==
  /\ wpos.lots # 0 /\ wpnl' \in -1..1 \ {wpnl}
  /\ UNCHANGED <<wpos, ledger, restingOrders, ask, accountPoll, ghosts, asks, breaks, polls>>

(* A resting order fills; a reduce-only one with nothing to reduce lapses. *)
Hidden == ask.at \in {"close", "lever", "open", "record"}
RestingFills(o) ==
  LET q == IF o.kind = "open" THEN wpos.lots + o.qty
           ELSE IF wpos.lots = 0 \/ Side(o.qty) = Side(wpos.lots) THEN wpos.lots
           ELSE IF Abs(o.qty) < Abs(wpos.lots) THEN wpos.lots + o.qty ELSE 0
  IN /\ Trade(q, IF wpos.lever = 0 THEN 1 ELSE wpos.lever) /\ wpnl' = PnlAfter(q)
     /\ restingOrders' = restingOrders \ {o}
     /\ ask' = [ask EXCEPT !.ok = @ /\ ~Hidden] /\ harmed' = (harmed \/ Hidden)
     /\ UNCHANGED <<ledger, accountPoll, booked, raced, asks, breaks, polls>>

-----------------------------------------------------------------------------
(* place_order: opens or adds, reduces, or turns the position, at the      *)
(* market or with an order that rests.                                     *)
PlaceOrder(side, size, lever) ==
  /\ BeginAsk([NoAsk EXCEPT !.at = "order", !.side = side, !.aim = size, !.lever = lever,
                         !.left = wpos.lots])
  /\ UNCHANGED <<wpos, wpnl, ledger, restingOrders, accountPoll, ghosts, breaks, polls>>

\* What the request makes of the position it read.
OrderDelta(reduce, reverse) ==
  CASE reduce  -> ReduceDelta(ask.left, IF ask.aim < Abs(ask.left) THEN ask.aim ELSE Abs(ask.left))
    [] reverse -> Target(ask.side, ask.aim, ask.left)
    [] OTHER   -> OpenDelta(ask.side, ask.aim)
Opposite == ask.left # 0 /\ Side(ask.left) # ask.side
SendOrder ==
  /\ ask.at = "order"
  /\ \E reduce, reverse \in BOOLEAN :
       /\ ~(reduce /\ reverse) /\ (reduce \/ reverse => Opposite)
       /\ \E q \in Filled(wpos.lots, OrderDelta(reduce, reverse)) :
            /\ Trade(q, IF reduce THEN wpos.lever ELSE ask.lever)
            /\ wpnl' = PnlAfter(q)
            /\ IF reverse /\ q # wpos.lots THEN Save(StateFor(ledger, Side(q), wpos'.margin))
               ELSE UNCHANGED <<ledger, ghosts>>
            /\ ask' = Answered(IF q = wpos.lots THEN "refused" ELSE "ordered")
  /\ UNCHANGED <<restingOrders, accountPoll, asks, breaks, polls>>

(* A limit order sets the leverage of its market before it is accepted.    *)
Rests(o) ==
  /\ Cardinality(restingOrders \cup {o}) <= MaxResting /\ restingOrders' = restingOrders \cup {o}
EntryLimit ==
  /\ ask.at = "order"
  /\ wpos' = IF wpos.lots = 0 THEN wpos ELSE [wpos EXCEPT !.lever = ask.lever]
  /\ \/ Rests(OpenDelta(ask.side, ask.aim)) /\ ask' = Answered("resting")
     \/ ask' = Answered("refused") /\ UNCHANGED restingOrders
  /\ UNCHANGED <<wpnl, ledger, accountPoll, ghosts, asks, breaks, polls>>
ReduceLimit ==
  /\ ask.at = "order" /\ Opposite /\ Rests(OrderDelta(TRUE, FALSE)) /\ ask' = Answered("resting")
  /\ UNCHANGED <<wpos, wpnl, ledger, accountPoll, ghosts, asks, breaks, polls>>

(* set_position_tpsl: a take profit and a stop for the size just read; the *)
(* second is sent whether or not the first was accepted.                   *)
Trigger(p) == ReduceDelta(p, Abs(p))
SetTpsl ==
  /\ wpos.lots # 0 /\ Rests(Trigger(wpos.lots))
  /\ BeginAsk(Answered("tpsl"))
  /\ UNCHANGED <<wpos, wpnl, ledger, accountPoll, ghosts, breaks, polls>>

(* rebalance_leverage.  The target keeps the margin and changes the size;  *)
(* one below the exchange's minimum is refused before anything is closed.  *)
RebalanceTarget(p, lever) == (Abs(p.lots) * lever) \div p.lever
Rebalance(lever) ==
  LET side == Side(wpos.lots)
      aim  == RebalanceTarget(wpos, lever)
  IN /\ wpos.lots # 0
     /\ BeginAsk(IF aim = 0 THEN Answered("refused")
              ELSE [NoAsk EXCEPT !.at = "close", !.side = side, !.aim = aim, !.lever = lever,
                                 !.pnl = wpnl, !.left = wpos.lots])
     /\ Save(StateFor(ledger, side, wpos.margin))
     /\ UNCHANGED <<wpos, wpnl, restingOrders, accountPoll, breaks, polls>>

(* The close is reduce-only, of the size the request read.                 *)
Closes == IF Abs(ask.left) < Abs(wpos.lots) THEN Abs(ask.left) ELSE Abs(wpos.lots)
CloseLeg ==
  /\ ask.at = "close"
  /\ \/ /\ Side(wpos.lots) = ask.side
        /\ \E n \in 1..Closes :
             /\ IF n = Closes THEN UNCHANGED <<harmed, breaks>>
                ELSE MayBreak /\ harmed' = TRUE        \* the close fills in part
             /\ LET q == wpos.lots - Signed(ask.side, n)
                IN Trade(q, wpos.lever) /\ wpnl' = PnlAfter(q)
             /\ ask' = [ask EXCEPT !.at = "lever", !.ok = @ /\ n = Closes]
        /\ booked' = booked + ask.pnl
     \/ /\ ask' = Answered("refused")
        /\ UNCHANGED <<wpos, wpnl, booked, harmed, breaks>>
  /\ UNCHANGED <<ledger, restingOrders, accountPoll, raced, asks, polls>>

(* An exception leaves the request where it is: closed and not booked.     *)
Raise ==
  /\ ask.at \in {"lever", "open", "margin"} /\ MayBreak
  /\ harmed' = (harmed \/ ask.at # "margin") /\ ask' = Answered("error")
  /\ UNCHANGED <<wpos, wpnl, ledger, restingOrders, accountPoll, booked, raced, asks, polls>>

SetLeverage ==
  /\ ask.at = "lever" /\ ask' = [ask EXCEPT !.at = "open"]
  /\ UNCHANGED <<wpos, wpnl, ledger, restingOrders, accountPoll, ghosts, asks, breaks, polls>>

(* The position is opened again from the flat one the close must have      *)
(* left, whatever the exchange's reader still shows.                       *)
ReopenOrder == Target(ask.side, ask.aim, 0)
OpenLeg ==
  /\ ask.at = "open"
  /\ \E n \in 0..Abs(ReopenOrder.qty) :
       LET whole == n \in {0, Abs(ReopenOrder.qty)}
       IN \E answer \in IF n = 0 THEN {"reopen_failed", "complete"} ELSE {"complete"} :
            /\ Trade(wpos.lots + Signed(ask.side, n), ask.lever)
            /\ IF whole /\ (n = 0 => answer = "reopen_failed") THEN UNCHANGED breaks
               ELSE MayBreak      \* filled in part, or no price to size it by
            /\ ask' = [ask EXCEPT !.at = "record", !.answer = answer,
                                  !.ok = @ /\ n = Abs(ReopenOrder.qty)]
            /\ wpnl' = PnlAfter(wpos'.lots)
  /\ UNCHANGED <<ledger, restingOrders, accountPoll, ghosts, asks, polls>>

(* What the close realized is booked whether or not the position could be  *)
(* opened again.                                                           *)
\* Mutant: a rebalance that did not reopen is not booked.
Record_OnlyComplete ==
  /\ ask.at = "record"
  /\ ledger' = IF ask.answer = "complete" THEN WithRealized(ledger, ask.pnl) ELSE ledger
  /\ ask' = Answered(ask.answer)
  /\ UNCHANGED <<wpos, wpnl, restingOrders, accountPoll, ghosts, asks, breaks, polls>>
Record ==
  /\ ask.at = "record"
  /\ ledger' = WithRealized(ledger, ask.pnl)
  /\ ask' = Answered(ask.answer)
  /\ UNCHANGED <<wpos, wpnl, restingOrders, accountPoll, ghosts, asks, breaks, polls>>

-----------------------------------------------------------------------------
(* update_isolated_margin: up to what is free, down to what the position   *)
(* needs.                                                                  *)
MaxAdd == MaxLots - wpos.margin
MaxRemove == wpos.margin + wpnl - (IF Abs(wpos.lots) > 10 THEN Abs(wpos.lots) \div 10 ELSE 1)
UpdateMargin(amount) ==
  /\ wpos.lots # 0 /\ amount \in -1..1 /\ amount # 0
  /\ amount <= MaxAdd /\ -amount <= MaxRemove
  /\ BeginAsk([NoAsk EXCEPT !.at = "margin", !.aim = amount])
  /\ Save(StateFor(ledger, Side(wpos.lots), wpos.margin))
  /\ UNCHANGED <<wpos, wpnl, restingOrders, accountPoll, breaks, polls>>

MoveMargin ==
  /\ ask.at = "margin"
  /\ \/ /\ wpos.lots # 0 /\ wpos.margin + ask.aim >= 0
        /\ wpos' = [wpos EXCEPT !.margin = @ + ask.aim] /\ ask' = [ask EXCEPT !.at = "delta"]
     \/ ask' = Answered("refused") /\ UNCHANGED wpos
  /\ UNCHANGED <<wpnl, ledger, restingOrders, accountPoll, ghosts, asks, breaks, polls>>

ApplyDelta ==
  /\ ask.at = "delta"
  /\ ledger' = WithMargin(ledger, ask.aim) /\ ask' = Answered("margin")
  /\ UNCHANGED <<wpos, wpnl, restingOrders, accountPoll, ghosts, asks, breaks, polls>>

-----------------------------------------------------------------------------
(* The account poll overlays the ledger on each position: it loads the     *)
(* file, and saves it if it starts a new state.                            *)
PollLoads ==
  /\ accountPoll.at = "idle" /\ polls < MaxPolls /\ polls' = polls + 1
  /\ wpos.lots # 0 /\ ledger.side # Side(wpos.lots)
  /\ accountPoll' = [at |-> "save", seen |-> ledger, side |-> Side(wpos.lots), margin |-> wpos.margin]
  /\ UNCHANGED <<wpos, wpnl, ledger, restingOrders, ask, ghosts, asks, breaks>>
PollSaves ==
  LET f == StateFor(accountPoll.seen, accountPoll.side, accountPoll.margin)
  IN /\ accountPoll.at = "save"
     /\ ledger' = f /\ accountPoll' = NoAccountPoll
     /\ booked' = IF f.side = ledger.side THEN booked ELSE 0
     /\ raced' = (ledger # accountPoll.seen \/ ask.at \in {"lever", "open", "record"})
     /\ UNCHANGED <<wpos, wpnl, restingOrders, ask, harmed, asks, breaks, polls>>

WebNext ==
  \/ PriceMoves
  \/ \E side \in Sides, n \in {1, 2}, l \in Levers : PlaceOrder(side, n, l)
  \/ SendOrder \/ EntryLimit \/ ReduceLimit \/ SetTpsl
  \/ \E o \in restingOrders : RestingFills(o)
  \/ \E l \in Levers : Rebalance(l)
  \/ CloseLeg \/ Raise \/ SetLeverage \/ OpenLeg \/ Record
  \/ \E a \in {-1, 1} : UpdateMargin(a)
  \/ MoveMargin \/ ApplyDelta
  \/ PollLoads \/ PollSaves

WebSpec == WebInit /\ [][WebNext]_web

-----------------------------------------------------------------------------
(* The profit the page shows for a position counts every hidden close      *)
(* since its state began exactly once: also those after which it could not *)
(* be opened again, and across reversals, unless a call raised, another    *)
(* fill met the close, or a poll raced a request.                          *)
CarriedExact ==
  ask.at = "idle" /\ ~harmed /\ ~raced => ledger.carried = booked

(* A rebalance answered as complete leaves the position on its side and at *)
(* its target, whatever the reader showed after the close, unless another  *)
(* order filled on the way or the reopen was cut short.                    *)
ReopenedAtTarget ==
  ask.at = "record" /\ ask.ok /\ ask.answer = "complete"
    => wpos.lots = Signed(ask.side, ask.aim)
=============================================================================
