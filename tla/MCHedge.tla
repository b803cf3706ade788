------------------------------- MODULE MCHedge -------------------------------
(***************************************************************************)
(* The funding hedge in two settings.  "rounds": one settlement is left,   *)
(* the primary can turn, the watcher may crash, no order lands late.       *)
(* "hours": two settlements, a primary of one lot, orders that land late.  *)
(***************************************************************************)
EXTENDS HedgeCycle

VARIABLES part,       \* the setting
          overtaken   \* history: the account was read while an order was on its way

(* A primary that is long two lots and can turn short.                     *)
CanTurn == {-1, 2}

Late == INSTANCE HedgeCycle WITH
    Exposures <- {1}, LateFills <- TRUE, MaxCrashes <- 0

(* A round's reading of the account overtakes an order.                    *)
Overtakes == \E w \in Watcher : pc[w] = "positions" /\ pc'[w] = "orders" /\ sent # {}
Remembers == overtaken' = (overtaken \/ Overtakes)

HedgeInit ==
    /\ \/ part = "rounds" /\ Init /\ hour = Hours - 1
       \/ part = "hours" /\ Late!Init /\ hour = 0
    /\ overtaken = FALSE

HedgeNext ==
    /\ \/ part = "rounds" /\ Next
       \/ part = "hours" /\ Late!Next
    /\ Remembers
    /\ UNCHANGED part

HedgeSpec == HedgeInit /\ [][HedgeNext]_<<vars, part, overtaken>>

(* No hedge is forgotten: a COMPLETED cycle has left nothing on the        *)
(* account or on its way there, and a live hedge belongs to an active      *)
(* cycle, so some round will close it, for as long as no round has read    *)
(* the account while an order was still on its way.                        *)
NeverForgotten == CompletedIsFlat /\ (~overtaken => Tracked)
=============================================================================
