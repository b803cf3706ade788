----------------------------- MODULE HedgePolicy -----------------------------
(***************************************************************************)
(* The decisions of the funding hedge: what a polling round concludes from *)
(* the stored cycle and one snapshot of the two accounts                   *)
(* (funding_fee_avoidance/policy.py and HedgeCoordinator._reconcile).      *)
(*                                                                         *)
(* Everything here is a pure operator; the state machine that calls it is  *)
(* HedgeCycle.  Two abstractions are made on the data.  A point in time    *)
(* is a record of which hour it lies in, which part of that hour, and      *)
(* which of the configured timeouts have run out.  The economics of a      *)
(* snapshot s are two numbers: s.primary, the primary position that owes   *)
(* funding (0 when it is flat, owes none, or cannot be read, which the     *)
(* policy treats alike), and s.allowed, the size the policy would let the  *)
(* hedge have (0 when the notional, the margin, the fees, the expected     *)
(* saving or the age of the data forbid a new one).                        *)
(***************************************************************************)
EXTENDS Integers

CONSTANT NoCycle      \* no cycle is stored for the symbol

(* HedgeCycleStatus.  RECOVERY_REQUIRED is terminal: it hands the symbol   *)
(* to a human.                                                             *)
TerminalStatus == {"COMPLETED", "ABORTED", "RECOVERY_REQUIRED"}

ActiveStatus == {"ARMED", "OPEN_SUBMITTED", "OPEN_PARTIAL", "HEDGED",
                 "AWAITING_FUNDING", "CLOSE_SUBMITTED", "CLOSE_PARTIAL"}

OpeningStatus == {"OPEN_SUBMITTED", "OPEN_PARTIAL"}

ClosingStatus == {"CLOSE_SUBMITTED", "CLOSE_PARTIAL"}

(* What orderStatus reports, after `canceled', `rejected' and              *)
(* `margincanceled' are taken together; "none" when there is no CLOID to   *)
(* ask about, "unknown" when the exchange does not know it or the lookup   *)
(* failed.                                                                 *)
OrderStatus == {"none", "unknown", "filled", "canceled"}

TerminalOrderStatus == {"filled", "canceled"}

(* HedgeCycleState.active, extended to the absent cycle.                   *)
Active(c) == c # NoCycle /\ c.status \notin TerminalStatus

Size(n) == IF n < 0 THEN -n ELSE n

Sign(n) == IF n < 0 THEN -1 ELSE IF n > 0 THEN 1 ELSE 0

(* now >= settlement_at for the settlement at the end of hour h.           *)
Settled(h, now) == now.hour > h

-----------------------------------------------------------------------------
(* Reconciliation of the stored cycle with the snapshot.                   *)

(* The part about a pending adjustment.  Whatever the status was, an       *)
(* adjustment that has ended leaves the cycle HEDGED.                      *)
ReconcileAdjust(c, s, now) ==
    LET unmoved == s.pos = c.pre
        ended == \/ Size(s.pos) < Size(c.pre)
                 \/ s.adjust = "canceled"
                 \/ s.adjust # "filled" /\ unmoved /\ "adjust" \in now.waited
    IN  IF ~c.pending THEN c
        ELSE IF ended
             THEN [c EXCEPT !.pending = FALSE, !.pre = 0, !.status = "HEDGED"]
             ELSE IF s.adjust = "filled" /\ unmoved
                  THEN [c EXCEPT !.status = "RECOVERY_REQUIRED"]
                  ELSE c

(* Mutant: the order status is believed before the position.               *)
OpenStatus_StatusFirst(c, s, now) ==
    CASE s.open = "canceled" -> "ABORTED"
      [] s.open = "filled"   -> "HEDGED"
      [] OTHER -> IF s.pos # 0 THEN "OPEN_PARTIAL"
                  ELSE IF "open" \in now.waited THEN "ABORTED" ELSE c.status

(* The part about an open that has been submitted.                         *)
OpenStatus(c, s, now) ==
    IF s.pos # 0
    THEN IF Size(s.pos) < Size(c.target) THEN "OPEN_PARTIAL" ELSE "HEDGED"
    ELSE CASE s.open = "canceled" -> "ABORTED"
           [] s.open = "filled"   -> "RECOVERY_REQUIRED"
           [] OTHER -> IF "open" \in now.waited THEN "ABORTED" ELSE c.status

(* Mutant: an ambiguous close is never given up.                           *)

CloseStatus_NoRetry(c, s, now) ==
    IF s.pos = 0 THEN "COMPLETED"
    ELSE IF s.close \in TerminalOrderStatus THEN "CLOSE_PARTIAL" ELSE c.status

(* The part about a close that has been submitted.                         *)
CloseStatus(c, s, now) ==
    IF s.pos = 0 THEN "COMPLETED"
    ELSE IF s.close \in TerminalOrderStatus \/ "close" \in now.waited
         THEN "CLOSE_PARTIAL"
         ELSE c.status

ReconciledStatus(c, s, now) ==
    LET opened == IF c.status \in OpeningStatus
                  THEN OpenStatus(c, s, now) ELSE c.status
        closed == IF opened \in ClosingStatus
                  THEN CloseStatus([c EXCEPT !.status = opened], s, now)
                  ELSE opened
    IN  IF closed \in {"HEDGED", "OPEN_PARTIAL"} /\ Settled(c.hour, now)
        THEN "AWAITING_FUNDING"
        ELSE closed

(* Mutant: a finished cycle is reconciled like any other.                  *)
Reconciled_Finished(c, s, now) ==
    IF c = NoCycle THEN c
    ELSE LET a == ReconcileAdjust(c, s, now)
         IN  [a EXCEPT !.status = ReconciledStatus(a, s, now),
                       !.confirmed = @ \/ s.confirmed]

Reconciled(c, s, now) ==
    IF ~Active(c) THEN c
    ELSE LET a == ReconcileAdjust(c, s, now)
         IN  [a EXCEPT !.status = ReconciledStatus(a, s, now),
                       !.confirmed = @ \/ s.confirmed]

-----------------------------------------------------------------------------
(* The policy.  Each operator below is one of the actions evaluate chooses *)
(* for a reconciled cycle c; the tests come in the order of the code.      *)

(* The tracked hedge has lost its purpose: there is no primary that pays,  *)
(* or it has turned.                                                       *)
Purposeless(s) == s.primary = 0 \/ Sign(s.pos) # -Sign(s.primary)

Oversized(s) == Size(s.pos) > s.allowed

(* Mutant: the funding record is awaited without a deadline.               *)
WaitIsOver_NoDeadline(c, s, now) == s.confirmed \/ c.confirmed \/ s.unknown

(* Nothing more to wait for: the funding record is in, its deadline has    *)
(* passed, or somebody else trades on the hedge account.                   *)
WaitIsOver(c, s, now) ==
    \/ s.confirmed
    \/ c.confirmed
    \/ Settled(c.hour, now) /\ "funding" \in now.waited
    \/ s.unknown

(* Mutants: the window is not checked; a settlement whose cycle has ended  *)
(* may be hedged again.                                                    *)
MayOpen_AnyTime(c, s, now) ==
    /\ s.pos = 0 /\ ~s.unknown /\ ~Active(c)
    /\ s.primary # 0 /\ s.allowed > 0
    /\ now.hour = s.hour
    /\ c # NoCycle => c.hour # s.hour

MayOpen_Again(c, s, now) ==
    /\ s.pos = 0 /\ ~s.unknown /\ ~Active(c)
    /\ s.primary # 0 /\ s.allowed > 0
    /\ now.hour = s.hour /\ now.phase = "window"

(* The guards of a new hedge.  The settlement hedged against is the one    *)
(* that was next when the snapshot was taken.                              *)
MayOpen(c, s, now) ==
    /\ s.pos = 0
    /\ ~s.unknown
    /\ ~Active(c)
    /\ s.primary # 0
    /\ now.hour = s.hour
    /\ now.phase = "window"
    /\ s.allowed > 0
    /\ c # NoCycle => c.hour # s.hour      \* process: terminal_cycle_already_exists

Decision(c, s, now) ==
    IF s.pos # 0
    THEN IF ~Active(c) THEN "HOLD"         \* untracked: reported, nothing to change
         ELSE CASE Purposeless(s)                        -> "CLOSE"
                [] ~Purposeless(s) /\ Oversized(s)       -> "ADJUST"
                [] ~Purposeless(s) /\ ~Oversized(s)
                     /\ WaitIsOver(c, s, now)            -> "CLOSE"
                [] OTHER                                 -> "WAIT"
    ELSE IF Active(c)
         THEN IF s.unknown \/ c.status \in {"HEDGED", "AWAITING_FUNDING"}
              THEN "RECOVERY" ELSE "HOLD"
         ELSE IF MayOpen(c, s, now) THEN "OPEN" ELSE "HOLD"

(* The decisions process does not act on: an adjustment is still pending,  *)
(* or the close that was submitted has no final status yet.                *)
Deferred(c, s, d) ==
    \/ d = "ADJUST" /\ c.pending
    \/ d = "CLOSE" /\ c.status = "CLOSE_SUBMITTED"
                   /\ s.close \notin TerminalOrderStatus

-----------------------------------------------------------------------------
(* The cycle that process persists for each decision.                      *)

NewCycle(s) ==
    [hour |-> s.hour, status |-> "ARMED", target |-> -Sign(s.primary) * s.allowed,
     closes |-> 0, adjusts |-> 0, pending |-> FALSE, pre |-> 0,
     confirmed |-> FALSE]

Waiting(c, s, now) ==
    [c EXCEPT !.status = IF Settled(c.hour, now) THEN "AWAITING_FUNDING"
                         ELSE IF Size(s.pos) < Size(c.target)
                              THEN "OPEN_PARTIAL" ELSE "HEDGED",
              !.confirmed = @ \/ s.confirmed]

Adjusting(c, s) ==
    [c EXCEPT !.adjusts = @ + 1, !.pending = TRUE, !.pre = s.pos]

Closing(c) ==
    [c EXCEPT !.status = "CLOSE_SUBMITTED", !.closes = @ + 1]

Intended(c, s, now, d) ==
    CASE d = "OPEN"     -> NewCycle(s)
      [] d = "WAIT"     -> Waiting(c, s, now)
      [] d = "ADJUST"   -> Adjusting(c, s)
      [] d = "CLOSE"    -> Closing(c)
      [] d = "RECOVERY" -> [c EXCEPT !.status = "RECOVERY_REQUIRED"]
=============================================================================
