------------------------------ MODULE StagedExit ------------------------------
(***************************************************************************)
(* The staged exit plan of a live position: the arithmetic that the        *)
(* trading agent's risk session (market_agent/agent_risk_session.py)       *)
(* applies to its session object.  A session is a record; every operator   *)
(* here is a pure function of it, so that RiskSession composes them into   *)
(* the steps of the monitor.                                               *)
(*                                                                         *)
(* Units.  Sizes are whole lots (the exchange's size precision), so the    *)
(* code's quantity tolerance of half a quantum is "equal".  Prices are     *)
(* side-normalised profit ticks of 0.05 R relative to the entry: the stop  *)
(* of a long at entry - R and of a short at entry + R are both -20.        *)
(* NoStop stands for the price 0.0 of the code ("not set").                *)
(***************************************************************************)
EXTENDS Integers, FiniteSets, TLC

CONSTANTS Tp1Tenths,   \* tp1_close_fraction of the plan, in tenths
          Tp2Tenths    \* tp2_close_fraction of the plan, in tenths

\* Whatever mix of the plan's and of the default fractions is in force, some
\* part of the position is left for the tail.
ASSUME FractionsFit == /\ Tp1Tenths \in 0 .. 5 /\ Tp2Tenths \in 0 .. 6
                       /\ Tp1Tenths + Tp2Tenths < 10

TP1 == "stage_tp1"
TP2 == "stage_tp2"
Legs == {TP1, TP2}

NoSession == [none |-> TRUE]
NoStop == -1000

\* Multiples of R of _fallback_staged_exit_params, in ticks.
InitialStop == -20
PostTp1Stop == -8
LockedFloor == 20

\* Thresholds of the normal-liquidity time decay, in ticks.
DecayMfe(leg) == IF leg = TP1 THEN 12 ELSE 30
DecayCurrent(leg) == IF leg = TP1 THEN 6 ELSE 20

\* Stops and buffers of the two "no progress" rules and of the tail lock.
NoFollowStop == -8
NoContinuationStop == 5
TailBuffer == 3

Larger(a, b) == IF a >= b THEN a ELSE b
Smaller(a, b) == IF a <= b THEN a ELSE b
AtLeastZero(a) == Larger(a, 0)

-----------------------------------------------------------------------------
(* Sizes.  The size basis may be a fraction of a lot after a retarget: it   *)
(* is the rational basis[1] / basis[2].                                     *)

\* _staged_tp_leg_fraction: once a leg is gone the defaults answer.
LegTenths(s, leg) ==
    IF leg \in s.legs THEN IF leg = TP1 THEN Tp1Tenths ELSE Tp2Tenths
    ELSE IF leg = TP1 THEN 3 ELSE 4

\* _staged_tp_target_size_abs: the leg's share of the basis, rounded down.
Target(s, leg) == (s.basis[1] * LegTenths(s, leg)) \div (10 * s.basis[2])

Hit(s, leg) == leg \in s.hit

\* _staged_tp_completed_size_abs
CompletedSize(s, leg) ==
    Larger(s.completed[leg], IF Hit(s, leg) THEN Target(s, leg) ELSE 0)

\* _risk_session_tp1_completed / _risk_session_tp2_completed
Completed(s, leg) ==
    \/ Hit(s, leg)
    \/ leg \in s.executed
    \/ Target(s, leg) = 0
    \/ s.completed[leg] >= Target(s, leg)

\* The leg the plan is working on, if any.
WorkingLeg(s) == IF ~Completed(s, TP1) THEN {TP1}
                 ELSE IF ~Completed(s, TP2) THEN {TP2} ELSE {}

\* What is left to close for a leg, capped by the position.
RemainingTarget(s, leg, size) ==
    Smaller(size, AtLeastZero(Target(s, leg) - CompletedSize(s, leg)))

-----------------------------------------------------------------------------
(* Stops.                                                                   *)

\* _set_stage_soft_hard_stop: the strategy stop less the buffer becomes the
\* soft stop; nothing rests at the exchange for it.
SetStop(s, strategyStop, buffer) ==
    [s EXCEPT !.soft = strategyStop - buffer, !.stop = strategyStop - buffer]

\* _risk_session_active_soft_stop_price
ActiveSoftStop(s) ==
    IF s.soft # NoStop THEN s.soft
    ELSE IF Hit(s, TP2) THEN NoStop
    ELSE IF Hit(s, TP1) THEN s.postTp1
    ELSE InitialStop

\* _update_staged_risk_session_trailing_state for a new completed bar whose
\* ATR stop is atrStop; NoStop when no new bar closed.
TrailTo(s, atrStop) ==
    IF atrStop = NoStop \/ ~Hit(s, TP2) THEN s
    ELSE LET soft == Larger(Larger(s.locked, s.trailing), atrStop)
         IN  [s EXCEPT !.trailing = soft, !.stop = soft]

-----------------------------------------------------------------------------
(* Stage transitions.                                                       *)

\* The first half of _update_staged_risk_session_after_completed_keys.
Tp1Done(s, buffer) ==
    LET t == [s EXCEPT !.hit = @ \cup {TP1},
                       !.completed[TP1] = Larger(@, Target(s, TP1)),
                       !.legs = @ \ {TP1},
                       !.aged = IF s.noFollow THEN @ ELSE @ \ {"anchor"}]
    IN  SetStop(t, s.postTp1, buffer)

\* Its second half: the tail starts, guarded by the trailing stop when a bar
\* is available and by nothing but stop_loss_price when none is.
Tp2Done(s, atrStop) ==
    LET t == [s EXCEPT !.hit = @ \cup {TP2},
                       !.completed[TP2] = Larger(@, Target(s, TP2)),
                       !.legs = {}]
        u == TrailTo(t, atrStop)
    IN  [u EXCEPT !.stop = IF u.trailing # NoStop THEN u.trailing ELSE u.locked,
                  !.soft = NoStop]

UpdateAfterCompleted(s, keys, buffer, atrStop) ==
    LET t == IF TP1 \in keys /\ ~Hit(s, TP1) THEN Tp1Done(s, buffer) ELSE s
    IN  IF TP2 \in keys /\ ~Hit(t, TP2) THEN Tp2Done(t, atrStop) ELSE t

Gcd[a \in Nat, b \in Nat] == IF b = 0 THEN a ELSE Gcd[b, a % b]

\* The share of the basis a leg has already taken: <<numerator, denominator>>.
TakenShare(s, leg) ==
    LET done == s.completed[leg] * s.basis[2]
    IN  IF Hit(s, leg) \/ 10 * done > LegTenths(s, leg) * s.basis[1]
        THEN <<LegTenths(s, leg), 10>>
        ELSE IF done = 0 THEN <<0, 1>> ELSE <<done, s.basis[1]>>

\* _retarget_staged_exit_size_basis_after_risk_reduce: the fractions already
\* taken keep their share, so the basis becomes remaining / (1 - taken).
Retarget(s, remaining) ==
    LET a == TakenShare(s, TP1)
        b == TakenShare(s, TP2)
        den == a[2] * b[2]
        active == den - a[1] * b[2] - b[1] * a[2]
        g == Gcd[remaining * den, active]
        taken(x) == (remaining * den * x[1]) \div (active * x[2])
    IN  [s EXCEPT !.basis = <<(remaining * den) \div g, active \div g>>,
                  !.completed = (TP1 :> taken(a)) @@ (TP2 :> taken(b))]

\* One leg's share of _apply_staged_exit_early_take_profit_trim:
\* <<session, credit left, completed keys>>.
CreditLeg(x, leg) ==
    LET s == x[1]
        t == Target(s, leg)
        done == s.completed[leg]
        new == Smaller(done + Smaller(x[2], AtLeastZero(t - done)), t)
    IN  IF x[2] = 0 \/ t = 0 THEN x
        ELSE IF Hit(s, leg)
             THEN <<[s EXCEPT !.completed[leg] = Larger(done, t)], x[2], x[3]>>
             ELSE <<[s EXCEPT !.completed[leg] = new],
                    AtLeastZero(x[2] - AtLeastZero(new - done)),
                    IF new >= t THEN x[3] \cup {leg} ELSE x[3]>>

EarlyTrim(s, closed, buffer, atrStop) ==
    LET x == CreditLeg(CreditLeg(<<s, closed, {}>>, TP1), TP2)
        t == [x[1] EXCEPT !.executed = @ \cup x[3]]
    IN  UpdateAfterCompleted(t, x[3], buffer, atrStop)

\* _adjust_time_decay_tp2_tail_locked_floor: the floor of the tail may not be
\* above what the market gave, less a buffer.
TailLock(s, mark) ==
    [s EXCEPT !.locked = AtLeastZero(Smaller(AtLeastZero(s.locked), mark - TailBuffer)),
              !.trailing = NoStop]

-----------------------------------------------------------------------------
(* Orders: _iter_risk_session_exit_order_specs for the take-profit legs in  *)
(* plan order; the stop-loss legs are always empty.  A spec is the size to  *)
(* rest for a leg (0: no order).                                            *)

SpecSize(s, leg) ==
    LET want(l) == IF l \in s.legs \ s.executed
                   THEN AtLeastZero(Target(s, l) - CompletedSize(s, l)) ELSE 0
        first == Smaller(want(TP1), s.expected)
    IN  IF leg = TP1 THEN first
        ELSE Smaller(want(TP2), s.expected - first)

SpecLegs(s) == {l \in Legs : SpecSize(s, l) > 0}

-----------------------------------------------------------------------------
(* Candidates: which rule fires at a mark price.                            *)

\* _update_risk_session_mfe
Mfe(s, mark) == [s EXCEPT !.mfe = Larger(@, mark)]

\* The anchor that the TP2 rules measure from, once there is one.
HasAnchor(s) == s.noFollow \/ Hit(s, TP1)

\* _risk_session_time_decay_tp_candidate: <<leg, size>> or nothing.
TimeDecay(s, mark, size) ==
    {<<leg, RemainingTarget(s, leg, size)>> : leg \in {l \in WorkingLeg(s) :
        LET elapsed == IF l = TP1 THEN "entry" \in s.aged ELSE "anchor" \in s.aged
            enough == mark >= DecayCurrent(l)
            vetoed == IF l = TP1 THEN s.noFollow ELSE s.noCont
        IN  /\ l = TP2 => HasAnchor(s)
            /\ l \notin s.executed
            /\ s.mfe >= DecayMfe(l)
            /\ elapsed \/ enough
            /\ ~(elapsed /\ vetoed /\ ~enough)
            /\ RemainingTarget(s, l, size) > 0}}

\* _risk_session_tp1_no_follow_through_candidate: the size to trim or nothing.
NoFollowThrough(s, size) ==
    {q \in {size \div 2} : /\ ~s.noFollow
                           /\ ~Completed(s, TP1)
                           /\ "entry" \in s.aged
                           /\ s.mfe < DecayMfe(TP1)
                           /\ q > 0}

\* The stop after a missing continuation.
TightenedStop(s) == Larger(ActiveSoftStop(s), NoContinuationStop)

\* _risk_session_tp2_no_continuation_candidate: flatten when the tightened
\* stop is already crossed, trim half of the position otherwise.

NoContinuation(s, mark, size) ==
    {q \in {IF mark <= TightenedStop(s) THEN size ELSE size \div 2} :
        /\ ~s.noCont
        /\ Completed(s, TP1) \/ s.noFollow
        /\ ~Completed(s, TP2)
        /\ HasAnchor(s)
        /\ "anchor" \in s.aged
        /\ s.mfe < DecayMfe(TP2)
        /\ q > 0}

\* The tail branch of _risk_session_basis_profit_lock_candidate: the tighter
\* stop, or nothing when it would not tighten.
TailTighten(s, mark) ==
    LET current == IF s.trailing # NoStop THEN s.trailing
                   ELSE IF s.stop # NoStop THEN s.stop ELSE s.locked
    IN  {t \in {mark - TailBuffer} : t > current}

-----------------------------------------------------------------------------
(* A new session: _build_staged_risk_session_from_stop.                     *)

NewSession(size, buffer) ==
    SetStop([none |-> FALSE, expected |-> size, basis |-> <<size, 1>>,
             legs |-> Legs, executed |-> {}, hit |-> {},
             completed |-> [leg \in Legs |-> 0],
             soft |-> NoStop, stop |-> InitialStop, postTp1 |-> PostTp1Stop,
             locked |-> LockedFloor, trailing |-> NoStop, mfe |-> 0,
             noFollow |-> FALSE, noCont |-> FALSE, observing |-> FALSE,
             aged |-> {}, refs |-> {}],
            InitialStop, buffer)
=============================================================================
