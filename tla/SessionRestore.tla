---------------------------- MODULE SessionRestore ----------------------------
(***************************************************************************)
(* What the trading agent makes of its risk session file when it starts    *)
(* with a position open (_restore_risk_session_from_persisted_state of     *)
(* market_agent/agent_materialization.py and _risk_session_from_state_     *)
(* payload of agent_risk_session.py).  Pure operators: the saved session,  *)
(* the position's size, the open exit orders and the recent fills in, the  *)
(* session to run with out.                                                *)
(***************************************************************************)
EXTENDS StagedExit

\* _risk_session_from_state_payload: everything is read back but the stop,
\* which is set anew from the stage.
FromPayload(s, buffer) ==
    LET t == [s EXCEPT !.completed = [l \in Legs |-> Smaller(s.completed[l], Target(s, l))]]
    IN  IF Hit(s, TP2) THEN t
        ELSE IF Hit(s, TP1) THEN SetStop(t, s.postTp1, buffer)
        ELSE IF s.noFollow /\ s.soft # NoStop THEN SetStop(t, s.soft, 0)
        ELSE SetStop(t, InitialStop, buffer)

OpenLegs(open) == {o.leg : o \in open}

\* _startup_restore_open_order_keys: the saved references found open, or, when
\* none is, the legs whose price an open order has.
OpenKeys(s, open) ==
    LET known == {r.leg : r \in {x \in s.refs : \E o \in open : o.oid = x.oid}}
    IN  IF known # {} THEN known
        ELSE OpenLegs(open) \cap ({r.leg : r \in s.refs} \cup SpecLegs(s))

\* _startup_restore_completed_keys_from_fills: a saved reference whose fills
\* reach its size.
FillKeys(s, filled) == {r.leg : r \in {x \in s.refs : filled[x.oid] >= x.size}}

\* _startup_restore_infer_completed_keys: what the position's size tells of
\* the legs that have no open order.
InferKeys(s, initial, size, open, keys) ==
    LET t1 == Target(s, TP1)
        t2 == Target(s, TP2)
        one == TP1 \notin OpenKeys(s, open) /\ t1 > 0 /\ size <= initial - t1
        both == TP2 \notin OpenKeys(s, open) /\ t2 > 0 /\ size <= initial - t1 - t2
    IN  keys \cup (IF one THEN {TP1} ELSE {}) \cup (IF both THEN Legs ELSE {})

\* _startup_restore_reconcile_staged_progress, one leg: from the remainder of
\* its open order, else from what is missing of the position.
LegProgress(s, leg, size, open, keys, before) ==
    LET t == Target(s, leg)
        mine == {o \in open : o.leg = leg}
        closed == AtLeastZero(s.basis[1] - size * s.basis[2]) \div s.basis[2]
        whole == Hit(s, leg) \/ leg \in keys \/ closed >= t + before
        share == IF mine # {} THEN AtLeastZero(t - (CHOOSE o \in mine : TRUE).left)
                 ELSE IF whole THEN t
                 ELSE IF leg = TP1 \/ TP1 \in keys
                      THEN Smaller(t, AtLeastZero(closed - before)) ELSE 0
    IN  Smaller(t, Larger(s.completed[leg], share))

Reconciled(s, size, open, keys) ==
    LET one == LegProgress(s, TP1, size, open, keys, 0)
        k1 == IF Target(s, TP1) > 0 /\ one >= Target(s, TP1) THEN keys \cup {TP1} ELSE keys
        two == LegProgress(s, TP2, size, open, k1, Target(s, TP1))
        k2 == IF Target(s, TP2) > 0 /\ two >= Target(s, TP2) THEN k1 \cup {TP2} ELSE k1
    IN  [s |-> [s EXCEPT !.completed = (TP1 :> one) @@ (TP2 :> two)], keys |-> k2]

\* _startup_restore_apply_completed_keys
ApplyKeys(s, keys, size, buffer, atrStop) ==
    [UpdateAfterCompleted(s, keys, buffer, atrStop) EXCEPT
        !.executed = @ \cup keys, !.expected = size]

\* _finalize_restored_risk_session_order_refs and what follows it: how the open
\* orders are taken over.  "keep": they are the plan's orders; "resync": they
\* are adopted to be cancelled and placed anew; "none": nothing is adopted and
\* nothing is placed; "mismatch": the file is not used.
Takeover(s, open, keys) ==
    LET fits(o) == SpecSize(s, o.leg) > 0
        oneEach == \A a, b \in open : a.leg = b.leg => a = b
        subset == SpecLegs(s) # {} /\ oneEach /\ \A o \in open : fits(o)
        exact == subset /\ OpenLegs(open) = SpecLegs(s)
                 /\ \A o \in open : o.left = SpecSize(s, o.leg)
    IN  IF exact THEN "keep"
        ELSE IF subset THEN IF open = {} THEN "none" ELSE "resync"
        ELSE IF open = {} \/ SpecLegs(s) = {} \/ \A o \in open : fits(o) THEN "resync"
        ELSE IF keys # {} /\ OpenKeys(s, open) # {} THEN "resync" ELSE "mismatch"

\* The session the file leads to, before orders are taken over.
RestoredSession(s, initial, size, open, filled, buffer, atrStop) ==
    LET t == FromPayload(s, buffer)
        keys == InferKeys(t, initial, size, open, FillKeys(t, filled))
        r == Reconciled(t, size, open, keys)
    IN  [s |-> ApplyKeys(r.s, r.keys, size, buffer, atrStop), keys |-> r.keys]
=============================================================================
