---------------------------- MODULE BudgetLedger ----------------------------
(***************************************************************************)
(* The budget of one workflow run: WorkflowBudgetLedger                    *)
(* (market_agent/workflow_budget.py).                                      *)
(*                                                                         *)
(* Every method runs under the ledger's lock, so one action is one call.   *)
(* The callers hold reservations across a model call, and the answer and   *)
(* the timeout of one call race to close the same reservation.             *)
(***************************************************************************)
EXTENDS Integers, FiniteSetsExt, TLAPS

CONSTANTS
  BudgetNodes,       \* nodes of the workflow
  Models,            \* models a node's policy allows
  Prices,            \* what a reservation may cost, what a settlement may charge
  WorkflowCap, NodeCap,              \* money
  WorkflowAttempts, NodeAttempts, ModelAttempts,
  WorkflowSeconds, NodeSeconds,      \* deadlines, from the start of each
  AttemptSeconds,                    \* longest timeouts of an attempt: a set
  MaxSeconds                         \* bound: time

ASSUME LedgerAssumption ==
  /\ Prices \subseteq Nat /\ IsFiniteSet(BudgetNodes)
  /\ {WorkflowCap, NodeCap, WorkflowAttempts, NodeAttempts, ModelAttempts,
      WorkflowSeconds, NodeSeconds, MaxSeconds} \subseteq Nat
  /\ AttemptSeconds \subseteq Nat

VARIABLES
  second,        \* the monotonic clock
  held,          \* _active: the open reservations
  reserved,      \* _reserved_cost
  settled,       \* _settled_cost
  attempts,      \* _attempts, also the next reservation's identity
  nodeBudget,    \* _nodes: the budget of every node that has reserved
  overdrawn,     \* _exhausted and _overdrawn, which are set together
  receipts       \* ghost: every settlement handed out

budgetVars == <<second, held, reserved, settled, attempts, nodeBudget, overdrawn, receipts>>

NewBudget(at) == [deadline |-> at + NodeSeconds, reserved |-> 0, settled |-> 0,
                  attempts |-> 0, tried |-> [m \in Models |-> 0]]
BudgetOf(n) == IF n \in DOMAIN nodeBudget THEN nodeBudget[n] ELSE NewBudget(second)

LedgerTypeOK ==
  /\ second \in 0..MaxSeconds /\ overdrawn \in BOOLEAN
  /\ reserved \in Nat /\ settled \in Nat /\ attempts \in 0..WorkflowAttempts
  /\ \A r \in held : /\ r.id \in 1..attempts /\ r.node \in DOMAIN nodeBudget
                     /\ r.model \in Models /\ r.cost \in Prices
  /\ DOMAIN nodeBudget \subseteq BudgetNodes

LedgerInit ==
  /\ second = 0 /\ held = {} /\ reserved = 0 /\ settled = 0 /\ attempts = 0
  /\ nodeBudget = [n \in {} |-> NewBudget(0)] /\ overdrawn = FALSE /\ receipts = {}

-----------------------------------------------------------------------------
(* Money still free, counting what is promised as well as what is spent.   *)
\* Mutant: promises are not counted.
Fits_SettledOnly(cost, n) ==
  settled + cost <= WorkflowCap /\ BudgetOf(n).settled + cost <= NodeCap
Fits(cost, n) ==
  /\ settled + reserved + cost <= WorkflowCap
  /\ BudgetOf(n).settled + BudgetOf(n).reserved + cost <= NodeCap

(* reserve: refused without a trace unless everything fits.                *)
Reserve(n, m, cost, timeout) ==
  LET b == BudgetOf(n)
      id == attempts + 1
  IN /\ ~overdrawn
     /\ second < b.deadline /\ second < WorkflowSeconds
     /\ second + timeout <= b.deadline /\ second + timeout <= WorkflowSeconds
     /\ attempts < WorkflowAttempts /\ b.attempts < NodeAttempts
     /\ b.tried[m] < ModelAttempts
     /\ Fits(cost, n)
     /\ held' = held \cup {[id |-> id, node |-> n, model |-> m, cost |-> cost]}
     /\ reserved' = reserved + cost
     /\ attempts' = id
     /\ nodeBudget' = [k \in DOMAIN nodeBudget \cup {n} |->
                         IF k = n THEN [b EXCEPT !.reserved = @ + cost, !.attempts = @ + 1,
                                                 !.tried[m] = @ + 1]
                         ELSE nodeBudget[k]]
     /\ UNCHANGED <<second, settled, overdrawn, receipts>>

(* _active_reservation: only an open reservation can be closed, once.      *)
Closable == held

(* _close: the promise is returned and the charge booked, in both budgets. *)
Close(r, charged, over, late) ==
  /\ held' = held \ {r}
  /\ reserved' = reserved - r.cost
  /\ settled' = settled + charged
  /\ nodeBudget' = [nodeBudget EXCEPT ![r.node].reserved = @ - r.cost,
                                      ![r.node].settled = @ + charged]
  /\ overdrawn' = (overdrawn \/ over \/ charged > r.cost)
  /\ receipts' = receipts \cup {[id |-> r.id, node |-> r.node, model |-> r.model,
                                 cost |-> r.cost, charged |-> charged, late |-> late]}
  /\ UNCHANGED <<second, attempts>>

(* settle: any component of the usage above what was reserved overdraws    *)
(* the budget, even when the charge is not higher.                         *)
Settles(r, charged, over) == Close(r, charged, over, FALSE)
(* consume_timeout charges the whole reservation.                          *)
ConsumeTimeout(r) == Close(r, r.cost, FALSE, TRUE)

SecondPasses == /\ second < MaxSeconds /\ second' = second + 1
                /\ UNCHANGED <<held, reserved, settled, attempts, nodeBudget, overdrawn, receipts>>

LedgerNext ==
  \/ \E n \in BudgetNodes, m \in Models, cost \in Prices, t \in AttemptSeconds : Reserve(n, m, cost, t)
  \/ \E r \in Closable : \/ \E charged \in Prices, over \in BOOLEAN : Settles(r, charged, over)
                         \/ ConsumeTimeout(r)
  \/ SecondPasses

LedgerSpec == LedgerInit /\ [][LedgerNext]_budgetVars

-----------------------------------------------------------------------------
(* A reservation is open or has one receipt, however its answer and its    *)
(* timeout race: they never charge the same call twice                     *)
(* (_active_reservation, _close).                                          *)
OneReceipt ==
  /\ \A r, x \in held : r.id = x.id => r = x
  /\ \A x, y \in receipts : x.id = y.id => x = y
  /\ \A r \in held, x \in receipts : r.id # x.id

(* However reservations, settlements and timeouts interleave, the money    *)
(* promised is the sum of the open reservations and the money spent is the *)
(* sum of one receipt per closed one, for the run and for every node.      *)
Conserved ==
  LET Owed(r, s) == r.cost + s
      Paid(p, s) == p.charged + s
      Of(n, S) == {x \in S : x.node = n}
  IN /\ reserved = FoldSet(Owed, 0, held) /\ settled = FoldSet(Paid, 0, receipts)
     /\ \A n \in DOMAIN nodeBudget :
          /\ nodeBudget[n].reserved = FoldSet(Owed, 0, Of(n, held))
          /\ nodeBudget[n].settled = FoldSet(Paid, 0, Of(n, receipts))
     /\ OneReceipt

(* A run that no answer has overdrawn stays within its cap and every node  *)
(* within its own, counting the calls still out: no order of settlements   *)
(* can take a run over its cap later.                                      *)
CapsKept ==
  ~overdrawn => /\ settled + reserved <= WorkflowCap
                /\ \A n \in DOMAIN nodeBudget :
                     nodeBudget[n].settled + nodeBudget[n].reserved <= NodeCap

-----------------------------------------------------------------------------
(* The caps, for every workflow, every price and every order of calls.     *)

Money == [deadline : Int, reserved : Int, settled : Int, attempts : Int, tried : [Models -> Int]]

(* What the sums are made of: numbers, in the run's budget, in every       *)
(* node's and in the open reservations, which belong to nodes that have a  *)
(* budget.                                                                 *)
Amounts ==
  /\ reserved \in Int /\ settled \in Int /\ attempts \in Nat /\ second \in Int
  /\ nodeBudget \in [DOMAIN nodeBudget -> Money]
  /\ \A r \in held : r.cost \in Int /\ r.node \in DOMAIN nodeBudget

USE LedgerAssumption

\* A price is a number.
LEMMA PriceTypes == \A cost \in Prices : cost \in Int
<1>1. Prices \subseteq Nat
  BY LedgerAssumption
<1> QED
  BY <1>1

\* A new node's budget, or the one it has, is made of numbers.
LEMMA BudgetTypes ==
  ASSUME Amounts, NEW n
  PROVE  BudgetOf(n) \in Money
  BY DEF Amounts, BudgetOf, NewBudget, Money

\* reserve keeps the caps because it counts what is promised.
LEMMA ReserveKeeps ==
  ASSUME Amounts, CapsKept, NEW n, NEW m \in Models, NEW cost \in Int, NEW t \in Int,
         Reserve(n, m, cost, t)
  PROVE  Amounts' /\ CapsKept'
<1> DEFINE b == BudgetOf(n)
           f == [b.tried EXCEPT ![m] = @ + 1]
           c == [b EXCEPT !.reserved = @ + cost, !.attempts = @ + 1, !.tried[m] = @ + 1]
           r == [id |-> attempts + 1, node |-> n, model |-> m, cost |-> cost]
<1>1. b \in Money
  BY BudgetTypes
<1>2. c \in Money /\ c.reserved = b.reserved + cost /\ c.settled = b.settled
  <2>1. f \in [Models -> Int]
    BY <1>1 DEF Money
  <2>2. c = [b EXCEPT !.reserved = @ + cost, !.attempts = @ + 1, !.tried = f]
    BY <1>1 DEF Money
  <2> DEFINE x == b.reserved + cost
             y == b.attempts + 1
  <2>3. x \in Int /\ y \in Int
    BY <1>1 DEF Money
  <2>4. c = [b EXCEPT !.reserved = x, !.attempts = y, !.tried = f]
    BY <2>2
  <2> HIDE DEF b, c, f, x, y
  <2>5. c \in Money /\ c.reserved = x /\ c.settled = b.settled
    BY <1>1, <2>1, <2>3, <2>4 DEF Money
  <2> QED
    BY <2>5 DEF x
<1>3. nodeBudget' = [k \in DOMAIN nodeBudget \cup {n} |-> IF k = n THEN c ELSE nodeBudget[k]]
  BY DEF Reserve
<1>4. /\ held' = held \cup {r} /\ r.cost = cost /\ r.node = n
      /\ reserved' = reserved + cost /\ settled' = settled /\ attempts' = attempts + 1
      /\ second' = second /\ overdrawn' = overdrawn /\ ~overdrawn
  BY DEF Reserve
<1>5. settled + reserved + cost <= WorkflowCap /\ b.settled + b.reserved + cost <= NodeCap
  BY DEF Reserve, Fits
<1> HIDE DEF b, c, r
<1>6. DOMAIN nodeBudget' = DOMAIN nodeBudget \cup {n}
  BY <1>3
<1>7. Amounts'
  BY <1>2, <1>3, <1>4, <1>6 DEF Amounts
<1>8. CapsKept'
  <2>1. reserved \in Int /\ settled \in Int /\ b.reserved \in Int /\ b.settled \in Int
    BY <1>1 DEF Amounts, Money
  <2>2. settled' + reserved' <= WorkflowCap
    BY <1>4, <1>5, <2>1
  <2>3. ASSUME NEW k \in DOMAIN nodeBudget'
        PROVE  nodeBudget'[k].settled + nodeBudget'[k].reserved <= NodeCap
    <3>1. CASE k = n
      BY <1>2, <1>3, <1>5, <1>6, <2>1, <3>1
    <3>2. CASE k # n
      BY <1>3, <1>4, <1>6, <2>3, <3>2 DEF CapsKept
    <3> QED
      BY <3>1, <3>2
  <2> QED
    BY <2>2, <2>3 DEF CapsKept
<1> QED
  BY <1>7, <1>8

\* Closing a reservation frees at least what it charges, or overdraws.
LEMMA CloseKeeps ==
  ASSUME Amounts, CapsKept, NEW r \in held, NEW charged \in Int, NEW over \in BOOLEAN, NEW late,
         Close(r, charged, over, late)
  PROVE  Amounts' /\ CapsKept'
<1> DEFINE n == r.node
           b == nodeBudget[n]
           c == [b EXCEPT !.reserved = @ - r.cost, !.settled = @ + charged]
<1>1. b \in Money /\ n \in DOMAIN nodeBudget /\ r.cost \in Int
  BY DEF Amounts
<1>2. c \in Money /\ c.reserved = b.reserved - r.cost /\ c.settled = b.settled + charged
  <2> DEFINE x == b.reserved - r.cost
             y == b.settled + charged
  <2>1. x \in Int /\ y \in Int /\ b.tried \in [Models -> Int]
    BY <1>1 DEF Money
  <2>2. c = [b EXCEPT !.reserved = x, !.settled = y]
    OBVIOUS
  <2> HIDE DEF b, c, x, y
  <2>3. c \in Money /\ c.reserved = x /\ c.settled = y
    BY <1>1, <2>1, <2>2 DEF Money
  <2> QED
    BY <2>3 DEF x, y
<1>3. nodeBudget' = [nodeBudget EXCEPT ![n] = c]
  BY <1>1 DEF Close, Amounts
<1>4. /\ held' = held \ {r} /\ reserved' = reserved - r.cost /\ settled' = settled + charged
      /\ overdrawn' = (overdrawn \/ over \/ charged > r.cost)
      /\ attempts' = attempts /\ second' = second
  BY DEF Close
<1> HIDE DEF b, c, n
<1>5. nodeBudget'[n] = c /\ \A k \in DOMAIN nodeBudget : k # n => nodeBudget'[k] = nodeBudget[k]
  BY <1>1, <1>3 DEF Amounts
<1>6. DOMAIN nodeBudget' = DOMAIN nodeBudget
  BY <1>3 DEF Amounts
<1>7. Amounts'
  <2>1. nodeBudget' \in [DOMAIN nodeBudget' -> Money]
    BY <1>2, <1>3, <1>6 DEF Amounts
  <2> QED
    BY <1>1, <1>4, <1>6, <2>1 DEF Amounts
<1>8. CapsKept'
  <2> SUFFICES ASSUME ~overdrawn'
               PROVE  /\ settled' + reserved' <= WorkflowCap
                      /\ \A k \in DOMAIN nodeBudget' :
                           nodeBudget'[k].settled + nodeBudget'[k].reserved <= NodeCap
    BY DEF CapsKept
  <2>0. ~overdrawn /\ ~(charged > r.cost)
    BY <1>4, Zenon
  <2>1. ~overdrawn /\ charged <= r.cost
    BY <1>1, <2>0
  <2>2. reserved \in Int /\ settled \in Int /\ b.reserved \in Int /\ b.settled \in Int
    BY <1>1 DEF Amounts, Money
  <2>3. settled' + reserved' <= WorkflowCap
    BY <1>1, <1>4, <2>1, <2>2 DEF CapsKept
  <2>4. ASSUME NEW k \in DOMAIN nodeBudget'
        PROVE  nodeBudget'[k].settled + nodeBudget'[k].reserved <= NodeCap
    <3>1. CASE k = n
      <4>1. b.settled + b.reserved <= NodeCap
        BY <1>1, <2>1 DEF CapsKept, b
      <4> QED
        BY <1>1, <1>2, <1>5, <2>1, <2>2, <3>1, <4>1
    <3>2. CASE k # n
      BY <1>5, <1>6, <2>1, <2>4, <3>2 DEF CapsKept
    <3> QED
      BY <3>1, <3>2
  <2> QED
    BY <2>3, <2>4
<1> QED
  BY <1>7, <1>8

\* No order of reservations, settlements and timeouts takes a run or a node
\* over its cap, unless an answer cost more than was reserved for it
\* (reserve, settle, consume_timeout).
THEOREM WithinCaps == LedgerSpec => []CapsKept
<1>1. LedgerInit => Amounts /\ CapsKept
  <2> SUFFICES ASSUME LedgerInit PROVE Amounts /\ CapsKept
    OBVIOUS
  <2>1. DOMAIN nodeBudget = {} /\ nodeBudget \in [DOMAIN nodeBudget -> Money]
    BY DEF LedgerInit
  <2>2. Amounts
    BY <2>1 DEF LedgerInit, Amounts
  <2>3. CapsKept
    BY <2>1 DEF LedgerInit, CapsKept
  <2> QED
    BY <2>2, <2>3
<1>2. Amounts /\ CapsKept /\ [LedgerNext]_budgetVars => Amounts' /\ CapsKept'
  <2> SUFFICES ASSUME Amounts, CapsKept, [LedgerNext]_budgetVars PROVE Amounts' /\ CapsKept'
    OBVIOUS
  <2>1. CASE \E n \in BudgetNodes, m \in Models, cost \in Prices, t \in AttemptSeconds :
                Reserve(n, m, cost, t)
    BY <2>1, ReserveKeeps
  <2>2. CASE \E r \in Closable : \/ \E charged \in Prices, over \in BOOLEAN : Settles(r, charged, over)
                                 \/ ConsumeTimeout(r)
    <3>1. PICK r \in held : \/ \E charged \in Prices, over \in BOOLEAN : Settles(r, charged, over)
                            \/ ConsumeTimeout(r)
      BY <2>2 DEF Closable
    <3>2. CASE \E charged \in Prices, over \in BOOLEAN : Settles(r, charged, over)
      <4>1. PICK charged \in Prices, over \in BOOLEAN : Close(r, charged, over, FALSE)
        BY <3>2, Zenon DEF Settles
      <4>2. charged \in Int
        BY PriceTypes
      <4> QED
        BY <4>1, <4>2, CloseKeeps, Zenon
    <3>3. CASE ConsumeTimeout(r)
      <4>1. r.cost \in Int
        BY DEF Amounts
      <4> QED
        BY <3>3, <4>1, CloseKeeps DEF ConsumeTimeout
    <3> QED
      BY <3>1, <3>2, <3>3
  <2>3. CASE SecondPasses \/ UNCHANGED budgetVars
    <3>1. /\ UNCHANGED <<held, reserved, settled, attempts, nodeBudget, overdrawn>>
          /\ second' = second + 1 \/ second' = second
      BY <2>3 DEF SecondPasses, budgetVars
    <3> QED
      BY <3>1 DEF Amounts, CapsKept
  <2> QED
    BY <2>1, <2>2, <2>3 DEF LedgerNext
<1> QED
  BY <1>1, <1>2, PTL DEF LedgerSpec

-----------------------------------------------------------------------------
(* One receipt per call.  Identities are drawn in order.                   *)

Numbered ==
  /\ attempts \in Nat
  /\ \A r \in held : r.id \in Nat /\ r.id <= attempts
  /\ \A x \in receipts : x.id \in Nat /\ x.id <= attempts

\* A reservation gets a new identity ...
LEMMA ReserveNumbers ==
  ASSUME Numbered, OneReceipt, NEW n, NEW m, NEW cost, NEW t, Reserve(n, m, cost, t)
  PROVE  Numbered' /\ OneReceipt'
<1> DEFINE r == [id |-> attempts + 1, node |-> n, model |-> m, cost |-> cost]
<1>1. /\ held' = held \cup {r} /\ r.id = attempts + 1
      /\ attempts' = attempts + 1 /\ receipts' = receipts
  BY DEF Reserve
<1> HIDE DEF r
<1> QED
  BY <1>1 DEF Numbered, OneReceipt

\* ... which closing it moves to its receipt.
LEMMA CloseNumbers ==
  ASSUME Numbered, OneReceipt, NEW r \in held, NEW charged, NEW over, NEW late,
         Close(r, charged, over, late)
  PROVE  Numbered' /\ OneReceipt'
<1> DEFINE x == [id |-> r.id, node |-> r.node, model |-> r.model,
                 cost |-> r.cost, charged |-> charged, late |-> late]
<1>1. /\ held' = held \ {r} /\ receipts' = receipts \cup {x} /\ x.id = r.id
      /\ attempts' = attempts
  BY DEF Close
<1> HIDE DEF x
<1> QED
  BY <1>1 DEF Numbered, OneReceipt

\* However answers and timeouts race for the reservations of a run, no call is
\* charged twice and none is open and charged (_active_reservation, _close).
THEOREM ChargedOnce == LedgerSpec => []OneReceipt
<1>1. LedgerInit => Numbered /\ OneReceipt
  BY DEF LedgerInit, Numbered, OneReceipt
<1>2. Numbered /\ OneReceipt /\ [LedgerNext]_budgetVars => Numbered' /\ OneReceipt'
  <2> SUFFICES ASSUME Numbered, OneReceipt, [LedgerNext]_budgetVars
               PROVE  Numbered' /\ OneReceipt'
    OBVIOUS
  <2>1. CASE \E n \in BudgetNodes, m \in Models, cost \in Prices, t \in AttemptSeconds :
                Reserve(n, m, cost, t)
    BY <2>1, ReserveNumbers
  <2>2. CASE \E r \in Closable : \/ \E charged \in Prices, over \in BOOLEAN : Settles(r, charged, over)
                                 \/ ConsumeTimeout(r)
    BY <2>2, CloseNumbers, Zenon DEF Closable, Settles, ConsumeTimeout
  <2>3. CASE SecondPasses \/ UNCHANGED budgetVars
    BY <2>3 DEF SecondPasses, budgetVars, Numbered, OneReceipt
  <2> QED
    BY <2>1, <2>2, <2>3 DEF LedgerNext
<1> QED
  BY <1>1, <1>2, PTL DEF LedgerSpec
=============================================================================
