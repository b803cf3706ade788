----------------------------- MODULE MCServices -----------------------------
(***************************************************************************)
(* The services around the trading loop that share no state with each      *)
(* other, on small instances: a behaviour runs one of them, and the others *)
(* stay as they started.                                                   *)
(***************************************************************************)
EXTENDS WebTrade, AgentDriver, WorkItems, WorkflowGraph, BudgetLedger,
        NewsMemory, TrendFetch, SoftStopPoller

VARIABLE part      \* the service that runs

services == <<web, driver, workVars, graphVars, budgetVars, newsVars, trendVars, pollerVars, part>>

ServicesInit ==
  /\ part \in {"web", "driver", "work", "graph", "budget", "news", "trend", "poller"}
  /\ WebInit /\ DriverInit /\ WorkInit /\ GraphInit /\ LedgerInit
  /\ NewsInit /\ (part # "news" => symbol = CHOOSE i \in Instruments : TRUE)
  /\ TrendInit /\ (part # "trend" => tape = CHOOSE t \in Tapes : TRUE)
               /\ (part # "trend" => minute + 1 = Needed)
  /\ PollerInit /\ watched = CHOOSE s \in Watchable : TRUE

ServicesNext ==
  \/ /\ part = "web" /\ WebNext
     /\ UNCHANGED <<driver, workVars, graphVars, budgetVars, newsVars, trendVars, pollerVars, part>>
  \/ /\ part = "driver" /\ DriverNext
     /\ UNCHANGED <<web, workVars, graphVars, budgetVars, newsVars, trendVars, pollerVars, part>>
  \/ /\ part = "work" /\ WorkNext
     /\ UNCHANGED <<web, driver, graphVars, budgetVars, newsVars, trendVars, pollerVars, part>>
  \/ /\ part = "graph" /\ GraphNext
     /\ UNCHANGED <<web, driver, workVars, budgetVars, newsVars, trendVars, pollerVars, part>>
  \/ /\ part = "budget" /\ LedgerNext
     /\ UNCHANGED <<web, driver, workVars, graphVars, newsVars, trendVars, pollerVars, part>>
  \/ /\ part = "news" /\ NewsNext
     /\ UNCHANGED <<web, driver, workVars, graphVars, budgetVars, trendVars, pollerVars, part>>
  \/ /\ part = "trend" /\ TrendNext
     /\ UNCHANGED <<web, driver, workVars, graphVars, budgetVars, newsVars, pollerVars, part>>
  \/ /\ part = "poller" /\ PollerNext
     /\ UNCHANGED <<web, driver, workVars, graphVars, budgetVars, newsVars, trendVars, part>>

ServicesSpec == ServicesInit /\ [][ServicesNext]_services

-----------------------------------------------------------------------------
(* The web trade service: the profit it shows counts every hidden close    *)
(* once, and a rebalance it calls complete left the position at its target.*)
TradesExact == (part = "web" => WebTypeOK) /\ CarriedExact /\ ReopenedAtTarget

(* The model calls of a run: every dollar promised or charged belongs to   *)
(* one call, an invocation stays within its limit, and a half-open circuit *)
(* is always waiting for a probe that is on its way.                       *)
SpendingSound ==
  /\ part = "budget" => LedgerTypeOK
  /\ part = "driver" => DriverTypeOK
  /\ Conserved /\ WithinLimit /\ ProbeSettled

(* The coordinated graph and the work items: the kernel never refuses a    *)
(* checkpoint the graph builds, a tradeable result was cleared to the end, *)
(* recovery stays inside its attempts, and a retry follows a stale attempt.*)
WorkSound ==
  /\ part = "graph" => GraphTypeOK
  /\ Agreed /\ Cleared /\ WithinTries /\ RetryEarned

(* The news memory: what the checkpoint hides is known, what was traded is *)
(* shown to later judgements, and a restart rebuilds the buffer.           *)
NewsKept == HiddenIsKnown /\ TradedIsRemembered /\ LogRebuilds

(* The market data of other assets: bars are whole, of the market they are *)
(* labelled with and always of the same one, and a stop is loosened only   *)
(* by a fresh price and a move that was quoted.                            *)
MarketHonest == WholeWindow /\ LabelHonest /\ SameMarket /\ FreshPrices /\ PeakEarned

(* Nothing superseded comes back: an answer resting on an expired memory,  *)
(* a write under an older epoch, a move of work whose run has ended.       *)
NothingRevived == MemoryStillValid /\ EpochsNeverFall /\ Sealed

-----------------------------------------------------------------------------
(* The driver's tiers cost 1 and 2.                                        *)
TierCosts == [t \in 1..2 |-> t]

(* Two coordinated tasks, and the answers a task may come back with.       *)
TwoTasks == <<"t1", "t2">>
TaskReplies == {[status |-> "long", tries |-> 1], [status |-> "short", tries |-> 1],
                [status |-> "failed", tries |-> 2], [status |-> "fatal", tries |-> 0],
                [status |-> "uncertain", tries |-> 1], [status |-> "conflict", tries |-> 1]}

(* Gold is listed on both dexes, oil on one of them.                       *)
Mk(d, n) == [dex |-> d, name |-> n]
TwoDexes == <<"", "xyz">>
Listings == [d \in {"", "xyz"} |-> IF d = "" THEN {"GOLD", "BTC"} ELSE {"GOLD", "OIL"}]
TrendRoutes == [q \in Asked |-> CASE q = "dxy" -> "dollar" [] q = "us10y" -> "futures" [] q = "usdcad" -> "forex"
                             [] q = "cper" -> "quote" [] q = "vix" -> "refused" [] OTHER -> "exchange"]
Aliases == [q \in Asked |-> IF q = "gold" THEN <<"GOLD">> ELSE <<>>]
ExactNames == [q \in Asked |-> CASE q = "gold" -> <<Mk("", "GOLD"), Mk("xyz", "GOLD")>>
                                 [] q = "oil" -> <<Mk("xyz", "OIL")>> [] OTHER -> <<>>]
Resembling == [q \in Asked |-> IF q = "oil" THEN <<Mk("", "BTC")>> ELSE <<>>]
Texts == [q \in Asked |-> IF q = "oil" THEN Mk("", "OIL") ELSE Mk("", "GOLD")]
(* Seven minutes that go up and down, any of which may have no bar.        *)
UpAndDown == <<4, 6, 2, 5, 3, 7, 1>>
SevenMinutes == {[t \in 0..6 |-> IF t \in missing THEN 0 ELSE UpAndDown[t + 1]] : missing \in SUBSET (0..6)}
=============================================================================
