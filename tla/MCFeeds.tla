------------------------------- MODULE MCFeeds ------------------------------
(***************************************************************************)
(* The components that bring something in from outside and promise that it *)
(* arrives, on small instances.  They share no state: a behaviour runs one *)
(* of them, under its own fairness, and the others stay as they started.   *)
(***************************************************************************)
EXTENDS SourceWatch, RedisBus, ModelCalls, ProxyFailover

VARIABLE part      \* the component that runs

feeds == <<watchVars, bus, callVars, proxyVars, part>>

(* A node or the nested group is selected, and beside a watcher of any     *)
(* kind runs the Truth Social watcher, which has a health check.           *)
FeedsInit ==
  /\ part \in {"watch", "bus", "calls", "proxy"}
  /\ WatchInit /\ (part # "watch" => kind = "page")
  /\ BusInit /\ CallsInit
  /\ ProxyInit /\ chosen \in {NestedGroup, Head(NodeOrder)} /\ \A f \in Probing : fetch[f].kind = "truth"
  /\ part # "proxy" => /\ chosen = NestedGroup /\ working = {}
                       /\ fetch = [f \in Feeds |-> NotFetching("truth")]

FeedsNext ==
  \/ /\ part = "watch" /\ WatchNext
     /\ UNCHANGED <<bus, callVars, proxyVars, part>>
  \/ /\ part = "bus" /\ BusNext
     /\ UNCHANGED <<watchVars, callVars, proxyVars, part>>
  \/ /\ part = "calls" /\ CallsNext
     /\ UNCHANGED <<watchVars, bus, proxyVars, part>>
  \/ /\ part = "proxy" /\ ProxyNext
     /\ UNCHANGED <<watchVars, bus, callVars, part>>

(* WatchFair, BusFair, CallsFair and ProxyFair, each where its component   *)
(* runs.                                                                   *)
FeedsSpec ==
  /\ FeedsInit /\ [][FeedsNext]_feeds
  /\ WF_watchVars(part = "watch" /\ MainLoop) /\ WF_watchVars(part = "watch" /\ Fetches)
  /\ WF_watchVars(part = "watch" /\ AgentPolls) /\ WF_watchVars(part = "watch" /\ AgentSeeks)
  /\ \A c \in Names : WF_bus(part = "bus" /\ Loop(c))
  /\ \A i \in Ids : WF_bus(part = "bus" /\ GoesIdle(i))
  /\ WF_callVars(part = "calls" /\ QueryGoesOn) /\ WF_callVars(part = "calls" /\ CallReturns)
  /\ \A i \in {1, 2} : WF_callVars(part = "calls" /\ SampleRuns(i))
  /\ \A f \in Feeds : WF_proxyVars(part = "proxy" /\ FeedStep(f))

(* Every item the source publishes becomes known to the agent, through     *)
(* timeouts, failed fetches, crashes of the watcher at any point and       *)
(* restarts of the agent, unless its line was broken or fell into the gap  *)
(* of an agent's start.  It is about the default warmup, emit_recent:      *)
(* mark_seen keeps the items of a start to itself.                         *)
EveryItemHeard ==
  \A i \in Items : (part = "watch" /\ published >= i) ~> (i \in known \cup unheard)

(* What comes in is neither lost nor counted twice: an event is written    *)
(* once, a message is settled only when handled or put aside, a consumer   *)
(* that calls itself healthy has settled its messages, an event is judged  *)
(* once and traded on at a discount, and a proxy group is given up last    *)
(* and put back.                                                           *)
FeedsSound ==
  /\ part = "watch" => WrittenOnce
  /\ part = "bus" => BusTypeOK /\ NotLost /\ HealthHonest
  /\ part = "calls" => TradesDiscounted /\ JudgedOnce
  /\ part = "proxy" => ProxyTypeOK /\ GivesUpLast /\ PutBack

(* What comes in arrives: an item is heard by the agent, a message         *)
(* settled, a query answered, and a fetch ends.                            *)
FeedsServe == EveryItemHeard /\ EverySettled /\ QueryReturns /\ FetchEnds

-----------------------------------------------------------------------------
(* Three proxy nodes, of which the last one or none serves.                *)
ThreeNodes == <<"a", "b", "c">>
LastOrNone == {{}, {"c"}}
=============================================================================
