--------------------------- MODULE ProxyFailover ---------------------------
(***************************************************************************)
(* Fetching a source through a proxy group and moving the group to another *)
(* node when the source refuses (watchers/proxy_failover.py,               *)
(* fetch_with_retries in watchers/common.py and the loops of the MNI and   *)
(* Truth Social watchers).                                                 *)
(*                                                                         *)
(* Several watchers may use one group of the proxy controller.  A rotation *)
(* reads the group, decides (probing the nodes takes seconds) and then     *)
(* sets it: another watcher may have moved the group in between.           *)
(***************************************************************************)
EXTENDS Naturals, Sequences, SequencesExt

CONSTANTS
  Feeds,         \* watchers that fetch through the group
  Probing,       \* watchers that have a health check address
  NodeOrder,     \* the group's nodes, in the controller's order
  Nested,        \* the node a nested group in the group points at
  MaxRotations, RetryCount,
  Serving,       \* sets of nodes through which the source may answer at first
  MaxUpsets      \* bound: nodes that change, calls of the controller that fail

GroupNodes == Range(NodeOrder)
NestedGroup == "auto"                 \* the nested group, a member of the group

ASSUME FailoverAssumption ==
  /\ NodeOrder # <<>> /\ NodeOrder \in Seq(GroupNodes) /\ IsInjective(NodeOrder)
  /\ Nested \in GroupNodes /\ NestedGroup \notin GroupNodes
  /\ Probing \subseteq Feeds /\ Serving \subseteq SUBSET GroupNodes
  /\ {MaxRotations, RetryCount, MaxUpsets} \subseteq Nat

VARIABLES
  chosen,      \* what the group points at, in the controller
  working,     \* nodes through which the source answers
  fetch,       \* fetch[f]: the fetch of f and where it stands
  upsets

proxyVars == <<chosen, working, fetch, upsets>>

FeedKinds == {"plain", "mni", "truth"}     \* plain: fetch_with_retries
NotFetching(kind) ==
  [kind |-> kind, at |-> "idle", try |-> 1, rotations |-> 0, error |-> FALSE,
   cause |-> "none", left |-> <<>>, target |-> NestedGroup, original |-> NestedGroup,
   found |-> NestedGroup, alone |-> TRUE, mood |-> "calm"]     \* the last three: ghost
(* Whether anything disturbed a fetch: a node that changed or an error no  *)
(* rotation is for, or a call of the controller that failed.               *)
Upset(mood) == IF mood = "disobeyed" THEN mood ELSE "upset"

ProxyTypeOK ==
  /\ chosen \in GroupNodes \cup {NestedGroup} /\ working \subseteq GroupNodes
  /\ \A f \in Feeds : /\ fetch[f].kind \in FeedKinds
                      /\ fetch[f].rotations \in 0..MaxRotations
                      /\ fetch[f].target \in GroupNodes \cup {NestedGroup}

ProxyInit ==
  /\ chosen \in GroupNodes \cup {NestedGroup} /\ working \in Serving
  /\ fetch \in [Feeds -> {NotFetching(k) : k \in FeedKinds}] /\ upsets = 0

-----------------------------------------------------------------------------
Behind == IF chosen = NestedGroup THEN Nested ELSE chosen     \* _resolve_nested_current_selection

(* _ordered_failover_candidates: the nodes after the current one, then the *)
(* ones before it.                                                         *)
Ordered(node) ==
  LET i == CHOOSE k \in DOMAIN NodeOrder : NodeOrder[k] = node
  IN SubSeq(NodeOrder, i + 1, Len(NodeOrder)) \o SubSeq(NodeOrder, 1, i - 1)

(* rotate_to_next_node's choice: the fastest node the probe finds, any of  *)
(* them as far as the watcher knows, else the next in order.               *)
MoveTargets(f) ==
  LET candidates == Ordered(Behind)
  IN IF candidates = <<>> THEN {Head(NodeOrder)}
     ELSE {Head(candidates)} \cup IF f \in Probing THEN Range(candidates) ELSE {}

Goes(f, r) == fetch' = [fetch EXCEPT ![f] = r]
Ends(r, result) == [NotFetching(r.kind) EXCEPT !.at = result, !.found = r.found,
                                                !.alone = r.alone, !.mood = r.mood]

(* set_selector: the group moves, under the feet of every other fetch.     *)
Moves(f, node, r) ==
  /\ chosen' = node
  /\ fetch' = [g \in Feeds |-> IF g = f THEN r ELSE [fetch[g] EXCEPT !.alone = FALSE]]

(* A call of the controller fails.                                         *)
Refuses == upsets < MaxUpsets /\ upsets' = upsets + 1

-----------------------------------------------------------------------------
MaxFetches == IF MaxRotations + 1 > RetryCount THEN MaxRotations + 1 ELSE RetryCount

(* A fetch begins.  The MNI watcher first tries without the proxy.         *)
Start(f) ==
  /\ fetch[f].at = "idle"
  /\ \/ Goes(f, [fetch[f] EXCEPT !.at = "request", !.found = chosen, !.alone = TRUE, !.mood = "calm"])
     \/ fetch[f].kind = "mni" /\ Goes(f, Ends(fetch[f], "answered"))
  /\ UNCHANGED <<chosen, working, upsets>>

(* fetch_with_retries: what follows an attempt that ended in neither an    *)
(* answer nor a rotation.  The backoff gives up when the poll's time is    *)
(* over, and a last attempt raises.                                        *)
Backoff(r) ==
  IF r.try < MaxFetches THEN {[r EXCEPT !.at = "request", !.try = @ + 1, !.cause = "none",
                                     !.target = NestedGroup], Ends(r, "late")}
  ELSE {Ends(r, "raised")}

(* One request.  A status that calls for failover comes back as a          *)
(* response, everything else that is wrong as an exception.  Through any   *)
(* node an error may come that no rotation is for, or the poll's time may  *)
(* be over: a plain fetch backs off or is late, a truth fetch raises at    *)
(* once, and the MNI watcher takes it for the node's and goes on to the    *)
(* next, asking none of them once the time is over.                        *)
Walks(r) ==
  [r EXCEPT !.error = TRUE,
            !.at = IF MaxRotations = 0 THEN "raised" ELSE IF r.try = 1 THEN "survey" ELSE "next"]
Astray(f) ==
  LET r == [fetch[f] EXCEPT !.error = TRUE, !.mood = Upset(@)] IN
  \/ r.kind = "plain" /\ \E b \in Backoff(r) \cup {Ends(r, "late")} : Goes(f, b)
  \/ r.kind = "truth" /\ Goes(f, Ends(r, "raised"))
  \/ r.kind = "mni" /\ \E c \in {r.cause, "over"} : Goes(f, Walks([r EXCEPT !.cause = c]))
TurnedAway(f) ==
  LET r == fetch[f] IN
  \/ r.kind = "truth" /\ Goes(f, [r EXCEPT !.error = TRUE,
                                           !.at = IF r.try > MaxRotations THEN "raised" ELSE "rotate"])
  \/ r.kind = "mni" /\ Goes(f, Walks(r))
  \/ /\ r.kind = "plain"
     /\ \E cause \in {"status", "error"} :
          LET s == [r EXCEPT !.error = @ \/ cause = "error", !.cause = cause]
          IN IF r.rotations < MaxRotations THEN Goes(f, [s EXCEPT !.at = "rotate"])
             ELSE \E b \in Backoff([s EXCEPT !.error = @ \/ r.try = MaxFetches]) : Goes(f, b)
Request(f) ==
  /\ fetch[f].at = "request"
  /\ \/ Behind \in working /\ fetch[f].cause # "over" /\ Goes(f, Ends(fetch[f], "answered"))
     \/ Behind \notin working /\ TurnedAway(f)
     \/ Astray(f)
  /\ UNCHANGED <<chosen, working, upsets>>

(* rotate_to_next_node reads the group ...                                 *)
Reads(f) ==
  /\ fetch[f].at = "rotate"
  /\ \E t \in MoveTargets(f) : Goes(f, [fetch[f] EXCEPT !.at = "set", !.target = t])
  /\ UNCHANGED <<chosen, working, upsets>>
(* ... and moves it.  The attempt in hand is over: the loop goes on with   *)
(* the next one, if there is one.                                          *)
AfterRotation(r) ==
  LET s == [r EXCEPT !.rotations = @ + 1, !.try = @ + 1, !.at = "request", !.cause = "none",
                     !.target = NestedGroup]
  IN IF r.try < MaxFetches THEN s ELSE Ends(s, IF s.error THEN "raised" ELSE "asserted")
Sets(f) ==
  /\ fetch[f].at = "set"
  /\ Moves(f, fetch[f].target, AfterRotation(fetch[f]))
  /\ UNCHANGED <<working, upsets>>

(* A rotation that failed.  A truth fetch gives up; a plain one backs off, *)
(* but on its last attempt raise_for_status turns the status into an       *)
(* exception, which asks for a rotation once more.                         *)
RotationFails(f) ==
  LET r == [fetch[f] EXCEPT !.mood = "disobeyed"] IN
  /\ r.at \in {"rotate", "set"} /\ Refuses
  /\ IF fetch[f].kind = "truth" THEN Goes(f, Ends(r, "raised"))
     ELSE IF r.cause = "status" /\ r.try = MaxFetches
          THEN Goes(f, [r EXCEPT !.at = "rotate", !.cause = "error", !.error = TRUE])
          ELSE \E b \in Backoff(r) : Goes(f, b)
  /\ UNCHANGED <<chosen, working>>

-----------------------------------------------------------------------------
(* The MNI watcher walks the candidates it saw once, and puts the group    *)
(* back when none of them served.                                          *)
Survey(f) ==
  LET r == fetch[f] IN
  /\ r.at = "survey"
  /\ \/ /\ LET candidates == Ordered(Behind) IN
           Goes(f, [r EXCEPT !.at = "next", !.original = chosen, !.try = 2,
                             !.left = SubSeq(candidates, 1, IF Len(candidates) < MaxRotations
                                                            THEN Len(candidates) ELSE MaxRotations)])
        /\ UNCHANGED upsets
     \/ Refuses /\ Goes(f, Ends([r EXCEPT !.mood = "disobeyed"], "raised"))
  /\ UNCHANGED <<chosen, working>>
NextCandidate(f) ==
  LET r == fetch[f] IN
  /\ r.at = "next" /\ r.left # <<>>
  /\ LET s == [r EXCEPT !.left = Tail(@)]
     IN \/ Moves(f, Head(r.left), [s EXCEPT !.at = "request", !.rotations = @ + 1]) /\ UNCHANGED upsets
        \/ Refuses /\ Goes(f, [s EXCEPT !.mood = "disobeyed"]) /\ UNCHANGED chosen
  /\ UNCHANGED working
PutsBack(r) == r.original
NoneServed(f) ==
  LET r == fetch[f] IN
  /\ r.at = "next" /\ r.left = <<>>
  /\ \/ Moves(f, PutsBack(r), Ends(r, "raised")) /\ UNCHANGED upsets
     \/ Refuses /\ Goes(f, Ends([r EXCEPT !.mood = "disobeyed"], "raised")) /\ UNCHANGED chosen
  /\ UNCHANGED working

(* A node starts or stops serving the source.                              *)
NodeChanges ==
  /\ upsets < MaxUpsets /\ upsets' = upsets + 1
  /\ \E n \in GroupNodes : working' = IF n \in working THEN working \ {n} ELSE working \cup {n}
  /\ fetch' = [f \in Feeds |-> [fetch[f] EXCEPT !.mood = Upset(@)]]
  /\ UNCHANGED chosen

FeedStep(f) == \/ Start(f) \/ Request(f) \/ Reads(f) \/ Sets(f) \/ RotationFails(f)
               \/ Survey(f) \/ NextCandidate(f) \/ NoneServed(f)
ProxyNext == NodeChanges \/ \E f \in Feeds : FeedStep(f)

(* A watcher goes on: its requests and the controller's have timeouts.      *)
ProxyFair == \A f \in Feeds : WF_proxyVars(FeedStep(f))
ProxySpec == ProxyInit /\ [][ProxyNext]_proxyVars /\ ProxyFair

-----------------------------------------------------------------------------
(* A fetch that nothing disturbed (no other watcher moved the group, no    *)
(* node changed, every call of the controller worked, every failure was of *)
(* a kind that rotates, and the poll's time lasted) and that may rotate    *)
(* through the whole group gives up only when no node serves the source.   *)
(* It holds without a health check: the probe picks the fastest node that  *)
(* answers it, and two fast nodes the source refuses keep the slower one   *)
(* that works from ever being tried.                                       *)
GivesUpLast ==
  \A f \in Feeds \ Probing :
    /\ fetch[f].at = "raised" /\ fetch[f].alone /\ fetch[f].mood = "calm"
    /\ MaxRotations + 1 >= Len(NodeOrder)
    => working = {}

(* An MNI fetch that raises leaves the group where it was when the fetch   *)
(* began, a nested group included and also when its time was over or nodes *)
(* changed, unless a call of the controller failed or another watcher      *)
(* moved the group meanwhile.                                              *)
PutBack ==
  \A f \in Feeds : /\ fetch[f].kind = "mni" /\ fetch[f].at = "raised"
                   /\ fetch[f].alone /\ fetch[f].mood # "disobeyed"
                   => chosen = fetch[f].found

(* Every fetch ends, whatever the nodes, the controller and the other      *)
(* watchers of the group do: rotations and backoffs use up its attempts.   *)
FetchEnds == \A f \in Feeds : fetch[f].at = "request" ~> fetch[f].at \in {"answered", "raised", "late", "asserted"}

=============================================================================
