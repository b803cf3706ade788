------------------------------ MODULE RedisBus ------------------------------
(***************************************************************************)
(* The Redis message bus (backend/redis_adapters.py): one topic, one       *)
(* consumer group, several consumers.  Redis keeps the stream, the id the  *)
(* group was last delivered, and the pending entries with their owners.    *)
(*                                                                         *)
(* A consumer's loop reads its own pending entries first, then claims what *)
(* others left idle, and only then asks for new messages; it handles the   *)
(* batch one message at a time and acknowledges it, or dead-letters it     *)
(* with two calls.  Every call may fail, before or after Redis applied it; *)
(* a consumer that dies comes back under another name.                     *)
(***************************************************************************)
EXTENDS Integers, FiniteSets, SequencesExt

CONSTANTS
  Names,        \* consumer names, each used by one life of a process
  MaxSent,      \* bound: messages published
  Refused,      \* the ids whose handler fails for good
  PollCount,    \* messages asked for at once (_PENDING_BATCH_SIZE)
  MaxOutages,   \* bound: Redis calls that fail
  MaxTransient, \* bound: handler failures that are retried
  MaxDeaths     \* bound: consumers that die or are stopped

NoOwner == "none"

ASSUME BusAssumption ==
  /\ MaxDeaths < Cardinality(Names) /\ NoOwner \notin Names
  /\ MaxSent \in Nat /\ PollCount \in Nat \ {0}

VARIABLES
  sent,         \* the last id of the stream
  given,        \* the last id delivered to the group
  pel,          \* id -> the consumer it is pending with, or NoOwner
  idle,         \* pending ids not touched for _PENDING_IDLE_MS
  acked,        \* acknowledged ids
  handled, deadLetters,   \* id -> how often handled, dead-lettered
  con,          \* name -> the consumer thread
  outages, transients, deaths

bus == <<sent, given, pel, idle, acked, handled, deadLetters, con, outages, transients, deaths>>

Ids == 1..MaxSent
NewConsumer == [at |-> "new", batch |-> <<>>, cursor |-> 0, unresolved |-> {}, degraded |-> FALSE]
Running == {"owned", "claim", "read", "handle", "ack", "dead", "dead_ack"}

BusTypeOK ==
  /\ sent \in 0..MaxSent /\ given \in 0..sent /\ acked \subseteq 1..given /\ idle \subseteq Ids
  /\ \A i \in Ids : pel[i] # NoOwner => pel[i] \in Names /\ i \in 1..given \ acked
  /\ \A c \in Names : con[c].at \in Running \cup {"new", "gone"} /\ con[c].cursor \in 0..MaxSent

BusInit ==
  /\ sent = 0 /\ given = 0 /\ pel = [i \in Ids |-> NoOwner] /\ idle = {} /\ acked = {}
  /\ handled = [i \in Ids |-> 0] /\ deadLetters = [i \in Ids |-> 0]
  /\ con = [c \in Names |-> NewConsumer]
  /\ outages = 0 /\ transients = 0 /\ deaths = 0

-----------------------------------------------------------------------------
(* What Redis answers: the first of the ids s in their order, at most      *)
(* PollCount of them.                                                      *)
AtMost(n) == IF n < PollCount THEN n ELSE PollCount
First(s) ==
  {q \in [1..AtMost(Cardinality(s)) -> s] :
     /\ \A i, j \in DOMAIN q : i < j => q[i] < q[j]
     /\ \A k \in s \ ToSet(q) : \A i \in DOMAIN q : q[i] < k}
Take(c, s) ==
  /\ pel' = [i \in Ids |-> IF i \in s THEN c ELSE pel[i]]
  /\ idle' = idle \ s
Turns(c, x) == con' = [con EXCEPT ![c] = x]
BusPass(c, batch, at) == Turns(c, [con[c] EXCEPT !.batch = batch, !.at = at])

XAdd == /\ sent < MaxSent /\ sent' = sent + 1
        /\ UNCHANGED <<given, pel, idle, acked, handled, deadLetters, con, outages, transients, deaths>>

(* subscribe starts the thread; the group exists or is created.            *)
Subscribe(c) ==
  /\ con[c].at = "new" /\ Turns(c, [con[c] EXCEPT !.at = "owned"])
  /\ UNCHANGED <<sent, given, pel, idle, acked, handled, deadLetters, outages, transients, deaths>>

(* What this consumer was delivered and never acknowledged comes first.    *)
Owned(c) == {i \in Ids : pel[i] = c}
ReadOwned(c) ==
  /\ con[c].at = "owned"
  /\ IF Owned(c) # {} THEN \E q \in First(Owned(c)) : BusPass(c, q, "handle")
                      ELSE BusPass(c, <<>>, "claim")
  /\ UNCHANGED <<sent, given, pel, idle, acked, handled, deadLetters, outages, transients, deaths>>

(* xautoclaim scans from the cursor the last scan returned, and returns 0  *)
(* when it reached the end.                                                *)
NextCursor(from, taken) ==
  LET rest == {i \in Ids : pel[i] # NoOwner /\ i > from /\ \A j \in taken : i > j}
  IN IF taken = {} \/ rest = {} THEN 0 ELSE Max(taken)
Ripe(c) == {i \in idle : i > con[c].cursor /\ pel[i] # NoOwner}
Claim(c) ==
  /\ con[c].at = "claim"
  /\ \E q \in First(Ripe(c)) :
       /\ Take(c, ToSet(q))
       /\ Turns(c, [con[c] EXCEPT !.batch = q, !.cursor = NextCursor(con[c].cursor, ToSet(q)),
                                  !.at = IF q = <<>> THEN "read" ELSE "handle"])
  /\ UNCHANGED <<sent, given, acked, handled, deadLetters, outages, transients, deaths>>

(* The group is delivered the next messages of the stream.                 *)
Fresh == AtMost(sent - given)
Deliver(c) == Take(c, given + 1..given + Fresh) /\ given' = given + Fresh
ReadNew(c) ==
  /\ con[c].at = "read" /\ Deliver(c) /\ BusPass(c, [i \in 1..Fresh |-> given + i], "handle")
  /\ UNCHANGED <<sent, acked, handled, deadLetters, outages, transients, deaths>>

-----------------------------------------------------------------------------
(* The batch.  A transient error ends the pass, and the message is first   *)
(* again in the next one.                                                  *)
Active(c) == Head(con[c].batch)
Handled(c) ==
  LET m == Active(c)
  IN /\ con[c].at = "handle" /\ con[c].batch # <<>>
     /\ \/ /\ m \notin Refused /\ handled' = [handled EXCEPT ![m] = @ + 1]
           /\ BusPass(c, con[c].batch, "ack") /\ UNCHANGED transients
        \/ /\ m \in Refused /\ BusPass(c, con[c].batch, "dead") /\ UNCHANGED <<handled, transients>>
        \/ /\ transients < MaxTransient /\ transients' = transients + 1
           /\ Turns(c, [con[c] EXCEPT !.unresolved = @ \cup {m}, !.degraded = TRUE,
                                      !.batch = <<>>, !.at = "owned"])
           /\ UNCHANGED handled
     /\ UNCHANGED <<sent, given, pel, idle, acked, deadLetters, outages, deaths>>

Settle(m) ==
  /\ acked' = acked \cup {m} /\ pel' = [pel EXCEPT ![m] = NoOwner] /\ idle' = idle \ {m}
Resolved(c) ==
  Turns(c, [con[c] EXCEPT !.unresolved = @ \ {Active(c)}, !.batch = Tail(@), !.at = "handle"])
Ack(c) ==
  /\ con[c].at = "ack" /\ Settle(Active(c)) /\ Resolved(c)
  /\ UNCHANGED <<sent, given, handled, deadLetters, outages, transients, deaths>>

\* Mutant: the message is acknowledged before it is a dead letter.
DeadLetter_AckFirst(c) ==
  /\ con[c].at = "dead" /\ Settle(Active(c)) /\ BusPass(c, con[c].batch, "dead_ack")
  /\ UNCHANGED <<sent, given, handled, deadLetters, outages, transients, deaths>>
DeadLetter(c) ==
  /\ con[c].at = "dead" /\ deadLetters' = [deadLetters EXCEPT ![Active(c)] = @ + 1]
  /\ BusPass(c, con[c].batch, "dead_ack")
  /\ UNCHANGED <<sent, given, pel, idle, acked, handled, outages, transients, deaths>>
DeadLetterAck(c) ==
  /\ con[c].at = "dead_ack" /\ Settle(Active(c)) /\ Resolved(c)
  /\ UNCHANGED <<sent, given, handled, deadLetters, outages, transients, deaths>>

(* A pass that met no failure ends; the consumer is healthy when nothing   *)
(* it failed to settle is left.                                            *)
EndBusPass(c) ==
  /\ con[c].at = "handle" /\ con[c].batch = <<>>
  /\ Turns(c, [con[c] EXCEPT !.at = "owned", !.degraded = @ /\ con[c].unresolved # {}])
  /\ UNCHANGED <<sent, given, pel, idle, acked, handled, deadLetters, outages, transients, deaths>>

(* A call fails: Redis may have applied it, and only the answer is lost.   *)
Settling(c) == con[c].at \in {"ack", "dead", "dead_ack"}
Outage(c) ==
  /\ con[c].at \in Running \ {"handle"} /\ outages < MaxOutages /\ outages' = outages + 1
  /\ Turns(c, [con[c] EXCEPT !.unresolved = IF Settling(c) THEN @ \cup {Active(c)} ELSE @,
                             !.degraded = TRUE, !.batch = <<>>, !.at = "owned"])
  /\ \/ UNCHANGED <<pel, idle, acked, given, deadLetters>>
     \/ /\ con[c].at \in {"ack", "dead_ack"} /\ Settle(Active(c)) /\ UNCHANGED <<given, deadLetters>>
     \/ /\ con[c].at = "dead" /\ deadLetters' = [deadLetters EXCEPT ![Active(c)] = @ + 1]
        /\ UNCHANGED <<pel, idle, acked, given>>
     \/ con[c].at = "read" /\ Deliver(c) /\ UNCHANGED <<acked, deadLetters>>
     \/ /\ con[c].at = "claim" /\ \E q \in First(Ripe(c)) : Take(c, ToSet(q))
        /\ UNCHANGED <<acked, given, deadLetters>>
  /\ UNCHANGED <<sent, handled, transients, deaths>>

(* close or unsubscribe at the checks of the loop, or the process dies.    *)
Gone(c) ==
  /\ con[c].at \in Running /\ deaths < MaxDeaths /\ deaths' = deaths + 1
  /\ Turns(c, [NewConsumer EXCEPT !.at = "gone"])
  /\ UNCHANGED <<sent, given, pel, idle, acked, handled, deadLetters, outages, transients>>

(* A pending entry was last delivered long ago, its handler running or not.*)
GoesIdle(i) ==
  /\ pel[i] # NoOwner /\ i \notin idle /\ idle' = idle \cup {i}
  /\ UNCHANGED <<sent, given, pel, acked, handled, deadLetters, con, outages, transients, deaths>>

Loop(c) ==
  \/ Subscribe(c) \/ ReadOwned(c) \/ Claim(c) \/ ReadNew(c) \/ Handled(c) \/ Ack(c)
  \/ DeadLetter(c) \/ DeadLetterAck(c) \/ EndBusPass(c)
BusNext ==
  \/ XAdd
  \/ \E c \in Names : Loop(c) \/ Outage(c) \/ Gone(c)
  \/ \E i \in Ids : GoesIdle(i)

(* Each consumer's thread runs, and time passes.                           *)
BusFair == /\ \A c \in Names : WF_bus(Loop(c))
               /\ \A i \in Ids : WF_bus(GoesIdle(i))
BusSpec == BusInit /\ [][BusNext]_bus /\ BusFair

-----------------------------------------------------------------------------
(* No message is lost: one the group was delivered is pending or           *)
(* acknowledged, and an acknowledged one was handled or is a dead letter,  *)
(* whatever call of the two failed and wherever its consumer died.         *)
NotLost ==
  \A i \in 1..given : /\ i \in acked \/ pel[i] # NoOwner
                      /\ i \in acked => handled[i] + deadLetters[i] > 0

(* A consumer that reports no failure has none of the messages it failed   *)
(* to settle pending ("An empty poll or another delivery's ACK cannot      *)
(* resolve this ID").                                                      *)
HealthHonest ==
  \A c \in Names : ~con[c].degraded => con[c].unresolved \cap Owned(c) = {}

(* Every message is acknowledged in the end, handled or as a dead letter:  *)
(* also those of consumers that died and those behind one that fails.      *)
EverySettled == \A i \in Ids : (sent >= i) ~> (i \in acked)
=============================================================================
