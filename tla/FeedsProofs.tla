---------------------------- MODULE FeedsProofs ----------------------------
(***************************************************************************)
(* What comes in from outside, for every number of items, messages,        *)
(* consumers, attempts, nodes and watchers, and for every pattern of       *)
(* failures: an event is written once, a message is settled only when it   *)
(* was handled or put aside, an event is judged once and traded on at a    *)
(* discount, and a proxy group is given up last and put back.              *)
(*                                                                         *)
(* A behaviour runs one component and leaves the others as they started,   *)
(* so each inductive invariant is kept by its own component's steps.       *)
(***************************************************************************)
EXTENDS MCFeeds, FiniteSetTheorems, WellFoundedInduction, TLAPS

-----------------------------------------------------------------------------
(* The Redis bus.  What the group was delivered is pending until it is     *)
(* acknowledged, and a consumer that is about to acknowledge has handled   *)
(* the message or put it aside.                                            *)

Consumer == [at : Running \cup {"new", "gone"}, batch : Seq(Ids), cursor : 0..MaxSent,
             unresolved : SUBSET Ids, degraded : BOOLEAN]

\* What holds of a consumer when g messages were delivered, with the counts h
\* of handled and d of dead letters.
ConsumerOK(x, g, h, d) ==
  /\ x \in Consumer /\ x.batch \in Seq(1..g)
  /\ x.at \in {"ack", "dead", "dead_ack"} => x.batch # <<>>
  /\ x.at = "ack" => h[Head(x.batch)] > 0
  /\ x.at = "dead_ack" => d[Head(x.batch)] > 0
  /\ ~x.degraded => x.unresolved = {}

StreamOK ==
  /\ sent \in 0..MaxSent /\ given \in 0..sent /\ acked \subseteq 1..given /\ idle \subseteq Ids
  /\ pel \in [Ids -> Names \cup {NoOwner}]
  /\ handled \in [Ids -> Nat] /\ deadLetters \in [Ids -> Nat]
  /\ \A i \in Ids : pel[i] # NoOwner => i \in 1..given \ acked
ConsumersOK ==
  /\ con \in [Names -> Consumer]
  /\ \A c \in Names : ConsumerOK(con[c], given, handled, deadLetters)

BusInv == StreamOK /\ ConsumersOK /\ NotLost

LEMMA InitBus == BusInit => BusInv
<1> SUFFICES ASSUME BusInit PROVE BusInv
  OBVIOUS
<1>1. MaxSent \in Nat
  BY BusAssumption
<1>2. StreamOK
  BY <1>1 DEF BusInit, StreamOK, Ids
<1>3. NewConsumer \in Consumer /\ NewConsumer.at = "new" /\ NewConsumer.batch = <<>> /\ NewConsumer.unresolved = {}
  BY <1>1 DEF NewConsumer, Consumer
<1>4. ConsumerOK(NewConsumer, given, handled, deadLetters)
  BY <1>3 DEF ConsumerOK
<1>5. ConsumersOK
  BY <1>3, <1>4 DEF BusInit, ConsumersOK
<1>6. NotLost
  BY DEF BusInit, NotLost
<1> QED
  BY <1>2, <1>5, <1>6 DEF BusInv

\* Sequences over a larger set, and their parts.
LEMMA SeqWider == ASSUME NEW S, NEW T, S \subseteq T, NEW s \in Seq(S) PROVE s \in Seq(T)
  OBVIOUS
LEMMA SeqParts ==
  ASSUME NEW S, NEW s \in Seq(S), s # <<>>
  PROVE  Head(s) \in S /\ Tail(s) \in Seq(S) /\ Len(s) \in Nat /\ Len(Tail(s)) = Len(s) - 1
  OBVIOUS

\* A consumer's promises outlive the steps of the others, which only deliver,
\* handle and put aside more.
Grows ==
  /\ given' \in Nat /\ given <= given' /\ given' <= MaxSent
  /\ handled' \in [Ids -> Nat] /\ deadLetters' \in [Ids -> Nat]
  /\ \A i \in Ids : handled[i] <= handled'[i] /\ deadLetters[i] <= deadLetters'[i]

LEMMA NothingGrown == ASSUME BusInv, UNCHANGED <<given, handled, deadLetters>> PROVE Grows
<1>1. given \in Nat /\ given <= MaxSent
  BY BusAssumption DEF BusInv, StreamOK
<1>2. \A i \in Ids : handled[i] <= handled[i] /\ deadLetters[i] <= deadLetters[i]
  BY DEF BusInv, StreamOK
<1> QED
  BY <1>1, <1>2 DEF BusInv, StreamOK, Grows

LEMMA ConsumerStays ==
  ASSUME BusInv, Grows, NEW x, ConsumerOK(x, given, handled, deadLetters)
  PROVE  ConsumerOK(x, given', handled', deadLetters')
<1>1. /\ given \in Nat /\ given <= given' /\ given' <= MaxSent /\ given' \in Nat /\ MaxSent \in Nat
      /\ handled \in [Ids -> Nat] /\ deadLetters \in [Ids -> Nat]
  BY BusAssumption DEF BusInv, StreamOK, Grows
<1>2. 1..given \subseteq 1..given' /\ 1..given \subseteq Ids
  BY <1>1 DEF Ids
<1>3. x.batch \in Seq(1..given) /\ x.batch \in Seq(1..given')
  BY <1>2, SeqWider DEF ConsumerOK
<1>4. x.batch # <<>> => Head(x.batch) \in Ids
  BY <1>2, <1>3, SeqParts
<1> QED
  BY <1>1, <1>3, <1>4 DEF ConsumerOK, Grows

LEMMA Turned ==
  ASSUME BusInv, Grows, NEW c \in Names, NEW x, Turns(c, x), ConsumerOK(x, given', handled', deadLetters')
  PROVE  ConsumersOK'
<1>1. x \in Consumer
  BY DEF ConsumerOK
<1>2. con' \in [Names -> Consumer] /\ con'[c] = x /\ \A k \in Names \ {c} : con'[k] = con[k]
  BY <1>1 DEF Turns, BusInv, ConsumersOK
<1>3. \A k \in Names \ {c} : ConsumerOK(con[k], given', handled', deadLetters')
  BY ConsumerStays DEF BusInv, ConsumersOK
<1> QED
  BY <1>2, <1>3 DEF ConsumersOK

\* The consumer moves and the stream does not.
LEMMA QuietTurn ==
  ASSUME BusInv, NEW c \in Names, NEW x, Turns(c, x), ConsumerOK(x, given, handled, deadLetters),
         UNCHANGED <<sent, given, pel, idle, acked, handled, deadLetters>>
  PROVE  BusInv'
<1>1. Grows
  BY NothingGrown
<1>2. ConsumersOK'
  BY <1>1, Turned
<1> QED
  BY <1>2 DEF BusInv, StreamOK, NotLost

\* What First returns is a sequence of the ids.
LEMMA FirstIds ==
  ASSUME NEW S, S \subseteq Ids, NEW q \in First(S)
  PROVE  q \in Seq(S) /\ ToSet(q) \subseteq S
<1>1. IsFiniteSet(S)
  <2>1. IsFiniteSet(Ids)
    BY FS_Interval, BusAssumption DEF Ids
  <2> QED
    BY <2>1, FS_Subset
<1>2. Cardinality(S) \in Nat
  BY <1>1, FS_CardinalityType
<1>3. AtMost(Cardinality(S)) \in Nat
  BY <1>2, BusAssumption DEF AtMost
<1>4. q \in [1..AtMost(Cardinality(S)) -> S]
  BY DEF First
<1>5. q \in Seq(S)
  BY <1>3, <1>4
<1>6. ToSet(q) \subseteq S
  BY <1>4 DEF ToSet
<1> QED
  BY <1>5, <1>6

LEMMA SubscribeKeeps == ASSUME BusInv, NEW c \in Names, Subscribe(c) PROVE BusInv'
<1> DEFINE x == [con[c] EXCEPT !.at = "owned"]
<1>1. con[c] \in Consumer /\ ConsumerOK(con[c], given, handled, deadLetters)
  BY DEF BusInv, ConsumersOK
<1>2. x \in Consumer /\ x.at = "owned" /\ x.batch = con[c].batch /\ x.unresolved = con[c].unresolved
      /\ x.degraded = con[c].degraded
  BY <1>1 DEF Consumer, Running
<1>3. ConsumerOK(x, given, handled, deadLetters)
  <2> HIDE DEF x
  <2> QED
    BY <1>1, <1>2 DEF ConsumerOK
<1> QED
  BY <1>3, QuietTurn DEF Subscribe

\* A batch of delivered ids, in hand or empty.
LEMMA PassOKs ==
  ASSUME BusInv, NEW c \in Names, NEW g \in Nat, g <= MaxSent, NEW h, NEW d, NEW b \in Seq(1..g),
         NEW a \in {"handle", "claim", "read", "owned"}
  PROVE  ConsumerOK([con[c] EXCEPT !.batch = b, !.at = a], g, h, d)
<1> DEFINE x == [con[c] EXCEPT !.batch = b, !.at = a]
<1>1. con[c] \in Consumer /\ (~con[c].degraded => con[c].unresolved = {})
  BY DEF BusInv, ConsumersOK, ConsumerOK
<1>2. 1..g \subseteq Ids
  BY BusAssumption DEF Ids
<1>3. b \in Seq(Ids)
  BY <1>2, SeqWider
<1>4. a \in Running \cup {"new", "gone"}
  BY DEF Running
<1>5. x \in Consumer /\ x.batch = b /\ x.at = a /\ x.unresolved = con[c].unresolved /\ x.degraded = con[c].degraded
  BY <1>1, <1>3, <1>4 DEF Consumer
<1> QED
  <2> HIDE DEF x
  <2>1. ConsumerOK(x, g, h, d)
    BY <1>1, <1>5 DEF ConsumerOK
  <2> QED
    BY <2>1 DEF x

LEMMA PendingGiven ==
  ASSUME BusInv, NEW S, S \subseteq Ids, \A i \in S : pel[i] # NoOwner
  PROVE  S \subseteq 1..given
  BY DEF BusInv, StreamOK

LEMMA ReadOwnedKeeps == ASSUME BusInv, NEW c \in Names, ReadOwned(c) PROVE BusInv'
<1>0. given \in Nat /\ given <= MaxSent
  BY BusAssumption DEF BusInv, StreamOK
<1>1. CASE Owned(c) # {}
  <2>1. PICK q \in First(Owned(c)) : BusPass(c, q, "handle")
    BY <1>1 DEF ReadOwned
  <2>2. Owned(c) \subseteq Ids /\ Owned(c) \subseteq 1..given
    <3>1. c # NoOwner
      BY BusAssumption
    <3> QED
      BY <3>1, PendingGiven DEF Owned
  <2>3. q \in Seq(Owned(c))
    BY <2>2, FirstIds
  <2>4. q \in Seq(1..given)
    BY <2>2, <2>3, SeqWider
  <2>5. ConsumerOK([con[c] EXCEPT !.batch = q, !.at = "handle"], given, handled, deadLetters)
    BY <1>0, <2>4, PassOKs
  <2> QED
    BY <2>1, <2>5, QuietTurn DEF ReadOwned, BusPass
<1>2. CASE Owned(c) = {}
  <2>1. <<>> \in Seq(1..given)
    OBVIOUS
  <2>2. ConsumerOK([con[c] EXCEPT !.batch = <<>>, !.at = "claim"], given, handled, deadLetters)
    BY <1>0, <2>1, PassOKs
  <2> QED
    BY <1>2, <2>2, QuietTurn DEF ReadOwned, BusPass
<1> QED
  BY <1>1, <1>2

\* A set of numbers up to n has a greatest member.
LEMMA GreatestId ==
  ASSUME NEW S, S \subseteq Ids, S # {}
  PROVE  Max(S) \in S
<1> DEFINE T == {MaxSent - i : i \in S}
           R == OpToRel(<, Nat)
<1>1. IsWellFoundedOn(R, Nat)
  BY NatLessThanWellFounded
<1>2. T \subseteq Nat /\ T # {}
  <2>1. PICK i : i \in S
    OBVIOUS
  <2>2. MaxSent - i \in T
    BY <2>1
  <2>3. \A j \in S : MaxSent - j \in Nat
    BY BusAssumption DEF Ids
  <2> QED
    BY <2>2, <2>3
<1>3. \E x \in T : \A y \in T : ~ (<<y, x>> \in R)
  <2> HIDE DEF T, R
  <2> QED
    BY <1>1, <1>2, WFMin
<1>4. PICK x \in T : \A y \in T : ~ (<<y, x>> \in R)
  BY <1>3
<1>5. \A y \in T : ~(y < x)
  BY <1>2, <1>4 DEF OpToRel
<1>6. PICK i \in S : x = MaxSent - i
  OBVIOUS
<1>7. \A j \in S : j <= i
  <2> SUFFICES ASSUME NEW j \in S PROVE j <= i
    OBVIOUS
  <2>1. ~(MaxSent - j < MaxSent - i)
    BY <1>5, <1>6
  <2> QED
    BY <2>1, BusAssumption DEF Ids
<1>8. \E m \in S : \A j \in S : m >= j
  BY <1>7, BusAssumption DEF Ids
<1> QED
  BY <1>8 DEF Max

\* Taking over pending entries leaves them pending.
LEMMA TakePending ==
  ASSUME BusInv, NEW c \in Names, NEW S, S \subseteq Ids, \A i \in S : pel[i] # NoOwner, Take(c, S),
         UNCHANGED <<sent, given, acked, handled, deadLetters>>
  PROVE  StreamOK' /\ NotLost'
<1>1. c # NoOwner
  BY BusAssumption
<1>2. /\ pel' \in [Ids -> Names \cup {NoOwner}]
      /\ \A i \in Ids : pel'[i] # NoOwner <=> pel[i] # NoOwner
  BY <1>1 DEF Take, BusInv, StreamOK
<1>3. idle' \subseteq Ids
  BY DEF Take, BusInv, StreamOK
<1>4. 1..given \subseteq Ids
  BY BusAssumption DEF BusInv, StreamOK, Ids
<1>5. StreamOK'
  BY <1>2, <1>3 DEF BusInv, StreamOK
<1>6. NotLost'
  BY <1>2, <1>4 DEF BusInv, NotLost
<1> QED
  BY <1>5, <1>6

LEMMA ClaimKeeps == ASSUME BusInv, NEW c \in Names, Claim(c) PROVE BusInv'
<1>0. given \in Nat /\ given <= MaxSent /\ con[c] \in Consumer /\ 1..given \subseteq Ids
      /\ (~con[c].degraded => con[c].unresolved = {})
  BY BusAssumption DEF BusInv, StreamOK, ConsumersOK, ConsumerOK, Ids
<1>1. PICK q \in First(Ripe(c)) :
        /\ Take(c, ToSet(q))
        /\ Turns(c, [con[c] EXCEPT !.batch = q, !.cursor = NextCursor(con[c].cursor, ToSet(q)),
                                   !.at = IF q = <<>> THEN "read" ELSE "handle"])
  BY DEF Claim
<1>2. Ripe(c) \subseteq Ids /\ \A i \in Ripe(c) : pel[i] # NoOwner
  BY DEF Ripe, BusInv, StreamOK
<1>3. q \in Seq(Ripe(c)) /\ ToSet(q) \subseteq Ripe(c)
  BY <1>2, FirstIds
<1>4. Ripe(c) \subseteq 1..given
  BY <1>2, PendingGiven
<1>5. StreamOK' /\ NotLost'
  BY <1>1, <1>2, <1>3, TakePending DEF Claim
<1> DEFINE n == NextCursor(con[c].cursor, ToSet(q))
           a == IF q = <<>> THEN "read" ELSE "handle"
           x == [con[c] EXCEPT !.batch = q, !.cursor = n, !.at = a]
<1>6. n \in 0..MaxSent
  <2>1. CASE ToSet(q) = {}
    BY <2>1, BusAssumption DEF NextCursor
  <2>2. CASE ToSet(q) # {}
    <3>1. Max(ToSet(q)) \in ToSet(q)
      BY <1>2, <1>3, <2>2, GreatestId
    <3>2. Max(ToSet(q)) \in 0..MaxSent
      BY <3>1, <1>2, <1>3, BusAssumption DEF Ids
    <3> QED
      BY <3>2, BusAssumption DEF NextCursor
  <2> QED
    BY <2>1, <2>2
<1>7. q \in Seq(1..given) /\ q \in Seq(Ids)
  BY <1>2, <1>3, <1>4, SeqWider
<1>8. a \in {"read", "handle"}
  OBVIOUS
<1>9. /\ x \in Consumer /\ x.batch = q /\ x.at = a
      /\ x.unresolved = con[c].unresolved /\ x.degraded = con[c].degraded
  <2> HIDE DEF n, a
  <2> QED
    BY <1>0, <1>6, <1>7, <1>8 DEF Consumer, Running
<1>10. ConsumerOK(x, given, handled, deadLetters)
  <2> HIDE DEF x, a
  <2> QED
    BY <1>0, <1>7, <1>8, <1>9 DEF ConsumerOK
<1>11. Grows /\ UNCHANGED <<given, handled, deadLetters>>
  BY NothingGrown DEF Claim
<1>12. ConsumersOK'
  <2>1. Turns(c, x)
    BY <1>1
  <2> HIDE DEF x
  <2> QED
    BY <2>1, <1>10, <1>11, Turned
<1> QED
  BY <1>5, <1>12 DEF BusInv

\* The next messages of the stream become pending.
LEMMA Delivered ==
  ASSUME BusInv, NEW c \in Names, Deliver(c), UNCHANGED <<sent, acked, handled, deadLetters>>
  PROVE  StreamOK' /\ NotLost' /\ Grows /\ Fresh \in Nat /\ given' = given + Fresh /\ given' <= MaxSent
<1>1. /\ sent \in Nat /\ given \in Nat /\ given <= sent /\ sent <= MaxSent /\ MaxSent \in Nat
      /\ PollCount \in Nat
  BY BusAssumption DEF BusInv, StreamOK
<1>2. Fresh \in Nat /\ Fresh <= sent - given
  BY <1>1 DEF Fresh, AtMost
<1>3. given' = given + Fresh /\ given' \in Nat /\ given' <= sent /\ given <= given'
  BY <1>1, <1>2 DEF Deliver
<1>4. c # NoOwner
  BY BusAssumption
<1>5. /\ pel' \in [Ids -> Names \cup {NoOwner}]
      /\ \A i \in Ids : pel'[i] = IF i \in given + 1..given + Fresh THEN c ELSE pel[i]
  BY DEF Deliver, Take, BusInv, StreamOK
<1>6. acked \subseteq 1..given
  BY DEF BusInv, StreamOK
<1>7. \A i \in Ids : pel'[i] # NoOwner => i \in 1..given' \ acked
  <2> SUFFICES ASSUME NEW i \in Ids, pel'[i] # NoOwner PROVE i \in 1..given' \ acked
    OBVIOUS
  <2>1. CASE i \in given + 1..given + Fresh
    BY <2>1, <1>1, <1>2, <1>3, <1>6 DEF Ids
  <2>2. CASE i \notin given + 1..given + Fresh
    <3>1. i \in 1..given \ acked
      BY <2>2, <1>5 DEF BusInv, StreamOK
    <3> QED
      BY <3>1, <1>1, <1>3
  <2> QED
    BY <2>1, <2>2
<1>8. StreamOK'
  <2>1. idle' \subseteq Ids
    BY DEF Deliver, Take, BusInv, StreamOK
  <2>2. acked \subseteq 1..given'
    BY <1>1, <1>3, <1>6
  <2> QED
    BY <1>1, <1>3, <1>5, <1>7, <2>1, <2>2 DEF BusInv, StreamOK
<1>9. NotLost'
  <2> SUFFICES ASSUME NEW i \in 1..given'
               PROVE  (i \in acked \/ pel'[i] # NoOwner) /\ (i \in acked => handled[i] + deadLetters[i] > 0)
    BY DEF NotLost
  <2>1. i \in Ids
    BY <1>1, <1>3 DEF Ids
  <2>2. CASE i \in 1..given
    BY <2>1, <2>2, <1>5, <1>4 DEF BusInv, NotLost
  <2>3. CASE i \notin 1..given
    <3>1. i \in given + 1..given + Fresh /\ i \notin acked
      BY <2>3, <1>1, <1>2, <1>3, <1>6
    <3> QED
      BY <2>1, <3>1, <1>5, <1>4
  <2> QED
    BY <2>2, <2>3
<1>10. Grows
  BY <1>1, <1>3 DEF Grows, BusInv, StreamOK
<1> QED
  BY <1>1, <1>2, <1>3, <1>8, <1>9, <1>10

LEMMA ReadNewKeeps == ASSUME BusInv, NEW c \in Names, ReadNew(c) PROVE BusInv'
<1> DEFINE q == [i \in 1..Fresh |-> given + i]
           x == [con[c] EXCEPT !.batch = q, !.at = "handle"]
<1>1. /\ StreamOK' /\ NotLost' /\ Grows /\ Fresh \in Nat /\ given' = given + Fresh /\ given' <= MaxSent
      /\ UNCHANGED <<handled, deadLetters>> /\ Turns(c, x)
  BY Delivered DEF ReadNew, BusPass
<1>2. given \in Nat /\ given' \in Nat
  BY <1>1 DEF BusInv, StreamOK
<1>3. q \in Seq(1..given')
  BY <1>1, <1>2
<1>4. ConsumerOK(x, given', handled', deadLetters')
  <2> HIDE DEF q
  <2> QED
    BY <1>1, <1>2, <1>3, PassOKs
<1>5. ConsumersOK'
  <2> HIDE DEF x
  <2> QED
    BY <1>1, <1>4, Turned
<1> QED
  BY <1>1, <1>5 DEF BusInv

\* The message in hand.
LEMMA InHand ==
  ASSUME BusInv, NEW c \in Names, con[c].batch # <<>>
  PROVE  /\ Active(c) \in 1..given /\ Active(c) \in Ids
         /\ con[c].batch \in Seq(1..given) /\ Tail(con[c].batch) \in Seq(1..given)
<1>1. con[c].batch \in Seq(1..given) /\ given \in Nat /\ given <= MaxSent /\ MaxSent \in Nat
  BY BusAssumption DEF BusInv, ConsumersOK, ConsumerOK, StreamOK
<1>2. Head(con[c].batch) \in 1..given /\ Tail(con[c].batch) \in Seq(1..given)
  BY <1>1, SeqParts
<1> QED
  BY <1>1, <1>2 DEF Active, Ids

\* A consumer that gives its pass up remembers what it failed to settle.
LEMMA GivesUpOK ==
  ASSUME BusInv, NEW c \in Names, NEW u \in SUBSET Ids, NEW g, NEW h, NEW d
  PROVE  ConsumerOK([con[c] EXCEPT !.unresolved = u, !.degraded = TRUE, !.batch = <<>>, !.at = "owned"], g, h, d)
<1> DEFINE x == [con[c] EXCEPT !.unresolved = u, !.degraded = TRUE, !.batch = <<>>, !.at = "owned"]
<1>1. con[c] \in Consumer
  BY DEF BusInv, ConsumersOK
<1>2. <<>> \in Seq(Ids) /\ <<>> \in Seq(1..g) /\ "owned" \in Running
  BY DEF Running
<1>3. x \in Consumer /\ x.at = "owned" /\ x.degraded = TRUE /\ x.batch = <<>>
  BY <1>1, <1>2 DEF Consumer
<1> QED
  <2> HIDE DEF x
  <2>1. ConsumerOK(x, g, h, d)
    BY <1>2, <1>3 DEF ConsumerOK
  <2> QED
    BY <2>1 DEF x

LEMMA HandledKeeps == ASSUME BusInv, NEW c \in Names, Handled(c) PROVE BusInv'
<1> DEFINE m == Active(c)
           P(a) == [con[c] EXCEPT !.batch = con[c].batch, !.at = a]
<1>0. /\ m \in Ids /\ con[c].batch \in Seq(1..given) /\ con[c].batch # <<>> /\ con[c] \in Consumer
      /\ con[c].batch \in Seq(Ids) /\ (~con[c].degraded => con[c].unresolved = {})
  BY InHand DEF Handled, BusInv, ConsumersOK, ConsumerOK, Consumer
<1>1. ASSUME NEW a \in {"ack", "dead"}
      PROVE  /\ P(a) \in Consumer /\ P(a).at = a /\ P(a).batch = con[c].batch
             /\ P(a).unresolved = con[c].unresolved /\ P(a).degraded = con[c].degraded
  BY <1>0 DEF Running, Consumer
<1>2. CASE handled' = [handled EXCEPT ![m] = @ + 1] /\ BusPass(c, con[c].batch, "ack")
  <2>1. /\ handled' \in [Ids -> Nat] /\ handled'[m] > 0 /\ \A i \in Ids : handled[i] <= handled'[i]
        /\ handled \in [Ids -> Nat]
    <3>1. handled \in [Ids -> Nat] /\ m \in Ids
      BY <1>0 DEF BusInv, StreamOK
    <3> QED
      BY ONLY <3>1, <1>2
  <2>2. Grows /\ UNCHANGED <<sent, given, pel, idle, acked, deadLetters>>
    <3>1. given \in Nat /\ given <= MaxSent /\ \A i \in Ids : deadLetters[i] <= deadLetters[i]
      BY BusAssumption DEF BusInv, StreamOK
    <3> QED
      BY <2>1, <3>1 DEF Grows, BusInv, StreamOK, Handled
  <2>3. ConsumerOK(P("ack"), given', handled', deadLetters')
    <3>1. Head(con[c].batch) = m
      BY DEF Active
    <3> HIDE DEF P, m
    <3> QED
      BY <1>0, <1>1, <2>1, <2>2, <3>1 DEF ConsumerOK
  <2>4. ConsumersOK'
    <3>1. Turns(c, P("ack"))
      BY <1>2 DEF BusPass
    <3> HIDE DEF P
    <3> QED
      BY <2>2, <2>3, <3>1, Turned
  <2>5. StreamOK'
    BY <2>1, <2>2 DEF BusInv, StreamOK
  <2>6. NotLost'
    <3> SUFFICES ASSUME NEW i \in 1..given
                 PROVE  (i \in acked \/ pel[i] # NoOwner) /\ (i \in acked => handled'[i] + deadLetters[i] > 0)
      BY <2>2 DEF NotLost
    <3>1. i \in Ids
      BY BusAssumption DEF Ids, BusInv, StreamOK
    <3>2. handled[i] \in Nat /\ handled'[i] \in Nat /\ deadLetters[i] \in Nat /\ handled[i] <= handled'[i]
      BY <3>1, <2>1 DEF BusInv, StreamOK
    <3> QED
      BY <3>2 DEF BusInv, NotLost
  <2> QED
    BY <2>4, <2>5, <2>6 DEF BusInv
<1>3. CASE BusPass(c, con[c].batch, "dead") /\ UNCHANGED handled
  <2>1. UNCHANGED <<sent, given, pel, idle, acked, handled, deadLetters>> /\ Turns(c, P("dead"))
    BY <1>3 DEF Handled, BusPass
  <2>2. ConsumerOK(P("dead"), given, handled, deadLetters)
    <3> HIDE DEF P, m
    <3> QED
      BY <1>0, <1>1 DEF ConsumerOK
  <2> HIDE DEF P
  <2> QED
    BY <2>1, <2>2, QuietTurn
<1>4. CASE /\ Turns(c, [con[c] EXCEPT !.unresolved = @ \cup {m}, !.degraded = TRUE, !.batch = <<>>, !.at = "owned"])
           /\ UNCHANGED handled
  <2>1. con[c].unresolved \cup {m} \in SUBSET Ids
    BY <1>0 DEF Consumer
  <2>2. ConsumerOK([con[c] EXCEPT !.unresolved = con[c].unresolved \cup {m}, !.degraded = TRUE,
                                  !.batch = <<>>, !.at = "owned"], given, handled, deadLetters)
    BY <2>1, GivesUpOK
  <2> QED
    BY <1>4, <2>2, QuietTurn DEF Handled
<1> QED
  BY <1>2, <1>3, <1>4 DEF Handled

\* A message that was handled or put aside is acknowledged.
LEMMA Settled ==
  ASSUME BusInv, NEW m \in 1..given, Settle(m), handled[m] + deadLetters[m] > 0,
         UNCHANGED <<sent, given, handled, deadLetters>>
  PROVE  StreamOK' /\ NotLost' /\ Grows
<1>1. 1..given \subseteq Ids /\ given \in Nat /\ given <= MaxSent
  BY BusAssumption DEF BusInv, StreamOK, Ids
<1>2. /\ pel' \in [Ids -> Names \cup {NoOwner}] /\ pel'[m] = NoOwner
      /\ \A i \in Ids \ {m} : pel'[i] = pel[i]
  BY <1>1 DEF Settle, BusInv, StreamOK
<1>3. acked' = acked \cup {m} /\ acked' \subseteq 1..given /\ idle' \subseteq Ids
  BY DEF Settle, BusInv, StreamOK
<1>4. \A i \in Ids : pel'[i] # NoOwner => i \in 1..given \ acked'
  BY <1>2, <1>3 DEF BusInv, StreamOK
<1>5. StreamOK'
  BY <1>2, <1>3, <1>4 DEF BusInv, StreamOK
<1>6. NotLost'
  BY <1>1, <1>2, <1>3 DEF BusInv, NotLost
<1>7. Grows
  BY NothingGrown
<1> QED
  BY <1>5, <1>6, <1>7

\* The consumer goes on to the next message of its batch.
LEMMA ResolvedOK ==
  ASSUME BusInv, NEW c \in Names, con[c].batch # <<>>, NEW h, NEW d
  PROVE  ConsumerOK([con[c] EXCEPT !.unresolved = @ \ {Active(c)}, !.batch = Tail(@), !.at = "handle"], given, h, d)
<1> DEFINE u == con[c].unresolved \ {Active(c)}
           b == Tail(con[c].batch)
           x == [con[c] EXCEPT !.unresolved = u, !.batch = b, !.at = "handle"]
<1>1. /\ b \in Seq(1..given) /\ 1..given \subseteq Ids /\ con[c] \in Consumer
      /\ (~con[c].degraded => con[c].unresolved = {})
  <2>1. 1..given \subseteq Ids
    BY BusAssumption DEF BusInv, StreamOK, Ids
  <2>2. con[c] \in Consumer /\ (~con[c].degraded => con[c].unresolved = {})
    BY DEF BusInv, ConsumersOK, ConsumerOK
  <2> QED
    BY <2>1, <2>2, InHand
<1>2. u \in SUBSET Ids /\ b \in Seq(Ids)
  BY <1>1, SeqWider DEF Consumer
<1>3. x \in Consumer /\ x.unresolved = u /\ x.batch = b /\ x.at = "handle" /\ x.degraded = con[c].degraded
  <2> HIDE DEF u, b
  <2> QED
    BY <1>1, <1>2 DEF Consumer, Running
<1> QED
  <2>1. ConsumerOK(x, given, h, d)
    <3>1. con[c].unresolved = {} => u = {}
      OBVIOUS
    <3> HIDE DEF x, u, b
    <3> QED
      BY <1>1, <1>3, <3>1 DEF ConsumerOK
  <2> QED
    BY <2>1

\* An acknowledgement, of a message or of its dead letter.
LEMMA Acknowledges ==
  ASSUME BusInv, NEW c \in Names, con[c].at \in {"ack", "dead_ack"}, Settle(Active(c)), Resolved(c),
         UNCHANGED <<sent, given, handled, deadLetters>>
  PROVE  BusInv'
<1>1. con[c].batch # <<>> /\ (handled[Active(c)] > 0 \/ deadLetters[Active(c)] > 0)
  BY DEF BusInv, ConsumersOK, ConsumerOK, Active
<1>2. Active(c) \in 1..given /\ Active(c) \in Ids
  BY <1>1, InHand
<1>3. handled[Active(c)] + deadLetters[Active(c)] > 0
  <2>1. handled[Active(c)] \in Nat /\ deadLetters[Active(c)] \in Nat
    BY <1>2 DEF BusInv, StreamOK
  <2> QED
    BY <1>1, <2>1
<1>4. StreamOK' /\ NotLost' /\ Grows
  BY <1>2, <1>3, Settled
<1>5. ConsumersOK'
  BY <1>1, <1>4, ResolvedOK, Turned DEF Resolved
<1> QED
  BY <1>4, <1>5 DEF BusInv

LEMMA AckKeeps == ASSUME BusInv, NEW c \in Names, Ack(c) \/ DeadLetterAck(c) PROVE BusInv'
  BY Acknowledges DEF Ack, DeadLetterAck

\* The message is put aside.
LEMMA PutAside ==
  ASSUME BusInv, NEW m \in 1..given, deadLetters' = [deadLetters EXCEPT ![m] = @ + 1],
         UNCHANGED <<sent, given, pel, idle, acked, handled>>
  PROVE  StreamOK' /\ NotLost' /\ Grows /\ deadLetters'[m] > 0
<1>1. 1..given \subseteq Ids /\ given \in Nat /\ given <= MaxSent
  BY BusAssumption DEF BusInv, StreamOK, Ids
<1>2. /\ deadLetters' \in [Ids -> Nat] /\ deadLetters'[m] > 0 /\ deadLetters \in [Ids -> Nat]
      /\ \A i \in Ids : deadLetters[i] <= deadLetters'[i]
  BY <1>1 DEF BusInv, StreamOK
<1>3. Grows
  BY <1>1, <1>2 DEF Grows, BusInv, StreamOK
<1>4. StreamOK'
  BY <1>2 DEF BusInv, StreamOK
<1>5. NotLost'
  <2> SUFFICES ASSUME NEW i \in 1..given
               PROVE  (i \in acked \/ pel[i] # NoOwner) /\ (i \in acked => handled[i] + deadLetters'[i] > 0)
    BY DEF NotLost
  <2>1. handled[i] \in Nat /\ deadLetters[i] \in Nat /\ deadLetters'[i] \in Nat /\ deadLetters[i] <= deadLetters'[i]
    BY <1>1, <1>2 DEF BusInv, StreamOK
  <2> QED
    BY <2>1 DEF BusInv, NotLost
<1> QED
  BY <1>2, <1>3, <1>4, <1>5

LEMMA DeadLetterKeeps == ASSUME BusInv, NEW c \in Names, DeadLetter(c) PROVE BusInv'
<1> DEFINE x == [con[c] EXCEPT !.batch = con[c].batch, !.at = "dead_ack"]
<1>1. /\ con[c].batch # <<>> /\ con[c] \in Consumer /\ con[c].batch \in Seq(Ids)
      /\ (~con[c].degraded => con[c].unresolved = {})
  BY DEF DeadLetter, BusInv, ConsumersOK, ConsumerOK, Consumer
<1>2. Active(c) \in 1..given /\ con[c].batch \in Seq(1..given)
  BY <1>1, InHand
<1>3. StreamOK' /\ NotLost' /\ Grows /\ deadLetters'[Active(c)] > 0 /\ given' = given
  BY <1>2, PutAside DEF DeadLetter
<1>4. /\ x \in Consumer /\ x.batch = con[c].batch /\ x.at = "dead_ack"
      /\ x.unresolved = con[c].unresolved /\ x.degraded = con[c].degraded
  BY <1>1 DEF Running, Consumer
<1>5. ConsumerOK(x, given', handled', deadLetters')
  <2> HIDE DEF x
  <2> QED
    BY <1>1, <1>2, <1>3, <1>4 DEF ConsumerOK, Active
<1>6. Turns(c, x)
  BY DEF DeadLetter, BusPass
<1>7. ConsumersOK'
  <2> HIDE DEF x
  <2> QED
    BY <1>3, <1>5, <1>6, Turned
<1> QED
  BY <1>3, <1>7 DEF BusInv

LEMMA EndBusPassKeeps == ASSUME BusInv, NEW c \in Names, EndBusPass(c) PROVE BusInv'
<1> DEFINE b == con[c].degraded /\ con[c].unresolved # {}
           x == [con[c] EXCEPT !.at = "owned", !.degraded = b]
<1>1. /\ con[c] \in Consumer /\ con[c].batch \in Seq(1..given) /\ b \in BOOLEAN
      /\ (~con[c].degraded => con[c].unresolved = {})
  BY DEF BusInv, ConsumersOK, ConsumerOK
<1>2. /\ x \in Consumer /\ x.at = "owned" /\ x.degraded = b
      /\ x.unresolved = con[c].unresolved /\ x.batch = con[c].batch
  <2> HIDE DEF b
  <2> QED
    BY <1>1 DEF Consumer, Running
<1>3. ConsumerOK(x, given, handled, deadLetters)
  <2>1. ~b => con[c].unresolved = {}
    BY <1>1
  <2> HIDE DEF x, b
  <2> QED
    BY <1>1, <1>2, <2>1 DEF ConsumerOK
<1> QED
  BY <1>3, QuietTurn DEF EndBusPass

LEMMA OutageKeeps == ASSUME BusInv, NEW c \in Names, Outage(c) PROVE BusInv'
<1> DEFINE u == IF Settling(c) THEN con[c].unresolved \cup {Active(c)} ELSE con[c].unresolved
           x == [con[c] EXCEPT !.unresolved = u, !.degraded = TRUE, !.batch = <<>>, !.at = "owned"]
<1>0. Settling(c) => con[c].batch # <<>> /\ Active(c) \in 1..given /\ Active(c) \in Ids
  BY InHand DEF Settling, BusInv, ConsumersOK, ConsumerOK
<1>1. u \in SUBSET Ids
  BY <1>0 DEF BusInv, ConsumersOK, Consumer
<1>2. Turns(c, x)
  BY DEF Outage
<1>3. ConsumerOK(x, given', handled', deadLetters')
  <2> HIDE DEF u
  <2> QED
    BY <1>1, GivesUpOK
<1>4. StreamOK' /\ NotLost' /\ Grows
  <2>0. UNCHANGED <<sent, handled>>
    BY DEF Outage
  <2>1. CASE UNCHANGED <<pel, idle, acked, given, deadLetters>>
    BY <2>0, <2>1, NothingGrown DEF BusInv, StreamOK, NotLost
  <2>2. CASE con[c].at \in {"ack", "dead_ack"} /\ Settle(Active(c)) /\ UNCHANGED <<given, deadLetters>>
    <3>1. Active(c) \in 1..given /\ Active(c) \in Ids
      BY <1>0, <2>2 DEF Settling
    <3>2. handled[Active(c)] > 0 \/ deadLetters[Active(c)] > 0
      BY <2>2 DEF BusInv, ConsumersOK, ConsumerOK, Active
    <3>3. handled[Active(c)] + deadLetters[Active(c)] > 0
      <4>1. handled[Active(c)] \in Nat /\ deadLetters[Active(c)] \in Nat
        BY <3>1 DEF BusInv, StreamOK
      <4> QED
        BY <3>2, <4>1
    <3> QED
      BY <2>0, <2>2, <3>1, <3>3, Settled
  <2>3. CASE /\ con[c].at = "dead" /\ deadLetters' = [deadLetters EXCEPT ![Active(c)] = @ + 1]
             /\ UNCHANGED <<pel, idle, acked, given>>
    <3>1. Active(c) \in 1..given
      BY <1>0, <2>3 DEF Settling
    <3> QED
      BY <2>0, <2>3, <3>1, PutAside
  <2>4. CASE con[c].at = "read" /\ Deliver(c) /\ UNCHANGED <<acked, deadLetters>>
    BY <2>0, <2>4, Delivered
  <2>5. CASE /\ con[c].at = "claim" /\ \E q \in First(Ripe(c)) : Take(c, ToSet(q))
             /\ UNCHANGED <<acked, given, deadLetters>>
    <3>1. PICK q \in First(Ripe(c)) : Take(c, ToSet(q))
      BY <2>5
    <3>2. Ripe(c) \subseteq Ids /\ \A i \in Ripe(c) : pel[i] # NoOwner
      BY DEF Ripe, BusInv, StreamOK
    <3>3. ToSet(q) \subseteq Ripe(c)
      BY <3>1, <3>2, FirstIds
    <3>4. StreamOK' /\ NotLost'
      BY <2>0, <2>5, <3>1, <3>2, <3>3, TakePending
    <3> QED
      BY <2>0, <2>5, <3>4, NothingGrown
  <2> QED
    BY <2>1, <2>2, <2>3, <2>4, <2>5 DEF Outage
<1>5. ConsumersOK'
  <2> HIDE DEF x
  <2> QED
    BY <1>2, <1>3, <1>4, Turned
<1> QED
  BY <1>4, <1>5 DEF BusInv

LEMMA GoneKeeps == ASSUME BusInv, NEW c \in Names, Gone(c) PROVE BusInv'
<1> DEFINE x == [NewConsumer EXCEPT !.at = "gone"]
<1>1. x \in Consumer /\ x.at = "gone" /\ x.batch = <<>> /\ x.unresolved = {}
  <2>1. 0 \in 0..MaxSent /\ <<>> \in Seq(Ids) /\ {} \subseteq Ids
    BY BusAssumption
  <2>2. NewConsumer \in Consumer /\ NewConsumer.batch = <<>> /\ NewConsumer.unresolved = {}
    BY <2>1 DEF NewConsumer, Consumer
  <2> QED
    BY <2>2 DEF Consumer
<1>2. ConsumerOK(x, given, handled, deadLetters)
  <2> HIDE DEF x
  <2> QED
    BY <1>1 DEF ConsumerOK
<1>3. Turns(c, x) /\ UNCHANGED <<sent, given, pel, idle, acked, handled, deadLetters>>
  BY DEF Gone
<1> HIDE DEF x
<1> QED
  BY <1>2, <1>3, QuietTurn

LEMMA NextBus == BusInv /\ [BusNext]_bus => BusInv'
<1> SUFFICES ASSUME BusInv, [BusNext]_bus PROVE BusInv'
  OBVIOUS
<1>1. CASE XAdd
  BY <1>1, BusAssumption DEF XAdd, BusInv, StreamOK, ConsumersOK, NotLost
<1>2. CASE \E i \in Ids : GoesIdle(i)
  BY <1>2 DEF GoesIdle, BusInv, StreamOK, ConsumersOK, NotLost
<1>3. CASE UNCHANGED bus
  BY <1>3 DEF bus, BusInv, StreamOK, ConsumersOK, NotLost
<1>4. ASSUME NEW c \in Names, Loop(c) \/ Outage(c) \/ Gone(c) PROVE BusInv'
  BY <1>4, SubscribeKeeps, ReadOwnedKeeps, ClaimKeeps, ReadNewKeeps, HandledKeeps, AckKeeps,
     DeadLetterKeeps, EndBusPassKeeps, OutageKeeps, GoneKeeps DEF Loop
<1> QED
  BY <1>1, <1>2, <1>3, <1>4 DEF BusNext

\* The invariant has the three properties of the bus.
LEMMA BusSafe == BusInv => BusTypeOK /\ NotLost /\ HealthHonest
<1> SUFFICES ASSUME BusInv PROVE BusTypeOK /\ NotLost /\ HealthHonest
  OBVIOUS
<1>1. BusTypeOK
  <2>1. \A c \in Names : con[c].at \in Running \cup {"new", "gone"} /\ con[c].cursor \in 0..MaxSent
    BY DEF BusInv, ConsumersOK, Consumer
  <2> QED
    BY <2>1 DEF BusInv, StreamOK, BusTypeOK
<1>2. HealthHonest
  BY DEF BusInv, ConsumersOK, ConsumerOK, HealthHonest
<1> QED
  BY <1>1, <1>2 DEF BusInv
-----------------------------------------------------------------------------
(* Model calls.  What a query has cost is counted along its way, and what  *)
(* is about to be priced is backed by a sample.                            *)

\* A quotient that reaches t had a dividend of t divisors.
LEMMA Quotient ==
  ASSUME NEW x \in Nat, NEW d \in Nat \ {0}, NEW t \in Nat, x \div d >= t
  PROVE  x >= t * d
<1> DEFINE q == x \div d
<1>1. q \in Nat /\ d * q <= x
  OBVIOUS
<1>2. (q - t) \in Nat
  BY <1>1
<1> HIDE DEF q
<1>3. (q - t) * d >= 0
  BY <1>2
<1>4. (q - t) * d = q * d - t * d /\ q * d = d * q
  BY <1>1
<1>5. t * d \in Int /\ d * q \in Int
  BY <1>1
<1> QED
  BY <1>1, <1>3, <1>4, <1>5

Samples == [made : 0..MaxAttempts, got : Verdicts \cup {None, Failure}]
SamplesOK ==
  /\ sample \in [{1, 2} -> Samples]
  /\ \A i \in {1, 2} : Open(i) => sample[i].made < MaxAttempts

\* Attempts that a prefetch has cost which came to nothing.
Wasted == IF prefetch = Failure THEN 2 * MaxAttempts ELSE 0
CostOK ==
  /\ attempt \in Nat /\ spent \in Nat
  /\ at \in {"price", "news", "playbook"} => attempt < MaxAttempts
  /\ at \in {"prefetch", "news", "playbook"} => prefetch = None
  /\ at = "prefetch" => spent <= sample[1].made + sample[2].made
  /\ at = "ready" => spent <= 2 * MaxAttempts /\ prefetch # None
  /\ at = "judge" => spent <= Wasted + sample[1].made + sample[2].made
  /\ at = "price" => spent <= Wasted + 2 * MaxAttempts + attempt
  /\ at = "news" => spent <= attempt
  /\ at = "playbook" => spent <= MaxAttempts + attempt
  /\ at = "idle" => spent <= Wasted + 3 * MaxAttempts

\* What TradesDiscounted asks of the samples for a trade of the side act.
Multiplier ==
  IF Said("duplicate") THEN DuplicateMultiplier
  ELSE IF Said("unrelated") THEN UnrelatedMultiplier ELSE FullConfidence
Backed(act) ==
  \E i \in Ok : /\ sample[i].got.rel = "relevant" /\ sample[i].got.act = act
                /\ sample[i].got.conf * Multiplier >= TradeThreshold * FullConfidence
                /\ \A j \in Ok : sample[j].got.conf <= sample[i].got.conf
TradeOK ==
  /\ at # "idle" => answer = NoAnswer
  /\ at = "price" => ShouldPrice(verdict) /\ Backed(verdict.act)
  /\ at = "ready" /\ prefetch \notin {None, Failure} /\ ShouldPrice(prefetch) => Backed(prefetch.act)
  /\ at \in {"news", "playbook"} => verdict = None
  /\ answer.end = "answered" /\ answer.now /\ verdict # None => answer.priced /\ Backed(answer.act)

CallStages == {"idle", "prefetch", "ready", "judge", "price", "news", "playbook"}
CallsInv == at \in CallStages /\ SamplesOK /\ CostOK /\ TradeOK

LEMMA CallNumbers ==
  /\ MaxAttempts \in Nat \ {0} /\ FullConfidence \in Nat \ {0} /\ TradeThreshold \in Nat
  /\ DuplicateMultiplier \in Nat /\ UnrelatedMultiplier \in Nat
  /\ \A k \in Confidences : k \in Nat
  BY CallsAssumption

\* The records that stand for nothing.
LEMMA NothingIs ==
  /\ None.rel = "none" /\ Failure.rel = "error" /\ None # Failure
  /\ \A v \in Verdicts : v # None /\ v # Failure
  /\ NoAnswer.end = "none" /\ Raised.end = "raised" /\ Skipped.now = FALSE
  BY DEF None, Failure, Nothing, Verdicts, Relevances, NoAnswer, Raised, Skipped

LEMMA WaitingIs == Waiting \in Samples /\ Waiting.made = 0 /\ Waiting.got = None
  BY CallNumbers DEF Waiting, Samples

LEMMA FreshSamples ==
  ASSUME sample' = [i \in {1, 2} |-> Waiting]
  PROVE  SamplesOK' /\ sample'[1].made = 0 /\ sample'[2].made = 0
<1>1. sample' \in [{1, 2} -> Samples]
  BY WaitingIs
<1>2. \A i \in {1, 2} : sample'[i] = Waiting
  OBVIOUS
<1> QED
  BY <1>1, <1>2, WaitingIs, CallNumbers DEF SamplesOK, Open

LEMMA InitCalls == CallsInit => CallsInv
<1> SUFFICES ASSUME CallsInit PROVE CallsInv
  OBVIOUS
<1>1. sample = [i \in {1, 2} |-> Waiting]
  BY DEF CallsInit
<1>2. sample \in [{1, 2} -> Samples] /\ \A i \in {1, 2} : sample[i] = Waiting
  BY <1>1, WaitingIs
<1>3. SamplesOK
  BY <1>2, WaitingIs, CallNumbers DEF SamplesOK, Open
<1>4. CostOK
  <2>1. prefetch # Failure
    BY NothingIs DEF CallsInit
  <2> QED
    BY <2>1, CallNumbers DEF CallsInit, CostOK, Wasted
<1>5. TradeOK
  BY NothingIs DEF CallsInit, TradeOK
<1> QED
  BY <1>3, <1>4, <1>5 DEF CallsInv, CallsInit, CallStages

\* What the samples found valid.
LEMMA Valid ==
  ASSUME SamplesOK, NEW i \in Ok
  PROVE  i \in {1, 2} /\ sample[i].got \in Verdicts /\ sample[i].got.conf \in Nat
<1>1. i \in {1, 2} /\ sample[i].got \notin {None, Failure}
  BY DEF Ok
<1>2. sample[i] \in Samples
  BY <1>1 DEF SamplesOK
<1>3. sample[i].got \in Verdicts
  BY <1>1, <1>2 DEF Samples
<1> QED
  BY <1>1, <1>3, CallNumbers DEF Verdicts

\* The selected one is among the most confident.
LEMMA SelectedIs ==
  ASSUME SamplesOK, Ok # {}
  PROVE  Selected \in Ok /\ \A j \in Ok : sample[j].got.conf <= sample[Selected].got.conf
<1> DEFINE G(i) == \A j \in Ok : \/ sample[i].got.conf > sample[j].got.conf
                                 \/ sample[i].got.conf = sample[j].got.conf /\ i <= j
<1>1. \A i \in Ok : i \in {1, 2} /\ sample[i].got.conf \in Nat
  BY Valid
<1>2. \E i \in Ok : G(i)
  <2>1. CASE Ok = {1}
    BY <2>1
  <2>2. CASE Ok = {2}
    BY <2>2
  <2>3. CASE Ok = {1, 2}
    <3>1. CASE sample[1].got.conf >= sample[2].got.conf
      BY <1>1, <2>3, <3>1
    <3>2. CASE ~(sample[1].got.conf >= sample[2].got.conf)
      <4>1. G(2)
        BY <1>1, <2>3, <3>2
      <4> QED
        BY <2>3, <4>1
    <3> QED
      BY <3>1, <3>2
  <2> QED
    BY <1>1, <2>1, <2>2, <2>3
<1>3. Selected \in Ok /\ G(Selected)
  BY <1>2 DEF Selected
<1> QED
  BY <1>1, <1>3

\* The discounted verdict.
LEMMA Discounts ==
  ASSUME SamplesOK, NEW i \in Ok, sample[i].got.rel = "relevant",
         Discount(sample[i].got) >= TradeThreshold
  PROVE  sample[i].got.conf * Multiplier >= TradeThreshold * FullConfidence
<1> DEFINE n == sample[i].got.conf
<1>1. n \in Nat
  BY Valid
<1>2. CASE Said("duplicate")
  <2>1. (n * DuplicateMultiplier) \div FullConfidence >= TradeThreshold
    BY <1>2 DEF Discount
  <2>2. n * DuplicateMultiplier \in Nat
    BY <1>1, CallNumbers
  <2>3. n * DuplicateMultiplier >= TradeThreshold * FullConfidence
    BY <2>1, <2>2, CallNumbers, Quotient
  <2> QED
    BY <1>2, <2>3 DEF Multiplier
<1>3. CASE ~Said("duplicate") /\ Said("unrelated")
  <2>1. (n * UnrelatedMultiplier) \div FullConfidence >= TradeThreshold
    BY <1>3 DEF Discount
  <2>2. n * UnrelatedMultiplier \in Nat
    BY <1>1, CallNumbers
  <2>3. n * UnrelatedMultiplier >= TradeThreshold * FullConfidence
    BY <2>1, <2>2, CallNumbers, Quotient
  <2> QED
    BY <1>3, <2>3 DEF Multiplier
<1>4. CASE ~Said("duplicate") /\ ~Said("unrelated")
  <2>1. n >= TradeThreshold
    BY <1>4 DEF Discount
  <2> HIDE DEF n
  <2>2. (n - TradeThreshold) \in Nat
    BY <1>1, <2>1, CallNumbers
  <2>3. (n - TradeThreshold) * FullConfidence >= 0
    BY <2>2, CallNumbers
  <2>4. (n - TradeThreshold) * FullConfidence = n * FullConfidence - TradeThreshold * FullConfidence
    BY <1>1, CallNumbers
  <2>5. n * FullConfidence \in Int /\ TradeThreshold * FullConfidence \in Int
    BY <1>1, CallNumbers
  <2>6. n * FullConfidence >= TradeThreshold * FullConfidence
    BY <2>3, <2>4, <2>5
  <2> QED
    BY <1>4, <2>6 DEF Multiplier, n
<1> QED
  BY <1>2, <1>3, <1>4

\* A judgement is a verdict, and one to be priced is backed.
LEMMA Judges ==
  ASSUME SamplesOK, Ok # {}
  PROVE  /\ JudgeAnswer # None /\ JudgeAnswer # Failure
         /\ ShouldPrice(JudgeAnswer) => Backed(JudgeAnswer.act)
<1> DEFINE v == sample[Selected].got
           d == [v EXCEPT !.conf = Discount(v)]
           e == [d EXCEPT !.rel = "unrelated", !.act = "no_trade"]
<1>1. Selected \in Ok /\ \A j \in Ok : sample[j].got.conf <= v.conf
  BY SelectedIs
<1>2. v \in Verdicts
  BY <1>1, Valid
<1>3. v = [rel |-> v.rel, conf |-> v.conf, act |-> v.act] /\ v.rel \in Relevances
  BY <1>2 DEF Verdicts
<1>4. d = [rel |-> v.rel, conf |-> Discount(v), act |-> v.act]
  <2> DEFINE w == Discount(v)
  <2> HIDE DEF v, w
  <2>1. [v EXCEPT !.conf = w] = [rel |-> v.rel, conf |-> w, act |-> v.act]
    BY <1>3
  <2> QED
    BY <2>1 DEF v, w
<1>5. e.rel = "unrelated"
  <2> HIDE DEF d, v
  <2>1. DOMAIN d = {"rel", "conf", "act"}
    BY <1>4
  <2> QED
    BY <2>1
<1>6. JudgeAnswer = IF d.rel = "relevant" /\ d.conf < RelevanceThreshold THEN e ELSE d
  BY DEF JudgeAnswer
<1> HIDE DEF d, e, v
<1>7. JudgeAnswer.rel \in Relevances
  BY <1>3, <1>4, <1>5, <1>6 DEF Relevances
<1>8. JudgeAnswer # None /\ JudgeAnswer # Failure
  BY <1>7, NothingIs DEF Relevances
<1>9. ASSUME ShouldPrice(JudgeAnswer) PROVE Backed(JudgeAnswer.act)
  <2>1. JudgeAnswer.rel = "relevant" /\ JudgeAnswer.conf >= TradeThreshold
    BY <1>9 DEF ShouldPrice
  <2>2. JudgeAnswer = d
    BY <1>5, <1>6, <2>1
  <2>3. v.rel = "relevant" /\ Discount(v) >= TradeThreshold /\ JudgeAnswer.act = v.act
    BY <1>4, <2>1, <2>2
  <2>4. v.conf * Multiplier >= TradeThreshold * FullConfidence
    BY <1>1, <2>3, Discounts DEF v
  <2> QED
    BY <1>1, <2>3, <2>4 DEF Backed, v
<1> QED
  BY <1>8, <1>9

\* A step that leaves the samples alone and answers nothing new to trade.
LEMMA BackedStays ==
  ASSUME UNCHANGED sample, NEW act
  PROVE  /\ Backed(act)' <=> Backed(act)
         /\ Ok' = Ok /\ SamplesOK' <=> SamplesOK
  BY DEF Backed, Ok, Said, Multiplier, SamplesOK, Open

LEMMA SampleKeeps == ASSUME CallsInv, NEW i \in {1, 2}, SampleRuns(i) PROVE CallsInv'
<1>0. /\ sample \in [{1, 2} -> Samples] /\ sample[i].made \in 0..MaxAttempts /\ sample[i].made < MaxAttempts
      /\ at \in {"prefetch", "judge"} /\ UNCHANGED <<at, prefetch, verdict, attempt, answer>>
      /\ spent \in Nat /\ spent' = spent + 1
  BY DEF CallsInv, SamplesOK, SampleRuns, Sampling, Samples, CostOK
<1>1. PICK g \in Verdicts \cup {None, Failure} :
        /\ sample' = [sample EXCEPT ![i] = [made |-> sample[i].made + 1, got |-> g]]
        /\ g = None => sample[i].made + 1 < MaxAttempts
  <2>1. CASE sample' = [sample EXCEPT ![i] = [made |-> Failed(sample[i].made).made,
                                              got |-> IF Failed(sample[i].made).raised THEN Failure ELSE None]]
    <3> DEFINE g == IF Failed(sample[i].made).raised THEN Failure ELSE None
    <3>1. Failed(sample[i].made).made = sample[i].made + 1
          /\ (Failed(sample[i].made).raised <=> sample[i].made + 1 = MaxAttempts)
      BY DEF Failed
    <3>2. g \in {None, Failure} /\ (g = None => sample[i].made + 1 # MaxAttempts)
      BY <3>1, NothingIs
    <3>3. sample' = [sample EXCEPT ![i] = [made |-> sample[i].made + 1, got |-> g]]
      BY <2>1, <3>1
    <3>4. sample[i].made + 1 # MaxAttempts => sample[i].made + 1 < MaxAttempts
      BY <1>0, CallNumbers
    <3> HIDE DEF g
    <3> QED
      BY <3>2, <3>3, <3>4
  <2>2. CASE \E v \in {v \in Verdicts : ValidVerdict(v)} \cup {Failure} :
               sample' = [sample EXCEPT ![i] = [made |-> @.made + 1, got |-> v]]
    <3>1. PICK v \in Verdicts \cup {Failure} :
            sample' = [sample EXCEPT ![i] = [made |-> sample[i].made + 1, got |-> v]]
      BY <2>2, <1>0
    <3>2. v # None
      BY NothingIs
    <3> QED
      BY <3>1, <3>2
  <2> QED
    BY <2>1, <2>2 DEF SampleRuns
<1> DEFINE x == [made |-> sample[i].made + 1, got |-> g]
<1>2. x \in Samples /\ x.made = sample[i].made + 1 /\ x.got = g
  BY <1>0, CallNumbers DEF Samples
<1>3. sample' \in [{1, 2} -> Samples] /\ sample'[i] = x /\ \A j \in {1, 2} \ {i} : sample'[j] = sample[j]
  <2> HIDE DEF x
  <2>1. sample' = [sample EXCEPT ![i] = x]
    BY <1>1 DEF x
  <2> QED
    BY <1>0, <1>2, <2>1
<1>4. SamplesOK'
  <2> HIDE DEF x
  <2> QED
    BY <1>1, <1>2, <1>3 DEF SamplesOK, Open, CallsInv
<1>5. sample'[1].made + sample'[2].made = sample[1].made + sample[2].made + 1
  <2> HIDE DEF x
  <2>1. sample[1].made \in Nat /\ sample[2].made \in Nat
    BY <1>0, CallNumbers DEF Samples
  <2> QED
    BY <1>2, <1>3, <2>1
<1>6. /\ sample[1].made \in Nat /\ sample[2].made \in Nat /\ sample'[1].made \in Nat /\ sample'[2].made \in Nat
      /\ Wasted \in Nat /\ Wasted' = Wasted
  BY <1>0, <1>3, CallNumbers DEF Samples, Wasted
<1>7. CostOK'
  <2> HIDE DEF x
  <2> QED
    BY <1>0, <1>5, <1>6 DEF CallsInv, CostOK
<1>8. TradeOK'
  <2>1. answer = NoAnswer
    BY <1>0 DEF CallsInv, TradeOK
  <2> QED
    BY <1>0, <2>1, NothingIs DEF TradeOK
<1> QED
  BY <1>0, <1>4, <1>7, <1>8 DEF CallsInv

LEMMA AskKeeps == ASSUME CallsInv, Prefetch \/ AskPassive \/ AskActive PROVE CallsInv'
<1>1. /\ sample' = [i \in {1, 2} |-> Waiting] /\ answer' = NoAnswer /\ spent' = 0 /\ prefetch' = None
      /\ attempt' \in Nat /\ at' \in {"prefetch", "judge", "news", "playbook"}
      /\ at' \in {"news", "playbook"} => verdict' = None /\ attempt' = 0
  BY DEF Prefetch, AskPassive, AskActive, NewSample, CallsInv, CostOK
<1>2. SamplesOK' /\ sample'[1].made = 0 /\ sample'[2].made = 0
  BY <1>1, FreshSamples
<1>3. Wasted' = 0
  BY <1>1, NothingIs DEF Wasted
<1>4. CostOK'
  <2>1. CASE at' \in {"prefetch", "judge"}
    BY <1>1, <1>2, <1>3, <2>1 DEF CostOK
  <2>2. CASE at' \in {"news", "playbook"}
    <3>1. attempt' = 0 /\ spent' = 0 /\ prefetch' = None
      BY <1>1, <2>2
    <3>2. MaxAttempts \in Nat /\ 0 < MaxAttempts
      BY CallNumbers
    <3> QED
      BY <2>2, <3>1, <3>2 DEF CostOK
  <2> QED
    BY <1>1, <2>1, <2>2
<1>5. TradeOK'
  BY <1>1, NothingIs DEF TradeOK
<1> QED
  BY <1>1, <1>2, <1>4, <1>5 DEF CallsInv, CallStages

LEMMA AskNothingKeeps == ASSUME CallsInv, AskNothing PROVE CallsInv'
<1>1. UNCHANGED <<at, sample, prefetch, verdict, attempt, spent>> /\ at = "idle" /\ answer' = Skipped
  BY DEF AskNothing
<1>2. SamplesOK' /\ CostOK'
  BY <1>1 DEF CallsInv, SamplesOK, Open, CostOK, Wasted
<1>3. TradeOK'
  BY <1>1, NothingIs DEF TradeOK
<1> QED
  BY <1>1, <1>2, <1>3 DEF CallsInv

\* The samples have cost at most what two calls may.
LEMMA SampleCost ==
  ASSUME CallsInv
  PROVE  /\ sample[1].made \in Nat /\ sample[2].made \in Nat /\ sample[1].made + sample[2].made <= 2 * MaxAttempts
         /\ Wasted \in Nat
<1>1. sample[1] \in Samples /\ sample[2] \in Samples
  BY DEF CallsInv, SamplesOK
<1>2. sample[1].made \in 0..MaxAttempts /\ sample[2].made \in 0..MaxAttempts
  BY <1>1 DEF Samples
<1> QED
  BY <1>2, CallNumbers DEF Wasted

LEMMA PrefetchEndsKeeps == ASSUME CallsInv, PrefetchEnds PROVE CallsInv'
<1>1. /\ at = "prefetch" /\ at' = "ready" /\ UNCHANGED <<sample, verdict, attempt, answer, spent>>
      /\ prefetch' = IF Ok = {} THEN Failure ELSE JudgeAnswer
  BY DEF PrefetchEnds
<1>2. SamplesOK' /\ SamplesOK
  BY <1>1 DEF CallsInv, SamplesOK, Open
<1>3. CostOK'
  <2>1. spent \in Nat /\ spent <= 2 * MaxAttempts /\ attempt \in Nat
    BY <1>1, SampleCost, CallNumbers DEF CallsInv, CostOK
  <2>2. prefetch' # None
    BY <1>1, <1>2, Judges, NothingIs
  <2> QED
    BY <1>1, <2>1, <2>2 DEF CostOK
<1>4. TradeOK'
  <2>1. answer = NoAnswer
    BY <1>1 DEF CallsInv, TradeOK
  <2>2. prefetch' \notin {None, Failure} /\ ShouldPrice(prefetch)' => Backed(prefetch.act)'
    <3>0. PICK p : p = prefetch'
      OBVIOUS
    <3> SUFFICES ASSUME p \notin {None, Failure}, ShouldPrice(p) PROVE Backed(p.act)'
      BY <3>0 DEF ShouldPrice, Backed, Ok, Said, Multiplier
    <3>1. Ok # {} /\ p = JudgeAnswer
      BY <1>1, <3>0
    <3>2. Backed(p.act)
      BY <1>2, <3>1, Judges
    <3> QED
      BY <1>1, <3>2 DEF Backed, Ok, Said, Multiplier
  <2> QED
    BY <1>1, <2>1, <2>2, NothingIs DEF TradeOK
<1> QED
  BY <1>1, <1>2, <1>3, <1>4 DEF CallsInv, CallStages

\* The route of a verdict that is backed if it is to be priced.
LEMMA RouteKeeps ==
  ASSUME CallsInv, NEW v, Route(v), ShouldPrice(v) => Backed(v.act), UNCHANGED <<sample, prefetch, spent>>,
         spent <= Wasted + 2 * MaxAttempts, answer = NoAnswer
  PROVE  CallsInv'
<1>1. SamplesOK'
  BY DEF CallsInv, SamplesOK, Open
<1>2. Wasted' = Wasted /\ Wasted \in Nat /\ spent \in Nat /\ attempt' = 0 /\ verdict' = v
  BY SampleCost DEF Wasted, Route, CallsInv, CostOK
<1>3. CASE ShouldPrice(v)
  <2>1. at' = "price" /\ UNCHANGED answer
    BY <1>3 DEF Route
  <2>2. CostOK'
    BY <1>2, <2>1, CallNumbers DEF CostOK
  <2>3. Backed(v.act)'
    BY <1>3, <1>2 DEF Backed, Ok, Said, Multiplier
  <2>4. Backed(verdict.act)' /\ ShouldPrice(verdict)'
    BY <1>2, <1>3, <2>3 DEF Backed, ShouldPrice, Ok, Said, Multiplier
  <2>5. TradeOK'
    BY <2>1, <2>4, NothingIs DEF TradeOK
  <2> QED
    BY <1>1, <2>1, <2>2, <2>5 DEF CallsInv, CallStages
<1>4. CASE ~ShouldPrice(v)
  <2>1. at' = "idle" /\ answer' = Playbooked(v, FALSE)
    BY <1>4 DEF Route
  <2>2. answer'.now = FALSE
    BY <1>4, <2>1 DEF Playbooked
  <2>3. CostOK'
    BY <1>2, <2>1, CallNumbers DEF CostOK
  <2>4. TradeOK'
    BY <2>1, <2>2 DEF TradeOK
  <2> QED
    BY <1>1, <2>1, <2>3, <2>4 DEF CallsInv, CallStages
<1> QED
  BY <1>3, <1>4

LEMMA JudgeEndsKeeps == ASSUME CallsInv, JudgeEnds PROVE CallsInv'
<1>1. at = "judge" /\ UNCHANGED <<sample, prefetch, spent>> /\ answer = NoAnswer
  BY DEF JudgeEnds, CallsInv, TradeOK
<1>2. spent <= Wasted + 2 * MaxAttempts /\ spent \in Nat /\ Wasted \in Nat
  BY <1>1, SampleCost, CallNumbers DEF CallsInv, CostOK
<1>3. CASE Ok = {}
  <2>1. at' = "idle" /\ answer' = Raised /\ UNCHANGED <<verdict, attempt>>
    BY <1>3 DEF JudgeEnds
  <2>2. SamplesOK'
    BY <1>1 DEF CallsInv, SamplesOK, Open
  <2>3. CostOK'
    BY <1>1, <1>2, <2>1, CallNumbers DEF CostOK, CallsInv, Wasted
  <2>4. TradeOK'
    BY <2>1, NothingIs DEF TradeOK
  <2> QED
    BY <2>1, <2>2, <2>3, <2>4 DEF CallsInv, CallStages
<1>4. CASE Ok # {}
  <2>1. Route(JudgeAnswer)
    BY <1>4 DEF JudgeEnds
  <2>2. ShouldPrice(JudgeAnswer) => Backed(JudgeAnswer.act)
    BY <1>4, Judges DEF CallsInv
  <2> QED
    BY <1>1, <1>2, <2>1, <2>2, RouteKeeps
<1> QED
  BY <1>3, <1>4

LEMMA AskPrefetchedKeeps == ASSUME CallsInv, AskPrefetched PROVE CallsInv'
<1>0. PICK same \in BOOLEAN :
        IF Reusable(same)
        THEN Route(prefetch) /\ UNCHANGED <<sample, prefetch>>
        ELSE /\ at' = "judge"
             /\ sample' = [i \in {1, 2} |-> Waiting]
             /\ prefetch' = Failure
             /\ UNCHANGED <<verdict, attempt, answer>>
  BY DEF AskPrefetched
<1>1. at = "ready" /\ UNCHANGED spent /\ answer = NoAnswer
  BY DEF AskPrefetched, CallsInv, TradeOK
<1>2. spent <= 2 * MaxAttempts /\ spent \in Nat /\ Wasted \in Nat
  BY <1>1, SampleCost DEF CallsInv, CostOK
<1>3. CASE Reusable(same)
  <2>1. Route(prefetch) /\ UNCHANGED <<sample, prefetch>>
    BY <1>0, <1>3
  <2>2. ShouldPrice(prefetch) => Backed(prefetch.act)
    BY <1>1, <1>3 DEF CallsInv, TradeOK, Reusable
  <2>3. spent <= Wasted + 2 * MaxAttempts
    BY <1>2, CallNumbers
  <2> QED
    BY <1>1, <2>1, <2>2, <2>3, RouteKeeps
<1>4. CASE ~Reusable(same)
  <2>1. /\ at' = "judge" /\ sample' = [i \in {1, 2} |-> Waiting] /\ prefetch' = Failure
        /\ UNCHANGED <<verdict, attempt, answer>>
    BY <1>0, <1>4
  <2>2. SamplesOK' /\ sample'[1].made = 0 /\ sample'[2].made = 0
    BY <2>1, FreshSamples
  <2>3. Wasted' = 2 * MaxAttempts
    BY <2>1 DEF Wasted
  <2>4. CostOK'
    BY <1>1, <1>2, <2>1, <2>2, <2>3, CallNumbers DEF CostOK, CallsInv
  <2>5. TradeOK'
    BY <1>1, <2>1, NothingIs DEF TradeOK
  <2> QED
    BY <2>1, <2>2, <2>4, <2>5 DEF CallsInv, CallStages
<1> QED
  BY <1>3, <1>4

\* A further call of the query returns, fails, or raises out of it.
LEMMA ReturnKeeps == ASSUME CallsInv, CallReturns PROVE CallsInv'
<1>0. /\ at \in {"price", "news", "playbook"} /\ UNCHANGED <<sample, prefetch, verdict>> /\ spent' = spent + 1
      /\ answer = NoAnswer /\ attempt \in Nat /\ attempt < MaxAttempts /\ spent \in Nat /\ Wasted \in Nat
      /\ Wasted' = Wasted /\ MaxAttempts \in Nat
  BY SampleCost, CallNumbers DEF CallReturns, PriceRuns, NewsRuns, PlaybookRuns, CallsInv, CostOK, TradeOK, Wasted
<1>1. SamplesOK'
  BY <1>0 DEF CallsInv, SamplesOK, Open
<1>2. spent + 1 <= Wasted + 3 * MaxAttempts
  BY <1>0 DEF CallsInv, CostOK
<1>3. ASSUME at' = "idle", attempt' \in Nat PROVE CostOK'
  BY <1>0, <1>2, <1>3 DEF CostOK
<1>4. ASSUME at' = "idle", answer' = Raised PROVE TradeOK'
  BY <1>4, NothingIs DEF TradeOK
<1>5. CASE CallFails
  <2>1. attempt' = attempt + 1
    BY <1>5 DEF CallFails, Failed
  <2>2. CASE Failed(attempt).raised
    <3>1. at' = "idle" /\ answer' = Raised
      BY <1>5, <2>2 DEF CallFails
    <3>2. attempt' \in Nat
      BY <1>0, <2>1
    <3> QED
      BY <1>1, <1>3, <1>4, <3>1, <3>2 DEF CallsInv, CallStages
  <2>3. CASE ~Failed(attempt).raised
    <3>1. UNCHANGED <<at, answer>>
      BY <1>5, <2>3 DEF CallFails
    <3>2. attempt + 1 < MaxAttempts
      <4>1. Failed(attempt).raised <=> attempt + 1 = MaxAttempts
        BY DEF Failed
      <4>2. attempt + 1 # MaxAttempts
        BY <2>3, <4>1
      <4> QED
        BY <1>0, <4>2
    <3>3. CostOK'
      BY <1>0, <2>1, <3>1, <3>2 DEF CallsInv, CostOK
    <3>4. TradeOK'
      BY <1>0, <3>1, NothingIs DEF CallsInv, TradeOK, ShouldPrice, Backed, Ok, Said, Multiplier
    <3> QED
      BY <1>1, <3>1, <3>3, <3>4 DEF CallsInv
  <2> QED
    BY <2>2, <2>3
<1>6. CASE at' = "idle" /\ attempt' = attempt + 1 /\ answer' = Raised
  <2>1. attempt' \in Nat
    BY <1>0, <1>6
  <2> QED
    BY <1>1, <1>3, <1>4, <1>6, <2>1 DEF CallsInv, CallStages
<1>7. CASE at = "price" /\ at' = "idle" /\ attempt' = attempt + 1 /\ answer' = Playbooked(verdict, TRUE)
  <2>1. attempt' \in Nat
    BY <1>0, <1>7
  <2>2. ShouldPrice(verdict) /\ Backed(verdict.act)
    BY <1>7 DEF CallsInv, TradeOK
  <2>3. answer'.priced /\ answer'.act = verdict.act
    BY <1>7, <2>2 DEF Playbooked
  <2>4. Backed(answer'.act)
    BY <2>2, <2>3
  <2>5. Backed(answer.act)'
    BY <1>0, <2>4 DEF Backed, Ok, Said, Multiplier
  <2>6. TradeOK'
    BY <1>7, <2>3, <2>5 DEF TradeOK
  <2> QED
    BY <1>1, <1>3, <1>7, <2>1, <2>6 DEF CallsInv, CallStages
<1>8. CASE at = "news" /\ at' = "playbook" /\ attempt' = 0 /\ UNCHANGED answer
  <2>1. verdict = None /\ prefetch = None
    BY <1>8 DEF CallsInv, TradeOK, CostOK
  <2>2. CostOK'
    BY <1>0, <1>8, <2>1, CallNumbers DEF CallsInv, CostOK
  <2>3. TradeOK'
    BY <1>0, <1>8, <2>1, NothingIs DEF TradeOK
  <2> QED
    BY <1>1, <1>8, <2>2, <2>3 DEF CallsInv, CallStages
<1>9. CASE at = "playbook" /\ at' = "idle" /\ attempt' = attempt + 1
  <2>1. verdict' = None /\ attempt' \in Nat
    BY <1>0, <1>9 DEF CallsInv, TradeOK
  <2>2. TradeOK'
    BY <1>9, <2>1 DEF TradeOK
  <2> QED
    BY <1>1, <1>3, <1>9, <2>1, <2>2 DEF CallsInv, CallStages
<1> QED
  BY <1>5, <1>6, <1>7, <1>8, <1>9 DEF CallReturns, PriceRuns, NewsRuns, PlaybookRuns

LEMMA NextCalls == CallsInv /\ [CallsNext]_callVars => CallsInv'
<1> SUFFICES ASSUME CallsInv, [CallsNext]_callVars PROVE CallsInv'
  OBVIOUS
<1>1. CASE UNCHANGED callVars
  BY <1>1 DEF callVars, CallsInv, SamplesOK, Open, CostOK, Wasted, TradeOK, ShouldPrice, Backed,
              Ok, Said, Multiplier
<1> QED
  BY <1>1, SampleKeeps, AskKeeps, AskNothingKeeps, PrefetchEndsKeeps, JudgeEndsKeeps, AskPrefetchedKeeps,
     ReturnKeeps DEF CallsNext, QueryGoesOn

\* The invariant has both properties of the calls.
LEMMA CallsSafe == CallsInv => TradesDiscounted /\ JudgedOnce
<1> SUFFICES ASSUME CallsInv PROVE TradesDiscounted /\ JudgedOnce
  OBVIOUS
<1>1. TradesDiscounted
  BY DEF CallsInv, TradeOK, TradesDiscounted, Backed, Multiplier
<1>2. JudgedOnce
  <2>1. /\ sample[1].made \in Nat /\ sample[2].made \in Nat /\ sample[1].made + sample[2].made <= 2 * MaxAttempts
        /\ Wasted \in Nat /\ MaxAttempts \in Nat \ {0} /\ spent \in Nat /\ attempt \in Nat
    BY SampleCost, CallNumbers DEF CallsInv, CostOK
  <2>2. spent <= Wasted + 3 * MaxAttempts
    BY <2>1 DEF CallsInv, CostOK, CallStages
  <2>3. CASE prefetch = Failure
    BY <2>1, <2>2, <2>3 DEF JudgedOnce, Wasted
  <2>4. CASE prefetch # Failure
    BY <2>1, <2>2, <2>4 DEF JudgedOnce, Wasted
  <2> QED
    BY <2>3, <2>4
<1> QED
  BY <1>1, <1>2
-----------------------------------------------------------------------------
(* The watcher.  While its process runs, the writer knows every event that *)
(* can be read from the file; a long event that is half written is not     *)
(* among them, and is the last line.                                       *)

IsSeq(s) == \E S : s \in Seq(S)
OnceIn(s) ==
  \A m, n \in DOMAIN s : s[m].form = "whole" /\ s[n].form = "whole" /\ s[m].item = s[n].item => m = n

WatchInv ==
  /\ IsSeq(file) /\ OnceIn(file)
  /\ main = [phase |-> main.phase, left |-> main.left]
  /\ main.phase # "down" => Readable(file) \subseteq keys
  /\ main.phase = "rest" => Unfinished /\ Head(main.left) \notin keys

LEMMA ReadableIs ==
  ASSUME NEW s, NEW i
  PROVE  i \in Readable(s) <=> \E n \in DOMAIN s : s[n].form = "whole" /\ s[n].item = i
  BY DEF Readable, Range

\* A line is added behind the others.
LEMMA LineAdded ==
  ASSUME NEW s, IsSeq(s), OnceIn(s), NEW l, l.form = "whole" => l.item \notin Readable(s)
  PROVE  /\ IsSeq(Append(s, l)) /\ OnceIn(Append(s, l))
         /\ Append(s, l) # <<>> /\ Last(Append(s, l)) = l
         /\ Readable(Append(s, l)) \subseteq Readable(s) \cup {l.item}
         /\ l.form # "whole" => Readable(Append(s, l)) \subseteq Readable(s)
<1>1. PICK S : s \in Seq(S)
  BY DEF IsSeq
<1>2. s \in Seq(S \cup {l})
  BY <1>1
<1>3. PICK t : t = Append(s, l)
  OBVIOUS
<1>4. /\ t \in Seq(S \cup {l}) /\ Len(s) \in Nat /\ Len(t) = Len(s) + 1 /\ t[Len(s) + 1] = l
      /\ \A n \in 1..Len(s) : t[n] = s[n]
  BY <1>2, <1>3
<1>5. DOMAIN s = 1..Len(s) /\ DOMAIN t = 1..Len(s) + 1
  BY <1>1, <1>4
<1>6. \A n \in DOMAIN t : n = Len(s) + 1 \/ n \in DOMAIN s
  BY <1>4, <1>5
<1>7. \A n \in DOMAIN s : n # Len(s) + 1 /\ t[n] = s[n] /\ (s[n].form = "whole" => s[n].item \in Readable(s))
  BY <1>4, <1>5, ReadableIs
<1>8. OnceIn(t)
  BY <1>4, <1>6, <1>7 DEF OnceIn
<1>9. \A n \in DOMAIN t : t[n].form = "whole" => t[n].item \in Readable(s) \/ (t[n] = l)
  BY <1>4, <1>6, <1>7
<1>10. /\ Readable(t) \subseteq Readable(s) \cup {l.item}
       /\ l.form # "whole" => Readable(t) \subseteq Readable(s)
  BY <1>9, ReadableIs
<1>11. t # <<>> /\ Last(t) = l
  BY <1>4 DEF Last
<1> QED
  BY <1>3, <1>4, <1>8, <1>10, <1>11 DEF IsSeq

\* The last line is taken away.
LEMMA LineTaken ==
  ASSUME NEW s, IsSeq(s), OnceIn(s), s # <<>>
  PROVE  IsSeq(Front(s)) /\ OnceIn(Front(s)) /\ Readable(Front(s)) \subseteq Readable(s)
<1>1. PICK S : s \in Seq(S)
  BY DEF IsSeq
<1>2. Len(s) \in Nat /\ Len(s) > 0 /\ DOMAIN s = 1..Len(s)
  BY <1>1
<1>3. PICK t : t = SubSeq(s, 1, Len(s) - 1)
  OBVIOUS
<1>4. t \in Seq(S) /\ Len(t) = Len(s) - 1 /\ \A n \in 1..Len(s) - 1 : t[n] = s[n]
  BY <1>1, <1>2, <1>3
<1>5. \A n \in DOMAIN t : n \in DOMAIN s /\ t[n] = s[n]
  BY <1>2, <1>4
<1>6. OnceIn(t)
  BY <1>5 DEF OnceIn
<1>7. Readable(t) \subseteq Readable(s)
  BY <1>5, ReadableIs
<1> QED
  BY <1>3, <1>4, <1>6, <1>7 DEF IsSeq, Front

LEMMA LineForms ==
  ASSUME NEW i
  PROVE  /\ Whole(i).item = i /\ Begun(i).form = "begun" /\ Broken(i).form = "broken"
  BY DEF Whole, Begun, Broken

LEMMA InitWatch == WatchInit => WatchInv
<1> SUFFICES ASSUME WatchInit PROVE WatchInv
  OBVIOUS
<1>1. file = <<>> /\ file \in Seq({}) /\ main = [phase |-> "down", left |-> <<>>]
  BY DEF WatchInit
<1>2. main.phase = "down" /\ main.left = <<>>
  BY <1>1
<1>3. OnceIn(file)
  BY <1>1 DEF OnceIn
<1> QED
  BY <1>1, <1>2, <1>3 DEF WatchInv, IsSeq

\* A step that leaves file, keys and the main thread alone.
LEMMA WatchRests == ASSUME WatchInv, UNCHANGED <<file, keys, main>> PROVE WatchInv'
  BY DEF WatchInv, Unfinished

\* The main thread goes on and the file does not.
LEMMA MainMoves ==
  ASSUME WatchInv, UNCHANGED <<file, keys>>, main.phase # "down",
         NEW p, NEW s, main' = [phase |-> p, left |-> s], p # "rest"
  PROVE  WatchInv'
<1>1. main'.phase = p /\ main'.left = s
  OBVIOUS
<1> QED
  BY <1>1 DEF WatchInv

LEMMA AppendsKeeps == ASSUME WatchInv, Appends PROVE WatchInv'
<1> DEFINE i == Head(main.left)
<1>0. /\ main.phase = "append" /\ main = [phase |-> main.phase, left |-> main.left]
      /\ IsSeq(file) /\ OnceIn(file) /\ Readable(file) \subseteq keys
  BY DEF Appends, WatchInv
<1> HIDE DEF i
<1>1. CASE main' = [main EXCEPT !.left = Tail(@)] /\ UNCHANGED <<keys, file>>
  <2>1. main' = [phase |-> "append", left |-> Tail(main.left)]
    BY <1>0, <1>1
  <2> QED
    BY <1>0, <1>1, <2>1, MainMoves
<1>2. CASE ~Known(i) /\ Written(i) /\ keys' = keys \cup {i} /\ main' = [main EXCEPT !.left = Tail(@)]
  <2>1. main' = [phase |-> "append", left |-> Tail(main.left)]
    BY <1>0, <1>2
  <2>2. main'.phase = "append" /\ main' = [phase |-> main'.phase, left |-> main'.left]
    BY <2>1
  <2>3. IsSeq(file') /\ OnceIn(file') /\ Readable(file') \subseteq keys'
    <3>1. CASE Unfinished
      <4>1. file' = Append(Front(file), Broken(i)) /\ file # <<>>
        BY <1>2, <3>1 DEF Written, Unfinished
      <4>2. IsSeq(Front(file)) /\ OnceIn(Front(file)) /\ Readable(Front(file)) \subseteq Readable(file)
        BY <1>0, <4>1, LineTaken
      <4>3. Broken(i).form # "whole"
        BY LineForms
      <4>4. IsSeq(file') /\ OnceIn(file') /\ Readable(file') \subseteq Readable(Front(file))
        BY <4>1, <4>2, <4>3, LineAdded
      <4> QED
        BY <1>0, <1>2, <4>2, <4>4
    <3>2. CASE ~Unfinished
      <4>1. file' = Append(file, Whole(i))
        BY <1>2, <3>2 DEF Written
      <4>2. Whole(i).item = i /\ i \notin Readable(file)
        BY <1>0, <1>2, LineForms DEF Known
      <4>3. IsSeq(file') /\ OnceIn(file') /\ Readable(file') \subseteq Readable(file) \cup {i}
        BY <1>0, <4>1, <4>2, LineAdded
      <4> QED
        BY <1>0, <1>2, <4>3
    <3> QED
      BY <3>1, <3>2
  <2> QED
    BY <2>2, <2>3 DEF WatchInv
<1>3. CASE /\ ~Known(i) /\ file' = Append(file, Begun(i)) /\ main' = [main EXCEPT !.phase = "rest"]
           /\ UNCHANGED keys
  <2>1. main' = [phase |-> "rest", left |-> main.left]
    BY <1>0, <1>3
  <2>2. main'.phase = "rest" /\ main'.left = main.left /\ main' = [phase |-> main'.phase, left |-> main'.left]
    BY <2>1
  <2>3. Begun(i).form = "begun"
    BY LineForms
  <2>4. /\ IsSeq(file') /\ OnceIn(file') /\ Readable(file') \subseteq Readable(file)
        /\ file' # <<>> /\ Last(file') = Begun(i)
    BY <1>0, <1>3, <2>3, LineAdded
  <2>5. Unfinished'
    BY <2>3, <2>4 DEF Unfinished
  <2>6. Head(main'.left) \notin keys'
    BY <1>3, <2>2 DEF Known, i
  <2> QED
    BY <1>0, <1>3, <2>2, <2>4, <2>5, <2>6 DEF WatchInv
<1> QED
  BY <1>1, <1>2, <1>3 DEF Appends, i

LEMMA AppendsRestKeeps == ASSUME WatchInv, AppendsRest PROVE WatchInv'
<1> DEFINE i == Head(main.left)
<1>0. /\ main.phase = "rest" /\ IsSeq(file) /\ OnceIn(file) /\ Readable(file) \subseteq keys
      /\ file # <<>> /\ i \notin keys
  BY DEF AppendsRest, WatchInv, Unfinished
<1>1. /\ file' = Append(Front(file), Whole(i)) /\ keys' = keys \cup {i}
      /\ main' = [phase |-> "append", left |-> Tail(main.left)]
  BY DEF AppendsRest
<1> HIDE DEF i
<1>2. main'.phase = "append" /\ main' = [phase |-> main'.phase, left |-> main'.left]
  BY <1>1
<1>3. IsSeq(Front(file)) /\ OnceIn(Front(file)) /\ Readable(Front(file)) \subseteq Readable(file)
  BY <1>0, LineTaken
<1>4. Whole(i).item = i /\ i \notin Readable(Front(file))
  BY <1>0, <1>3, LineForms
<1>5. IsSeq(file') /\ OnceIn(file') /\ Readable(file') \subseteq Readable(Front(file)) \cup {i}
  BY <1>1, <1>3, <1>4, LineAdded
<1> QED
  BY <1>0, <1>1, <1>2, <1>3, <1>5 DEF WatchInv

LEMMA NextWatch == WatchInv /\ [WatchNext]_watchVars => WatchInv'
<1> SUFFICES ASSUME WatchInv, [WatchNext]_watchVars PROVE WatchInv'
  OBVIOUS
<1>1. CASE UNCHANGED <<file, keys, main>>
  BY <1>1, WatchRests
<1>2. CASE Reap
  <2>1. CASE UNCHANGED main
    BY <1>2, <2>1, WatchRests DEF Reap
  <2>2. CASE main' = [phase |-> "append", left |-> poll.new]
    <3>1. main.phase # "down" /\ UNCHANGED <<file, keys>>
      BY <1>2 DEF Reap, Idle
    <3> QED
      BY <2>2, <3>1, MainMoves
  <2> QED
    BY <1>2, <2>1, <2>2 DEF Reap
<1>3. CASE SaveBegins
  <2>1. /\ main' = [phase |-> "save", left |-> main.left] /\ main.phase # "down"
        /\ UNCHANGED <<file, keys>>
    <3>1. main = [phase |-> main.phase, left |-> main.left]
      BY DEF WatchInv
    <3> QED
      BY <1>3, <3>1 DEF SaveBegins
  <2> QED
    BY <2>1, MainMoves
<1>4. CASE SaveEnds
  BY <1>4, MainMoves DEF SaveEnds, Idle
<1>5. CASE WatcherStops
  <2>1. main' = [phase |-> "down", left |-> <<>>] /\ UNCHANGED file
    BY <1>5 DEF WatcherStops
  <2>2. main'.phase = "down" /\ main' = [phase |-> main'.phase, left |-> main'.left]
    BY <2>1
  <2> QED
    BY <2>1, <2>2 DEF WatchInv
<1>6. CASE Starts
  <2>1. keys' = Readable(file) /\ UNCHANGED file
    BY <1>6 DEF Starts
  <2>2. PICK p, s : p \in {"append", "idle"} /\ main' = [phase |-> p, left |-> s]
    BY <1>6 DEF Starts, Idle
  <2>3. main'.phase # "rest" /\ main' = [phase |-> main'.phase, left |-> main'.left]
    BY <2>2
  <2> QED
    BY <2>1, <2>3 DEF WatchInv
<1>7. CASE Submit \/ Fetches \/ FetchFails \/ TimedOut \/ AgentPolls \/ AgentRestarts \/ AgentSeeks \/ Publish
  <2>1. UNCHANGED <<file, keys, main>>
    BY <1>7 DEF Submit, Fetches, Works, FetchFails, TimedOut, AgentPolls, AgentRestarts, AgentSeeks, Publish, watcher
  <2> QED
    BY <2>1, WatchRests
<1>8. CASE UNCHANGED watchVars
  BY <1>8, WatchRests DEF watchVars, watcher
<1> QED
  BY <1>2, <1>3, <1>4, <1>5, <1>6, <1>7, <1>8, AppendsKeeps, AppendsRestKeeps DEF WatchNext, MainLoop

\* The invariant has the property of the file.
LEMMA WatchSafe == WatchInv => WrittenOnce
  BY DEF WatchInv, OnceIn, WrittenOnce
-----------------------------------------------------------------------------
(* The proxy group.  What a fetch has not tried yet is known from where it *)
(* stands: a plain or Truth Social fetch that nothing disturbed has the    *)
(* nodes ahead of the one selected still to go, as many as rotations are   *)
(* left of a full turn; an MNI fetch has the candidates that are left.     *)

FetchAts == {"idle", "request", "rotate", "set", "survey", "next", "answered", "raised", "late", "asserted"}
Places == GroupNodes \cup {NestedGroup}
Causes == {"none", "status", "error", "over"}
Moods == {"calm", "upset", "disobeyed"}
Fetching ==
  [kind : FeedKinds, at : FetchAts, try : Nat, rotations : 0..MaxRotations, error : BOOLEAN,
   cause : Causes, left : Seq(GroupNodes), target : Places,
   original : Places, found : Places, alone : BOOLEAN, mood : Moods]

NodeOf(c) == IF c = NestedGroup THEN Nested ELSE c
Nodes == Len(NodeOrder)
Place(b) == CHOOSE k \in DOMAIN NodeOrder : NodeOrder[k] = b
Shift(i, k) == IF i + k <= Nodes THEN i + k ELSE i + k - Nodes
Ahead(b, m) == {NodeOrder[Shift(Place(b), k)] : k \in 1..m}

\* Where a fetch can stand.
StandsOK(r) ==
  /\ r.at \in {"rotate", "set"} => r.kind # "mni" /\ r.rotations < MaxRotations
  /\ r.at = "set" => r.target \in GroupNodes
  /\ r.kind = "truth" /\ r.at \in {"request", "rotate", "set"} => r.try = r.rotations + 1
  /\ r.at = "idle" => r.try = 1 /\ r.rotations = 0
  /\ r.at \in {"survey", "next"} => r.kind = "mni"
  /\ r.kind = "mni" => /\ r.rotations + Len(r.left) <= MaxRotations
                       /\ r.at = "idle" \/ r.at = "survey" \/ (r.at = "request" /\ r.try = 1)
                            => r.rotations = 0 /\ r.left = <<>>
                       /\ r.at = "request" /\ r.try # 1 => r.rotations >= 1
                       /\ r.at \in {"request", "next"} => r.try \in {1, 2}
                       /\ r.at = "next" => r.try = 2
                       /\ r.at = "survey" => r.try = 1
\* What an MNI fetch alone in the group knows of the place it found.
BackOK(r, c) ==
  r.kind = "mni" /\ r.alone =>
    /\ r.at \in {"request", "survey"} /\ r.try = 1 => c = r.found
    /\ r.at = "next" \/ (r.at = "request" /\ r.try # 1) => r.original = r.found
    /\ r.at = "raised" /\ r.mood # "disobeyed" => c = r.found
\* What an undisturbed fetch that may go through the whole group has left.
Here(r, c) == IF r.at = "request" THEN {NodeOf(c)} ELSE {}
ToGo(r, c) == IF r.kind = "mni" THEN Range(r.left) ELSE Ahead(NodeOf(c), Nodes - 1 - r.rotations)
TriedOK(r, c, w) ==
  r.alone /\ r.mood = "calm" /\ MaxRotations + 1 >= Nodes =>
    /\ r.at = "survey" => NodeOf(c) \notin w
    /\ r.at \in {"request", "rotate", "set", "next"} /\ ~(r.kind = "mni" /\ r.try = 1)
         => w \subseteq Here(r, c) \cup ToGo(r, c)
    /\ r.at \in {"request", "rotate", "set"} /\ r.kind # "mni" /\ w # {} => r.try = r.rotations + 1
    /\ r.at = "set" /\ w # {} => r.target = NodeOrder[Shift(Place(NodeOf(c)), 1)]
    /\ r.at = "raised" => w = {}
FetchOK(f, r, c, w) == StandsOK(r) /\ BackOK(r, c) /\ (f \notin Probing => TriedOK(r, c, w))

ProxyInv ==
  /\ chosen \in Places /\ working \subseteq GroupNodes
  /\ fetch \in [Feeds -> Fetching]
  /\ \A f \in Feeds : FetchOK(f, fetch[f], chosen, working)

LEMMA ProxyNumbers ==
  /\ MaxRotations \in Nat /\ RetryCount \in Nat /\ MaxFetches \in Nat /\ MaxFetches >= MaxRotations + 1
  /\ Nodes \in Nat /\ Nodes >= 1 /\ NodeOrder \in [1..Nodes -> GroupNodes] /\ DOMAIN NodeOrder = 1..Nodes
<1>1. MaxRotations \in Nat /\ RetryCount \in Nat /\ NodeOrder # <<>> /\ NodeOrder \in Seq(GroupNodes)
  BY FailoverAssumption
<1>2. Nodes \in Nat /\ Nodes >= 1 /\ NodeOrder \in [1..Nodes -> GroupNodes] /\ DOMAIN NodeOrder = 1..Nodes
  BY <1>1 DEF Nodes
<1> QED
  BY <1>1, <1>2 DEF MaxFetches

LEMMA NodeOfIs == ASSUME NEW c \in Places PROVE NodeOf(c) \in GroupNodes /\ (c \in GroupNodes => NodeOf(c) = c)
  BY FailoverAssumption DEF Places, NodeOf

LEMMA PlaceIs ==
  ASSUME NEW i \in 1..Nodes
  PROVE  NodeOrder[i] \in GroupNodes /\ Place(NodeOrder[i]) = i
<1>1. \A k \in 1..Nodes : NodeOrder[k] = NodeOrder[i] => k = i
  BY FailoverAssumption, ProxyNumbers DEF IsInjective
<1>2. Place(NodeOrder[i]) \in 1..Nodes /\ NodeOrder[Place(NodeOrder[i])] = NodeOrder[i]
  BY ProxyNumbers DEF Place
<1> QED
  BY <1>1, <1>2, ProxyNumbers

LEMMA HasPlace ==
  ASSUME NEW b \in GroupNodes
  PROVE  Place(b) \in 1..Nodes /\ NodeOrder[Place(b)] = b
<1>1. PICK i \in 1..Nodes : NodeOrder[i] = b
  BY ProxyNumbers DEF GroupNodes, Range
<1> QED
  BY <1>1, PlaceIs

\* A full turn reaches every node.
LEMMA FullTurn ==
  ASSUME NEW b \in GroupNodes
  PROVE  GroupNodes \subseteq {b} \cup Ahead(b, Nodes - 1)
<1> SUFFICES ASSUME NEW n \in GroupNodes, n # b PROVE n \in Ahead(b, Nodes - 1)
  OBVIOUS
<1> DEFINE i == Place(b)
           j == Place(n)
<1>1. i \in 1..Nodes /\ j \in 1..Nodes /\ NodeOrder[i] = b /\ NodeOrder[j] = n /\ i # j
  BY HasPlace
<1> HIDE DEF i, j
<1>2. PICK k : k = IF j > i THEN j - i ELSE j + Nodes - i
  OBVIOUS
<1>3. k \in 1..(Nodes - 1) /\ Shift(i, k) = j
  BY <1>1, <1>2, ProxyNumbers DEF Shift
<1> QED
  BY <1>1, <1>3 DEF Ahead, i

\* A node further on, one node fewer is ahead.
LEMMA OneOn ==
  ASSUME NEW b \in GroupNodes, NEW m \in Int, m <= Nodes - 1, NEW c, c = NodeOrder[Shift(Place(b), 1)]
  PROVE  c \in GroupNodes /\ Ahead(b, m) \subseteq {c} \cup Ahead(c, m - 1)
<1> DEFINE i == Place(b)
           j == Shift(i, 1)
<1>1. i \in 1..Nodes
  BY HasPlace
<1>2. j \in 1..Nodes /\ j = IF i = Nodes THEN 1 ELSE i + 1
  BY <1>1, ProxyNumbers DEF Shift
<1>3. c \in GroupNodes /\ Place(c) = j
  BY <1>2, PlaceIs
<1> HIDE DEF i, j
<1>4. ASSUME NEW k \in 1..m PROVE NodeOrder[Shift(i, k)] \in {c} \cup Ahead(c, m - 1)
  <2>1. CASE k = 1
    BY <2>1 DEF i, j
  <2>2. CASE k # 1
    <3>1. k - 1 \in 1..(m - 1) /\ Shift(j, k - 1) = Shift(i, k)
      BY <1>1, <1>2, <2>2, ProxyNumbers DEF Shift
    <3> QED
      BY <1>3, <3>1 DEF Ahead
  <2> QED
    BY <2>1, <2>2
<1> QED
  BY <1>3, <1>4 DEF Ahead, i

LEMMA OrderedIs ==
  ASSUME NEW b \in GroupNodes
  PROVE  /\ Ordered(b) \in Seq(GroupNodes) /\ Len(Ordered(b)) = Nodes - 1
         /\ \A k \in 1..(Nodes - 1) : Ordered(b)[k] = NodeOrder[Shift(Place(b), k)]
<1> DEFINE i == Place(b)
<1>1. i \in 1..Nodes
  BY HasPlace
<1>2. Ordered(b) = SubSeq(NodeOrder, i + 1, Nodes) \o SubSeq(NodeOrder, 1, i - 1)
  BY DEF Ordered, Place, Nodes
<1> HIDE DEF i
<1>3. NodeOrder \in Seq(GroupNodes) /\ Len(NodeOrder) = Nodes /\ Nodes \in Nat /\ Nodes >= 1
  BY FailoverAssumption, ProxyNumbers DEF Nodes
<1>4. PICK s, t : s = SubSeq(NodeOrder, i + 1, Nodes) /\ t = SubSeq(NodeOrder, 1, i - 1)
  OBVIOUS
<1>5. /\ s \in Seq(GroupNodes) /\ Len(s) = Nodes - i
      /\ \A k \in 1..(Nodes - i) : s[k] = NodeOrder[i + k]
  <2>1. CASE i = Nodes
    BY <1>1, <1>3, <1>4, <2>1
  <2>2. CASE i < Nodes
    BY <1>1, <1>3, <1>4, <2>2
  <2> QED
    BY <1>1, <1>3, <2>1, <2>2
<1>6. /\ t \in Seq(GroupNodes) /\ Len(t) = i - 1
      /\ \A k \in 1..(i - 1) : t[k] = NodeOrder[k]
  <2>1. CASE i = 1
    BY <1>1, <1>3, <1>4, <2>1
  <2>2. CASE i > 1
    BY <1>1, <1>3, <1>4, <2>2
  <2> QED
    BY <1>1, <1>3, <2>1, <2>2
<1>7. PICK u : u = s \o t
  OBVIOUS
<1>8. /\ u \in Seq(GroupNodes) /\ Len(u) = Nodes - 1
      /\ \A k \in 1..(Nodes - 1) : u[k] = IF k <= Nodes - i THEN s[k] ELSE t[k - (Nodes - i)]
  <2>1. Len(s) \in Nat /\ Len(t) \in Nat /\ Len(s) + Len(t) = Nodes - 1
    BY <1>1, <1>3, <1>5, <1>6
  <2>0. s \in Seq(GroupNodes) /\ t \in Seq(GroupNodes)
    BY <1>5, <1>6
  <2>2. u \in Seq(GroupNodes) /\ Len(u) = Len(s) + Len(t)
    BY <2>0, <1>7
  <2>3. \A k \in 1..(Len(s) + Len(t)) : u[k] = IF k <= Len(s) THEN s[k] ELSE t[k - Len(s)]
    BY <2>0, <1>7, <2>1
  <2>4. 1..(Len(s) + Len(t)) = 1..(Nodes - 1)
    BY <2>1
  <2> QED
    BY <1>5, <2>1, <2>2, <2>3, <2>4
<1>9. ASSUME NEW k \in 1..(Nodes - 1) PROVE u[k] = NodeOrder[Shift(i, k)]
  <2>1. CASE k <= Nodes - i
    BY <1>1, <1>3, <1>5, <1>8, <2>1 DEF Shift
  <2>2. CASE ~(k <= Nodes - i)
    <3>1. k - (Nodes - i) \in 1..(i - 1) /\ Shift(i, k) = k - (Nodes - i)
      BY <1>1, <1>3, <2>2 DEF Shift
    <3> QED
      BY <1>6, <1>8, <2>2, <3>1
  <2> QED
    BY <2>1, <2>2
<1> QED
  BY <1>2, <1>4, <1>7, <1>8, <1>9 DEF i

LEMMA FetchFields ==
  ASSUME NEW r \in Fetching
  PROVE  /\ r.kind \in FeedKinds /\ r.at \in FetchAts /\ r.try \in Nat /\ r.rotations \in 0..MaxRotations
         /\ r.rotations \in Nat /\ r.rotations <= MaxRotations /\ r.left \in Seq(GroupNodes)
         /\ r.target \in Places /\ r.original \in Places /\ r.found \in Places
         /\ r.alone \in BOOLEAN /\ r.mood \in Moods
  BY ProxyNumbers DEF Fetching

LEMMA InvParts ==
  ASSUME ProxyInv, NEW f \in Feeds
  PROVE  /\ chosen \in Places /\ working \subseteq GroupNodes /\ fetch[f] \in Fetching
         /\ FetchOK(f, fetch[f], chosen, working) /\ NodeOf(chosen) = Behind /\ Behind \in GroupNodes
  BY NodeOfIs DEF ProxyInv, Behind, NodeOf

\* What an error or its cause changes in a fetch says nothing of where it stands.
LEMMA SameFetch ==
  ASSUME NEW f, NEW r, NEW s, NEW c, NEW w, FetchOK(f, r, c, w),
         s.kind = r.kind, s.at = r.at, s.try = r.try, s.rotations = r.rotations, s.left = r.left,
         s.target = r.target, s.original = r.original, s.found = r.found, s.alone = r.alone, s.mood = r.mood
  PROVE  FetchOK(f, s, c, w)
<1>1. StandsOK(s)
  BY DEF FetchOK, StandsOK
<1>2. BackOK(s, c)
  BY DEF FetchOK, BackOK
<1>3. f \notin Probing => TriedOK(s, c, w)
  <2>1. Here(s, c) = Here(r, c) /\ ToGo(s, c) = ToGo(r, c)
    BY DEF Here, ToGo
  <2> QED
    BY <2>1 DEF FetchOK, TriedOK
<1> QED
  BY <1>1, <1>2, <1>3 DEF FetchOK

\* A fetch goes on where it is.
LEMMA GoesKeeps ==
  ASSUME ProxyInv, NEW f \in Feeds, NEW r \in Fetching, FetchOK(f, r, chosen, working), Goes(f, r),
         UNCHANGED <<chosen, working>>
  PROVE  ProxyInv'
<1>1. fetch' = [fetch EXCEPT ![f] = r] /\ fetch \in [Feeds -> Fetching]
  BY DEF Goes, ProxyInv
<1>2. fetch' \in [Feeds -> Fetching] /\ fetch'[f] = r /\ \A g \in Feeds : g # f => fetch'[g] = fetch[g]
  BY <1>1
<1>3. \A g \in Feeds : FetchOK(g, fetch'[g], chosen', working')
  BY <1>2 DEF ProxyInv
<1> QED
  BY <1>2, <1>3 DEF ProxyInv

\* What is left of a fetch that was disturbed.
LEMMA Disturbed ==
  ASSUME NEW f, NEW r \in Fetching, StandsOK(r), NEW d, d = [r EXCEPT !.alone = FALSE], NEW c, NEW w
  PROVE  d \in Fetching /\ FetchOK(f, d, c, w)
<1>1. d \in Fetching
  BY DEF Fetching
<1>2. /\ d.kind = r.kind /\ d.at = r.at /\ d.try = r.try /\ d.rotations = r.rotations /\ d.left = r.left
      /\ d.target = r.target /\ ~d.alone
  BY DEF Fetching
<1>3. StandsOK(d)
  BY <1>2 DEF StandsOK
<1> QED
  BY <1>1, <1>2, <1>3 DEF FetchOK, BackOK, TriedOK

LEMMA UpsetKeeps ==
  ASSUME NEW f, NEW r \in Fetching, NEW c, StandsOK(r), BackOK(r, c), NEW m \in Moods,
         m # "calm", r.mood = "disobeyed" => m = "disobeyed", NEW d, d = [r EXCEPT !.mood = m], NEW w
  PROVE  d \in Fetching /\ FetchOK(f, d, c, w)
<1>1. d \in Fetching
  BY DEF Fetching
<1>2. /\ d.kind = r.kind /\ d.at = r.at /\ d.try = r.try /\ d.rotations = r.rotations /\ d.left = r.left
      /\ d.target = r.target /\ d.mood = m /\ d.alone = r.alone /\ d.original = r.original /\ d.found = r.found
  BY DEF Fetching
<1>3. StandsOK(d)
  BY <1>2 DEF StandsOK
<1>4. BackOK(d, c)
  BY <1>2 DEF BackOK
<1> QED
  BY <1>1, <1>2, <1>3, <1>4 DEF FetchOK, TriedOK

LEMMA UpsetIs ==
  ASSUME NEW m \in Moods
  PROVE  Upset(m) \in Moods /\ Upset(m) # "calm" /\ (m = "disobeyed" => Upset(m) = "disobeyed")
  BY DEF Upset, Moods

\* A fetch moves the group.
LEMMA MovesKeeps ==
  ASSUME ProxyInv, NEW f \in Feeds, NEW n \in Places, NEW r \in Fetching, FetchOK(f, r, n, working),
         Moves(f, n, r), UNCHANGED working
  PROVE  ProxyInv'
<1>1. /\ chosen' = n /\ fetch \in [Feeds -> Fetching]
      /\ fetch' = [g \in Feeds |-> IF g = f THEN r ELSE [fetch[g] EXCEPT !.alone = FALSE]]
  BY DEF Moves, ProxyInv
<1>2. ASSUME NEW g \in Feeds PROVE fetch'[g] \in Fetching /\ FetchOK(g, fetch'[g], chosen', working')
  <2>1. CASE g = f
    BY <1>1, <2>1
  <2>2. CASE g # f
    <3>1. fetch[g] \in Fetching /\ StandsOK(fetch[g])
      BY DEF ProxyInv, FetchOK
    <3>2. PICK d : d = [fetch[g] EXCEPT !.alone = FALSE]
      OBVIOUS
    <3>3. fetch'[g] = d
      BY <1>1, <2>2, <3>2
    <3>4. d \in Fetching /\ FetchOK(g, d, chosen', working')
      BY <3>1, <3>2, Disturbed
    <3> QED
      BY <3>3, <3>4
  <2> QED
    BY <2>1, <2>2
<1>3. fetch' \in [Feeds -> Fetching]
  <2>1. DOMAIN fetch' = Feeds /\ fetch' = [g \in Feeds |-> fetch'[g]]
    BY <1>1
  <2> QED
    BY <1>2, <2>1
<1> QED
  BY <1>1, <1>2, <1>3 DEF ProxyInv

LEMMA NodeChangesKeeps == ASSUME ProxyInv, NodeChanges PROVE ProxyInv'
<1>1. /\ chosen' = chosen /\ fetch \in [Feeds -> Fetching] /\ working' \subseteq GroupNodes
      /\ fetch' = [g \in Feeds |-> [fetch[g] EXCEPT !.mood = Upset(fetch[g].mood)]]
  BY DEF NodeChanges, ProxyInv
<1>2. ASSUME NEW g \in Feeds PROVE fetch'[g] \in Fetching /\ FetchOK(g, fetch'[g], chosen', working')
  <2>1. fetch[g] \in Fetching /\ StandsOK(fetch[g]) /\ BackOK(fetch[g], chosen)
    BY DEF ProxyInv, FetchOK
  <2>2. PICK m : m = Upset(fetch[g].mood)
    OBVIOUS
  <2>3. PICK d : d = [fetch[g] EXCEPT !.mood = m]
    OBVIOUS
  <2>4. fetch'[g] = d
    BY <1>1, <2>2, <2>3
  <2>5. m \in Moods /\ m # "calm" /\ (fetch[g].mood = "disobeyed" => m = "disobeyed")
    BY <2>1, <2>2, FetchFields, UpsetIs
  <2>6. d \in Fetching /\ FetchOK(g, d, chosen', working')
    BY <1>1, <2>1, <2>3, <2>5, UpsetKeeps
  <2> QED
    BY <2>4, <2>6
<1>3. fetch' \in [Feeds -> Fetching]
  <2>1. DOMAIN fetch' = Feeds /\ fetch' = [g \in Feeds |-> fetch'[g]]
    BY <1>1
  <2> QED
    BY <1>2, <2>1
<1> QED
  BY <1>1, <1>2, <1>3 DEF ProxyInv

\* A fetch comes to its end.
LEMMA EndsOK ==
  ASSUME NEW f, NEW r \in Fetching, NEW c, NEW w, NEW x \in {"answered", "raised", "late", "asserted"},
         x = "raised" /\ r.alone =>
            /\ r.kind = "mni" /\ r.mood # "disobeyed" => c = r.found
            /\ r.mood = "calm" /\ f \notin Probing /\ MaxRotations + 1 >= Nodes => w = {}
  PROVE  Ends(r, x) \in Fetching /\ FetchOK(f, Ends(r, x), c, w)
<1>1. PICK e : e = Ends(r, x)
  OBVIOUS
<1>2. e = [kind |-> r.kind, at |-> x, try |-> 1, rotations |-> 0, error |-> FALSE,
           cause |-> "none", left |-> <<>>, target |-> NestedGroup, original |-> NestedGroup,
           found |-> r.found, alone |-> r.alone, mood |-> r.mood]
  BY <1>1 DEF Ends, NotFetching
<1>3. r.kind \in FeedKinds /\ r.found \in Places /\ r.alone \in BOOLEAN /\ r.mood \in Moods
  BY FetchFields
<1>4. <<>> \in Seq(GroupNodes) /\ "none" \in Causes /\ NestedGroup \in Places /\ 1 \in Nat /\ 0 \in 0..MaxRotations
      /\ x \in FetchAts /\ Len(<<>>) = 0
   BY ProxyNumbers DEF Causes, Places, FetchAts
<1>5. e \in Fetching
  BY <1>2, <1>3, <1>4 DEF Fetching
<1>6. /\ e.kind = r.kind /\ e.at = x /\ e.rotations = 0 /\ e.left = <<>> /\ e.found = r.found
      /\ e.alone = r.alone /\ e.mood = r.mood
  BY <1>2
<1>7. StandsOK(e)
  BY <1>4, <1>6, ProxyNumbers DEF StandsOK
<1>8. BackOK(e, c)
  BY <1>6 DEF BackOK
<1>9. f \notin Probing => TriedOK(e, c, w)
  BY <1>6 DEF TriedOK
<1> QED
  BY <1>1, <1>5, <1>7, <1>8, <1>9 DEF FetchOK

LEMMA InitProxy == ProxyInit => ProxyInv
<1> SUFFICES ASSUME ProxyInit PROVE ProxyInv
  OBVIOUS
<1>1. chosen \in Places /\ working \subseteq GroupNodes
  BY FailoverAssumption DEF ProxyInit, Places
<1>2. fetch \in [Feeds -> {NotFetching(k) : k \in FeedKinds}]
  BY DEF ProxyInit
<1>3. ASSUME NEW f \in Feeds PROVE fetch[f] \in Fetching /\ FetchOK(f, fetch[f], chosen, working)
  <2>1. PICK k \in FeedKinds : fetch[f] = NotFetching(k)
    BY <1>2
  <2>2. PICK e : e = NotFetching(k)
    OBVIOUS
  <2>3. <<>> \in Seq(GroupNodes) /\ Len(<<>>) = 0 /\ 0 \in 0..MaxRotations
    BY ProxyNumbers
  <2>4. e \in Fetching
    BY <2>2, <2>3 DEF NotFetching, Fetching, FetchAts, Causes, Places, Moods
  <2>5. e.at = "idle" /\ e.try = 1 /\ e.rotations = 0 /\ e.left = <<>>
    BY <2>2 DEF NotFetching
  <2>6. StandsOK(e)
    BY <2>3, <2>5, ProxyNumbers DEF StandsOK
  <2> QED
    BY <2>1, <2>2, <2>4, <2>5, <2>6 DEF FetchOK, BackOK, TriedOK
<1>4. fetch \in [Feeds -> Fetching]
  BY <1>2, <1>3
<1> QED
  BY <1>1, <1>3, <1>4 DEF ProxyInv

\* A fetch that begins has the whole group to go.
LEMMA StartKeeps == ASSUME ProxyInv, NEW f \in Feeds, Start(f) PROVE ProxyInv'
<1> DEFINE r == fetch[f]
<1>1. /\ chosen \in Places /\ working \subseteq GroupNodes /\ r \in Fetching /\ r.at = "idle"
      /\ NodeOf(chosen) \in GroupNodes /\ StandsOK(r) /\ UNCHANGED <<chosen, working>>
  BY InvParts DEF Start, FetchOK
<1>2. CASE Goes(f, [r EXCEPT !.at = "request", !.found = chosen, !.alone = TRUE, !.mood = "calm"])
  <2>1. PICK d : d = [r EXCEPT !.at = "request", !.found = chosen]
    OBVIOUS
  <2>2. PICK e : e = [d EXCEPT !.alone = TRUE, !.mood = "calm"]
    OBVIOUS
  <2> HIDE DEF r
  <2>3. d \in Fetching /\ e \in Fetching
    <3>1. d \in Fetching
      BY <1>1, <2>1 DEF Fetching, FetchAts
    <3> QED
      BY <2>2, <3>1 DEF Fetching, Moods
  <2>4. /\ d.at = "request" /\ d.found = chosen /\ d.kind = r.kind /\ d.try = r.try /\ d.rotations = r.rotations
        /\ d.left = r.left
    BY <1>1, <2>1 DEF Fetching
  <2>5. /\ e.at = "request" /\ e.found = chosen /\ e.kind = r.kind /\ e.try = r.try /\ e.rotations = r.rotations
        /\ e.left = r.left
    BY <2>2, <2>3, <2>4 DEF Fetching
  <2>6. e.try = 1 /\ e.rotations = 0
    BY <1>1, <2>5 DEF StandsOK
  <2>7. StandsOK(e)
    BY <1>1, <2>5, <2>6 DEF StandsOK
  <2>8. BackOK(e, chosen)
    BY <2>5, <2>6 DEF BackOK
  <2>9. TriedOK(e, chosen, working)
    <3>1. Nodes - 1 - e.rotations = Nodes - 1
      BY <2>6, ProxyNumbers
    <3>2. GroupNodes \subseteq {NodeOf(chosen)} \cup Ahead(NodeOf(chosen), Nodes - 1 - e.rotations)
      BY <1>1, <3>1, FullTurn
    <3>3. e.kind # "mni" => working \subseteq Here(e, chosen) \cup ToGo(e, chosen)
      BY <1>1, <2>5, <3>2 DEF Here, ToGo
    <3> QED
      BY <2>5, <2>6, <3>3 DEF TriedOK
  <2>10. e = [r EXCEPT !.at = "request", !.found = chosen, !.alone = TRUE, !.mood = "calm"]
    BY <2>1, <2>2
  <2>11. Goes(f, e) /\ FetchOK(f, e, chosen, working)
    BY <1>2, <2>7, <2>8, <2>9, <2>10 DEF r, FetchOK
  <2> QED
    BY <1>1, <2>3, <2>11, GoesKeeps
<1>3. CASE Goes(f, Ends(r, "answered"))
  BY <1>1, <1>3, EndsOK, GoesKeeps
<1> QED
  BY <1>2, <1>3 DEF Start

\* A plain fetch that backs off: it goes on, or is too late, or has tried every node.
LEMMA BackoffOK ==
  ASSUME NEW f, NEW r \in Fetching, r.kind = "plain", NEW c, NEW w, NEW b \in Backoff(r),
         r.alone /\ r.mood = "calm" /\ f \notin Probing /\ MaxRotations + 1 >= Nodes => w = {}
  PROVE  b \in Fetching /\ FetchOK(f, b, c, w)
<1>1. CASE b = Ends(r, "late") \/ b = Ends(r, "raised")
  <2>1. r.kind # "mni"
    OBVIOUS
  <2>2. Ends(r, "late") \in Fetching /\ FetchOK(f, Ends(r, "late"), c, w)
    BY EndsOK
  <2>3. Ends(r, "raised") \in Fetching /\ FetchOK(f, Ends(r, "raised"), c, w)
    BY <2>1, EndsOK
  <2> QED
    BY <1>1, <2>2, <2>3
<1>2. CASE b = [r EXCEPT !.at = "request", !.try = @ + 1, !.cause = "none", !.target = NestedGroup]
  <2>1. PICK d : d = [r EXCEPT !.at = "request", !.try = @ + 1]
    OBVIOUS
  <2>2. PICK e : e = [d EXCEPT !.cause = "none", !.target = NestedGroup]
    OBVIOUS
  <2>3. r.try + 1 \in Nat /\ "request" \in FetchAts /\ NestedGroup \in Places /\ "none" \in Causes
    BY FetchFields DEF FetchAts, Places, Causes
  <2>4. d \in Fetching
    BY <2>1, <2>3 DEF Fetching
  <2>5. e \in Fetching
    BY <2>2, <2>3, <2>4 DEF Fetching
  <2>6. d.kind = r.kind /\ d.at = "request" /\ d.alone = r.alone /\ d.mood = r.mood
    BY <2>1 DEF Fetching
  <2>7. e.kind = r.kind /\ e.at = "request" /\ e.alone = r.alone /\ e.mood = r.mood
    BY <2>2, <2>4, <2>6 DEF Fetching
  <2>8. b = e
    BY <1>2, <2>1, <2>2
  <2>9. StandsOK(e) /\ BackOK(e, c)
    BY <2>7 DEF StandsOK, BackOK
  <2>10. f \notin Probing => TriedOK(e, c, w)
    BY <2>7 DEF TriedOK
  <2> QED
    BY <2>5, <2>8, <2>9, <2>10 DEF FetchOK
<1> QED
  BY <1>1, <1>2 DEF Backoff

\* A node that does not serve is not among the ones that do: the nodes to go are.
LEMMA NodeRefused ==
  ASSUME NEW r, NEW c, NEW w, NodeOf(c) \notin w, TriedOK(r, c, w), r.at = "request",
         ~(r.kind = "mni" /\ r.try = 1), r.alone, r.mood = "calm", MaxRotations + 1 >= Nodes
  PROVE  w \subseteq ToGo(r, c)
  BY DEF TriedOK, Here

LEMMA NoneAhead == ASSUME NEW b, NEW m \in Int, m <= 0 PROVE Ahead(b, m) = {}
  BY DEF Ahead

\* The last rotation is used up and every node refused.
LEMMA AllRefused ==
  ASSUME NEW r \in Fetching, NEW c, NEW w, NodeOf(c) \notin w, TriedOK(r, c, w), r.at = "request",
         r.kind # "mni", r.rotations = MaxRotations, r.alone, r.mood = "calm", MaxRotations + 1 >= Nodes
  PROVE  w = {}
<1>1. w \subseteq ToGo(r, c)
  BY NodeRefused
<1>2. Nodes - 1 - r.rotations \in Int /\ Nodes - 1 - r.rotations <= 0
  BY ProxyNumbers
<1>3. ToGo(r, c) = {}
  BY <1>2, NoneAhead DEF ToGo
<1> QED
  BY <1>1, <1>3

LEMMA RequestTruth ==
  ASSUME NEW f, NEW r \in Fetching, NEW c, NEW w, NodeOf(c) \notin w, FetchOK(f, r, c, w), r.at = "request",
         r.kind = "truth", NEW e,
         e = [r EXCEPT !.error = TRUE, !.at = IF r.try > MaxRotations THEN "raised" ELSE "rotate"]
  PROVE  e \in Fetching /\ FetchOK(f, e, c, w)
<1>1. e \in Fetching
  BY DEF Fetching, FetchAts
<1>2. /\ e.at = IF r.try > MaxRotations THEN "raised" ELSE "rotate"
      /\ e.kind = "truth" /\ e.try = r.try /\ e.rotations = r.rotations /\ e.alone = r.alone /\ e.mood = r.mood
  BY DEF Fetching
<1>3. r.try = r.rotations + 1 /\ r.rotations \in Nat /\ r.rotations <= MaxRotations /\ MaxRotations \in Nat
  BY FetchFields, ProxyNumbers DEF FetchOK, StandsOK
<1>4. StandsOK(e)
  BY <1>2, <1>3 DEF StandsOK
<1>5. BackOK(e, c)
  BY <1>2 DEF BackOK
<1>6. ASSUME f \notin Probing, r.alone, r.mood = "calm", MaxRotations + 1 >= Nodes PROVE TriedOK(e, c, w)
  <2>1. TriedOK(r, c, w)
    BY <1>6 DEF FetchOK
  <2>2. CASE r.try > MaxRotations
    <3>1. r.rotations = MaxRotations
      BY <1>3, <2>2
    <3>2. w = {}
      BY <1>6, <2>1, <3>1, AllRefused
    <3> QED
      BY <1>2, <2>2, <3>2 DEF TriedOK
  <2>3. CASE ~(r.try > MaxRotations)
    <3>1. w \subseteq ToGo(r, c)
      BY <1>6, <2>1, NodeRefused
    <3>2. ToGo(e, c) = ToGo(r, c)
      BY <1>2 DEF ToGo
    <3> QED
      BY <1>2, <1>3, <2>3, <3>1, <3>2 DEF TriedOK
  <2> QED
    BY <2>2, <2>3
<1>7. f \notin Probing => TriedOK(e, c, w)
  BY <1>2, <1>6 DEF TriedOK
<1> QED
  BY <1>1, <1>4, <1>5, <1>7 DEF FetchOK

LEMMA RequestMni ==
  ASSUME NEW f, NEW r \in Fetching, NEW c \in Places, NEW w, w \subseteq GroupNodes,
         r.mood = "calm" => NodeOf(c) \notin w,
         FetchOK(f, r, c, w), r.at = "request", r.kind = "mni", NEW e,
         e = Walks(r)
  PROVE  e \in Fetching /\ FetchOK(f, e, c, w)
<1>1. e \in Fetching
  BY DEF Walks, Fetching, FetchAts
<1>2. /\ e.at = IF MaxRotations = 0 THEN "raised" ELSE IF r.try = 1 THEN "survey" ELSE "next"
      /\ e.kind = "mni" /\ e.try = r.try /\ e.rotations = r.rotations /\ e.alone = r.alone /\ e.mood = r.mood
      /\ e.left = r.left /\ e.found = r.found /\ e.original = r.original
  BY DEF Walks, Fetching
<1>3. /\ r.rotations \in Nat /\ r.rotations <= MaxRotations /\ MaxRotations \in Nat
      /\ r.rotations + Len(r.left) <= MaxRotations
      /\ r.try # 1 => r.rotations >= 1
      /\ r.try = 1 => r.rotations = 0 /\ r.left = <<>>
      /\ r.try \in {1, 2}
  BY FetchFields, ProxyNumbers DEF FetchOK, StandsOK
<1>4. StandsOK(e)
  BY <1>2, <1>3 DEF StandsOK
<1>5. BackOK(e, c)
  BY <1>2, <1>3 DEF BackOK, FetchOK
<1>6. ASSUME f \notin Probing, r.alone, r.mood = "calm", MaxRotations + 1 >= Nodes PROVE TriedOK(e, c, w)
  <2>1. TriedOK(r, c, w)
    BY <1>6 DEF FetchOK
  <2>2. CASE MaxRotations = 0
    <3>1. Nodes - 1 <= 0 /\ Nodes - 1 \in Int
      BY <1>6, <2>2, ProxyNumbers
    <3>2. GroupNodes \subseteq {NodeOf(c)}
      BY <3>1, NodeOfIs, FullTurn, NoneAhead
    <3> QED
      BY <1>2, <2>2, <3>2 DEF TriedOK
  <2>3. CASE MaxRotations # 0 /\ r.try = 1
    BY <1>2, <2>3 DEF TriedOK
  <2>4. CASE MaxRotations # 0 /\ r.try # 1
    <3>1. w \subseteq ToGo(r, c)
      BY <1>6, <2>1, <2>4, NodeRefused
    <3>2. ToGo(e, c) = ToGo(r, c)
      BY <1>2 DEF ToGo
    <3> QED
      BY <1>2, <2>4, <3>1, <3>2 DEF TriedOK
  <2> QED
    BY <2>2, <2>3, <2>4
<1>7. f \notin Probing => TriedOK(e, c, w)
  BY <1>2, <1>6 DEF TriedOK
<1> QED
  BY <1>1, <1>4, <1>5, <1>7 DEF FetchOK

Blames(r, cause) == [r EXCEPT !.error = @ \/ cause = "error", !.cause = cause]
LEMMA WithCause ==
  ASSUME NEW r \in Fetching, NEW cause \in {"status", "error"}, NEW s, s = Blames(r, cause)
  PROVE  /\ s \in Fetching /\ s.kind = r.kind /\ s.at = r.at /\ s.try = r.try /\ s.rotations = r.rotations
         /\ s.alone = r.alone /\ s.mood = r.mood
  BY DEF Fetching, Causes, Blames

LEMMA RequestPlain ==
  ASSUME NEW f, NEW r \in Fetching, NEW c, NEW w, NodeOf(c) \notin w, FetchOK(f, r, c, w), r.at = "request",
         r.kind = "plain", r.rotations < MaxRotations, NEW s \in Fetching, NEW e, e = [s EXCEPT !.at = "rotate"],
         s.kind = r.kind, s.try = r.try, s.rotations = r.rotations, s.alone = r.alone, s.mood = r.mood
  PROVE  e \in Fetching /\ FetchOK(f, e, c, w)
<1>1. e \in Fetching
  BY DEF Fetching, FetchAts
<1>2. /\ e.at = "rotate" /\ e.kind = "plain" /\ e.try = r.try /\ e.rotations = r.rotations
      /\ e.alone = r.alone /\ e.mood = r.mood
  BY DEF Fetching
<1>3. StandsOK(e) /\ BackOK(e, c)
  BY <1>2 DEF StandsOK, BackOK
<1>4. ASSUME f \notin Probing, r.alone, r.mood = "calm", MaxRotations + 1 >= Nodes PROVE TriedOK(e, c, w)
  <2>1. TriedOK(r, c, w)
    BY <1>4 DEF FetchOK
  <2>2. w \subseteq ToGo(r, c)
    BY <1>4, <2>1, NodeRefused
  <2>3. ToGo(e, c) = ToGo(r, c)
    BY <1>2 DEF ToGo
  <2>4. w # {} => r.try = r.rotations + 1
    BY <1>4, <2>1 DEF TriedOK
  <2> QED
    BY <1>2, <2>2, <2>3, <2>4 DEF TriedOK
<1>5. f \notin Probing => TriedOK(e, c, w)
  BY <1>2, <1>4 DEF TriedOK
<1> QED
  BY <1>1, <1>3, <1>5 DEF FetchOK

\* A request that meets an error no rotation is for, or whose time is over.
LEMMA AstrayKeeps ==
  ASSUME ProxyInv, NEW f \in Feeds, fetch[f].at = "request", Astray(f), UNCHANGED <<chosen, working>>
  PROVE  ProxyInv'
<1>1. /\ chosen \in Places /\ working \subseteq GroupNodes /\ fetch[f] \in Fetching
      /\ FetchOK(f, fetch[f], chosen, working)
  BY InvParts
<1>2. PICK m : m = Upset(fetch[f].mood)
  OBVIOUS
<1>3. m \in Moods /\ m # "calm" /\ (fetch[f].mood = "disobeyed" => m = "disobeyed")
  BY <1>1, <1>2, FetchFields, UpsetIs
<1>4. PICK q : q = [fetch[f] EXCEPT !.error = TRUE]
  OBVIOUS
<1>5. PICK r : r = [q EXCEPT !.mood = m]
  OBVIOUS
<1>6. r = [fetch[f] EXCEPT !.error = TRUE, !.mood = Upset(fetch[f].mood)]
  BY <1>1, <1>2, <1>4, <1>5
<1>7. \/ r.kind = "plain" /\ \E b \in Backoff(r) \cup {Ends(r, "late")} : Goes(f, b)
      \/ r.kind = "truth" /\ Goes(f, Ends(r, "raised"))
      \/ r.kind = "mni" /\ \E k \in {r.cause, "over"} : Goes(f, Walks([r EXCEPT !.cause = k]))
  BY <1>6 DEF Astray
<1>8. q \in Fetching /\ q.at = "request" /\ FetchOK(f, q, chosen, working) /\ q.mood = fetch[f].mood
  <2>1. /\ q \in Fetching /\ q.kind = fetch[f].kind /\ q.at = fetch[f].at /\ q.try = fetch[f].try
        /\ q.rotations = fetch[f].rotations /\ q.left = fetch[f].left /\ q.target = fetch[f].target
        /\ q.original = fetch[f].original /\ q.found = fetch[f].found /\ q.alone = fetch[f].alone
        /\ q.mood = fetch[f].mood
    BY <1>1, <1>4 DEF Fetching
  <2> QED
    BY <1>1, <2>1, SameFetch
<1>9. r \in Fetching /\ r.at = "request" /\ r.mood # "calm" /\ FetchOK(f, r, chosen, working)
  <2>1. r \in Fetching /\ r.at = q.at /\ r.mood = m
    BY <1>3, <1>5, <1>8 DEF Fetching
  <2>2. FetchOK(f, r, chosen, working)
    BY <1>3, <1>5, <1>8, UpsetKeeps DEF FetchOK
  <2> QED
    BY <1>3, <1>8, <2>1, <2>2
<1>10. CASE r.kind = "plain" /\ \E b \in Backoff(r) \cup {Ends(r, "late")} : Goes(f, b)
  <2>1. PICK b \in Backoff(r) \cup {Ends(r, "late")} : Goes(f, b)
    BY <1>10
  <2>2. b \in Fetching /\ FetchOK(f, b, chosen, working)
    <3>1. CASE b \in Backoff(r)
      BY <1>9, <1>10, <3>1, BackoffOK
    <3>2. CASE b = Ends(r, "late")
      BY <1>9, <3>2, EndsOK
    <3> QED
      BY <2>1, <3>1, <3>2
  <2> QED
    BY <2>1, <2>2, GoesKeeps
<1>11. CASE r.kind = "truth" /\ Goes(f, Ends(r, "raised"))
  <2>1. Ends(r, "raised") \in Fetching /\ FetchOK(f, Ends(r, "raised"), chosen, working)
    BY <1>9, <1>11, EndsOK
  <2> QED
    BY <1>11, <2>1, GoesKeeps
<1>12. CASE r.kind = "mni" /\ \E k \in {r.cause, "over"} : Goes(f, Walks([r EXCEPT !.cause = k]))
  <2>1. PICK k \in {r.cause, "over"} : Goes(f, Walks([r EXCEPT !.cause = k]))
    BY <1>12
  <2>2. PICK s : s = [r EXCEPT !.cause = k]
    OBVIOUS
  <2>3. /\ s \in Fetching /\ s.kind = r.kind /\ s.at = r.at /\ s.try = r.try
        /\ s.rotations = r.rotations /\ s.left = r.left /\ s.target = r.target
        /\ s.original = r.original /\ s.found = r.found /\ s.alone = r.alone /\ s.mood = r.mood
    BY <1>9, <2>1, <2>2 DEF Fetching, Causes
  <2>4. FetchOK(f, s, chosen, working)
    BY <1>9, <2>3, SameFetch
  <2>5. PICK e : e = Walks(s)
    OBVIOUS
  <2>6. Goes(f, e)
    BY <2>1, <2>2, <2>5
  <2>7. s.at = "request" /\ s.kind = "mni" /\ (s.mood = "calm" => NodeOf(chosen) \notin working)
    BY <1>9, <1>12, <2>3
  <2>8. e \in Fetching /\ FetchOK(f, e, chosen, working)
    <3>1. chosen \in Places /\ working \subseteq GroupNodes /\ s \in Fetching
      BY <1>1, <2>3
    <3> QED
      BY ONLY <3>1, <2>4, <2>5, <2>7, RequestMni
  <2> QED
    BY <2>6, <2>8, GoesKeeps
<1> QED
  BY <1>7, <1>10, <1>11, <1>12

LEMMA RequestKeeps == ASSUME ProxyInv, NEW f \in Feeds, Request(f) PROVE ProxyInv'
<1> DEFINE r == fetch[f]
<1>1. /\ chosen \in Places /\ working \subseteq GroupNodes /\ r \in Fetching /\ r.at = "request"
      /\ NodeOf(chosen) = Behind /\ FetchOK(f, r, chosen, working) /\ UNCHANGED <<chosen, working>>
      /\ r.kind \in {"plain", "mni", "truth"}
  BY InvParts, FetchFields DEF Request, FeedKinds
<1>2. CASE Goes(f, Ends(r, "answered"))
  <2> HIDE DEF r
  <2>1. Ends(r, "answered") \in Fetching /\ FetchOK(f, Ends(r, "answered"), chosen, working)
    BY <1>1, EndsOK
  <2> QED
    BY <1>1, <1>2, <2>1, GoesKeeps
<1>3. CASE Astray(f)
  BY <1>1, <1>3, AstrayKeeps
<1>4. CASE Behind \notin working /\ TurnedAway(f) /\ r.kind = "truth"
  <2>1. PICK e : e = [r EXCEPT !.error = TRUE, !.at = IF r.try > MaxRotations THEN "raised" ELSE "rotate"]
    OBVIOUS
  <2>2. Goes(f, e)
    BY <1>4, <2>1 DEF TurnedAway
  <2> HIDE DEF r
  <2>3. e \in Fetching /\ FetchOK(f, e, chosen, working)
    BY <1>1, <1>4, <2>1, RequestTruth
  <2> QED
    BY <1>1, <2>2, <2>3, GoesKeeps
<1>5. CASE Behind \notin working /\ TurnedAway(f) /\ r.kind = "mni"
  <2>1. PICK e : e = Walks(r)
    OBVIOUS
  <2>2. Goes(f, e)
    BY <1>5, <2>1 DEF TurnedAway
  <2> HIDE DEF r
  <2>3. e \in Fetching /\ FetchOK(f, e, chosen, working)
    BY <1>1, <1>5, <2>1, RequestMni
  <2> QED
    BY <1>1, <2>2, <2>3, GoesKeeps
<1>6. CASE Behind \notin working /\ TurnedAway(f) /\ r.kind = "plain"
  <2>1. PICK cause \in {"status", "error"} :
          LET s == [r EXCEPT !.error = @ \/ cause = "error", !.cause = cause]
          IN IF r.rotations < MaxRotations THEN Goes(f, [s EXCEPT !.at = "rotate"])
             ELSE \E b \in Backoff([s EXCEPT !.error = @ \/ r.try = MaxFetches]) : Goes(f, b)
    BY <1>6 DEF TurnedAway
  <2>2. PICK s : s = Blames(r, cause)
    OBVIOUS
  <2>3. IF r.rotations < MaxRotations THEN Goes(f, [s EXCEPT !.at = "rotate"])
        ELSE \E b \in Backoff([s EXCEPT !.error = @ \/ r.try = MaxFetches]) : Goes(f, b)
    BY <2>1, <2>2 DEF Blames
  <2> HIDE DEF r
  <2>4. /\ s \in Fetching /\ s.kind = r.kind /\ s.at = r.at /\ s.try = r.try /\ s.rotations = r.rotations
        /\ s.alone = r.alone /\ s.mood = r.mood
    BY ONLY <1>1, <2>2, cause \in {"status", "error"}, WithCause
  <2>5. CASE r.rotations < MaxRotations
    <3>1. PICK e : e = [s EXCEPT !.at = "rotate"]
      OBVIOUS
    <3>2. e \in Fetching /\ FetchOK(f, e, chosen, working)
      BY <1>1, <1>6, <2>4, <2>5, <3>1, RequestPlain
    <3> QED
      BY <1>1, <2>3, <2>5, <3>1, <3>2, GoesKeeps
  <2>6. CASE ~(r.rotations < MaxRotations)
    <3>1. PICK e : e = [s EXCEPT !.error = @ \/ r.try = MaxFetches]
      OBVIOUS
    <3>2. e \in Fetching /\ e.kind = "plain" /\ e.alone = r.alone /\ e.mood = r.mood
      BY <1>6, <2>4, <3>1 DEF Fetching
    <3>3. PICK b \in Backoff(e) : Goes(f, b)
      BY <2>3, <2>6, <3>1
    <3>4. r.rotations = MaxRotations
      BY <1>1, <2>6, FetchFields, ProxyNumbers
    <3>5. ASSUME r.alone, r.mood = "calm", f \notin Probing, MaxRotations + 1 >= Nodes PROVE working = {}
      BY <1>1, <1>6, <3>4, <3>5, AllRefused DEF FetchOK
    <3>6. b \in Fetching /\ FetchOK(f, b, chosen, working)
      BY <3>2, <3>3, <3>5, BackoffOK
    <3> QED
      BY <1>1, <3>3, <3>6, GoesKeeps
  <2> QED
    BY <2>5, <2>6
<1> QED
  BY <1>1, <1>2, <1>3, <1>4, <1>5, <1>6 DEF Request

\* The choice of a fetch without a health check is the node next in order.
LEMMA ReadsKeeps == ASSUME ProxyInv, NEW f \in Feeds, Reads(f) PROVE ProxyInv'
<1> DEFINE r == fetch[f]
<1>1. /\ chosen \in Places /\ working \subseteq GroupNodes /\ r \in Fetching /\ r.at = "rotate"
      /\ NodeOf(chosen) = Behind /\ Behind \in GroupNodes /\ FetchOK(f, r, chosen, working)
      /\ UNCHANGED <<chosen, working>>
  BY InvParts DEF Reads
<1>2. PICK t \in MoveTargets(f) : Goes(f, [r EXCEPT !.at = "set", !.target = t])
  BY DEF Reads
<1>3. PICK u : u = Ordered(Behind)
  OBVIOUS
<1>4. /\ u \in Seq(GroupNodes) /\ Len(u) = Nodes - 1
      /\ \A k \in 1..(Nodes - 1) : u[k] = NodeOrder[Shift(Place(Behind), k)]
  BY <1>1, <1>3, OrderedIs
<1>5. t \in IF u = <<>> THEN {Head(NodeOrder)}
            ELSE {Head(u)} \cup IF f \in Probing THEN Range(u) ELSE {}
  BY <1>2, <1>3 DEF MoveTargets
<1>6. t \in GroupNodes
  <2>1. CASE u = <<>>
    BY <1>5, <2>1, FailoverAssumption
  <2>2. CASE u # <<>>
    <3>1. Head(u) \in GroupNodes /\ Range(u) \subseteq GroupNodes
      BY <1>4, <2>2 DEF Range
    <3> QED
      BY <1>5, <2>2, <3>1
  <2> QED
    BY <2>1, <2>2
<1>7. ASSUME f \notin Probing, u # <<>> PROVE t = NodeOrder[Shift(Place(Behind), 1)]
  <2>1. t = Head(u) /\ Head(u) = u[1] /\ 1 \in 1..(Nodes - 1)
    BY <1>4, <1>5, <1>7, ProxyNumbers
  <2> QED
    BY <1>4, <2>1
<1>8. PICK e : e = [r EXCEPT !.at = "set", !.target = t]
  OBVIOUS
<1> HIDE DEF r
<1>9. e \in Fetching
  BY <1>1, <1>6, <1>8 DEF Fetching, FetchAts, Places
<1>10. /\ e.at = "set" /\ e.target = t /\ e.kind = r.kind /\ e.try = r.try /\ e.rotations = r.rotations
       /\ e.alone = r.alone /\ e.mood = r.mood
  BY <1>1, <1>8 DEF Fetching
<1>11. StandsOK(r) /\ r.kind # "mni"
  BY <1>1 DEF FetchOK, StandsOK
<1>12. StandsOK(e) /\ BackOK(e, chosen)
  BY <1>1, <1>6, <1>10, <1>11 DEF StandsOK, BackOK
<1>13. ASSUME f \notin Probing, r.alone, r.mood = "calm", MaxRotations + 1 >= Nodes PROVE TriedOK(e, chosen, working)
  <2>1. TriedOK(r, chosen, working)
    BY <1>1, <1>13 DEF FetchOK
  <2>2. working \subseteq ToGo(r, chosen) /\ (working # {} => r.try = r.rotations + 1)
    <3>1. r.at = "rotate" /\ Here(r, chosen) = {}
      BY <1>1 DEF Here
    <3>2. working \subseteq Here(r, chosen) \cup ToGo(r, chosen)
      BY <1>11, <1>13, <2>1, <3>1 DEF TriedOK
    <3> QED
      BY <1>11, <1>13, <2>1, <3>1, <3>2 DEF TriedOK
  <2>3. ToGo(e, chosen) = ToGo(r, chosen)
    BY <1>10, <1>11 DEF ToGo
  <2>4. u = <<>> => working = {}
    <3>1. SUFFICES ASSUME u = <<>> PROVE working = {}
      OBVIOUS
    <3>2. r.rotations \in Nat /\ Nodes - 1 - r.rotations \in Int /\ Nodes - 1 - r.rotations <= 0
      BY <1>1, <1>4, <3>1, FetchFields, ProxyNumbers
    <3> QED
      BY <1>11, <2>2, <3>2, NoneAhead DEF ToGo
  <2>5. working # {} => t = NodeOrder[Shift(Place(NodeOf(chosen)), 1)]
    BY <1>1, <1>7, <1>13, <2>4
  <2> QED
    BY <1>10, <1>11, <2>2, <2>3, <2>5 DEF TriedOK
<1>14. f \notin Probing => TriedOK(e, chosen, working)
  BY <1>10, <1>13 DEF TriedOK
<1>15. Goes(f, e)
  BY <1>2, <1>8 DEF r
<1> QED
  BY <1>1, <1>9, <1>12, <1>14, <1>15, GoesKeeps DEF FetchOK

LEMMA Rotated ==
  ASSUME NEW r \in Fetching, r.rotations < MaxRotations, NEW s,
         s = [r EXCEPT !.rotations = @ + 1, !.try = @ + 1, !.at = "request", !.cause = "none", !.target = NestedGroup]
  PROVE  /\ s \in Fetching /\ s.kind = r.kind /\ s.at = "request" /\ s.try = r.try + 1
         /\ s.rotations = r.rotations + 1 /\ s.found = r.found /\ s.alone = r.alone /\ s.mood = r.mood
<1>1. /\ r.rotations + 1 \in 0..MaxRotations /\ r.try + 1 \in Nat
      /\ "request" \in FetchAts /\ NestedGroup \in Places /\ "none" \in Causes
  BY FetchFields, ProxyNumbers DEF FetchAts, Places, Causes
<1>2. PICK d : d = [r EXCEPT !.rotations = @ + 1, !.try = @ + 1]
  OBVIOUS
<1>3. d \in Fetching
  BY <1>1, <1>2 DEF Fetching
<1>4. PICK e : e = [d EXCEPT !.at = "request", !.cause = "none"]
  OBVIOUS
<1>5. e \in Fetching
  BY <1>1, <1>3, <1>4 DEF Fetching
<1>6. PICK g : g = [e EXCEPT !.target = NestedGroup]
  OBVIOUS
<1>7. g \in Fetching
  BY <1>1, <1>5, <1>6 DEF Fetching
<1>8. s = g
  BY <1>2, <1>4, <1>6
<1>9. /\ s.kind = r.kind /\ s.at = "request" /\ s.try = r.try + 1 /\ s.rotations = r.rotations + 1
      /\ s.found = r.found /\ s.alone = r.alone /\ s.mood = r.mood
  BY DEF Fetching
<1> QED
  BY <1>7, <1>8, <1>9

LEMMA SetsKeeps == ASSUME ProxyInv, NEW f \in Feeds, Sets(f) PROVE ProxyInv'
<1> DEFINE r == fetch[f]
           t == r.target
<1>1. /\ chosen \in Places /\ working \subseteq GroupNodes /\ r \in Fetching /\ r.at = "set"
      /\ NodeOf(chosen) \in GroupNodes /\ FetchOK(f, r, chosen, working)
      /\ Moves(f, t, AfterRotation(r)) /\ UNCHANGED working
  BY InvParts DEF Sets
<1>2. PICK s : s = [r EXCEPT !.rotations = @ + 1, !.try = @ + 1, !.at = "request", !.cause = "none",
                             !.target = NestedGroup]
  OBVIOUS
<1> HIDE DEF r, t
<1>3. /\ StandsOK(r) /\ r.kind # "mni" /\ r.rotations < MaxRotations /\ t \in GroupNodes
      /\ r.kind = "truth" => r.try = r.rotations + 1
  BY <1>1 DEF FetchOK, StandsOK, t
<1>4. /\ r.try \in Nat /\ r.rotations \in Nat /\ MaxRotations \in Nat /\ Nodes \in Nat
      /\ MaxFetches \in Nat /\ MaxFetches >= MaxRotations + 1
  BY <1>1, FetchFields, ProxyNumbers
<1>5. /\ s \in Fetching /\ s.kind = r.kind /\ s.at = "request" /\ s.try = r.try + 1
      /\ s.rotations = r.rotations + 1 /\ s.found = r.found /\ s.alone = r.alone /\ s.mood = r.mood
  BY <1>1, <1>2, <1>3, Rotated
<1>6. t \in Places /\ NodeOf(t) = t
  BY <1>3, NodeOfIs DEF Places
<1>7. CASE r.try < MaxFetches
  <2>1. AfterRotation(r) = s
    BY <1>2, <1>7 DEF AfterRotation
  <2>2. StandsOK(s) /\ BackOK(s, t)
    BY <1>3, <1>4, <1>5 DEF StandsOK, BackOK
  <2>3. ASSUME f \notin Probing, r.alone, r.mood = "calm", MaxRotations + 1 >= Nodes PROVE TriedOK(s, t, working)
    <3> DEFINE m == Nodes - 1 - r.rotations
               b == NodeOf(chosen)
    <3>1. TriedOK(r, chosen, working)
      BY <1>1, <2>3 DEF FetchOK
    <3>2. working \subseteq Here(r, chosen) \cup ToGo(r, chosen)
      BY <1>1, <1>3, <2>3, <3>1 DEF TriedOK
    <3>3. Here(r, chosen) = {} /\ ToGo(r, chosen) = Ahead(b, m)
      BY <1>1, <1>3 DEF Here, ToGo
    <3>4. working # {} => r.try = r.rotations + 1 /\ t = NodeOrder[Shift(Place(b), 1)]
      BY <1>1, <1>3, <2>3, <3>1 DEF TriedOK, t
    <3>5. m \in Int /\ m <= Nodes - 1 /\ m - 1 = Nodes - 1 - s.rotations
      BY <1>4, <1>5
    <3>6. b \in GroupNodes
      BY <1>1
    <3> HIDE DEF m, b
    <3>7. working # {} => Ahead(b, m) \subseteq {t} \cup Ahead(t, m - 1)
      BY <3>4, <3>5, <3>6, OneOn
    <3>8. Here(s, t) = {t} /\ ToGo(s, t) = Ahead(t, m - 1)
      BY <1>3, <1>5, <1>6, <3>5 DEF Here, ToGo
    <3>9. working \subseteq Here(s, t) \cup ToGo(s, t)
      BY <3>2, <3>3, <3>7, <3>8
    <3> QED
      BY <1>3, <1>4, <1>5, <3>4, <3>9 DEF TriedOK
  <2>4. f \notin Probing => TriedOK(s, t, working)
    BY <1>5, <2>3 DEF TriedOK
  <2>5. FetchOK(f, s, t, working) /\ Moves(f, t, s)
    BY <1>1, <2>1, <2>2, <2>4 DEF FetchOK
  <2> QED
    BY <1>1, <1>5, <1>6, <2>5, MovesKeeps
<1>8. CASE ~(r.try < MaxFetches)
  <2>1. PICK x \in {"raised", "asserted"} : AfterRotation(r) = Ends(s, x)
    BY <1>2, <1>8 DEF AfterRotation
  <2>2. ASSUME f \notin Probing, r.alone, r.mood = "calm", MaxRotations + 1 >= Nodes PROVE working = {}
    <3>1. TriedOK(r, chosen, working)
      BY <1>1, <2>2 DEF FetchOK
    <3>2. r.try # r.rotations + 1
      BY <1>3, <1>4, <1>8
    <3> QED
      BY <1>1, <1>3, <2>2, <3>1, <3>2 DEF TriedOK
  <2>3. Ends(s, x) \in Fetching /\ FetchOK(f, Ends(s, x), t, working)
    BY <1>3, <1>5, <2>2, EndsOK
  <2>4. Moves(f, t, Ends(s, x))
    BY <1>1, <2>1
  <2> QED
    BY <1>1, <1>6, <2>3, <2>4, MovesKeeps
<1> QED
  BY <1>7, <1>8

LEMMA RotationFailsKeeps == ASSUME ProxyInv, NEW f \in Feeds, RotationFails(f) PROVE ProxyInv'
<1>1. PICK r : r = [fetch[f] EXCEPT !.mood = "disobeyed"]
  OBVIOUS
<1>2. /\ fetch[f] \in Fetching /\ FetchOK(f, fetch[f], chosen, working)
      /\ UNCHANGED <<chosen, working>>
      /\ r.at \in {"rotate", "set"}
      /\ IF fetch[f].kind = "truth" THEN Goes(f, Ends(r, "raised"))
         ELSE IF r.cause = "status" /\ r.try = MaxFetches
              THEN Goes(f, [r EXCEPT !.at = "rotate", !.cause = "error", !.error = TRUE])
              ELSE \E b \in Backoff(r) : Goes(f, b)
  BY <1>1, InvParts DEF RotationFails
<1>3. /\ r \in Fetching /\ r.kind = fetch[f].kind /\ r.at = fetch[f].at /\ r.try = fetch[f].try
      /\ r.rotations = fetch[f].rotations /\ r.mood = "disobeyed"
  BY <1>1, <1>2 DEF Fetching, Moods
<1>4. r.kind # "mni" /\ r.rotations < MaxRotations /\ (r.kind = "truth" \/ r.kind = "plain")
      /\ (r.kind = "truth" => r.try = r.rotations + 1)
  BY <1>2, <1>3, FetchFields DEF FetchOK, StandsOK, FeedKinds
<1>5. CASE r.kind = "truth"
  <2>1. Goes(f, Ends(r, "raised"))
    BY <1>2, <1>3, <1>5
  <2>2. Ends(r, "raised") \in Fetching /\ FetchOK(f, Ends(r, "raised"), chosen, working)
    BY <1>3, EndsOK
  <2> QED
    BY <1>2, <2>1, <2>2, GoesKeeps
<1>6. CASE r.kind # "truth" /\ r.cause = "status" /\ r.try = MaxFetches
  <2>1. PICK d : d = [r EXCEPT !.at = "rotate", !.cause = "error"]
    OBVIOUS
  <2>2. PICK e : e = [d EXCEPT !.error = TRUE]
    OBVIOUS
  <2>3. d \in Fetching /\ d.kind = r.kind /\ d.at = "rotate" /\ d.rotations = r.rotations /\ d.mood = "disobeyed"
    BY <1>3, <2>1 DEF Fetching, FetchAts, Causes
  <2>4. e \in Fetching /\ e.kind = r.kind /\ e.at = "rotate" /\ e.rotations = r.rotations /\ e.mood = "disobeyed"
    BY <2>2, <2>3 DEF Fetching
  <2>5. e = [r EXCEPT !.at = "rotate", !.cause = "error", !.error = TRUE]
    BY <2>1, <2>2
  <2>6. Goes(f, e)
    BY <1>2, <1>3, <1>6, <2>5
  <2>7. FetchOK(f, e, chosen, working)
    BY <1>4, <1>6, <2>4 DEF FetchOK, StandsOK, BackOK, TriedOK
  <2> QED
    BY <1>2, <2>4, <2>6, <2>7, GoesKeeps
<1>7. CASE r.kind # "truth" /\ ~(r.cause = "status" /\ r.try = MaxFetches)
  <2>1. PICK b \in Backoff(r) : Goes(f, b)
    BY <1>2, <1>3, <1>7
  <2>2. b \in Fetching /\ FetchOK(f, b, chosen, working)
    BY <1>3, <1>4, <1>7, <2>1, BackoffOK
  <2> QED
    BY <1>2, <2>1, <2>2, GoesKeeps
<1> QED
  BY <1>5, <1>6, <1>7

LEMMA FrontPart ==
  ASSUME NEW S, NEW u \in Seq(S), NEW l \in Nat, l <= Len(u)
  PROVE  /\ SubSeq(u, 1, l) \in Seq(S) /\ Len(SubSeq(u, 1, l)) = l
         /\ \A k \in 1..l : SubSeq(u, 1, l)[k] = u[k]
<1>1. CASE l = 0
  BY <1>1
<1>2. CASE l > 0
  BY <1>2
<1> QED
  BY <1>1, <1>2

\* The candidates of an MNI fetch: every node but the one that refused, when it may try as many.
LEMMA SurveyOK ==
  ASSUME NEW f, NEW r \in Fetching, NEW c \in Places, NEW w, w \subseteq GroupNodes, FetchOK(f, r, c, w),
         r.at = "survey", NEW u, u = Ordered(NodeOf(c)), NEW v,
         v = SubSeq(u, 1, IF Len(u) < MaxRotations THEN Len(u) ELSE MaxRotations),
         NEW e, e = [r EXCEPT !.at = "next", !.original = c, !.try = 2, !.left = v]
  PROVE  e \in Fetching /\ FetchOK(f, e, c, w)
<1>1. /\ StandsOK(r) /\ BackOK(r, c) /\ (f \notin Probing => TriedOK(r, c, w)) /\ r.kind = "mni" /\ r.try = 1
      /\ r.rotations = 0
  BY DEF FetchOK, StandsOK
<1>2. NodeOf(c) \in GroupNodes /\ Nodes \in Nat /\ Nodes >= 1 /\ MaxRotations \in Nat
  BY NodeOfIs, ProxyNumbers
<1>3. /\ u \in Seq(GroupNodes) /\ Len(u) = Nodes - 1
      /\ \A k \in 1..(Nodes - 1) : u[k] = NodeOrder[Shift(Place(NodeOf(c)), k)]
  BY <1>2, OrderedIs
<1>4. PICK l : l = IF Len(u) < MaxRotations THEN Len(u) ELSE MaxRotations
  OBVIOUS
<1>5. l \in 0..Len(u) /\ l <= MaxRotations /\ (MaxRotations + 1 >= Nodes => l = Nodes - 1)
  BY <1>2, <1>3, <1>4
<1>6. v \in Seq(GroupNodes) /\ Len(v) = l /\ \A k \in 1..l : v[k] = u[k]
  <2>1. v = SubSeq(u, 1, l) /\ u \in Seq(GroupNodes)
    BY <1>3, <1>4
  <2>2. l \in Nat /\ Len(u) \in Nat /\ l <= Len(u)
    BY <1>2, <1>3, <1>5
  <2>3. /\ SubSeq(u, 1, l) \in Seq(GroupNodes) /\ Len(SubSeq(u, 1, l)) = l
        /\ \A k \in 1..l : SubSeq(u, 1, l)[k] = u[k]
    BY ONLY <2>1, <2>2, FrontPart
  <2> QED
    BY <2>1, <2>3
<1>7. PICK d : d = [r EXCEPT !.at = "next", !.original = c]
  OBVIOUS
<1>8. PICK g : g = [d EXCEPT !.try = 2, !.left = v]
  OBVIOUS
<1>9. /\ d \in Fetching /\ d.at = "next" /\ d.original = c /\ d.kind = r.kind /\ d.rotations = r.rotations
      /\ d.found = r.found /\ d.alone = r.alone /\ d.mood = r.mood
  BY <1>7 DEF Fetching, FetchAts
<1>10. g \in Fetching
  <2>1. v \in Seq(GroupNodes) /\ d \in Fetching
    BY <1>6, <1>9
  <2> QED
    BY ONLY <1>8, <2>1 DEF Fetching
<1>11. /\ g.at = "next" /\ g.original = c /\ g.kind = "mni" /\ g.rotations = 0 /\ g.try = 2 /\ g.left = v
       /\ g.found = r.found /\ g.alone = r.alone /\ g.mood = r.mood
  BY <1>1, <1>8, <1>9 DEF Fetching
<1>12. e = g
  BY <1>7, <1>8
<1>13. StandsOK(g)
  BY <1>5, <1>6, <1>11, <1>2 DEF StandsOK
<1>14. BackOK(g, c)
  BY <1>1, <1>11 DEF BackOK
<1>15. ASSUME f \notin Probing, r.alone, r.mood = "calm", MaxRotations + 1 >= Nodes PROVE TriedOK(g, c, w)
  <2>1. NodeOf(c) \notin w
    BY <1>1, <1>15 DEF TriedOK
  <2>2. w \subseteq Ahead(NodeOf(c), Nodes - 1)
    BY <1>2, <2>1, FullTurn
  <2>3. \A k \in 1..(Nodes - 1) : NodeOrder[Shift(Place(NodeOf(c)), k)] = v[k] /\ k \in DOMAIN v
    BY <1>3, <1>5, <1>6, <1>15
  <2>4. Ahead(NodeOf(c), Nodes - 1) \subseteq Range(v)
    BY <2>3 DEF Ahead, Range
  <2>5. w \subseteq ToGo(g, c)
    BY <1>11, <2>2, <2>4 DEF ToGo
  <2> QED
    BY <1>11, <2>5 DEF TriedOK
<1>16. f \notin Probing => TriedOK(g, c, w)
  BY <1>11, <1>15 DEF TriedOK
<1> QED
  BY <1>10, <1>12, <1>13, <1>14, <1>16 DEF FetchOK

\* An MNI fetch whose controller fails: it raises, disturbed.
LEMMA RaisesUpset ==
  ASSUME NEW f, NEW r \in Fetching, NEW c, NEW w
  PROVE  /\ Ends([r EXCEPT !.mood = "disobeyed"], "raised") \in Fetching
         /\ FetchOK(f, Ends([r EXCEPT !.mood = "disobeyed"], "raised"), c, w)
<1>1. PICK d : d = [r EXCEPT !.mood = "disobeyed"]
  OBVIOUS
<1>2. d \in Fetching /\ d.mood = "disobeyed"
  BY <1>1 DEF Fetching, Moods
<1>3. Ends(d, "raised") \in Fetching /\ FetchOK(f, Ends(d, "raised"), c, w)
  BY <1>2, EndsOK
<1> QED
  BY <1>1, <1>3

LEMMA SurveyKeeps == ASSUME ProxyInv, NEW f \in Feeds, Survey(f) PROVE ProxyInv'
<1> DEFINE r == fetch[f]
<1>1. /\ chosen \in Places /\ working \subseteq GroupNodes /\ r \in Fetching /\ r.at = "survey"
      /\ NodeOf(chosen) = Behind /\ FetchOK(f, r, chosen, working) /\ UNCHANGED <<chosen, working>>
  BY InvParts DEF Survey
<1>2. CASE Goes(f, Ends([r EXCEPT !.mood = "disobeyed"], "raised"))
  <2> HIDE DEF r
  <2>1. PICK e : e = Ends([r EXCEPT !.mood = "disobeyed"], "raised")
    OBVIOUS
  <2>2. e \in Fetching /\ FetchOK(f, e, chosen, working)
    BY <1>1, <2>1, RaisesUpset
  <2> QED
    BY <1>1, <1>2, <2>1, <2>2, GoesKeeps
<1>3. CASE LET candidates == Ordered(Behind) IN
           Goes(f, [r EXCEPT !.at = "next", !.original = chosen, !.try = 2,
                             !.left = SubSeq(candidates, 1, IF Len(candidates) < MaxRotations
                                                            THEN Len(candidates) ELSE MaxRotations)])
  <2>1. PICK u : u = Ordered(Behind)
    OBVIOUS
  <2>2. PICK v : v = SubSeq(u, 1, IF Len(u) < MaxRotations THEN Len(u) ELSE MaxRotations)
    OBVIOUS
  <2>3. PICK e : e = [r EXCEPT !.at = "next", !.original = chosen, !.try = 2, !.left = v]
    OBVIOUS
  <2>4. Goes(f, e)
    BY <1>3, <2>1, <2>2, <2>3
  <2> HIDE DEF r
  <2>5. u = Ordered(NodeOf(chosen))
    BY <1>1, <2>1
  <2>6. e \in Fetching /\ FetchOK(f, e, chosen, working)
    BY <1>1, <2>2, <2>3, <2>5, SurveyOK
  <2> QED
    BY <1>1, <2>4, <2>6, GoesKeeps
<1> QED
  BY <1>2, <1>3 DEF Survey

Shorter(r) == [r EXCEPT !.left = Tail(@)]
LEMMA CandidateTaken ==
  ASSUME NEW f, NEW r \in Fetching, NEW c, NEW w, FetchOK(f, r, c, w), r.at = "next", r.left # <<>>,
         NEW s, s = Shorter(r)
  PROVE  /\ Head(r.left) \in GroupNodes /\ s \in Fetching /\ s.at = "next" /\ s.kind = "mni" /\ r.kind = "mni"
         /\ s.try = 2 /\ s.rotations = r.rotations /\ s.original = r.original /\ s.found = r.found
         /\ s.alone = r.alone /\ s.mood = r.mood
         /\ s.rotations + 1 + Len(s.left) <= MaxRotations /\ Len(s.left) \in Nat
         /\ Range(r.left) \subseteq {Head(r.left)} \cup Range(s.left)
<1>1. PICK l : l = r.left
  OBVIOUS
<1>2. PICK t : t = Tail(l)
  OBVIOUS
<1>3. l \in Seq(GroupNodes) /\ l # <<>>
  BY <1>1, FetchFields
<1>4. /\ Head(l) \in GroupNodes /\ Head(l) = l[1] /\ t \in Seq(GroupNodes) /\ Len(t) = Len(l) - 1 /\ Len(l) \in Nat
      /\ Len(l) >= 1 /\ \A k \in 1..(Len(l) - 1) : t[k] = l[k + 1]
  BY <1>2, <1>3
<1>5. ASSUME NEW k \in DOMAIN l PROVE l[k] \in {Head(l)} \cup Range(t)
  <2>1. CASE k = 1
    BY <1>4, <2>1
  <2>2. CASE k # 1
    <3>1. k - 1 \in 1..(Len(l) - 1) /\ k - 1 \in DOMAIN t /\ (k - 1) + 1 = k
      BY <1>3, <1>4, <2>2
    <3>2. l[k] = t[k - 1]
      BY <1>4, <3>1
    <3> QED
      BY <3>1, <3>2 DEF Range
  <2> QED
    BY <2>1, <2>2
<1>6. Range(l) \subseteq {Head(l)} \cup Range(t)
  BY <1>5 DEF Range
<1>7. s = [r EXCEPT !.left = t]
  BY <1>1, <1>2 DEF Shorter
<1>8. /\ s \in Fetching /\ s.at = r.at /\ s.kind = r.kind /\ s.try = r.try /\ s.rotations = r.rotations
      /\ s.original = r.original /\ s.found = r.found /\ s.alone = r.alone /\ s.mood = r.mood /\ s.left = t
  BY <1>4, <1>7 DEF Fetching
<1>9. r.kind = "mni" /\ r.try = 2 /\ r.rotations + Len(r.left) <= MaxRotations /\ r.rotations \in Nat
  BY FetchFields DEF FetchOK, StandsOK
<1>10. s.rotations + 1 + Len(s.left) <= MaxRotations /\ Len(s.left) \in Nat
  <2>1. Len(l) \in Nat /\ Len(l) >= 1 /\ Len(t) = Len(l) - 1
    BY <1>4
  <2>2. r.rotations \in Nat /\ MaxRotations \in Nat /\ r.rotations + Len(l) <= MaxRotations
    BY <1>1, <1>9, ProxyNumbers
  <2>3. r.rotations + 1 + Len(t) <= MaxRotations /\ Len(t) \in Nat
    BY ONLY <2>1, <2>2
  <2> QED
    BY <1>8, <2>3
<1> QED
  BY <1>1, <1>4, <1>6, <1>8, <1>9, <1>10

LEMMA NextCandidateKeeps == ASSUME ProxyInv, NEW f \in Feeds, NextCandidate(f) PROVE ProxyInv'
<1> DEFINE r == fetch[f]
<1>1. /\ chosen \in Places /\ working \subseteq GroupNodes /\ r \in Fetching /\ r.at = "next" /\ r.left # <<>>
      /\ FetchOK(f, r, chosen, working) /\ UNCHANGED working
  BY InvParts DEF NextCandidate
<1>2. PICK s : s = Shorter(r)
  OBVIOUS
<1>3. \/ Moves(f, Head(r.left), [s EXCEPT !.at = "request", !.rotations = @ + 1])
      \/ Goes(f, [s EXCEPT !.mood = "disobeyed"]) /\ UNCHANGED chosen
  BY <1>2 DEF NextCandidate, Shorter
<1> HIDE DEF r
<1>4. /\ Head(r.left) \in GroupNodes /\ s \in Fetching /\ s.at = "next" /\ s.kind = "mni" /\ r.kind = "mni"
      /\ s.try = 2 /\ s.rotations = r.rotations /\ s.original = r.original /\ s.found = r.found
      /\ s.alone = r.alone /\ s.mood = r.mood
      /\ s.rotations + 1 + Len(s.left) <= MaxRotations /\ Len(s.left) \in Nat
      /\ Range(r.left) \subseteq {Head(r.left)} \cup Range(s.left)
  BY ONLY <1>1, <1>2, CandidateTaken
<1>5. s.rotations \in Nat /\ s.rotations + 1 \in 0..MaxRotations /\ MaxRotations \in Nat
  BY <1>4, FetchFields, ProxyNumbers
<1>6. BackOK(r, chosen) /\ (f \notin Probing => TriedOK(r, chosen, working)) /\ (r.alone => r.original = r.found)
  BY <1>1, <1>4 DEF FetchOK, BackOK
<1>7. CASE Goes(f, [s EXCEPT !.mood = "disobeyed"]) /\ UNCHANGED chosen
  <2>1. PICK e : e = [s EXCEPT !.mood = "disobeyed"]
    OBVIOUS
  <2>2. StandsOK(s)
    BY <1>4, <1>5 DEF StandsOK
  <2>3. BackOK(s, chosen)
    BY <1>4, <1>6 DEF BackOK
  <2>4. e \in Fetching /\ FetchOK(f, e, chosen, working)
    BY <1>4, <2>1, <2>2, <2>3, UpsetKeeps DEF Moods
  <2> QED
    BY <1>1, <1>7, <2>1, <2>4, GoesKeeps
<1>8. CASE Moves(f, Head(r.left), [s EXCEPT !.at = "request", !.rotations = @ + 1])
  <2>1. PICK e : e = [s EXCEPT !.at = "request", !.rotations = @ + 1]
    OBVIOUS
  <2>2. PICK n : n = Head(r.left)
    OBVIOUS
  <2>3. /\ e \in Fetching /\ e.at = "request" /\ e.kind = "mni" /\ e.try = 2 /\ e.rotations = s.rotations + 1
        /\ e.left = s.left /\ e.original = s.original /\ e.found = s.found /\ e.alone = s.alone /\ e.mood = s.mood
    BY <1>4, <1>5, <2>1 DEF Fetching, FetchAts
  <2>4. n \in Places /\ NodeOf(n) = n
    BY <1>4, <2>2, NodeOfIs DEF Places
  <2>5. StandsOK(e)
    BY <1>4, <1>5, <2>3 DEF StandsOK
  <2>6. BackOK(e, n)
    BY <1>4, <1>6, <2>3 DEF BackOK
  <2>7. ASSUME f \notin Probing, r.alone, r.mood = "calm", MaxRotations + 1 >= Nodes PROVE TriedOK(e, n, working)
    <3>1. working \subseteq Here(r, chosen) \cup ToGo(r, chosen)
      <4>1. r.try = 2
        BY <1>1, <1>4 DEF FetchOK, StandsOK
      <4> QED
        BY <1>1, <1>4, <1>6, <2>7, <4>1 DEF TriedOK
    <3>2. Here(r, chosen) = {} /\ ToGo(r, chosen) = Range(r.left)
      BY <1>1, <1>4 DEF Here, ToGo
    <3>3. Here(e, n) = {n} /\ ToGo(e, n) = Range(s.left)
      BY <2>3, <2>4 DEF Here, ToGo
    <3>4. working \subseteq Here(e, n) \cup ToGo(e, n)
      BY <1>4, <2>2, <3>1, <3>2, <3>3
    <3> QED
      BY <2>3, <3>4 DEF TriedOK
  <2>8. f \notin Probing => TriedOK(e, n, working)
    BY <1>4, <2>3, <2>7 DEF TriedOK
  <2>9. FetchOK(f, e, n, working) /\ Moves(f, n, e)
    BY <1>8, <2>1, <2>2, <2>5, <2>6, <2>8 DEF FetchOK
  <2> QED
    BY <1>1, <2>3, <2>4, <2>9, MovesKeeps
<1> QED
  BY <1>3, <1>7, <1>8

LEMMA NoneServedKeeps == ASSUME ProxyInv, NEW f \in Feeds, NoneServed(f) PROVE ProxyInv'
<1> DEFINE r == fetch[f]
<1>1. /\ chosen \in Places /\ working \subseteq GroupNodes /\ r \in Fetching /\ r.at = "next" /\ r.left = <<>>
      /\ FetchOK(f, r, chosen, working) /\ UNCHANGED working
  BY InvParts DEF NoneServed
<1>2. \/ Moves(f, r.original, Ends(r, "raised"))
      \/ Goes(f, Ends([r EXCEPT !.mood = "disobeyed"], "raised")) /\ UNCHANGED chosen
  BY DEF NoneServed, PutsBack
<1> HIDE DEF r
<1>3. r.kind = "mni" /\ r.try = 2 /\ (r.alone => r.original = r.found) /\ r.original \in Places
  BY <1>1, FetchFields DEF FetchOK, StandsOK, BackOK
<1>4. CASE Goes(f, Ends([r EXCEPT !.mood = "disobeyed"], "raised")) /\ UNCHANGED chosen
  <2>1. PICK e : e = Ends([r EXCEPT !.mood = "disobeyed"], "raised")
    OBVIOUS
  <2>2. e \in Fetching /\ FetchOK(f, e, chosen, working)
    BY <1>1, <2>1, RaisesUpset
  <2> QED
    BY <1>1, <1>4, <2>1, <2>2, GoesKeeps
<1>5. CASE Moves(f, r.original, Ends(r, "raised"))
  <2>1. ASSUME f \notin Probing, r.alone, r.mood = "calm", MaxRotations + 1 >= Nodes PROVE working = {}
    <3>1. working \subseteq Here(r, chosen) \cup ToGo(r, chosen)
      BY <1>1, <1>3, <2>1 DEF FetchOK, TriedOK
    <3>2. Here(r, chosen) = {} /\ ToGo(r, chosen) = {}
      BY <1>1, <1>3 DEF Here, ToGo, Range
    <3> QED
      BY <3>1, <3>2
  <2>2. Ends(r, "raised") \in Fetching /\ FetchOK(f, Ends(r, "raised"), r.original, working)
    BY <1>1, <1>3, <2>1, EndsOK
  <2> QED
    BY <1>1, <1>3, <1>5, <2>2, MovesKeeps
<1> QED
  BY <1>2, <1>4, <1>5

LEMMA NextProxy == ProxyInv /\ [ProxyNext]_proxyVars => ProxyInv'
<1> SUFFICES ASSUME ProxyInv, [ProxyNext]_proxyVars PROVE ProxyInv'
  OBVIOUS
<1>1. CASE UNCHANGED proxyVars
  BY <1>1 DEF proxyVars, ProxyInv
<1>2. CASE NodeChanges
  BY <1>2, NodeChangesKeeps
<1>3. ASSUME NEW f \in Feeds, FeedStep(f) PROVE ProxyInv'
  BY <1>3, StartKeeps, RequestKeeps, ReadsKeeps, SetsKeeps, RotationFailsKeeps, SurveyKeeps,
     NextCandidateKeeps, NoneServedKeeps DEF FeedStep
<1> QED
  BY <1>1, <1>2, <1>3 DEF ProxyNext

LEMMA ProxySafe == ProxyInv => ProxyTypeOK /\ GivesUpLast /\ PutBack
<1> SUFFICES ASSUME ProxyInv PROVE ProxyTypeOK /\ GivesUpLast /\ PutBack
  OBVIOUS
<1>1. ASSUME NEW f \in Feeds PROVE fetch[f] \in Fetching /\ FetchOK(f, fetch[f], chosen, working)
  BY InvParts
<1>2. ProxyTypeOK
  BY <1>1, FetchFields DEF ProxyTypeOK, ProxyInv, Places
<1>3. GivesUpLast
  BY <1>1 DEF GivesUpLast, FetchOK, TriedOK, Nodes
<1>4. PutBack
  BY <1>1 DEF PutBack, FetchOK, BackOK
<1> QED
  BY <1>2, <1>3, <1>4

-----------------------------------------------------------------------------
(* The four together.                                                      *)

FeedsInv == WatchInv /\ BusInv /\ CallsInv /\ ProxyInv

LEMMA InitFeeds == FeedsInit => FeedsInv
  BY InitWatch, InitBus, InitCalls, InitProxy DEF FeedsInit, FeedsInv

\* A step runs one component and leaves the others as they are.
LEMMA NextFeeds == FeedsInv /\ [FeedsNext]_feeds => FeedsInv'
<1> SUFFICES ASSUME FeedsInv, [FeedsNext]_feeds PROVE FeedsInv'
  OBVIOUS
<1>1. [WatchNext]_watchVars /\ [BusNext]_bus /\ [CallsNext]_callVars /\ [ProxyNext]_proxyVars
  BY DEF FeedsNext, feeds
<1> QED
  BY <1>1, NextWatch, NextBus, NextCalls, NextProxy DEF FeedsInv

LEMMA FeedsSafe == FeedsInv => FeedsSound
  BY WatchSafe, BusSafe, CallsSafe, ProxySafe DEF FeedsInv, FeedsSound

(* For every number of items, messages, consumers, samples, nodes and      *)
(* watchers: an event is written to the watcher's file once, through       *)
(* crashes in the middle of a line; a message is settled only when it was  *)
(* handled or put aside, and a consumer that reports itself healthy has    *)
(* settled its messages; an event is judged once and traded on at its      *)
(* discount; a fetch that nothing disturbed and that may rotate through    *)
(* the whole group gives up only when no node serves, and an MNI fetch     *)
(* that gives up leaves the group as it found it.                          *)
THEOREM FeedsKept == FeedsSpec => []FeedsSound
<1>1. FeedsInit => FeedsInv
  BY InitFeeds
<1>2. FeedsInv /\ [FeedsNext]_feeds => FeedsInv'
  BY NextFeeds
<1>3. FeedsInv => FeedsSound
  BY FeedsSafe
<1> QED
  BY <1>1, <1>2, <1>3, PTL DEF FeedsSpec
=============================================================================
