----------------------------- MODULE ModelCalls -----------------------------
(***************************************************************************)
(* How the trading agent gets a playbook out of the language model.  A     *)
(* passive event is judged by two samples that run in two threads, each    *)
(* with its own retries; the more confident answer is taken, discounted    *)
(* when the other sample disagrees, and priced by a further call when it   *)
(* clears the trade threshold.  The judging may have been done ahead of    *)
(* the query by a prefetch.  An active query calls for the news and then   *)
(* for the playbook.  What the model says is arbitrary.                    *)
(*                                                                         *)
(* Confidences are integers, FullConfidence standing for 1.0.              *)
(***************************************************************************)
EXTENDS Integers, FiniteSets

CONSTANTS
    FullConfidence,                \* a confidence of one
    Confidences,          \* the confidences the model answers with
    RelevanceThreshold,   \* passive_relevance_threshold
    TradeThreshold,       \* the symbol's calibrated trade threshold
    DuplicateMultiplier,  \* passive_duplicate_relevant_conflict_multiplier
    UnrelatedMultiplier,  \* passive_unrelated_relevant_conflict_multiplier
    MaxAttempts           \* openai_max_attempts

ASSUME CallsAssumption ==
    /\ FullConfidence \in Nat \ {0} /\ MaxAttempts \in Nat \ {0}
    /\ Confidences \subseteq 0 .. FullConfidence /\ 0 \in Confidences
    /\ RelevanceThreshold \in 0 .. FullConfidence /\ TradeThreshold \in 0 .. FullConfidence
    /\ DuplicateMultiplier \in 0 .. FullConfidence /\ UnrelatedMultiplier \in 0 .. FullConfidence
    /\ \A c \in Confidences : /\ (c * DuplicateMultiplier) % FullConfidence = 0
                              /\ (c * UnrelatedMultiplier) % FullConfidence = 0

VARIABLES
    at,        \* where the agent is: "idle", "prefetch", "ready", "judge", "price", "news", "playbook"
    sample,    \* the two samples: attempts made and what came back
    prefetch,  \* None, Failure or the verdict of the last prefetch
    verdict,   \* what a passive query goes by
    attempt,   \* attempts of the call in progress
    answer,    \* the last playbook: NoAnswer, or what it does
    spent      \* ghost: attempts since the event was taken up

callVars == <<at, sample, prefetch, verdict, attempt, answer, spent>>

Relevances == {"relevant", "unrelated", "duplicate"}
Actions    == {"no_trade", "open_long", "open_short"}
Verdicts   == [rel : Relevances, conf : Confidences, act : Actions]
Nothing(r) == [rel |-> r, conf |-> 0, act |-> "no_trade"]
None       == Nothing("none")
Failure    == Nothing("error")
Waiting    == [made |-> 0, got |-> None]
NoAnswer   == [end |-> "none", now |-> FALSE, act |-> "no_trade", priced |-> FALSE]
Raised     == [NoAnswer EXCEPT !.end = "raised"]
Skipped    == [NoAnswer EXCEPT !.end = "answered"]

\* validate_passive_event_judge: what is not of this form raises.
ValidVerdict(v) ==
    /\ v.rel = "duplicate" => v.conf = 0 /\ v.act = "no_trade"
    /\ v.rel = "unrelated" => v.act = "no_trade"

\* _responses_create_with_retry, an attempt that raised.
Failed(made) == [raised |-> made + 1 = MaxAttempts, made |-> made + 1]

----------------------------------------------------------------------------
(* The two samples. *)

Sampling == at \in {"prefetch", "judge"}
Open(i)  == sample[i].got = None
Ok       == {i \in {1, 2} : sample[i].got \notin {None, Failure}}
Said(r)  == \E i \in Ok : sample[i].got.rel = r

\* run_sample: the call is retried, an answer that does not parse or validate
\* is an error at once.
SampleRuns(i) ==
    /\ Sampling /\ Open(i)
    /\ \/ LET f == Failed(sample[i].made)
          IN  sample' = [sample EXCEPT ![i] = [made |-> f.made,
                                               got |-> IF f.raised THEN Failure ELSE None]]
       \/ \E v \in {v \in Verdicts : ValidVerdict(v)} \cup {Failure} :
             sample' = [sample EXCEPT ![i] = [made |-> @.made + 1, got |-> v]]
    /\ spent' = spent + 1
    /\ UNCHANGED <<at, prefetch, verdict, attempt, answer>>

\* _select_passive_event_judge_candidate: the first of the most confident.
Selected ==
    CHOOSE i \in Ok : \A j \in Ok : \/ sample[i].got.conf > sample[j].got.conf
                                    \/ sample[i].got.conf = sample[j].got.conf /\ i <= j

\* A relevant choice next to a dissenting sample loses confidence.
Discount(v) ==
    IF v.rel # "relevant" THEN v.conf
    ELSE IF Said("duplicate") THEN (v.conf * DuplicateMultiplier) \div FullConfidence
    ELSE IF Said("unrelated") THEN (v.conf * UnrelatedMultiplier) \div FullConfidence
    ELSE v.conf

\* _call_passive_event_judge, after both samples.
JudgeAnswer ==
    LET v == sample[Selected].got
        d == [v EXCEPT !.conf = Discount(v)]
    IN  IF d.rel = "relevant" /\ d.conf < RelevanceThreshold
        THEN [d EXCEPT !.rel = "unrelated", !.act = "no_trade"] ELSE d

AllSampled == \A i \in {1, 2} : ~Open(i)

\* should_run_pricing, and the gate that is computed again for the playbook.
ShouldPrice(v) == v.rel = "relevant" /\ v.act # "no_trade" /\ v.conf >= TradeThreshold

\* _call_passive_two_step_model, assembling.
Playbooked(v, priced) ==
    [end |-> "answered", now |-> ShouldPrice(v), priced |-> priced,
     act |-> IF ShouldPrice(v) THEN v.act ELSE "no_trade"]

\* The route of the passive graph: pricing, or the playbook without prices.
Route(v) ==
    /\ verdict' = v
    /\ attempt' = 0
    /\ IF ShouldPrice(v) THEN at' = "price" /\ UNCHANGED answer
                         ELSE at' = "idle" /\ answer' = Playbooked(v, FALSE)

\* Mutant: a prefetch without a valid sample never reports.
PrefetchEnds_Silent ==
    /\ at = "prefetch" /\ AllSampled /\ Ok # {}
    /\ at' = "ready"
    /\ prefetch' = JudgeAnswer
    /\ UNCHANGED <<sample, verdict, attempt, answer, spent>>

\* The prefetch answers, or reports that it failed.
PrefetchEnds ==
    /\ at = "prefetch" /\ AllSampled
    /\ at' = "ready"
    /\ prefetch' = IF Ok = {} THEN Failure ELSE JudgeAnswer
    /\ UNCHANGED <<sample, verdict, attempt, answer, spent>>

JudgeEnds ==
    /\ at = "judge" /\ AllSampled
    /\ IF Ok = {} THEN at' = "idle" /\ answer' = Raised /\ UNCHANGED <<verdict, attempt>>
                  ELSE Route(JudgeAnswer)
    /\ UNCHANGED <<sample, prefetch, spent>>

----------------------------------------------------------------------------
(* The queries. *)

NewSample == at = "idle" /\ answer' = NoAnswer /\ spent' = 0

Prefetch ==
    /\ NewSample
    /\ at' = "prefetch"
    /\ sample' = [i \in {1, 2} |-> Waiting]
    /\ prefetch' = None
    /\ UNCHANGED <<verdict, attempt>>

\* run_judge: a prefetched verdict that has an output and is for the symbol
\* of the query is taken as it is.
Reusable(sameSymbol) == sameSymbol /\ prefetch \notin {None, Failure}

\* get_playbook for the prefetched event; a prefetch for another symbol is as
\* good as one that failed.
AskPrefetched ==
    /\ at = "ready"
    /\ \E sameSymbol \in BOOLEAN :
          IF Reusable(sameSymbol)
          THEN Route(prefetch) /\ UNCHANGED <<sample, prefetch>>
          ELSE /\ at' = "judge"
               /\ sample' = [i \in {1, 2} |-> Waiting]
               /\ prefetch' = Failure
               /\ UNCHANGED <<verdict, attempt, answer>>
    /\ UNCHANGED spent

\* get_playbook for an event nobody judged ahead.
AskPassive ==
    /\ NewSample
    /\ at' = "judge"
    /\ sample' = [i \in {1, 2} |-> Waiting]
    /\ prefetch' = None
    /\ UNCHANGED <<verdict, attempt>>

\* get_playbook for an active query; the news are called for when they are
\* forced, nothing is open and the tape has events.
AskActive ==
    /\ NewSample
    /\ at' \in {"news", "playbook"}
    /\ sample' = [i \in {1, 2} |-> Waiting]
    /\ verdict' = None
    /\ attempt' = 0 /\ prefetch' = None

\* get_playbook without a context for the symbol.
AskNothing ==
    /\ at = "idle"
    /\ answer' = Skipped
    /\ UNCHANGED <<at, sample, prefetch, verdict, attempt, spent>>

\* A call that fails is tried again, and raises out of the query at the end.
CallFails ==
    LET f == Failed(attempt)
    IN  /\ attempt' = f.made
        /\ IF f.raised THEN at' = "idle" /\ answer' = Raised ELSE UNCHANGED <<at, answer>>

\* _call_passive_technical_pricing: prices of any size, or an answer that does
\* not validate.
PriceRuns ==
    /\ at = "price"
    /\ \/ CallFails
       \/ /\ at' = "idle" /\ attempt' = attempt + 1
          /\ answer' \in {Playbooked(verdict, TRUE), Raised}
    /\ spent' = spent + 1
    /\ UNCHANGED <<sample, prefetch, verdict>>

\* _build_market_news_context, as far as the query depends on it.
NewsRuns ==
    /\ at = "news"
    /\ \/ CallFails
       \/ at' = "playbook" /\ attempt' = 0 /\ UNCHANGED answer
       \/ at' = "idle" /\ attempt' = attempt + 1 /\ answer' = Raised
    /\ spent' = spent + 1
    /\ UNCHANGED <<sample, prefetch, verdict>>

\* validate_playbook: without a trigger no confidence, otherwise a confidence
\* on the right side of the threshold; an event that does not matter has no
\* plan, and a plan that executes at once has no scenario.
ValidPlaybook(p) ==
    /\ p.rel = "not_applicable" => p.conf = -1
    /\ p.rel = "duplicate" => p.conf = 0
    /\ p.rel = "unrelated" => p.conf \in 0 .. TradeThreshold - 1
    /\ p.rel = "relevant" => p.conf >= TradeThreshold
    /\ p.rel \in {"unrelated", "duplicate"} => ~p.plan
    /\ p.rel \in {"not_applicable", "relevant"} => p.plan
    /\ ~(p.now /\ p.scenario)

\* _cap_playbook
Capped(p) ==
    [end |-> "answered", priced |-> TRUE,
     now |-> p.plan /\ p.now /\ p.act # "no_trade",
     act |-> IF p.plan THEN p.act ELSE "no_trade"]

PlaybookRuns ==
    /\ at = "playbook"
    /\ \/ CallFails
       \/ /\ at' = "idle" /\ attempt' = attempt + 1
          /\ \E p \in [rel : Relevances \cup {"not_applicable"}, conf : Confidences \cup {-1},
                       plan : BOOLEAN, now : BOOLEAN, act : Actions, scenario : BOOLEAN] :
                answer' = IF ValidPlaybook(p) THEN Capped(p) ELSE Raised
    /\ spent' = spent + 1
    /\ UNCHANGED <<sample, prefetch, verdict>>

CallsInit ==
    /\ at = "idle" /\ sample = [i \in {1, 2} |-> Waiting]
    /\ prefetch = None /\ verdict = None /\ attempt = 0
    /\ answer = NoAnswer /\ spent = 0

CallReturns == PriceRuns \/ NewsRuns \/ PlaybookRuns
QueryGoesOn == PrefetchEnds \/ AskPrefetched \/ JudgeEnds

CallsNext ==
    \/ Prefetch \/ AskPassive \/ AskActive \/ AskNothing
    \/ QueryGoesOn \/ CallReturns
    \/ \E i \in {1, 2} : SampleRuns(i)

\* Every request has a timeout, so each one returns or raises; the prefetch
\* and the samples run in threads of their own.
CallsFair ==
    /\ WF_callVars(QueryGoesOn) /\ WF_callVars(CallReturns)
    /\ \A i \in {1, 2} : WF_callVars(SampleRuns(i))

CallsSpec == CallsInit /\ [][CallsNext]_callVars /\ CallsFair

----------------------------------------------------------------------------

\* A trade on a passive event was priced, and every sample that found the
\* event known or beside the point has lowered the confidence it went by: the
\* strongest opinion for it clears the trade threshold even so.
TradesDiscounted ==
    (answer.end = "answered" /\ answer.now /\ verdict # None) =>
        /\ answer.priced
        /\ \E i \in Ok :
              LET v == sample[i].got
                  m == IF Said("duplicate") THEN DuplicateMultiplier
                       ELSE IF Said("unrelated") THEN UnrelatedMultiplier ELSE FullConfidence
              IN  /\ v.rel = "relevant" /\ v.act = answer.act
                  /\ v.conf * m >= TradeThreshold * FullConfidence
                  /\ \A j \in Ok : sample[j].got.conf <= v.conf

\* An event is judged once: the attempts it costs are those of two samples and
\* one pricing, and of two samples more only where the prefetch came to nothing
\* or was for another symbol.
JudgedOnce ==
    spent <= MaxAttempts * (IF prefetch = Failure THEN 5 ELSE 3)

\* A query that was begun comes back, with a playbook or with an exception.
QueryReturns == (at # "idle") ~> (at = "idle")
=============================================================================
