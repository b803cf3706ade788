----------------------------- MODULE TrendFetch -----------------------------
(***************************************************************************)
(* The cross-asset trend fetcher (cross_asset/trend_fetcher.py): which     *)
(* market a name resolves to, where its minute bars come from, and what    *)
(* they are folded into.                                                   *)
(*                                                                         *)
(* A client keeps the exchange's catalogue for its whole life, and any of  *)
(* the calls that build it may fail.  Minutes are numbered; a minute bar   *)
(* is one price, the tape's, so a bar of several minutes has its own open, *)
(* high, low and close.  A minute without trades has no bar.               *)
(***************************************************************************)
EXTENDS Integers, SequencesExt, FiniteSetsExt

CONSTANTS
  Dexes,          \* the exchange's dexes in its order, the main one ("") first
  ListedOn,         \* Listed[d]: names of the markets of dex d
  Asked,          \* names a trend is asked for
  RouteOf,        \* RouteOf[q]: "exchange", "dollar", "futures", "forex", "quote" or "refused"
  AliasesOf,      \* AliasesOf[q]: market names, the environment's alias first
  ExactOf,        \* ExactOf[q]: markets q is a name of, in catalogue order
  CloseTo,        \* CloseTo[q]: markets q resembles, best first; empty when q is ambiguous
  TextOf,         \* TextOf[q]: q as a coin
  Frames,         \* minutes of the timeframes
  BarsPerFrame,
  Slack,          \* minutes fetched in excess
  MaxMinutes,     \* MAX_BASE_1M_BARS
  Tapes           \* what the minutes' prices may be, 0 for none: functions on 0..n

DexSet == Range(Dexes)
AllMarkets == {[dex |-> d, name |-> n] : d \in DexSet, n \in UNION {ListedOn[e] : e \in DexSet}}
OnExchange(c) == c.dex \in DexSet /\ c.name \in ListedOn[c.dex]

ASSUME TrendAssumption ==
  /\ Frames \subseteq Nat \ {0} /\ Frames # {} /\ {BarsPerFrame, Slack, MaxMinutes} \subseteq Nat
  /\ Max(Frames) * BarsPerFrame <= MaxMinutes      \* else the request is refused
  /\ \A q \in Asked : RouteOf[q] \in {"exchange", "dollar", "futures", "forex", "quote", "refused"}
  /\ \A d \in DexSet : "none" \notin ListedOn[d]

VARIABLES
  tape, minute,    \* the price of every minute, and the present one
  dexNames,        \* _perp_dex_names: unknown, or the dexes the client knows
  metas,           \* _meta_cache_by_dex: dexes whose markets are known
  catalog,         \* _market_catalog: none yet, or the markets in it
  request,         \* the request being served
  reply,           \* what the last request was answered with
  resolved         \* ghost: the market each name was resolved to, when it was

trendVars == <<tape, minute, dexNames, metas, catalog, request, reply, resolved>>

Unknown == {"unknown"}
NoMarket == [dex |-> "", name |-> "none"]
NoCatalog == {NoMarket}
Resting == [at |-> "idle"]
NoReply == [kind |-> "none"]

TrendInit ==
  /\ tape \in Tapes /\ minute \in {m \in DOMAIN tape : m + 1 >= Max(Frames) * BarsPerFrame}
  /\ dexNames = Unknown /\ metas = {} /\ catalog = NoCatalog
  /\ request = Resting /\ reply = NoReply /\ resolved = [q \in Asked |-> {}]

-----------------------------------------------------------------------------
(* Folding minute bars.                                                    *)
Needed == Max(Frames) * BarsPerFrame                          \* _base_1m_bars_needed
FetchCount == Min({MaxMinutes, Needed + Slack})

(* A source asked for a span of time answers with the minutes of it that   *)
(* have a bar; one asked for a number of bars goes back as far as it must. *)
Traded(end) == {t \in DOMAIN tape : t <= end /\ tape[t] # 0}
Window(end) == {t \in Traded(end) : t > end - FetchCount}
LastBars(end) == {t \in Traded(end) : Cardinality({u \in Traded(end) : u > t}) < FetchCount}
BarsAt(T) == [t \in T |-> tape[t]]
(* One quote: the price of the last trade.                                 *)
QuoteAt(end) == [t \in {end} |-> tape[Max(Traded(end))]]

(* resample_bars and the part of summarize_bars that keeps the last bars.  *)
Folded(bars, frame) ==
  LET buckets == {t \div frame : t \in DOMAIN bars}
      of(b) == {t \in DOMAIN bars : t \div frame = b}
  IN [b \in {x \in buckets : Cardinality({y \in buckets : y > x}) < BarsPerFrame} |->
        [open |-> bars[Min(of(b))], close |-> bars[Max(of(b))],
         high |-> Max({bars[t] : t \in of(b)}), low |-> Min({bars[t] : t \in of(b)})]]

(* build_trend_snapshot.  One quote is no trend, nor are no bars: the      *)
(* direction is unknown.                                                   *)
(* `source', `served' and `end' are ghost: whose bars they are, whether    *)
(* the market's own candles were not missing, and the last minute.         *)
Snapshot(label, source, served, bars, kind, end) ==
  [kind |-> kind, label |-> label, source |-> source, served |-> served, end |-> end,
   latest |-> IF DOMAIN bars = {} THEN 0 ELSE bars[Max(DOMAIN bars)],
   frames |-> [f \in Frames |-> Folded(bars, f)],
   direction |-> [f \in Frames |->
      LET fold == Folded(bars, f)
          first == fold[Min(DOMAIN fold)].open
          last == fold[Max(DOMAIN fold)].close
      IN IF kind = "quote" \/ DOMAIN fold = {} THEN "unknown"
         ELSE IF last > first THEN "up" ELSE IF last < first THEN "down" ELSE "flat"]]

Reply(r) == reply' = r /\ request' = Resting
NoAnswerReply == Reply(NoReply)

-----------------------------------------------------------------------------
(* fetch_symbol_trends chooses the source by the name alone.               *)
Ask(q) ==
  /\ request.at = "idle"
  /\ CASE RouteOf[q] = "refused"  -> NoAnswerReply
       [] RouteOf[q] = "exchange" ->
            request' = [at |-> "catalogue", query |-> q] /\ reply' = NoReply
       [] OTHER -> request' = [at |-> RouteOf[q], query |-> q, end |-> minute, tries |-> 4]
                   /\ reply' = NoReply
  /\ UNCHANGED <<tape, minute, dexNames, metas, catalog, resolved>>

(* _get_perp_dex_names: a call that fails leaves the main dex for good.    *)
NamesLoaded ==
  /\ request.at = "catalogue" /\ catalog = NoCatalog /\ dexNames = Unknown
  /\ dexNames' \in {DexSet, {Head(Dexes)}}
  /\ UNCHANGED <<tape, minute, metas, catalog, request, reply, resolved>>
(* get_market_catalog: a dex that cannot be read is left out, and what was *)
(* read is the catalogue from then on.                                     *)
CatalogKept == catalog # NoCatalog
CatalogBuilt ==
  /\ request.at = "catalogue" /\ dexNames # Unknown
  /\ IF CatalogKept THEN UNCHANGED <<catalog, metas>>
     ELSE \E read \in SUBSET dexNames :
            /\ metas' = metas \cup read
            /\ catalog' = {m \in AllMarkets : OnExchange(m) /\ m.dex \in metas'}
  /\ request' = [at |-> "resolve", query |-> request.query]
  /\ UNCHANGED <<tape, minute, dexNames, reply, resolved>>

(* resolve_market: aliases, exact names, then resemblance, each among the  *)
(* markets in the catalogue.                                               *)
FirstOf(s) == IF s = <<>> THEN NoMarket ELSE Head(s)
InCatalog(known, s) == SelectSeq(s, LAMBDA m : m \in known)
ByAlias(known, q) ==
  LET on(n) == [i \in DOMAIN Dexes |-> [dex |-> Dexes[Len(Dexes) + 1 - i], name |-> n]]   \* preferred dexes first
  IN FlattenSeq([i \in DOMAIN AliasesOf[q] |-> InCatalog(known, on(AliasesOf[q][i]))])
Resolution(known, q) ==
  FirstOf(ByAlias(known, q) \o InCatalog(known, ExactOf[q]) \o InCatalog(known, CloseTo[q]))

(* fetch_1m_bars of the exchange: the coins to try.                        *)
Coins(q, m) == <<m, [dex |-> "", name |-> m.name], TextOf[q]>>
Resolve ==
  /\ request.at = "resolve"
  /\ LET q == request.query
         m == Resolution(catalog, q)
     IN IF m = NoMarket THEN NoAnswerReply /\ UNCHANGED resolved
        ELSE /\ request' = [at |-> "candles", query |-> q, market |-> m, end |-> minute,
                            coins |-> Coins(q, m), served |-> TRUE]
             /\ resolved' = [resolved EXCEPT ![q] = @ \cup {m}]
             /\ UNCHANGED reply
  /\ UNCHANGED <<tape, minute, dexNames, metas, catalog>>

(* Candles are asked for coin by coin.  A coin may have none, and the call *)
(* may fail.                                                               *)
CandlesServed ==
  /\ request.at = "candles" /\ request.coins # <<>>
  /\ OnExchange(Head(request.coins)) /\ Window(request.end) # {}
  /\ Reply(Snapshot(request.market, Head(request.coins), request.served,
                    BarsAt(Window(request.end)), "candles", request.end))
  /\ UNCHANGED <<tape, minute, dexNames, metas, catalog, resolved>>
CandlesMissing ==
  /\ request.at = "candles" /\ request.coins # <<>>
  /\ request' = [request EXCEPT !.coins = Tail(@),
                                !.served = @ /\ Head(request.coins) # request.market]
  /\ UNCHANGED <<tape, minute, dexNames, metas, catalog, reply, resolved>>
(* _fetch_quote_snapshot_bar: the market's own quote, if its fields agree. *)
QuoteInstead ==
  /\ request.at = "candles" /\ request.coins = <<>>
  /\ \/ NoAnswerReply
     \/ /\ Traded(request.end) # {}
        /\ Reply(Snapshot(request.market, request.market, FALSE, QuoteAt(request.end), "quote",
                          request.end))
  /\ UNCHANGED <<tape, minute, dexNames, metas, catalog, resolved>>

-----------------------------------------------------------------------------
(* The other sources.                                                      *)
Elsewhere == [dex |-> "", name |-> "elsewhere"]
OtherReply(bars, kind, end) == Reply(Snapshot(Elsewhere, Elsewhere, TRUE, bars, kind, end))

(* Futures history ends where the provider says it does: a window that     *)
(* reaches further is asked for again, four requests in all.               *)
FuturesServed == request.at = "futures" /\ OtherReply(BarsAt(Window(request.end)), "candles", request.end)
FuturesTooRecent ==
  /\ request.at = "futures"
  /\ \/ NoAnswerReply
     \/ \E end \in DOMAIN tape : /\ end < request.end /\ end + 1 >= Needed /\ request.tries > 1
                                 /\ request' = [request EXCEPT !.end = end, !.tries = @ - 1]
                                 /\ UNCHANGED reply
(* Forex pairs are asked for a number of bars; the dollar index is built   *)
(* from the minutes both of its pairs have, if there are any.              *)
ForexServed ==
  request.at = "forex" /\ (NoAnswerReply \/ OtherReply(BarsAt(LastBars(request.end)), "candles", request.end))
DollarServed ==
  /\ request.at = "dollar"
  /\ \/ NoAnswerReply
     \/ \E a, b \in {LastBars(request.end), LastBars(request.end) \ {request.end}} :
          a \cap b # {} /\ OtherReply(BarsAt(a \cap b), "common", request.end)
QuoteServed ==
  /\ request.at = "quote"
  /\ NoAnswerReply \/ (Traded(request.end) # {} /\ OtherReply(QuoteAt(request.end), "quote", request.end))
Elsewheres ==
  /\ FuturesServed \/ FuturesTooRecent \/ ForexServed \/ DollarServed \/ QuoteServed
  /\ UNCHANGED <<tape, minute, dexNames, metas, catalog, resolved>>

MinutePasses ==
  /\ minute + 1 \in DOMAIN tape /\ minute' = minute + 1
  /\ UNCHANGED <<tape, dexNames, metas, catalog, request, reply, resolved>>

TrendNext ==
  \/ \E q \in Asked : Ask(q)
  \/ NamesLoaded \/ CatalogBuilt \/ Resolve
  \/ CandlesServed \/ CandlesMissing \/ QuoteInstead \/ Elsewheres \/ MinutePasses

TrendSpec == TrendInit /\ [][TrendNext]_trendVars

-----------------------------------------------------------------------------
(* Every bar of a reply made of candles is whole: its open, high, low and  *)
(* close are those of all the minutes it covers that have a bar, up to the *)
(* end of the window, and no bar is missing, the oldest one and the        *)
(* largest timeframe at the fetcher's limit included.  Where a source has  *)
(* no minute at all of one of the last bars, the sample reaches further    *)
(* back, and the oldest bar in it may have been fetched in part.           *)
WholeWindow ==
  reply.kind = "candles" => \A f \in Frames :
    LET fold == reply.frames[f]
        minutes(b) == {t \in Traded(reply.end) : t \div f = b}
        newest == reply.end \div f
        sparse == \E b \in newest - BarsPerFrame + 1 .. newest : minutes(b) = {}
    IN /\ ~sparse => Cardinality(DOMAIN fold) = BarsPerFrame
       /\ \A b \in DOMAIN fold : ~sparse \/ b # Min(DOMAIN fold) =>
            fold[b] = [open |-> tape[Min(minutes(b))], close |-> tape[Max(minutes(b))],
                       high |-> Max({tape[t] : t \in minutes(b)}), low |-> Min({tape[t] : t \in minutes(b)})]

(* Bars labelled with a market are that market's.  The exception is a      *)
(* market of another dex whose own candles were missing: the plain name is *)
(* tried next, and names a market of the main dex.                         *)
LabelHonest ==
  reply.kind \in {"candles", "quote"} /\ reply.source # reply.label =>
    ~reply.served /\ reply.label.dex # Head(Dexes)

(* Whatever calls failed while the catalogue was built, a client resolves  *)
(* one name to one market for as long as it lives.                         *)
SameMarket == \A q \in Asked : Cardinality(resolved[q]) <= 1
=============================================================================
