--------------------------- MODULE SoftStopPoller ---------------------------
(***************************************************************************)
(* The cross-asset buffer of a risk session's soft stop                    *)
(* (market_agent/agent_risk_session.py): a thread polls the price of       *)
(* another market into a cache; the risk session takes a reference from    *)
(* the cache, keeps the largest move against the position since, and       *)
(* loosens its soft stop while the move lasts.                             *)
(*                                                                         *)
(* The poller asks the exchange's reader (market_agent/exchange.py), which *)
(* keeps the prices of a dex for a short while, shares them with the       *)
(* trading loop's thread without a lock, and answers with old ones when    *)
(* the exchange does not.                                                  *)
(*                                                                         *)
(* Prices are integers and a move is a difference.  The session is kept on *)
(* disk; the caches are not, and a process that starts again may be told   *)
(* to watch another market.                                                *)
(***************************************************************************)
EXTENDS Integers, FiniteSetsExt

CONSTANTS
  Watchable,      \* markets the process may be told to watch
  Quotes,         \* prices the exchange may answer with
  StartMove, FullMove, ReleaseMove,   \* when the buffer starts, is full, is released
  CacheAge,       \* cache_max_age_seconds
  ReferenceAge,   \* what it is for a reference: three polls, if that is more
  PersistEvery,   \* the peak is saved at most so often
  MidsTtl,        \* ttl_seconds of get_mids
  MaxTicks, MaxCrashes, MaxQuoted

ASSUME PollerAssumption ==
  /\ Quotes \subseteq Nat \ {0} /\ {StartMove, FullMove, ReleaseMove, CacheAge, PersistEvery, MidsTtl} \subseteq Nat
  /\ StartMove < FullMove /\ CacheAge <= ReferenceAge

VARIABLES
  tick,           \* time.time()
  watched,        \* risk_cross_asset_soft_stop_symbol of this process
  mids,           \* _mids_cache_by_dex: the watched market's price; 0: the reader has none
  other,          \* where the trading loop's own call of get_mids is
  poller,         \* where the polling thread is
  cache,          \* _cross_asset_soft_stop_cache
  session,        \* the risk session's reference
  persisted,      \* the same, on disk
  peakSavedAt,    \* _cross_asset_soft_stop_peak_persist_at
  pass,           \* where the risk session's pass is
  quotedMoves,    \* ghost: every quote
  crossed,        \* ghost: an older answer was saved over a newer one
  crashes

(* Ghost in all of these: `quoted', when the price was the market's, and   *)
(* `unheard': the exchange did not answer the poll the price is of.        *)
pollerVars == <<tick, watched, mids, other, poller, cache, session, persisted, peakSavedAt, pass, quotedMoves,
                crossed, crashes>>
sessionVars == <<session, persisted, peakSavedAt, pass>>
readerVars == <<mids, other, quotedMoves, crossed>>

NoPrice == [symbol |-> "", price |-> 0, at |-> 0, quoted |-> 0, unheard |-> FALSE]
NoMids(t) == [price |-> 0, at |-> 0, quoted |-> t]
NoTrade == [side |-> "none"]
Unset(side) == [side |-> side, symbol |-> "", entry |-> 0, quoted |-> 0, peak |-> 0]
Sleeping == [at |-> "asleep"]

PollerInit ==
  /\ tick = 1 /\ watched \in Watchable /\ poller = Sleeping /\ cache = NoPrice
  /\ mids = NoMids(tick) /\ other = Sleeping
  /\ session = NoTrade /\ persisted = NoTrade /\ peakSavedAt = 0 /\ pass = "rest"
  /\ quotedMoves = {} /\ crossed = FALSE /\ crashes = 0

-----------------------------------------------------------------------------
(* get_mids.  Prices that are young enough are not asked for again; what   *)
(* the reader has none of, it may ask for at once.                         *)
Young == tick - mids.at <= MidsTtl
Expired == ~Young \/ mids.price = 0
(* An answer is kept with the time it was asked for; its price was the     *)
(* market's at some time since, or the market was not part of it.  The     *)
(* threads do not wait for each other.                                     *)
Saved(asked, p, quoted) ==
  /\ quoted \in asked..tick /\ Cardinality(quotedMoves) < MaxQuoted
  /\ mids' = [price |-> p, at |-> asked, quoted |-> quoted]
  /\ quotedMoves' = quotedMoves \cup {[symbol |-> watched, price |-> p, at |-> quoted]}
  /\ crossed' = (crossed \/ quoted < mids.quoted)
SavedWithout(asked) ==
  /\ Cardinality(quotedMoves) < MaxQuoted
  /\ mids' = [mids EXCEPT !.price = 0, !.at = asked]
  /\ UNCHANGED <<quotedMoves, crossed>>

(* The trading loop asks for prices of the same dex.                       *)
OtherAsks ==
  /\ other = Sleeping /\ Expired
  /\ other' = [at |-> "asking", asked |-> tick]
  /\ UNCHANGED <<tick, watched, mids, poller, cache, sessionVars, quotedMoves, crossed, crashes>>
OtherAnswered ==
  /\ other.at = "asking" /\ other' = Sleeping
  /\ \/ SavedWithout(other.asked)
     \/ \E p \in Quotes, quoted \in 1..tick : Saved(other.asked, p, quoted)
  /\ UNCHANGED <<tick, watched, poller, cache, sessionVars, crashes>>
OtherFails ==
  /\ other.at = "asking" /\ other' = Sleeping
  /\ UNCHANGED <<tick, watched, mids, poller, cache, sessionVars, quotedMoves, crossed, crashes>>

-----------------------------------------------------------------------------
(* _cross_asset_soft_stop_poll_loop: the time is taken before the price is *)
(* asked for.                                                              *)
PollStarts ==
  /\ poller = Sleeping
  /\ poller' = [at |-> "polling", stamp |-> tick]
  /\ UNCHANGED <<tick, watched, cache, sessionVars, readerVars, crashes>>
Priced(p, quoted, unheard) ==
  poller' = [at |-> "answered", stamp |-> poller.stamp, price |-> p, quoted |-> quoted, unheard |-> unheard]

(* The price is the one the reader has,                                    *)
PollServed ==
  /\ poller.at = "polling" /\ Young /\ mids.price # 0
  /\ Priced(mids.price, mids.quoted, FALSE)
  /\ UNCHANGED <<tick, watched, cache, sessionVars, readerVars, crashes>>
(* or the exchange is asked: the thread keeps what the reader had.         *)
PollAsks ==
  /\ poller.at = "polling" /\ Expired
  /\ poller' = [at |-> "asking", stamp |-> poller.stamp, asked |-> tick,
                had |-> mids.price, quoted |-> mids.quoted]
  /\ UNCHANGED <<tick, watched, cache, sessionVars, readerVars, crashes>>
PollQuoted(p, quoted) ==
  /\ poller.at = "asking" /\ Saved(poller.asked, p, quoted)
  /\ Priced(p, quoted, FALSE)
  /\ UNCHANGED <<tick, watched, other, cache, sessionVars, crashes>>
(* A call that fails is answered with it, however old it is.               *)
PollUnheard ==
  /\ poller.at = "asking" /\ poller.had # 0
  /\ Priced(poller.had, poller.quoted, TRUE)
  /\ UNCHANGED <<tick, watched, cache, sessionVars, readerVars, crashes>>
\* Mutant: the price is stamped when it is written.
Stamp_Now == tick
Stamp == poller.stamp
PollWrites ==
  /\ poller.at = "answered" /\ poller' = Sleeping
  /\ cache' = [symbol |-> watched, price |-> poller.price, at |-> Stamp, quoted |-> poller.quoted,
               unheard |-> poller.unheard]
  /\ UNCHANGED <<tick, watched, sessionVars, readerVars, crashes>>
(* The market's name cannot be resolved, there is no price of it, or an    *)
(* error and nothing to serve: the last one stays, with its time.          *)
Unpriced ==
  /\ poller' = Sleeping /\ cache' = [cache EXCEPT !.symbol = watched]
  /\ UNCHANGED <<tick, watched, other, sessionVars, crashes>>
PollFails ==
  /\ poller.at = "polling" \/ (poller.at = "asking" /\ poller.had = 0)
  /\ Unpriced /\ UNCHANGED <<mids, quotedMoves, crossed>>
PollMissing ==
  /\ poller.at = "asking" /\ SavedWithout(poller.asked)
  /\ Unpriced

-----------------------------------------------------------------------------
Usable(age) == cache.symbol = watched /\ cache.price > 0 /\ tick - cache.at <= age

(* _initialize_risk_session_cross_asset_reference                          *)
WithReference(s) ==
  IF (s.symbol = watched /\ s.entry > 0) \/ ~Usable(ReferenceAge) THEN s
  ELSE [s EXCEPT !.symbol = watched, !.entry = cache.price, !.quoted = cache.quoted, !.peak = 0]

(* _build_staged_risk_session_from_stop and _replace_risk_session.         *)
Opened(side) ==
  /\ pass = "rest" /\ session = NoTrade
  /\ session' = WithReference(Unset(side)) /\ persisted' = session'
  /\ UNCHANGED <<tick, watched, readerVars, poller, cache, peakSavedAt, pass, crashes>>
Closed ==
  /\ pass = "rest" /\ session # NoTrade
  /\ session' = NoTrade /\ persisted' = NoTrade
  /\ UNCHANGED <<tick, watched, readerVars, poller, cache, peakSavedAt, pass, crashes>>

(* _risk_session_cross_asset_soft_stop_adjustment reads the cache for the  *)
(* reference and again for the price, and the poller writes in between.    *)
TakesReference ==
  /\ pass = "rest" /\ session # NoTrade
  /\ session' = WithReference(session) /\ pass' = "priced"
  /\ UNCHANGED <<tick, watched, readerVars, poller, cache, persisted, peakSavedAt, crashes>>

Against(side, move) == Max({0, IF side = "long" THEN move ELSE -move})
Adverse == Against(session.side, cache.price - session.entry)
Basis(now, peak) ==
  IF ReleaseMove > 0 /\ now <= Max({0, peak - ReleaseMove})
  THEN Min({peak, now + ReleaseMove \div 2}) ELSE peak
Buffer(basis) == Min({FullMove - StartMove, Max({0, basis - StartMove})})

(* The buffer the stop is given.                                           *)
Adjustable == session.symbol = watched /\ session.entry # 0 /\ Usable(CacheAge)
Peak == Max({session.peak, Adverse})
Loosening == IF Adjustable THEN Buffer(Basis(Adverse, Peak)) ELSE 0
Adjusts ==
  /\ pass = "priced" /\ pass' = "rest"
  /\ IF ~Adjustable THEN UNCHANGED <<session, persisted, peakSavedAt>>
     ELSE /\ session' = [session EXCEPT !.peak = Peak]
          /\ IF Peak > session.peak /\ tick - peakSavedAt >= PersistEvery
             THEN peakSavedAt' = tick /\ persisted' = session'
             ELSE UNCHANGED <<peakSavedAt, persisted>>
  /\ UNCHANGED <<tick, watched, readerVars, poller, cache, crashes>>

(* The rest of the risk session's pass saves it too, whatever its reason.  *)
SavesSession ==
  /\ pass = "rest" /\ session # NoTrade /\ persisted # session
  /\ persisted' = session
  /\ UNCHANGED <<tick, watched, readerVars, poller, cache, session, peakSavedAt, pass, crashes>>

-----------------------------------------------------------------------------
(* The process dies and is started again, told to watch what it now is;    *)
(* its first pass restores the session, after the poller has been started. *)
ProcessDies ==
  /\ crashes < MaxCrashes /\ crashes' = crashes + 1
  /\ watched' \in Watchable /\ poller' = Sleeping /\ cache' = NoPrice
  /\ mids' = NoMids(tick) /\ other' = Sleeping
  /\ session' = NoTrade /\ peakSavedAt' = 0 /\ pass' = "restore"
  /\ UNCHANGED <<tick, persisted, quotedMoves, crossed>>
Restores ==
  /\ pass = "restore" /\ pass' = "rest"
  /\ session' = IF persisted = NoTrade THEN NoTrade ELSE WithReference(persisted)
  /\ persisted' = session'
  /\ UNCHANGED <<tick, watched, readerVars, poller, cache, peakSavedAt, crashes>>

TickPasses ==
  /\ tick < MaxTicks /\ tick' = tick + 1
  /\ UNCHANGED <<watched, readerVars, poller, cache, sessionVars, crashes>>

PollerNext ==
  \/ PollStarts \/ PollServed \/ PollAsks \/ PollUnheard \/ PollWrites \/ PollFails
  \/ PollMissing \/ \E p \in Quotes, quoted \in 1..tick : PollQuoted(p, quoted)
  \/ OtherAsks \/ OtherAnswered \/ OtherFails
  \/ \E side \in {"long", "short"} : Opened(side)
  \/ Closed \/ TakesReference \/ Adjusts \/ SavesSession
  \/ ProcessDies \/ Restores \/ TickPasses

PollerSpec == PollerInit /\ [][PollerNext]_pollerVars

-----------------------------------------------------------------------------
(* A stop is loosened only by a price that was the other market's no       *)
(* longer ago than the poller's cache and the reader's may be old          *)
(* together, however long the poller's call took, whichever thread asked   *)
(* for it and however many polls have found no price since.  The exception *)
(* is a poll the exchange did not answer: the reader then hands out what   *)
(* it has, of any age, and the poller stamps it as new.                    *)
FreshPrices ==
  pass = "priced" /\ Loosening > 0 => tick - cache.quoted <= CacheAge + MidsTtl \/ cache.unheard

(* The peak that loosens a stop is a move that was quoted, by the market   *)
(* the reference is of and no earlier than the reference itself was,       *)
(* whatever crashed in between, whichever market is watched since and      *)
(* however old the prices were that were handed out.  Without the time     *)
(* where two threads' calls crossed and the older answer was kept.         *)
PeakEarned ==
  session # NoTrade /\ session.peak > 0 =>
    \E q \in quotedMoves : /\ q.symbol = session.symbol /\ (q.at >= session.quoted \/ crossed)
                           /\ Against(session.side, q.price - session.entry) = session.peak
=============================================================================
