----------------------------- MODULE NewsMemory -----------------------------
(***************************************************************************)
(* What the trading agent remembers about the news.  The helper reads the  *)
(* event tape and answers with the market's main line and the events that  *)
(* are materially new; both are kept in memory and appended to a file      *)
(* each.  The newest of those events is a checkpoint: the tape up to it is *)
(* not shown to the helper again.  Relevant passive events are remembered  *)
(* before they are traded, in a list the next judgement is given and in a  *)
(* log.  A process may die between any two writes, or in the middle of     *)
(* one, and the next one starts from the files, for the same symbol or for *)
(* another.                                                                *)
(*                                                                         *)
(* Only the last line of the main line's file is ever read; of the events' *)
(* file the newest line that parses; of a log the newest lines, of which   *)
(* those that do not parse are skipped.  A line cut short swallows the one *)
(* appended after it.  Restarting and dying are one step.                  *)
(***************************************************************************)
EXTENDS Naturals, FiniteSets, SequencesExt

CONSTANTS
    Instruments,   \* what TRADE_SYMBOL may be set to
    MaxTape,       \* events that arrive
    TapeWindow,    \* event_context_max_items
    BufferSize,    \* passive_llm_relevant_event_buffer_size
    RecentLimit,   \* passive_recent_materially_new_event_limit
    MaxTurns,      \* calls of the helper and events found relevant, together
    MaxReboots,    \* restarts of the agent
    MaxCuts        \* lines cut short, lists and lines that could not be written

VARIABLES
    symbol,      \* the configured symbol
    newsTape,        \* the events' times, in the order they arrived
    builds,      \* builds of the helper so far
    news,        \* in memory: build, symbol and events of the last build
    mainFile,    \* the last line: a build, and whether it is cut short
    foundFile,   \* the lines that parse, and whether the file ends in a cut
    todo,        \* what is left of the build or of the passive query in progress
    recent,      \* the events a judgement is given: symbol and list
    recentFile,
    buffer,      \* relevant events in memory, for each symbol
    log,         \* and the lines of their log, Broken for one that does not
                 \*   parse, and whether it ends in a cut
    unlogged,    \* ghost: symbols whose buffer has an event the log lost
    acting,      \* the event of the passive query, 0 without one
    judged,      \* ghost: events found relevant since `recent' was last replaced
    bought,      \* ghost: events traded on their last judgement
    calls,       \* ghost: events found relevant so far
    reboots, cuts

newsVars == <<symbol, newsTape, builds, news, mainFile, foundFile, todo, recent,
              recentFile, buffer, log, unlogged, acting, judged, bought, calls, reboots, cuts>>

NoBuild == [n |-> 0, for |-> "none", found |-> {}]
Broken  == 0
Cap     == 2 * RecentLimit
Idling  == todo = <<>>
Does(s) == todo # <<>> /\ Head(todo) = s /\ todo' = Tail(todo)

Newest(s, n) == SubSeq(s, IF Len(s) > n THEN Len(s) - n + 1 ELSE 1, Len(s))

\* The helper lists events in the order of the tape it was given.
Findings(es) == SetToSortSeq(es, <)

----------------------------------------------------------------------------
(* The helper. *)

\* _helper_materiality_checkpoint_timestamp, 0 without one.
HelperCheckpoint == Max({0} \cup {newsTape[e] : e \in news.found})

\* _filter_recent_events_for_active_helper: every event here is on topic.
Shown ==
    LET later == SelectSeq([i \in 1 .. Len(newsTape) |-> i], LAMBDA i : newsTape[i] > HelperCheckpoint)
    IN  ToSet(Newest(Newest(later, 4 * TapeWindow), TapeWindow))

\* Mutant: the events are written before the main line.
Writes_EventsFirst == <<"found", "main">>

\* The two files, in the order they are written.
Writes == <<"main", "found">>

\* _load_latest_helper_market_mainline_context_from_disk
StoredMain == IF mainFile.cut THEN NoBuild ELSE mainFile.line

\* _get_cached_helper_market_mainline_context: the file is read again while
\* memory has nothing, and a main line for another symbol is not used.
MainLine ==
    LET m == IF news.n # 0 THEN news ELSE StoredMain
    IN  IF m.for = symbol THEN m.n ELSE 0

\* _build_market_news_context, up to the files.
Build ==
    /\ Idling /\ builds + calls < MaxTurns
    /\ builds' = builds + 1
    /\ \E found \in SUBSET Shown : news' = [n |-> builds', for |-> symbol, found |-> found]
    /\ todo' = Writes
    /\ UNCHANGED <<symbol, newsTape, mainFile, foundFile, recent, recentFile, buffer, log, unlogged,
                   acting, judged, bought, calls, reboots, cuts>>

\* _persist_helper_market_mainline_snapshot
WriteMain ==
    /\ Does("main")
    /\ mainFile' = [line |-> news, cut |-> mainFile.open, open |-> FALSE]
    /\ UNCHANGED <<symbol, newsTape, builds, news, foundFile, recent, recentFile, buffer, log, unlogged,
                   acting, judged, bought, calls, reboots, cuts>>

\* _load_passive_recent_events_from_helper_materiality: the newest events of
\* the newest lines, whatever symbol they were found for.
FromHelper(lines) ==
    Newest(FlattenSeq([i \in DOMAIN lines |-> Findings(lines[i].found)]), RecentLimit)

\* _persist_passive_llm_recent_events_state writes no empty list; the file is
\* replaced as a whole, and an error is only printed.
StoredEvents(r) == IF r.items = <<>> THEN recentFile ELSE [r EXCEPT !.items = Newest(@, Cap)]

\* _persist_helper_materiality_events; a query that only refreshes the helper
\* then starts the list of recent events afresh.
WriteFound ==
    /\ Does("found")
    /\ foundFile' = [lines |-> IF foundFile.open THEN foundFile.lines
                                                 ELSE Append(foundFile.lines, news),
                     open |-> FALSE]
    /\ \/ UNCHANGED <<recent, recentFile, judged>>
       \/ /\ recent' = [for |-> symbol, items |-> FromHelper(foundFile'.lines)]
          /\ recentFile' = StoredEvents(recent')
          /\ judged' = <<>>
    /\ UNCHANGED <<symbol, newsTape, builds, news, mainFile, buffer, log, unlogged, acting, bought,
                   calls, reboots, cuts>>

----------------------------------------------------------------------------
(* The passive events. *)

Arrives ==
    /\ Len(newsTape) < MaxTape
    /\ \E t \in 1 .. MaxTape : newsTape' = Append(newsTape, t)
    /\ UNCHANGED <<symbol, builds, news, mainFile, foundFile, todo, recent, recentFile,
                   buffer, log, unlogged, acting, judged, bought, calls, reboots, cuts>>

\* query_new_playbook after a relevant answer: the list, its file, the buffer,
\* its log, and only then the trade.
Follows == <<"list", "file", "buffer", "log", "trade">>

\* A judgement comes back with "relevant".
Relevant ==
    /\ Idling /\ builds + calls < MaxTurns
    /\ calls' = calls + 1
    /\ acting' \in DOMAIN newsTape
    /\ judged' = Append(judged, acting')
    /\ bought' = bought \ {acting'}
    /\ todo' = Follows
    /\ UNCHANGED <<symbol, newsTape, builds, news, mainFile, foundFile, recent, recentFile,
                   buffer, log, unlogged, reboots, cuts>>

\* _append_passive_llm_recent_event: events of another symbol are dropped.
Extended(r, e) ==
    [for |-> symbol,
     items |-> Newest(Append(IF r.for = symbol THEN r.items ELSE <<>>, e), Cap)]

Enlist ==
    /\ Does("list")
    /\ recent' = Extended(recent, acting)
    /\ UNCHANGED <<symbol, newsTape, builds, news, mainFile, foundFile, recentFile, buffer, log, unlogged,
                   acting, judged, bought, calls, reboots, cuts>>

\* _persist_passive_llm_recent_events_state; an error is only printed.
SaveList ==
    /\ Does("file")
    /\ \/ recentFile' = StoredEvents(recent) /\ UNCHANGED cuts
       \/ cuts < MaxCuts /\ cuts' = cuts + 1 /\ UNCHANGED recentFile
    /\ UNCHANGED <<symbol, newsTape, builds, news, mainFile, foundFile, recent, buffer, log, unlogged,
                   acting, judged, bought, calls, reboots>>

\* _remember_llm_relevant_passive_event: once, at the end.
Remembered(b, e) == Newest(Append(SelectSeq(b, LAMBDA x : x # e), e), BufferSize)

Remember ==
    /\ Does("buffer")
    /\ buffer' = [buffer EXCEPT ![symbol] = Remembered(@, acting)]
    /\ UNCHANGED <<symbol, newsTape, builds, news, mainFile, foundFile, recent, recentFile, log, unlogged,
                   acting, judged, bought, calls, reboots, cuts>>

\* _persist_llm_relevant_passive_event: behind a cut the line is part of a
\* line that does not parse.
Logged(l, e) ==
    IF l.open THEN [l EXCEPT !.open = FALSE]
    ELSE [lines |-> Append(l.lines, e), open |-> FALSE]

WriteLog ==
    /\ Does("log")
    /\ log' = [log EXCEPT ![symbol] = Logged(@, acting)]
    /\ unlogged' = IF log[symbol].open THEN unlogged \cup {symbol} ELSE unlogged
    /\ UNCHANGED <<symbol, newsTape, builds, news, mainFile, foundFile, recent, recentFile, buffer,
                   acting, judged, bought, calls, reboots, cuts>>

\* The log cannot be opened: the query ends in the loop's error handler.
LogFails ==
    /\ ~Idling /\ Head(todo) = "log" /\ cuts < MaxCuts
    /\ cuts' = cuts + 1 /\ todo' = <<>>
    /\ unlogged' = unlogged \cup {symbol}
    /\ UNCHANGED <<symbol, newsTape, builds, news, mainFile, foundFile, recent, recentFile, buffer,
                   log, acting, judged, bought, calls, reboots>>

\* The playbook is executed, or does not trade.
NewsTrade ==
    /\ Does("trade")
    /\ bought' \in {bought, bought \cup {acting}}
    /\ UNCHANGED <<symbol, newsTape, builds, news, mainFile, foundFile, recent, recentFile,
                   buffer, log, unlogged, acting, judged, calls, reboots, cuts>>

----------------------------------------------------------------------------
(* Dying and starting. *)

\* The line that is being written may be cut short.
Cut ==
    \/ UNCHANGED <<mainFile, foundFile, log, cuts>>
    \/ /\ cuts < MaxCuts /\ cuts' = cuts + 1 /\ ~Idling
       /\ \/ /\ Head(todo) = "main"
             /\ mainFile' = [line |-> news, cut |-> TRUE, open |-> TRUE]
             /\ UNCHANGED <<foundFile, log>>
          \/ /\ Head(todo) = "found"
             /\ foundFile' = [foundFile EXCEPT !.open = TRUE]
             /\ UNCHANGED <<mainFile, log>>
          \/ /\ Head(todo) = "log"
             /\ log' = [log EXCEPT ![symbol] = [lines |-> Logged(@, Broken).lines, open |-> TRUE]]
             /\ UNCHANGED <<mainFile, foundFile>>

\* _load_helper_materially_new_first_events
StoredFound(f) == IF f.lines = <<>> THEN {} ELSE Last(f.lines).found

\* _hydrate_helper_context_from_disk
Hydrated(m, f) ==
    [n |-> m.n, for |-> m.for, found |-> StoredFound(f)]

\* _hydrate_passive_llm_recent_events_state: each event once, at its last place.
Recovered ==
    LET once(items) == FoldLeft(LAMBDA s, e : Append(SelectSeq(s, LAMBDA x : x # e), e), <<>>, items)
    IN  [recentFile EXCEPT !.items = Newest(once(@), Cap)]

\* _hydrate_llm_relevant_passive_event_buffer_from_log: of the newest lines
\* those that parse.
FromLog(l) ==
    FoldLeft(Remembered, <<>>, SelectSeq(Newest(l.lines, TapeWindow), LAMBDA e : e # Broken))

\* The file of the list is up to date, or lacks only the event in progress.
ListSaved ==
    IF ~Idling /\ Head(todo) = "file" THEN recent = Extended(recentFile, acting)
                                      ELSE recent = recentFile

\* The agent starts; what it remembers comes from the files.
Reboot(s) ==
    /\ reboots < MaxReboots /\ reboots' = reboots + 1
    /\ symbol' = s
    /\ Cut
    /\ news' = Hydrated(IF mainFile'.cut THEN NoBuild ELSE mainFile'.line, foundFile')
    /\ recent' = Recovered
    /\ buffer' = [i \in Instruments |-> FromLog(log'[i])]
    /\ unlogged' = {}
    /\ todo' = <<>> /\ acting' = 0
    /\ judged' = IF s # symbol \/ ~ListSaved THEN <<>>
                 ELSE IF ~Idling /\ Head(todo) \in {"list", "file"} THEN Front(judged) ELSE judged
    /\ UNCHANGED <<newsTape, builds, recentFile, bought, calls>>

NewsInit ==
    /\ symbol \in Instruments /\ newsTape = <<>> /\ builds = 0 /\ news = NoBuild
    /\ mainFile = [line |-> NoBuild, cut |-> FALSE, open |-> FALSE]
    /\ foundFile = [lines |-> <<>>, open |-> FALSE]
    /\ todo = <<>> /\ acting = 0
    /\ recent = [for |-> "none", items |-> <<>>] /\ recentFile = recent
    /\ buffer = [i \in Instruments |-> <<>>]
    /\ log = [i \in Instruments |-> [lines |-> <<>>, open |-> FALSE]]
    /\ unlogged = {} /\ judged = <<>> /\ bought = {}
    /\ calls = 0 /\ reboots = 0 /\ cuts = 0

NewsNext ==
    \/ Arrives \/ Build \/ WriteMain \/ WriteFound
    \/ Relevant \/ Enlist \/ SaveList \/ Remember \/ WriteLog \/ LogFails \/ NewsTrade
    \/ \E s \in Instruments : Reboot(s)

NewsSpec == NewsInit /\ [][NewsNext]_newsVars

----------------------------------------------------------------------------

\* The events that the checkpoint keeps from the helper are part of the main
\* line in use, also after a restart that fell between the two writes: while
\* no line was cut, and the files were written for one symbol.
HiddenIsKnown ==
    (/\ Idling /\ cuts = 0 /\ news.found # {}
     /\ mainFile.line.for \in {symbol, "none"}
     /\ \A i \in DOMAIN foundFile.lines : foundFile.lines[i].for = symbol)
        => MainLine >= Last(foundFile.lines).n

\* An event that was traded is shown to the judgements that follow, across a
\* restart too, until as many others as the list holds are found relevant.
TradedIsRemembered ==
    \A i \in DOMAIN judged :
        (judged[i] \in bought /\ Len(judged) - i < Cap) => Contains(recent.items, judged[i])

\* A restart would find the newest part of each buffer in its log, in its order,
\* and nothing that the buffer had let go: except while the event in progress is
\* not yet in the log, and until the next start when the log lost an event, to
\* an error or to the cut line it was appended to.
LogRebuilds ==
    \A i \in Instruments :
        i \in unlogged \/ (i = symbol /\ ~Idling /\ Head(todo) = "log")
        \/ IsSuffix(FromLog(log[i]), buffer[i])
=============================================================================
