------------------------------ MODULE SourceWatch ------------------------------
(***************************************************************************)
(* How a published item reaches the trading agent.  The watcher process    *)
(* warms every source up and then polls it: a pool thread works on a copy  *)
(* of the watch state (fork), and the main loop takes over its result when *)
(* the thread is done, unless it was given up as timed out.  Taking over   *)
(* means: replace the source's part of the state, append the new events to *)
(* events.jsonl, save the state.  The agent is another process that reads  *)
(* the file from an offset.  Both processes may stop at any point.         *)
(*                                                                         *)
(* One source is followed, of either kind: a page, where an item is new    *)
(* unless its identifier is remembered, or a stream of posts, where a      *)
(* cursor comes first.  Items are numbered as they are published.  A feed  *)
(* shows all of them: an item that leaves its page before a poll sees it   *)
(* is not the watcher's to lose.                                           *)
(***************************************************************************)
EXTENDS Integers, Sequences, FiniteSets, SequencesExt

CONSTANTS
    MaxItems,       \* items published
    MaxSeen,        \* MAX_SEEN_PER_SOURCE
    MaxStops,       \* times the watcher process dies
    MaxRestarts,    \* times the agent restarts
    MaxSlow,        \* polls that outlast their timeout, or fail
    MaxLong         \* events too long for one write

VARIABLES
    kind,       \* "page" or "posts"
    published,  \* how many items are out
    state,      \* the StateStore in memory: remembered identifiers and cursor
    disk,       \* state.json: what load makes of it
    poll,       \* the poll task of the source
    main,       \* what the main thread is doing
    keys,       \* JsonlWriter: the events it knows to be in the file
    file,       \* the lines of events.jsonl, the last one perhaps unfinished
    offset,     \* the lines the agent has behind it
    known,      \* the events the agent was handed or loaded as context
    unheard,       \* history: events lost to a broken line or a gap at the start
    faults      \* how often each fault has happened

watcher == <<state, disk, poll, main, keys>>
agent == <<offset, known>>
watchVars == <<kind, published, watcher, file, agent, unheard, faults>>

Items == 1 .. MaxItems
Feed == 1 .. published

Empty == [seen |-> <<>>, cursor |-> 0]
NoPoll == [phase |-> "none", late |-> FALSE, result |-> Empty, new |-> <<>>]
Idle == [phase |-> "idle", left |-> <<>>]

\* A line holds an event, the beginning of one, or what is left when an event
\* was written behind such a beginning.
Whole(i) == [item |-> i, form |-> "whole"]
Begun(i) == [item |-> i, form |-> "begun"]
Broken(i) == [item |-> i, form |-> "broken"]

Unfinished == file # <<>> /\ Last(file).form = "begun"

Readable(ls) == {l.item : l \in {x \in Range(ls) : x.form = "whole"}}

Fault(f, max) == faults[f] < max /\ faults' = [faults EXCEPT ![f] = @ + 1]

-----------------------------------------------------------------------------
(* StateStore.                                                             *)

Trimmed(seen) == IF Len(seen) > MaxSeen THEN SubSeq(seen, Len(seen) - MaxSeen + 1, Len(seen))
                                        ELSE seen

\* mark_seen, for the items of a sequence one after the other.
MarkMany(s, is) ==
    [s EXCEPT !.seen =
        FoldLeft(LAMBDA seen, i : IF Contains(seen, i) THEN seen ELSE Trimmed(Append(seen, i)),
                 @, is)]

\* Pages list the newest item first, posts come oldest first.
Listing == [n \in 1 .. published |-> IF kind = "page" THEN published + 1 - n ELSE n]

\* poll of a watcher on state s: the events, oldest first, and the state.
New(s) ==
    SelectSeq(Listing, LAMBDA i : ~ Contains(s.seen, i) /\ (kind = "posts" => i > s.cursor))

Polled(s) ==
    [MarkMany(s, New(s)) EXCEPT
        !.cursor = IF kind = "posts" /\ published > @ THEN published ELSE @]

Emitted(is) == IF kind = "page" THEN Reverse(is) ELSE is

-----------------------------------------------------------------------------
(* The poll of the source.                                                 *)

Submit ==
    /\ main = Idle /\ poll.phase = "none"
    /\ poll' = [NoPoll EXCEPT !.phase = "queued"]
    /\ UNCHANGED <<kind, published, state, disk, main, keys, file, agent, unheard, faults>>

\* _run_poll_once: the thread works on a fork of the state.
Works ==
    /\ poll' = [poll EXCEPT !.phase = "done", !.result = Polled(state), !.new = Emitted(New(state))]
    /\ UNCHANGED state

Fetches ==
    /\ poll.phase = "queued"
    /\ Works
    /\ UNCHANGED <<kind, published, disk, main, keys, file, agent, unheard, faults>>

\* The fetch raises, after its retries.
FetchFails ==
    /\ poll.phase = "queued" /\ Fault("slow", MaxSlow)
    /\ poll' = [poll EXCEPT !.phase = "failed"]
    /\ UNCHANGED <<kind, published, state, disk, main, keys, file, agent, unheard>>

\* _mark_timed_out_poll_tasks: a task that is still running is given up, but
\* the source is not polled again before its thread ends.
TimedOut ==
    /\ main = Idle /\ poll.phase = "queued" /\ ~ poll.late
    /\ Fault("slow", MaxSlow)
    /\ poll' = [poll EXCEPT !.late = TRUE]
    /\ UNCHANGED <<kind, published, state, disk, main, keys, file, agent, unheard>>

\* _reap_completed_poll_tasks and _finalize_poll_task.
Reap ==
    /\ main = Idle /\ poll.phase \in {"done", "failed"}
    /\ poll' = NoPoll
    /\ IF poll.late \/ poll.phase = "failed"
       THEN UNCHANGED <<state, main>>
       ELSE /\ state' = [poll.result EXCEPT !.seen = Trimmed(@)]
            /\ main' = [phase |-> "append", left |-> poll.new]
    /\ UNCHANGED <<kind, published, disk, keys, file, agent, unheard, faults>>

-----------------------------------------------------------------------------
(* JsonlWriter.append and StateStore.save.                                 *)

Known(i) == i \in keys

\* The line goes into the file.  Behind an unfinished line there is no line
\* break, so the two become one that no reader can parse.
Written(i) ==
    IF Unfinished THEN file' = Append(Front(file), Broken(i)) /\ unheard' = unheard \cup {i}
                  ELSE file' = Append(file, Whole(i)) /\ UNCHANGED unheard

Appends ==
    /\ main.phase = "append" /\ main.left # <<>>
    /\ LET i == Head(main.left)
       IN  \/ /\ Known(i)
              /\ main' = [main EXCEPT !.left = Tail(@)]
              /\ UNCHANGED <<keys, file, unheard, faults>>
           \/ /\ ~ Known(i)
              /\ Written(i)
              /\ keys' = keys \cup {i}
              /\ main' = [main EXCEPT !.left = Tail(@)]
              /\ UNCHANGED faults
           \/ /\ ~ Known(i) /\ ~ Unfinished /\ Fault("long", MaxLong)
              /\ file' = Append(file, Begun(i))
              /\ main' = [main EXCEPT !.phase = "rest"]
              /\ UNCHANGED <<keys, unheard>>
    /\ UNCHANGED <<kind, published, state, disk, poll, agent>>

\* The second part of a long event.  A reader that has gone past the first part,
\* or has loaded the file with it, will not look at the line again.
AppendsRest ==
    /\ main.phase = "rest"
    /\ LET i == Head(main.left)
       IN  /\ file' = Append(Front(file), Whole(i))
           /\ keys' = keys \cup {i}
           /\ unheard' = IF Len(file) \in {offset, -1 - offset} THEN unheard \cup {i} ELSE unheard
    /\ main' = [phase |-> "append", left |-> Tail(main.left)]
    /\ UNCHANGED <<kind, published, state, disk, poll, agent, faults>>

\* save empties the file and writes it again.
SaveBegins ==
    /\ main.phase = "append" /\ main.left = <<>>
    /\ main' = [main EXCEPT !.phase = "save"]
    /\ disk' = Empty
    /\ UNCHANGED <<kind, published, state, poll, keys, file, agent, unheard, faults>>

SaveEnds ==
    /\ main.phase = "save"
    /\ main' = Idle
    /\ disk' = state
    /\ UNCHANGED <<kind, published, state, poll, keys, file, agent, unheard, faults>>

-----------------------------------------------------------------------------
(* The watcher process stops and starts.                                   *)

WatcherStops ==
    /\ main.phase # "down" /\ Fault("stop", MaxStops)
    /\ main' = [phase |-> "down", left |-> <<>>]
    /\ poll' = NoPoll
    /\ state' = Empty /\ keys' = {}
    /\ UNCHANGED <<kind, published, disk, file, agent, unheard>>

\* warmup under emit_recent, the default: everything on the page is marked and
\* emitted.  Under mark_seen and cursor_only (left out) nothing is emitted, and
\* what the page shows at a start is by intent never heard of.
Warmup(s) ==
    [state |-> MarkMany([s EXCEPT !.cursor = IF kind = "posts" THEN published ELSE @], Listing),
     emit |-> Emitted(Listing)]

\* main: load what is on disk, read the keys of the events file, warm up.  A
\* state file that cannot be parsed counts as none, a line likewise.  A warmup
\* that fails is skipped; one whose append raises after it marked the items
\* (a full disk) is left out.
Starts ==
    /\ main.phase = "down"
    /\ keys' = Readable(file)
    /\ \/ /\ state' = Warmup(disk).state
          /\ main' = [phase |-> "append", left |-> Warmup(disk).emit]
          /\ UNCHANGED faults
       \/ /\ Fault("slow", MaxSlow)
          /\ state' = disk /\ main' = Idle
    /\ UNCHANGED <<kind, published, disk, poll, file, agent, unheard>>

-----------------------------------------------------------------------------
(* The agent: EventFileWatcher.                                            *)

\* poll: every line behind the offset; one that does not parse is skipped.
AgentPolls ==
    /\ offset >= 0 /\ offset < Len(file)
    /\ known' = known \cup Readable(SubSeq(file, offset + 1, Len(file)))
    /\ offset' = Len(file)
    /\ UNCHANGED <<kind, published, watcher, file, unheard, faults>>

\* A restart loads the file as context, and only then asks for its size.  Of a
\* longer file the context keeps the latest max_recent events only: the bounds
\* stay below that.
AgentRestarts ==
    /\ offset >= 0 /\ Fault("restart", MaxRestarts)
    /\ known' = known \cup Readable(file)
    /\ offset' = - 1 - Len(file)
    /\ UNCHANGED <<kind, published, watcher, file, unheard>>

\* start_from = "end".  Lines that came since the load are behind the offset.
AgentSeeks ==
    /\ offset < 0
    /\ offset' = Len(file)
    /\ unheard' = unheard \cup Readable(SubSeq(file, - offset, Len(file)))
    /\ UNCHANGED <<kind, published, watcher, file, known, faults>>

Publish ==
    /\ published < MaxItems
    /\ published' = published + 1
    /\ UNCHANGED <<kind, watcher, file, agent, unheard, faults>>

WatchInit ==
    /\ kind \in {"page", "posts"}
    /\ published = 1
    /\ state = Empty /\ disk = Empty
    /\ poll = NoPoll /\ main = [phase |-> "down", left |-> <<>>]
    /\ keys = {} /\ file = <<>>
    /\ offset = 0 /\ known = {} /\ unheard = {}
    /\ faults = [f \in {"stop", "restart", "slow", "long"} |-> 0]

MainLoop == Submit \/ Reap \/ Appends \/ AppendsRest \/ SaveBegins \/ SaveEnds \/ Starts

WatchNext ==
    \/ MainLoop \/ Fetches
    \/ FetchFails \/ TimedOut \/ WatcherStops
    \/ AgentPolls \/ AgentRestarts \/ AgentSeeks
    \/ Publish

\* The loop sleeps a second between rounds and is restarted when it dies; the
\* requests of a poll have timeouts, so its thread ends; the agent keeps polling.
WatchFair ==
    /\ WF_watchVars(MainLoop) /\ WF_watchVars(Fetches)
    /\ WF_watchVars(AgentPolls) /\ WF_watchVars(AgentSeeks)

WatchSpec == WatchInit /\ [][WatchNext]_watchVars /\ WatchFair

-----------------------------------------------------------------------------
(* Properties.                                                             *)

\* An event is in the file at most once as a line the agent can read, although
\* the state that says what is new may be older than the file after a crash,
\* empty after a crash during a save, or trimmed.
WrittenOnce ==
    \A m, n \in DOMAIN file :
        file[m].form = "whole" /\ file[n].form = "whole" /\ file[m].item = file[n].item => m = n
=============================================================================
