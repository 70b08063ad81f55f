------------------------------ MODULE History ------------------------------
(***************************************************************************)
(* The history a Session shows: hydrated when the Session is selected,     *)
(* followed live, extended backwards page by page, and hydrated again by a *)
(* command or a model selection.  The Host is one of two: "sequenced"      *)
(* numbers every event itself, keeps pages and takes commands (the Host    *)
(* the contracts describe); "opencode" is OpenCode behind followAsLegacy,  *)
(* which lists the messages, numbers them, and then subscribes to events   *)
(* and numbers those on.                                                   *)
(* What the Host says is a log of chunks, each of a message; an entry is   *)
(* its sequence number and the chunks it shows.                            *)
(***************************************************************************)
EXTENDS Integers, SequencesExt

CONSTANTS
    Hosts,       \* subset of {"sequenced", "opencode"}
    Page,        \* TUI_HISTORY_PAGE_MESSAGES, entries of a page
    MaxChunks,   \* bound: chunks said
    MaxMessages, \* bound: messages
    MaxSelects   \* bound: selections, commands and loaded pages together

ASSUME HistoryAssumption ==
    /\ Hosts \subseteq {"sequenced", "opencode"}
    /\ Page \in Nat \ {0}
    /\ MaxChunks \in Nat /\ MaxMessages \in Nat /\ MaxSelects \in Nat

VARIABLES
    host,        \* which Host
    log,         \* the message each chunk said so far belongs to
    messages,    \* messages created so far; the last may have no chunk yet
    entries,     \* snapshot.entries, a set of [seq, shows]
    lastSeq,     \* snapshot.lastSeq
    hasMore,     \* snapshot.hasMoreBefore
    oldest,      \* snapshot.oldestLoadedSeq, -1 for null
    live,        \* snapshot.live
    stream,      \* the follow: "none", "listing", "listed", "open", "ended"
    frames,      \* what it has not delivered yet
    listed,      \* the messages followAsLegacy has listed
    next,        \* its nextSeq
    texts,       \* the chunks in its partTexts
    selecting,   \* Idle, Waiting or what the Host answered to select's hydrate
    commanding,  \* the same of command's hydrate
    captured,    \* the entries command read before its awaits
    paging,      \* beforeSeq of loadOlder's request, -1 for none
    calls,       \* selections, commands and pages so far
    happened     \* which of Events have come about

said     == <<host, log, messages>>
snapshot == <<entries, lastSeq, hasMore, oldest, live>>
follow   == <<stream, frames, listed, next, texts>>
requests == <<selecting, commanding, captured, paging, calls>>
vars     == <<said, snapshot, follow, requests, happened>>

\* What the code does not put up with.
Events ==
    { "raced",    \* a frame was applied after the Host had answered command's
                  \* hydrate, before the answer was
      "overtaken",\* the Session was selected again while a page or a command
                  \* was under way
      "reverted", \* a command took a loaded page back, with the next one under way
      "burst",    \* more than a page was said between two snapshots
      "unheard",  \* a chunk was said between the listing and the subscription
      "midway",   \* a message listed in history went on afterwards
      "empty" }   \* a message had no text yet when it was listed

Happened(cond, event) == IF cond THEN {event} ELSE {}

-----------------------------------------------------------------------------
(* What the Host answers.                                                  *)

ChunksOf(m) == {i \in DOMAIN log : log[i] = m}

\* Everything there is: an entry per chunk, or per message.  A message with
\* nothing in it makes the listing of the adapter throw.
Everything ==
    IF host = "sequenced" THEN {[seq |-> i - 1, shows |-> {i}] : i \in DOMAIN log}
    ELSE {[seq |-> m - 1, shows |-> ChunksOf(m)] : m \in 1..messages}

ListingThrows == host = "opencode" /\ \E m \in 1..messages : ChunksOf(m) = {}

Seqs(es) == {e.seq : e \in es}
LastSeqOf(es) == Max(Seqs(es) \cup {-1})
FirstSeqOf(es) == IF es = {} THEN -1 ELSE Min(Seqs(es))

\* The last entries before a sequence number, a page of them or (opencode) all.
Window(before) ==
    LET all == {e \in Everything : e.seq < before}
    IN  IF host = "opencode" THEN all ELSE {e \in all : e.seq >= LastSeqOf(all) + 1 - Page}

Snapshot ==
    LET records == Window(MaxChunks + MaxMessages + 1)
    IN  [type |-> "snapshot", records |-> records, hasMore |-> FirstSeqOf(records) > 0]
Idle    == [type |-> "idle"]
Waiting == [type |-> "waiting"]
Failure == [type |-> "failure"]

\* mergeHistoryEntries: by sequence number, the right one wins.  The mutant for
\* the runs keeps both.
MutantMergeHistoryEntries(left, right) == left \cup right
MergeHistoryEntries(left, right) == {e \in left : e.seq \notin Seqs(right)} \cup right

-----------------------------------------------------------------------------
(* The Host goes on.                                                       *)

NewMessage ==
    /\ messages < MaxMessages
    /\ messages = 0 \/ ChunksOf(messages) # {}
    /\ messages' = messages + 1
    /\ UNCHANGED <<host, log, snapshot, follow, requests, happened>>

\* A chunk of the last message.  OpenCode announces a part with its whole text
\* (message.part.updated) and may then send what is new (message.part.delta).
Say(form) ==
    /\ messages > 0 /\ Len(log) < MaxChunks
    /\ form = "delta" => host = "opencode" /\ ChunksOf(messages) # {}
    /\ log' = Append(log, messages)
    /\ frames' = IF stream = "open"
                 THEN Append(frames, [type |-> form, chunk |-> Len(log')])
                 ELSE frames
    /\ happened' = happened \cup Happened(stream = "listed", "unheard")
                            \cup Happened(stream \in {"listed", "open"} /\ messages = listed, "midway")
    /\ UNCHANGED <<host, messages, snapshot, stream, listed, next, texts, requests>>

-----------------------------------------------------------------------------
(* select, and the follow it starts.                                       *)

Select ==
    /\ selecting = Idle /\ calls < MaxSelects
    /\ selecting' = Waiting /\ calls' = calls + 1
    /\ UNCHANGED <<said, snapshot, follow, commanding, captured, paging, happened>>

\* hydrate: the first frame of a follow that is then aborted
AnswerSelect ==
    /\ selecting = Waiting
    /\ selecting' = IF ListingThrows THEN Failure ELSE Snapshot
    /\ happened' = happened \cup Happened(ListingThrows, "empty")
    /\ UNCHANGED <<said, snapshot, follow, commanding, captured, paging, calls>>

\* prepare's snapshot becomes the current one, and startLive follows anew.
Selected ==
    /\ selecting \notin {Idle, Waiting}
    /\ selecting' = Idle
    /\ IF selecting = Failure THEN UNCHANGED <<snapshot, follow, happened>>
       ELSE /\ entries' = selecting.records
            /\ lastSeq' = LastSeqOf(selecting.records)
            /\ hasMore' = selecting.hasMore
            /\ oldest' = FirstSeqOf(selecting.records)
            /\ live' = FALSE
            /\ stream' = "listing" /\ frames' = <<>>
            /\ UNCHANGED <<listed, next, texts>>
            /\ happened' = happened \cup Happened(paging # -1 \/ commanding # Idle, "overtaken")
    /\ UNCHANGED <<said, commanding, captured, paging, calls>>

\* The mutant for the runs numbers one too far.
MutantFirstLiveSeq(records) == Cardinality(records) + 1
FirstLiveSeq(records) == Cardinality(records)

\* The follow opens with a snapshot.  OpenCode is subscribed to only when the
\* snapshot has been taken.
Open ==
    /\ stream = "listing"
    /\ IF ListingThrows
       THEN /\ stream' = "ended" /\ happened' = happened \cup {"empty"}
            /\ UNCHANGED <<frames, listed, next, texts>>
       ELSE /\ stream' = IF host = "opencode" THEN "listed" ELSE "open"
            /\ frames' = <<Snapshot>>
            /\ listed' = IF host = "opencode" THEN messages ELSE 0
            /\ next' = FirstLiveSeq(Snapshot.records)
            /\ texts' = {}
            /\ happened' = happened \cup Happened(LastSeqOf(Everything) - lastSeq > Page, "burst")
    /\ UNCHANGED <<said, snapshot, requests>>

Subscribe ==
    /\ stream = "listed" /\ frames = <<>>
    /\ stream' = "open"
    /\ UNCHANGED <<said, snapshot, frames, listed, next, texts, requests, happened>>

AnsweredCommand == commanding \notin {Idle, Waiting}

\* applyFollowFrame: snapshot
DeliverSnapshot ==
    /\ frames # <<>> /\ Head(frames).type = "snapshot"
    /\ frames' = Tail(frames)
    /\ entries' = MergeHistoryEntries(entries, Head(frames).records)
    /\ lastSeq' = Max({lastSeq, LastSeqOf(Head(frames).records)})
    /\ hasMore' = Head(frames).hasMore
    /\ live' = TRUE
    /\ happened' = happened \cup Happened(AnsweredCommand, "raced")
    /\ UNCHANGED <<said, oldest, stream, listed, next, texts, requests>>

Follows(seq) == lastSeq = -1 \/ seq = lastSeq + 1

\* applyLiveEvent
ApplyLiveEvent(entry) ==
    /\ IF entry.seq > lastSeq /\ Follows(entry.seq)
       THEN /\ entries' = entries \cup {entry} /\ lastSeq' = entry.seq
            /\ happened' = happened \cup Happened(AnsweredCommand, "raced")
       ELSE UNCHANGED <<entries, lastSeq, happened>>
    /\ live' = (live /\ (entry.seq <= lastSeq \/ Follows(entry.seq)))
    /\ UNCHANGED <<hasMore, oldest>>

\* A mutant for the runs: an update shows the whole text of its part.
MutantNew(frame) == {i \in ChunksOf(log[frame.chunk]) : i <= frame.chunk}

\* What semanticEventToLegacy makes of an event: an update shows what its part
\* did not have yet, a delta its own chunk.
New(frame) ==
    IF frame.type = "delta" THEN {frame.chunk}
    ELSE {i \in ChunksOf(log[frame.chunk]) : i <= frame.chunk} \ texts

\* A delta of a part that has not been announced makes the adapter throw.
DeliverEvent ==
    /\ frames # <<>> /\ Head(frames).type # "snapshot"
    /\ LET frame == Head(frames)
           throws == frame.type = "delta" /\ texts \cap ChunksOf(log[frame.chunk]) = {}
       IN  CASE host = "sequenced" ->
                  /\ ApplyLiveEvent([seq |-> frame.chunk - 1, shows |-> {frame.chunk}])
                  /\ frames' = Tail(frames)
                  /\ UNCHANGED <<stream, listed, next, texts>>
             [] host = "opencode" /\ throws ->
                  /\ stream' = "ended" /\ frames' = <<>> /\ live' = FALSE
                  /\ UNCHANGED <<entries, lastSeq, hasMore, oldest, listed, next, texts, happened>>
             [] OTHER ->
                  /\ ApplyLiveEvent([seq |-> next, shows |-> New(frame)])
                  /\ frames' = Tail(frames) /\ next' = next + 1
                  /\ texts' = texts \cup New(frame)
                  /\ UNCHANGED <<stream, listed>>
    /\ UNCHANGED <<said, requests>>

-----------------------------------------------------------------------------
(* What else changes the history; OpenCode supports none of it.            *)

IsSelected == stream # "none"

\* A mutant for the runs: the entry before the oldest one is left out.
MutantBeforeSeq == oldest - 1
BeforeSeq == oldest

\* loadOlder, which reads oldestLoadedSeq and awaits the page before it
LoadOlder ==
    /\ IsSelected /\ hasMore /\ oldest # -1 /\ paging = -1 /\ calls < MaxSelects
    /\ paging' = BeforeSeq /\ calls' = calls + 1
    /\ UNCHANGED <<said, snapshot, follow, selecting, commanding, captured, happened>>

PageLoaded ==
    /\ paging # -1
    /\ LET older == Window(paging)
       IN  /\ entries' = MergeHistoryEntries(older, entries)
           /\ hasMore' = (FirstSeqOf(older) > 0)
           /\ oldest' = FirstSeqOf(entries')
    /\ paging' = -1
    /\ UNCHANGED <<said, lastSeq, live, follow, selecting, commanding, captured, calls, happened>>

\* command and selectModel: execute, then hydrate
Command ==
    /\ IsSelected /\ host = "sequenced" /\ commanding = Idle /\ calls < MaxSelects
    /\ commanding' = Waiting /\ captured' = entries /\ calls' = calls + 1
    /\ UNCHANGED <<said, snapshot, follow, selecting, paging, happened>>

AnswerCommand ==
    /\ commanding = Waiting
    /\ commanding' = Snapshot
    /\ happened' = happened \cup Happened(LastSeqOf(Everything) - LastSeqOf(captured) > Page, "burst")
    /\ UNCHANGED <<said, snapshot, follow, selecting, captured, paging, calls>>

\* What is written is made of the entries captured before the awaits.
Commanded ==
    /\ AnsweredCommand
    /\ commanding' = Idle /\ captured' = {}
    /\ entries' = MergeHistoryEntries(captured, commanding.records)
    /\ lastSeq' = LastSeqOf(commanding.records)
    /\ hasMore' = commanding.hasMore
    /\ oldest' = FirstSeqOf(entries')
    /\ happened' = happened \cup Happened(paging # -1 /\ oldest' > paging, "reverted")
    /\ UNCHANGED <<said, live, follow, selecting, paging, calls>>

Init ==
    /\ host \in Hosts /\ log = <<>> /\ messages = 0
    /\ entries = {} /\ lastSeq = -1 /\ hasMore = FALSE /\ oldest = -1 /\ live = FALSE
    /\ stream = "none" /\ frames = <<>> /\ listed = 0 /\ next = 0 /\ texts = {}
    /\ selecting = Idle /\ commanding = Idle /\ captured = {} /\ paging = -1 /\ calls = 0
    /\ happened = {}

Next ==
    \/ NewMessage \/ Say("update") \/ Say("delta")
    \/ Select \/ AnswerSelect \/ Selected
    \/ Open \/ Subscribe \/ DeliverSnapshot \/ DeliverEvent
    \/ LoadOlder \/ PageLoaded
    \/ Command \/ AnswerCommand \/ Commanded

Spec == Init /\ [][Next]_vars

-----------------------------------------------------------------------------
(* Properties.                                                             *)

Shown == UNION {e.shows : e \in entries}

\* The type invariant of the module's variables.
TypeOK ==
    /\ host \in Hosts /\ log \in Seq(1..messages) /\ messages \in 0..MaxMessages
    /\ entries \subseteq [seq : 0..MaxChunks + MaxMessages, shows : (SUBSET DOMAIN log) \ {{}}]
    /\ Cardinality(Seqs(entries)) = Cardinality(entries)
    /\ {lastSeq, oldest, paging} \subseteq -1..(MaxChunks + MaxMessages)
    /\ hasMore \in BOOLEAN /\ live \in BOOLEAN
    /\ stream \in {"none", "listing", "listed", "open", "ended"}
    /\ texts \subseteq DOMAIN log /\ happened \subseteq Events

\* The history on the screen has no hole: what was loaded runs from the oldest
\* entry to the last without a gap in the numbers, through selections, pages,
\* commands and live events.
NoHole ==
    happened \cap {"overtaken", "reverted", "burst"} = {} =>
        /\ Seqs(entries) = FirstSeqOf(entries)..lastSeq \/ entries = {}
        /\ oldest # -1 => oldest = FirstSeqOf(entries)

\* Everything the Host says is shown once: no chunk twice, and none left out
\* once the follow has delivered what it has.
ShownOnce ==
    happened \subseteq {"empty"} =>
        /\ \A d, e \in entries : d # e => d.shows \cap e.shows = {}
        /\ live /\ stream = "open" /\ frames = <<>> =>
             \A i \in DOMAIN log : i \in Shown \/ \E j \in Shown : i < j /\ hasMore

\* The follow of a Session does not end, and reports no gap, by itself: only
\* what is listed below brings it down, until the Session is selected again.
FollowLives ==
    happened \cap {"raced", "unheard", "midway", "empty"} = {} =>
        /\ stream # "ended"
        /\ stream = "open" => live \/ \E f \in Range(frames) : f.type = "snapshot"

=============================================================================
