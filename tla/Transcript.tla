----------------------------- MODULE Transcript -----------------------------
(***************************************************************************)
(* From the events of a Session to the rows of the display buffer: the     *)
(* projector of presentation.ts folds events into nodes, startup.ts turns  *)
(* the latest nodes into elements (logo, subagent bars, transcript) and    *)
(* reflows the buffer; a resize reflows the last elements.  Projection is  *)
(* the run of a latest-wins task on a later macrotask, so events may come  *)
(* between an event and its projection, and several are projected at once. *)
(* A reflow that throws does so in a timer callback nobody catches: the    *)
(* process ends, "crashed".                                                *)
(***************************************************************************)
EXTENDS DisplayBuffer

CONSTANTS
    Sessions,     \* Session ids
    NoSession,    \* sessionKey before a Session is selected
    Widths,       \* physical rows per source line, one per terminal width
    Heights,      \* terminal heights
    MaxLines,     \* bound: source lines of a node
    MaxEvents,    \* bound: events, selections and subagents
    MaxResizes,   \* bound: resizes
    Conditions    \* what happens besides the ordinary, see AllConditions

AllConditions ==
    { "overlap",     \* an event of another node comes while a node is live:
                     \* parallel tools, a permission notice, an unknown event
      "lateText",    \* the step goes on after its tools: text after a tool call
      "hidden",      \* text on screen turns out to be tool orchestration
      "rewrite",     \* a settled node is rewritten (compaction/summary)
      "olderPage",   \* an older page of history is loaded (loadOlder)
      "subagent",    \* a subagent runs
      "shrink" }     \* the terminal becomes narrower or less high

ASSUME TranscriptAssumption ==
    /\ NoSession \notin Sessions
    /\ MaxRetained \in Nat \ {0} /\ MaxLines \in Nat \ {0} /\ MaxEvents \in Nat /\ MaxResizes \in Nat
    /\ Widths \subseteq Nat \ {0} /\ Heights \subseteq Nat \ {0}
    /\ Conditions \subseteq AllConditions

VARIABLES
    session,      \* the selected Session (latestSnapshot.sessionId)
    nodes,        \* the presentation nodes of each Session's history
    running,      \* the Sessions whose turn runs
    step,         \* the step (turn:step) of each Session
    count,        \* how many so far; numbers nodes and texts
    projecting,   \* a snapshot waits in the latest-wins task
    bars,         \* starts and stops of a subagent so far, 2 at most
    elements,     \* latestDisplayElements
    displayed,    \* displaySessionKey
    buffer,       \* the display buffer's snapshot
    output,       \* the terminal output's snapshot
    resizes,      \* resizes so far
    happened,     \* history: what came about of
                  \* "shed"     rows were cut at the retention limit
                  \* "shorter"  a node of a transcript went or lost lines
                  \* "shrunk"   the terminal became narrower or less high
    crashed       \* an exception nobody catches

history == <<session, nodes, running, step, count>>
display == <<elements, displayed, buffer, output>>
vars    == <<history, projecting, bars, display, resizes, happened, crashed>>

-----------------------------------------------------------------------------
(* The projector.  A node is [id, life, lines, text].                      *)
Streaming(ns) == {n \in Range(ns) : n.life = "live"}

Upsert(ns, node) ==
    IF \E n \in Range(ns) : n.id = node.id
    THEN [i \in DOMAIN ns |-> IF ns[i].id = node.id THEN node ELSE ns[i]]
    ELSE Append(ns, node)

Settle(ns, ids) ==
    [i \in DOMAIN ns |-> IF ns[i].id \in ids THEN [ns[i] EXCEPT !.life = "stable"] ELSE ns[i]]

Present(ns, id) == \E n \in Range(ns) : n.id = id

Without(ns, id) ==
    IF Present(ns, id) THEN RemoveAt(ns, CHOOSE i \in DOMAIN ns : ns[i].id = id) ELSE ns

Shorter(ns, before) ==
    \E m \in Range(before) : \A n \in Range(ns) : n.id # m.id \/ n.lines < m.lines

Happened(condition, event) == IF condition THEN {event} ELSE {}

Node(id, life, lines) == [id |-> id, life |-> life, lines |-> lines, text |-> count]

Here == nodes[session]
Assistant == <<session, "assistant", step[session]>>
Fresh(kind) == <<session, kind, count>>

(* Ordinarily, events about another node come after a node has settled.    *)
InTurn(ids) ==
    \/ "overlap" \in Conditions
    \/ \A n \in Streaming(Here) : n.id \in ids

(* One more event in the history of the selected Session: its snapshot     *)
(* schedules a projection.                                                 *)
Event(ns) ==
    /\ ~crashed /\ session # NoSession /\ count < MaxEvents
    /\ nodes' = [nodes EXCEPT ![session] = ns]
    /\ count' = count + 1
    /\ projecting' = TRUE
    /\ happened' = happened \cup Happened(Shorter(ns, Here), "shorter")
    /\ UNCHANGED <<session, bars, display, resizes, crashed>>

(* user/message: of the user, or a context notice, which shows no lines.   *)
UserMessage(lines) ==
    /\ InTurn({})
    /\ Event(Append(Here, Node(Fresh("entry"), "stable", lines)))
    /\ UNCHANGED <<running, step>>

TurnStart ==
    /\ session \notin running
    /\ Event(Here)
    /\ running' = running \cup {session}
    /\ UNCHANGED step

(* assistant/chunk: no visible block, no node.                             *)
Chunk(lines) ==
    /\ session \in running
    /\ InTurn({Assistant})
    /\ lines = 0 /\ Present(Here, Assistant) => "hidden" \in Conditions
    /\ \/ \A n \in Range(Here) : n.id = Assistant => n.life = "live"
       \/ "lateText" \in Conditions
    /\ Event(IF lines = 0 THEN Without(Here, Assistant)
             ELSE Upsert(Here, Node(Assistant, "live", lines)))
    /\ UNCHANGED <<running, step>>

(* assistant/message ends the step, unless it asks for tools.              *)
Message(lines) ==
    /\ session \in running
    /\ InTurn({Assistant})
    /\ \/ ~Present(Here, Assistant)
       \/ \E n \in Streaming(Here) : n.id = Assistant
    /\ Event(IF lines = 0 THEN Without(Here, Assistant)
             ELSE Upsert(Here, Node(Assistant, "stable", lines)))
    /\ step' = [step EXCEPT ![session] = @ + 1]
    /\ UNCHANGED running

(* A tool's events are of the node that streams for it, or of a new one.   *)
OfTool(kind, id) == id = Fresh(kind) \/ \E n \in Streaming(Here) : n.id = id /\ n.id[2] = kind

(* tool/call, again when the tool goes from pending to running: it closes  *)
(* the assistant node of its step (settleAssistantStepBeforeTool).         *)
ToolCall(id, lines) ==
    /\ session \in running
    /\ OfTool("tool", id)
    /\ InTurn({Assistant, id})
    /\ Event(Upsert(Settle(Here, {Assistant}), Node(id, "live", lines)))
    /\ UNCHANGED <<running, step>>

(* tool/result; the call may be missing where the loaded history begins.   *)
ToolResult(id, lines) ==
    /\ OfTool("tool", id)
    /\ InTurn({id})
    /\ Event(Upsert(Here, Node(id, "stable", lines)))
    /\ IF "lateText" \in Conditions \/ \E n \in Streaming(Here) : n.id # id
       THEN UNCHANGED step
       ELSE step' = [step EXCEPT ![session] = @ + 1]
    /\ UNCHANGED running

(* tool/code-dispatch-start: the orchestrating call, or the sub-call that   *)
(* dispatches in its turn, is suppressed and its node goes, unless an       *)
(* earlier dispatch has removed it; a node for the sub-call is added.       *)
CodeDispatchStart(parent, lines) ==
    /\ session \in running
    /\ \/ \E n \in Streaming(Here) : n.id = parent /\ n.id[2] \in {"tool", "sub"}
       \/ ~Present(Here, parent) /\ \E n \in Range(Here) : n.id[2] = "sub"
    /\ InTurn({parent})
    /\ Event(Append(Without(Here, parent), Node(Fresh("sub"), "live", lines)))
    /\ UNCHANGED <<running, step>>

(* tool/code-dispatch: the result of the sub-call.                         *)
CodeDispatch(id, lines) ==
    /\ OfTool("sub", id)
    /\ InTurn({id})
    /\ Event(Upsert(Here, Node(id, "stable", lines)))
    /\ UNCHANGED <<running, step>>

(* The result of a suppressed call is not shown, but ends the step.        *)
SuppressedResult ==
    /\ session \in running
    /\ \E n \in Range(Here) : n.id[2] = "sub"
    /\ InTurn({})
    /\ Event(Here)
    /\ step' = [step EXCEPT ![session] = @ + 1]
    /\ UNCHANGED running

(* Mutant: what streams goes on streaming.                                 *)
MutantTurnEnd(tail) ==
    /\ session \in running
    /\ Event(IF tail THEN Append(Here, Node(Fresh("entry"), "stable", 1)) ELSE Here)
    /\ running' = running \ {session}
    /\ step' = [step EXCEPT ![session] = @ + 1]

(* turn/end settles every node that streams; the tail shows its duration   *)
(* or its error, a cancelled turn has none.                                *)
TurnEnd(tail) ==
    /\ session \in running
    /\ LET settled == Settle(Here, {n.id : n \in Streaming(Here)})
       IN  Event(IF tail THEN Append(settled, Node(Fresh("entry"), "stable", 1)) ELSE settled)
    /\ running' = running \ {session}
    /\ step' = [step EXCEPT ![session] = @ + 1]

(* An event of unknown type is live as long as the turn runs.              *)
UnknownEvent ==
    /\ "overlap" \in Conditions \/ session \notin running
    /\ InTurn({})
    /\ Event(Append(Here, Node(Fresh("entry"),
                               IF session \in running THEN "live" ELSE "stable", 1)))
    /\ UNCHANGED <<running, step>>

CommandRun ==
    /\ InTurn({})
    /\ Event(Append(Here, Node(Fresh("command"), "live", 1)))
    /\ UNCHANGED <<running, step>>

(* command/done answers the last command/run.                              *)
CommandDone(lines) ==
    LET commands == {i \in DOMAIN Here : Here[i].id[2] = "command"}
        last == Here[Max(commands)]
    IN  /\ commands # {}
        /\ last.life = "live" \/ "rewrite" \in Conditions
        /\ InTurn({last.id})
        /\ Event(Upsert(Here, Node(last.id, "stable", lines)))
        /\ UNCHANGED <<running, step>>

(* compaction/start and compaction/summary write one node per Session.     *)
Compaction ==
    LET id == <<session, "compaction", 0>>
    IN  /\ InTurn({})
        /\ Present(Here, id) => "rewrite" \in Conditions
        /\ Event(Upsert(Here, Node(id, "stable", 1)))
        /\ UNCHANGED <<running, step>>

(* loadOlder: the page is projected before what is already there.          *)
OlderPage(lines) ==
    /\ "olderPage" \in Conditions
    /\ Event(<<Node(Fresh("older"), "stable", lines)>> \o Here)
    /\ UNCHANGED <<running, step>>

Select(s) ==
    /\ ~crashed /\ count < MaxEvents
    /\ s # session
    /\ session' = s
    /\ count' = count + 1
    /\ projecting' = TRUE
    /\ UNCHANGED <<nodes, running, step, bars, display, resizes, happened, crashed>>

(* subagentDispose: a subagent starts or stops; its bar takes part in the  *)
(* next projection.                                                        *)
Subagent ==
    /\ ~crashed /\ "subagent" \in Conditions /\ bars < 2 /\ count < MaxEvents
    /\ bars' = bars + 1
    /\ count' = count + 1
    /\ UNCHANGED <<session, nodes, running, step, projecting, display, resizes, happened, crashed>>

-----------------------------------------------------------------------------
Logo == [id |-> <<NoSession, "logo", 0>>, life |-> "stable", lines |-> 1, text |-> 0]
Bar  == [id |-> <<NoSession, "subagent", 0>>, life |-> "live", lines |-> 1, text |-> 0]

Width == IF buffer.width = 0 THEN Min(Widths) ELSE buffer.width  \* displayWidth

Elements == <<Logo>> \o (IF bars = 1 THEN <<Bar>> ELSE <<>>) \o Here

Sheds(es, width) == Happened(Len(RowsFor(es, width)) > MaxRetained, "shed")

(* projectDisplayBuffer, run by the latest-wins task.                      *)
Project ==
    /\ ~crashed /\ projecting
    /\ projecting' = FALSE
    /\ elements' = Elements
    /\ LET b == IF displayed = session THEN buffer ELSE Reset(buffer)
       IN  /\ crashed' = Refuses(b, Elements, Width)
           /\ buffer' = IF crashed' THEN b ELSE Reflow(b, Elements, Width)
    /\ output' = ResetOutput(output, session)
    /\ displayed' = session
    /\ happened' = happened \cup Sheds(Elements, Width)
    /\ UNCHANGED <<history, bars, resizes>>

Shrinks(w, h) == buffer.height # 0 /\ (w > buffer.width \/ h < buffer.height)

(* setDisplayViewport: reflow for the new width, then the new height with   *)
(* the old top row, which setViewport may not accept.                      *)
Resize(w, h) ==
    /\ ~crashed /\ resizes < MaxResizes
    /\ <<w, h>> # <<buffer.width, buffer.height>>
    /\ Shrinks(w, h) => "shrink" \in Conditions
    /\ resizes' = resizes + 1
    /\ LET es == IF elements = <<>> THEN <<Logo>> ELSE elements
       IN  /\ elements' = es
           /\ happened' = happened \cup Sheds(es, w) \cup Happened(Shrinks(w, h), "shrunk")
           /\ crashed' = (Refuses(buffer, es, w) \/ InvalidTop(buffer.top))
           /\ buffer' = IF crashed' THEN buffer
                        ELSE SetViewport(Reflow(buffer, es, w), buffer.top, h, buffer.follow)
    /\ UNCHANGED <<history, projecting, bars, displayed, output>>

(* projectTerminalFrame, at each render.                                   *)
Frame ==
    /\ crashed' = FrameOutOfOrder(buffer)
    /\ output' = IF crashed' THEN output ELSE ApplyFrame(output, buffer)
    /\ UNCHANGED <<history, projecting, bars, elements, displayed, buffer, resizes, happened>>

Init ==
    /\ session = NoSession
    /\ nodes = [s \in Sessions |-> <<>>]
    /\ running = {} /\ step = [s \in Sessions |-> 0] /\ count = 0
    /\ projecting = FALSE /\ bars = 0
    /\ elements = <<>> /\ displayed = NoSession
    /\ buffer = EmptyBuffer /\ output = EmptyOutput(NoSession)
    /\ resizes = 0 /\ happened = {} /\ crashed = FALSE

Lines == 1..MaxLines

Happens ==
    \/ \E s \in Sessions : Select(s)
    \/ /\ session # NoSession
       /\ \/ \E n \in 0..MaxLines : UserMessage(n) \/ Chunk(n) \/ Message(n)
          \/ TurnStart \/ \E tail \in BOOLEAN : TurnEnd(tail)
          \/ \E n \in Lines : CommandDone(n) \/ OlderPage(n)
          \/ \E n \in Lines, id \in {m.id : m \in Range(Here)} \cup {Fresh("tool"), Fresh("sub")} :
                ToolCall(id, n) \/ ToolResult(id, n) \/ CodeDispatchStart(id, n) \/ CodeDispatch(id, n)
          \/ SuppressedResult \/ UnknownEvent \/ CommandRun \/ Compaction

Resized == \E w \in Widths, h \in Heights : Resize(w, h)

Next == Happens \/ Subagent \/ Project \/ Resized \/ (~crashed /\ buffer.height > 0 /\ Frame)

Spec == Init /\ [][Next]_vars
=============================================================================
