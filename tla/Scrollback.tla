----------------------------- MODULE Scrollback -----------------------------
(***************************************************************************)
(* TuiTerminalLifecycleService under the transcript: each render hands the *)
(* committed rows to one Ink Static, which prints the rows past its index  *)
(* and never again looks at what it printed.  Ink flushes on its own time; *)
(* a render during a flush shows only what was committed before it, and    *)
(* its full frame waits for the flush to end.  Around it the states of the *)
(* terminal: entered once, restored on every way out.                      *)
(* Not modelled: suspend and resume, which nothing calls, and a render     *)
(* from inside the factory that mounts Ink.                                *)
(***************************************************************************)
EXTENDS Transcript

VARIABLES
    terminal,     \* currentState
    mounted,      \* instance
    attached,     \* the process and stream listeners of the lifecycle
    detaching,    \* detachSignals waits for the end of the signal's dispatch
    wanted,       \* a refresh is on its way (render timer, orchestrator)
    flush,        \* pendingFlush
    pend,         \* pendingStaticIdentity and pendingStableRows
    committed,    \* committedStaticIdentity and committedStableRows
    queued,       \* pendingRerenderElement
    static        \* Ink's Static: its key, index and what it has printed

rendering == <<wanted, flush, pend, committed, queued, static>>
lifecycle == <<terminal, mounted, attached, detaching>>
allVars   == <<vars, lifecycle, rendering>>

-----------------------------------------------------------------------------
NoKey == <<NoSession, 0>>
NoRows == [key |-> NoKey, rows |-> {}]
NoFrame == [key |-> NoKey, len |-> 0, rows |-> {}]

(* realizeCarrierTree: a sparse array up to the last row, with the rows to *)
(* print in their places.                                                  *)
Carrier(key, stable, rows) ==
    [key |-> key, len |-> Max({-1} \cup stable \cup rows) + 1, rows |-> rows]

(* Ink: another key is another Static, which starts at index 0.            *)
Paint(s, frame) ==
    LET was == IF s.key = frame.key THEN s ELSE [key |-> frame.key, index |-> 0, times |-> <<>>]
        new == {n \in frame.rows : n >= was.index}
        before(n) == IF n \in DOMAIN was.times THEN was.times[n] ELSE 0
    IN  [key |-> frame.key, index |-> frame.len,
         times |-> [n \in DOMAIN was.times \cup new |-> before(n) + IF n \in new THEN 1 ELSE 0]]

(* Mutant: each frame starts from its own new rows.                        *)
MutantRowsOf(kept, key) == {}

RowsOf(kept, key) == IF kept.key = key THEN kept.rows ELSE {}

NoStatic == [key |-> NoKey, index |-> 0, times |-> <<>>]

(* The instance is gone, and with it what the rendering remembers.         *)
Discard ==
    /\ mounted' = FALSE /\ wanted' = FALSE /\ flush' = FALSE
    /\ pend' = NoRows /\ committed' = NoRows /\ queued' = NoFrame
    /\ static' = NoStatic

(* Mutant: the listeners go only once Ink is unmounted.                    *)
MutantRestore(next, inSignal) ==
    /\ Discard
    /\ \/ terminal' = next /\ detaching' = inSignal
          /\ attached' = IF inSignal THEN {"signals"} ELSE {}
       \/ mounted /\ terminal' = "restoring" /\ UNCHANGED <<detaching, attached>>

(* restore, then the transition to next.  Listeners go even if unmounting  *)
(* throws, but then the exception is all that is left.                     *)
Restore(next, inSignal) ==
    /\ Discard
    /\ detaching' = inSignal
    /\ attached' = IF inSignal THEN {"signals"} ELSE {}
    /\ \/ terminal' = next
       \/ mounted /\ terminal' = "restoring"

-----------------------------------------------------------------------------
(* enter: the listeners, and the first viewport into the buffer.           *)
Boot(w, h) ==
    /\ terminal = "idle"
    /\ terminal' = "active"
    /\ attached' = {"signals", "boundaries", "resize"}
    /\ wanted' = TRUE
    /\ Resize(w, h)
    /\ UNCHANGED <<mounted, detaching, flush, pend, committed, queued, static>>

(* The transcript's actions; a projection, a resize and the subagents ask  *)
(* for a refresh.  Until the first render controller.start() lets nothing  *)
(* else run.                                                               *)
Shown(A) ==
    /\ terminal = "active" /\ mounted
    /\ A
    /\ UNCHANGED <<lifecycle, flush, pend, committed, queued, static>>

(* Mutant: nobody asks for a refresh.                                      *)
MutantRefreshed(A) == Shown(A) /\ UNCHANGED wanted

Recorded == Shown(Happens) /\ UNCHANGED wanted
Refreshed(A) == Shown(A) /\ wanted' = TRUE

(* A key, the activity timer: a render for another reason.                 *)
Redraw ==
    /\ terminal = "active" /\ mounted /\ ~wanted /\ ~crashed
    /\ wanted' = TRUE
    /\ UNCHANGED <<vars, lifecycle, flush, pend, committed, queued, static>>

(* renderNow: the terminal frame, then render of the lifecycle.  Mounting  *)
(* or rerendering may throw.                                               *)
Render ==
    /\ terminal = "active" /\ wanted /\ ~crashed
    /\ Frame
    /\ \/ crashed' /\ wanted' = FALSE
          /\ UNCHANGED <<lifecycle, flush, pend, committed, queued, static>>
       \/ ~crashed' /\ Restore("failed", FALSE)
       \/ LET key == <<output'.session, output'.width>>
              before == RowsOf(committed, key)
              rows == output'.pending \cup IF mounted THEN RowsOf(pend, key) ELSE {}
              full == Carrier(key, output'.stable, rows)
          IN  /\ ~crashed'
              /\ wanted' = FALSE /\ mounted' = TRUE /\ flush' = TRUE
              /\ pend' = IF mounted THEN [key |-> key, rows |-> rows] ELSE pend
              /\ committed' = [key |-> key, rows |-> IF mounted THEN before ELSE output'.stable]
              /\ queued' = IF flush THEN full ELSE queued
              /\ static' = Paint(static, IF flush THEN Carrier(key, before, {}) ELSE full)
              /\ UNCHANGED <<terminal, attached, detaching>>

(* Mutant: what was pending stays pending.                                 *)
MutantKeepPending ==
    /\ flush /\ terminal = "active" /\ ~crashed
    /\ queued' = NoFrame
    /\ flush' = (queued # NoFrame)
    /\ static' = IF queued = NoFrame THEN static ELSE Paint(static, queued)
    /\ UNCHANGED <<vars, lifecycle, wanted, pend, committed>>

(* Mutant: the queued frame is never rendered.                             *)
MutantDropQueued ==
    /\ flush /\ terminal = "active" /\ ~crashed
    /\ pend' = NoRows /\ queued' = NoFrame /\ flush' = FALSE
    /\ committed' = [key |-> pend.key, rows |-> RowsOf(committed, pend.key) \cup pend.rows]
    /\ UNCHANGED <<vars, lifecycle, wanted, static>>

(* The flush ends: what was pending is committed, the queued frame is      *)
(* rendered and flushes in its turn.  A flush that outlives the terminal   *)
(* changes nothing any more.                                               *)
FlushEnds ==
    /\ flush /\ terminal = "active" /\ ~crashed
    /\ pend' = NoRows
    /\ committed' = IF pend = NoRows THEN committed
                    ELSE [key |-> pend.key, rows |-> RowsOf(committed, pend.key) \cup pend.rows]
    /\ queued' = NoFrame
    /\ flush' = (queued # NoFrame)
    /\ static' = IF queued = NoFrame THEN static ELSE Paint(static, queued)
    /\ UNCHANGED <<vars, lifecycle, wanted>>

-----------------------------------------------------------------------------
(* exit from a key or stop(), the end of stdin: the listeners go at once.  *)
(* SIGTERM, SIGHUP and the SIGINT that exits: the signal listeners stay    *)
(* until the dispatch is over.                                             *)
Exit(inSignal) ==
    /\ terminal = "active" /\ mounted /\ ~crashed
    /\ Restore("exited", inSignal)
    /\ UNCHANGED vars

(* lifecycle.fail from a failed composition or flush or from the queued    *)
(* frame, an unhandled rejection.                                          *)
Fail ==
    /\ terminal = "active" /\ mounted /\ ~crashed
    /\ Restore("failed", FALSE)
    /\ UNCHANGED vars

(* stop() or the disposal of the context after a failure.                  *)
ExitAfterFailure ==
    /\ terminal = "failed"
    /\ Restore("exited", FALSE)
    /\ UNCHANGED vars

DetachSignals ==
    /\ detaching
    /\ detaching' = FALSE /\ attached' = attached \ {"signals"}
    /\ UNCHANGED <<vars, terminal, mounted, rendering>>

ScrollbackInit ==
    /\ Init
    /\ terminal = "idle" /\ mounted = FALSE /\ attached = {} /\ detaching = FALSE
    /\ wanted = FALSE /\ flush = FALSE
    /\ pend = NoRows /\ committed = NoRows /\ queued = NoFrame /\ static = NoStatic

ScrollbackNext ==
    \/ \E w \in Widths, h \in Heights : Boot(w, h)
    \/ Recorded
    \/ Refreshed(Project) \/ Refreshed(Resized) \/ Refreshed(Subagent)
    \/ Redraw
    \/ Render
    \/ FlushEnds
    \/ \E inSignal \in BOOLEAN : Exit(inSignal)
    \/ Fail \/ ExitAfterFailure
    \/ DetachSignals

ScrollbackSpec == ScrollbackInit /\ [][ScrollbackNext]_allVars

(* Immediates, the render timer and the flush come about.  Project alone   *)
(* clears projecting and Render alone clears wanted, so fairness to them   *)
(* is stated on these variables.                                           *)
LiveScrollbackSpec ==
    /\ ScrollbackSpec
    /\ WF_projecting(terminal = "active" /\ mounted /\ ~crashed /\ projecting' = FALSE)
    /\ WF_wanted(terminal = "active" /\ ~crashed /\ wanted' = FALSE)
    /\ WF_allVars(FlushEnds)

-----------------------------------------------------------------------------
(* Types; what is pending is committed; the states of the terminal.        *)
TypeOK ==
    /\ terminal \in {"idle", "active", "restoring", "exited", "failed"}
    /\ attached \subseteq {"signals", "boundaries", "resize"}
    /\ {mounted, detaching, wanted, flush, projecting, crashed} \subseteq BOOLEAN
    /\ count \in 0..MaxEvents /\ resizes \in 0..MaxResizes
    /\ output.pending \subseteq output.stable
    /\ static.index \in Nat /\ DOMAIN static.times \subseteq Nat

Printed == DOMAIN static.times

(* No older page was loaded and no subagent ran: both put rows before the  *)
(* committed ones, which the buffer refuses or cannot number.              *)
AppendOnly == bars = 0 /\ \A t \in Sessions : \A n \in Range(nodes[t]) : n.id[2] # "older"

(* Nor do rows that were cut at the retention limit come back, as they do   *)
(* when what follows them gets shorter; the buffer hands such a row over   *)
(* after later ones.                                                       *)
NothingReturns == AppendOnly /\ ~({"shed", "shorter"} \subseteq happened)

(* Without the Conditions the projector never hands the buffer a settled   *)
(* node after a live one, nor a committed row that says something else:    *)
(* no reflow and no frame throws, and the process lives.                   *)
NothingRefused == AppendOnly => ~crashed

(* The rows of the buffer are numbered without gap or collision, whatever  *)
(* came, went, grew or shrank between two projections, and after rows were *)
(* shed at the retention limit.                                            *)
RowsInOrder ==
    AppendOnly =>
        \A i \in 2..Len(buffer.rows) : buffer.rows[i].abs = buffer.rows[i - 1].abs + 1

(* The logo, one line, is the first thing the viewport is asked to show.   *)
LogoFits == \A w \in Widths, h \in Heights : w <= h

FollowsTail == buffer.follow /\ buffer.top = MaxTop(buffer.rows, buffer.height)

(* As long as the terminal does not become narrower or less high, what     *)
(* streams is on the screen: the viewport follows the tail through         *)
(* projections, lost and shed rows, selections and every resize that makes *)
(* the terminal wider or higher.                                           *)
TailVisible ==
    AppendOnly /\ LogoFits /\ "shrunk" \notin happened /\ buffer.height > 0 => FollowsTail

(* Scrollback is never reordered: when a row is printed every committed    *)
(* row before it that the buffer still has is there already.               *)
NoRowSkipped ==
    NothingReturns /\ static.key = <<output.session, output.width>> =>
        \A n \in output.stable, p \in Printed : n < p => n \in Printed

(* A row may be printed again by the frame that a render during the flush  *)
(* queued, but only once: the end of that flush commits it.                *)
PrintedAtMostTwice == NothingReturns => \A n \in Printed : static.times[n] <= 2

(* When no flush is pending every committed row the last render knew is on *)
(* the terminal: no render during a flush, failed flush or switch of the   *)
(* layout loses one.                                                       *)
NoRowLost ==
    terminal = "active" /\ mounted /\ ~flush /\ output.stable # {} /\ NothingReturns =>
        static.key = <<output.session, output.width>> /\ output.stable \subseteq Printed

(* Ink is unmounted and the listeners are gone after every way out, also   *)
(* when unmounting throws; the signal listeners at the latest after the    *)
(* signal's dispatch.                                                      *)
ReleasedAfterwards ==
    terminal \in {"restoring", "exited", "failed"} =>
        ~mounted /\ attached \subseteq {"signals"} /\ (detaching <=> attached # {})

CaughtUp ==
    /\ displayed = session /\ elements = Elements
    /\ static.key = <<session, buffer.width>>
    /\ Numbers(Committed(buffer)) \subseteq Printed

(* What the Session records reaches the terminal: while it is active it    *)
(* always comes to show all that has settled.                              *)
EventuallyPrinted ==
    []<>(terminal = "active" /\ session # NoSession /\ ~crashed /\ NothingReturns => CaughtUp)
=============================================================================
