--------------------------- MODULE ScrollbackProofs ---------------------------
(*****************************************************************************)
(* Theorems about Scrollback, for every set of Sessions, every size of the   *)
(* terminal and every bound of the runs, in seven parts:                     *)
(*   1. the way out of the terminal, and what a render remembers             *)
(*   2. the rows of the buffer: where each element's rows lie                *)
(*   3. the nodes: what an event may do to them                              *)
(*   4. what is displayed follows the nodes: no reflow and no frame throws   *)
(*   5. the viewport follows the tail                                        *)
(*   6. types, and the greatest row of a frame                               *)
(*   7. the rows with Ink's Static: none skipped, lost or printed a third    *)
(*      time                                                                 *)
(* Parts 1 and 6 hold under every set of Conditions, parts 4, 5 and 7 under  *)
(* those with which nothing comes that the buffer refuses (Orderly).  What a *)
(* recursion computes is not proved by induction but from a least            *)
(* counterexample (QueueLemmas).                                             *)
(*****************************************************************************)
EXTENDS Scrollback, QueueLemmas, TLAPS

-----------------------------------------------------------------------------
(*****************************************************************************)
(* 1. The way out of the terminal, and what a render remembers.              *)
(*****************************************************************************)

(* restore leaves nothing mounted, and of the listeners at most those of   *)
(* the signal that is being dispatched.                                    *)
LEMMA RestoreReleases ==
    ASSUME NEW next, NEW inSignal \in BOOLEAN, Restore(next, inSignal)
    PROVE  ReleasedAfterwards'
BY DEF Restore, Discard, ReleasedAfterwards

(* Each step keeps ReleasedAfterwards.                                     *)
LEMMA ReleasedStep ==
    ASSUME ReleasedAfterwards, [ScrollbackNext]_allVars
    PROVE  ReleasedAfterwards'
<1>1. ASSUME NEW w \in Widths, NEW h \in Heights, Boot(w, h) PROVE ReleasedAfterwards'
  BY <1>1 DEF Boot, ReleasedAfterwards
<1>2. CASE Recorded \/ Refreshed(Project) \/ Refreshed(Resized) \/ Refreshed(Subagent)
  BY <1>2 DEF Recorded, Refreshed, Shown, lifecycle, ReleasedAfterwards
<1>3. CASE Redraw \/ FlushEnds \/ UNCHANGED allVars
  BY <1>3 DEF Redraw, FlushEnds, allVars, lifecycle, ReleasedAfterwards
<1>4. CASE Render
  <2>1. CASE Restore("failed", FALSE)
    BY <2>1, RestoreReleases
  <2>2. CASE terminal' = "active"
    BY <2>2 DEF ReleasedAfterwards
  <2> QED BY <1>4, <2>1, <2>2 DEF Render, lifecycle
<1>5. ASSUME NEW inSignal \in BOOLEAN, Exit(inSignal) PROVE ReleasedAfterwards'
  BY <1>5, RestoreReleases DEF Exit
<1>6. CASE Fail \/ ExitAfterFailure
  BY <1>6, RestoreReleases DEF Fail, ExitAfterFailure
<1>7. CASE DetachSignals
  BY <1>7 DEF DetachSignals, ReleasedAfterwards
<1> QED BY <1>1, <1>2, <1>3, <1>4, <1>5, <1>6, <1>7 DEF ScrollbackNext

(* Ink is unmounted and the listeners are gone after every way out of the  *)
(* terminal - exit, a signal, a failure, a render or an unmount that       *)
(* throws - and the signal listeners at the latest after the dispatch      *)
(* (restore, detachSignals).                                               *)
THEOREM TerminalIsReleased == ScrollbackSpec => []ReleasedAfterwards
<1>1. ScrollbackInit => ReleasedAfterwards
  BY DEF ScrollbackInit, ReleasedAfterwards
<1> QED BY <1>1, ReleasedStep, PTL DEF ScrollbackSpec

-----------------------------------------------------------------------------
(***************************************************************************)
(* No row is forgotten on its way from the output service to Ink.  This is *)
(* the part of NoRowLost that does not depend on how the buffer numbers    *)
(* its rows.                                                               *)
(***************************************************************************)
OutputKey == <<output.session, output.width>>

\* Each committed row of the last frame is committed with Ink's Static or
\* pending; what is pending ends with the flush, and the frame that waits
\* for it carries all of it.
NothingForgotten ==
    terminal = "active" /\ mounted =>
        /\ output.stable \subseteq RowsOf(committed, OutputKey) \cup RowsOf(pend, OutputKey)
        /\ ~flush => pend = NoRows /\ queued = NoFrame
        /\ queued # NoFrame => queued.key = pend.key /\ queued.rows = pend.rows

\* What Ink's Static printed is committed or pending, so it is not taken for
\* new when it comes again; and all of this is about one layout.
PrintedIsKnown ==
    terminal = "active" /\ mounted =>
        /\ committed.key = static.key
        /\ pend = NoRows \/ pend.key = static.key
        /\ queued = NoFrame \/ queued.key = static.key
        /\ Printed \subseteq RowsOf(committed, static.key) \cup RowsOf(pend, static.key)

\* Until the terminal is mounted nothing has been rendered.
NothingRendered ==
    /\ terminal = "idle" => ~mounted
    /\ terminal \in {"idle", "active"} /\ ~mounted =>
           output.stable = {} /\ ~flush /\ pend = NoRows /\ queued = NoFrame /\ static = NoStatic

\* The output has these four fields.
IsOutput ==
    output = [session |-> output.session, width |-> output.width,
              stable |-> output.stable, pending |-> output.pending]

\* What NoRowForgotten is proved from.
RowsInv == IsOutput /\ NothingRendered /\ NothingForgotten /\ PrintedIsKnown

(* Nothing of a record without rows is kept under any key.                 *)
LEMMA NoRowsKept ==
    ASSUME NEW key PROVE RowsOf(NoRows, key) = {}
BY DEF RowsOf, NoRows

(* What painting a frame leaves: its key, and no row that was not printed  *)
(* under this key before or new in the frame.                              *)
LEMMA PaintPrints ==
    ASSUME NEW s, NEW frame
    PROVE  /\ Paint(s, frame).key = frame.key
           /\ DOMAIN Paint(s, frame).times
                \subseteq (IF s.key = frame.key THEN DOMAIN s.times ELSE {}) \cup frame.rows
<1> DEFINE was == IF s.key = frame.key THEN s ELSE [key |-> frame.key, index |-> 0, times |-> <<>>]
           new == {n \in frame.rows : n >= was.index}
           before(n) == IF n \in DOMAIN was.times THEN was.times[n] ELSE 0
           painted == [key |-> frame.key, index |-> frame.len,
                       times |-> [n \in DOMAIN was.times \cup new |->
                                    before(n) + IF n \in new THEN 1 ELSE 0]]
<1>1. Paint(s, frame) = painted
  BY DEF Paint
<1>2. painted.key = frame.key /\ DOMAIN painted.times = DOMAIN was.times \cup new
  OBVIOUS
<1>3. DOMAIN was.times = IF s.key = frame.key THEN DOMAIN s.times ELSE {}
  <2>1. CASE s.key = frame.key
    BY <2>1
  <2>2. CASE s.key # frame.key
    <3>1. was = [key |-> frame.key, index |-> 0, times |-> <<>>]
      BY <2>2
    <3>2. DOMAIN was.times = {}
      BY <3>1
    <3> QED BY <2>2, <3>2
  <2> QED BY <2>1, <2>2
<1>4. new \subseteq frame.rows
  OBVIOUS
<1> HIDE DEF was, new, painted
<1> QED BY <1>1, <1>2, <1>3, <1>4

(* The output service resets or keeps its snapshot; a frame replaces the   *)
(* committed rows, and those it knew of this width are not pending again.  *)
LEMMA OutputSteps ==
    ASSUME IsOutput
    PROVE  /\ \A s : LET o == ResetOutput(output, s)
                     IN  /\ o = [session |-> o.session, width |-> o.width,
                                 stable |-> o.stable, pending |-> o.pending]
                         /\ o = output \/ o.stable = {}
           /\ \A b : LET o == ApplyFrame(output, b)
                     IN  /\ o = [session |-> o.session, width |-> o.width,
                                 stable |-> o.stable, pending |-> o.pending]
                         /\ o.session = output.session
                         /\ o.pending \subseteq o.stable
                         /\ o.stable \ o.pending # {} => o.width = output.width
                         /\ o.stable \ o.pending \subseteq output.stable
<1>1. ASSUME NEW s
      PROVE  LET o == ResetOutput(output, s)
             IN  /\ o = [session |-> o.session, width |-> o.width,
                         stable |-> o.stable, pending |-> o.pending]
                 /\ o = output \/ o.stable = {}
  BY DEF ResetOutput, EmptyOutput, IsOutput
<1>2. ASSUME NEW b
      PROVE  LET o == ApplyFrame(output, b)
             IN  /\ o = [session |-> o.session, width |-> o.width,
                         stable |-> o.stable, pending |-> o.pending]
                 /\ o.session = output.session
                 /\ o.pending \subseteq o.stable
                 /\ o.stable \ o.pending # {} => o.width = output.width
                 /\ o.stable \ o.pending \subseteq output.stable
  <2> DEFINE stable == Numbers(Committed(b))
             known == IF output.width # b.width THEN {} ELSE output.stable
             o == [session |-> output.session, width |-> b.width,
                   stable |-> stable, pending |-> stable \ known]
  <2>1. ApplyFrame(output, b) = [output EXCEPT !.width = b.width, !.stable = stable,
                                               !.pending = stable \ known]
    BY DEF ApplyFrame
  <2> HIDE DEF stable
  <2>2. ApplyFrame(output, b) = o
    BY <2>1 DEF IsOutput
  <2>3. /\ o.session = output.session /\ o.width = b.width
        /\ o.stable = stable /\ o.pending = stable \ known
        /\ o = [session |-> o.session, width |-> o.width,
                stable |-> o.stable, pending |-> o.pending]
    OBVIOUS
  <2>4. /\ o.stable \ o.pending # {} => o.width = output.width
        /\ o.stable \ o.pending \subseteq output.stable
    BY <2>3
  <2> QED BY <2>2, <2>3, <2>4
<1> QED BY <1>1, <1>2

(* Nothing of the rendering changes, and the output at most begins anew.   *)
LEMMA RowsKept ==
    ASSUME RowsInv, IsOutput', output' = output \/ output'.stable = {},
           terminal' = terminal \/ (terminal = "idle" /\ terminal' = "active"),
           mounted' = mounted, flush' = flush, pend' = pend, committed' = committed,
           queued' = queued, static' = static
    PROVE  RowsInv'
<1>1. NothingRendered'
  BY DEF RowsInv, NothingRendered
<1>2. ASSUME terminal' = "active", mounted' PROVE terminal = "active" /\ mounted
  BY <1>2 DEF RowsInv, NothingRendered
<1>3. NothingForgotten'
  BY <1>2 DEF RowsInv, NothingForgotten, OutputKey, RowsOf
<1>4. PrintedIsKnown'
  BY <1>2 DEF RowsInv, PrintedIsKnown, Printed, RowsOf
<1> QED BY <1>1, <1>3, <1>4 DEF RowsInv

(* Once the terminal is left nothing is to be remembered.                  *)
LEMMA RowsLeft ==
    ASSUME IsOutput', terminal' \notin {"idle", "active"}
    PROVE  RowsInv'
BY DEF RowsInv, NothingRendered, NothingForgotten, PrintedIsKnown

(* restore leaves the terminal.                                            *)
LEMMA RestoreLeaves ==
    ASSUME NEW next \in {"failed", "exited"}, NEW inSignal, Restore(next, inSignal)
    PROVE  terminal' \notin {"idle", "active"}
BY DEF Restore

\* The last disjunct of Render: the frame is painted, or waits for the flush.
Rendered(key, before, rows, full) ==
    /\ key = <<output'.session, output'.width>>
    /\ before = RowsOf(committed, key)
    /\ rows = output'.pending \cup IF mounted THEN RowsOf(pend, key) ELSE {}
    /\ full.key = key /\ full.rows = rows
    /\ mounted' = TRUE /\ flush' = TRUE
    /\ pend' = IF mounted THEN [key |-> key, rows |-> rows] ELSE pend
    /\ committed' = [key |-> key, rows |-> IF mounted THEN before ELSE output'.stable]
    /\ queued' = IF flush THEN full ELSE queued
    /\ static'.key = key
    /\ Printed' \subseteq (IF static.key = key THEN Printed ELSE {}) \cup IF flush THEN {} ELSE rows
    /\ terminal' = terminal

(* A render forgets no row and takes none that was printed for new.        *)
LEMMA RenderKeepsRows ==
    ASSUME RowsInv, Render
    PROVE  RowsInv'
<1>1. terminal = "active" /\ Frame
  BY DEF Render
<1>2. output' = output \/ output' = ApplyFrame(output, buffer)
  BY <1>1 DEF Frame
<1>3. IsOutput
  BY DEF RowsInv
<1> HIDE DEF IsOutput
<1>4. /\ IsOutput'
      /\ ~crashed' =>
            /\ output'.session = output.session
            /\ output'.pending \subseteq output'.stable
            /\ output'.stable \ output'.pending # {} => output'.width = output.width
            /\ output'.stable \ output'.pending \subseteq output.stable
  <2>1. CASE crashed'
    BY <1>1, <1>3, <2>1 DEF Frame, IsOutput
  <2>2. CASE ~crashed'
    <3>1. output' = ApplyFrame(output, buffer)
      BY <1>1, <2>2 DEF Frame
    <3> QED BY <1>3, <3>1, OutputSteps DEF IsOutput
  <2> QED BY <2>1, <2>2
<1>5. CASE crashed' /\ UNCHANGED <<lifecycle, flush, pend, committed, queued, static>>
  <2>1. output' = output
    BY <1>1, <1>5 DEF Frame
  <2> QED BY <1>4, <1>5, <2>1, RowsKept DEF lifecycle
<1>6. CASE Restore("failed", FALSE)
  BY <1>4, <1>6, RestoreLeaves, RowsLeft
<1>7. ASSUME NEW key, NEW before, NEW rows, NEW full, ~crashed',
             Rendered(key, before, rows, full)
      PROVE  RowsInv'
  <2>1. NothingRendered'
    BY <1>1, <1>7 DEF Rendered, NothingRendered
  <2>2. CASE mounted
    <3>1. /\ output.stable \subseteq RowsOf(committed, OutputKey) \cup RowsOf(pend, OutputKey)
          /\ ~flush => queued = NoFrame
          /\ Printed \subseteq RowsOf(committed, static.key) \cup RowsOf(pend, static.key)
      BY <1>1, <2>2 DEF RowsInv, NothingForgotten, PrintedIsKnown
    <3>2. /\ pend' = [key |-> key, rows |-> rows]
          /\ committed' = [key |-> key, rows |-> RowsOf(committed, key)]
          /\ rows = output'.pending \cup RowsOf(pend, key)
          /\ key = <<output'.session, output'.width>>
      BY <1>7, <2>2 DEF Rendered
    <3>3. RowsOf(committed, key)' = RowsOf(committed, key) /\ RowsOf(pend, key)' = rows
      BY <3>2 DEF RowsOf
    <3>4. output'.stable \subseteq RowsOf(committed, key) \cup rows
      <4> SUFFICES ASSUME NEW n \in output'.stable, n \notin output'.pending
                   PROVE  n \in RowsOf(committed, key) \cup RowsOf(pend, key)
        BY <3>2
      <4>1. output'.width = output.width /\ output'.session = output.session
        BY <1>4, <1>7
      <4>2. key = OutputKey
        BY <3>2, <4>1 DEF OutputKey
      <4>3. n \in output.stable
        BY <1>4, <1>7
      <4> QED BY <3>1, <4>2, <4>3
    <3>5. OutputKey' = key
      BY <3>2 DEF OutputKey
    <3>6. flush' /\ (queued' = NoFrame \/ (queued'.key = pend'.key /\ queued'.rows = pend'.rows))
      <4>1. /\ flush' = TRUE /\ queued' = IF flush THEN full ELSE queued
            /\ full.key = key /\ full.rows = rows
        BY <1>7 DEF Rendered
      <4>2. pend'.key = key /\ pend'.rows = rows
        BY <3>2
      <4> QED BY <3>1, <4>1, <4>2
    <3>7. NothingForgotten'
      <4>1. output'.stable \subseteq RowsOf(committed', OutputKey') \cup RowsOf(pend', OutputKey')
        BY <3>3, <3>4, <3>5 DEF RowsOf
      <4> QED BY <3>6, <4>1 DEF NothingForgotten
    <3>8. static'.key = key /\ (queued' = NoFrame \/ queued'.key = key)
      BY <1>7, <3>1 DEF Rendered
    <3>9. Printed' \subseteq RowsOf(committed, key) \cup rows
      <4>1. Printed' \subseteq (IF static.key = key THEN Printed ELSE {}) \cup rows
        BY <1>7 DEF Rendered
      <4> QED BY <3>1, <3>2, <4>1
    <3>10. PrintedIsKnown'
      <4>1. Printed' \subseteq RowsOf(committed', static'.key) \cup RowsOf(pend', static'.key)
        BY <3>3, <3>8, <3>9 DEF RowsOf
      <4>2. committed'.key = static'.key /\ pend'.key = static'.key
        BY <3>2, <3>8
      <4> QED BY <3>8, <4>1, <4>2 DEF PrintedIsKnown
    <3> QED BY <1>4, <2>1, <3>7, <3>10 DEF RowsInv
  <2>3. CASE ~mounted
    <3>1. output.stable = {} /\ ~flush /\ pend = NoRows /\ queued = NoFrame /\ static = NoStatic
      BY <1>1, <2>3 DEF RowsInv, NothingRendered
    <3>2. /\ pend' = NoRows /\ queued' = NoFrame /\ flush'
          /\ committed' = [key |-> key, rows |-> output'.stable]
          /\ key = <<output'.session, output'.width>> /\ static'.key = key
          /\ rows = output'.pending
      BY <1>7, <2>3, <3>1 DEF Rendered
    <3>3. Printed = {}
      BY <3>1 DEF Printed, NoStatic
    <3>4. Printed' \subseteq output'.stable
      <4>1. Printed' \subseteq (IF static.key = key THEN Printed ELSE {}) \cup rows
        BY <1>7 DEF Rendered
      <4> QED BY <1>4, <1>7, <3>2, <3>3, <4>1
    <3>5. RowsOf(committed', key) = output'.stable
      BY <3>2 DEF RowsOf
    <3>6. NothingForgotten'
      BY <3>2, <3>5 DEF NothingForgotten, OutputKey
    <3>7. PrintedIsKnown'
      BY <3>2, <3>4, <3>5 DEF PrintedIsKnown
    <3> QED BY <1>4, <2>1, <3>6, <3>7 DEF RowsInv
  <2> QED BY <2>2, <2>3
<1>8. ASSUME ~ (crashed' /\ UNCHANGED <<lifecycle, flush, pend, committed, queued, static>>),
             ~ Restore("failed", FALSE)
      PROVE  RowsInv'
  <2> DEFINE key == <<output'.session, output'.width>>
             before == RowsOf(committed, key)
             rows == output'.pending \cup IF mounted THEN RowsOf(pend, key) ELSE {}
             full == Carrier(key, output'.stable, rows)
             shown == IF flush THEN Carrier(key, before, {}) ELSE full
  <2>1. /\ ~crashed' /\ mounted' = TRUE /\ flush' = TRUE
        /\ pend' = IF mounted THEN [key |-> key, rows |-> rows] ELSE pend
        /\ committed' = [key |-> key, rows |-> IF mounted THEN before ELSE output'.stable]
        /\ queued' = IF flush THEN full ELSE queued
        /\ static' = Paint(static, shown)
        /\ terminal' = terminal
    BY <1>8 DEF Render
  <2>2. full.key = key /\ full.rows = rows /\ shown.key = key
        /\ shown.rows = IF flush THEN {} ELSE rows
    BY DEF Carrier
  <2> HIDE DEF key, before, rows, full, shown
  <2>3. /\ static'.key = key
        /\ Printed' \subseteq (IF static.key = key THEN Printed ELSE {}) \cup IF flush THEN {} ELSE rows
    BY <2>1, <2>2, PaintPrints DEF Printed
  <2>4. Rendered(key, before, rows, full)
    BY <2>1, <2>2, <2>3 DEF Rendered, key, before, rows
  <2> QED BY <1>7, <2>1, <2>4
<1> QED BY <1>5, <1>6, <1>8

(* The end of a flush commits what was pending and paints what waited.     *)
LEMMA FlushKeepsRows ==
    ASSUME RowsInv, FlushEnds
    PROVE  RowsInv'
<1>1. /\ flush /\ terminal = "active" /\ terminal' = terminal /\ mounted' = mounted
      /\ output' = output /\ pend' = NoRows /\ queued' = NoFrame
      /\ committed' = IF pend = NoRows THEN committed
                      ELSE [key |-> pend.key, rows |-> RowsOf(committed, pend.key) \cup pend.rows]
      /\ flush' = (queued # NoFrame)
      /\ static' = IF queued = NoFrame THEN static ELSE Paint(static, queued)
  BY DEF FlushEnds, lifecycle, vars, display
<1>2. mounted
  BY <1>1 DEF RowsInv, NothingRendered
<1>3. /\ output.stable \subseteq RowsOf(committed, OutputKey) \cup RowsOf(pend, OutputKey)
      /\ queued # NoFrame => queued.key = pend.key /\ queued.rows = pend.rows
      /\ committed.key = static.key
      /\ pend = NoRows \/ pend.key = static.key
      /\ queued = NoFrame \/ queued.key = static.key
      /\ Printed \subseteq RowsOf(committed, static.key) \cup RowsOf(pend, static.key)
  BY <1>1, <1>2 DEF RowsInv, NothingForgotten, PrintedIsKnown
<1>4. /\ committed'.key = static.key
      /\ \A key : RowsOf(committed, key) \cup RowsOf(pend, key) = RowsOf(committed', key)
      /\ pend.rows \subseteq RowsOf(committed', static.key)
  <2>1. CASE pend = NoRows
    BY <1>1, <1>3, <2>1, NoRowsKept DEF RowsOf, NoRows
  <2>2. CASE pend # NoRows
    <3>1. /\ committed' = [key |-> static.key, rows |-> committed.rows \cup pend.rows]
          /\ pend.key = static.key
      BY <1>1, <1>3, <2>2 DEF RowsOf
    <3> QED BY <1>3, <3>1 DEF RowsOf
  <2> QED BY <2>1, <2>2
<1>5. /\ static'.key = static.key
      /\ Printed' \subseteq Printed \cup pend.rows
  <2>1. CASE queued = NoFrame
    BY <1>1, <2>1 DEF Printed
  <2>2. CASE queued # NoFrame
    BY <1>1, <1>3, <2>2, PaintPrints DEF Printed
  <2> QED BY <2>1, <2>2
<1>6. IsOutput'
  BY <1>1 DEF RowsInv, IsOutput
<1>7. NothingRendered'
  BY <1>1, <1>2 DEF NothingRendered
<1>8. OutputKey' = OutputKey
  BY <1>1 DEF OutputKey
<1>9. NothingForgotten'
  <2>1. output'.stable \subseteq RowsOf(committed', OutputKey')
    BY <1>1, <1>3, <1>4, <1>8
  <2> QED BY <1>1, <2>1 DEF NothingForgotten
<1>10. PrintedIsKnown'
  <2>1. Printed' \subseteq RowsOf(committed', static'.key)
    BY <1>3, <1>4, <1>5
  <2> QED BY <1>1, <1>4, <1>5, <2>1 DEF PrintedIsKnown
<1> QED BY <1>6, <1>7, <1>9, <1>10 DEF RowsInv

(* Each step keeps the rows.                                               *)
LEMMA RowsStep ==
    ASSUME RowsInv, [ScrollbackNext]_allVars
    PROVE  RowsInv'
<1>0. IsOutput
  BY DEF RowsInv
<1>1. ASSUME NEW w \in Widths, NEW h \in Heights, Boot(w, h) PROVE RowsInv'
  <2>1. /\ output' = output /\ terminal = "idle" /\ terminal' = "active"
        /\ mounted' = mounted /\ flush' = flush /\ pend' = pend /\ committed' = committed
        /\ queued' = queued /\ static' = static
    BY <1>1 DEF Boot, Resize
  <2>2. IsOutput'
    BY <1>0, <2>1 DEF IsOutput
  <2> QED BY <2>1, <2>2, RowsKept
<1>2. ASSUME terminal' = terminal, mounted' = mounted, flush' = flush, pend' = pend,
             committed' = committed, queued' = queued, static' = static,
             IsOutput', output' = output \/ output'.stable = {}
      PROVE  RowsInv'
  BY <1>2, RowsKept
<1>3. ASSUME output' = output PROVE IsOutput'
  BY <1>0, <1>3 DEF IsOutput
<1>4. CASE Recorded
  <2>1. output' = output
    BY <1>4 DEF Recorded, Shown, Happens, Select, UserMessage, Chunk, Message, TurnStart,
                TurnEnd, ToolCall, ToolResult, CodeDispatchStart, CodeDispatch, SuppressedResult,
                CommandDone, OlderPage, UnknownEvent, CommandRun, Compaction, Event, display
  <2> QED BY <1>2, <1>3, <1>4, <2>1 DEF Recorded, Shown, lifecycle
<1>5. CASE Refreshed(Project)
  <2>1. output' = ResetOutput(output, session)
    BY <1>5 DEF Refreshed, Shown, Project
  <2>2. IsOutput' /\ (output' = output \/ output'.stable = {})
    BY <1>0, <2>1, OutputSteps DEF IsOutput
  <2> QED BY <1>2, <1>5, <2>2 DEF Refreshed, Shown, lifecycle
<1>6. CASE Refreshed(Resized) \/ Refreshed(Subagent)
  <2>1. output' = output
    BY <1>6 DEF Refreshed, Shown, Resized, Resize, Subagent, display
  <2> QED BY <1>2, <1>3, <1>6, <2>1 DEF Refreshed, Shown, lifecycle
<1>7. CASE Redraw \/ DetachSignals \/ UNCHANGED allVars
  <2>1. output' = output
    BY <1>7 DEF Redraw, DetachSignals, allVars, vars, display
  <2> QED BY <1>2, <1>3, <1>7, <2>1 DEF Redraw, DetachSignals, allVars, lifecycle, rendering
<1>8. CASE Fail \/ ExitAfterFailure \/ \E inSignal \in BOOLEAN : Exit(inSignal)
  <2>1. output' = output
    BY <1>8 DEF Fail, ExitAfterFailure, Exit, vars, display
  <2>2. terminal' \notin {"idle", "active"}
    BY <1>8, RestoreLeaves DEF Fail, ExitAfterFailure, Exit
  <2> QED BY <1>3, <2>1, <2>2, RowsLeft
<1> QED BY <1>1, <1>4, <1>5, <1>6, <1>7, <1>8, RenderKeepsRows, FlushKeepsRows DEF ScrollbackNext

(* No committed row is forgotten on its way to Ink, and none that Ink has  *)
(* printed under the layout is taken for new: each is committed or pending *)
(* whatever renders come during a flush (applyRender, completeFlush).      *)
THEOREM NoRowForgotten == ScrollbackSpec => [](NothingForgotten /\ PrintedIsKnown)
<1>1. ScrollbackInit => RowsInv
  BY DEF ScrollbackInit, Init, EmptyOutput, RowsInv, IsOutput, NothingRendered,
         NothingForgotten, PrintedIsKnown
<1>2. RowsInv => NothingForgotten /\ PrintedIsKnown
  BY DEF RowsInv
<1> QED BY <1>1, <1>2, RowsStep, PTL DEF ScrollbackSpec

-----------------------------------------------------------------------------
(*****************************************************************************)
(* 2. The rows of the buffer.  RowsFor gives each element its lines, split   *)
(* by the width; Ends says where its rows end.  Elements that continue       *)
(* others leave the settled rows as they are.                                *)
(*****************************************************************************)

(* Elements whose lines can be counted.                                    *)
Countable(es) == /\ Len(es) \in Nat /\ DOMAIN es = 1..Len(es)
                 /\ \A i \in 1..Len(es) : es[i].lines \in Nat

\* f counts the rows of the first elements of es in a terminal of width w.
IsEnds(f, es, w) ==
    /\ f \in [0..Len(es) -> Nat] /\ f[0] = 0
    /\ \A i \in 1..Len(es) : f[i] = f[i - 1] + es[i].lines * w

(* The product of two natural numbers is one.                              *)
LEMMA NatTimes == ASSUME NEW a \in Nat, NEW b \in Nat PROVE a * b \in Nat
OBVIOUS

(* A longer element has more rows, in a narrower terminal as well.         *)
LEMMA TimesGrow ==
    ASSUME NEW a \in Nat, NEW b \in Nat, NEW c \in Nat, NEW d \in Nat, a <= c, b <= d
    PROVE  a * b <= c * d
<1>1. a * b <= a * d
  OBVIOUS
<1>2. a * d <= c * d
  OBVIOUS
<1> QED BY <1>1, <1>2, NatTimes

(* The recursion that counts the rows has a solution, ...                  *)
LEMMA EndsExist ==
    ASSUME NEW es, Countable(es), NEW w \in Nat
    PROVE  \E f : IsEnds(f, es, w)
<1> PICK n : n = Len(es)
  OBVIOUS
<1> DEFINE Upto(f, m) == /\ f \in [0..m -> Nat] /\ f[0] = 0
                         /\ \A i \in 1..m : f[i] = f[i - 1] + es[i].lines * w
           T == {m \in 0..n : ~ \E f : Upto(f, m)}
<1>1. n \in Nat /\ \A i \in 1..n : es[i].lines * w \in Nat
  BY NatTimes DEF Countable
<1>2. T \in SUBSET Nat
  BY <1>1
<1>3. ASSUME T # {} PROVE FALSE
  <2>1. PICK x \in T : \A y \in T : x <= y
    BY <1>2, <1>3, LeastNat
  <2>2. CASE x = 0
    <3>1. Upto([i \in 0..0 |-> 0], 0)
      OBVIOUS
    <3> QED BY <2>1, <2>2, <3>1
  <2>3. CASE x # 0
    <3>1. x - 1 \in 0..n /\ x \in 1..n /\ x - 1 \notin T
      <4>1. x \in 0..n /\ x - 1 \in 0..n /\ x \in 1..n
        BY <1>1, <2>1, <2>3
      <4>2. ASSUME x - 1 \in T PROVE FALSE
        <5>1. x <= x - 1
          BY <2>1, <4>2
        <5> QED BY <1>1, <4>1, <5>1
      <4> QED BY <4>1, <4>2
    <3>2. PICK f : Upto(f, x - 1)
      BY <3>1
    <3> DEFINE g == [i \in 0..x |-> IF i = x THEN f[x - 1] + es[x].lines * w ELSE f[i]]
    <3>3. f[x - 1] \in Nat /\ es[x].lines * w \in Nat
      BY <1>1, <3>1, <3>2
    <3>4. \A i \in 0..x : g[i] = (IF i = x THEN f[x - 1] + es[x].lines * w ELSE f[i])
      OBVIOUS
    <3>5. g \in [0..x -> Nat]
      <4>1. \A i \in 0..x : g[i] \in Nat
        BY <3>1, <3>2, <3>3, <3>4
      <4> QED BY <4>1
    <3>6. g[0] = 0
      BY <3>1, <3>2, <3>4
    <3>7. \A i \in 1..x : g[i] = g[i - 1] + es[i].lines * w
      <4> TAKE i \in 1..x
      <4> HIDE DEF g
      <4>1. CASE i = x
        BY <3>1, <3>4, <4>1
      <4>2. CASE i # x
        <5>1. i \in 1..(x - 1) /\ i - 1 \in 0..x /\ i - 1 # x /\ i \in 0..x
          BY <3>1, <4>2
        <5> QED BY <3>2, <3>4, <4>2, <5>1
      <4> QED BY <4>1, <4>2
    <3>8. Upto(g, x)
      BY <3>5, <3>6, <3>7
    <3> HIDE DEF g
    <3> QED BY <2>1, <3>8
  <2> QED BY <2>2, <2>3
<1>4. \E f : Upto(f, n)
  BY <1>1, <1>3
<1> QED BY <1>4 DEF IsEnds

(* ... and Ends is it.                                                     *)
LEMMA EndsAre ==
    ASSUME NEW es, Countable(es), NEW w \in Nat
    PROVE  IsEnds(Ends(es, w), es, w)
<1>1. PICK g : IsEnds(g, es, w)
  BY EndsExist
<1> DEFINE Step(f) == [i \in 0..Len(es) |-> IF i = 0 THEN 0 ELSE f[i - 1] + es[i].lines * w]
           f == CHOOSE f : f = Step(f)
<1>2. Ends(es, w) = f
  BY DEF Ends
<1>3. g = Step(g)
  <2>1. Len(es) \in Nat
    BY DEF Countable
  <2>2. g = [i \in 0..Len(es) |-> g[i]]
    BY <1>1 DEF IsEnds
  <2>3. \A i \in 0..Len(es) : g[i] = IF i = 0 THEN 0 ELSE g[i - 1] + es[i].lines * w
    BY <1>1, <2>1 DEF IsEnds
  <2> QED BY <2>2, <2>3
<1>4. f = Step(f)
  BY <1>3
<1> HIDE DEF f
<1>5. DOMAIN f = 0..Len(es) /\ f[0] = 0
      /\ \A i \in 1..Len(es) : f[i] = f[i - 1] + es[i].lines * w
  BY <1>4 DEF Countable
<1>6. \A i \in 0..Len(es) : i # 0 => i - 1 \in 0..Len(es) /\ i \in 1..Len(es)
  BY DEF Countable
<1>7. \A i \in 0..Len(es) : f[i] = g[i]
  <2> DEFINE n == Len(es)
             T == {i \in 0..n : f[i] # g[i]}
  <2>1. n \in Nat
    BY DEF Countable
  <2>2. SUFFICES ASSUME T # {} PROVE FALSE
    OBVIOUS
  <2>3. T \in SUBSET Nat
    BY <2>1
  <2>4. PICK x \in T : \A y \in T : x <= y
    BY <2>2, <2>3, LeastNat
  <2>5. x \in 1..n
    BY <1>1, <1>5, <2>1, <2>4 DEF IsEnds
  <2>6. f[x - 1] = g[x - 1]
    <3>1. x - 1 \in 0..n /\ ~(x <= x - 1)
      BY <2>1, <2>5
    <3> QED BY <2>4, <3>1
  <2> QED BY <1>1, <1>5, <2>4, <2>5, <2>6 DEF IsEnds
<1>8. f = [i \in 0..Len(es) |-> f[i]]
  BY <1>4
<1>9. f = g
  <2>1. g = [i \in 0..Len(es) |-> g[i]]
    BY <1>1 DEF IsEnds
  <2> QED BY <1>7, <1>8, <2>1
<1> QED BY <1>1, <1>2, <1>9

(* Later elements end later, ...                                           *)
LEMMA EndsMonotone ==
    ASSUME NEW es, Countable(es), NEW w \in Nat,
           NEW i \in 0..Len(es), NEW j \in 0..Len(es), i <= j
    PROVE  Ends(es, w)[i] <= Ends(es, w)[j]
<1> PICK f : f = Ends(es, w)
  OBVIOUS
<1> PICK n : n = Len(es)
  OBVIOUS
<1>1. /\ n \in Nat /\ f \in [0..n -> Nat]
      /\ \A k \in 1..n : es[k].lines * w \in Nat /\ f[k] = f[k - 1] + es[k].lines * w
  BY EndsAre, NatTimes DEF IsEnds, Countable
<1> DEFINE T == {k \in i..n : f[k] < f[i]}
<1>2. SUFFICES ASSUME T # {} PROVE FALSE
  BY <1>1
<1>3. T \in SUBSET Nat
  BY <1>1
<1>4. PICK x \in T : \A y \in T : x <= y
  BY <1>2, <1>3, LeastNat
<1>5. x \in 1..n /\ x - 1 \in i..n
  BY <1>1, <1>4
<1>6. x - 1 \notin T
  BY <1>1, <1>4, <1>5
<1>7. f[x - 1] \in Nat /\ f[i] \in Nat /\ f[x] \in Nat /\ f[x] < f[i]
  <2>1. x - 1 \in 0..n /\ x \in 0..n /\ i \in 0..n
    BY <1>1, <1>5
  <2> QED BY <1>1, <1>4, <2>1
<1>8. ~(f[x - 1] < f[i])
  BY <1>5, <1>6
<1>9. es[x].lines * w \in Nat /\ f[x] = f[x - 1] + es[x].lines * w
  BY <1>1, <1>5
<1> PICK l : l = es[x].lines * w
  OBVIOUS
<1>10. l \in Nat /\ f[x] = f[x - 1] + l
  BY <1>9
<1> QED BY ONLY <1>7, <1>8, <1>10

(* ... equal beginnings end in the same place, ...                         *)
LEMMA EndsAgree ==
    ASSUME NEW a, NEW b, Countable(a), Countable(b), NEW w \in Nat,
           NEW k \in 0..Len(a), k <= Len(b), \A i \in 1..k : a[i].lines = b[i].lines
    PROVE  \A i \in 0..k : Ends(a, w)[i] = Ends(b, w)[i]
<1> PICK f : f = Ends(a, w)
  OBVIOUS
<1> PICK g : g = Ends(b, w)
  OBVIOUS
<1>0. k \in Nat /\ \A i \in 1..k : i \in 1..Len(a) /\ i \in 1..Len(b)
  BY DEF Countable
<1>1. /\ k \in Nat /\ f[0] = 0 /\ g[0] = 0
      /\ \A i \in 1..k : f[i] = f[i - 1] + a[i].lines * w /\ g[i] = g[i - 1] + a[i].lines * w
  <2>1. f[0] = 0 /\ \A i \in 1..Len(a) : f[i] = f[i - 1] + a[i].lines * w
    BY EndsAre DEF IsEnds
  <2>2. g[0] = 0 /\ \A i \in 1..Len(b) : g[i] = g[i - 1] + b[i].lines * w
    BY EndsAre DEF IsEnds
  <2> QED BY <1>0, <2>1, <2>2
<1> DEFINE T == {i \in 0..k : f[i] # g[i]}
<1>2. SUFFICES ASSUME T # {} PROVE FALSE
  OBVIOUS
<1>3. T \in SUBSET Nat
  BY <1>1
<1>4. PICK x \in T : \A y \in T : x <= y
  BY <1>2, <1>3, LeastNat
<1>5. x \in 1..k /\ x - 1 \in 0..k
  BY <1>1, <1>4
<1>6. x - 1 \notin T
  BY <1>4, <1>5
<1>7. f[x - 1] = g[x - 1]
  BY <1>5, <1>6
<1> QED BY <1>1, <1>4, <1>5, <1>7

(* ... and a wider terminal needs no more rows.                            *)
LEMMA EndsGrow ==
    ASSUME NEW es, Countable(es), NEW v \in Nat, NEW w \in Nat, v <= w
    PROVE  \A i \in 0..Len(es) : Ends(es, v)[i] <= Ends(es, w)[i]
<1> PICK f : f = Ends(es, v)
  OBVIOUS
<1> PICK g : g = Ends(es, w)
  OBVIOUS
<1> PICK n : n = Len(es)
  OBVIOUS
<1>1. /\ n \in Nat /\ f \in [0..n -> Nat] /\ g \in [0..n -> Nat] /\ f[0] = 0 /\ g[0] = 0
      /\ \A i \in 1..n : /\ f[i] = f[i - 1] + es[i].lines * v /\ es[i].lines * v \in Nat
                         /\ g[i] = g[i - 1] + es[i].lines * w /\ es[i].lines * w \in Nat
  BY EndsAre, NatTimes DEF IsEnds, Countable
<1>2. \A i \in 1..n : es[i].lines * v <= es[i].lines * w
  <2> TAKE i \in 1..n
  <2>1. es[i].lines \in Nat /\ es[i].lines <= es[i].lines
    BY DEF Countable
  <2> QED BY <2>1, TimesGrow
<1> DEFINE T == {i \in 0..n : ~(f[i] <= g[i])}
<1>3. SUFFICES ASSUME T # {} PROVE FALSE
  OBVIOUS
<1>4. T \in SUBSET Nat
  BY <1>1
<1>5. PICK x \in T : \A y \in T : x <= y
  BY <1>3, <1>4, LeastNat
<1>6. x \in 1..n /\ x - 1 \in 0..n
  BY <1>1, <1>5
<1>7. x - 1 \notin T
  BY <1>5, <1>6
<1>8. f[x - 1] <= g[x - 1] /\ f[x - 1] \in Nat /\ g[x - 1] \in Nat
  BY <1>1, <1>6, <1>7
<1>9. f[x] = f[x - 1] + es[x].lines * v /\ g[x] = g[x - 1] + es[x].lines * w
      /\ es[x].lines * v \in Nat /\ es[x].lines * w \in Nat /\ es[x].lines * v <= es[x].lines * w
  BY <1>1, <1>2, <1>6
<1>10. f[x] <= g[x]
  <2> PICK p : p = es[x].lines * v
    OBVIOUS
  <2> PICK q : q = es[x].lines * w
    OBVIOUS
  <2>1. p \in Nat /\ q \in Nat /\ p <= q /\ f[x] = f[x - 1] + p /\ g[x] = g[x - 1] + q
    BY <1>9
  <2> QED BY ONLY <1>8, <2>1
<1> QED BY <1>5, <1>10

\* The n-th row is one of element i.
Owns(es, w, i, n) == i \in 1..Len(es) /\ Ends(es, w)[i - 1] < n /\ n <= Ends(es, w)[i]

(* Each row belongs to one element, ...                                    *)
LEMMA OneOwner ==
    ASSUME NEW es, Countable(es), NEW w \in Nat, NEW n \in Nat,
           NEW i, NEW j, Owns(es, w, i, n), Owns(es, w, j, n)
    PROVE  i = j
<1> DEFINE f == Ends(es, w)
<1>1. /\ Len(es) \in Nat /\ i \in 1..Len(es) /\ j \in 1..Len(es)
      /\ f[i - 1] < n /\ n <= f[i] /\ f[j - 1] < n /\ n <= f[j]
  BY DEF Owns, Countable
<1>2. f \in [0..Len(es) -> Nat]
  BY EndsAre DEF IsEnds
<1>3. ASSUME i < j PROVE FALSE
  <2>1. i \in 0..Len(es) /\ j - 1 \in 0..Len(es) /\ i <= j - 1
    BY <1>1, <1>3
  <2>2. f[i] <= f[j - 1]
    BY <2>1, EndsMonotone
  <2>3. f[i] \in Nat /\ f[j - 1] \in Nat
    BY <1>2, <2>1
  <2> HIDE DEF f
  <2> QED BY <1>1, <2>2, <2>3
<1>4. ASSUME j < i PROVE FALSE
  <2>1. j \in 0..Len(es) /\ i - 1 \in 0..Len(es) /\ j <= i - 1
    BY <1>1, <1>4
  <2>2. f[j] <= f[i - 1]
    BY <2>1, EndsMonotone
  <2>3. f[j] \in Nat /\ f[i - 1] \in Nat
    BY <1>2, <2>1
  <2> HIDE DEF f
  <2> QED BY <1>1, <2>2, <2>3
<1> QED BY <1>1, <1>3, <1>4

(* ... the first that ends there or later.                                 *)
LEMMA OwnerOfRow ==
    ASSUME NEW es, Countable(es), NEW w \in Nat, NEW n \in 1..Ends(es, w)[Len(es)]
    PROVE  Owns(es, w, Min({i \in DOMAIN es : n <= Ends(es, w)[i]}), n)
<1> DEFINE f == Ends(es, w)
           S == {i \in DOMAIN es : n <= f[i]}
<1>0. PICK k : k = Min(S)
  OBVIOUS
<1>1. Len(es) \in Nat /\ DOMAIN es = 1..Len(es)
  BY DEF Countable
<1>2. f \in [0..Len(es) -> Nat] /\ f[0] = 0
  BY EndsAre DEF IsEnds
<1>3. f[Len(es)] \in Nat
  BY <1>1, <1>2
<1>4. n \in Nat /\ n >= 1 /\ n <= f[Len(es)]
  <2> PICK m : m = Ends(es, w)[Len(es)]
    OBVIOUS
  <2> QED BY <1>3
<1>5. Len(es) # 0
  BY <1>1, <1>2, <1>4
<1>6. S \in SUBSET Nat /\ Len(es) \in S
  BY <1>1, <1>4, <1>5
<1>7. k \in S /\ \A y \in S : k <= y
  BY <1>0, <1>6, MinOfNats
<1>8. k \in 1..Len(es) /\ n <= f[k]
  BY <1>1, <1>7
<1>9. f[k - 1] < n
  <2>1. CASE k = 1
    BY <1>2, <1>4, <2>1
  <2>2. CASE k # 1
    <3>1. k - 1 \in 1..Len(es) /\ k - 1 \in 0..Len(es)
      BY <1>1, <1>8, <2>2
    <3>2. k - 1 \notin S
      BY <1>7, <1>8, <1>1
    <3>3. ~(n <= f[k - 1])
      BY <1>1, <3>1, <3>2
    <3>4. f[k - 1] \in Nat
      BY <1>2, <3>1
    <3> HIDE DEF f
    <3> QED BY <1>4, <3>3, <3>4
  <2> QED BY <2>1, <2>2
<1> QED BY <1>0, <1>8, <1>9 DEF Owns

(* The row with number n - 1.                                              *)
RowOf(es, w, i, n) ==
    [abs |-> n - 1, id |-> es[i].id, line |-> n - Ends(es, w)[i - 1],
     life |-> es[i].life, text |-> es[i].text]

(* The rows of the elements, by their owners.                              *)
LEMMA RowsAre ==
    ASSUME NEW es, Countable(es), NEW w \in Nat
    PROVE  /\ DOMAIN RowsFor(es, w) = 1..Ends(es, w)[Len(es)]
           /\ Ends(es, w)[Len(es)] \in Nat
           /\ \A n \in DOMAIN RowsFor(es, w) :
                \E i : Owns(es, w, i, n) /\ RowsFor(es, w)[n] = RowOf(es, w, i, n)
           /\ \A n \in DOMAIN RowsFor(es, w) : \A i :
                Owns(es, w, i, n) => RowsFor(es, w)[n] = RowOf(es, w, i, n)
<1> DEFINE f == Ends(es, w)
<1>1. Len(es) \in Nat
  BY DEF Countable
<1>2. f[Len(es)] \in Nat
  BY <1>1, EndsAre DEF IsEnds
<1>3. DOMAIN RowsFor(es, w) = 1..f[Len(es)]
  BY DEF RowsFor
<1>4. ASSUME NEW n \in 1..f[Len(es)]
      PROVE  \E i : Owns(es, w, i, n) /\ RowsFor(es, w)[n] = RowOf(es, w, i, n)
  <2>1. PICK i : i = Min({j \in DOMAIN es : n <= Ends(es, w)[j]})
    OBVIOUS
  <2>2. RowsFor(es, w)[n] = RowOf(es, w, i, n)
    BY <2>1 DEF RowsFor, RowOf
  <2>3. Owns(es, w, i, n)
    BY <2>1, OwnerOfRow
  <2> QED BY <2>2, <2>3
<1>5. ASSUME NEW n \in 1..f[Len(es)], NEW i, Owns(es, w, i, n)
      PROVE  RowsFor(es, w)[n] = RowOf(es, w, i, n)
  <2>1. PICK j : Owns(es, w, j, n) /\ RowsFor(es, w)[n] = RowOf(es, w, j, n)
    BY <1>4
  <2>2. n \in Nat
    BY <1>2
  <2>3. i = j
    BY <1>5, <2>1, <2>2, OneOwner
  <2> QED BY <2>1, <2>3
<1> QED BY <1>2, <1>3, <1>4, <1>5

-----------------------------------------------------------------------------
\* What new elements keep of old ones: the settled are where they were, and
\* the same element is in the same place; only the last old one may be live.
Continues(old, new) ==
    /\ \A a \in DOMAIN old : old[a].life = "stable" => a \in DOMAIN new /\ new[a] = old[a]
    /\ \A a \in DOMAIN old, c \in DOMAIN new : old[a].id = new[c].id => a = c
    /\ \A a, b \in DOMAIN old : a < b => old[a].life = "stable"

(* A row of an element that stays is in the same place.                    *)
LEMMA SamePlace ==
    ASSUME NEW old, NEW new, Countable(old), Countable(new), NEW w \in Nat, Continues(old, new),
           NEW n \in DOMAIN RowsFor(old, w), NEW m \in DOMAIN RowsFor(new, w),
           SameRow(RowsFor(old, w)[n], RowsFor(new, w)[m])
    PROVE  n = m
<1>1. PICK a : Owns(old, w, a, n) /\ RowsFor(old, w)[n] = RowOf(old, w, a, n)
  BY RowsAre
<1>2. PICK c : Owns(new, w, c, m) /\ RowsFor(new, w)[m] = RowOf(new, w, c, m)
  BY RowsAre
<1>3. old[a].id = new[c].id /\ n - Ends(old, w)[a - 1] = m - Ends(new, w)[c - 1]
  BY <1>1, <1>2 DEF SameRow, RowOf
<1>4. /\ Len(old) \in Nat /\ Len(new) \in Nat
      /\ a \in 1..Len(old) /\ c \in 1..Len(new) /\ a \in DOMAIN old /\ c \in DOMAIN new
      /\ DOMAIN old = 1..Len(old)
  BY <1>1, <1>2 DEF Owns, Countable
<1>5. a = c
  BY <1>3, <1>4 DEF Continues
<1>6. \A i \in 1..(a - 1) : old[i].lines = new[i].lines
  <2> TAKE i \in 1..(a - 1)
  <2>1. i \in DOMAIN old /\ i < a
    BY <1>4
  <2>2. old[i].life = "stable"
    BY <1>4, <2>1 DEF Continues
  <2> QED BY <2>1, <2>2 DEF Continues
<1>7. Ends(old, w)[a - 1] = Ends(new, w)[a - 1]
  <2>1. a - 1 \in 0..Len(old) /\ a - 1 <= Len(new) /\ a - 1 \in 0..(a - 1)
    BY <1>4, <1>5
  <2> QED BY <1>6, <2>1, EndsAgree
<1>8. Ends(old, w)[a - 1] \in Nat /\ n \in Nat /\ m \in Nat
  <2>1. a - 1 \in 0..Len(old)
    BY <1>4
  <2>2. Ends(old, w)[a - 1] \in Nat
    BY <2>1, EndsAre DEF IsEnds
  <2>3. /\ Ends(old, w)[Len(old)] \in Nat /\ n \in 1..Ends(old, w)[Len(old)]
        /\ Ends(new, w)[Len(new)] \in Nat /\ m \in 1..Ends(new, w)[Len(new)]
    BY RowsAre
  <2> PICK p : p = Ends(old, w)[Len(old)]
    OBVIOUS
  <2> PICK q : q = Ends(new, w)[Len(new)]
    OBVIOUS
  <2> QED BY <2>2, <2>3
<1> PICK e : e = Ends(old, w)[a - 1]
  OBVIOUS
<1> QED BY <1>3, <1>5, <1>7, <1>8

(* A row of a settled element stays as it is.                              *)
LEMMA StableStays ==
    ASSUME NEW old, NEW new, Countable(old), Countable(new), NEW w \in Nat, Continues(old, new),
           NEW n \in DOMAIN RowsFor(old, w), RowsFor(old, w)[n].life = "stable"
    PROVE  n \in DOMAIN RowsFor(new, w) /\ RowsFor(new, w)[n] = RowsFor(old, w)[n]
<1>1. PICK a : Owns(old, w, a, n) /\ RowsFor(old, w)[n] = RowOf(old, w, a, n)
  BY RowsAre
<1>2. /\ Len(old) \in Nat /\ Len(new) \in Nat /\ a \in 1..Len(old)
      /\ DOMAIN old = 1..Len(old) /\ DOMAIN new = 1..Len(new)
  BY <1>1 DEF Owns, Countable
<1>3. old[a].life = "stable"
  BY <1>1 DEF RowOf
<1>4. a \in DOMAIN new /\ new[a] = old[a]
  BY <1>2, <1>3 DEF Continues
<1>5. \A i \in 1..a : old[i].lines = new[i].lines
  <2> TAKE i \in 1..a
  <2>1. i \in DOMAIN old /\ (i = a \/ i < a)
    BY <1>2
  <2>2. old[i].life = "stable"
    BY <1>2, <1>3, <2>1 DEF Continues
  <2> QED BY <2>1, <2>2 DEF Continues
<1>6. Ends(old, w)[a - 1] = Ends(new, w)[a - 1] /\ Ends(old, w)[a] = Ends(new, w)[a]
  <2>1. a \in 0..Len(old) /\ a <= Len(new) /\ a - 1 \in 0..a /\ a \in 0..a
    BY <1>2, <1>4
  <2> QED BY <1>5, <2>1, EndsAgree
<1>7. Owns(new, w, a, n)
  BY <1>1, <1>2, <1>4, <1>6 DEF Owns
<1>8. n \in DOMAIN RowsFor(new, w)
  <2>1. a \in 0..Len(new) /\ Len(new) \in 0..Len(new) /\ a <= Len(new)
    BY <1>2, <1>4
  <2>2. Ends(new, w)[a] <= Ends(new, w)[Len(new)]
    BY <2>1, EndsMonotone
  <2>3. /\ Ends(new, w)[a] \in Nat /\ Ends(new, w)[Len(new)] \in Nat
        /\ Ends(old, w)[Len(old)] \in Nat /\ n \in 1..Ends(old, w)[Len(old)]
    BY <2>1, RowsAre, EndsAre DEF IsEnds
  <2>4. n <= Ends(new, w)[a]
    BY <1>7 DEF Owns
  <2> PICK p : p = Ends(old, w)[Len(old)]
    OBVIOUS
  <2> PICK q : q = Ends(new, w)[Len(new)]
    OBVIOUS
  <2> PICK r : r = Ends(new, w)[a]
    OBVIOUS
  <2>5. n \in 1..q
    BY <2>2, <2>3, <2>4
  <2> QED BY <2>5, RowsAre
<1>9. RowsFor(new, w)[n] = RowOf(new, w, a, n)
  BY <1>7, <1>8, RowsAre
<1> QED BY <1>1, <1>4, <1>6, <1>8, <1>9 DEF RowOf

-----------------------------------------------------------------------------
(* The greater and the less of two numbers, and the only one.              *)
LEMMA OfTwo ==
    ASSUME NEW a \in Int, NEW b \in Int
    PROVE  /\ Max({a, b}) = IF a <= b THEN b ELSE a
           /\ Min({a, b}) = IF a <= b THEN a ELSE b
           /\ Max({a}) = a
<1>1. Max({a, b}) = IF a <= b THEN b ELSE a
  <2> DEFINE m == IF a <= b THEN b ELSE a
  <2>1. m \in {a, b} /\ \A y \in {a, b} : m >= y
    OBVIOUS
  <2>2. \A x \in {a, b} : (\A y \in {a, b} : x >= y) => x = m
    OBVIOUS
  <2> HIDE DEF m
  <2>3. Max({a, b}) = m
    BY <2>1, <2>2 DEF Max
  <2> QED BY <2>3 DEF m
<1>2. Min({a, b}) = IF a <= b THEN a ELSE b
  <2> DEFINE m == IF a <= b THEN a ELSE b
  <2>1. m \in {a, b} /\ \A y \in {a, b} : m <= y
    OBVIOUS
  <2>2. \A x \in {a, b} : (\A y \in {a, b} : x <= y) => x = m
    OBVIOUS
  <2> HIDE DEF m
  <2>3. Min({a, b}) = m
    BY <2>1, <2>2 DEF Min
  <2> QED BY <2>3 DEF m
<1>3. Max({a}) = a
  BY DEF Max
<1> QED BY <1>1, <1>2, <1>3

\* Rows numbered from 0 without a gap.
InPlace(rows) == /\ rows \in Seq(Range(rows))
                 /\ \A i \in DOMAIN rows :
                      /\ rows[i].abs = i - 1
                      /\ rows[i] = [abs |-> rows[i].abs, id |-> rows[i].id, line |-> rows[i].line,
                                    life |-> rows[i].life, text |-> rows[i].text]

(* They are a sequence.                                                    *)
LEMMA PlacedRows ==
    ASSUME NEW rows, InPlace(rows)
    PROVE  /\ Len(rows) \in Nat /\ DOMAIN rows = 1..Len(rows) /\ rows \in Seq(Range(rows))
           /\ \A n \in DOMAIN rows : rows[n].abs = n - 1
<1>1. rows \in Seq(Range(rows)) /\ \A n \in DOMAIN rows : rows[n].abs = n - 1
  BY DEF InPlace
<1> PICK S : S = Range(rows)
  OBVIOUS
<1>2. Len(rows) \in Nat /\ DOMAIN rows = 1..Len(rows)
  BY <1>1
<1> QED BY <1>1, <1>2

(* The rows of elements are.                                               *)
LEMMA RowsInPlace ==
    ASSUME NEW es, Countable(es), NEW w \in Nat
    PROVE  InPlace(RowsFor(es, w)) /\ Len(RowsFor(es, w)) = Ends(es, w)[Len(es)]
<1> PICK r : r = RowsFor(es, w)
  OBVIOUS
<1> PICK k : k = Ends(es, w)[Len(es)]
  OBVIOUS
<1>1. k \in Nat /\ DOMAIN r = 1..k
  BY RowsAre
<1>2. r = [n \in 1..k |-> r[n]]
  BY DEF RowsFor
<1>3. r \in [1..k -> Range(r)]
  BY <1>1, <1>2 DEF Range
<1>4. r \in Seq(Range(r)) /\ Len(r) = k
  BY <1>1, <1>3
<1>5. \A i \in DOMAIN r : \E a : r[i] = RowOf(es, w, a, i)
  BY RowsAre
<1> QED BY <1>4, <1>5 DEF InPlace, RowOf

(* Known rows that are in place leave all rows in place.                   *)
LEMMA PreserveKeeps ==
    ASSUME NEW rows, InPlace(rows), NEW previous,
           \A p \in Range(previous), i \in DOMAIN rows : SameRow(p, rows[i]) => p.abs = i - 1
    PROVE  PreserveAbsoluteRows(rows, previous) = rows
<1> DEFINE known == {i \in DOMAIN rows : \E p \in Range(previous) : SameRow(p, rows[i])}
           was(i) == (CHOOSE p \in Range(previous) : SameRow(p, rows[i])).abs
           right(i) == {j \in known : j > i}
           left(i) == {j \in known : j < i}
           number(i) ==
               IF i \in known THEN was(i)
               ELSE IF right(i) # {} THEN was(Min(right(i))) - (Min(right(i)) - i)
               ELSE IF left(i) # {} THEN was(Max(left(i))) + (i - Max(left(i)))
               ELSE i - 1
<1>1. PreserveAbsoluteRows(rows, previous)
        = [i \in DOMAIN rows |-> [rows[i] EXCEPT !.abs = number(i)]]
  BY DEF PreserveAbsoluteRows
<1>2. Len(rows) \in Nat /\ DOMAIN rows = 1..Len(rows) /\ rows = [i \in DOMAIN rows |-> rows[i]]
  BY DEF InPlace
<1>3. \A i \in known : was(i) = i - 1
  OBVIOUS
<1>4. ASSUME NEW i \in DOMAIN rows PROVE number(i) = i - 1
  <2> HIDE DEF was
  <2>1. known \subseteq 0..Len(rows) /\ i \in Nat /\ known \in SUBSET Nat
    BY <1>2
  <2>2. CASE i \in known
    BY <1>3, <2>2
  <2>3. CASE i \notin known /\ right(i) # {}
    <3>1. PICK j : j = Min(right(i))
      OBVIOUS
    <3>2. right(i) \in SUBSET Nat
      BY <2>1
    <3>3. j \in known /\ j \in Nat
      BY <2>1, <2>3, <3>1, <3>2, MinOfNats
    <3>4. was(j) = j - 1
      BY <1>3, <3>3
    <3> HIDE DEF known, right
    <3>5. number(i) = was(j) - (j - i)
      BY <2>3, <3>1
    <3> QED BY <2>1, <3>3, <3>4, <3>5
  <2>4. CASE i \notin known /\ right(i) = {} /\ left(i) # {}
    <3>1. PICK j : j = Max(left(i))
      OBVIOUS
    <3>2. left(i) \in SUBSET (0..Len(rows))
      BY <2>1
    <3>3. j \in known /\ j \in Nat
      <4> PICK L : L = left(i)
        OBVIOUS
      <4> PICK m : m = Len(rows)
        OBVIOUS
      <4>1. m \in Nat /\ L \in SUBSET (0..m) /\ L # {} /\ j = Max(L)
        BY <1>2, <2>4, <3>1, <3>2
      <4>2. j \in L
        BY ONLY <4>1, MaxOfNats
      <4> QED BY <2>1, <4>2
    <3>4. was(j) = j - 1
      BY <1>3, <3>3
    <3> HIDE DEF known, right, left
    <3>5. number(i) = was(j) + (i - j)
      BY <2>4, <3>1
    <3> QED BY <2>1, <3>3, <3>4, <3>5
  <2>5. CASE i \notin known /\ right(i) = {} /\ left(i) = {}
    <3> HIDE DEF known, right, left
    <3> QED BY <2>5
  <2> QED BY <2>2, <2>3, <2>4, <2>5
<1> HIDE DEF number
<1>5. ASSUME NEW i \in DOMAIN rows PROVE [rows[i] EXCEPT !.abs = number(i)] = rows[i]
  <2> PICK x : x = i - 1
    OBVIOUS
  <2>1. number(i) = x
    BY <1>4
  <2>2. rows[i] = [abs |-> x, id |-> rows[i].id, line |-> rows[i].line,
                   life |-> rows[i].life, text |-> rows[i].text]
    BY DEF InPlace
  <2> QED BY <2>1, <2>2
<1> QED BY <1>1, <1>2, <1>5

(* What is left of a sequence of rows at the retention limit.              *)
LEMMA RetainedAre ==
    ASSUME NEW rows, rows \in Seq(Range(rows)), MaxRetained \in Nat
    PROVE  /\ Cut(rows) \in 0..Len(rows)
           /\ Cut(rows) = IF Len(rows) <= MaxRetained THEN 0 ELSE Len(rows) - MaxRetained
           /\ Retained(rows) \in Seq(Range(rows))
           /\ Len(Retained(rows)) = Len(rows) - Cut(rows)
           /\ \A i \in DOMAIN Retained(rows) :
                /\ i + Cut(rows) \in DOMAIN rows
                /\ Retained(rows)[i] = rows[i + Cut(rows)]
           /\ \A n \in DOMAIN rows : n > Cut(rows) =>
                n - Cut(rows) \in DOMAIN Retained(rows) /\ Retained(rows)[n - Cut(rows)] = rows[n]
<1> PICK c : c = Cut(rows)
  OBVIOUS
<1> PICK n : n = Len(rows)
  OBVIOUS
<1> PICK S : S = Range(rows)
  OBVIOUS
<1>1. rows \in Seq(Range(rows)) /\ n \in Nat /\ DOMAIN rows = 1..n
  OBVIOUS
<1>2. c = (IF n <= MaxRetained THEN 0 ELSE n - MaxRetained)
  <2>1. 0 \in Int /\ n - MaxRetained \in Int /\ c = Max({0, n - MaxRetained})
    BY <1>1 DEF Cut
  <2>2. c = IF 0 <= n - MaxRetained THEN n - MaxRetained ELSE 0
    BY <2>1, OfTwo
  <2> QED BY <1>1, <2>2
<1>3. c \in 0..n
  BY <1>1, <1>2
<1> DEFINE s == Retained(rows)
<1>4. s = [i \in 1..(n - c) |-> rows[i + c]]
  <2>1. s = SubSeq(rows, c + 1, n)
    BY DEF Retained
  <2>2. SubSeq(rows, c + 1, n) = [i \in 1..(n - (c + 1) + 1) |-> rows[i + (c + 1) - 1]]
    BY <1>1, <1>3
  <2>3. n - (c + 1) + 1 = n - c
    BY <1>1, <1>3
  <2>4. \A i \in 1..(n - c) : i + (c + 1) - 1 = i + c
    BY <1>1, <1>3
  <2> QED BY <2>1, <2>2, <2>3, <2>4
<1>5. \A i \in 1..(n - c) : i + c \in 1..n
  BY <1>1, <1>3
<1>6. s \in [1..(n - c) -> Range(rows)] /\ n - c \in Nat
  BY <1>1, <1>3, <1>4, <1>5 DEF Range
<1>7. s \in Seq(Range(rows)) /\ Len(s) = n - c /\ DOMAIN s = 1..(n - c)
  BY <1>6
<1>8. \A i \in DOMAIN s : i + c \in DOMAIN rows /\ s[i] = rows[i + c]
  BY <1>1, <1>4, <1>5, <1>7
<1>9. ASSUME NEW m \in DOMAIN rows, m > c PROVE m - c \in DOMAIN s /\ s[m - c] = rows[m]
  <2>1. m - c \in 1..(n - c) /\ (m - c) + c = m
    BY <1>1, <1>3, <1>9
  <2> QED BY <1>7, <1>8, <2>1
<1> QED BY <1>2, <1>3, <1>7, <1>8, <1>9

\* A buffer has these five fields.
IsBuffer(b) ==
    b = [width |-> b.width, rows |-> b.rows, top |-> b.top, height |-> b.height, follow |-> b.follow]

\* Every element but the last has settled.
OnlyLastLive(es) == \A i, j \in DOMAIN es : i < j => es[i].life = "stable"

\* The buffer holds the last rows of the elements, each with its own number.
Exact(b, es) == b.rows = Retained(RowsFor(es, b.width))

(* A buffer that is exact numbers the rows of new elements from 0 and      *)
(* refuses none.                                                           *)
LEMMA ExactRows ==
    ASSUME NEW b, IsBuffer(b), b.width \in Nat, NEW old, NEW new, Countable(old), Countable(new),
           Exact(b, old), Continues(old, new), OnlyLastLive(new), NEW w \in Nat,
           MaxRetained \in Nat
    PROVE  NumberedRows(b, new, w) = RowsFor(new, w) /\ ~Refuses(b, new, w)
<1> PICK v : v = b.width
  OBVIOUS
<1> PICK r : r = RowsFor(old, v)
  OBVIOUS
<1> PICK rows : rows = RowsFor(new, w)
  OBVIOUS
<1> PICK c : c = Cut(r)
  OBVIOUS
<1>0. InPlace(r) /\ InPlace(rows)
  BY RowsInPlace
<1>1. InPlace(r) /\ InPlace(rows) /\ Len(r) \in Nat /\ DOMAIN r = 1..Len(r)
  BY <1>0, PlacedRows
<1>10. r \in Seq(Range(r))
  BY <1>0, PlacedRows
<1>2. c \in 0..Len(r) /\ b.rows = Retained(r)
      /\ \A i \in DOMAIN b.rows : i + c \in DOMAIN r /\ b.rows[i] = r[i + c]
  BY <1>1, <1>10, RetainedAre DEF Exact
<1>3. \A p \in Range(b.rows) : \E n \in DOMAIN r : p = r[n]
  BY <1>2 DEF Range
<1>4. \A n \in DOMAIN r : r[n].abs = n - 1
  BY <1>1 DEF InPlace
<1>5. NumberedRows(b, new, w) = rows
  <2>1. CASE w # v
    BY <2>1 DEF NumberedRows
  <2>2. CASE w = v
    <3>1. ASSUME NEW p \in Range(b.rows), NEW i \in DOMAIN rows, SameRow(p, rows[i])
          PROVE  p.abs = i - 1
      <4>1. PICK n \in DOMAIN r : p = r[n]
        BY <1>3
      <4>2. n = i
        BY <2>2, <3>1, <4>1, SamePlace
      <4> QED BY <1>4, <4>1, <4>2
    <3>2. PreserveAbsoluteRows(rows, b.rows) = rows
      BY <1>1, <3>1, PreserveKeeps
    <3> QED BY <2>2, <3>2 DEF NumberedRows
  <2> QED BY <2>1, <2>2
<1>6. ~StableAfterLive(new)
  BY DEF StableAfterLive, OnlyLastLive
<1>7. ASSUME w = v PROVE ~RewritesCommitted(b, rows)
  <2> SUFFICES ASSUME NEW p \in Committed(b)
               PROVE  LET same == {i \in DOMAIN rows : rows[i].abs = p.abs /\ rows[i].life = "stable"}
                      IN  same # {} /\ SameSignature(p, rows[Max(same)])
    BY DEF RewritesCommitted
  <2>1. PICK n \in DOMAIN r : p = r[n] /\ r[n].life = "stable"
    BY <1>3 DEF Committed
  <2>2. n \in DOMAIN rows /\ rows[n] = r[n]
    BY <1>7, <2>1, StableStays
  <2> DEFINE same == {i \in DOMAIN rows : rows[i].abs = p.abs /\ rows[i].life = "stable"}
  <2>3. \A i \in same : i = n
    <3>1. DOMAIN rows \subseteq Nat /\ \A i \in DOMAIN rows : rows[i].abs = i - 1
      BY <1>1 DEF InPlace
    <3> TAKE i \in same
    <3>2. i \in Nat /\ n \in Nat /\ i - 1 = n - 1
      BY <2>1, <2>2, <3>1
    <3> QED BY <3>2
  <2>4. same = {n} /\ n \in Int
    BY <1>1, <2>1, <2>2, <2>3
  <2>5. Max(same) = n
    BY <2>4, OfTwo
  <2> HIDE DEF same
  <2>6. same # {} /\ SameSignature(p, rows[Max(same)])
    BY <2>1, <2>2, <2>4, <2>5 DEF SameSignature, SameRow
  <2> QED BY <2>6 DEF same
<1> QED BY <1>5, <1>6, <1>7 DEF Refuses

(* An empty buffer as well.                                                *)
LEMMA FirstRows ==
    ASSUME NEW b, IsBuffer(b), b.rows = <<>>, NEW new, Countable(new), OnlyLastLive(new), NEW w \in Nat
    PROVE  NumberedRows(b, new, w) = RowsFor(new, w) /\ ~Refuses(b, new, w)
<1> PICK rows : rows = RowsFor(new, w)
  OBVIOUS
<1>1. Range(b.rows) = {}
  BY DEF Range
<1>2. PreserveAbsoluteRows(rows, b.rows) = rows
  BY <1>1, RowsInPlace, PreserveKeeps
<1>3. ~StableAfterLive(new)
  BY DEF StableAfterLive, OnlyLastLive
<1>4. ~RewritesCommitted(b, rows)
  BY <1>1 DEF RewritesCommitted, Committed
<1>5. NumberedRows(b, new, w) = rows
  BY <1>2 DEF NumberedRows
<1> QED BY <1>3, <1>4, <1>5 DEF Refuses

(* So after a reflow the buffer is exact.                                  *)
LEMMA ReflowIsExact ==
    ASSUME NEW b, IsBuffer(b), NEW new, NEW w, NumberedRows(b, new, w) = RowsFor(new, w)
    PROVE  LET c == Reflow(b, new, w)
           IN  /\ IsBuffer(c) /\ Exact(c, new) /\ c.width = w /\ c.height = b.height
               /\ c.follow = b.follow
               /\ c.top = IF b.follow THEN MaxTop(c.rows, b.height) ELSE Clamp(b.top, c.rows, b.height)
<1> PICK rows : rows = Retained(NumberedRows(b, new, w))
  OBVIOUS
<1> PICK top : top = IF b.follow THEN MaxTop(rows, b.height) ELSE Clamp(b.top, rows, b.height)
  OBVIOUS
<1>1. Reflow(b, new, w) = [b EXCEPT !.width = w, !.rows = rows, !.top = top]
  BY DEF Reflow
<1>2. Reflow(b, new, w) = [width |-> w, rows |-> rows, top |-> top, height |-> b.height,
                           follow |-> b.follow]
  BY <1>1 DEF IsBuffer
<1> QED BY <1>2 DEF IsBuffer, Exact

(* A viewport changes no row.                                              *)
LEMMA ViewportIsExact ==
    ASSUME NEW b, IsBuffer(b), NEW new, Exact(b, new), NEW top, NEW height, NEW follow
    PROVE  LET c == SetViewport(b, top, height, follow)
           IN  /\ IsBuffer(c) /\ Exact(c, new) /\ c.width = b.width /\ c.height = height
               /\ c.rows = b.rows /\ c.top = Clamp(top, b.rows, height)
               /\ c.follow = (follow /\ c.top = MaxTop(b.rows, height))
<1> PICK t : t = Clamp(top, b.rows, height)
  OBVIOUS
<1> PICK f : f = (follow /\ t = MaxTop(b.rows, height))
  OBVIOUS
<1>1. SetViewport(b, top, height, follow) = [b EXCEPT !.top = t, !.height = height, !.follow = f]
  BY DEF SetViewport
<1>2. SetViewport(b, top, height, follow)
        = [width |-> b.width, rows |-> b.rows, top |-> t, height |-> height, follow |-> f]
  BY <1>1 DEF IsBuffer
<1> QED BY <1>2 DEF IsBuffer, Exact

(* The rows of an exact buffer are numbered one after the other.           *)
LEMMA ExactInOrder ==
    ASSUME NEW b, NEW es, Countable(es), b.width \in Nat, Exact(b, es), MaxRetained \in Nat
    PROVE  /\ \A i \in 2..Len(b.rows) : b.rows[i].abs = b.rows[i - 1].abs + 1
           /\ Len(b.rows) \in Nat /\ DOMAIN b.rows = 1..Len(b.rows)
           /\ \A i \in DOMAIN b.rows : b.rows[i].abs = i + Cut(RowsFor(es, b.width)) - 1
<1> PICK r : r = RowsFor(es, b.width)
  OBVIOUS
<1> PICK c : c = Cut(r)
  OBVIOUS
<1> PICK q : q = b.rows
  OBVIOUS
<1>0. InPlace(r)
  BY RowsInPlace
<1>1. /\ Len(r) \in Nat /\ DOMAIN r = 1..Len(r) /\ r \in Seq(Range(r))
      /\ \A n \in DOMAIN r : r[n].abs = n - 1
  BY <1>0, PlacedRows
<1>2. q = Retained(r)
  BY DEF Exact
<1>3. c \in 0..Len(r) /\ q \in Seq(Range(r)) /\ \A i \in DOMAIN q : i + c \in DOMAIN r /\ q[i] = r[i + c]
  BY <1>1, <1>2, RetainedAre
<1>4. Len(q) \in Nat /\ DOMAIN q = 1..Len(q)
  BY <1>3
<1>5. ASSUME NEW i \in DOMAIN q PROVE q[i].abs = i + c - 1
  <2> PICK m : m = i + c
    OBVIOUS
  <2>1. m \in DOMAIN r /\ q[i] = r[m]
    BY <1>3
  <2>2. r[m].abs = m - 1
    BY <1>1, <2>1
  <2>3. i \in Int /\ c \in Int
    BY <1>1, <1>3, <1>4
  <2>4. m - 1 = i + c - 1
    BY <2>3
  <2> QED BY <2>1, <2>2, <2>4
<1>6. ASSUME NEW i \in 2..Len(q) PROVE q[i].abs = q[i - 1].abs + 1
  <2>1. i \in DOMAIN q /\ i - 1 \in DOMAIN q /\ i \in Nat /\ c \in Nat
    BY <1>1, <1>3, <1>4
  <2>2. q[i].abs = i + c - 1 /\ q[i - 1].abs = (i - 1) + c - 1
    BY <1>5, <2>1
  <2> QED BY <2>1, <2>2
<1> QED BY <1>4, <1>5, <1>6

\* A sequence of rows with numbers.
Numbered(rows) == rows \in Seq(Range(rows)) /\ \A i \in DOMAIN rows : rows[i].abs \in Int

(* Whatever was there before, new rows have numbers.                       *)
LEMMA RowsNumbered ==
    ASSUME NEW b, Numbered(b.rows), NEW es, Countable(es), NEW w \in Nat, MaxRetained \in Nat
    PROVE  Numbered(Retained(NumberedRows(b, es, w)))
<1> PICK rows : rows = RowsFor(es, w)
  OBVIOUS
<1> PICK previous : previous = b.rows
  OBVIOUS
<1>1. Len(rows) \in Nat /\ DOMAIN rows = 1..Len(rows) /\ rows \in Seq(Range(rows))
      /\ \A n \in DOMAIN rows : rows[n].abs = n - 1
  BY RowsInPlace, PlacedRows
<1>2. \A p \in Range(previous) : p.abs \in Int
  BY DEF Numbered, Range
<1> DEFINE known == {i \in DOMAIN rows : \E p \in Range(previous) : SameRow(p, rows[i])}
           was(i) == (CHOOSE p \in Range(previous) : SameRow(p, rows[i])).abs
           right(i) == {j \in known : j > i}
           left(i) == {j \in known : j < i}
           number(i) ==
               IF i \in known THEN was(i)
               ELSE IF right(i) # {} THEN was(Min(right(i))) - (Min(right(i)) - i)
               ELSE IF left(i) # {} THEN was(Max(left(i))) + (i - Max(left(i)))
               ELSE i - 1
<1>3. PreserveAbsoluteRows(rows, previous)
        = [i \in DOMAIN rows |-> [rows[i] EXCEPT !.abs = number(i)]]
  BY DEF PreserveAbsoluteRows
<1>4. \A i \in known : was(i) \in Int
  BY <1>2
<1>5. ASSUME NEW i \in DOMAIN rows PROVE number(i) \in Int
  <2> HIDE DEF was
  <2>1. known \subseteq 0..Len(rows) /\ i \in Nat /\ known \in SUBSET Nat
    BY <1>1
  <2>2. CASE i \in known
    BY <1>4, <2>2
  <2>3. CASE i \notin known /\ right(i) # {}
    <3>1. PICK j : j = Min(right(i))
      OBVIOUS
    <3>2. right(i) \in SUBSET Nat
      BY <2>1
    <3>3. j \in known /\ j \in Nat
      BY <2>1, <2>3, <3>1, <3>2, MinOfNats
    <3>4. was(j) \in Int
      BY <1>4, <3>3
    <3> HIDE DEF known, right
    <3>5. number(i) = was(j) - (j - i)
      BY <2>3, <3>1
    <3> QED BY <2>1, <3>3, <3>4, <3>5
  <2>4. CASE i \notin known /\ right(i) = {} /\ left(i) # {}
    <3>1. PICK j : j = Max(left(i))
      OBVIOUS
    <3>2. left(i) \in SUBSET (0..Len(rows))
      BY <2>1
    <3>3. j \in known /\ j \in Nat
      BY <1>1, <2>1, <2>4, <3>1, <3>2, MaxOfNats
    <3>4. was(j) \in Int
      BY <1>4, <3>3
    <3> HIDE DEF known, right, left
    <3>5. number(i) = was(j) + (i - j)
      BY <2>4, <3>1
    <3> QED BY <2>1, <3>3, <3>4, <3>5
  <2>5. CASE i \notin known /\ right(i) = {} /\ left(i) = {}
    <3> HIDE DEF known, right, left
    <3> QED BY <2>1, <2>5
  <2> QED BY <2>2, <2>3, <2>4, <2>5
<1> HIDE DEF number
<1> PICK q : q = PreserveAbsoluteRows(rows, previous)
  OBVIOUS
<1>6. /\ q = [i \in 1..Len(rows) |-> [rows[i] EXCEPT !.abs = number(i)]]
      /\ \A i \in 1..Len(rows) : "abs" \in DOMAIN rows[i]
  <2>1. \A i \in DOMAIN rows : \E a : rows[i] = RowOf(es, w, a, i)
    BY RowsAre
  <2>2. \A i \in 1..Len(rows) : "abs" \in DOMAIN rows[i]
    BY <1>1, <2>1 DEF RowOf
  <2> QED BY <1>1, <1>3, <2>2
<1>7. \A i \in 1..Len(rows) : q[i].abs \in Int
  <2> TAKE i \in 1..Len(rows)
  <2>1. number(i) \in Int
    BY <1>1, <1>5
  <2> QED BY <1>6, <2>1
<1>8. Numbered(q)
  <2>1. q \in [1..Len(rows) -> Range(q)] /\ DOMAIN q = 1..Len(rows)
    BY <1>6 DEF Range
  <2>2. q \in Seq(Range(q))
    BY <1>1, <2>1
  <2> QED BY <1>7, <2>1, <2>2 DEF Numbered
<1>9. Numbered(rows)
  BY <1>1 DEF Numbered
<1> PICK x : x = NumberedRows(b, es, w)
  OBVIOUS
<1>10. Numbered(x)
  BY <1>8, <1>9 DEF NumberedRows
<1> PICK y : y = Retained(x)
  OBVIOUS
<1>11. /\ y \in Seq(Range(x)) /\ \A i \in DOMAIN y : i + Cut(x) \in DOMAIN x /\ y[i] = x[i + Cut(x)]
  BY <1>10, RetainedAre DEF Numbered
<1>12. Len(y) \in Nat /\ DOMAIN y = 1..Len(y) /\ y = [i \in 1..Len(y) |-> y[i]]
  BY <1>11
<1>13. y \in [1..Len(y) -> Range(y)]
  BY <1>12 DEF Range
<1>14. y \in Seq(Range(y))
  BY <1>12, <1>13
<1> QED BY <1>10, <1>11, <1>14 DEF Numbered

-----------------------------------------------------------------------------
(*****************************************************************************)
(* 3. The nodes.  Ordinarily only the last node is live, and an event        *)
(* settles, rewrites, removes or replaces it or appends another.             *)
(*****************************************************************************)

\* The kinds of nodes, and the nodes there can be.
Kinds == {"entry", "tool", "sub", "command", "compaction", "assistant", "older"}
NodeSet == [id : Sessions \X Kinds \X Nat, life : {"live", "stable"}, lines : Nat, text : Nat]

(* A node that comes takes the place of the one with its id, or the end.   *)
LEMMA UpsertIs ==
    ASSUME NEW S, NEW ns \in Seq(S), NEW node \in S
    PROVE  /\ Upsert(ns, node) \in Seq(S)
           /\ Present(ns, node.id) =>
                /\ Len(Upsert(ns, node)) = Len(ns)
                /\ \A i \in 1..Len(ns) : /\ ns[i].id = node.id => Upsert(ns, node)[i] = node
                                         /\ ns[i].id # node.id => Upsert(ns, node)[i] = ns[i]
           /\ ~Present(ns, node.id) => Upsert(ns, node) = Append(ns, node)
<1> DEFINE u == [i \in DOMAIN ns |-> IF ns[i].id = node.id THEN node ELSE ns[i]]
<1>1. Len(ns) \in Nat /\ DOMAIN ns = 1..Len(ns) /\ \A i \in 1..Len(ns) : ns[i] \in S
  OBVIOUS
<1>2. /\ u \in Seq(S) /\ Len(u) = Len(ns)
      /\ \A i \in 1..Len(ns) : u[i] = IF ns[i].id = node.id THEN node ELSE ns[i]
  <2>1. u \in [1..Len(ns) -> S]
    BY <1>1
  <2> QED BY <1>1, <2>1
<1>3. Append(ns, node) \in Seq(S)
  OBVIOUS
<1>4. Upsert(ns, node) = IF Present(ns, node.id) THEN u ELSE Append(ns, node)
  BY DEF Upsert, Present
<1> HIDE DEF u
<1> QED BY <1>2, <1>3, <1>4

(* Nodes that settle stay where they are and keep what they say.           *)
LEMMA SettleIs ==
    ASSUME NEW ns \in Seq(NodeSet), NEW ids
    PROVE  /\ Settle(ns, ids) \in Seq(NodeSet) /\ Len(Settle(ns, ids)) = Len(ns)
           /\ \A i \in 1..Len(ns) :
                /\ Settle(ns, ids)[i].id = ns[i].id
                /\ ns[i].life = "stable" => Settle(ns, ids)[i] = ns[i]
                /\ ns[i].id \in ids => Settle(ns, ids)[i].life = "stable"
                /\ ns[i].id \notin ids => Settle(ns, ids)[i] = ns[i]
<1> DEFINE q == [i \in DOMAIN ns |-> IF ns[i].id \in ids THEN [ns[i] EXCEPT !.life = "stable"] ELSE ns[i]]
<1>1. Len(ns) \in Nat /\ DOMAIN ns = 1..Len(ns) /\ \A i \in 1..Len(ns) : ns[i] \in NodeSet
  OBVIOUS
<1>2. ASSUME NEW n \in NodeSet
      PROVE  /\ [n EXCEPT !.life = "stable"] \in NodeSet
             /\ [n EXCEPT !.life = "stable"].id = n.id
             /\ [n EXCEPT !.life = "stable"].life = "stable"
             /\ n.life = "stable" => [n EXCEPT !.life = "stable"] = n
  BY DEF NodeSet
<1>3. \A i \in 1..Len(ns) : q[i] = IF ns[i].id \in ids THEN [ns[i] EXCEPT !.life = "stable"] ELSE ns[i]
  BY <1>1
<1>4. q \in [1..Len(ns) -> NodeSet]
  <2>1. \A i \in 1..Len(ns) : q[i] \in NodeSet
    BY <1>1, <1>2, <1>3
  <2> QED BY <1>1, <2>1
<1>5. q \in Seq(NodeSet) /\ Len(q) = Len(ns)
  BY <1>1, <1>4
<1>6. q = Settle(ns, ids)
  BY DEF Settle
<1> HIDE DEF q
<1> QED BY <1>1, <1>2, <1>3, <1>5, <1>6

(* What streams is live, and nothing else.                                 *)
LEMMA StreamingIs ==
    ASSUME NEW ns \in Seq(NodeSet), NEW i \in 1..Len(ns)
    PROVE  /\ ns[i] \in NodeSet /\ ns[i] \in Range(ns)
           /\ ns[i].life = "live" => ns[i] \in Streaming(ns)
           /\ ns[i].life # "live" => ns[i].life = "stable"
<1>1. ns[i] \in NodeSet /\ i \in DOMAIN ns
  OBVIOUS
<1>2. ns[i] \in Range(ns)
  BY <1>1 DEF Range
<1> QED BY <1>1, <1>2 DEF Streaming, NodeSet

-----------------------------------------------------------------------------
\* The nodes of a Session whose texts and steps are counted to c and st.
Ordered(ns, c, st) ==
    /\ OnlyLastLive(ns)
    /\ \A i, j \in DOMAIN ns : ns[i].id = ns[j].id => i = j
    /\ \A i \in DOMAIN ns :
         /\ ns[i].id[2] = "assistant" => ns[i].id[3] <= st
         /\ ns[i].id[2] # "assistant" => ns[i].id[3] < c
         /\ ns[i].id[2] = "compaction" => ns[i].life = "stable"

\* n is a node that here has no node of: of this event, of the step, or the
\* compaction, which is settled from the start.
NewId(here, n, s, c, st) ==
    \/ n.id[2] \notin {"assistant", "compaction"} /\ n.id[3] = c
    \/ n.id = <<s, "assistant", st>> /\ ~Present(here, n.id)
    \/ n.id = <<s, "compaction", 0>> /\ n.life = "stable" /\ ~Present(here, n.id)

\* What an event may do to the nodes: settled ones stay, the last may
\* change, go with its step, or be followed by a new one.
Keeps(here, ns, s, c, st, next) ==
    /\ Len(ns) >= Len(here) - 1 /\ Len(ns) <= Len(here) + 1
    /\ \A i \in DOMAIN here \cap DOMAIN ns :
         ns[i].id = here[i].id /\ (here[i].life = "stable" => ns[i] = here[i])
    /\ Len(ns) < Len(here) => here[Len(here)].life = "live" /\ next = st + 1
    /\ Len(ns) > Len(here) => NewId(here, ns[Len(ns)], s, c, st)
    /\ OnlyLastLive(ns)
    /\ next \in {st, st + 1}

\* Or the last one, a live tool, goes and a new one is in its place.
Dispatches(here, ns, s, c, st, next) ==
    /\ Len(here) > 0 /\ Len(ns) = Len(here)
    /\ here[Len(here)].life = "live" /\ here[Len(here)].id[2] # "assistant"
    /\ \A i \in DOMAIN here : i # Len(here) => ns[i] = here[i]
    /\ NewId(here, ns[Len(here)], s, c, st)
    /\ next = st

Goes(here, ns, s, c, st, next) ==
    Keeps(here, ns, s, c, st, next) \/ Dispatches(here, ns, s, c, st, next)

\* The nodes that were projected, and the nodes since.
Follows(old, new, s, c, st) ==
    /\ Ordered(old, c, st)
    /\ Continues(old, new)
    /\ \A a \in DOMAIN old : old[a].id = <<s, "assistant", st>> =>
         a \in DOMAIN new /\ new[a].id = old[a].id

(* The id of a new node is that of no old one.                             *)
LEMMA NewIdIsNew ==
    ASSUME NEW s \in Sessions, NEW c \in Nat, NEW st \in Nat,
           NEW old \in Seq(NodeSet), NEW here \in Seq(NodeSet), NEW n \in NodeSet,
           Follows(old, here, s, c, st), NewId(here, n, s, c, st)
    PROVE  \A a \in DOMAIN old : old[a].id # n.id
<1> SUFFICES ASSUME NEW a \in DOMAIN old, old[a].id = n.id PROVE FALSE
  OBVIOUS
<1>1. /\ old[a].id[2] = "assistant" => old[a].id[3] <= st
      /\ old[a].id[2] # "assistant" => old[a].id[3] < c
      /\ old[a].id[2] = "compaction" => old[a].life = "stable"
  BY DEF Follows, Ordered
<1>2. CASE n.id[2] \notin {"assistant", "compaction"} /\ n.id[3] = c
  BY <1>1, <1>2
<1>3. CASE n.id = <<s, "assistant", st>> /\ ~Present(here, n.id)
  <2>1. a \in DOMAIN here /\ here[a].id = n.id
    BY <1>3 DEF Follows
  <2> QED BY <1>3, <2>1 DEF Present, Range
<1>4. CASE n.id = <<s, "compaction", 0>> /\ n.life = "stable" /\ ~Present(here, n.id)
  <2>1. old[a].life = "stable"
    BY <1>1, <1>4
  <2>2. a \in DOMAIN here /\ here[a] = old[a]
    BY <2>1 DEF Follows, Continues
  <2> QED BY <1>4, <2>2 DEF Present, Range
<1> QED BY <1>2, <1>3, <1>4 DEF NewId

(* The nodes follow themselves.                                            *)
LEMMA FollowsItself ==
    ASSUME NEW s, NEW c, NEW st, NEW ns, Ordered(ns, c, st)
    PROVE  Follows(ns, ns, s, c, st)
BY DEF Follows, Ordered, Continues, OnlyLastLive

(* The last of a sequence that grew by one, and the others.                *)
LEMMA OneMore ==
    ASSUME NEW S, NEW here \in Seq(S), NEW ns \in Seq(S),
           Len(ns) >= Len(here) - 1, Len(ns) <= Len(here) + 1
    PROVE  /\ Len(here) \in Nat /\ Len(ns) \in Nat /\ DOMAIN here = 1..Len(here) /\ DOMAIN ns = 1..Len(ns)
           /\ \A i \in DOMAIN here : here[i] \in S
           /\ \A i \in DOMAIN ns : ns[i] \in S
           /\ \A i \in DOMAIN ns : i \notin DOMAIN here =>
                i = Len(ns) /\ Len(ns) = Len(here) + 1 /\ Len(ns) > Len(here)
           /\ \A i \in DOMAIN here : i \notin DOMAIN ns =>
                i = Len(here) /\ Len(ns) = Len(here) - 1 /\ Len(ns) < Len(here)
OBVIOUS

(* What is counted on stays in order.                                      *)
LEMMA OrderedLater ==
    ASSUME NEW c \in Nat, NEW st, NEW ns \in Seq(NodeSet), Ordered(ns, c, st)
    PROVE  Ordered(ns, c + 1, st)
<1>1. ASSUME NEW i \in DOMAIN ns PROVE ns[i].id[3] \in Nat
  <2>1. ns[i] \in NodeSet
    OBVIOUS
  <2>2. ns[i].id \in Sessions \X Kinds \X Nat
    BY <2>1 DEF NodeSet
  <2> QED BY <2>2
<1>2. ASSUME NEW i \in DOMAIN ns, ns[i].id[3] < c PROVE ns[i].id[3] < c + 1
  BY <1>1, <1>2
<1> QED BY <1>2 DEF Ordered

(* An event leaves the nodes ordered ...                                   *)
LEMMA KeepsOrder ==
    ASSUME NEW s \in Sessions, NEW c \in Nat, NEW st \in Nat, NEW next,
           NEW here \in Seq(NodeSet), NEW ns \in Seq(NodeSet),
           Ordered(here, c, st), Keeps(here, ns, s, c, st, next)
    PROVE  Ordered(ns, c + 1, next)
<1>1. /\ Len(here) \in Nat /\ Len(ns) \in Nat /\ DOMAIN here = 1..Len(here) /\ DOMAIN ns = 1..Len(ns)
      /\ \A i \in DOMAIN ns : ns[i] \in NodeSet
      /\ \A i \in DOMAIN ns : i \notin DOMAIN here =>
                i = Len(ns) /\ Len(ns) = Len(here) + 1 /\ Len(ns) > Len(here)
  BY OneMore DEF Keeps
<1>2. \A i \in DOMAIN ns : i \in DOMAIN here =>
         ns[i].id = here[i].id /\ (here[i].life = "stable" => ns[i] = here[i])
  BY DEF Keeps
<1>3. ASSUME NEW i \in DOMAIN ns, i \notin DOMAIN here
      PROVE  NewId(here, ns[i], s, c, st) /\ ns[i] \in NodeSet
  BY <1>1, <1>3 DEF Keeps
<1>4. Follows(here, here, s, c, st)
  BY FollowsItself
<1>5. ASSUME NEW i \in DOMAIN ns, i \notin DOMAIN here, NEW j \in DOMAIN here
      PROVE  ns[i].id # here[j].id
  BY <1>3, <1>4, <1>5, NewIdIsNew
<1>6. \A i, j \in DOMAIN ns : ns[i].id = ns[j].id => i = j
  <2> SUFFICES ASSUME NEW i \in DOMAIN ns, NEW j \in DOMAIN ns, ns[i].id = ns[j].id
               PROVE  i = j
    OBVIOUS
  <2>1. CASE i \in DOMAIN here /\ j \in DOMAIN here
    BY <1>2, <2>1 DEF Ordered
  <2>2. CASE i \notin DOMAIN here /\ j \notin DOMAIN here
    BY <1>1, <2>2
  <2>3. CASE i \notin DOMAIN here /\ j \in DOMAIN here
    BY <1>2, <1>5, <2>3
  <2>4. CASE i \in DOMAIN here /\ j \notin DOMAIN here
    BY <1>2, <1>5, <2>4
  <2> QED BY <2>1, <2>2, <2>3, <2>4
<1>7. ASSUME NEW i \in DOMAIN ns
      PROVE  /\ ns[i].id[2] = "assistant" => ns[i].id[3] <= next
             /\ ns[i].id[2] # "assistant" => ns[i].id[3] < c + 1
             /\ ns[i].id[2] = "compaction" => ns[i].life = "stable"
  <2>1. ns[i].id[3] \in Nat /\ next \in Nat /\ st <= next
    <3>1. ns[i] \in NodeSet
      BY <1>1
    <3>2. ns[i].id \in Sessions \X Kinds \X Nat
      BY <3>1 DEF NodeSet
    <3> QED BY <3>2 DEF Keeps
  <2>2. CASE i \in DOMAIN here
    <3>1. /\ here[i].id[2] = "assistant" => here[i].id[3] <= st
          /\ here[i].id[2] # "assistant" => here[i].id[3] < c
          /\ here[i].id[2] = "compaction" => here[i].life = "stable"
      BY <2>2 DEF Ordered
    <3>2. ns[i].id = here[i].id /\ (here[i].life = "stable" => ns[i] = here[i])
      BY <1>2, <2>2
    <3> QED BY <2>1, <3>1, <3>2
  <2>3. CASE i \notin DOMAIN here
    BY <1>3, <2>1, <2>3 DEF NewId
  <2> QED BY <2>2, <2>3
<1> QED BY <1>6, <1>7 DEF Ordered, Keeps

(* ... and behind those that were projected.                               *)
LEMMA KeepsFollowing ==
    ASSUME NEW s \in Sessions, NEW c \in Nat, NEW st \in Nat, NEW next,
           NEW old \in Seq(NodeSet), NEW here \in Seq(NodeSet), NEW ns \in Seq(NodeSet),
           Follows(old, here, s, c, st), Keeps(here, ns, s, c, st, next)
    PROVE  Follows(old, ns, s, c + 1, next)
<1>1. /\ Len(here) \in Nat /\ Len(ns) \in Nat /\ DOMAIN here = 1..Len(here) /\ DOMAIN ns = 1..Len(ns)
      /\ \A i \in DOMAIN ns : ns[i] \in NodeSet
      /\ \A i \in DOMAIN ns : i \notin DOMAIN here =>
                i = Len(ns) /\ Len(ns) = Len(here) + 1 /\ Len(ns) > Len(here)
      /\ \A i \in DOMAIN here : i \notin DOMAIN ns =>
                i = Len(here) /\ Len(ns) = Len(here) - 1 /\ Len(ns) < Len(here)
  BY OneMore DEF Keeps
<1>2. \A i \in DOMAIN ns : i \in DOMAIN here =>
         ns[i].id = here[i].id /\ (here[i].life = "stable" => ns[i] = here[i])
  BY DEF Keeps
<1>3. \A i \in DOMAIN old : old[i].id \in Sessions \X Kinds \X Nat
  <2>1. \A i \in DOMAIN old : old[i] \in NodeSet
    OBVIOUS
  <2> QED BY <2>1 DEF NodeSet
<1>4. next \in Nat /\ (next = st \/ next = st + 1)
  BY DEF Keeps
<1>5. Ordered(old, c + 1, next)
  <2>1. ASSUME NEW i \in DOMAIN old
        PROVE  /\ old[i].id[2] = "assistant" => old[i].id[3] <= next
               /\ old[i].id[2] # "assistant" => old[i].id[3] < c + 1
    <3>1. /\ old[i].id[2] = "assistant" => old[i].id[3] <= st
          /\ old[i].id[2] # "assistant" => old[i].id[3] < c
      BY DEF Follows, Ordered
    <3>2. old[i].id[3] \in Nat
      BY <1>3
    <3> QED BY <1>4, <3>1, <3>2
  <2> QED BY <2>1 DEF Follows, Ordered
<1>6. ASSUME NEW a \in DOMAIN old, old[a].life = "stable"
      PROVE  a \in DOMAIN ns /\ ns[a] = old[a]
  <2>1. a \in DOMAIN here /\ here[a] = old[a]
    BY <1>6 DEF Follows, Continues
  <2>2. a \in DOMAIN ns
    <3> SUFFICES ASSUME a \notin DOMAIN ns PROVE FALSE
      OBVIOUS
    <3>1. a = Len(here) /\ Len(ns) < Len(here)
      BY <1>1, <2>1
    <3>2. here[a].life = "live"
      BY <3>1 DEF Keeps
    <3> QED BY <1>6, <2>1, <3>2
  <2> QED BY <1>2, <1>6, <2>1, <2>2
<1>7. ASSUME NEW a \in DOMAIN old, NEW i \in DOMAIN ns, old[a].id = ns[i].id
      PROVE  a = i
  <2>1. CASE i \in DOMAIN here
    BY <1>2, <1>7, <2>1 DEF Follows, Continues
  <2>2. CASE i \notin DOMAIN here
    <3>1. NewId(here, ns[i], s, c, st) /\ ns[i] \in NodeSet
      BY <1>1, <2>2 DEF Keeps
    <3> QED BY <1>7, <3>1, NewIdIsNew
  <2> QED BY <2>1, <2>2
<1>8. ASSUME NEW a \in DOMAIN old, old[a].id = <<s, "assistant", next>>
      PROVE  a \in DOMAIN ns /\ ns[a].id = old[a].id
  <2>1. old[a].id[2] = "assistant" /\ old[a].id[3] = next
    BY <1>8
  <2>2. old[a].id[3] <= st
    BY <2>1 DEF Follows, Ordered
  <2>3. next = st
    BY <1>4, <2>1, <2>2
  <2>4. a \in DOMAIN here /\ here[a].id = old[a].id
    BY <1>8, <2>3 DEF Follows
  <2>5. ~(Len(ns) < Len(here))
    BY <2>3 DEF Keeps
  <2>6. a \in DOMAIN ns
    BY <1>1, <2>4, <2>5
  <2> QED BY <1>2, <2>4, <2>6
<1> QED BY <1>5, <1>6, <1>7, <1>8 DEF Follows, Continues

(* So does a dispatch.                                                     *)
LEMMA DispatchOrder ==
    ASSUME NEW s \in Sessions, NEW c \in Nat, NEW st \in Nat, NEW next,
           NEW here \in Seq(NodeSet), NEW ns \in Seq(NodeSet),
           Ordered(here, c, st), Dispatches(here, ns, s, c, st, next)
    PROVE  Ordered(ns, c + 1, next)
<1> PICK l : l = Len(here)
  OBVIOUS
<1>1. /\ l \in Nat /\ l > 0 /\ DOMAIN here = 1..l /\ DOMAIN ns = 1..l /\ next = st
      /\ \A i \in 1..l : ns[i] \in NodeSet
      /\ \A i \in 1..l : i # l => ns[i] = here[i]
      /\ NewId(here, ns[l], s, c, st)
  BY DEF Dispatches
<1>2. Follows(here, here, s, c, st)
  BY FollowsItself
<1>3. \A j \in 1..l : here[j].id # ns[l].id
  BY <1>1, <1>2, NewIdIsNew
<1>4. \A i, j \in 1..l : ns[i].id = ns[j].id => i = j
  BY <1>1, <1>3 DEF Ordered
<1>5. OnlyLastLive(ns)
  <2> SUFFICES ASSUME NEW i \in 1..l, NEW j \in 1..l, i < j PROVE ns[i].life = "stable"
    BY <1>1 DEF OnlyLastLive
  <2>1. here[i].life = "stable" /\ i # l
    BY <1>1 DEF Ordered, OnlyLastLive
  <2> QED BY <1>1, <2>1
<1>6. ASSUME NEW i \in 1..l
      PROVE  /\ ns[i].id[2] = "assistant" => ns[i].id[3] <= next
             /\ ns[i].id[2] # "assistant" => ns[i].id[3] < c + 1
             /\ ns[i].id[2] = "compaction" => ns[i].life = "stable"
  <2>1. ns[i].id[3] \in Nat
    <3>1. ns[i] \in NodeSet
      BY <1>1
    <3>2. ns[i].id \in Sessions \X Kinds \X Nat
      BY <3>1 DEF NodeSet
    <3> QED BY <3>2
  <2>2. CASE i # l
    <3>1. /\ here[i].id[2] = "assistant" => here[i].id[3] <= st
          /\ here[i].id[2] # "assistant" => here[i].id[3] < c
          /\ here[i].id[2] = "compaction" => here[i].life = "stable"
      BY <1>1 DEF Ordered
    <3> QED BY <1>1, <2>1, <2>2, <3>1
  <2>3. CASE i = l
    BY <1>1, <2>1, <2>3 DEF NewId
  <2> QED BY <2>2, <2>3
<1> QED BY <1>1, <1>4, <1>5, <1>6 DEF Ordered

(* And what was projected is still behind.                                 *)
LEMMA DispatchFollowing ==
    ASSUME NEW s \in Sessions, NEW c \in Nat, NEW st \in Nat, NEW next,
           NEW old \in Seq(NodeSet), NEW here \in Seq(NodeSet), NEW ns \in Seq(NodeSet),
           Follows(old, here, s, c, st), Dispatches(here, ns, s, c, st, next)
    PROVE  Follows(old, ns, s, c + 1, next)
<1> PICK l : l = Len(here)
  OBVIOUS
<1>1. /\ l \in Nat /\ l > 0 /\ DOMAIN here = 1..l /\ DOMAIN ns = 1..l /\ next = st
      /\ \A i \in 1..l : ns[i] \in NodeSet
      /\ \A i \in 1..l : i # l => ns[i] = here[i]
      /\ NewId(here, ns[l], s, c, st) /\ here[l].life = "live" /\ here[l].id[2] # "assistant"
  BY DEF Dispatches
<1>2. Ordered(old, c + 1, next)
  BY <1>1, OrderedLater DEF Follows
<1>3. \A a \in DOMAIN old : old[a].id # ns[l].id
  <2>1. l \in 1..l
    BY <1>1
  <2> QED BY <1>1, <2>1, NewIdIsNew
<1>4. ASSUME NEW a \in DOMAIN old, old[a].life = "stable"
      PROVE  a \in DOMAIN ns /\ ns[a] = old[a]
  <2>1. a \in DOMAIN here /\ here[a] = old[a]
    BY <1>4 DEF Follows, Continues
  <2> QED BY <1>1, <1>4, <2>1
<1>5. ASSUME NEW a \in DOMAIN old, NEW i \in DOMAIN ns, old[a].id = ns[i].id
      PROVE  a = i
  <2>1. i # l
    BY <1>3, <1>5
  <2>2. i \in DOMAIN here /\ ns[i] = here[i]
    BY <1>1, <2>1
  <2> QED BY <1>5, <2>2 DEF Follows, Continues
<1>6. ASSUME NEW a \in DOMAIN old, old[a].id = <<s, "assistant", next>>
      PROVE  a \in DOMAIN ns /\ ns[a].id = old[a].id
  <2>1. a \in DOMAIN here /\ here[a].id = old[a].id
    BY <1>1, <1>6 DEF Follows
  <2>2. a # l
    BY <1>1, <1>6, <2>1
  <2> QED BY <1>1, <2>1, <2>2
<1>7. \A a, b \in DOMAIN old : a < b => old[a].life = "stable"
  BY DEF Follows, Continues
<1> QED BY <1>2, <1>4, <1>5, <1>6, <1>7 DEF Follows, Continues

(* Whatever an event does to the nodes.                                    *)
LEMMA GoesOrder ==
    ASSUME NEW s \in Sessions, NEW c \in Nat, NEW st \in Nat, NEW next,
           NEW here \in Seq(NodeSet), NEW ns \in Seq(NodeSet),
           Ordered(here, c, st), Goes(here, ns, s, c, st, next)
    PROVE  Ordered(ns, c + 1, next)
BY KeepsOrder, DispatchOrder DEF Goes

LEMMA GoesFollowing ==
    ASSUME NEW s \in Sessions, NEW c \in Nat, NEW st \in Nat, NEW next,
           NEW old \in Seq(NodeSet), NEW here \in Seq(NodeSet), NEW ns \in Seq(NodeSet),
           Follows(old, here, s, c, st), Goes(here, ns, s, c, st, next)
    PROVE  Follows(old, ns, s, c + 1, next)
BY KeepsFollowing, DispatchFollowing DEF Goes

\* Nodes of which some have settled since.
Settled(here, q) ==
    /\ q \in Seq(NodeSet) /\ Len(q) = Len(here)
    /\ \A i \in 1..Len(here) :
         q[i].id = here[i].id /\ (here[i].life = "stable" => q[i] = here[i])

\* Nothing streams.
AllStable(q) == \A i \in 1..Len(q) : q[i].life = "stable"

(* The four ways to keep nodes: they settle, ...                           *)
LEMMA KeepsSettled ==
    ASSUME NEW here \in Seq(NodeSet), NEW q, Settled(here, q), OnlyLastLive(q),
           NEW s, NEW c, NEW st \in Nat, NEW next \in {st, st + 1}
    PROVE  Keeps(here, q, s, c, st, next)
<1>1. Len(here) \in Nat /\ DOMAIN here = 1..Len(here) /\ Len(q) = Len(here)
  BY DEF Settled
<1>2. DOMAIN here \cap DOMAIN q \subseteq 1..Len(here)
  BY <1>1
<1> QED BY <1>1, <1>2 DEF Settled, Keeps

(* ... one is added to settled ones, ...                                   *)
LEMMA KeepsAppended ==
    ASSUME NEW here \in Seq(NodeSet), NEW q, Settled(here, q), AllStable(q), NEW n \in NodeSet,
           NEW s, NEW c, NEW st \in Nat, NEW next \in {st, st + 1}, NewId(here, n, s, c, st)
    PROVE  Append(q, n) \in Seq(NodeSet) /\ Keeps(here, Append(q, n), s, c, st, next)
<1> PICK ns : ns = Append(q, n)
  OBVIOUS
<1> PICK l : l = Len(here)
  OBVIOUS
<1>1. /\ l \in Nat /\ q \in Seq(NodeSet) /\ Len(q) = l /\ DOMAIN here = 1..l /\ DOMAIN q = 1..l
      /\ \A i \in 1..l : q[i].id = here[i].id /\ (here[i].life = "stable" => q[i] = here[i])
      /\ \A i \in 1..l : q[i].life = "stable"
  BY DEF Settled, AllStable
<1>2. ns \in Seq(NodeSet) /\ Len(ns) = l + 1 /\ DOMAIN ns = 1..(l + 1)
      /\ ns[l + 1] = n /\ \A i \in 1..l : ns[i] = q[i]
  BY <1>1
<1>3. OnlyLastLive(ns)
  <2> SUFFICES ASSUME NEW i \in 1..(l + 1), NEW j \in 1..(l + 1), i < j PROVE ns[i].life = "stable"
    BY <1>2 DEF OnlyLastLive
  <2>1. i \in 1..l
    BY <1>1
  <2> QED BY <1>1, <1>2, <2>1
<1>4. \A i \in DOMAIN here \cap DOMAIN ns :
         ns[i].id = here[i].id /\ (here[i].life = "stable" => ns[i] = here[i])
  BY <1>1, <1>2
<1>5. Len(ns) >= l - 1 /\ Len(ns) <= l + 1 /\ ~(Len(ns) < l)
  BY <1>1, <1>2
<1>6. NewId(here, ns[Len(ns)], s, c, st)
  BY <1>2
<1> QED BY <1>2, <1>3, <1>4, <1>5, <1>6 DEF Keeps

(* A node that is there is replaced.                                       *)
LEMMA UpsertPresent ==
    ASSUME NEW here \in Seq(NodeSet), NEW n \in NodeSet, Present(here, n.id)
    PROVE  /\ Upsert(here, n) \in Seq(NodeSet) /\ Len(Upsert(here, n)) = Len(here)
           /\ \A i \in 1..Len(here) : /\ here[i].id = n.id => Upsert(here, n)[i] = n
                                      /\ here[i].id # n.id => Upsert(here, n)[i] = here[i]
BY UpsertIs

(* ... the live one is replaced, ...                                       *)
LEMMA KeepsReplaced ==
    ASSUME NEW here \in Seq(NodeSet), NEW c, NEW st \in Nat, Ordered(here, c, st), NEW n \in NodeSet,
           \E m \in Streaming(here) : m.id = n.id, NEW s, NEW next \in {st, st + 1}
    PROVE  /\ Present(here, n.id) /\ Upsert(here, n) \in Seq(NodeSet)
           /\ Keeps(here, Upsert(here, n), s, c, st, next)
<1> PICK q : q = Upsert(here, n)
  OBVIOUS
<1> PICK l : l = Len(here)
  OBVIOUS
<1>1. l \in Nat /\ DOMAIN here = 1..l
  OBVIOUS
<1>2. Present(here, n.id)
  BY DEF Present, Streaming
<1>3. /\ q \in Seq(NodeSet) /\ Len(q) = l
      /\ \A i \in 1..l : (here[i].id = n.id => q[i] = n) /\ (here[i].id # n.id => q[i] = here[i])
  BY <1>2, UpsertPresent
<1>4. PICK k \in 1..l : here[k].id = n.id /\ here[k].life = "live"
  BY <1>1 DEF Streaming, Range
<1>5. \A i \in 1..l : here[i].id = n.id => i = k
  BY <1>1, <1>4 DEF Ordered
<1>6. \A i \in 1..l : here[i].life = "stable" => q[i] = here[i]
  BY <1>3, <1>4, <1>5
<1>7. Settled(here, q)
  BY <1>3, <1>6 DEF Settled
<1>8. OnlyLastLive(q)
  <2>1. DOMAIN q = 1..l
    BY <1>3
  <2> SUFFICES ASSUME NEW i \in 1..l, NEW j \in 1..l, i < j PROVE q[i].life = "stable"
    BY <2>1 DEF OnlyLastLive
  <2>2. here[i].life = "stable"
    BY <1>1 DEF Ordered, OnlyLastLive
  <2> QED BY <1>6, <2>2
<1> QED BY <1>2, <1>3, <1>7, <1>8, KeepsSettled

(* ... or the live one goes with its step.                                 *)
LEMMA KeepsRemoved ==
    ASSUME NEW here \in Seq(NodeSet), NEW c, NEW st \in Nat, Ordered(here, c, st),
           NEW m \in Streaming(here), NEW s
    PROVE  Keeps(here, Without(here, m.id), s, c, st, st + 1)
<1> PICK l : l = Len(here)
  OBVIOUS
<1>1. l \in Nat /\ DOMAIN here = 1..l
  OBVIOUS
<1>2. PICK k \in 1..l : here[k] = m /\ here[k].life = "live"
  BY <1>1 DEF Streaming, Range
<1>3. \A i \in 1..l : here[i].id = m.id => i = k
  BY <1>1, <1>2 DEF Ordered
<1>4. (CHOOSE i \in DOMAIN here : here[i].id = m.id) = k
  BY <1>1, <1>2, <1>3
<1>5. Present(here, m.id)
  BY DEF Present, Streaming
<1>6. Without(here, m.id) = RemoveAt(here, k)
  BY <1>4, <1>5 DEF Without
<1>7. ~(k < l)
  BY <1>1, <1>2 DEF Ordered, OnlyLastLive
<1>8. k = l
  BY <1>1, <1>7
<1> PICK ns : ns = RemoveAt(here, k)
  OBVIOUS
<1>9. /\ ns \in Seq(NodeSet) /\ Len(ns) = l - 1 /\ DOMAIN ns = 1..(l - 1)
      /\ \A j \in 1..(l - 1) : ns[j] = IF j < k THEN here[j] ELSE here[j + 1]
  BY <1>1, RemovedAt
<1>10. \A j \in 1..(l - 1) : ns[j] = here[j] /\ j \in 1..l
  BY <1>1, <1>8, <1>9
<1>11. OnlyLastLive(ns)
  BY <1>1, <1>9, <1>10 DEF Ordered, OnlyLastLive
<1>12. Len(ns) >= l - 1 /\ Len(ns) <= l + 1 /\ ~(Len(ns) > l) /\ here[l].life = "live"
  BY <1>1, <1>2, <1>8, <1>9
<1>13. \A i \in DOMAIN here \cap DOMAIN ns :
          ns[i].id = here[i].id /\ (here[i].life = "stable" => ns[i] = here[i])
  BY <1>9, <1>10
<1> QED BY <1>6, <1>11, <1>12, <1>13 DEF Keeps

(* A node goes, or none has that id.                                       *)
LEMMA WithoutIs ==
    ASSUME NEW here \in Seq(NodeSet), NEW id
    PROVE  /\ Without(here, id) \in Seq(NodeSet)
           /\ ~Present(here, id) => Without(here, id) = here
<1>1. ASSUME Present(here, id) PROVE Without(here, id) \in Seq(NodeSet)
  <2>1. \E i \in DOMAIN here : here[i].id = id
    BY <1>1 DEF Present, Range
  <2> PICK k : k = CHOOSE i \in DOMAIN here : here[i].id = id
    OBVIOUS
  <2>2. k \in DOMAIN here
    BY <2>1
  <2> QED BY <1>1, <2>2, RemovedAt DEF Without
<1> QED BY <1>1 DEF Without

(* Nodes that all settle.                                                  *)
LEMMA SettledAre ==
    ASSUME NEW here \in Seq(NodeSet), NEW ids
    PROVE  /\ Settled(here, Settle(here, ids))
           /\ (\A n \in Streaming(here) : n.id \in ids) => AllStable(Settle(here, ids))
           /\ Settled(here, here)
           /\ Streaming(here) = {} => AllStable(here)
<1> PICK q : q = Settle(here, ids)
  OBVIOUS
<1> PICK l : l = Len(here)
  OBVIOUS
<1>1. /\ q \in Seq(NodeSet) /\ Len(q) = l
      /\ \A i \in 1..l :
            /\ q[i].id = here[i].id
            /\ here[i].life = "stable" => q[i] = here[i]
            /\ here[i].id \in ids => q[i].life = "stable"
            /\ here[i].id \notin ids => q[i] = here[i]
  BY SettleIs
<1>2. \A i \in 1..l : /\ here[i].life = "live" => here[i] \in Streaming(here)
                      /\ here[i].life # "live" => here[i].life = "stable"
  BY StreamingIs
<1> QED BY <1>1, <1>2 DEF Settled, AllStable

(* Where all are settled, the last may be live.                            *)
LEMMA StableIsOrdered ==
    ASSUME NEW q \in Seq(NodeSet), AllStable(q)
    PROVE  OnlyLastLive(q)
BY DEF AllStable, OnlyLastLive

\* Besides the ordinary only older pages, subagents and a terminal that
\* shrinks: the properties except these themselves where they must.  The other
\* Conditions bring what the buffer refuses.
Orderly == Conditions \subseteq {"olderPage", "subagent", "shrink"}

\* A Session is selected, and it has nodes.
InSession == /\ session \in Sessions /\ nodes \in [Sessions -> Seq(NodeSet)]
             /\ step \in [Sessions -> Nat] /\ count \in Nat

\* No older page has been loaded.
NoneOlder(ns) == \A n \in Range(ns) : n.id[2] # "older"

\* The step of the turn goes on, or the next one begins.
SameStep == step' = step
NextStep == step' = [step EXCEPT ![session] = @ + 1]

\* No older page goes.
PagesStay(ns) == \A m \in Range(Here) : m.id[2] = "older" => Present(ns, m.id)

(* A node stays present when others settle, come, are rewritten or go.     *)
LEMMA StaysPresent ==
    ASSUME NEW here \in Seq(NodeSet), NEW m \in Range(here)
    PROVE  /\ \A q : Settled(here, q) => /\ Present(q, m.id)
                                         /\ \A n \in NodeSet : /\ Present(Append(q, n), m.id)
                                                             /\ Present(Upsert(q, n), m.id)
           /\ \A id : m.id # id => Present(Without(here, id), m.id)
<1> PICK l : l = Len(here)
  OBVIOUS
<1>1. l \in Nat /\ DOMAIN here = 1..l
  OBVIOUS
<1>2. PICK k \in 1..l : here[k] = m
  BY <1>1 DEF Range
<1>3. ASSUME NEW ns \in Seq(NodeSet), NEW i \in 1..Len(ns), ns[i].id = m.id PROVE Present(ns, m.id)
  BY <1>3 DEF Present, Range
<1>4. ASSUME NEW q, Settled(here, q), NEW n \in NodeSet
      PROVE  Present(q, m.id) /\ Present(Append(q, n), m.id) /\ Present(Upsert(q, n), m.id)
  <2>1. q \in Seq(NodeSet) /\ Len(q) = l /\ q[k].id = m.id /\ k \in 1..Len(q)
    BY <1>2, <1>4 DEF Settled
  <2>2. Append(q, n) \in Seq(NodeSet) /\ k \in 1..Len(Append(q, n)) /\ Append(q, n)[k] = q[k]
    BY <1>1, <2>1
  <2>3. Present(q, m.id) /\ Present(Append(q, n), m.id)
    BY <1>3, <2>1, <2>2
  <2>4. CASE ~Present(q, n.id)
    <3>1. Upsert(q, n) = Append(q, n)
      BY <2>1, <2>4, UpsertIs
    <3> QED BY <2>3, <3>1
  <2>5. CASE Present(q, n.id)
    <3>1. Upsert(q, n) \in Seq(NodeSet) /\ k \in 1..Len(Upsert(q, n)) /\ Upsert(q, n)[k].id = m.id
      BY <2>1, <2>5, UpsertPresent
    <3> QED BY <1>3, <2>3, <3>1
  <2> QED BY <2>4, <2>5
<1>5. ASSUME NEW q, Settled(here, q) PROVE Present(q, m.id)
  <2>1. q \in Seq(NodeSet) /\ Len(q) = l /\ q[k].id = m.id /\ k \in 1..Len(q)
    BY <1>2, <1>5 DEF Settled
  <2> QED BY <1>3, <2>1
<1>6. ASSUME NEW id, m.id # id PROVE Present(Without(here, id), m.id)
  <2>1. CASE ~Present(here, id)
    BY <1>2, <1>3, <2>1, WithoutIs
  <2>2. CASE Present(here, id)
    <3>1. \E i \in DOMAIN here : here[i].id = id
      BY <2>2 DEF Present, Range
    <3> PICK x : x = CHOOSE i \in DOMAIN here : here[i].id = id
      OBVIOUS
    <3>2. x \in DOMAIN here /\ here[x].id = id
      BY <3>1
    <3> PICK ns : ns = RemoveAt(here, x)
      OBVIOUS
    <3>3. /\ ns \in Seq(NodeSet) /\ Len(ns) = l - 1
          /\ \A j \in 1..(l - 1) : ns[j] = IF j < x THEN here[j] ELSE here[j + 1]
      BY <3>2, RemovedAt
    <3>4. k # x /\ x \in 1..l
      BY <1>1, <1>2, <1>6, <3>2
    <3>5. CASE k < x
      <4>1. k \in 1..(l - 1)
        BY <1>1, <3>4, <3>5
      <4> QED BY <1>2, <1>3, <2>2, <3>3, <3>5, <4>1 DEF Without
    <3>6. CASE x < k
      <4>1. k - 1 \in 1..(l - 1) /\ ~(k - 1 < x) /\ (k - 1) + 1 = k
        BY <1>1, <3>4, <3>6
      <4>2. ns[k - 1] = here[k]
        BY <3>3, <4>1
      <4> QED BY <1>2, <1>3, <2>2, <3>3, <4>1, <4>2 DEF Without
    <3> QED BY <1>1, <3>4, <3>5, <3>6
  <2> QED BY <2>1, <2>2
<1> QED BY <1>4, <1>5, <1>6

\* What each event does to the nodes of the selected Session.
Advances ==
    \E ns \in Seq(NodeSet) :
        /\ Event(ns) /\ PagesStay(ns)
        /\ SameStep \/ NextStep
        /\ Orderly /\ Ordered(Here, count, step[session]) /\ NoneOlder(ns) =>
             Goes(Here, ns, session, count, step[session], step'[session])

(* The facts the events share.                                             *)
LEMMA EventFacts ==
    ASSUME InSession
    PROVE  /\ Here \in Seq(NodeSet) /\ step[session] \in Nat /\ session \in Sessions /\ count \in Nat
           /\ SameStep => step'[session] = step[session]
           /\ NextStep => step'[session] = step[session] + 1
           /\ \A kind \in Kinds, life \in {"live", "stable"}, lines \in Nat :
                Node(Fresh(kind), life, lines) \in NodeSet
           /\ \A life \in {"live", "stable"}, lines \in Nat : Node(Assistant, life, lines) \in NodeSet
           /\ \A life \in {"live", "stable"}, lines \in Nat, m \in Range(Here) :
                Node(m.id, life, lines) \in NodeSet
           /\ \A life, lines : \A kind \in Kinds \ {"assistant", "compaction"} :
                NewId(Here, Node(Fresh(kind), life, lines), session, count, step[session])
           /\ \A life, lines : ~Present(Here, Assistant) =>
                NewId(Here, Node(Assistant, life, lines), session, count, step[session])
           /\ \A kind, life, lines : /\ Node(kind, life, lines).id = kind
                                     /\ Node(kind, life, lines).life = life
<1>1. Here \in Seq(NodeSet) /\ step[session] \in Nat
  BY DEF InSession, Here
<1>2. Assistant \in Sessions \X Kinds \X Nat
  BY <1>1 DEF Assistant, Kinds, InSession
<1>3. \A kind \in Kinds : Fresh(kind) \in Sessions \X Kinds \X Nat
  BY DEF Fresh, InSession
<1>4. \A m \in Range(Here) : m.id \in Sessions \X Kinds \X Nat
  <2>1. \A m \in Range(Here) : m \in NodeSet
    BY <1>1 DEF Range
  <2> QED BY <2>1 DEF NodeSet
<1>5. \A id \in Sessions \X Kinds \X Nat, life \in {"live", "stable"}, lines \in Nat :
         Node(id, life, lines) \in NodeSet
  BY DEF Node, NodeSet, InSession
<1>6. SameStep => step'[session] = step[session]
  BY DEF SameStep
<1>7. NextStep => step'[session] = step[session] + 1
  BY DEF NextStep, InSession
<1>8. \A life, lines : \A kind \in Kinds \ {"assistant", "compaction"} :
         NewId(Here, Node(Fresh(kind), life, lines), session, count, step[session])
  BY DEF NewId, Node, Fresh
<1>9. \A life, lines : ~Present(Here, Assistant) =>
         NewId(Here, Node(Assistant, life, lines), session, count, step[session])
  BY DEF NewId, Node, Assistant
<1>10. \A kind, life, lines : Node(kind, life, lines).id = kind /\ Node(kind, life, lines).life = life
  BY DEF Node
<1> QED BY <1>1, <1>2, <1>3, <1>4, <1>5, <1>6, <1>7, <1>8, <1>9, <1>10 DEF InSession

(* With the conditions that Orderly leaves out, events of other nodes wait.*)
LEMMA Undisturbed ==
    ASSUME InSession, Orderly, NEW ids, InTurn(ids)
    PROVE  /\ \A n \in Streaming(Here) : n.id \in ids
           /\ AllStable(Settle(Here, ids))
           /\ ids = {} => AllStable(Here)
           /\ (\A id \in ids : ~Present(Here, id)) => AllStable(Here)
<1>1. \A n \in Streaming(Here) : n.id \in ids
  BY DEF InTurn, Orderly
<1>2. Here \in Seq(NodeSet)
  BY EventFacts
<1>3. AllStable(Settle(Here, ids))
  BY <1>1, <1>2, SettledAre
<1>4. ASSUME \A id \in ids : ~Present(Here, id) PROVE AllStable(Here)
  <2>1. Streaming(Here) = {}
    BY <1>1, <1>4 DEF Present, Streaming
  <2> QED BY <1>2, <2>1, SettledAre
<1> QED BY <1>1, <1>3, <1>4

(* A new node behind nodes that are settled.                               *)
LEMMA AdvanceAppended ==
    ASSUME InSession, NEW q, Settled(Here, q), NEW n \in NodeSet, Event(Append(q, n)),
           NewId(Here, n, session, count, step[session]), SameStep \/ NextStep,
           Orderly => AllStable(q)
    PROVE  Advances
<1>1. /\ Here \in Seq(NodeSet) /\ step[session] \in Nat
      /\ step'[session] \in {step[session], step[session] + 1}
  BY EventFacts
<1>2. Append(q, n) \in Seq(NodeSet)
  BY DEF Settled
<1>3. Orderly => Keeps(Here, Append(q, n), session, count, step[session], step'[session])
  BY <1>1, KeepsAppended
<1>4. PagesStay(Append(q, n))
  BY <1>1, StaysPresent DEF PagesStay
<1> QED BY <1>2, <1>3, <1>4 DEF Advances, Goes

(* Nodes that settle.                                                      *)
LEMMA AdvanceSettled ==
    ASSUME InSession, NEW q, Settled(Here, q), Event(q), SameStep \/ NextStep,
           Orderly /\ Ordered(Here, count, step[session]) => OnlyLastLive(q)
    PROVE  Advances
<1>1. /\ Here \in Seq(NodeSet) /\ step[session] \in Nat
      /\ step'[session] \in {step[session], step[session] + 1}
  BY EventFacts
<1>2. q \in Seq(NodeSet)
  BY DEF Settled
<1>3. Orderly /\ Ordered(Here, count, step[session])
        => Keeps(Here, q, session, count, step[session], step'[session])
  BY <1>1, KeepsSettled
<1>4. PagesStay(q)
  BY <1>1, StaysPresent DEF PagesStay
<1> QED BY <1>2, <1>3, <1>4 DEF Advances, Goes

(* A live node that is written again.                                      *)
LEMMA AdvanceReplaced ==
    ASSUME InSession, NEW n \in NodeSet, Event(Upsert(Here, n)), SameStep \/ NextStep,
           Orderly => \E m \in Streaming(Here) : m.id = n.id
    PROVE  Advances
<1>1. /\ Here \in Seq(NodeSet) /\ step[session] \in Nat
      /\ step'[session] \in {step[session], step[session] + 1}
  BY EventFacts
<1>2. Upsert(Here, n) \in Seq(NodeSet)
  BY <1>1, UpsertIs
<1>3. Orderly /\ Ordered(Here, count, step[session])
        => Keeps(Here, Upsert(Here, n), session, count, step[session], step'[session])
  BY <1>1, KeepsReplaced
<1>4. PagesStay(Upsert(Here, n))
  <2>1. Settled(Here, Here)
    BY <1>1, SettledAre
  <2> QED BY <1>1, <2>1, StaysPresent DEF PagesStay
<1> QED BY <1>2, <1>3, <1>4 DEF Advances, Goes

(* user/message, an unknown event and command/run add a node.              *)
LEMMA AddsAdvance ==
    ASSUME InSession, (\E lines \in 0..MaxLines : UserMessage(lines)) \/ UnknownEvent \/ CommandRun
    PROVE  Advances
<1>1. PICK kind \in {"entry", "command"}, life \in {"live", "stable"}, lines \in Nat :
         Event(Append(Here, Node(Fresh(kind), life, lines))) /\ InTurn({}) /\ SameStep
  <2>1. ASSUME NEW lines \in 0..MaxLines, UserMessage(lines)
        PROVE  \E kind \in {"entry", "command"}, life \in {"live", "stable"}, n \in Nat :
                 Event(Append(Here, Node(Fresh(kind), life, n))) /\ InTurn({}) /\ SameStep
    <3>1. lines \in Nat
      OBVIOUS
    <3> QED BY <2>1, <3>1 DEF UserMessage, SameStep
  <2>2. CASE UnknownEvent
    <3>1. PICK life \in {"live", "stable"} : life = IF session \in running THEN "live" ELSE "stable"
      OBVIOUS
    <3>2. Event(Append(Here, Node(Fresh("entry"), life, 1))) /\ InTurn({}) /\ SameStep
      BY <2>2, <3>1 DEF UnknownEvent, SameStep
    <3> QED BY <3>2
  <2>3. CASE CommandRun
    BY <2>3 DEF CommandRun, SameStep
  <2> QED BY <2>1, <2>2, <2>3
<1>2. kind \in Kinds \ {"assistant", "compaction"}
  BY DEF Kinds
<1> PICK n : n = Node(Fresh(kind), life, lines)
  OBVIOUS
<1>3. n \in NodeSet /\ NewId(Here, n, session, count, step[session]) /\ Here \in Seq(NodeSet)
  BY <1>2, EventFacts
<1>4. Settled(Here, Here) /\ (Orderly => AllStable(Here))
  BY <1>1, <1>3, SettledAre, Undisturbed
<1> QED BY <1>1, <1>3, <1>4, AdvanceAppended

(* turn/start changes no node.                                             *)
LEMMA StartAdvances ==
    ASSUME InSession, TurnStart
    PROVE  Advances
<1>1. Here \in Seq(NodeSet) /\ Settled(Here, Here)
  BY EventFacts, SettledAre
<1>2. Event(Here) /\ SameStep
  BY DEF TurnStart, SameStep
<1> QED BY <1>1, <1>2, AdvanceSettled DEF Ordered

(* assistant/chunk writes the live node of its step or adds it.            *)
LEMMA ChunkAdvances ==
    ASSUME InSession, NEW lines \in 0..MaxLines, Chunk(lines)
    PROVE  Advances
<1> PICK n : n = Node(Assistant, "live", lines)
  OBVIOUS
<1>1. /\ Here \in Seq(NodeSet) /\ Settled(Here, Here) /\ n.id = Assistant
      /\ n \in NodeSet
      /\ ~Present(Here, Assistant) => NewId(Here, n, session, count, step[session])
  <2>1. lines \in Nat
    OBVIOUS
  <2> QED BY <2>1, EventFacts, SettledAre
<1>2. /\ Event(IF lines = 0 THEN Without(Here, Assistant) ELSE Upsert(Here, n))
      /\ SameStep /\ InTurn({Assistant})
      /\ Orderly /\ Present(Here, Assistant) => lines # 0 /\ \E m \in Streaming(Here) : m.id = Assistant
  <2>1. Orderly /\ Present(Here, Assistant) => lines # 0
    BY DEF Chunk, Orderly
  <2>2. Orderly => \A m \in Range(Here) : m.id = Assistant => m.life = "live"
    BY DEF Chunk, Orderly
  <2>3. Orderly /\ Present(Here, Assistant) => \E m \in Streaming(Here) : m.id = Assistant
    BY <2>2 DEF Present, Streaming
  <2> QED BY <2>1, <2>3 DEF Chunk, SameStep
<1>3. Orderly /\ ~Present(Here, Assistant) => AllStable(Here)
  BY <1>2, Undisturbed
<1>4. CASE lines = 0
  <2>1. Event(Without(Here, Assistant)) /\ Without(Here, Assistant) \in Seq(NodeSet)
    BY <1>1, <1>2, <1>4, WithoutIs
  <2>2. CASE Present(Here, Assistant)
    <3>1. PagesStay(Without(Here, Assistant))
      BY <1>1, StaysPresent DEF PagesStay, Assistant
    <3> QED BY <1>2, <1>4, <2>1, <2>2, <3>1 DEF Advances
  <2>3. CASE ~Present(Here, Assistant)
    <3>1. Event(Here)
      BY <1>1, <2>1, <2>3, WithoutIs
    <3> QED BY <1>1, <1>2, <3>1, AdvanceSettled DEF Ordered
  <2> QED BY <2>2, <2>3
<1>5. CASE lines # 0
  <2>1. Event(Upsert(Here, n))
    BY <1>2, <1>5
  <2>2. CASE Present(Here, Assistant)
    BY <1>1, <1>2, <2>1, <2>2, AdvanceReplaced
  <2>3. CASE ~Present(Here, Assistant)
    <3>1. Event(Append(Here, n))
      <4>1. Here \in Seq(NodeSet) /\ n \in NodeSet /\ ~Present(Here, n.id)
        BY <1>1, <2>3
      <4> PICK here : here = Here
        OBVIOUS
      <4>2. Upsert(here, n) = Append(here, n)
        BY ONLY <4>1, here = Here, UpsertIs
      <4> QED BY <2>1, <4>2
    <3>2. /\ NewId(Here, n, session, count, step[session]) /\ (Orderly => AllStable(Here))
          /\ SameStep \/ NextStep
      BY <1>1, <1>2, <1>3, <2>3
    <3>3. InSession /\ Settled(Here, Here) /\ n \in NodeSet
      BY <1>1
    <3> QED BY ONLY <3>1, <3>2, <3>3, AdvanceAppended
  <2> QED BY <2>2, <2>3
<1> QED BY <1>4, <1>5

(* assistant/message settles it, takes it back or adds it.                 *)
LEMMA MessageAdvances ==
    ASSUME InSession, NEW lines \in 0..MaxLines, Message(lines)
    PROVE  Advances
<1> PICK n : n = Node(Assistant, "stable", lines)
  OBVIOUS
<1>1. /\ Here \in Seq(NodeSet) /\ Settled(Here, Here) /\ n.id = Assistant
      /\ n \in NodeSet /\ step[session] \in Nat
      /\ ~Present(Here, Assistant) => NewId(Here, n, session, count, step[session])
  <2>1. lines \in Nat
    OBVIOUS
  <2>2. Here \in Seq(NodeSet) /\ step[session] \in Nat /\ n.id = Assistant /\ n \in NodeSet
    BY <2>1, EventFacts
  <2>3. ~Present(Here, Assistant) => NewId(Here, n, session, count, step[session])
    BY <2>1, EventFacts
  <2> QED BY <2>2, <2>3, SettledAre
<1>2. /\ Event(IF lines = 0 THEN Without(Here, Assistant) ELSE Upsert(Here, n))
      /\ NextStep /\ InTurn({Assistant})
      /\ Present(Here, Assistant) => \E m \in Streaming(Here) : m.id = Assistant
  BY DEF Message, NextStep
<1>3. Orderly /\ ~Present(Here, Assistant) => AllStable(Here)
  BY <1>2, Undisturbed
<1>4. CASE lines = 0
  <2>1. Event(Without(Here, Assistant)) /\ Without(Here, Assistant) \in Seq(NodeSet)
    BY <1>1, <1>2, <1>4, WithoutIs
  <2>2. CASE Present(Here, Assistant)
    <3>1. PICK m \in Streaming(Here) : m.id = Assistant
      BY <1>2, <2>2
    <3>2. Ordered(Here, count, step[session]) =>
            Keeps(Here, Without(Here, Assistant), session, count, step[session], step[session] + 1)
      BY <1>1, <3>1, KeepsRemoved
    <3>3. step'[session] = step[session] + 1
      BY <1>2, EventFacts
    <3>4. PagesStay(Without(Here, Assistant))
      BY <1>1, StaysPresent DEF PagesStay, Assistant
    <3> QED BY <1>2, <2>1, <3>2, <3>3, <3>4 DEF Advances, Goes
  <2>3. CASE ~Present(Here, Assistant)
    <3>1. Event(Here)
      BY <1>1, <2>1, <2>3, WithoutIs
    <3> QED BY <1>1, <1>2, <3>1, AdvanceSettled DEF Ordered
  <2> QED BY <2>2, <2>3
<1>5. CASE lines # 0
  <2>1. Event(Upsert(Here, n))
    BY <1>2, <1>5
  <2>2. CASE Present(Here, Assistant)
    BY <1>1, <1>2, <2>1, <2>2, AdvanceReplaced
  <2>3. CASE ~Present(Here, Assistant)
    <3>1. Event(Append(Here, n))
      <4>1. Here \in Seq(NodeSet) /\ n \in NodeSet /\ ~Present(Here, n.id)
        BY <1>1, <2>3
      <4> PICK here : here = Here
        OBVIOUS
      <4>2. Upsert(here, n) = Append(here, n)
        BY ONLY <4>1, here = Here, UpsertIs
      <4> QED BY <2>1, <4>2
    <3>2. /\ NewId(Here, n, session, count, step[session]) /\ (Orderly => AllStable(Here))
          /\ SameStep \/ NextStep
      BY <1>1, <1>2, <1>3, <2>3
    <3>3. InSession /\ Settled(Here, Here) /\ n \in NodeSet
      BY <1>1
    <3> QED BY ONLY <3>1, <3>2, <3>3, AdvanceAppended
  <2> QED BY <2>2, <2>3
<1> QED BY <1>4, <1>5

(* tool/call settles the assistant node and adds or rewrites the tool's.   *)
LEMMA ToolCallAdvances ==
    ASSUME InSession, NEW id, NEW lines \in Lines, ToolCall(id, lines),
           id = Fresh("tool") \/ \E m \in Range(Here) : m.id = id
    PROVE  Advances
<1> PICK n : n = Node(id, "live", lines)
  OBVIOUS
<1> PICK q : q = Settle(Here, {Assistant})
  OBVIOUS
<1>1. Here \in Seq(NodeSet) /\ step[session] \in Nat /\ count \in Nat
  BY EventFacts
<1>2. n.id = id /\ n \in NodeSet
  <2>1. lines \in Nat
    BY DEF Lines
  <2>2. CASE id = Fresh("tool")
    <3>1. "tool" \in Kinds
      BY DEF Kinds
    <3> QED BY <2>1, <2>2, <3>1, EventFacts
  <2>3. CASE \E m \in Range(Here) : m.id = id
    BY <2>1, <2>3, EventFacts
  <2> QED BY <2>2, <2>3
<1>3. Event(Upsert(q, n)) /\ SameStep /\ InTurn({Assistant, id})
  BY DEF ToolCall, SameStep
<1>4. Settled(Here, q)
  BY <1>1, SettledAre
<1>5. q \in Seq(NodeSet) /\ Upsert(q, n) \in Seq(NodeSet)
  BY <1>2, <1>4, UpsertIs DEF Settled
<1>6. step'[session] \in {step[session], step[session] + 1}
  BY <1>3, EventFacts
<1>7. ASSUME Orderly, Ordered(Here, count, step[session])
      PROVE  Keeps(Here, Upsert(q, n), session, count, step[session], step'[session])
  <2>1. CASE id = Fresh("tool")
    <3>1. \A i \in DOMAIN Here : Here[i].id # id
      <4> TAKE i \in DOMAIN Here
      <4>1. Here[i].id[2] # "assistant" => Here[i].id[3] < count
        BY <1>7 DEF Ordered
      <4> QED BY <1>1, <2>1, <4>1 DEF Fresh
    <3>2. ~Present(q, id)
      <4>1. DOMAIN q = DOMAIN Here /\ \A i \in DOMAIN Here : q[i].id = Here[i].id
        <5>1. /\ q \in Seq(NodeSet) /\ Len(q) = Len(Here)
              /\ \A i \in 1..Len(Here) : q[i].id = Here[i].id
          BY <1>4 DEF Settled
        <5>2. DOMAIN q = 1..Len(q) /\ DOMAIN Here = 1..Len(Here)
          BY <1>1, <5>1
        <5> QED BY <5>1, <5>2
      <4> QED BY <3>1, <4>1 DEF Present, Range
    <3>3. Upsert(q, n) = Append(q, n)
      <4>1. q \in Seq(NodeSet) /\ n \in NodeSet /\ ~Present(q, n.id)
        BY <1>2, <1>5, <3>2
      <4> QED BY ONLY <4>1, UpsertIs
    <3>4. \A m \in Streaming(Here) : m.id \in {Assistant}
      <4>1. \A m \in Streaming(Here) : m.id \in {Assistant, id}
        BY <1>3, <1>7, Undisturbed
      <4>2. \A m \in Streaming(Here) : m.id # id
        BY <3>1 DEF Streaming, Range
      <4> QED BY <4>1, <4>2
    <3>5. AllStable(q)
      BY <1>1, <3>4, SettledAre
    <3>6. NewId(Here, n, session, count, step[session])
      <4>1. "tool" \in Kinds \ {"assistant", "compaction"}
        BY DEF Kinds
      <4> QED BY <2>1, <4>1, EventFacts
    <3> QED BY <1>1, <1>2, <1>4, <1>6, <3>3, <3>5, <3>6, KeepsAppended
  <2>2. CASE \E m \in Streaming(Here) : m.id = id /\ m.id[2] = "tool"
    <3>1. PICK m \in Streaming(Here) : m.id = id /\ m.id[2] = "tool"
      BY <2>2
    <3>2. PICK k \in DOMAIN Here : Here[k] = m /\ m.life = "live"
      BY DEF Streaming, Range
    <3>3. ASSUME NEW i \in 1..Len(Here), Here[i].id = Assistant PROVE Here[i].life = "stable"
      <4>1. i # k
        BY <3>1, <3>2, <3>3 DEF Assistant
      <4>2. k \in 1..Len(Here) /\ Len(Here) \in Nat /\ DOMAIN Here = 1..Len(Here)
        BY <1>1
      <4>3. ~(k < i)
        BY <1>7, <3>2, <4>2 DEF Ordered, OnlyLastLive
      <4>4. i < k
        BY <4>1, <4>2, <4>3
      <4> QED BY <1>7, <4>2, <4>4 DEF Ordered, OnlyLastLive
    <3>4. q = Here
      <4>1. \A i \in 1..Len(Here) : /\ Here[i].life = "stable" => q[i] = Here[i]
                                    /\ Here[i].id \notin {Assistant} => q[i] = Here[i]
        BY <1>1, SettleIs
      <4>2. \A i \in 1..Len(Here) : q[i] = Here[i]
        BY <3>3, <4>1
      <4>3. q \in Seq(NodeSet) /\ Len(q) = Len(Here)
        BY <1>4 DEF Settled
      <4> QED BY <1>1, <4>2, <4>3, SeqEqual
    <3>5. \E x \in Streaming(Here) : x.id = n.id
      BY <1>2, <3>1
    <3> QED BY <1>1, <1>2, <1>6, <1>7, <3>4, <3>5, KeepsReplaced
  <2> QED BY <2>1, <2>2 DEF ToolCall, OfTool
<1>8. PagesStay(Upsert(q, n))
  BY <1>1, <1>2, <1>4, StaysPresent DEF PagesStay
<1> QED BY <1>3, <1>5, <1>7, <1>8 DEF Advances, Goes

\* The node of a result that is written: the one that streams, or a new one.
ResultOf(kind, id, n) ==
    /\ OfTool(kind, id) /\ InTurn({id}) /\ n.id = id
    /\ Event(Upsert(Here, n)) /\ (SameStep \/ NextStep)

(* A result settles the node of its tool, or is all there is of it.        *)
LEMMA ResultAdvances ==
    ASSUME InSession, NEW kind \in {"tool", "sub"}, NEW id, NEW n \in NodeSet, ResultOf(kind, id, n),
           id = Fresh(kind) => NewId(Here, n, session, count, step[session])
    PROVE  Advances
<1>1. /\ Here \in Seq(NodeSet) /\ step[session] \in Nat /\ count \in Nat
      /\ step'[session] \in {step[session], step[session] + 1}
  BY EventFacts DEF ResultOf
<1>2. Event(Upsert(Here, n)) /\ (SameStep \/ NextStep) /\ n.id = id
  BY DEF ResultOf
<1>3. CASE \E m \in Streaming(Here) : m.id = id
  BY <1>2, <1>3, AdvanceReplaced
<1>4. CASE id = Fresh(kind)
  <2>1. ASSUME Orderly, Ordered(Here, count, step[session])
        PROVE  Keeps(Here, Upsert(Here, n), session, count, step[session], step'[session])
    <3>1. \A i \in DOMAIN Here : Here[i].id # id
      <4> TAKE i \in DOMAIN Here
      <4>1. Here[i].id[2] # "assistant" => Here[i].id[3] < count
        BY <2>1 DEF Ordered
      <4> QED BY <1>1, <1>4, <4>1 DEF Fresh
    <3>2. ~Present(Here, id)
      BY <3>1 DEF Present, Range
    <3>3. Upsert(Here, n) = Append(Here, n)
      <4>1. ~Present(Here, n.id)
        BY <1>2, <3>2
      <4> QED BY <1>1, <4>1, UpsertIs
    <3>4. AllStable(Here) /\ Settled(Here, Here)
      <4>1. InTurn({id})
        BY DEF ResultOf
      <4> QED BY <1>1, <2>1, <3>2, <4>1, Undisturbed, SettledAre
    <3> QED BY <1>1, <1>4, <3>3, <3>4, KeepsAppended
  <2>2. Upsert(Here, n) \in Seq(NodeSet)
    BY <1>1, UpsertIs
  <2>3. PagesStay(Upsert(Here, n))
    <3>1. Settled(Here, Here)
      BY <1>1, SettledAre
    <3> QED BY <1>1, <3>1, StaysPresent DEF PagesStay
  <2> QED BY <1>2, <2>1, <2>2, <2>3 DEF Advances, Goes
<1> QED BY <1>3, <1>4 DEF ResultOf, OfTool

(* The node of a result.                                                   *)
LEMMA ResultIs ==
    ASSUME InSession, NEW kind \in {"tool", "sub"}, NEW id, NEW lines \in Lines, OfTool(kind, id)
    PROVE  LET n == Node(id, "stable", lines)
           IN  /\ n \in NodeSet /\ n.id = id
               /\ id = Fresh(kind) => NewId(Here, n, session, count, step[session])
<1>1. lines \in Nat /\ kind \in Kinds /\ kind \in Kinds \ {"assistant", "compaction"}
  BY DEF Lines, Kinds
<1>2. CASE id = Fresh(kind)
  BY <1>1, <1>2, EventFacts
<1>3. CASE \E m \in Streaming(Here) : m.id = id
  <2>1. \E m \in Range(Here) : m.id = id
    BY <1>3 DEF Streaming
  <2> QED BY <1>1, <2>1, EventFacts
<1> QED BY <1>2, <1>3 DEF OfTool

(* tool/result and tool/code-dispatch.                                     *)
LEMMA ResultsAdvance ==
    ASSUME InSession, NEW id, NEW lines \in Lines, ToolResult(id, lines) \/ CodeDispatch(id, lines)
    PROVE  Advances
<1> PICK n : n = Node(id, "stable", lines)
  OBVIOUS
<1>1. PICK kind \in {"tool", "sub"} :
         OfTool(kind, id) /\ InTurn({id}) /\ Event(Upsert(Here, n)) /\ (SameStep \/ NextStep)
  <2>1. CASE ToolResult(id, lines)
    BY <2>1 DEF ToolResult, SameStep, NextStep
  <2>2. CASE CodeDispatch(id, lines)
    BY <2>2 DEF CodeDispatch, SameStep
  <2> QED BY <2>1, <2>2
<1>2. n \in NodeSet /\ n.id = id /\ (id = Fresh(kind) => NewId(Here, n, session, count, step[session]))
  BY <1>1, ResultIs
<1>3. ResultOf(kind, id, n)
  BY <1>1, <1>2 DEF ResultOf
<1> QED BY <1>2, <1>3, ResultAdvances

(* tool/code-dispatch-start: the new node takes the place of the one that  *)
(* streams, or is added to settled ones.                                   *)
LEMMA DispatchAdvances ==
    ASSUME InSession, NEW parent, NEW lines \in Lines, CodeDispatchStart(parent, lines)
    PROVE  Advances
<1> PICK n : n = Node(Fresh("sub"), "live", lines)
  OBVIOUS
<1> PICK here : here = Here
  OBVIOUS
<1> PICK mid : mid = Without(here, parent)
  OBVIOUS
<1> PICK ns : ns = Append(mid, n)
  OBVIOUS
<1> PICK l : l = Len(here)
  OBVIOUS
<1>1. /\ here \in Seq(NodeSet) /\ step[session] \in Nat /\ count \in Nat
      /\ l \in Nat /\ DOMAIN here = 1..l
  BY EventFacts
<1>2. n \in NodeSet /\ NewId(here, n, session, count, step[session])
  <2>1. lines \in Nat /\ "sub" \in Kinds /\ "sub" \in Kinds \ {"assistant", "compaction"}
    BY DEF Lines, Kinds
  <2> QED BY <2>1, EventFacts
<1>3. /\ Event(ns) /\ SameStep /\ InTurn({parent})
      /\ \/ \E m \in Streaming(here) : m.id = parent /\ m.id[2] \in {"tool", "sub"}
         \/ ~Present(here, parent)
  BY DEF CodeDispatchStart, SameStep
<1>4. step'[session] = step[session]
  BY <1>3, EventFacts
<1>5. mid \in Seq(NodeSet) /\ (~Present(here, parent) => mid = here)
  BY <1>1, WithoutIs
<1>6. /\ ns \in Seq(NodeSet) /\ Len(ns) = Len(mid) + 1 /\ ns[Len(mid) + 1] = n
      /\ \A i \in 1..Len(mid) : ns[i] = mid[i]
  BY <1>2, <1>5
<1>7. CASE ~Present(here, parent)
  <2>1. Settled(here, here) /\ (Orderly => AllStable(here))
    BY <1>1, <1>3, <1>7, SettledAre, Undisturbed
  <2>2. Event(Append(Here, n))
    BY <1>3, <1>5, <1>7
  <2> QED BY <1>2, <1>3, <2>1, <2>2, AdvanceAppended
<1>8. ASSUME NEW m \in Streaming(here), m.id = parent, m.id[2] \in {"tool", "sub"}
      PROVE  Advances
  <2>1. Present(here, parent)
    BY <1>8 DEF Present, Streaming
  <2>2. PagesStay(ns)
    <3> SUFFICES ASSUME NEW x \in Range(here), x.id[2] = "older" PROVE Present(ns, x.id)
      BY DEF PagesStay
    <3>1. Present(mid, x.id)
      BY <1>1, <1>8, StaysPresent
    <3>2. PICK i \in DOMAIN mid : mid[i].id = x.id
      BY <3>1 DEF Present, Range
    <3>3. i \in DOMAIN ns /\ ns[i].id = x.id
      BY <1>5, <1>6, <3>2
    <3> QED BY <3>3 DEF Present, Range
  <2>3. ASSUME Ordered(here, count, step[session])
        PROVE  Dispatches(here, ns, session, count, step[session], step'[session])
    <3>1. PICK k \in 1..l : here[k] = m /\ here[k].life = "live"
      BY <1>1 DEF Streaming, Range
    <3>2. \A i \in 1..l : here[i].id = parent => i = k
      BY <1>1, <1>8, <2>3, <3>1 DEF Ordered
    <3>3. (CHOOSE i \in DOMAIN here : here[i].id = parent) = k
      BY <1>1, <1>8, <3>1, <3>2
    <3>4. mid = RemoveAt(here, k)
      BY <2>1, <3>3 DEF Without
    <3>5. ~(k < l)
      BY <1>1, <2>3, <3>1 DEF Ordered, OnlyLastLive
    <3>6. k = l /\ l > 0
      BY <1>1, <3>1, <3>5
    <3>7. Len(mid) = l - 1 /\ \A j \in 1..(l - 1) : mid[j] = IF j < k THEN here[j] ELSE here[j + 1]
      BY <1>1, <3>1, <3>4, RemovedAt
    <3>8. Len(ns) = l /\ ns[l] = n /\ \A i \in 1..l : i # l => ns[i] = here[i]
      <4>1. \A i \in 1..l : i # l => i \in 1..(l - 1) /\ i < k
        BY <1>1, <3>6
      <4> QED BY <1>1, <1>6, <3>7, <4>1
    <3>9. here[l].life = "live" /\ here[l].id[2] # "assistant"
      BY <1>8, <3>1, <3>6
    <3> QED BY <1>1, <1>2, <1>4, <3>6, <3>8, <3>9 DEF Dispatches
  <2> QED BY <1>3, <1>6, <2>2, <2>3 DEF Advances, Goes
<1> QED BY <1>3, <1>7, <1>8

(* The result that is not shown ends the step.                             *)
LEMMA SuppressedAdvances ==
    ASSUME InSession, SuppressedResult
    PROVE  Advances
<1>1. Here \in Seq(NodeSet) /\ Settled(Here, Here)
  BY EventFacts, SettledAre
<1>2. Event(Here) /\ NextStep
  BY DEF SuppressedResult, NextStep
<1> QED BY <1>1, <1>2, AdvanceSettled DEF Ordered

(* turn/end settles all that streams.                                      *)
LEMMA EndAdvances ==
    ASSUME InSession, NEW tail \in BOOLEAN, TurnEnd(tail)
    PROVE  Advances
<1> PICK ids : ids = {n.id : n \in Streaming(Here)}
  OBVIOUS
<1> PICK q : q = Settle(Here, ids)
  OBVIOUS
<1> PICK n : n = Node(Fresh("entry"), "stable", 1)
  OBVIOUS
<1>1. Here \in Seq(NodeSet) /\ Settled(Here, q) /\ AllStable(q)
  BY EventFacts, SettledAre
<1>2. Event(IF tail THEN Append(q, n) ELSE q) /\ NextStep
  BY DEF TurnEnd, NextStep
<1>3. n \in NodeSet /\ NewId(Here, n, session, count, step[session])
  <2>1. "entry" \in Kinds \ {"assistant", "compaction"} /\ "entry" \in Kinds
    BY DEF Kinds
  <2> QED BY <2>1, EventFacts
<1>4. OnlyLastLive(q)
  BY <1>1, StableIsOrdered DEF Settled
<1>5. CASE tail
  BY <1>1, <1>2, <1>3, <1>5, AdvanceAppended
<1>6. CASE ~tail
  BY <1>1, <1>2, <1>4, <1>6, AdvanceSettled
<1> QED BY <1>5, <1>6

(* command/done settles the node of the last command.                      *)
LEMMA CommandAdvances ==
    ASSUME InSession, NEW lines \in Lines, CommandDone(lines)
    PROVE  Advances
<1> PICK commands : commands = {i \in DOMAIN Here : Here[i].id[2] = "command"}
  OBVIOUS
<1> PICK k : k = Max(commands)
  OBVIOUS
<1> PICK n : n = Node(Here[k].id, "stable", lines)
  OBVIOUS
<1>1. Here \in Seq(NodeSet)
  BY EventFacts
<1>2. /\ commands # {} /\ (Here[k].life = "live" \/ "rewrite" \in Conditions)
      /\ Event(Upsert(Here, n)) /\ SameStep
  BY DEF CommandDone, SameStep
<1>3. k \in DOMAIN Here
  <2>1. Len(Here) \in Nat /\ commands \in SUBSET (0..Len(Here))
    BY <1>1
  <2> QED BY <1>2, <2>1, MaxOfNats
<1>4. Here[k] \in Range(Here)
  BY <1>3 DEF Range
<1>5. n.id = Here[k].id /\ n \in NodeSet
  <2>1. lines \in Nat
    BY DEF Lines
  <2> QED BY <1>4, <2>1, EventFacts
<1>6. Orderly => Here[k] \in Streaming(Here)
  BY <1>2, <1>4 DEF Orderly, Streaming
<1> QED BY <1>2, <1>5, <1>6, AdvanceReplaced

(* compaction/start adds the Session's compaction node.                    *)
LEMMA CompactionAdvances ==
    ASSUME InSession, Compaction
    PROVE  Advances
<1> PICK id : id = <<session, "compaction", 0>>
  OBVIOUS
<1> PICK n : n = Node(id, "stable", 1)
  OBVIOUS
<1>1. Here \in Seq(NodeSet)
  BY EventFacts
<1>2. n.id = id /\ n.life = "stable" /\ n \in NodeSet
  BY DEF Node, NodeSet, Kinds, InSession
<1>3. /\ Event(Upsert(Here, n)) /\ SameStep /\ InTurn({})
      /\ Present(Here, id) => "rewrite" \in Conditions
  BY DEF Compaction, SameStep
<1>4. Upsert(Here, n) \in Seq(NodeSet)
  BY <1>1, <1>2, UpsertIs
<1>5. CASE Present(Here, id)
  <2>1. Settled(Here, Here)
    BY <1>1, SettledAre
  <2>2. PagesStay(Upsert(Here, n))
    BY <1>1, <1>2, <2>1, StaysPresent DEF PagesStay
  <2>3. ~Orderly
    BY <1>3, <1>5 DEF Orderly
  <2> QED BY <1>3, <1>4, <2>2, <2>3 DEF Advances
<1>6. CASE ~Present(Here, id)
  <2>1. Event(Append(Here, n))
    BY <1>1, <1>2, <1>3, <1>6, UpsertIs
  <2>2. NewId(Here, n, session, count, step[session])
    BY <1>2, <1>6 DEF NewId
  <2>3. Settled(Here, Here) /\ (Orderly => AllStable(Here))
    BY <1>1, <1>3, SettledAre, Undisturbed
  <2> QED BY <1>2, <1>3, <2>1, <2>2, <2>3, AdvanceAppended
<1> QED BY <1>5, <1>6

(* An older page comes first; what follows is not AppendOnly.              *)
LEMMA PageAdvances ==
    ASSUME InSession, NEW lines \in Lines, OlderPage(lines)
    PROVE  Advances
<1> PICK n : n = Node(Fresh("older"), "stable", lines)
  OBVIOUS
<1> PICK ns : ns = <<n>> \o Here
  OBVIOUS
<1>1. Here \in Seq(NodeSet) /\ n \in NodeSet /\ n.id[2] = "older"
  <2>1. lines \in Nat /\ "older" \in Kinds
    BY DEF Lines, Kinds
  <2>2. n \in NodeSet /\ Here \in Seq(NodeSet)
    BY <2>1, EventFacts
  <2> QED BY <2>2 DEF Node, Fresh
<1>2. <<n>> \in Seq(NodeSet) /\ Len(<<n>>) = 1 /\ <<n>>[1] = n
  BY <1>1
<1>3. /\ ns \in Seq(NodeSet) /\ 1 \in DOMAIN ns /\ ns[1] = n
      /\ \A i \in DOMAIN Here : i + 1 \in DOMAIN ns /\ ns[i + 1] = Here[i]
  <2>1. Len(Here) \in Nat
    BY <1>1
  <2>2. /\ <<n>> \o Here \in Seq(NodeSet) /\ Len(<<n>> \o Here) = Len(<<n>>) + Len(Here)
        /\ \A j \in 1..(Len(<<n>>) + Len(Here)) :
             (<<n>> \o Here)[j] = IF j <= Len(<<n>>) THEN <<n>>[j] ELSE Here[j - Len(<<n>>)]
    BY <1>1, <1>2, ConcatProperties
  <2>3. /\ 1 \in 1..(1 + Len(Here)) /\ DOMAIN Here = 1..Len(Here)
        /\ \A i \in 1..Len(Here) : i + 1 \in 1..(1 + Len(Here)) /\ ~(i + 1 <= 1) /\ (i + 1) - 1 = i
    BY <1>1, <2>1
  <2> QED BY <1>2, <2>1, <2>2, <2>3
<1>4. ~NoneOlder(ns)
  BY <1>1, <1>3 DEF NoneOlder, Range
<1>5. Event(ns) /\ SameStep
  BY DEF OlderPage, SameStep
<1>6. PagesStay(ns)
  BY <1>3 DEF PagesStay, Present, Range
<1> QED BY <1>3, <1>4, <1>5, <1>6 DEF Advances

(* Whatever happens is a selection or advances the selected Session.       *)
LEMMA HappensIs ==
    ASSUME session # NoSession => InSession, Happens
    PROVE  (\E s \in Sessions : Select(s)) \/ (InSession /\ Advances)
<1>1. CASE \E s \in Sessions : Select(s)
  BY <1>1
<1>2. ASSUME session # NoSession, NEW n \in 0..MaxLines, UserMessage(n) \/ Chunk(n) \/ Message(n)
      PROVE  InSession /\ Advances
  BY <1>2, AddsAdvance, ChunkAdvances, MessageAdvances
<1>3. ASSUME session # NoSession, TurnStart \/ (\E tail \in BOOLEAN : TurnEnd(tail))
      PROVE  InSession /\ Advances
  BY <1>3, StartAdvances, EndAdvances
<1>4. ASSUME session # NoSession, NEW n \in Lines, CommandDone(n) \/ OlderPage(n)
      PROVE  InSession /\ Advances
  BY <1>4, CommandAdvances, PageAdvances
<1>5. ASSUME session # NoSession, NEW n \in Lines,
             NEW id \in {m.id : m \in Range(Here)} \cup {Fresh("tool"), Fresh("sub")},
             ToolCall(id, n) \/ ToolResult(id, n) \/ CodeDispatchStart(id, n) \/ CodeDispatch(id, n)
      PROVE  InSession /\ Advances
  <2>1. ASSUME ToolCall(id, n) PROVE id = Fresh("tool") \/ \E m \in Range(Here) : m.id = id
    BY <2>1 DEF ToolCall, OfTool, Streaming
  <2> QED BY <1>5, <2>1, ToolCallAdvances, ResultsAdvance, DispatchAdvances
<1>6. ASSUME session # NoSession, SuppressedResult \/ UnknownEvent \/ CommandRun \/ Compaction
      PROVE  InSession /\ Advances
  BY <1>6, AddsAdvance, CompactionAdvances, SuppressedAdvances
<1> QED BY <1>1, <1>2, <1>3, <1>4, <1>5, <1>6 DEF Happens

-----------------------------------------------------------------------------
(*****************************************************************************)
(* 4. What is displayed is what the nodes were at the last projection, and   *)
(* the nodes have gone on from there; the buffer is exactly its rows.        *)
(*****************************************************************************)

\* What the buffer can be handed.
ElementSet == NodeSet \cup {Logo, Bar}

\* Types of what is displayed.
DisplayTypes ==
    /\ session \in Sessions \cup {NoSession} /\ displayed \in Sessions \cup {NoSession}
    /\ nodes \in [Sessions -> Seq(NodeSet)] /\ step \in [Sessions -> Nat]
    /\ count \in 0..MaxEvents /\ resizes \in 0..MaxResizes /\ bars \in Nat
    /\ projecting \in BOOLEAN /\ crashed \in BOOLEAN
    /\ projecting => session \in Sessions
    /\ elements \in Seq(ElementSet)
    /\ IsBuffer(buffer) /\ Numbered(buffer.rows)
    /\ buffer.width \in Widths \cup {0} /\ buffer.height \in Heights \cup {0}

\* Once the terminal was entered its size is known.
Sized ==
    terminal = "active" /\ ~crashed => buffer.width \in Widths /\ buffer.height \in Heights

\* The nodes of every Session are in order.
NodesInv == AppendOnly => \A s \in Sessions : Ordered(nodes[s], count, step[s])

\* The elements in the buffer are the logo and what the nodes were.
ElementsInv ==
    AppendOnly =>
        \/ displayed = NoSession /\ elements \in {<<>>, <<Logo>>}
        \/ displayed \in Sessions
           /\ \E old \in Seq(NodeSet) :
                /\ elements = <<Logo>> \o old
                /\ Follows(old, nodes[displayed], displayed, count, step[displayed])

\* Nothing was refused, and the buffer has exactly the elements' rows; their
\* numbers, and so the top row, are not negative.
ExactInv == AppendOnly => ~crashed /\ Exact(buffer, elements) /\ buffer.top \in Nat

\* What the theorems about the display are proved from.
DisplayInv == DisplayTypes /\ Sized /\ NodesInv /\ ElementsInv /\ ExactInv

(* The logo before the nodes.                                              *)
LEMMA LogoFirst ==
    ASSUME NEW ns \in Seq(NodeSet)
    PROVE  /\ <<Logo>> \o ns \in Seq(ElementSet)
           /\ Len(<<Logo>> \o ns) = Len(ns) + 1 /\ DOMAIN (<<Logo>> \o ns) = 1..(Len(ns) + 1)
           /\ (<<Logo>> \o ns)[1] = Logo
           /\ \A i \in 1..Len(ns) : (<<Logo>> \o ns)[i + 1] = ns[i]
           /\ \A i \in 1..(Len(ns) + 1) : i # 1 => i - 1 \in 1..Len(ns) /\ (<<Logo>> \o ns)[i] = ns[i - 1]
<1>1. NodeSet \subseteq ElementSet /\ Logo \in ElementSet
  BY DEF ElementSet
<1> PICK S : S = ElementSet
  OBVIOUS
<1> PICK l : l = <<Logo>>
  OBVIOUS
<1>2. /\ Len(ns) \in Nat /\ ns \in Seq(S) /\ l \in Seq(S) /\ Len(l) = 1 /\ l[1] = Logo
  BY <1>1
<1>3. /\ l \o ns \in Seq(S) /\ Len(l \o ns) = Len(l) + Len(ns)
      /\ \A j \in 1..(Len(l) + Len(ns)) : (l \o ns)[j] = IF j <= Len(l) THEN l[j] ELSE ns[j - Len(l)]
  BY <1>2, ConcatProperties
<1> PICK e : e = l \o ns
  OBVIOUS
<1>4. Len(e) = Len(ns) + 1 /\ DOMAIN e = 1..(Len(ns) + 1) /\ e \in Seq(S)
  BY <1>2, <1>3
<1>5. e[1] = Logo
  BY <1>2, <1>3
<1>6. \A i \in 1..Len(ns) : e[i + 1] = ns[i]
  <2> TAKE i \in 1..Len(ns)
  <2>1. i + 1 \in 1..(1 + Len(ns)) /\ ~(i + 1 <= 1) /\ (i + 1) - 1 = i
    BY <1>2
  <2> QED BY <1>2, <1>3, <2>1
<1>7. \A i \in 1..(Len(ns) + 1) : i # 1 => i - 1 \in 1..Len(ns) /\ e[i] = ns[i - 1]
  <2> TAKE i \in 1..(Len(ns) + 1)
  <2> SUFFICES ASSUME i # 1 PROVE i - 1 \in 1..Len(ns) /\ e[i] = ns[i - 1]
    OBVIOUS
  <2>1. i - 1 \in 1..Len(ns) /\ (i - 1) + 1 = i
    BY <1>2
  <2> QED BY <1>6, <2>1
<1> QED BY <1>4, <1>5, <1>6, <1>7

(* Elements have lines that can be counted.                                *)
LEMMA ElementsCount ==
    ASSUME NEW es \in Seq(ElementSet)
    PROVE  Countable(es)
<1>1. \A x \in ElementSet : x.lines \in Nat
  BY DEF ElementSet, NodeSet, Logo, Bar
<1>2. Len(es) \in Nat /\ DOMAIN es = 1..Len(es) /\ \A i \in 1..Len(es) : es[i] \in ElementSet
  OBVIOUS
<1> QED BY <1>1, <1>2 DEF Countable

(* What nodes keep, elements keep.                                         *)
LEMMA LogoContinues ==
    ASSUME NEW old \in Seq(NodeSet), NEW new \in Seq(NodeSet)
    PROVE  /\ Continues(old, new) => Continues(<<Logo>> \o old, <<Logo>> \o new)
           /\ OnlyLastLive(new) => OnlyLastLive(<<Logo>> \o new)
<1> PICK e : e = <<Logo>> \o old
  OBVIOUS
<1> PICK f : f = <<Logo>> \o new
  OBVIOUS
<1>1. /\ Len(old) \in Nat /\ DOMAIN e = 1..(Len(old) + 1) /\ e[1] = Logo /\ DOMAIN old = 1..Len(old)
      /\ \A i \in 1..Len(old) : e[i + 1] = old[i]
      /\ \A i \in DOMAIN e : i # 1 => i - 1 \in DOMAIN old /\ e[i] = old[i - 1]
  BY LogoFirst
<1>2. /\ Len(new) \in Nat /\ DOMAIN f = 1..(Len(new) + 1) /\ f[1] = Logo /\ DOMAIN new = 1..Len(new)
      /\ \A i \in 1..Len(new) : f[i + 1] = new[i]
      /\ \A i \in DOMAIN f : i # 1 => i - 1 \in DOMAIN new /\ f[i] = new[i - 1]
  BY LogoFirst
<1>3. Logo.life = "stable" /\ \A n \in NodeSet : n.id # Logo.id
  BY DEF Logo, NodeSet, Kinds
<1>4. ASSUME Continues(old, new) PROVE Continues(e, f)
  <2>1. ASSUME NEW a \in DOMAIN e, e[a].life = "stable" PROVE a \in DOMAIN f /\ f[a] = e[a]
    <3>1. CASE a = 1
      BY <1>1, <1>2, <3>1
    <3>2. CASE a # 1
      <4>1. a - 1 \in DOMAIN new /\ new[a - 1] = old[a - 1]
        BY <1>1, <1>4, <2>1, <3>2 DEF Continues
      <4>2. a \in DOMAIN f
        BY <1>1, <1>2, <4>1
      <4> QED BY <1>1, <1>2, <3>2, <4>1, <4>2
    <3> QED BY <3>1, <3>2
  <2>2. ASSUME NEW a \in DOMAIN e, NEW c \in DOMAIN f, e[a].id = f[c].id PROVE a = c
    <3>1. CASE a # 1 /\ c # 1
      <4>1. a - 1 = c - 1
        BY <1>1, <1>2, <1>4, <2>2, <3>1 DEF Continues
      <4> QED BY <1>1, <1>2, <4>1
    <3>2. CASE a = 1 /\ c # 1
      <4>1. f[c] \in NodeSet
        BY <1>2, <3>2
      <4> QED BY <1>1, <1>3, <2>2, <3>2, <4>1
    <3>3. CASE a # 1 /\ c = 1
      <4>1. e[a] \in NodeSet
        BY <1>1, <3>3
      <4> QED BY <1>2, <1>3, <2>2, <3>3, <4>1
    <3> QED BY <3>1, <3>2, <3>3
  <2>3. ASSUME NEW a \in DOMAIN e, NEW c \in DOMAIN e, a < c PROVE e[a].life = "stable"
    <3>1. CASE a = 1
      BY <1>1, <1>3, <3>1
    <3>2. CASE a # 1
      <4>1. a - 1 \in DOMAIN old /\ c - 1 \in DOMAIN old /\ a - 1 < c - 1 /\ e[a] = old[a - 1]
        BY <1>1, <2>3, <3>2
      <4> QED BY <1>4, <4>1 DEF Continues
    <3> QED BY <3>1, <3>2
  <2> QED BY <2>1, <2>2, <2>3 DEF Continues
<1>5. ASSUME OnlyLastLive(new) PROVE OnlyLastLive(f)
  <2> SUFFICES ASSUME NEW a \in DOMAIN f, NEW c \in DOMAIN f, a < c PROVE f[a].life = "stable"
    BY DEF OnlyLastLive
  <2>1. CASE a = 1
    BY <1>2, <1>3, <2>1
  <2>2. CASE a # 1
    <3>1. a - 1 \in DOMAIN new /\ c - 1 \in DOMAIN new /\ a - 1 < c - 1 /\ f[a] = new[a - 1]
      BY <1>2, <2>2
    <3> QED BY <1>5, <3>1 DEF OnlyLastLive
  <2> QED BY <2>1, <2>2
<1> QED BY <1>4, <1>5

(* The elements the buffer has are in order and continue themselves.       *)
LEMMA ElementsAre ==
    ASSUME DisplayInv, AppendOnly
    PROVE  Continues(elements, elements) /\ OnlyLastLive(elements)
<1>1. CASE displayed = NoSession /\ elements \in {<<>>, <<Logo>>}
  BY <1>1 DEF Continues, OnlyLastLive, Logo
<1>2. CASE displayed \in Sessions /\
           \E old \in Seq(NodeSet) :
              /\ elements = <<Logo>> \o old
              /\ Follows(old, nodes[displayed], displayed, count, step[displayed])
  <2> PICK old \in Seq(NodeSet) : elements = <<Logo>> \o old
                                  /\ Follows(old, nodes[displayed], displayed, count, step[displayed])
    BY <1>2
  <2>1. Continues(old, old) /\ OnlyLastLive(old)
    BY DEF Follows, Ordered, Continues, OnlyLastLive
  <2> QED BY <2>1, LogoContinues
<1> QED BY <1>1, <1>2 DEF DisplayInv, ElementsInv

(* And follows what was projected.                                         *)
LEMMA FollowsLater ==
    ASSUME NEW c \in Nat, NEW s, NEW st, NEW old \in Seq(NodeSet), NEW ns, Follows(old, ns, s, c, st)
    PROVE  Follows(old, ns, s, c + 1, st)
<1>1. Ordered(old, c + 1, st)
  BY OrderedLater DEF Follows
<1> QED BY <1>1 DEF Follows

(* A step that changes nothing of the display keeps its types ...          *)
LEMMA SameTypes ==
    ASSUME DisplayTypes, Sized,
           UNCHANGED <<session, nodes, step, count, projecting, bars, elements, displayed, buffer,
                       resizes>>,
           crashed' \in BOOLEAN,
           terminal' = "active" /\ ~crashed' => terminal = "active" /\ ~crashed
    PROVE  DisplayTypes' /\ Sized'
<1>1. DisplayTypes'
  BY DEF DisplayTypes
<1>2. Sized'
  BY DEF Sized
<1> QED BY <1>1, <1>2

(* ... and the display.                                                    *)
LEMMA SameDisplay ==
    ASSUME DisplayInv,
           UNCHANGED <<session, nodes, step, count, projecting, bars, elements, displayed, buffer,
                       resizes>>,
           crashed' \in BOOLEAN, AppendOnly => ~crashed',
           terminal' = "active" /\ ~crashed' => terminal = "active" /\ ~crashed
    PROVE  DisplayInv'
<1>1. DisplayTypes' /\ Sized'
  BY SameTypes DEF DisplayInv
<1>2. AppendOnly' = AppendOnly
  BY DEF AppendOnly
<1>4. NodesInv'
  BY <1>2 DEF DisplayInv, NodesInv
<1>5. ElementsInv'
  BY <1>2 DEF DisplayInv, ElementsInv
<1>6. ExactInv'
  BY <1>2 DEF DisplayInv, ExactInv
<1> QED BY <1>1, <1>4, <1>5, <1>6 DEF DisplayInv

(* No event takes an older page away.                                      *)
LEMMA PagesRemain ==
    ASSUME InSession, NEW ns \in Seq(NodeSet), Event(ns), PagesStay(ns), AppendOnly'
    PROVE  AppendOnly /\ NoneOlder(ns)
<1>1. /\ bars' = bars /\ nodes' = [nodes EXCEPT ![session] = ns]
      /\ nodes'[session] = ns
      /\ \A t \in Sessions : t # session => nodes'[t] = nodes[t]
  BY DEF Event, InSession
<1>2. NoneOlder(ns)
  BY <1>1 DEF AppendOnly, NoneOlder, InSession
<1>3. ASSUME NEW t \in Sessions, NEW n \in Range(nodes[t]), n.id[2] = "older" PROVE FALSE
  <2>1. CASE t # session
    BY <1>1, <1>3, <2>1 DEF AppendOnly
  <2>2. CASE t = session
    <3>1. Present(ns, n.id)
      BY <1>3, <2>2 DEF PagesStay, Here
    <3> QED BY <1>2, <1>3, <3>1 DEF Present, NoneOlder
  <2> QED BY <2>1, <2>2
<1> QED BY <1>1, <1>2, <1>3 DEF AppendOnly

(* An event leaves everything of its type ...                              *)
LEMMA AdvanceTypes ==
    ASSUME DisplayTypes, Sized, InSession, Advances, terminal' = terminal
    PROVE  DisplayTypes' /\ Sized'
<1> PICK ns \in Seq(NodeSet) : Event(ns) /\ (SameStep \/ NextStep)
  BY DEF Advances
<1>1. /\ ~crashed /\ crashed' = crashed /\ count < MaxEvents /\ count' = count + 1
      /\ session' = session /\ projecting' = TRUE /\ bars' = bars
      /\ elements' = elements /\ displayed' = displayed /\ buffer' = buffer /\ resizes' = resizes
      /\ nodes' = [nodes EXCEPT ![session] = ns]
  BY DEF Event, display
<1>2. nodes' \in [Sessions -> Seq(NodeSet)]
  BY <1>1 DEF InSession
<1>3. step' \in [Sessions -> Nat]
  BY DEF SameStep, NextStep, InSession
<1>4. DisplayTypes'
  <2>1. count' \in 0..MaxEvents
    BY <1>1, TranscriptAssumption DEF DisplayTypes
  <2>2. session' \in Sessions
    BY <1>1 DEF InSession
  <2> QED BY <1>1, <1>2, <1>3, <2>1, <2>2 DEF DisplayTypes
<1>5. Sized'
  BY <1>1 DEF Sized
<1> QED BY <1>4, <1>5

(* ... and is projected later.                                             *)
LEMMA AdvanceKeeps ==
    ASSUME DisplayInv, InSession, Advances, Orderly, terminal' = terminal
    PROVE  DisplayInv'
<1> PICK ns \in Seq(NodeSet) :
        /\ Event(ns) /\ PagesStay(ns)
        /\ SameStep \/ NextStep
        /\ Orderly /\ Ordered(Here, count, step[session]) /\ NoneOlder(ns) =>
             Goes(Here, ns, session, count, step[session], step'[session])
  BY DEF Advances
<1>1. /\ ~crashed /\ crashed' = crashed /\ count < MaxEvents /\ count' = count + 1
      /\ session' = session /\ projecting' = TRUE /\ bars' = bars
      /\ elements' = elements /\ displayed' = displayed /\ buffer' = buffer /\ resizes' = resizes
      /\ nodes' = [nodes EXCEPT ![session] = ns]
  BY DEF Event, display
<1>2. /\ nodes' \in [Sessions -> Seq(NodeSet)] /\ nodes'[session] = ns
      /\ \A t \in Sessions : t # session => nodes'[t] = nodes[t]
  BY <1>1 DEF InSession
<1>3. /\ step' \in [Sessions -> Nat]
      /\ \A t \in Sessions : t # session => step'[t] = step[t]
  BY DEF SameStep, NextStep, InSession
<1>4. DisplayTypes' /\ Sized'
  BY AdvanceTypes DEF DisplayInv
<1>6. ASSUME AppendOnly'
      PROVE  /\ AppendOnly
             /\ Goes(Here, ns, session, count, step[session], step'[session])
             /\ \A t \in Sessions : Ordered(nodes[t], count, step[t])
  <2>1. AppendOnly /\ NoneOlder(ns)
    BY <1>6, PagesRemain
  <2>2. \A t \in Sessions : Ordered(nodes[t], count, step[t])
    BY <2>1 DEF DisplayInv, NodesInv
  <2>3. Ordered(Here, count, step[session])
    BY <2>2 DEF InSession, Here
  <2> QED BY <2>1, <2>2, <2>3
<1>7. /\ count \in Nat /\ step[session] \in Nat /\ Here \in Seq(NodeSet) /\ session \in Sessions
      /\ Here = nodes[session]
  BY EventFacts DEF InSession, Here
<1>8. NodesInv'
  <2> SUFFICES ASSUME AppendOnly', NEW t \in Sessions PROVE Ordered(nodes'[t], count + 1, step'[t])
    BY <1>1 DEF NodesInv
  <2>1. CASE t = session
    <3>1. Ordered(Here, count, step[session])
      BY <1>6, <1>7
    <3>2. Ordered(ns, count + 1, step'[session])
      BY <1>6, <1>7, <3>1, GoesOrder
    <3> QED BY <1>2, <2>1, <3>2
  <2>2. CASE t # session
    <3>1. nodes[t] \in Seq(NodeSet) /\ Ordered(nodes[t], count, step[t])
      BY <1>6 DEF InSession
    <3>2. Ordered(nodes[t], count + 1, step[t])
      BY <1>7, <3>1, OrderedLater
    <3> QED BY <1>2, <1>3, <2>2, <3>2
  <2> QED BY <2>1, <2>2
<1>9. ElementsInv'
  <2>1. CASE ~AppendOnly'
    BY <2>1 DEF ElementsInv
  <2>2. CASE AppendOnly' /\ displayed = NoSession /\ elements \in {<<>>, <<Logo>>}
    BY <1>1, <2>2 DEF ElementsInv
  <2>3. CASE AppendOnly' /\ ~(displayed = NoSession /\ elements \in {<<>>, <<Logo>>})
    <3>1. displayed \in Sessions
      BY <1>6, <2>3 DEF DisplayInv, ElementsInv
    <3> PICK old \in Seq(NodeSet) :
                /\ elements = <<Logo>> \o old
                /\ Follows(old, nodes[displayed], displayed, count, step[displayed])
      BY <1>6, <2>3 DEF DisplayInv, ElementsInv
    <3>2. Follows(old, nodes'[displayed], displayed, count + 1, step'[displayed])
      <4>1. CASE displayed = session
        <5>1. Follows(old, Here, session, count, step[session])
          BY <1>7, <4>1
        <5>2. Follows(old, ns, session, count + 1, step'[session])
          BY <1>6, <1>7, <2>3, <5>1, GoesFollowing
        <5> QED BY <1>2, <4>1, <5>2
      <4>2. CASE displayed # session
        <5>1. Follows(old, nodes[displayed], displayed, count + 1, step[displayed])
          BY <1>7, FollowsLater
        <5> QED BY <1>2, <1>3, <3>1, <4>2, <5>1
      <4> QED BY <4>1, <4>2
    <3> QED BY <1>1, <3>1, <3>2 DEF ElementsInv
  <2> QED BY <2>1, <2>2, <2>3
<1>10. ExactInv'
  BY <1>1, <1>6 DEF DisplayInv, ExactInv
<1> QED BY <1>4, <1>8, <1>9, <1>10 DEF DisplayInv

(* So does a selection.                                                    *)
LEMMA SelectTypes ==
    ASSUME DisplayTypes, Sized, NEW s \in Sessions, Select(s), terminal' = terminal
    PROVE  DisplayTypes' /\ Sized'
<1>1. /\ ~crashed /\ crashed' = crashed /\ count < MaxEvents /\ count' = count + 1
      /\ session' = s /\ projecting' = TRUE /\ bars' = bars /\ nodes' = nodes /\ step' = step
      /\ elements' = elements /\ displayed' = displayed /\ buffer' = buffer /\ resizes' = resizes
  BY DEF Select, display
<1>2. count' \in 0..MaxEvents
  BY <1>1, TranscriptAssumption DEF DisplayTypes
<1>3. DisplayTypes'
  BY <1>1, <1>2 DEF DisplayTypes
<1>4. Sized'
  BY <1>1 DEF Sized
<1> QED BY <1>3, <1>4

(* What was projected is still in order then.                              *)
LEMMA SelectKeeps ==
    ASSUME DisplayInv, NEW s \in Sessions, Select(s), terminal' = terminal
    PROVE  DisplayInv'
<1>1. /\ ~crashed /\ crashed' = crashed /\ count < MaxEvents /\ count' = count + 1
      /\ session' = s /\ projecting' = TRUE /\ bars' = bars /\ nodes' = nodes /\ step' = step
      /\ elements' = elements /\ displayed' = displayed /\ buffer' = buffer /\ resizes' = resizes
  BY DEF Select, display
<1>2. AppendOnly' = AppendOnly
  BY <1>1 DEF AppendOnly
<1>3. count \in Nat
  BY TranscriptAssumption DEF DisplayInv, DisplayTypes
<1>4. DisplayTypes' /\ Sized'
  BY SelectTypes DEF DisplayInv
<1>6. NodesInv'
  <2> SUFFICES ASSUME AppendOnly, NEW t \in Sessions PROVE Ordered(nodes[t], count + 1, step[t])
    BY <1>1, <1>2 DEF NodesInv
  <2>1. nodes[t] \in Seq(NodeSet) /\ Ordered(nodes[t], count, step[t])
    BY DEF DisplayInv, DisplayTypes, NodesInv
  <2> QED BY <1>3, <2>1, OrderedLater
<1>7. ElementsInv'
  <2>1. CASE ~AppendOnly'
    BY <2>1 DEF ElementsInv
  <2>2. CASE AppendOnly' /\ displayed = NoSession /\ elements \in {<<>>, <<Logo>>}
    BY <1>1, <2>2 DEF ElementsInv
  <2>3. CASE AppendOnly' /\ ~(displayed = NoSession /\ elements \in {<<>>, <<Logo>>})
    <3>1. displayed \in Sessions
      BY <1>2, <2>3 DEF DisplayInv, ElementsInv
    <3> PICK old \in Seq(NodeSet) :
                /\ elements = <<Logo>> \o old
                /\ Follows(old, nodes[displayed], displayed, count, step[displayed])
      BY <1>2, <2>3 DEF DisplayInv, ElementsInv
    <3>2. Follows(old, nodes[displayed], displayed, count + 1, step[displayed])
      BY <1>3, FollowsLater
    <3> QED BY <1>1, <3>1, <3>2 DEF ElementsInv
  <2> QED BY <2>1, <2>2, <2>3
<1>8. ExactInv'
  BY <1>1, <1>2 DEF DisplayInv, ExactInv
<1> QED BY <1>4, <1>6, <1>7, <1>8 DEF DisplayInv

(* A subagent puts its bar before the rows.                                *)
LEMMA SubagentTypes ==
    ASSUME DisplayTypes, Sized, Subagent, terminal' = terminal
    PROVE  DisplayTypes' /\ Sized' /\ ~AppendOnly'
<1>1. /\ ~crashed /\ crashed' = crashed /\ count < MaxEvents /\ count' = count + 1
      /\ session' = session /\ projecting' = projecting /\ bars' = bars + 1 /\ nodes' = nodes
      /\ step' = step
      /\ elements' = elements /\ displayed' = displayed /\ buffer' = buffer /\ resizes' = resizes
  BY DEF Subagent, display
<1>2. bars' \in Nat /\ bars' # 0 /\ count' \in 0..MaxEvents
  BY <1>1, TranscriptAssumption DEF DisplayTypes
<1>3. ~AppendOnly'
  BY <1>2 DEF AppendOnly
<1>4. DisplayTypes'
  BY <1>1, <1>2 DEF DisplayTypes
<1>5. Sized'
  BY <1>1 DEF Sized
<1> QED BY <1>3, <1>4, <1>5

(* Nothing more is said of the display then.                               *)
LEMMA SubagentKeeps ==
    ASSUME DisplayInv, Subagent, terminal' = terminal
    PROVE  DisplayInv'
BY SubagentTypes DEF DisplayInv, NodesInv, ElementsInv, ExactInv

(* What a reflow makes of a buffer.                                        *)
LEMMA ReflowIs ==
    ASSUME NEW b, IsBuffer(b), Numbered(b.rows), NEW es, Countable(es), NEW w \in Nat
    PROVE  /\ IsBuffer(Reflow(b, es, w)) /\ Numbered(Reflow(b, es, w).rows)
           /\ Reflow(b, es, w).width = w /\ Reflow(b, es, w).height = b.height
           /\ Reflow(b, es, w).follow = b.follow
<1> PICK rows : rows = Retained(NumberedRows(b, es, w))
  OBVIOUS
<1> PICK top : top = IF b.follow THEN MaxTop(rows, b.height) ELSE Clamp(b.top, rows, b.height)
  OBVIOUS
<1>1. Reflow(b, es, w) = [b EXCEPT !.width = w, !.rows = rows, !.top = top]
  BY DEF Reflow
<1>2. Reflow(b, es, w) = [width |-> w, rows |-> rows, top |-> top, height |-> b.height,
                          follow |-> b.follow]
  BY <1>1 DEF IsBuffer
<1>3. Numbered(rows)
  BY TranscriptAssumption, RowsNumbered
<1> QED BY <1>2, <1>3 DEF IsBuffer

(* And what a viewport does.                                               *)
LEMMA ViewportIs ==
    ASSUME NEW b, IsBuffer(b), NEW top, NEW height, NEW follow
    PROVE  /\ IsBuffer(SetViewport(b, top, height, follow))
           /\ SetViewport(b, top, height, follow).rows = b.rows
           /\ SetViewport(b, top, height, follow).width = b.width
           /\ SetViewport(b, top, height, follow).height = height
<1> PICK t : t = Clamp(top, b.rows, height)
  OBVIOUS
<1> PICK f : f = (follow /\ t = MaxTop(b.rows, height))
  OBVIOUS
<1>1. SetViewport(b, top, height, follow) = [b EXCEPT !.top = t, !.height = height, !.follow = f]
  BY DEF SetViewport
<1>2. SetViewport(b, top, height, follow)
        = [width |-> b.width, rows |-> b.rows, top |-> t, height |-> height, follow |-> f]
  BY <1>1 DEF IsBuffer
<1> QED BY <1>2 DEF IsBuffer

(* The top of exact rows is not above the first of them.                   *)
LEMMA TopIsNat ==
    ASSUME NEW b, NEW es, Countable(es), b.width \in Nat, Exact(b, es), NEW h \in Nat, NEW top \in Nat
    PROVE  MaxTop(b.rows, h) \in Nat /\ Clamp(top, b.rows, h) \in Nat
<1> PICK q : q = b.rows
  OBVIOUS
<1> PICK r : r = RowsFor(es, b.width)
  OBVIOUS
<1> PICK c : c = Cut(r)
  OBVIOUS
<1>1. /\ Len(q) \in Nat /\ DOMAIN q = 1..Len(q)
      /\ \A i \in DOMAIN q : q[i].abs = i + c - 1
  BY ExactInOrder, TranscriptAssumption
<1>2. c \in Nat /\ q \in Seq(Range(r))
  <2>1. Len(r) \in Nat /\ r \in Seq(Range(r))
    BY RowsInPlace, PlacedRows
  <2>2. Cut(r) \in 0..Len(r) /\ Retained(r) \in Seq(Range(r))
    BY <2>1, RetainedAre, TranscriptAssumption
  <2> QED BY <2>1, <2>2 DEF Exact
<1>3. q # <<>> => 1 \in DOMAIN q /\ Len(q) \in DOMAIN q
  <2> PICK S : S = Range(r)
    OBVIOUS
  <2> QED BY <1>1, <1>2
<1>6. First(q) \in Nat
  BY <1>1, <1>2, <1>3 DEF First
<1> PICK f : f = First(q)
  OBVIOUS
<1>4. MaxTop(q, h) \in Nat
  <2>1. CASE q = <<>>
    BY <2>1 DEF MaxTop
  <2>2. CASE q # <<>>
    <3> PICK n : n = Len(q)
      OBVIOUS
    <3> PICK x : x = Last(q).abs - h + 1
      OBVIOUS
    <3>1. n \in DOMAIN q /\ n \in Nat
      BY <1>1, <1>3, <2>2
    <3>2. Last(q).abs = n + c - 1
      BY <1>1, <3>1 DEF Last
    <3>3. x \in Int
      BY <1>2, <3>1, <3>2
    <3>4. Max({f, x}) = IF f <= x THEN x ELSE f
      <4>1. f \in Int
        BY <1>6
      <4> QED BY ONLY <3>3, <4>1, OfTwo
    <3>5. Max({f, x}) \in Nat
      BY <1>6, <3>3, <3>4
    <3> QED BY <2>2, <3>5 DEF MaxTop
  <2> QED BY <2>1, <2>2
<1>5. Clamp(top, q, h) \in Nat
  <2> PICK y : y = MaxTop(q, h)
    OBVIOUS
  <2> PICK m : m = Min({top, y})
    OBVIOUS
  <2>1. y \in Nat /\ y \in Int /\ top \in Int /\ f \in Int
    BY <1>4, <1>6
  <2>2. m = IF top <= y THEN top ELSE y
    BY <2>1, OfTwo
  <2>3. m \in Nat /\ m \in Int
    BY <2>1, <2>2
  <2>4. Max({f, m}) = IF f <= m THEN m ELSE f
    BY <2>1, <2>3, OfTwo
  <2>5. Max({f, m}) \in Nat
    BY <1>6, <2>3, <2>4
  <2> QED BY <2>5 DEF Clamp
<1> QED BY <1>4, <1>5

(* And a reset.                                                            *)
LEMMA ResetIs ==
    ASSUME NEW b, IsBuffer(b)
    PROVE  /\ IsBuffer(Reset(b)) /\ Reset(b).rows = <<>> /\ Numbered(Reset(b).rows)
           /\ Reset(b).width = b.width /\ Reset(b).height = b.height /\ Reset(b).follow = TRUE
           /\ Reset(b).top = 0
<1> PICK f : f = TRUE
  OBVIOUS
<1> PICK r : r = <<>>
  OBVIOUS
<1>1. Reset(b) = [b EXCEPT !.rows = r, !.top = 0, !.follow = f]
  BY DEF Reset
<1>2. Reset(b) = [width |-> b.width, rows |-> r, top |-> 0, height |-> b.height, follow |-> f]
  BY <1>1 DEF IsBuffer
<1>3. Numbered(r)
  BY DEF Numbered
<1> QED BY <1>2, <1>3 DEF IsBuffer

(* The elements that are projected.                                        *)
LEMMA ElementsTyped ==
    ASSUME DisplayTypes, session \in Sessions
    PROVE  /\ Here \in Seq(NodeSet) /\ Elements \in Seq(ElementSet) /\ Countable(Elements)
           /\ bars = 0 => Elements = <<Logo>> \o Here
<1>1. Here \in Seq(NodeSet)
  BY DEF DisplayTypes, Here
<1>2. /\ Here \in Seq(ElementSet) /\ <<Logo>> \in Seq(ElementSet) /\ <<Bar>> \in Seq(ElementSet)
  BY <1>1 DEF ElementSet
<1> PICK q : q = IF bars = 1 THEN <<Bar>> ELSE <<>>
  OBVIOUS
<1>3. q \in Seq(ElementSet) /\ (bars = 0 => q = <<>>)
  BY <1>2
<1>4. Elements = <<Logo>> \o q \o Here
  BY DEF Elements
<1>5. Elements \in Seq(ElementSet)
  BY <1>2, <1>3, <1>4
<1>6. bars = 0 => Elements = <<Logo>> \o Here
  BY <1>2, <1>3, <1>4
<1> QED BY <1>1, <1>5, <1>6, ElementsCount

(* The terminal has a size.                                                *)
LEMMA WidthIs ==
    ASSUME Sized, terminal = "active", ~crashed
    PROVE  buffer.width \in Widths /\ buffer.width \in Nat \ {0} /\ Width = buffer.width
<1>1. buffer.width \in Widths
  BY DEF Sized
<1>2. buffer.width \in Nat \ {0}
  BY <1>1, TranscriptAssumption
<1> QED BY <1>1, <1>2 DEF Width

(* What a projection does.                                                 *)
LEMMA ProjectIs ==
    ASSUME DisplayTypes, Sized, Project, terminal = "active", terminal' = terminal,
           NEW b, b = IF displayed = session THEN buffer ELSE Reset(buffer),
           NEW w, w = buffer.width, NEW es, es = Elements
    PROVE  /\ w \in Nat /\ w \in Widths /\ ~crashed /\ elements' = es
           /\ crashed' = Refuses(b, es, w)
           /\ buffer' = IF crashed' THEN b ELSE Reflow(b, es, w)
           /\ displayed' = session /\ session' = session /\ nodes' = nodes /\ step' = step
           /\ count' = count /\ bars' = bars /\ resizes' = resizes /\ session \in Sessions
           /\ Here \in Seq(NodeSet) /\ es \in Seq(ElementSet) /\ Countable(es)
           /\ bars = 0 => es = <<Logo>> \o Here
           /\ IsBuffer(b) /\ Numbered(b.rows) /\ b.width = w /\ b.height = buffer.height
           /\ displayed # session => b.rows = <<>> /\ b.top = 0
           /\ DisplayTypes' /\ Sized'
<1>1. w \in Nat /\ w \in Widths /\ Width = w /\ ~crashed
  BY WidthIs DEF Project
<1>2. /\ ~crashed /\ projecting /\ projecting' = FALSE /\ elements' = es
      /\ crashed' = Refuses(b, es, w)
      /\ buffer' = IF crashed' THEN b ELSE Reflow(b, es, w)
      /\ displayed' = session /\ session' = session /\ nodes' = nodes /\ step' = step
      /\ count' = count /\ bars' = bars /\ resizes' = resizes
  BY <1>1 DEF Project, history
<1>3. session \in Sessions
  BY <1>2 DEF DisplayTypes
<1>4. Here \in Seq(NodeSet) /\ es \in Seq(ElementSet) /\ Countable(es) /\ (bars = 0 => es = <<Logo>> \o Here)
  BY <1>3, ElementsTyped
<1>5. /\ IsBuffer(b) /\ Numbered(b.rows) /\ b.width = w /\ b.height = buffer.height
      /\ displayed # session => b.rows = <<>> /\ b.top = 0
  BY <1>3, ResetIs DEF DisplayTypes
<1>6. /\ IsBuffer(buffer') /\ Numbered((buffer').rows) /\ (buffer').width = w
      /\ (buffer').height = buffer.height
  <2>1. IsBuffer(b) /\ Numbered(b.rows) /\ Countable(es) /\ w \in Nat
    BY <1>1, <1>4, <1>5
  <2> PICK c : c = Reflow(b, es, w)
    OBVIOUS
  <2>2. IsBuffer(c) /\ Numbered(c.rows) /\ c.width = w /\ c.height = b.height
    BY <2>1, ReflowIs
  <2>3. buffer' = b \/ buffer' = c
    BY <1>2
  <2> QED BY <1>5, <2>2, <2>3
<1>7. DisplayTypes'
  <2>1. crashed' \in BOOLEAN
    BY <1>2 DEF Refuses, StableAfterLive, RewritesCommitted
  <2> QED BY <1>1, <1>2, <1>3, <1>4, <1>6, <2>1 DEF DisplayTypes
<1>8. Sized'
  BY <1>1, <1>2, <1>6 DEF Sized
<1> QED BY <1>1, <1>2, <1>3, <1>4, <1>5, <1>7, <1>8

(* The sizes of the terminal are numbers.                                  *)
LEMMA SizesAre ==
    /\ \A w \in Widths : w \in Nat /\ w \in Nat \ {0}
    /\ \A h \in Heights : h \in Nat /\ h \in Nat \ {0}
    /\ \A w \in Widths \cup {0} : w \in Nat
    /\ \A h \in Heights \cup {0} : h \in Nat
    /\ MaxRetained \in Nat
BY TranscriptAssumption

(* A projection puts the latest nodes in the buffer.                       *)
LEMMA ProjectKeeps ==
    ASSUME DisplayInv, Project, terminal = "active", terminal' = terminal
    PROVE  DisplayInv'
<1> PICK b : b = IF displayed = session THEN buffer ELSE Reset(buffer)
  OBVIOUS
<1> PICK w : w = buffer.width
  OBVIOUS
<1> PICK es : es = Elements
  OBVIOUS
<1>1. /\ w \in Nat /\ w \in Widths /\ ~crashed /\ elements' = es
      /\ crashed' = Refuses(b, es, w)
      /\ buffer' = IF crashed' THEN b ELSE Reflow(b, es, w)
      /\ displayed' = session /\ session' = session /\ nodes' = nodes /\ step' = step
      /\ count' = count /\ bars' = bars /\ resizes' = resizes /\ session \in Sessions
      /\ Here \in Seq(NodeSet) /\ es \in Seq(ElementSet) /\ Countable(es)
      /\ bars = 0 => es = <<Logo>> \o Here
      /\ IsBuffer(b) /\ Numbered(b.rows) /\ b.width = w /\ b.height = buffer.height
      /\ displayed # session => b.rows = <<>> /\ b.top = 0
      /\ DisplayTypes' /\ Sized'
  BY ProjectIs DEF DisplayInv
<1>2. DisplayTypes
  BY DEF DisplayInv
<1>3. AppendOnly' = AppendOnly
  BY <1>1 DEF AppendOnly
<1>4. NodesInv'
  BY <1>1, <1>3 DEF DisplayInv, NodesInv
<1>5. ASSUME AppendOnly PROVE ElementsInv' /\ ExactInv'
  <2>1. /\ es = <<Logo>> \o Here /\ Ordered(Here, count, step[session])
    BY <1>1, <1>5 DEF AppendOnly, DisplayInv, NodesInv, Here
  <2>2. Follows(Here, nodes[session], session, count, step[session])
    BY <2>1, FollowsItself DEF Here
  <2>3. ElementsInv'
    BY <1>1, <2>1, <2>2 DEF ElementsInv
  <2>4. OnlyLastLive(es)
    BY <1>1, <2>1, LogoContinues, FollowsItself DEF Ordered
  <2>5. NumberedRows(b, es, w) = RowsFor(es, w) /\ ~Refuses(b, es, w)
    <3>1. CASE displayed # session
      BY <1>1, <2>4, <3>1, FirstRows
    <3>2. CASE displayed = session
      <4>1. PICK old \in Seq(NodeSet) :
                /\ elements = <<Logo>> \o old
                /\ Follows(old, nodes[displayed], displayed, count, step[displayed])
        BY <1>1, <1>5, <3>2, TranscriptAssumption DEF DisplayInv, ElementsInv
      <4>2. Continues(old, Here)
        BY <3>2, <4>1 DEF Follows, Here
      <4>3. Continues(elements, es)
        BY <1>1, <2>1, <4>1, <4>2, LogoContinues
      <4>4. Exact(b, elements) /\ Countable(elements)
        BY <1>1, <1>2, <1>5, <3>2, ElementsCount DEF DisplayInv, ExactInv, DisplayTypes
      <4> QED BY <1>1, <2>4, <4>3, <4>4, TranscriptAssumption, ExactRows
    <3> QED BY <3>1, <3>2
  <2>6. ~crashed' /\ buffer' = Reflow(b, es, w)
    BY <1>1, <2>5
  <2> PICK c : c = Reflow(b, es, w)
    OBVIOUS
  <2>7. /\ Exact(c, es) /\ c.width = w
        /\ c.top = IF b.follow THEN MaxTop(c.rows, b.height) ELSE Clamp(b.top, c.rows, b.height)
    BY <1>1, <2>5, ReflowIsExact
  <2>8. c.top \in Nat
    <3>1. b.height \in Nat
      BY <1>1, <1>2, SizesAre DEF DisplayTypes
    <3>2. b.top \in Nat
      BY <1>1, <1>5 DEF DisplayInv, ExactInv
    <3> QED BY <1>1, <2>7, <3>1, <3>2, TopIsNat
  <2> QED BY <1>1, <2>3, <2>6, <2>7, <2>8 DEF ExactInv
<1>6. CASE ~AppendOnly
  BY <1>1, <1>3, <1>4, <1>6 DEF DisplayInv, ElementsInv, ExactInv
<1> QED BY <1>1, <1>4, <1>5, <1>6 DEF DisplayInv

(* The buffer is exact, and its elements can be counted.                   *)
LEMMA BufferIs ==
    ASSUME DisplayInv
    PROVE  /\ Countable(elements) /\ buffer.width \in Nat
           /\ AppendOnly => ~crashed /\ Exact(buffer, elements) /\ buffer.top \in Nat
<1>1. elements \in Seq(ElementSet) /\ buffer.width \in Widths \cup {0}
  BY DEF DisplayInv, DisplayTypes
<1>2. Countable(elements)
  BY <1>1, ElementsCount
<1>3. buffer.width \in Nat
  BY <1>1, SizesAre
<1> QED BY <1>2, <1>3 DEF DisplayInv, ExactInv

(* The elements that a resize shows.                                       *)
LEMMA ResizedTypes ==
    ASSUME DisplayTypes, NEW es, es = IF elements = <<>> THEN <<Logo>> ELSE elements
    PROVE  es \in Seq(ElementSet) /\ Countable(es)
<1>1. es \in Seq(ElementSet)
  <2>1. <<Logo>> \in Seq(ElementSet)
    BY DEF ElementSet
  <2> QED BY <2>1 DEF DisplayTypes
<1> QED BY <1>1, ElementsCount

(* They are in order.                                                      *)
LEMMA ResizedElements ==
    ASSUME DisplayInv, NEW es, es = IF elements = <<>> THEN <<Logo>> ELSE elements
    PROVE  /\ es \in Seq(ElementSet) /\ Countable(es)
           /\ AppendOnly => /\ Continues(elements, es) /\ OnlyLastLive(es)
                            /\ displayed = NoSession => es = <<Logo>>
                            /\ displayed # NoSession => es = elements
<1>1. es \in Seq(ElementSet) /\ Countable(es)
  BY ResizedTypes DEF DisplayInv
<1>3. ASSUME AppendOnly, displayed # NoSession PROVE es = elements
  <2>1. PICK old \in Seq(NodeSet) : elements = <<Logo>> \o old
    BY <1>3 DEF DisplayInv, ElementsInv
  <2>2. Len(elements) = Len(old) + 1 /\ Len(old) \in Nat
    BY <2>1, LogoFirst
  <2>3. elements # <<>>
    BY <2>2
  <2> QED BY <2>3
<1>4. ASSUME AppendOnly, displayed = NoSession PROVE es = <<Logo>>
  BY <1>4, TranscriptAssumption DEF DisplayInv, ElementsInv
<1>5. ASSUME AppendOnly PROVE Continues(elements, es) /\ OnlyLastLive(es)
  <2>1. CASE elements = <<>>
    BY <2>1 DEF Continues, OnlyLastLive, Logo
  <2>2. CASE elements # <<>>
    BY <1>5, <2>2, ElementsAre
  <2> QED BY <2>1, <2>2
<1> QED BY <1>1, <1>3, <1>4, <1>5

(* What a resize does.                                                     *)
LEMMA ResizeIs ==
    ASSUME DisplayTypes, NEW w \in Widths, NEW h \in Heights, Resize(w, h),
           NEW es, es = IF elements = <<>> THEN <<Logo>> ELSE elements,
           NEW r, r = Reflow(buffer, es, w), NEW v, v = SetViewport(r, buffer.top, h, buffer.follow)
    PROVE  /\ ~crashed /\ elements' = es /\ crashed' = (Refuses(buffer, es, w) \/ InvalidTop(buffer.top))
           /\ buffer' = IF crashed' THEN buffer ELSE v
           /\ UNCHANGED <<session, nodes, step, count, projecting, bars, displayed>>
           /\ w \in Nat /\ h \in Nat /\ w # 0 /\ h # 0 /\ Countable(es)
           /\ IsBuffer(buffer) /\ IsBuffer(r) /\ r.width = w
           /\ IsBuffer(v) /\ v.rows = r.rows /\ v.width = w /\ v.height = h
           /\ DisplayTypes' /\ Sized'
<1>1. /\ ~crashed /\ resizes < MaxResizes /\ resizes' = resizes + 1
      /\ elements' = es /\ crashed' = (Refuses(buffer, es, w) \/ InvalidTop(buffer.top))
      /\ buffer' = IF crashed' THEN buffer ELSE v
      /\ UNCHANGED <<session, nodes, step, count, projecting, bars, displayed>>
  BY DEF Resize, history
<1>2. w \in Nat /\ h \in Nat /\ w # 0 /\ h # 0
  BY SizesAre
<1>3. es \in Seq(ElementSet) /\ Countable(es)
  BY ResizedTypes
<1>4. /\ IsBuffer(r) /\ Numbered(r.rows) /\ r.width = w /\ r.height = buffer.height
      /\ IsBuffer(buffer) /\ Numbered(buffer.rows)
  <2>1. IsBuffer(buffer) /\ Numbered(buffer.rows)
    BY DEF DisplayTypes
  <2> QED BY <1>2, <1>3, <2>1, ReflowIs
<1>5. IsBuffer(v) /\ v.rows = r.rows /\ v.width = w /\ v.height = h
  BY <1>4, ViewportIs
<1>6. DisplayTypes'
  <2>1. crashed' \in BOOLEAN
    BY <1>1
  <2>2. resizes' \in 0..MaxResizes
    BY <1>1, TranscriptAssumption DEF DisplayTypes
  <2>3. /\ IsBuffer(buffer') /\ Numbered((buffer').rows)
        /\ (buffer').width \in Widths \cup {0} /\ (buffer').height \in Heights \cup {0}
    <3>1. buffer' = buffer \/ buffer' = v
      BY <1>1
    <3>2. buffer.width \in Widths \cup {0} /\ buffer.height \in Heights \cup {0}
      BY DEF DisplayTypes
    <3> QED BY <1>4, <1>5, <3>1, <3>2
  <2> QED BY <1>1, <1>3, <2>1, <2>2, <2>3 DEF DisplayTypes
<1>7. Sized'
  <2>1. ~crashed' => buffer' = v
    BY <1>1
  <2> QED BY <1>5, <2>1 DEF Sized
<1> QED BY <1>1, <1>2, <1>3, <1>4, <1>5, <1>6, <1>7

(* A resize lays the same elements out anew.                               *)
LEMMA ResizeKeeps ==
    ASSUME DisplayInv, NEW w \in Widths, NEW h \in Heights, Resize(w, h)
    PROVE  DisplayInv'
<1> PICK es : es = IF elements = <<>> THEN <<Logo>> ELSE elements
  OBVIOUS
<1> PICK r : r = Reflow(buffer, es, w)
  OBVIOUS
<1> PICK v : v = SetViewport(r, buffer.top, h, buffer.follow)
  OBVIOUS
<1>1. /\ ~crashed /\ elements' = es /\ crashed' = (Refuses(buffer, es, w) \/ InvalidTop(buffer.top))
      /\ buffer' = IF crashed' THEN buffer ELSE v
      /\ UNCHANGED <<session, nodes, step, count, projecting, bars, displayed>>
      /\ w \in Nat /\ h \in Nat /\ Countable(es)
      /\ IsBuffer(buffer) /\ IsBuffer(r) /\ v.rows = r.rows /\ v.width = w /\ r.width = w
      /\ DisplayTypes' /\ Sized'
  BY ResizeIs DEF DisplayInv
<1>2. /\ AppendOnly => /\ Continues(elements, es) /\ OnlyLastLive(es)
                       /\ displayed = NoSession => es = <<Logo>>
                       /\ displayed # NoSession => es = elements
  BY ResizedElements
<1>3. AppendOnly' = AppendOnly
  BY <1>1 DEF AppendOnly
<1>4. NodesInv'
  BY <1>1, <1>3 DEF DisplayInv, NodesInv
<1>5. ASSUME AppendOnly PROVE ElementsInv' /\ ExactInv'
  <2>1. ElementsInv'
    <3>1. CASE displayed = NoSession
      BY <1>1, <1>2, <1>5, <3>1 DEF ElementsInv
    <3>2. CASE displayed # NoSession
      BY <1>1, <1>2, <1>3, <1>5, <3>2 DEF DisplayInv, ElementsInv
    <3> QED BY <3>1, <3>2
  <2>2. Exact(buffer, elements) /\ Countable(elements) /\ buffer.width \in Nat /\ buffer.top \in Nat
    BY <1>5, BufferIs
  <2>3. NumberedRows(buffer, es, w) = RowsFor(es, w) /\ ~Refuses(buffer, es, w)
    BY <1>1, <1>2, <1>5, <2>2, SizesAre, ExactRows
  <2>4. ~crashed' /\ buffer' = v
    <3>1. ~InvalidTop(buffer.top)
      BY <2>2 DEF InvalidTop
    <3> QED BY <1>1, <2>3, <3>1
  <2>5. Exact(r, es)
    BY <1>1, <2>3, ReflowIsExact
  <2>6. Exact(v, es) /\ v.top = Clamp(buffer.top, r.rows, h)
    BY <1>1, <2>5, ViewportIsExact
  <2>7. v.top \in Nat
    <3>1. Countable(es) /\ r.width \in Nat /\ Exact(r, es) /\ h \in Nat /\ buffer.top \in Nat
      BY <1>1, <2>2, <2>5
    <3>2. Clamp(buffer.top, r.rows, h) \in Nat
      BY ONLY <3>1, TopIsNat
    <3> QED BY <2>6, <3>2
  <2> QED BY <1>1, <2>1, <2>4, <2>6, <2>7 DEF ExactInv
<1>6. CASE ~AppendOnly
  BY <1>1, <1>3, <1>4, <1>6 DEF DisplayInv, ElementsInv, ExactInv
<1> QED BY <1>1, <1>4, <1>5, <1>6 DEF DisplayInv

(* The rows of an exact buffer are in order, and so are those of a frame.  *)
LEMMA InOrder ==
    ASSUME DisplayInv
    PROVE  RowsInOrder /\ (AppendOnly => ~FrameOutOfOrder(buffer))
<1> SUFFICES ASSUME AppendOnly
             PROVE  /\ \A i \in 2..Len(buffer.rows) : buffer.rows[i].abs = buffer.rows[i - 1].abs + 1
                    /\ ~FrameOutOfOrder(buffer)
  BY DEF RowsInOrder
<1>1. Exact(buffer, elements) /\ Countable(elements) /\ buffer.width \in Nat
  BY BufferIs
<1> PICK c : c = Cut(RowsFor(elements, buffer.width))
  OBVIOUS
<1> PICK q : q = buffer.rows
  OBVIOUS
<1>2. /\ \A i \in 2..Len(q) : q[i].abs = q[i - 1].abs + 1
      /\ Len(q) \in Nat /\ DOMAIN q = 1..Len(q)
      /\ \A i \in DOMAIN q : q[i].abs = i + c - 1
  BY <1>1, ExactInOrder, SizesAre
<1>3. c \in Nat
  <2> PICK r : r = RowsFor(elements, buffer.width)
    OBVIOUS
  <2>1. InPlace(r)
    BY <1>1, RowsInPlace
  <2>2. Len(r) \in Nat /\ r \in Seq(Range(r))
    BY <2>1, PlacedRows
  <2>3. Cut(r) \in 0..Len(r)
    BY <2>2, SizesAre, RetainedAre
  <2> QED BY <2>2, <2>3
<1>4. ASSUME NEW i \in Visible(buffer), NEW j \in Visible(buffer), i < j, q[i].abs >= q[j].abs
      PROVE  FALSE
  <2>1. i \in DOMAIN q /\ j \in DOMAIN q
    BY DEF Visible
  <2>2. i \in Nat /\ j \in Nat /\ q[i].abs = i + c - 1 /\ q[j].abs = j + c - 1
    BY <1>2, <2>1
  <2> QED BY <1>3, <1>4, <2>2
<1> QED BY <1>2, <1>4 DEF FrameOutOfOrder

(* A render makes a frame of the rows.                                     *)
LEMMA FrameKeeps ==
    ASSUME DisplayInv, Frame, terminal = "active", ~crashed
    PROVE  DisplayInv'
<1>1. /\ crashed' = FrameOutOfOrder(buffer)
      /\ UNCHANGED <<session, nodes, step, count, projecting, bars, elements, displayed, buffer,
                       resizes>>
  BY DEF Frame, history
<1>2. crashed' \in BOOLEAN /\ (AppendOnly => ~crashed')
  BY <1>1, InOrder DEF FrameOutOfOrder
<1> QED BY <1>1, <1>2, SameDisplay

(* A step of the lifecycle changes nothing of the display.                 *)
LEMMA LifecycleKeeps ==
    ASSUME DisplayInv, UNCHANGED vars, terminal' = "active" => terminal = "active"
    PROVE  DisplayInv'
<1>1. /\ UNCHANGED <<session, nodes, step, count, projecting, bars, elements, displayed, buffer,
                     resizes>>
      /\ crashed' = crashed
  BY DEF vars, history, display
<1>2. crashed' \in BOOLEAN /\ (AppendOnly => ~crashed')
  BY <1>1 DEF DisplayInv, DisplayTypes, ExactInv
<1> QED BY <1>1, <1>2, SameDisplay

(* The selected Session has a transcript.                                  *)
LEMMA SelectedSession ==
    ASSUME DisplayInv, session # NoSession
    PROVE  InSession
<1>1. DisplayTypes
  BY DEF DisplayInv
<1>2. session \in Sessions
  BY <1>1 DEF DisplayTypes
<1>3. nodes \in [Sessions -> Seq(NodeSet)] /\ step \in [Sessions -> Nat]
  BY <1>1 DEF DisplayTypes
<1>4. count \in Nat
  BY <1>1, TranscriptAssumption DEF DisplayTypes
<1> QED BY <1>2, <1>3, <1>4 DEF InSession

(* Every step keeps what is displayed in order.                            *)
LEMMA DisplayStep ==
    ASSUME Orderly, DisplayInv, [ScrollbackNext]_allVars
    PROVE  DisplayInv'
<1>1. ASSUME NEW w \in Widths, NEW h \in Heights, Boot(w, h) PROVE DisplayInv'
  BY <1>1, ResizeKeeps DEF Boot
<1>2. CASE Recorded
  <2>1. Happens /\ terminal' = terminal
    BY <1>2 DEF Recorded, Shown, lifecycle
  <2>2. session # NoSession => InSession
    BY SelectedSession
  <2>3. (\E s \in Sessions : Select(s)) \/ (InSession /\ Advances)
    BY <2>1, <2>2, HappensIs
  <2> QED BY <2>1, <2>3, SelectKeeps, AdvanceKeeps
<1>3. CASE Refreshed(Project)
  BY <1>3, ProjectKeeps DEF Refreshed, Shown, lifecycle
<1>4. CASE Refreshed(Resized)
  BY <1>4, ResizeKeeps DEF Refreshed, Shown, Resized
<1>5. CASE Refreshed(Subagent)
  BY <1>5, SubagentKeeps DEF Refreshed, Shown, lifecycle
<1>6. CASE Render
  BY <1>6, FrameKeeps DEF Render
<1>7. CASE Redraw \/ FlushEnds \/ DetachSignals \/ UNCHANGED allVars
  BY <1>7, LifecycleKeeps DEF Redraw, FlushEnds, DetachSignals, lifecycle, allVars
<1>8. ASSUME NEW inSignal \in BOOLEAN, Exit(inSignal) PROVE DisplayInv'
  BY <1>8, LifecycleKeeps DEF Exit
<1>9. CASE Fail \/ ExitAfterFailure
  <2>1. UNCHANGED vars /\ terminal' # "active"
    BY <1>9 DEF Fail, ExitAfterFailure, Restore
  <2> QED BY <2>1, LifecycleKeeps
<1> QED BY <1>1, <1>2, <1>3, <1>4, <1>5, <1>6, <1>7, <1>8, <1>9 DEF ScrollbackNext

(* At the start nothing is displayed.                                      *)
LEMMA DisplayInit == ScrollbackInit => DisplayInv
<1> SUFFICES ASSUME ScrollbackInit PROVE DisplayInv
  OBVIOUS
<1>1. /\ session = NoSession /\ nodes = [s \in Sessions |-> <<>>] /\ step = [s \in Sessions |-> 0]
      /\ count = 0 /\ projecting = FALSE /\ bars = 0 /\ elements = <<>> /\ displayed = NoSession
      /\ buffer = EmptyBuffer /\ resizes = 0 /\ crashed = FALSE /\ terminal = "idle"
  BY DEF ScrollbackInit, Init
<1>2. IsBuffer(buffer) /\ Numbered(buffer.rows)
  <2> PICK f : f = TRUE
    OBVIOUS
  <2> PICK q : q = <<>>
    OBVIOUS
  <2>1. buffer = [width |-> 0, rows |-> q, top |-> 0, height |-> 0, follow |-> f]
    BY <1>1 DEF EmptyBuffer
  <2>2. Numbered(q)
    BY DEF Numbered
  <2> QED BY <2>1, <2>2 DEF IsBuffer
<1>3. DisplayTypes
  <2>1. buffer.width = 0 /\ buffer.height = 0
    BY <1>1 DEF EmptyBuffer
  <2>2. /\ nodes \in [Sessions -> Seq(NodeSet)] /\ step \in [Sessions -> Nat]
        /\ elements \in Seq(ElementSet)
    BY <1>1
  <2>3. count \in 0..MaxEvents /\ resizes \in 0..MaxResizes /\ bars \in Nat
    BY <1>1, TranscriptAssumption
  <2> QED BY <1>1, <1>2, <2>1, <2>2, <2>3 DEF DisplayTypes
<1>4. NodesInv
  BY <1>1 DEF NodesInv, Ordered, OnlyLastLive
<1>5. Exact(buffer, elements) /\ buffer.top \in Nat
  <2>1. Countable(elements) /\ Len(elements) = 0
    BY <1>1 DEF Countable
  <2> PICK r : r = RowsFor(elements, 0)
    OBVIOUS
  <2>2. InPlace(r) /\ Len(r) = Ends(elements, 0)[0]
    BY <2>1, RowsInPlace
  <2>3. IsEnds(Ends(elements, 0), elements, 0)
    BY <2>1, EndsAre
  <2>4. Len(r) = 0 /\ r \in Seq(Range(r))
    BY <2>2, <2>3, PlacedRows DEF IsEnds
  <2>5. Cut(r) = 0 /\ Len(Retained(r)) = 0 - Cut(r) /\ Retained(r) \in Seq(Range(r))
    BY <2>4, RetainedAre, SizesAre
  <2>6. Retained(r) = <<>>
    <3> PICK S : S = Range(r)
      OBVIOUS
    <3> QED BY <2>5
  <2> QED BY <1>1, <2>6 DEF Exact, EmptyBuffer
<1> QED BY <1>1, <1>3, <1>4, <1>5 DEF DisplayInv, Sized, ElementsInv, ExactInv

(* Whatever comes, goes, grows or shrinks between two projections, no      *)
(* reflow and no frame throws: the projector hands the buffer no settled   *)
(* node after a live one and no committed row that says something else     *)
(* (rowsFor, assertCommittedRowsAppendOnly, validateFrame).                *)
THEOREM NothingIsRefused ==
    ASSUME Orderly
    PROVE  ScrollbackSpec => []NothingRefused
<1>1. DisplayInv => NothingRefused
  BY DEF DisplayInv, ExactInv, NothingRefused
<1>2. DisplayInv /\ [ScrollbackNext]_allVars => DisplayInv'
  BY DisplayStep
<1> QED BY <1>1, <1>2, DisplayInit, PTL DEF ScrollbackSpec

(* And the rows of the buffer are numbered without gap or collision, also  *)
(* after rows were shed (preserveAbsoluteRows).                            *)
THEOREM RowsStayInOrder ==
    ASSUME Orderly
    PROVE  ScrollbackSpec => []RowsInOrder
<1>1. DisplayInv => RowsInOrder
  BY InOrder
<1>2. DisplayInv /\ [ScrollbackNext]_allVars => DisplayInv'
  BY DisplayStep
<1> QED BY <1>1, <1>2, DisplayInit, PTL DEF ScrollbackSpec

-----------------------------------------------------------------------------
(*****************************************************************************)
(* 5. The viewport follows the tail until the terminal shrinks.              *)
(*****************************************************************************)

\* How many rows the elements have.
Total(es, w) == Ends(es, w)[Len(es)]

\* How many of them were shed.
Shed(total) == IF total <= MaxRetained THEN 0 ELSE total - MaxRetained

\* The top row that shows the last ones.
Bottom(total, h) == IF Shed(total) <= total - h THEN total - h ELSE Shed(total)

(* The logo has rows in every terminal, more in a narrower one.            *)
LEMMA TotalIs ==
    ASSUME NEW es, Countable(es), NEW w \in Nat
    PROVE  /\ Total(es, w) \in Nat
           /\ es = <<>> => Total(es, w) = 0
           /\ Len(es) # 0 /\ es[1] = Logo => w <= Total(es, w)
           /\ es = <<Logo>> => Total(es, w) = w
           /\ \A v \in Nat : v <= w => Total(es, v) <= Total(es, w)
<1>1. /\ Len(es) \in Nat /\ Len(es) \in 0..Len(es) /\ IsEnds(Ends(es, w), es, w)
  BY EndsAre DEF Countable
<1>2. Total(es, w) \in Nat
  BY <1>1 DEF Total, IsEnds
<1>3. es = <<>> => Total(es, w) = 0
  BY <1>1 DEF Total, IsEnds
<1>4. ASSUME Len(es) # 0, es[1] = Logo PROVE w <= Total(es, w) /\ (Len(es) = 1 => Total(es, w) = w)
  <2>1. 1 \in 1..Len(es) /\ 1 \in 0..Len(es) /\ 1 <= Len(es)
    BY <1>1, <1>4
  <2>2. Ends(es, w)[1] = Ends(es, w)[1 - 1] + es[1].lines * w /\ Ends(es, w)[0] = 0
    BY <1>1, <2>1 DEF IsEnds
  <2>3. Ends(es, w)[1] = 0 + 1 * w
    BY <1>4, <2>2 DEF Logo
  <2>4. Ends(es, w)[1] <= Ends(es, w)[Len(es)]
    BY <1>1, <2>1, EndsMonotone
  <2> QED BY <2>3, <2>4 DEF Total
<1>6. es = <<Logo>> => Total(es, w) = w
  BY <1>4
<1>5. ASSUME NEW v \in Nat, v <= w PROVE Total(es, v) <= Total(es, w)
  BY <1>1, <1>5, EndsGrow DEF Total
<1> QED BY <1>2, <1>3, <1>4, <1>5, <1>6

(* No elements, no rows.                                                   *)
LEMMA NoElementsNoRows ==
    ASSUME NEW b, b.width \in Nat, Exact(b, <<>>)
    PROVE  b.rows = <<>>
<1> PICK r : r = RowsFor(<<>>, b.width)
  OBVIOUS
<1>1. Countable(<<>>) /\ Len(<<>>) = 0
  BY DEF Countable
<1>2. InPlace(r) /\ Len(r) = Ends(<<>>, b.width)[0] /\ IsEnds(Ends(<<>>, b.width), <<>>, b.width)
  BY <1>1, RowsInPlace, EndsAre
<1>3. Len(r) = 0 /\ r \in Seq(Range(r))
  BY <1>2, PlacedRows DEF IsEnds
<1>4. Cut(r) \in 0..0 /\ Len(Retained(r)) = 0 - Cut(r) /\ Retained(r) \in Seq(Range(r))
  BY <1>3, RetainedAre, SizesAre
<1> PICK S : S = Range(r)
  OBVIOUS
<1>5. Retained(r) = <<>>
  BY <1>4
<1> QED BY <1>5 DEF Exact

(* Where the first and the last row of an exact buffer are, and what the   *)
(* viewport may show.                                                      *)
LEMMA TopIs ==
    ASSUME NEW es, Countable(es), NEW w \in Nat, NEW h \in Nat, Total(es, w) # 0,
           NEW rows, rows = Retained(RowsFor(es, w))
    PROVE  /\ MaxTop(rows, h) = Bottom(Total(es, w), h)
           /\ \A top \in Nat :
                Bottom(Total(es, w), h) <= top \/ Bottom(Total(es, w), h) = Shed(Total(es, w)) =>
                Clamp(top, rows, h) = Bottom(Total(es, w), h)
<1> PICK r : r = RowsFor(es, w)
  OBVIOUS
<1> PICK n : n = Total(es, w)
  OBVIOUS
<1> PICK c : c = Shed(n)
  OBVIOUS
<1>1. /\ InPlace(r) /\ Len(r) = n /\ n \in Nat /\ n > 0 /\ MaxRetained \in Nat /\ MaxRetained > 0
  BY RowsInPlace, TotalIs, TranscriptAssumption DEF Total
<1>2. /\ DOMAIN r = 1..n /\ r \in Seq(Range(r))
      /\ \A k \in DOMAIN r : r[k].abs = k - 1
  BY <1>1, PlacedRows
<1>3. /\ c = Cut(r) /\ rows \in Seq(Range(r)) /\ Len(rows) = n - c
      /\ \A i \in DOMAIN rows : i + c \in DOMAIN r /\ rows[i] = r[i + c]
  <2> PICK q : q = Retained(r)
    OBVIOUS
  <2>1. /\ Cut(r) = IF Len(r) <= MaxRetained THEN 0 ELSE Len(r) - MaxRetained
        /\ q \in Seq(Range(r)) /\ Len(q) = Len(r) - Cut(r)
        /\ \A i \in DOMAIN q : i + Cut(r) \in DOMAIN r /\ q[i] = r[i + Cut(r)]
    BY <1>1, <1>2, RetainedAre
  <2>2. c = Cut(r)
    BY <1>1, <2>1 DEF Shed
  <2>3. q = rows
    OBVIOUS
  <2> QED BY <1>1, <2>1, <2>2, <2>3
<1>4. c \in Nat /\ c < n
  BY <1>1 DEF Shed
<1>5. Len(rows) = n - c /\ Len(rows) > 0 /\ DOMAIN rows = 1..(n - c) /\ rows # <<>>
  <2> PICK S : S = Range(r)
    OBVIOUS
  <2> QED BY <1>1, <1>3, <1>4
<1>6. rows[1].abs = c /\ rows[n - c].abs = n - 1
  <2>1. /\ 1 \in DOMAIN rows /\ n - c \in DOMAIN rows /\ (n - c) + c = n /\ 1 + c \in 1..n
        /\ n \in 1..n /\ (1 + c) - 1 = c
    BY <1>1, <1>4, <1>5
  <2>2. rows[1] = r[1 + c] /\ rows[n - c] = r[n]
    BY <1>3, <2>1
  <2>3. r[1 + c].abs = c /\ r[n].abs = n - 1
    BY <1>2, <2>1
  <2> QED BY <2>2, <2>3
<1>7. First(rows) = c /\ Last(rows).abs = n - 1
  BY <1>5, <1>6 DEF First, Last
<1>8. MaxTop(rows, h) = Max({c, n - h})
  <2>1. (n - 1) - h + 1 = n - h
    BY <1>1
  <2> QED BY <1>5, <1>7, <2>1 DEF MaxTop
<1>9. c \in Int /\ n - h \in Int
  BY <1>1, <1>4
<1>10. MaxTop(rows, h) = Bottom(n, h)
  BY <1>8, <1>9, OfTwo DEF Bottom
<1>11. Bottom(n, h) \in Nat /\ c <= Bottom(n, h)
  BY <1>1, <1>4 DEF Bottom
<1>12. ASSUME NEW top \in Nat, Bottom(n, h) <= top \/ Bottom(n, h) = c
       PROVE  Clamp(top, rows, h) = Bottom(n, h)
  <2> PICK t : t = Bottom(n, h)
    OBVIOUS
  <2> PICK m : m = Min({top, t})
    OBVIOUS
  <2> PICK x : x = Max({c, m})
    OBVIOUS
  <2>0. /\ t \in Nat /\ c <= t /\ c \in Nat /\ (t <= top \/ t = c)
        /\ t \in Int /\ c \in Int /\ top \in Int
    BY <1>4, <1>11, <1>12
  <2>1. m = IF top <= t THEN top ELSE t
    BY <2>0, OfTwo
  <2>2. m \in Nat /\ m \in Int
    BY <2>0, <2>1
  <2>3. x = IF c <= m THEN m ELSE c
    BY <2>0, <2>2, OfTwo
  <2>4. x = t
    BY <2>0, <2>1, <2>3
  <2> QED BY <1>7, <1>10, <2>4 DEF Clamp
<1> QED BY <1>10, <1>12

(* Fewer rows and a higher terminal: the bottom is no further down.        *)
LEMMA BottomFalls ==
    ASSUME NEW m \in Nat, NEW n \in Nat, NEW g \in Nat, NEW h \in Nat, m <= n, g <= h
    PROVE  Bottom(m, h) <= Bottom(n, g) /\ Bottom(n, g) \in Nat
BY TranscriptAssumption DEF Bottom, Shed

\* The viewport follows and shows the last rows.
TailInv ==
    AppendOnly /\ LogoFits /\ "shrunk" \notin happened =>
        /\ buffer.follow = TRUE
        /\ buffer.top = MaxTop(buffer.rows, buffer.height)
        /\ buffer.height = 0 => elements = <<>> /\ buffer.rows = <<>>

(* The elements the buffer has begin with the logo.                        *)
LEMMA LogoIsFirst ==
    ASSUME DisplayInv, AppendOnly, elements # <<>>
    PROVE  elements[1] = Logo /\ Len(elements) # 0
<1>1. CASE elements = <<Logo>>
  BY <1>1
<1>2. CASE elements # <<Logo>>
  <2>1. PICK old \in Seq(NodeSet) : elements = <<Logo>> \o old
    BY <1>2 DEF DisplayInv, ElementsInv
  <2>2. Len(elements) = Len(old) + 1 /\ Len(old) \in Nat /\ elements[1] = Logo
    BY <2>1, LogoFirst
  <2> QED BY <2>2
<1> QED BY <1>1, <1>2

(* A projection keeps the tail in view ...                                 *)
LEMMA ProjectTail ==
    ASSUME DisplayInv, DisplayInv', TailInv, Project, terminal = "active"
    PROVE  TailInv'
<1> SUFFICES ASSUME AppendOnly', LogoFits, "shrunk" \notin happened'
             PROVE  /\ (buffer').follow = TRUE
                    /\ (buffer').top = MaxTop((buffer').rows, (buffer').height)
                    /\ (buffer').height # 0
  BY DEF TailInv
<1> PICK b : b = IF displayed = session THEN buffer ELSE Reset(buffer)
  OBVIOUS
<1> PICK w : w = Width
  OBVIOUS
<1> PICK es : es = Elements
  OBVIOUS
<1>1. ~crashed /\ crashed' = Refuses(b, es, w) /\ buffer' = (IF crashed' THEN b ELSE Reflow(b, es, w))
      /\ bars' = bars /\ nodes' = nodes /\ happened \subseteq happened'
  BY DEF Project, history
<1>2. AppendOnly /\ "shrunk" \notin happened
  BY <1>1 DEF AppendOnly
<1>3. ~crashed'
  BY DEF DisplayInv, ExactInv
<1>4. buffer' = Reflow(b, es, w)
  BY <1>1, <1>3
<1>5. IsBuffer(buffer) /\ buffer.follow = TRUE /\ buffer.height # 0
  <2>1. buffer.height \in Heights
    BY <1>1 DEF DisplayInv, Sized
  <2> QED BY <1>2, <2>1, SizesAre DEF DisplayInv, DisplayTypes, TailInv
<1>6. IsBuffer(b) /\ b.follow = TRUE /\ b.height # 0
  BY <1>5, ResetIs
<1> PICK rows : rows = Retained(NumberedRows(b, es, w))
  OBVIOUS
<1> PICK top : top = MaxTop(rows, b.height)
  OBVIOUS
<1>7. Reflow(b, es, w) = [b EXCEPT !.width = w, !.rows = rows, !.top = top]
  BY <1>6 DEF Reflow
<1>8. Reflow(b, es, w) = [width |-> w, rows |-> rows, top |-> top, height |-> b.height,
                          follow |-> b.follow]
  BY <1>6, <1>7 DEF IsBuffer
<1> QED BY <1>4, <1>6, <1>8

(* ... and so does a resize to a larger size.                              *)
LEMMA ResizeTail ==
    ASSUME DisplayInv, DisplayInv', TailInv,
           NEW w \in Widths, NEW h \in Heights, Resize(w, h)
    PROVE  TailInv'
<1> SUFFICES ASSUME AppendOnly', LogoFits, "shrunk" \notin happened'
             PROVE  /\ (buffer').follow = TRUE
                    /\ (buffer').top = MaxTop((buffer').rows, (buffer').height)
                    /\ (buffer').height # 0
  BY DEF TailInv
<1> PICK es : es = IF elements = <<>> THEN <<Logo>> ELSE elements
  OBVIOUS
<1> PICK r : r = Reflow(buffer, es, w)
  OBVIOUS
<1> PICK v : v = SetViewport(r, buffer.top, h, buffer.follow)
  OBVIOUS
<1>1. /\ ~crashed /\ buffer' = IF crashed' THEN buffer ELSE v
      /\ UNCHANGED <<nodes, bars>>
      /\ "shrunk" \notin happened /\ ~Shrinks(w, h)
      /\ elements' = es
  BY DEF Resize, history, Happened
<1>2. AppendOnly
  BY <1>1 DEF AppendOnly
<1>3. ~crashed' /\ Exact(buffer', es)
  BY <1>1 DEF DisplayInv, ExactInv
<1>4. buffer' = v
  BY <1>1, <1>3
<1>5. /\ IsBuffer(buffer) /\ buffer.follow = TRUE
      /\ buffer.top = MaxTop(buffer.rows, buffer.height)
      /\ buffer.height = 0 => elements = <<>> /\ buffer.rows = <<>>
  BY <1>1, <1>2 DEF DisplayInv, DisplayTypes, TailInv
<1>6. /\ w \in Nat /\ h \in Nat /\ h # 0 /\ w # 0 /\ w <= h
      /\ buffer.height \in Nat /\ buffer.width \in Nat /\ Countable(es) /\ Countable(elements)
      /\ Numbered(buffer.rows)
  <2>1. w \in Nat /\ h \in Nat /\ h # 0 /\ w # 0 /\ w <= h
    BY SizesAre DEF LogoFits
  <2>2. buffer.height \in Nat /\ buffer.width \in Nat /\ Numbered(buffer.rows)
    <3>1. buffer.height \in Heights \cup {0} /\ buffer.width \in Widths \cup {0} /\ Numbered(buffer.rows)
      BY DEF DisplayInv, DisplayTypes
    <3> QED BY <3>1, SizesAre
  <2> QED BY <2>1, <2>2, ResizedElements, BufferIs
<1>7. IsBuffer(r) /\ r.width = w
  <2>1. IsBuffer(buffer) /\ Numbered(buffer.rows) /\ Countable(es) /\ w \in Nat
    BY <1>5, <1>6
  <2>2. r = Reflow(buffer, es, w)
    OBVIOUS
  <2> QED BY ONLY <2>1, <2>2, ReflowIs
<1> PICK rows : rows = r.rows
  OBVIOUS
<1> PICK t : t = Clamp(buffer.top, rows, h)
  OBVIOUS
<1> PICK f : f = (buffer.follow /\ t = MaxTop(rows, h))
  OBVIOUS
<1>8. v = [width |-> w, rows |-> rows, top |-> t, height |-> h, follow |-> f]
  <2>1. v = [r EXCEPT !.top = t, !.height = h, !.follow = f]
    BY DEF SetViewport
  <2> QED BY <1>7, <2>1 DEF IsBuffer
<1> PICK n : n = Total(es, w)
  OBVIOUS
<1>9. es # <<>> /\ es[1] = Logo /\ Len(es) # 0
  <2>1. CASE elements = <<>>
    BY <2>1
  <2>2. CASE elements # <<>>
    BY <1>2, <2>2, LogoIsFirst
  <2> QED BY <2>1, <2>2
<1>10. n \in Nat /\ w <= n /\ n # 0
  <2>1. Countable(es) /\ w \in Nat /\ w # 0
    BY <1>6
  <2>2. n \in Nat /\ w <= n
    BY <1>9, <2>1, TotalIs
  <2> QED BY <2>1, <2>2
<1>11. rows = Retained(RowsFor(es, w))
  BY <1>3, <1>4, <1>8 DEF Exact
<1>12. /\ MaxTop(rows, h) = Bottom(n, h)
       /\ \A top \in Nat : Bottom(n, h) <= top \/ Bottom(n, h) = Shed(n) =>
            Clamp(top, rows, h) = Bottom(n, h)
  BY <1>6, <1>10, <1>11, TopIs
<1>13. t = MaxTop(rows, h)
  <2>1. CASE elements = <<>>
    <3>1. buffer.rows = <<>>
      BY <1>2, <1>6, <2>1, BufferIs, NoElementsNoRows
    <3>2. buffer.top = 0
      BY <1>5, <3>1 DEF MaxTop
    <3>3. n = w
      BY <1>6, <2>1, TotalIs
    <3>4. Bottom(n, h) <= 0 \/ Bottom(n, h) = Shed(n)
      BY <1>6, <3>3 DEF Bottom
    <3> QED BY <1>12, <3>2, <3>4
  <2>2. CASE elements # <<>>
    <3>1. buffer.height # 0 /\ w <= buffer.width /\ buffer.height <= h /\ es = elements
      BY <1>1, <1>5, <1>6, <2>2 DEF Shrinks
    <3> PICK m : m = Total(elements, buffer.width)
      OBVIOUS
    <3>2. m \in Nat /\ n <= m
      <4>1. Countable(elements) /\ buffer.width \in Nat /\ w \in Nat
        BY <1>6
      <4>2. m \in Nat /\ Total(elements, w) <= m
        BY <3>1, <4>1, TotalIs
      <4> QED BY <3>1, <4>2
    <3>3. m # 0
      BY <1>10, <3>2
    <3>4. buffer.rows = Retained(RowsFor(elements, buffer.width))
      BY <1>2, BufferIs DEF Exact
    <3>5. buffer.top = Bottom(m, buffer.height)
      BY <1>5, <1>6, <3>3, <3>4, TopIs
    <3> PICK g : g = buffer.height
      OBVIOUS
    <3>6. m \in Nat /\ n \in Nat /\ g \in Nat /\ h \in Nat /\ n <= m /\ g <= h
      BY <1>6, <1>10, <3>1, <3>2
    <3>7. Bottom(n, h) <= Bottom(m, g) /\ Bottom(m, g) \in Nat
      BY <3>6, BottomFalls
    <3> QED BY <1>12, <3>5, <3>7
  <2> QED BY <2>1, <2>2
<1>14. f = TRUE
  BY <1>5, <1>13
<1> QED BY <1>4, <1>6, <1>8, <1>13, <1>14

(* Every step keeps the tail in view.                                      *)
LEMMA TailStep ==
    ASSUME Orderly, DisplayInv, TailInv, [ScrollbackNext]_allVars
    PROVE  TailInv'
<1>0. DisplayInv'
  BY DisplayStep
<1>1. ASSUME NEW w \in Widths, NEW h \in Heights, Boot(w, h) PROVE TailInv'
  BY <1>0, <1>1, ResizeTail DEF Boot
<1>2. CASE Recorded
  <2>1. Happens
    BY <1>2 DEF Recorded, Shown
  <2>2. session # NoSession => InSession
    BY SelectedSession
  <2>3. (\E s \in Sessions : Select(s)) \/ (InSession /\ Advances)
    BY <2>1, <2>2, HappensIs
  <2>4. CASE \E s \in Sessions : Select(s)
    <3>1. AppendOnly' = AppendOnly /\ UNCHANGED <<elements, buffer, happened>>
      BY <2>4 DEF Select, display, AppendOnly
    <3> QED BY <3>1 DEF TailInv
  <2>5. CASE InSession /\ Advances
    <3>1. PICK ns \in Seq(NodeSet) : Event(ns) /\ PagesStay(ns)
      BY <2>5 DEF Advances
    <3>2. elements' = elements /\ buffer' = buffer /\ happened \subseteq happened'
      BY <3>1 DEF Event, display
    <3>3. AppendOnly' => AppendOnly
      BY <2>5, <3>1, PagesRemain
    <3> QED BY <3>2, <3>3 DEF TailInv
  <2> QED BY <2>3, <2>4, <2>5
<1>3. CASE Refreshed(Project)
  BY <1>0, <1>3, ProjectTail DEF Refreshed, Shown
<1>4. CASE Refreshed(Resized)
  BY <1>0, <1>4, ResizeTail DEF Refreshed, Shown, Resized
<1>5. CASE Refreshed(Subagent)
  <2>1. bars \in Nat /\ bars' = bars + 1
    BY <1>5 DEF Refreshed, Shown, Subagent, DisplayInv, DisplayTypes
  <2>2. ~AppendOnly'
    BY <2>1 DEF AppendOnly
  <2> QED BY <2>2 DEF TailInv
<1>6. CASE UNCHANGED <<nodes, bars, elements, buffer, happened>>
  BY <1>6 DEF TailInv, AppendOnly
<1>7. CASE Render \/ Redraw \/ FlushEnds \/ DetachSignals \/ Fail \/ ExitAfterFailure
           \/ UNCHANGED allVars \/ \E inSignal \in BOOLEAN : Exit(inSignal)
  <2>1. UNCHANGED <<nodes, bars, elements, buffer, happened>>
    BY <1>7 DEF Render, Frame, Redraw, FlushEnds, DetachSignals, Fail, ExitAfterFailure, Exit,
                allVars, vars, history, display
  <2> QED BY <1>6, <2>1
<1> QED BY <1>1, <1>2, <1>3, <1>4, <1>5, <1>7 DEF ScrollbackNext

(* As long as the terminal has not become narrower or less high, what      *)
(* streams is on the screen: the viewport follows the tail through every   *)
(* projection and every resize (reflow, setViewport).                      *)
THEOREM TailStaysVisible ==
    ASSUME Orderly
    PROVE  ScrollbackSpec => []TailVisible
<1>1. TailInv => TailVisible
  BY DEF TailInv, TailVisible, FollowsTail
<1>2. DisplayInv /\ TailInv /\ [ScrollbackNext]_allVars => DisplayInv' /\ TailInv'
  BY DisplayStep, TailStep
<1>3. ScrollbackInit => TailInv
  BY DEF ScrollbackInit, Init, EmptyBuffer, TailInv, MaxTop
<1> QED BY <1>1, <1>2, <1>3, DisplayInit, PTL DEF ScrollbackSpec

-----------------------------------------------------------------------------
(*****************************************************************************)
(* 6. Types.  The committed rows of a frame are bounded, so the carrier      *)
(* that Ink is handed has a length.                                          *)
(*****************************************************************************)

\* A set of numbers with an upper bound.
Bounded(S) == S \subseteq Int /\ \E n \in Nat : \A x \in S : x <= n

(* Of two such sets the greater bound bounds both.                         *)
LEMMA BothBounded ==
    ASSUME NEW S, NEW T, Bounded(S), Bounded(T)
    PROVE  Bounded(S \cup T)
<1>1. PICK m \in Nat : \A x \in S : x <= m
  BY DEF Bounded
<1>2. PICK n \in Nat : \A x \in T : x <= n
  BY DEF Bounded
<1>3. S \subseteq Int /\ T \subseteq Int
  BY DEF Bounded
<1>4. CASE m <= n
  <2>1. \A x \in S \cup T : x <= n
    BY <1>1, <1>2, <1>3, <1>4
  <2> QED BY <1>3, <2>1 DEF Bounded
<1>5. CASE n <= m
  <2>1. \A x \in S \cup T : x <= m
    BY <1>1, <1>2, <1>3, <1>5
  <2> QED BY <1>3, <2>1 DEF Bounded
<1> QED BY <1>4, <1>5

(* The length of an array with the elements of a set.                      *)
LEMMA LengthIs ==
    ASSUME NEW S, Bounded(S)
    PROVE  /\ Max({-1} \cup S) + 1 \in Nat
           /\ \A x \in S : x < Max({-1} \cup S) + 1
           /\ \A n \in Nat : (\A x \in S : x < n) => Max({-1} \cup S) + 1 <= n
<1> PICK U : U = {-1} \cup S
  OBVIOUS
<1>1. U \subseteq Int /\ -1 \in U
  BY DEF Bounded
<1>2. PICK n \in Nat : \A x \in U : x <= n
  BY <1>1 DEF Bounded
<1>3. {n - x : x \in U} \in SUBSET Nat /\ {n - x : x \in U} # {}
  BY <1>1, <1>2
<1>4. PICK y \in {n - x : x \in U} : \A z \in {n - x : x \in U} : y <= z
  BY <1>3, LeastNat
<1>5. PICK m \in U : y = n - m
  BY <1>4
<1>6. \A x \in U : m >= x
  <2> TAKE x \in U
  <2>1. y <= n - x
    BY <1>4
  <2> QED BY <1>1, <1>5, <2>1
<1>7. \A x \in U : (\A z \in U : x >= z) => x = m
  BY <1>1, <1>6
<1>8. Max(U) = m
  BY <1>6, <1>7 DEF Max
<1>9. m \in Int /\ m >= -1
  BY <1>1, <1>6
<1>10. \A x \in S : x < m + 1
  <2> TAKE x \in S
  <2>1. x \in U /\ x \in Int
    BY <1>1
  <2>2. m >= x
    BY <1>6, <2>1
  <2> QED BY <1>9, <2>1, <2>2
<1>11. \A k \in Nat : (\A x \in S : x < k) => m + 1 <= k
  <2> TAKE k \in Nat
  <2> HAVE \A x \in S : x < k
  <2>1. m = -1 \/ m \in S
    BY <1>5
  <2> QED BY <1>9, <2>1
<1>12. Max({-1} \cup S) = m
  BY <1>8
<1>13. Max({-1} \cup S) + 1 = m + 1
  BY <1>12
<1>14. m + 1 \in Nat
  BY <1>9
<1> QED BY <1>10, <1>11, <1>13, <1>14

(* Finitely many numbers have a bound.                                     *)
LEMMA FinitelyMany ==
    ASSUME NEW m \in Nat, NEW f, \A i \in 1..m : f[i] \in Int
    PROVE  \E n \in Nat : \A i \in 1..m : f[i] <= n
<1> DEFINE Low(k) == \E n \in Nat : \A i \in 1..k : f[i] <= n
<1> PICK T : T = {k \in 0..m : ~Low(k)}
  OBVIOUS
<1>1. \A k : k \in T <=> k \in 0..m /\ ~Low(k)
  OBVIOUS
<1>2. Low(0)
  <2>1. \A i \in 1..0 : f[i] <= 0
    OBVIOUS
  <2> QED BY <2>1
<1>3. ASSUME NEW k \in 1..m, Low(k - 1) PROVE Low(k)
  <2>1. PICK n \in Nat : \A i \in 1..(k - 1) : f[i] <= n
    BY <1>3
  <2>2. f[k] \in Int
    OBVIOUS
  <2>3. \A i \in 1..k : i = k \/ i \in 1..(k - 1)
    OBVIOUS
  <2>4. ASSUME NEW x \in Nat, n <= x, f[k] <= x PROVE Low(k)
    <3>1. \A i \in 1..(k - 1) : f[i] <= x
      <4> TAKE i \in 1..(k - 1)
      <4>1. i \in 1..m
        OBVIOUS
      <4>2. f[i] \in Int /\ f[i] <= n
        BY <2>1, <4>1
      <4> QED BY <2>4, <4>2
    <3>2. \A i \in 1..k : f[i] <= x
      BY <2>3, <2>4, <3>1
    <3> QED BY <3>2
  <2>5. CASE f[k] <= n
    BY <2>4, <2>5
  <2>6. CASE ~(f[k] <= n)
    <3>1. f[k] \in Nat /\ n <= f[k] /\ f[k] <= f[k]
      BY <2>2, <2>6
    <3> QED BY <2>4, <3>1
  <2> QED BY <2>5, <2>6
<1> HIDE DEF Low
<1>4. T = {}
  <2> SUFFICES ASSUME T # {} PROVE FALSE
    OBVIOUS
  <2>1. T \in SUBSET Nat
    BY <1>1
  <2>2. PICK k \in T : \A j \in T : k <= j
    BY <2>1, LeastNat
  <2>3. k \in 0..m /\ ~Low(k)
    BY <1>1
  <2>4. k # 0
    BY <1>2, <2>3
  <2>5. k \in 1..m /\ k - 1 \in 0..m /\ ~(k <= k - 1)
    BY <2>3, <2>4
  <2>6. Low(k - 1)
    BY <1>1, <2>2, <2>5
  <2> QED BY <1>3, <2>3, <2>5, <2>6
<1>5. m \in 0..m
  OBVIOUS
<1>6. Low(m)
  BY <1>1, <1>4, <1>5
<1> QED BY <1>6 DEF Low

(* The numbers of the committed rows have a bound.                         *)
LEMMA CommittedBounded ==
    ASSUME NEW b, Numbered(b.rows)
    PROVE  Bounded(Numbers(Committed(b)))
<1> PICK q : q = b.rows
  OBVIOUS
<1> PICK S : S = Range(q)
  OBVIOUS
<1>1. q \in Seq(S) /\ \A i \in DOMAIN q : q[i].abs \in Int
  BY DEF Numbered
<1>2. PICK m \in Nat : m = Len(q)
  BY <1>1
<1>3. DOMAIN q = 1..m
  BY <1>1, <1>2
<1> PICK f : f = [i \in 1..m |-> q[i].abs]
  OBVIOUS
<1>4. \A i \in 1..m : f[i] = q[i].abs
  OBVIOUS
<1>5. \A i \in 1..m : f[i] \in Int
  BY <1>1, <1>3, <1>4
<1>6. PICK n \in Nat : \A i \in 1..m : f[i] <= n
  BY <1>5, FinitelyMany
<1>7. \A x \in Numbers(Committed(b)) : \E i \in 1..m : x = f[i]
  BY <1>3, <1>4 DEF Numbers, Committed, Range
<1> QED BY <1>5, <1>6, <1>7 DEF Bounded

(* What paints keeps its type.                                             *)
LEMMA PaintTypes ==
    ASSUME NEW s, NEW frame, DOMAIN s.times \subseteq Nat, s.index \in Nat,
           frame.len \in Nat, frame.rows \subseteq Int
    PROVE  Paint(s, frame).index \in Nat /\ DOMAIN Paint(s, frame).times \subseteq Nat
<1> DEFINE was == IF s.key = frame.key THEN s ELSE [key |-> frame.key, index |-> 0, times |-> <<>>]
           new == {n \in frame.rows : n >= was.index}
           before(n) == IF n \in DOMAIN was.times THEN was.times[n] ELSE 0
           painted == [key |-> frame.key, index |-> frame.len,
                       times |-> [n \in DOMAIN was.times \cup new |->
                                    before(n) + IF n \in new THEN 1 ELSE 0]]
<1>1. Paint(s, frame) = painted
  BY DEF Paint
<1>2. painted.index = frame.len /\ DOMAIN painted.times = DOMAIN was.times \cup new
  OBVIOUS
<1>3. was.index \in Nat /\ DOMAIN was.times \subseteq Nat
  <2>1. CASE s.key = frame.key
    BY <2>1
  <2>2. CASE s.key # frame.key
    <3> PICK e : e = <<>>
      OBVIOUS
    <3>1. was = [key |-> frame.key, index |-> 0, times |-> e]
      BY <2>2
    <3>2. DOMAIN e = {}
      OBVIOUS
    <3> QED BY <3>1, <3>2
  <2> QED BY <2>1, <2>2
<1>4. new \subseteq Nat
  BY <1>3
<1> HIDE DEF was, new, painted
<1> QED BY <1>1, <1>2, <1>3, <1>4

\* The variables of the lifecycle.
LifecycleTypes ==
    /\ terminal \in {"idle", "active", "restoring", "exited", "failed"}
    /\ attached \subseteq {"signals", "boundaries", "resize"}
    /\ mounted \in BOOLEAN /\ detaching \in BOOLEAN /\ wanted \in BOOLEAN /\ flush \in BOOLEAN

\* And of the rows on their way to Ink.
RenderingTypes ==
    /\ Bounded(pend.rows) /\ Bounded(committed.rows)
    /\ queued.len \in Nat /\ queued.rows \subseteq Int
    /\ static.index \in Nat /\ DOMAIN static.times \subseteq Nat

\* The rows of a frame.
OutputTypes == IsOutput /\ Bounded(output.stable) /\ output.pending \subseteq output.stable

(* Nothing is remembered of what was rendered.                             *)
LEMMA NothingTyped ==
    /\ Bounded({}) /\ Bounded(NoRows.rows) /\ NoFrame.len \in Nat /\ NoFrame.rows \subseteq Int
    /\ NoStatic.index \in Nat /\ DOMAIN NoStatic.times \subseteq Nat
<1>1. Bounded({})
  BY DEF Bounded
<1>2. NoRows.rows = {} /\ NoFrame.len = 0 /\ NoFrame.rows = {} /\ NoStatic.index = 0
  BY DEF NoRows, NoFrame, NoStatic
<1>3. DOMAIN NoStatic.times = {}
  <2> PICK e : e = <<>>
    OBVIOUS
  <2>1. NoStatic = [key |-> NoKey, index |-> 0, times |-> e] /\ DOMAIN e = {}
    BY DEF NoStatic
  <2> QED BY <2>1
<1> QED BY <1>1, <1>2, <1>3

(* A way out leaves everything of its type.                                *)
LEMMA RestoreTypes ==
    ASSUME NEW next \in {"failed", "exited"}, NEW inSignal \in BOOLEAN, Restore(next, inSignal)
    PROVE  LifecycleTypes' /\ RenderingTypes'
<1>1. /\ pend' = NoRows /\ committed' = NoRows /\ queued' = NoFrame /\ static' = NoStatic
      /\ mounted' = FALSE /\ wanted' = FALSE /\ flush' = FALSE /\ detaching' = inSignal
      /\ attached' \subseteq {"signals"}
      /\ terminal' = next \/ terminal' = "restoring"
  BY DEF Restore, Discard
<1>2. RenderingTypes'
  BY <1>1, NothingTyped DEF RenderingTypes
<1>3. LifecycleTypes'
  BY <1>1 DEF LifecycleTypes
<1> QED BY <1>2, <1>3

(* So does a frame ...                                                     *)
LEMMA FrameTypes ==
    ASSUME OutputTypes, DisplayTypes, Frame
    PROVE  OutputTypes'
<1>1. output' = output \/ output' = ApplyFrame(output, buffer)
  BY DEF Frame
<1>2. CASE output' = output
  BY <1>2 DEF OutputTypes, IsOutput
<1>3. CASE output' = ApplyFrame(output, buffer)
  <2>1. IsOutput' /\ output'.pending \subseteq output'.stable
    BY <1>3, OutputSteps DEF OutputTypes, IsOutput
  <2>2. output'.stable = Numbers(Committed(buffer))
    <3> PICK S : S = Numbers(Committed(buffer))
      OBVIOUS
    <3> PICK P : P = S \ (IF output.width # buffer.width THEN {} ELSE output.stable)
      OBVIOUS
    <3>1. ApplyFrame(output, buffer)
            = [output EXCEPT !.width = buffer.width, !.stable = S, !.pending = P]
      BY DEF ApplyFrame
    <3> QED BY <1>3, <3>1 DEF OutputTypes, IsOutput
  <2>3. Bounded(output'.stable)
    BY <2>2, CommittedBounded DEF DisplayTypes
  <2> QED BY <2>1, <2>3 DEF OutputTypes
<1> QED BY <1>1, <1>2, <1>3

(* ... a render ...                                                        *)
LEMMA RenderTypes ==
    ASSUME OutputTypes, DisplayTypes, LifecycleTypes, RenderingTypes, Render
    PROVE  LifecycleTypes' /\ RenderingTypes'
<1>1. Frame /\ OutputTypes'
  BY FrameTypes DEF Render
<1>2. CASE wanted' = FALSE /\ UNCHANGED <<lifecycle, flush, pend, committed, queued, static>>
  BY <1>2 DEF LifecycleTypes, RenderingTypes, lifecycle
<1>3. CASE Restore("failed", FALSE)
  BY <1>3, RestoreTypes
<1>4. CASE ~(wanted' = FALSE /\ UNCHANGED <<lifecycle, flush, pend, committed, queued, static>>)
           /\ ~Restore("failed", FALSE)
  <2> DEFINE key == <<output'.session, output'.width>>
             before == RowsOf(committed, key)
             rows == output'.pending \cup IF mounted THEN RowsOf(pend, key) ELSE {}
             full == Carrier(key, output'.stable, rows)
             shown == IF flush THEN Carrier(key, before, {}) ELSE full
  <2>1. /\ wanted' = FALSE /\ mounted' = TRUE /\ flush' = TRUE
        /\ pend' = IF mounted THEN [key |-> key, rows |-> rows] ELSE pend
        /\ committed' = [key |-> key, rows |-> IF mounted THEN before ELSE output'.stable]
        /\ queued' = IF flush THEN full ELSE queued
        /\ static' = Paint(static, shown)
        /\ UNCHANGED <<terminal, attached, detaching>>
    BY <1>4 DEF Render
  <2>2. Bounded(before)
    BY NothingTyped DEF RowsOf, RenderingTypes
  <2>3. Bounded(rows) /\ Bounded(output'.stable)
    <3>1. Bounded(output'.pending) /\ Bounded(output'.stable)
      BY <1>1 DEF OutputTypes, Bounded
    <3>2. Bounded(RowsOf(pend, key))
      BY NothingTyped DEF RowsOf, RenderingTypes
    <3>3. Bounded(IF mounted THEN RowsOf(pend, key) ELSE {})
      BY <3>2, NothingTyped
    <3> QED BY <3>1, <3>3, BothBounded
  <2> HIDE DEF before, rows
  <2>4. full.len \in Nat /\ full.rows \subseteq Int
    <3>1. Bounded(output'.stable \cup rows)
      BY <2>3, BothBounded
    <3>2. {-1} \cup output'.stable \cup rows = {-1} \cup (output'.stable \cup rows)
      OBVIOUS
    <3>3. Max({-1} \cup output'.stable \cup rows) + 1 \in Nat
      BY <3>1, <3>2, LengthIs
    <3> QED BY <2>3, <3>3 DEF Carrier, Bounded
  <2>5. Carrier(key, before, {}).len \in Nat /\ Carrier(key, before, {}).rows \subseteq Int
    <3>1. {-1} \cup before \cup {} = {-1} \cup before
      OBVIOUS
    <3>2. Max({-1} \cup before \cup {}) + 1 \in Nat
      BY <2>2, <3>1, LengthIs
    <3> QED BY <3>2 DEF Carrier
  <2> HIDE DEF full
  <2>6. shown.len \in Nat /\ shown.rows \subseteq Int
    BY <2>4, <2>5
  <2> HIDE DEF shown, key
  <2>7. static'.index \in Nat /\ DOMAIN static'.times \subseteq Nat
    BY <2>1, <2>6, PaintTypes DEF RenderingTypes
  <2>8. Bounded(pend'.rows) /\ Bounded(committed'.rows)
    BY <2>1, <2>2, <2>3 DEF RenderingTypes
  <2>9. queued'.len \in Nat /\ queued'.rows \subseteq Int
    BY <2>1, <2>4 DEF RenderingTypes
  <2>10. LifecycleTypes'
    BY <2>1 DEF LifecycleTypes
  <2> QED BY <2>7, <2>8, <2>9, <2>10 DEF RenderingTypes
<1> QED BY <1>2, <1>3, <1>4 DEF Render

(* ... and the end of a flush.                                             *)
LEMMA FlushTypes ==
    ASSUME LifecycleTypes, RenderingTypes, FlushEnds
    PROVE  LifecycleTypes' /\ RenderingTypes'
<1>1. /\ terminal' = terminal /\ mounted' = mounted /\ attached' = attached
      /\ detaching' = detaching /\ wanted' = wanted /\ flush' = (queued # NoFrame)
      /\ pend' = NoRows /\ queued' = NoFrame
      /\ committed' = IF pend = NoRows THEN committed
                      ELSE [key |-> pend.key, rows |-> RowsOf(committed, pend.key) \cup pend.rows]
      /\ static' = IF queued = NoFrame THEN static ELSE Paint(static, queued)
  BY DEF FlushEnds, lifecycle
<1>2. LifecycleTypes'
  <2>1. flush' \in BOOLEAN
    BY <1>1
  <2> QED BY <1>1, <2>1 DEF LifecycleTypes
<1>3. Bounded(committed'.rows)
  <2>1. Bounded(RowsOf(committed, pend.key) \cup pend.rows)
    <3>1. Bounded(RowsOf(committed, pend.key))
      BY NothingTyped DEF RowsOf, RenderingTypes
    <3> QED BY <3>1, BothBounded DEF RenderingTypes
  <2> QED BY <1>1, <2>1 DEF RenderingTypes
<1>4. static'.index \in Nat /\ DOMAIN static'.times \subseteq Nat
  BY <1>1, PaintTypes DEF RenderingTypes
<1> QED BY <1>1, <1>2, <1>3, <1>4, NothingTyped DEF RenderingTypes

\* What ScrollbackTypeCorrect is proved from.
TypeInv == DisplayTypes /\ Sized /\ LifecycleTypes /\ RenderingTypes /\ OutputTypes

(* A step of the transcript leaves the lifecycle as it is.                 *)
LEMMA ShownTypes ==
    ASSUME LifecycleTypes, RenderingTypes, NEW A, Shown(A), wanted' \in BOOLEAN
    PROVE  LifecycleTypes' /\ RenderingTypes'
BY DEF Shown, lifecycle, LifecycleTypes, RenderingTypes

(* Where nothing is projected and nothing rendered the output stays.       *)
LEMMA OutputStays ==
    ASSUME OutputTypes, output' = output
    PROVE  OutputTypes'
BY DEF OutputTypes, IsOutput

(* Every step leaves everything of its type.                               *)
LEMMA TypeStep ==
    ASSUME TypeInv, [ScrollbackNext]_allVars
    PROVE  TypeInv'
<1>0. DisplayTypes /\ Sized /\ LifecycleTypes /\ RenderingTypes /\ OutputTypes
  BY DEF TypeInv
<1>1. ASSUME NEW w \in Widths, NEW h \in Heights, Boot(w, h) PROVE TypeInv'
  <2>1. DisplayTypes' /\ Sized'
    BY <1>0, <1>1, ResizeIs DEF Boot
  <2>2. LifecycleTypes' /\ RenderingTypes'
    BY <1>0, <1>1 DEF Boot, LifecycleTypes, RenderingTypes
  <2>3. OutputTypes'
    BY <1>0, <1>1, OutputStays DEF Boot, Resize
  <2> QED BY <2>1, <2>2, <2>3 DEF TypeInv
<1>2. CASE Recorded
  <2>1. Happens /\ terminal' = terminal /\ wanted' = wanted
    BY <1>2 DEF Recorded, Shown, lifecycle
  <2>2. session # NoSession => InSession
    BY <1>0, TranscriptAssumption DEF DisplayTypes, InSession
  <2>3. (\E s \in Sessions : Select(s)) \/ (InSession /\ Advances)
    BY <2>1, <2>2, HappensIs
  <2>4. DisplayTypes' /\ Sized'
    BY <1>0, <2>1, <2>3, SelectTypes, AdvanceTypes
  <2>5. output' = output
    BY <2>3 DEF Select, Advances, Event, display
  <2>6. LifecycleTypes' /\ RenderingTypes'
    BY <1>0, <1>2, <2>1 DEF Recorded, Shown, lifecycle, LifecycleTypes, RenderingTypes
  <2> QED BY <1>0, <2>4, <2>5, <2>6, OutputStays DEF TypeInv
<1>3. CASE Refreshed(Project) \/ Refreshed(Resized) \/ Refreshed(Subagent)
  <2>1. LifecycleTypes' /\ RenderingTypes' /\ terminal' = terminal /\ terminal = "active"
    BY <1>0, <1>3 DEF Refreshed, Shown, lifecycle, LifecycleTypes, RenderingTypes
  <2>2. CASE Project
    <3>1. DisplayTypes' /\ Sized'
      BY <1>0, <2>1, <2>2, ProjectIs
    <3>2. output' = ResetOutput(output, session)
      BY <2>2 DEF Project
    <3>3. output' = output \/ (IsOutput' /\ output'.stable = {} /\ output'.pending = {})
      BY <3>2 DEF ResetOutput, EmptyOutput, IsOutput
    <3>4. OutputTypes'
      BY <1>0, <3>3, OutputStays, NothingTyped DEF OutputTypes
    <3> QED BY <2>1, <3>1, <3>4 DEF TypeInv
  <2>3. CASE Resized
    <3>1. DisplayTypes' /\ Sized'
      BY <1>0, <2>3, ResizeIs DEF Resized
    <3>2. output' = output
      BY <2>3 DEF Resized, Resize
    <3> QED BY <1>0, <2>1, <3>1, <3>2, OutputStays DEF TypeInv
  <2>4. CASE Subagent
    <3>1. DisplayTypes' /\ Sized'
      BY <1>0, <2>1, <2>4, SubagentTypes
    <3>2. output' = output
      BY <2>4 DEF Subagent, display
    <3> QED BY <1>0, <2>1, <3>1, <3>2, OutputStays DEF TypeInv
  <2> QED BY <1>3, <2>2, <2>3, <2>4 DEF Refreshed, Shown
<1>4. CASE Render
  <2>1. /\ crashed' = FrameOutOfOrder(buffer)
        /\ UNCHANGED <<session, nodes, step, count, projecting, bars, elements, displayed, buffer,
                         resizes>>
        /\ terminal = "active" /\ ~crashed /\ Frame
    BY <1>4 DEF Render, Frame, history
  <2>2. crashed' \in BOOLEAN
    BY <2>1 DEF FrameOutOfOrder
  <2>3. DisplayTypes' /\ Sized'
    BY <1>0, <2>1, <2>2, SameTypes
  <2> QED BY <1>0, <1>4, <2>1, <2>3, RenderTypes, FrameTypes DEF TypeInv
<1>5. ASSUME UNCHANGED vars, terminal' = "active" => terminal = "active"
      PROVE  DisplayTypes' /\ Sized' /\ OutputTypes'
  <2>1. /\ UNCHANGED <<session, nodes, step, count, projecting, bars, elements, displayed, buffer,
                     resizes>>
        /\ crashed' = crashed /\ output' = output
    BY <1>5 DEF vars, history, display
  <2>2. crashed' \in BOOLEAN
    BY <1>0, <2>1 DEF DisplayTypes
  <2> QED BY <1>0, <1>5, <2>1, <2>2, SameTypes, OutputStays
<1>6. CASE FlushEnds
  BY <1>0, <1>5, <1>6, FlushTypes DEF FlushEnds, lifecycle, TypeInv
<1>7. CASE Redraw \/ DetachSignals \/ UNCHANGED allVars
  <2>1. UNCHANGED vars /\ terminal' = terminal
    BY <1>7 DEF Redraw, DetachSignals, allVars, lifecycle
  <2>2. LifecycleTypes' /\ RenderingTypes'
    BY <1>0, <1>7 DEF Redraw, DetachSignals, allVars, lifecycle, rendering, LifecycleTypes,
                      RenderingTypes
  <2> QED BY <1>5, <2>1, <2>2 DEF TypeInv
<1>8. CASE Fail \/ ExitAfterFailure \/ \E inSignal \in BOOLEAN : Exit(inSignal)
  <2>1. UNCHANGED vars
    BY <1>8 DEF Fail, ExitAfterFailure, Exit
  <2>2. PICK next \in {"failed", "exited"}, inSignal \in BOOLEAN : Restore(next, inSignal)
    BY <1>8 DEF Fail, ExitAfterFailure, Exit
  <2>3. terminal' # "active"
    BY <2>2 DEF Restore
  <2> QED BY <1>5, <2>1, <2>2, <2>3, RestoreTypes DEF TypeInv
<1> QED BY <1>1, <1>2, <1>3, <1>4, <1>6, <1>7, <1>8 DEF ScrollbackNext

(* At the start everything is of its type.                                 *)
LEMMA TypeInit == ScrollbackInit => TypeInv
<1> SUFFICES ASSUME ScrollbackInit PROVE TypeInv
  OBVIOUS
<1>1. DisplayTypes /\ Sized
  BY DisplayInit DEF DisplayInv
<1>2. LifecycleTypes
  BY DEF ScrollbackInit, LifecycleTypes
<1>3. RenderingTypes
  BY NothingTyped DEF ScrollbackInit, RenderingTypes
<1>4. OutputTypes
  BY NothingTyped DEF ScrollbackInit, Init, EmptyOutput, OutputTypes, IsOutput
<1> QED BY <1>1, <1>2, <1>3, <1>4 DEF TypeInv

(* Types; what is pending is committed; Ink's index is one, whatever       *)
(* numbers an older page gave the rows.                                    *)
THEOREM ScrollbackTypeCorrect == ScrollbackSpec => []TypeOK
<1>1. TypeInv => TypeOK
  BY DEF TypeInv, DisplayTypes, LifecycleTypes, RenderingTypes, OutputTypes, TypeOK
<1> QED BY <1>1, TypeInit, TypeStep, PTL DEF ScrollbackSpec

-----------------------------------------------------------------------------
(*****************************************************************************)
(* 7. The rows with Ink's Static.  In its layout the rows that are settled   *)
(* only grow and those that are shed are the first; Arranged says what is    *)
(* committed, pending and printed of them, and every render and every end    *)
(* of a flush keeps it.                                                      *)
(*****************************************************************************)

\* The rows with Ink's Static s: C committed and P pending, of the rows F
\* that are settled in its layout, those below L perhaps shed; q is the frame
\* that waits for the flush.  What is known is contiguous; what is committed
\* is printed; what is known and not printed waits, after all that was
\* printed, and Static still prints it; Static is not past a row that is yet
\* to come and, the frame that waits included, past all that are known; a row
\* is printed twice at most, and once until it is committed.
Arranged(C, P, s, q, F, L) ==
    /\ C \cup P \subseteq F
    /\ \A m \in C \cup P, n \in Nat : L <= n /\ n <= m => n \in C \cup P
    /\ C \subseteq DOMAIN s.times
    /\ \A n \in (C \cup P) \ DOMAIN s.times :
         q # NoFrame /\ s.index <= n /\ \A p \in DOMAIN s.times : p < n
    /\ \A n \in Nat :
         (\A m \in C \cup P : m < n) => s.index <= n /\ (q # NoFrame => q.len <= n)
    /\ q = NoFrame => \A n \in C \cup P : n < s.index \/ n < L
    /\ q # NoFrame => /\ \A n \in C \cup P : n < q.len \/ n < L
                      /\ \A n \in C : n < s.index
    /\ \A n \in DOMAIN s.times :
         s.times[n] \in Nat /\ s.times[n] <= 2 /\ (n \notin C => s.times[n] <= 1)

(* More rows settle and more are shed.                                     *)
LEMMA ArrangedLater ==
    ASSUME NEW C, NEW P, NEW s, NEW q, NEW F, NEW G, NEW L \in Nat, NEW M \in Nat,
           Arranged(C, P, s, q, F, L), F \subseteq G, G \subseteq Nat, L <= M
    PROVE  Arranged(C, P, s, q, G, M)
<1> PICK K : K = C \cup P
  OBVIOUS
<1>1. /\ K \subseteq F /\ K \subseteq Nat
      /\ \A m \in K, n \in Nat : L <= n /\ n <= m => n \in K
      /\ q = NoFrame => \A n \in K : n < s.index \/ n < L
      /\ q # NoFrame => /\ \A n \in K : n < q.len \/ n < L
                        /\ \A n \in C : n < s.index
  BY DEF Arranged
<1>2. \A m \in K, n \in Nat : M <= n /\ n <= m => n \in K
  <2> TAKE m \in K, n \in Nat
  <2> HAVE M <= n /\ n <= m
  <2>1. L <= n
    OBVIOUS
  <2> QED BY <1>1, <2>1
<1>3. \A n \in K : n < L => n < M
  BY <1>1
<1>4. K \subseteq G
  BY <1>1
<1> QED BY <1>1, <1>2, <1>3, <1>4 DEF Arranged

\* Ink's Static before its first frame.
Blank(key) == [key |-> key, index |-> 0, times |-> <<>>]

(* Before the first frame nothing is known.                                *)
LEMMA BlankIs ==
    ASSUME NEW key
    PROVE  /\ Blank(key).key = key /\ Blank(key).index = 0 /\ DOMAIN Blank(key).times = {}
           /\ \A F, L : Arranged({}, {}, Blank(key), NoFrame, F, L)
<1> PICK e : e = <<>>
  OBVIOUS
<1>1. Blank(key) = [key |-> key, index |-> 0, times |-> e] /\ DOMAIN e = {}
  BY DEF Blank
<1>2. Blank(key).key = key /\ Blank(key).index = 0 /\ DOMAIN Blank(key).times = {}
  BY <1>1
<1> QED BY <1>2 DEF Arranged

(* What a frame leaves of a Static with the same key, ...                  *)
LEMMA PaintIs ==
    ASSUME NEW s, NEW frame, s.key = frame.key,
           NEW new, new = {n \in frame.rows : n >= s.index}
    PROVE  /\ Paint(s, frame).key = frame.key /\ Paint(s, frame).index = frame.len
           /\ DOMAIN Paint(s, frame).times = DOMAIN s.times \cup new
           /\ \A n \in DOMAIN s.times \cup new :
                Paint(s, frame).times[n] = (IF n \in DOMAIN s.times THEN s.times[n] ELSE 0)
                                             + (IF n \in new THEN 1 ELSE 0)
<1> DEFINE before(n) == IF n \in DOMAIN s.times THEN s.times[n] ELSE 0
           painted == [key |-> frame.key, index |-> frame.len,
                       times |-> [n \in DOMAIN s.times \cup new |->
                                    before(n) + IF n \in new THEN 1 ELSE 0]]
<1>1. Paint(s, frame) = painted
  BY DEF Paint
<1> QED BY <1>1

(* ... and with another.                                                   *)
LEMMA PaintFresh ==
    ASSUME NEW s, NEW frame, s.key # frame.key
    PROVE  Paint(s, frame) = Paint(Blank(frame.key), frame)
<1> DEFINE was == [key |-> frame.key, index |-> 0, times |-> <<>>]
           new == {n \in frame.rows : n >= was.index}
           before(n) == IF n \in DOMAIN was.times THEN was.times[n] ELSE 0
           painted == [key |-> frame.key, index |-> frame.len,
                       times |-> [n \in DOMAIN was.times \cup new |->
                                    before(n) + IF n \in new THEN 1 ELSE 0]]
<1>1. Paint(s, frame) = painted
  BY DEF Paint
<1>2. Blank(frame.key) = was /\ Blank(frame.key).key = frame.key
  BY DEF Blank
<1>3. Paint(Blank(frame.key), frame) = painted
  BY <1>2 DEF Paint
<1> QED BY <1>1, <1>3

(* The end of the flush: what was pending is committed, the frame that     *)
(* waited is painted.                                                      *)
LEMMA ArrangedFlush ==
    ASSUME NEW C, NEW P, NEW s, NEW q, NEW F, F \subseteq Nat, NEW L \in Nat,
           Arranged(C, P, s, q, F, L), s.index \in Nat, q.len \in Nat,
           q # NoFrame => q.key = s.key /\ q.rows = P,
           NEW t, t = IF q = NoFrame THEN s ELSE Paint(s, q)
    PROVE  Arranged(C \cup P, {}, t, NoFrame, F, L)
<1> PICK K : K = C \cup P
  OBVIOUS
<1> PICK T : T = DOMAIN s.times
  OBVIOUS
<1>1. /\ K \subseteq F /\ K \subseteq Nat /\ C \subseteq K /\ P \subseteq K
      /\ \A m \in K, n \in Nat : L <= n /\ n <= m => n \in K
      /\ C \subseteq T
      /\ \A n \in K \ T : q # NoFrame /\ s.index <= n
      /\ \A n \in Nat : (\A m \in K : m < n) => s.index <= n /\ (q # NoFrame => q.len <= n)
      /\ q = NoFrame => \A n \in K : n < s.index \/ n < L
      /\ q # NoFrame => /\ \A n \in K : n < q.len \/ n < L
                        /\ \A n \in C : n < s.index
      /\ \A n \in T : s.times[n] \in Nat /\ s.times[n] <= 2 /\ (n \notin C => s.times[n] <= 1)
  BY DEF Arranged
<1>2. CASE q = NoFrame
  <2>1. t = s /\ K \subseteq T
    BY <1>1, <1>2
  <2> QED BY <1>1, <1>2, <2>1 DEF Arranged
<1>3. CASE q # NoFrame
  <2> PICK new : new = {n \in P : n >= s.index}
    OBVIOUS
  <2>1. /\ t.index = q.len /\ DOMAIN t.times = T \cup new
        /\ \A n \in T \cup new : t.times[n] = (IF n \in T THEN s.times[n] ELSE 0)
                                                + (IF n \in new THEN 1 ELSE 0)
    BY <1>3, PaintIs
  <2> PICK U : U = T \cup new
    OBVIOUS
  <2>2. K \subseteq U
    <3> SUFFICES ASSUME NEW n \in K PROVE n \in U
      OBVIOUS
    <3>1. CASE n \in T
      BY <3>1
    <3>2. CASE n \notin T
      <4>1. s.index <= n /\ n \in P /\ n \in Nat
        BY <1>1, <3>2
      <4> QED BY <4>1
    <3> QED BY <3>1, <3>2
  <2>3. \A n \in U : t.times[n] \in Nat /\ t.times[n] <= 2 /\ (n \notin K => t.times[n] <= 1)
    <3> TAKE n \in U
    <3>1. CASE n \in new
      <4>1. n \in P /\ n \in Nat /\ n >= s.index /\ n \in K
        BY <1>1, <3>1
      <4>2. n \notin C
        BY <1>1, <1>3, <4>1
      <4>3. n \in T => s.times[n] \in Nat /\ s.times[n] <= 1
        BY <1>1, <4>2
      <4>4. t.times[n] = (IF n \in T THEN s.times[n] ELSE 0) + 1
        BY <2>1, <3>1
      <4> QED BY <4>1, <4>3, <4>4
    <3>2. CASE n \notin new
      <4>1. n \in T /\ t.times[n] = s.times[n] + 0
        BY <2>1, <3>2
      <4>2. s.times[n] \in Nat /\ s.times[n] <= 2 /\ (n \notin C => s.times[n] <= 1)
        BY <1>1, <4>1
      <4> QED BY <1>1, <4>1, <4>2
    <3> QED BY <3>1, <3>2
  <2>4. DOMAIN t.times = U /\ K \cup {} = K
    BY <2>1
  <2>5. \A n \in Nat : (\A m \in K : m < n) => t.index <= n
    BY <1>1, <1>3, <2>1
  <2>6. \A n \in K : n < t.index \/ n < L
    BY <1>1, <1>3, <2>1
  <2> QED BY <1>1, <2>2, <2>3, <2>4, <2>5, <2>6 DEF Arranged
<1> QED BY <1>2, <1>3

\* The settled rows the buffer has: those of F from L on.
Window(F, L, S) ==
    /\ F \subseteq Nat /\ L \in Nat /\ S = {n \in F : n >= L} /\ Bounded(S)
    /\ \A m \in F, n \in Nat : n <= m => n \in F

(* The settled rows of the buffer that were not known come after all that  *)
(* were.                                                                   *)
LEMMA NewRowsFollow ==
    ASSUME NEW K, NEW F, NEW L, NEW S, Window(F, L, S), K \subseteq F,
           \A m \in K, n \in Nat : L <= n /\ n <= m => n \in K
    PROVE  /\ S \subseteq F /\ K \cup S \subseteq Nat
           /\ \A n \in S : n \notin K => \A m \in K : m < n
           /\ \A m \in K \cup S, n \in Nat : L <= n /\ n <= m => n \in K \cup S
           /\ \A n \in K : n \in S \/ n < L
<1>1. /\ F \subseteq Nat /\ L \in Nat /\ \A n : n \in S <=> n \in F /\ n >= L
      /\ \A m \in F, n \in Nat : n <= m => n \in F
  BY DEF Window
<1>2. \A n \in S : n \notin K => \A m \in K : m < n
  <2> SUFFICES ASSUME NEW n \in S, n \notin K, NEW m \in K, ~(m < n) PROVE FALSE
    OBVIOUS
  <2>1. n \in F /\ m \in F /\ n >= L
    BY <1>1
  <2>2. n \in Nat /\ m \in Nat
    BY <1>1, <2>1
  <2>3. L <= n /\ n <= m
    BY <1>1, <2>1, <2>2
  <2> QED BY <2>2, <2>3
<1>3. \A m \in K \cup S, n \in Nat : L <= n /\ n <= m => n \in K \cup S
  <2> SUFFICES ASSUME NEW m \in K \cup S, NEW n \in Nat, L <= n, n <= m PROVE n \in S
    OBVIOUS
  <2>1. m \in F
    BY <1>1
  <2> QED BY <1>1, <2>1
<1>4. \A n \in K : n \in S \/ n < L
  BY <1>1
<1> QED BY <1>1, <1>2, <1>3, <1>4

(* The carrier of rows is as long as the greatest of them asks.            *)
LEMMA CarrierIs ==
    ASSUME NEW key, NEW S, NEW rows, Bounded(S \cup rows)
    PROVE  LET c == Carrier(key, S, rows)
           IN  /\ c.key = key /\ c.rows = rows /\ c.len \in Nat
               /\ \A x \in S \cup rows : x < c.len
               /\ \A n \in Nat : (\A x \in S \cup rows : x < n) => c.len <= n
<1> PICK U : U = S \cup rows
  OBVIOUS
<1>1. {-1} \cup S \cup rows = {-1} \cup U
  OBVIOUS
<1> PICK l : l = Max({-1} \cup U) + 1
  OBVIOUS
<1>2. Carrier(key, S, rows) = [key |-> key, len |-> l, rows |-> rows]
  BY <1>1 DEF Carrier
<1>3. /\ l \in Nat /\ \A x \in U : x < l
      /\ \A n \in Nat : (\A x \in U : x < n) => l <= n
  BY LengthIs
<1> PICK c : c = Carrier(key, S, rows)
  OBVIOUS
<1>4. c.key = key /\ c.rows = rows /\ c.len = l
  BY <1>2
<1> QED BY <1>3, <1>4

(* A render between two flushes paints the rows that are new; those that   *)
(* were committed, rendered again or not, Static is past.                  *)
LEMMA ArrangedPaint ==
    ASSUME NEW C, NEW s, NEW F, NEW L, NEW S, Window(F, L, S),
           Arranged(C, {}, s, NoFrame, F, L), DOMAIN s.times \subseteq C, s.index \in Nat,
           NEW rows, S \ C \subseteq rows, rows \subseteq S,
           NEW t, t = Paint(s, Carrier(s.key, S, rows))
    PROVE  Arranged(C, rows, t, NoFrame, F, L)
<1> PICK T : T = DOMAIN s.times
  OBVIOUS
<1>1. /\ C \subseteq F /\ C = T
      /\ \A m \in C, n \in Nat : L <= n /\ n <= m => n \in C
      /\ \A n \in Nat : (\A m \in C : m < n) => s.index <= n
      /\ \A n \in C : n < s.index \/ n < L
      /\ \A n \in T : s.times[n] \in Nat /\ s.times[n] <= 2
  <2>1. C \cup {} = C
    OBVIOUS
  <2> QED BY <2>1 DEF Arranged
<1>2. /\ S \subseteq F /\ C \cup S \subseteq Nat
      /\ \A n \in S : n \notin C => \A m \in C : m < n
      /\ \A m \in C \cup S, n \in Nat : L <= n /\ n <= m => n \in C \cup S
      /\ \A n \in C : n \in S \/ n < L
  <2>1. C \subseteq F /\ \A m \in C, n \in Nat : L <= n /\ n <= m => n \in C
    BY <1>1
  <2> QED BY <2>1, NewRowsFollow
<1>3. L \in Nat /\ Bounded(S) /\ \A n \in S : n >= L
  BY DEF Window
<1> PICK f : f = Carrier(s.key, S, rows)
  OBVIOUS
<1>4. S \cup rows = S
  OBVIOUS
<1>5. /\ f.key = s.key /\ f.rows = rows /\ f.len \in Nat /\ \A x \in S : x < f.len
      /\ \A n \in Nat : (\A x \in S : x < n) => f.len <= n
  BY <1>3, <1>4, CarrierIs
<1> PICK new : new = {n \in f.rows : n >= s.index}
  OBVIOUS
<1>6. \A n : n \in new <=> n \in S /\ n \notin C
  <2>1. ASSUME NEW n \in rows PROVE n >= s.index <=> n \notin C
    <3>1. n \in S /\ n \in Nat /\ n >= L
      BY <1>2, <1>3
    <3>2. n \in C => n < s.index
      BY <1>1, <1>3, <3>1
    <3>3. n \notin C => s.index <= n
      BY <1>1, <1>2, <3>1
    <3> QED BY <3>1, <3>2, <3>3
  <2> QED BY <1>5, <2>1
<1>7. /\ t.index = f.len /\ DOMAIN t.times = T \cup new
      /\ \A n \in T \cup new : t.times[n] = (IF n \in T THEN s.times[n] ELSE 0)
                                              + (IF n \in new THEN 1 ELSE 0)
  BY <1>5, PaintIs
<1> PICK K : K = C \cup rows
  OBVIOUS
<1>8. K = C \cup S /\ DOMAIN t.times = K
  BY <1>1, <1>6, <1>7
<1>9. \A n \in K : t.times[n] \in Nat /\ t.times[n] <= 2 /\ (n \notin C => t.times[n] <= 1)
  <2> SUFFICES ASSUME NEW n \in K
               PROVE  t.times[n] \in Nat /\ t.times[n] <= 2 /\ (n \notin C => t.times[n] <= 1)
    OBVIOUS
  <2>1. CASE n \in C
    <3>1. t.times[n] = s.times[n] + 0
      BY <1>1, <1>6, <1>7, <2>1
    <3>2. s.times[n] \in Nat /\ s.times[n] <= 2
      BY <1>1, <2>1
    <3> QED BY <2>1, <3>1, <3>2
  <2>2. CASE n \notin C
    <3>1. t.times[n] = 0 + 1
      BY <1>1, <1>6, <1>7, <1>8, <2>2
    <3> QED BY <3>1
  <2> QED BY <2>1, <2>2
<1>10. \A n \in Nat : (\A m \in K : m < n) => t.index <= n
  BY <1>5, <1>7, <1>8
<1>11. \A n \in K : n < t.index \/ n < L
  BY <1>2, <1>5, <1>7, <1>8
<1>12. K \subseteq F /\ C \subseteq K /\ \A m \in K, n \in Nat : L <= n /\ n <= m => n \in K
  BY <1>1, <1>2, <1>8
<1> QED BY <1>8, <1>9, <1>10, <1>11, <1>12 DEF Arranged

(* A render during a flush paints what is committed, which prints nothing, *)
(* and its frame waits.                                                    *)
LEMMA ArrangedWaits ==
    ASSUME NEW C, NEW P, NEW s, NEW q, NEW F, NEW L, NEW S, Window(F, L, S),
           Arranged(C, P, s, q, F, L), DOMAIN s.times \subseteq C \cup P,
           Bounded(C), Bounded(P),
           NEW rows, S \ (C \cup P) \subseteq rows, P \subseteq rows, rows \subseteq P \cup S,
           NEW full, full = Carrier(s.key, S, rows), full # NoFrame,
           NEW t, t = Paint(s, Carrier(s.key, C, {}))
    PROVE  Arranged(C, rows, t, full, F, L)
<1> PICK T : T = DOMAIN s.times
  OBVIOUS
<1> PICK O : O = C \cup P
  OBVIOUS
<1>1. /\ O \subseteq F /\ C \subseteq T /\ T \subseteq O
      /\ \A m \in O, n \in Nat : L <= n /\ n <= m => n \in O
      /\ \A n \in O \ T : s.index <= n /\ \A p \in T : p < n
      /\ \A n \in T : s.times[n] \in Nat /\ s.times[n] <= 2 /\ (n \notin C => s.times[n] <= 1)
  BY DEF Arranged
<1>2. /\ S \subseteq F /\ O \cup S \subseteq Nat
      /\ \A n \in S : n \notin O => \A m \in O : m < n
      /\ \A m \in O \cup S, n \in Nat : L <= n /\ n <= m => n \in O \cup S
      /\ \A n \in O : n \in S \/ n < L
  <2>1. O \subseteq F /\ \A m \in O, n \in Nat : L <= n /\ n <= m => n \in O
    BY <1>1
  <2>2. Window(F, L, S)
    OBVIOUS
  <2> QED BY ONLY <2>1, <2>2, NewRowsFollow, Zenon
<1>3. Bounded(S \cup rows)
  <2>1. Bounded(S \cup P)
    BY BothBounded DEF Window
  <2>2. S \cup rows = S \cup P
    OBVIOUS
  <2> QED BY <2>1, <2>2
<1>4. /\ full.len \in Nat /\ \A x \in S \cup rows : x < full.len
      /\ \A n \in Nat : (\A x \in S \cup rows : x < n) => full.len <= n
  BY <1>3, CarrierIs
<1> PICK f : f = Carrier(s.key, C, {})
  OBVIOUS
<1>5. /\ f.key = s.key /\ f.rows = {} /\ f.len \in Nat /\ \A x \in C : x < f.len
      /\ \A n \in Nat : (\A x \in C : x < n) => f.len <= n
  <2>1. C \cup {} = C
    OBVIOUS
  <2> QED BY <2>1, CarrierIs
<1> PICK new : new = {n \in f.rows : n >= s.index}
  OBVIOUS
<1>6. new = {}
  BY <1>5
<1>7. /\ t.index = f.len /\ DOMAIN t.times = T \cup new
      /\ \A n \in T \cup new : t.times[n] = (IF n \in T THEN s.times[n] ELSE 0)
                                              + (IF n \in new THEN 1 ELSE 0)
  BY <1>5, PaintIs
<1>8. DOMAIN t.times = T /\ \A n \in T : t.times[n] = s.times[n] + 0
  BY <1>6, <1>7
<1> PICK K : K = C \cup rows
  OBVIOUS
<1>9. K = O \cup S
  OBVIOUS
<1>10. \A n \in T :
         t.times[n] \in Nat /\ t.times[n] <= 2 /\ (n \notin C => t.times[n] <= 1)
  BY <1>1, <1>8
<1>11. \A n \in K \ T : t.index <= n /\ \A p \in T : p < n
  <2> SUFFICES ASSUME NEW n \in K, n \notin T PROVE t.index <= n /\ \A p \in T : p < n
    OBVIOUS
  <2>1. n \in Nat
    BY <1>2, <1>9
  <2>2. \A p \in T : p < n
    BY <1>1, <1>2, <1>9
  <2> QED BY <1>1, <1>5, <1>7, <2>1, <2>2
<1>12. \A n \in Nat : (\A m \in K : m < n) => t.index <= n /\ full.len <= n
  <2> SUFFICES ASSUME NEW n \in Nat, \A m \in K : m < n PROVE t.index <= n /\ full.len <= n
    OBVIOUS
  <2>1. (\A x \in C : x < n) /\ (\A x \in S \cup rows : x < n)
    BY <1>9
  <2> QED BY <1>4, <1>5, <1>7, <2>1
<1>13. \A n \in K : n < full.len \/ n < L
  <2> SUFFICES ASSUME NEW n \in K PROVE n < full.len \/ n < L
    OBVIOUS
  <2>1. CASE n \in S \cup rows
    BY <1>4, <2>1
  <2>2. CASE n \notin S \cup rows
    BY <1>2, <1>9, <2>2
  <2> QED BY <2>1, <2>2
<1>14. \A n \in C : n < t.index
  BY <1>5, <1>7
<1>15. K \subseteq F /\ C \subseteq T /\ \A m \in K, n \in Nat : L <= n /\ n <= m => n \in K
  BY <1>1, <1>2, <1>9
<1> QED BY <1>8, <1>10, <1>11, <1>12, <1>13, <1>14, <1>15 DEF Arranged

-----------------------------------------------------------------------------
\* The numbers of the settled rows of elements.
Fixed(es, w) == {n \in Nat : n + 1 \in DOMAIN RowsFor(es, w) /\ RowsFor(es, w)[n + 1].life = "stable"}

(* They have no gap, as only the last element may be live, ...             *)
LEMMA FixedDown ==
    ASSUME NEW es, Countable(es), NEW w \in Nat, OnlyLastLive(es),
           NEW m \in Fixed(es, w), NEW n \in Nat, n <= m
    PROVE  n \in Fixed(es, w)
<1> PICK r : r = RowsFor(es, w)
  OBVIOUS
<1> PICK f : f = Ends(es, w)
  OBVIOUS
<1>1. /\ Len(es) \in Nat /\ DOMAIN es = 1..Len(es) /\ DOMAIN r = 1..f[Len(es)] /\ f[Len(es)] \in Nat
      /\ f \in [0..Len(es) -> Nat]
  BY RowsAre, EndsAre DEF Countable, IsEnds
<1>2. m \in Nat /\ m + 1 \in DOMAIN r /\ r[m + 1].life = "stable"
  BY DEF Fixed
<1>3. n + 1 \in DOMAIN r
  <2> PICK l : l = f[Len(es)]
    OBVIOUS
  <2> QED BY <1>1, <1>2
<1>4. PICK i : Owns(es, w, i, m + 1) /\ r[m + 1] = RowOf(es, w, i, m + 1)
  BY <1>2, RowsAre
<1>5. PICK j : Owns(es, w, j, n + 1) /\ r[n + 1] = RowOf(es, w, j, n + 1)
  BY <1>3, RowsAre
<1>6. i \in 1..Len(es) /\ j \in 1..Len(es) /\ f[j - 1] < n + 1 /\ m + 1 <= f[i]
  BY <1>4, <1>5 DEF Owns
<1>7. ~(i < j)
  <2> SUFFICES ASSUME i < j PROVE FALSE
    OBVIOUS
  <2>1. i \in 0..Len(es) /\ j - 1 \in 0..Len(es) /\ i <= j - 1
    BY <1>1, <1>6
  <2>2. f[i] <= f[j - 1]
    BY <2>1, EndsMonotone
  <2>3. f[i] \in Nat /\ f[j - 1] \in Nat
    BY <1>1, <2>1
  <2> PICK a : a = f[i]
    OBVIOUS
  <2> PICK b : b = f[j - 1]
    OBVIOUS
  <2> QED BY <1>2, <1>6, <2>2, <2>3
<1>8. es[i].life = "stable"
  BY <1>2, <1>4 DEF RowOf
<1>9. es[j].life = "stable"
  <2>1. j = i \/ j < i
    BY <1>1, <1>6, <1>7
  <2>2. i \in DOMAIN es /\ j \in DOMAIN es
    BY <1>1, <1>6
  <2>3. j < i => es[j].life = "stable"
    BY <2>2 DEF OnlyLastLive
  <2> QED BY <1>8, <2>1, <2>3
<1>10. r[n + 1].life = "stable"
  BY <1>5, <1>9 DEF RowOf
<1> QED BY <1>3, <1>10 DEF Fixed

(* ... they stay, ...                                                      *)
LEMMA FixedStays ==
    ASSUME NEW old, NEW new, Countable(old), Countable(new), NEW w \in Nat, Continues(old, new)
    PROVE  Fixed(old, w) \subseteq Fixed(new, w)
<1> SUFFICES ASSUME NEW n \in Fixed(old, w) PROVE n \in Fixed(new, w)
  OBVIOUS
<1>1. n \in Nat /\ n + 1 \in DOMAIN RowsFor(old, w) /\ RowsFor(old, w)[n + 1].life = "stable"
  BY DEF Fixed
<1>2. n + 1 \in DOMAIN RowsFor(new, w) /\ RowsFor(new, w)[n + 1] = RowsFor(old, w)[n + 1]
  BY <1>1, StableStays
<1> QED BY <1>1, <1>2 DEF Fixed

(* ... and the buffer's committed rows are those of them it has retained.  *)
LEMMA CommittedAre ==
    ASSUME NEW b, NEW es, Countable(es), b.width \in Nat, Exact(b, es)
    PROVE  /\ Cut(RowsFor(es, b.width)) \in Nat
           /\ Numbers(Committed(b)) = {n \in Fixed(es, b.width) : n >= Cut(RowsFor(es, b.width))}
<1> PICK r : r = RowsFor(es, b.width)
  OBVIOUS
<1> PICK c : c = Cut(r)
  OBVIOUS
<1> PICK q : q = b.rows
  OBVIOUS
<1>0. InPlace(r) /\ MaxRetained \in Nat
  BY RowsInPlace, SizesAre
<1>1. /\ Len(r) \in Nat /\ DOMAIN r = 1..Len(r) /\ r \in Seq(Range(r))
      /\ \A n \in DOMAIN r : r[n].abs = n - 1
  BY <1>0, PlacedRows
<1>2. q = Retained(r)
  BY DEF Exact
<1>3. /\ c \in 0..Len(r) /\ \A i \in DOMAIN q : i + c \in DOMAIN r /\ q[i] = r[i + c]
      /\ \A n \in DOMAIN r : n > c => n - c \in DOMAIN q /\ q[n - c] = r[n]
      /\ q \in Seq(Range(r))
  BY <1>0, <1>1, <1>2, RetainedAre
<1>4. c \in Nat /\ \A i \in DOMAIN q : i \in Nat /\ i > 0
  <2> PICK S : S = Range(r)
    OBVIOUS
  <2> QED BY <1>1, <1>3
<1>5. \A x : x \in Numbers(Committed(b)) <=> \E i \in DOMAIN q : q[i].life = "stable" /\ x = q[i].abs
  BY DEF Numbers, Committed, Range
<1>6. \A x : x \in Fixed(es, b.width) <=> x \in Nat /\ x + 1 \in DOMAIN r /\ r[x + 1].life = "stable"
  BY DEF Fixed
<1>7. ASSUME NEW i \in DOMAIN q, q[i].life = "stable"
      PROVE  q[i].abs \in Fixed(es, b.width) /\ q[i].abs >= c
  <2>1. i + c \in DOMAIN r /\ q[i] = r[i + c] /\ r[i + c].abs = (i + c) - 1
    BY <1>1, <1>3
  <2> PICK n : n = (i + c) - 1
    OBVIOUS
  <2>2. n \in Nat /\ n >= c /\ n + 1 = i + c
    BY <1>4
  <2>3. q[i].abs = n
    BY <2>1
  <2> QED BY <1>6, <1>7, <2>1, <2>2, <2>3
<1>8. ASSUME NEW n \in Fixed(es, b.width), n >= c
      PROVE  \E i \in DOMAIN q : q[i].life = "stable" /\ n = q[i].abs
  <2>1. n \in Nat /\ n + 1 \in DOMAIN r /\ r[n + 1].life = "stable"
    BY <1>6
  <2> PICK m : m = n + 1
    OBVIOUS
  <2>2. m > c /\ m - 1 = n
    BY <1>4, <1>8, <2>1
  <2>3. m - c \in DOMAIN q /\ q[m - c] = r[m]
    BY <1>3, <2>1, <2>2
  <2>4. r[m].abs = n
    BY <1>1, <2>1, <2>2
  <2> QED BY <2>1, <2>3, <2>4
<1>9. \A x : x \in Numbers(Committed(b)) <=> x \in Fixed(es, b.width) /\ x >= c
  <2> TAKE x
  <2>1. ASSUME x \in Numbers(Committed(b)) PROVE x \in Fixed(es, b.width) /\ x >= c
    BY <1>5, <1>7, <2>1
  <2>2. ASSUME x \in Fixed(es, b.width), x >= c PROVE x \in Numbers(Committed(b))
    BY <1>5, <1>8, <2>2
  <2> QED BY <2>1, <2>2
<1> QED BY <1>4, <1>9

-----------------------------------------------------------------------------
\* No element went and none lost lines.
Grown(old, new) == Len(old) <= Len(new) /\ \A i \in 1..Len(old) : old[i].lines <= new[i].lines

(* Elements that have grown have more rows, so that more of them are cut.  *)
LEMMA CutGrows ==
    ASSUME NEW old, NEW new, Countable(old), Countable(new), Grown(old, new), NEW w \in Nat
    PROVE  /\ Cut(RowsFor(old, w)) \in Nat /\ Cut(RowsFor(new, w)) \in Nat
           /\ Cut(RowsFor(old, w)) <= Cut(RowsFor(new, w))
<1> PICK f : f = Ends(old, w)
  OBVIOUS
<1> PICK g : g = Ends(new, w)
  OBVIOUS
<1> PICK n : n = Len(old)
  OBVIOUS
<1> PICK m : m = Len(new)
  OBVIOUS
<1>1. n \in Nat /\ m \in Nat /\ n <= m
  BY DEF Countable, Grown
<1>2. /\ f \in [0..n -> Nat] /\ f[0] = 0 /\ \A i \in 1..n : f[i] = f[i - 1] + old[i].lines * w
      /\ g \in [0..m -> Nat] /\ g[0] = 0 /\ \A i \in 1..m : g[i] = g[i - 1] + new[i].lines * w
  BY EndsAre DEF IsEnds
<1>3. \A i \in 1..n : /\ old[i].lines * w \in Nat /\ new[i].lines * w \in Nat
                      /\ old[i].lines * w <= new[i].lines * w
  <2> TAKE i \in 1..n
  <2>1. old[i].lines \in Nat /\ new[i].lines \in Nat /\ old[i].lines <= new[i].lines /\ w <= w
    BY <1>1 DEF Countable, Grown
  <2> QED BY <2>1, TimesGrow, NatTimes
<1>4. f[n] <= g[n]
  <2> PICK T : T = {i \in 0..n : ~(f[i] <= g[i])}
    OBVIOUS
  <2>1. T = {}
    <3> SUFFICES ASSUME T # {} PROVE FALSE
      OBVIOUS
    <3>1. T \in SUBSET Nat
      BY <1>1
    <3>2. PICK x \in T : \A y \in T : x <= y
      BY <3>1, LeastNat
    <3>3. x # 0
      BY <1>2
    <3>4. x \in 1..n /\ x \in 1..m /\ x - 1 \in 0..n /\ x - 1 \in 0..m /\ ~(x <= x - 1)
      BY <1>1, <3>1, <3>3
    <3>5. f[x - 1] <= g[x - 1] /\ f[x - 1] \in Nat /\ g[x - 1] \in Nat
      BY <1>2, <3>2, <3>4
    <3> PICK p : p = old[x].lines * w
      OBVIOUS
    <3> PICK q : q = new[x].lines * w
      OBVIOUS
    <3>6. f[x] = f[x - 1] + p /\ g[x] = g[x - 1] + q /\ p \in Nat /\ q \in Nat /\ p <= q
      BY <1>2, <1>3, <3>4
    <3>7. f[x] <= g[x]
      <4> PICK u : u = f[x - 1]
        OBVIOUS
      <4> PICK v : v = g[x - 1]
        OBVIOUS
      <4>1. f[x] = u + p /\ g[x] = v + q /\ u \in Nat /\ v \in Nat /\ u <= v
        BY <3>5, <3>6
      <4>2. p \in Nat /\ q \in Nat /\ p <= q
        BY <3>6
      <4>3. u + p <= v + q
        BY ONLY <4>1, <4>2
      <4> QED BY <4>1, <4>3
    <3> QED BY <3>7
  <2>2. n \in 0..n /\ n \notin T
    BY <1>1, <2>1
  <2> QED BY <2>2
<1>5. g[n] <= g[m]
  <2>1. n \in 0..Len(new) /\ m \in 0..Len(new) /\ n <= m
    BY <1>1
  <2> QED BY <2>1, EndsMonotone
<1>6. /\ InPlace(RowsFor(old, w)) /\ Len(RowsFor(old, w)) = f[n]
      /\ InPlace(RowsFor(new, w)) /\ Len(RowsFor(new, w)) = g[m]
  BY RowsInPlace
<1> PICK r : r = RowsFor(old, w)
  OBVIOUS
<1> PICK q : q = RowsFor(new, w)
  OBVIOUS
<1>7. MaxRetained \in Nat /\ r \in Seq(Range(r)) /\ q \in Seq(Range(q))
  BY <1>6, PlacedRows, SizesAre
<1>8. /\ Cut(r) \in 0..Len(r) /\ Cut(r) = IF Len(r) <= MaxRetained THEN 0 ELSE Len(r) - MaxRetained
      /\ Cut(q) \in 0..Len(q) /\ Cut(q) = IF Len(q) <= MaxRetained THEN 0 ELSE Len(q) - MaxRetained
  BY <1>7, RetainedAre
<1>9. Len(r) \in Nat /\ Len(q) \in Nat /\ Len(r) <= Len(q)
  <2>1. f[n] \in Nat /\ g[n] \in Nat /\ g[m] \in Nat
    BY <1>1, <1>2
  <2> QED BY <1>4, <1>5, <1>6, <2>1
<1> QED BY <1>7, <1>8, <1>9

(* Growing once and growing again.                                         *)
LEMMA GrownAgain ==
    ASSUME NEW a, NEW b, NEW c, Countable(a), Countable(b), Countable(c), Grown(a, b), Grown(b, c)
    PROVE  Grown(a, a) /\ Grown(a, c)
<1>1. /\ Len(a) \in Nat /\ Len(b) \in Nat /\ Len(c) \in Nat /\ Len(a) <= Len(b) /\ Len(b) <= Len(c)
  BY DEF Countable, Grown
<1>2. \A i \in 1..Len(a) : a[i].lines <= a[i].lines /\ a[i].lines <= c[i].lines
  <2> TAKE i \in 1..Len(a)
  <2>1. i \in 1..Len(b) /\ i \in 1..Len(c)
    BY <1>1
  <2>2. a[i].lines \in Nat /\ b[i].lines \in Nat /\ c[i].lines \in Nat
    BY <2>1 DEF Countable
  <2>3. a[i].lines <= b[i].lines /\ b[i].lines <= c[i].lines
    BY <2>1 DEF Grown
  <2> QED BY <2>2, <2>3
<1> QED BY <1>1, <1>2 DEF Grown

(* Nodes that continue, none gone and none shorter, have grown.            *)
LEMMA NotShorter ==
    ASSUME NEW old \in Seq(NodeSet), NEW new \in Seq(NodeSet), Continues(old, new), ~Shorter(new, old)
    PROVE  Grown(old, new)
<1>1. /\ Len(old) \in Nat /\ Len(new) \in Nat /\ DOMAIN old = 1..Len(old) /\ DOMAIN new = 1..Len(new)
      /\ \A i \in DOMAIN old : old[i].lines \in Nat /\ old[i] \in Range(old)
      /\ \A i \in DOMAIN new : new[i].lines \in Nat
  <2>1. \A i \in DOMAIN old : old[i] \in NodeSet
    OBVIOUS
  <2>2. \A i \in DOMAIN new : new[i] \in NodeSet
    OBVIOUS
  <2> QED BY <2>1, <2>2 DEF NodeSet, Range
<1>2. ASSUME NEW i \in DOMAIN old PROVE i \in DOMAIN new /\ old[i].lines <= new[i].lines
  <2>1. PICK n \in Range(new) : n.id = old[i].id /\ ~(n.lines < old[i].lines)
    BY <1>1 DEF Shorter
  <2>2. PICK c \in DOMAIN new : n = new[c]
    BY <2>1 DEF Range
  <2>3. c = i
    BY <2>1, <2>2 DEF Continues
  <2>4. i \in DOMAIN new /\ ~(new[i].lines < old[i].lines)
    BY <2>1, <2>2, <2>3
  <2> QED BY <1>1, <2>4
<1>3. Len(old) <= Len(new)
  <2>1. Len(old) # 0 => Len(old) \in DOMAIN old
    BY <1>1
  <2> QED BY <1>1, <1>2, <2>1
<1> QED BY <1>1, <1>2, <1>3 DEF Grown

(* The logo before them changes nothing of it.                             *)
LEMMA LogoGrown ==
    ASSUME NEW old \in Seq(NodeSet), NEW new \in Seq(NodeSet)
    PROVE  /\ Grown(old, new) => Grown(<<Logo>> \o old, <<Logo>> \o new)
           /\ Grown(<<Logo>> \o new, <<Logo>> \o new)
<1> PICK a : a = <<Logo>> \o old
  OBVIOUS
<1> PICK b : b = <<Logo>> \o new
  OBVIOUS
<1>1. /\ Len(old) \in Nat /\ Len(a) = Len(old) + 1 /\ a[1] = Logo
      /\ \A i \in 1..(Len(old) + 1) : i # 1 => i - 1 \in 1..Len(old) /\ a[i] = old[i - 1]
      /\ a \in Seq(ElementSet)
  BY LogoFirst
<1>2. /\ Len(new) \in Nat /\ Len(b) = Len(new) + 1 /\ b[1] = Logo
      /\ \A i \in 1..(Len(new) + 1) : i # 1 => i - 1 \in 1..Len(new) /\ b[i] = new[i - 1]
      /\ b \in Seq(ElementSet)
  BY LogoFirst
<1>3. Countable(a) /\ Countable(b)
  BY <1>1, <1>2, ElementsCount
<1>4. Grown(b, b)
  <2>1. Len(b) \in Nat /\ \A i \in 1..Len(b) : b[i].lines \in Nat
    BY <1>3 DEF Countable
  <2>2. Len(b) <= Len(b) /\ \A i \in 1..Len(b) : b[i].lines <= b[i].lines
    BY ONLY <2>1
  <2> QED BY ONLY <2>2 DEF Grown
<1>5. ASSUME Grown(old, new) PROVE Grown(a, b)
  <2>1. Len(old) <= Len(new) /\ \A i \in 1..Len(old) : old[i].lines <= new[i].lines
    BY <1>5 DEF Grown
  <2>2. ASSUME NEW i \in 1..Len(a) PROVE a[i].lines <= b[i].lines
    <3>1. CASE i = 1
      <4>1. a[i] = b[i]
        BY <1>1, <1>2, <3>1
      <4>2. a[i].lines \in Nat
        BY <1>3 DEF Countable
      <4> QED BY ONLY <4>1, <4>2
    <3>2. CASE i # 1
      <4>1. i - 1 \in 1..Len(old) /\ a[i] = old[i - 1]
        BY <1>1, <3>2
      <4>2. b[i] = new[i - 1]
        BY <1>1, <1>2, <2>1, <3>2
      <4> QED BY <2>1, <4>1, <4>2
    <3> QED BY <3>1, <3>2
  <2> QED BY <1>1, <1>2, <2>1, <2>2 DEF Grown
<1> QED BY <1>4, <1>5

-----------------------------------------------------------------------------
\* What is, or on its return would be, displayed of Session s: d is the one
\* displayed, with elements es; ns are the nodes.
Shows(s, d, es, ns) ==
    IF s = d THEN es ELSE IF s \in Sessions THEN <<Logo>> \o ns[s] ELSE <<Logo>>

\* The same of what is displayed now.
EsOf(s) == Shows(s, displayed, elements, nodes)

(* The three cases.                                                        *)
LEMMA ShowsAre ==
    ASSUME NEW s, NEW d, NEW es, NEW ns
    PROVE  /\ s = d => Shows(s, d, es, ns) = es
           /\ s # d /\ s \in Sessions => Shows(s, d, es, ns) = <<Logo>> \o ns[s]
           /\ s # d /\ s \notin Sessions => Shows(s, d, es, ns) = <<Logo>>
BY DEF Shows

(* These are elements.                                                     *)
LEMMA ShowsTyped ==
    ASSUME NEW s, NEW d, NEW es \in Seq(ElementSet), NEW ns \in [Sessions -> Seq(NodeSet)]
    PROVE  Shows(s, d, es, ns) \in Seq(ElementSet) /\ Countable(Shows(s, d, es, ns))
<1>1. <<Logo>> \in Seq(ElementSet)
  BY DEF ElementSet
<1>2. s \in Sessions => <<Logo>> \o ns[s] \in Seq(ElementSet)
  <2> SUFFICES ASSUME s \in Sessions PROVE <<Logo>> \o ns[s] \in Seq(ElementSet)
    OBVIOUS
  <2>1. ns[s] \in Seq(NodeSet)
    OBVIOUS
  <2> QED BY <2>1, LogoFirst
<1>3. Shows(s, d, es, ns) \in Seq(ElementSet)
  BY <1>1, <1>2, Zenon DEF Shows
<1> QED BY <1>3, ElementsCount

\* The session and the width of what is rendered; how much has been shed; a
\* transcript that lost nothing has grown since it was projected.
GrowthInv ==
    /\ output.session = displayed
    /\ AppendOnly /\ "shed" \notin happened => Cut(RowsFor(elements, buffer.width)) = 0
    /\ AppendOnly /\ "shorter" \notin happened /\ displayed \in Sessions =>
         Grown(elements, <<Logo>> \o nodes[displayed])

\* What is settled stays, and as long as nothing is lost nothing is shorter.
Onward ==
    /\ happened \subseteq happened'
    /\ AppendOnly' =>
         /\ AppendOnly
         /\ \A s : Continues(EsOf(s), EsOf(s)')
         /\ "shorter" \notin happened' => \A s : Grown(EsOf(s), EsOf(s)')

(* What was projected is continued by the nodes.                           *)
LEMMA ElementsGo ==
    ASSUME DisplayInv, AppendOnly
    PROVE  /\ displayed \in Sessions => Continues(elements, <<Logo>> \o nodes[displayed])
           /\ displayed \notin Sessions =>
                Continues(elements, <<Logo>>) /\ Grown(elements, <<Logo>>)
<1>1. \/ displayed = NoSession /\ elements \in {<<>>, <<Logo>>}
      \/ displayed \in Sessions
         /\ \E old \in Seq(NodeSet) :
              /\ elements = <<Logo>> \o old
              /\ Follows(old, nodes[displayed], displayed, count, step[displayed])
  BY DEF DisplayInv, ElementsInv
<1>2. CASE displayed \in Sessions
  <2>1. PICK old \in Seq(NodeSet) :
              /\ elements = <<Logo>> \o old
              /\ Follows(old, nodes[displayed], displayed, count, step[displayed])
    BY <1>1, <1>2, TranscriptAssumption
  <2>2. nodes[displayed] \in Seq(NodeSet) /\ Continues(old, nodes[displayed])
    BY <1>2, <2>1 DEF Follows, DisplayInv, DisplayTypes
  <2>3. Continues(<<Logo>> \o old, <<Logo>> \o nodes[displayed])
    BY <2>2, LogoContinues
  <2> QED BY <1>2, <2>1, <2>3
<1>3. CASE displayed \notin Sessions
  <2> PICK l : l = <<Logo>>
    OBVIOUS
  <2>1. DOMAIN l = 1..1 /\ Len(l) = 1 /\ l[1] = Logo /\ Logo.life = "stable" /\ Logo.lines = 1
    BY DEF Logo
  <2>2. elements = <<>> \/ elements = l
    BY <1>1, <1>3
  <2>3. CASE elements = <<>>
    <3>1. DOMAIN elements = {} /\ Len(elements) = 0
      BY <2>3
    <3>2. Continues(elements, l)
      BY <3>1 DEF Continues
    <3>3. Grown(elements, l)
      BY <2>1, <3>1 DEF Grown
    <3> QED BY <1>3, <3>2, <3>3
  <2>4. CASE elements = l
    <3>1. Continues(l, l)
      BY <2>1 DEF Continues
    <3>2. Grown(l, l)
      BY <2>1 DEF Grown
    <3> QED BY <1>3, <2>4, <3>1, <3>2
  <2> QED BY <2>2, <2>3, <2>4
<1> QED BY <1>2, <1>3

(* What does not change continues and has grown.                           *)
LEMMA NodesGo ==
    ASSUME DisplayInv, AppendOnly
    PROVE  /\ Continues(<<Logo>>, <<Logo>>) /\ Grown(<<Logo>>, <<Logo>>)
           /\ Continues(elements, elements) /\ Grown(elements, elements)
           /\ \A s \in Sessions :
                /\ nodes[s] \in Seq(NodeSet) /\ Continues(nodes[s], nodes[s])
                /\ Continues(<<Logo>> \o nodes[s], <<Logo>> \o nodes[s])
                /\ Grown(<<Logo>> \o nodes[s], <<Logo>> \o nodes[s])
<1>1. Continues(<<Logo>>, <<Logo>>) /\ Grown(<<Logo>>, <<Logo>>)
  <2> PICK l : l = <<Logo>>
    OBVIOUS
  <2>1. DOMAIN l = 1..1 /\ Len(l) = 1 /\ l[1] = Logo /\ Logo.life = "stable" /\ Logo.lines = 1
    BY DEF Logo
  <2>2. Continues(l, l)
    BY <2>1 DEF Continues
  <2>3. Grown(l, l)
    BY <2>1 DEF Grown
  <2> QED BY <2>2, <2>3
<1>2. Continues(elements, elements)
  BY ElementsAre
<1>3. Grown(elements, elements)
  <2>1. Countable(elements)
    BY BufferIs
  <2> QED BY <2>1 DEF Countable, Grown
<1>4. ASSUME NEW s \in Sessions
      PROVE  /\ nodes[s] \in Seq(NodeSet) /\ Continues(nodes[s], nodes[s])
             /\ Continues(<<Logo>> \o nodes[s], <<Logo>> \o nodes[s])
             /\ Grown(<<Logo>> \o nodes[s], <<Logo>> \o nodes[s])
  <2>1. nodes[s] \in Seq(NodeSet) /\ Ordered(nodes[s], count, step[s])
    BY DEF DisplayInv, DisplayTypes, NodesInv
  <2>2. Continues(nodes[s], nodes[s])
    BY <2>1, FollowsItself DEF Follows
  <2> QED BY <2>1, <2>2, LogoContinues, LogoGrown
<1> QED BY <1>1, <1>2, <1>3, <1>4

(* Nothing of it changes.                                                  *)
LEMMA StillOnward ==
    ASSUME DisplayInv, UNCHANGED <<nodes, elements, displayed, bars, happened>>
    PROVE  Onward
<1>1. AppendOnly' => AppendOnly
  BY DEF AppendOnly
<1>2. ASSUME AppendOnly, NEW s PROVE Continues(EsOf(s), EsOf(s)') /\ Grown(EsOf(s), EsOf(s)')
  <2>1. EsOf(s)' = EsOf(s)
    BY DEF EsOf
  <2>2. Continues(EsOf(s), EsOf(s)) /\ Grown(EsOf(s), EsOf(s))
    BY <1>2, NodesGo, Zenon DEF EsOf, Shows
  <2> QED BY <2>1, <2>2
<1> QED BY <1>1, <1>2 DEF Onward

(* An event: its node comes, changes or goes at the end.                   *)
LEMMA AdvanceOnward ==
    ASSUME DisplayInv, DisplayInv', GrowthInv, InSession, Advances, Orderly
    PROVE  Onward /\ GrowthInv'
<1>1. PICK ns \in Seq(NodeSet) :
        /\ Event(ns) /\ PagesStay(ns)
        /\ SameStep \/ NextStep
        /\ Orderly /\ Ordered(Here, count, step[session]) /\ NoneOlder(ns) =>
             Goes(Here, ns, session, count, step[session], step'[session])
  BY DEF Advances
<1>2. /\ session \in Sessions /\ nodes \in [Sessions -> Seq(NodeSet)] /\ Here \in Seq(NodeSet)
      /\ Here = nodes[session] /\ count \in Nat /\ step[session] \in Nat
  BY EventFacts DEF InSession, Here
<1>3. /\ nodes' = [nodes EXCEPT ![session] = ns] /\ bars' = bars
      /\ happened' = happened \cup Happened(Shorter(ns, Here), "shorter")
      /\ elements' = elements /\ displayed' = displayed /\ buffer' = buffer /\ output' = output
  BY <1>1 DEF Event, display
<1>4. nodes'[session] = ns /\ \A s \in Sessions : s # session => nodes'[s] = nodes[s]
  BY <1>2, <1>3
<1>5. ASSUME AppendOnly' PROVE AppendOnly /\ Continues(Here, ns)
  <2>1. AppendOnly /\ NoneOlder(ns)
    BY <1>1, <1>5, PagesRemain
  <2>2. Ordered(Here, count, step[session])
    BY <1>2, <2>1 DEF DisplayInv, NodesInv
  <2>3. Follows(Here, Here, session, count, step[session])
    BY <2>2, FollowsItself
  <2>4. Goes(Here, ns, session, count, step[session], step'[session])
    BY <1>1, <2>1, <2>2
  <2>5. Follows(Here, ns, session, count + 1, step'[session])
    BY <1>2, <2>3, <2>4, GoesFollowing
  <2> QED BY <2>1, <2>5 DEF Follows
<1>6. ASSUME AppendOnly', "shorter" \notin happened' PROVE Grown(Here, ns) /\ "shorter" \notin happened
  <2>1. ~Shorter(ns, Here) /\ "shorter" \notin happened
    BY <1>3, <1>6 DEF Happened
  <2> QED BY <1>2, <1>5, <1>6, <2>1, NotShorter
<1>7. \A s : s \notin Sessions \/ s # session \/ s = displayed => EsOf(s)' = EsOf(s)
  <2> TAKE s
  <2>1. EsOf(s)' = Shows(s, displayed, elements, nodes') /\ EsOf(s) = Shows(s, displayed, elements, nodes)
    BY <1>3 DEF EsOf
  <2>2. s \in Sessions /\ s # session => nodes'[s] = nodes[s]
    BY <1>4
  <2>3. CASE s = displayed
    BY <2>1, <2>3, ShowsAre
  <2>4. CASE s # displayed /\ s \notin Sessions
    BY <2>1, <2>4, ShowsAre
  <2>5. CASE s # displayed /\ s \in Sessions
    <3>1. EsOf(s)' = <<Logo>> \o nodes'[s] /\ EsOf(s) = <<Logo>> \o nodes[s]
      BY <2>1, <2>5, ShowsAre
    <3> QED BY <2>2, <2>5, <3>1
  <2> QED BY <2>3, <2>4, <2>5
<1>8. ASSUME NEW s, s = session, s # displayed
      PROVE  EsOf(s) = <<Logo>> \o Here /\ EsOf(s)' = <<Logo>> \o ns
  <2>1. /\ EsOf(s)' = Shows(s, displayed, elements, nodes')
        /\ EsOf(s) = Shows(s, displayed, elements, nodes)
    BY <1>3 DEF EsOf
  <2>2. s \in Sessions /\ nodes'[s] = ns /\ nodes[s] = Here
    BY <1>2, <1>4, <1>8
  <2>3. /\ Shows(s, displayed, elements, nodes') = <<Logo>> \o nodes'[s]
        /\ Shows(s, displayed, elements, nodes) = <<Logo>> \o nodes[s]
    BY <1>8, <2>2, ShowsAre
  <2> QED BY <2>1, <2>2, <2>3
<1>9. ASSUME AppendOnly' PROVE \A s : Continues(EsOf(s), EsOf(s)')
  <2>1. AppendOnly /\ Continues(<<Logo>> \o Here, <<Logo>> \o ns)
    BY <1>2, <1>5, <1>9, LogoContinues
  <2>2. \A s : Continues(EsOf(s), EsOf(s))
    BY <2>1, NodesGo, Zenon DEF EsOf, Shows
  <2> SUFFICES ASSUME NEW s PROVE Continues(EsOf(s), EsOf(s)')
    OBVIOUS
  <2>3. CASE EsOf(s)' = EsOf(s)
    BY <2>2, <2>3
  <2>4. CASE EsOf(s)' # EsOf(s)
    <3>1. s = session /\ session # displayed
      BY <1>7, <2>4
    <3>2. EsOf(s) = <<Logo>> \o Here /\ EsOf(s)' = <<Logo>> \o ns
      BY <1>8, <3>1
    <3> QED BY <2>1, <3>2
  <2> QED BY <2>3, <2>4
<1>10. ASSUME AppendOnly', "shorter" \notin happened' PROVE \A s : Grown(EsOf(s), EsOf(s)')
  <2>1. AppendOnly /\ Grown(<<Logo>> \o Here, <<Logo>> \o ns)
    BY <1>2, <1>5, <1>6, <1>10, LogoGrown
  <2>2. \A s : Grown(EsOf(s), EsOf(s))
    BY <2>1, NodesGo, Zenon DEF EsOf, Shows
  <2> SUFFICES ASSUME NEW s PROVE Grown(EsOf(s), EsOf(s)')
    OBVIOUS
  <2>3. CASE EsOf(s)' = EsOf(s)
    BY <2>2, <2>3
  <2>4. CASE EsOf(s)' # EsOf(s)
    <3>1. s = session /\ session # displayed
      BY <1>7, <2>4
    <3>2. EsOf(s) = <<Logo>> \o Here /\ EsOf(s)' = <<Logo>> \o ns
      BY <1>8, <3>1
    <3> QED BY <2>1, <3>2
  <2> QED BY <2>3, <2>4
<1>11. Onward
  BY <1>3, <1>5, <1>9, <1>10 DEF Onward
<1>12. ASSUME AppendOnly', "shorter" \notin happened', displayed' \in Sessions
       PROVE  Grown(elements, <<Logo>> \o nodes'[displayed])
  <2>1. Grown(elements, <<Logo>> \o nodes[displayed]) /\ displayed \in Sessions
    BY <1>3, <1>5, <1>6, <1>12 DEF GrowthInv
  <2>2. CASE displayed # session
    BY <1>4, <2>1, <2>2
  <2>3. CASE displayed = session
    <3>1. Grown(elements, <<Logo>> \o Here) /\ Grown(<<Logo>> \o Here, <<Logo>> \o ns)
      BY <1>2, <1>6, <1>12, <2>1, <2>3, LogoGrown
    <3>2. Countable(elements) /\ Countable(<<Logo>> \o Here) /\ Countable(<<Logo>> \o ns)
      BY <1>2, BufferIs, LogoFirst, ElementsCount
    <3>3. Grown(elements, <<Logo>> \o ns)
      BY <3>1, <3>2, GrownAgain
    <3> QED BY <1>4, <2>3, <3>3
  <2> QED BY <2>2, <2>3
<1>13. GrowthInv'
  <2>1. output'.session = displayed'
    BY <1>3 DEF GrowthInv
  <2>2. ASSUME AppendOnly', "shed" \notin happened' PROVE Cut(RowsFor(elements', buffer'.width)) = 0
    <3>1. AppendOnly /\ "shed" \notin happened
      BY <1>3, <1>5, <2>2
    <3> QED BY <1>3, <3>1 DEF GrowthInv
  <2> QED BY <1>3, <1>12, <2>1, <2>2 DEF GrowthInv
<1> QED BY <1>11, <1>13

(* As long as nothing was shed nothing is cut.                             *)
LEMMA NothingShed ==
    ASSUME NEW es, Countable(es), NEW w \in Nat, "shed" \notin Sheds(es, w)
    PROVE  Cut(RowsFor(es, w)) = 0
<1> PICK r : r = RowsFor(es, w)
  OBVIOUS
<1>1. ~(Len(r) > MaxRetained)
  BY DEF Sheds, Happened
<1>2. InPlace(r) /\ MaxRetained \in Nat
  BY RowsInPlace, SizesAre
<1>3. Len(r) \in Nat /\ r \in Seq(Range(r))
  BY <1>2, PlacedRows
<1>4. Cut(r) = IF Len(r) <= MaxRetained THEN 0 ELSE Len(r) - MaxRetained
  BY <1>2, <1>3, RetainedAre
<1>5. Len(r) <= MaxRetained
  BY <1>1, <1>2, <1>3
<1> QED BY <1>4, <1>5

(* What leaves the display as it is.                                       *)
LEMMA GrowthStays ==
    ASSUME GrowthInv, UNCHANGED <<nodes, elements, displayed, bars, happened, buffer>>,
           output'.session = output.session
    PROVE  GrowthInv'
<1>1. AppendOnly' = AppendOnly
  BY DEF AppendOnly
<1> QED BY <1>1 DEF GrowthInv

(* Another Session is selected, a subagent starts or stops.                *)
LEMMA SelectOnward ==
    ASSUME DisplayInv, GrowthInv, (\E s \in Sessions : Select(s)) \/ Subagent
    PROVE  Onward /\ GrowthInv'
<1>1. CASE \E s \in Sessions : Select(s)
  <2>1. UNCHANGED <<nodes, elements, displayed, bars, happened, buffer>> /\ output' = output
    BY <1>1 DEF Select, display
  <2> QED BY <2>1, StillOnward, GrowthStays
<1>2. CASE Subagent
  <2>1. /\ UNCHANGED <<nodes, elements, displayed, happened, buffer>> /\ output' = output
        /\ bars' = bars + 1
    BY <1>2 DEF Subagent, display
  <2>2. ~AppendOnly'
    <3>1. bars \in Nat
      BY DEF DisplayInv, DisplayTypes
    <3>2. bars' # 0
      BY <2>1, <3>1
    <3> QED BY <3>2 DEF AppendOnly
  <2> QED BY <2>1, <2>2 DEF Onward, GrowthInv
<1> QED BY <1>1, <1>2

(* A projection: the nodes become the elements.                            *)
LEMMA ProjectOnward ==
    ASSUME DisplayInv, DisplayInv', GrowthInv, Project, terminal = "active", terminal' = terminal
    PROVE  Onward /\ GrowthInv'
<1> PICK b : b = IF displayed = session THEN buffer ELSE Reset(buffer)
  OBVIOUS
<1> PICK w : w = buffer.width
  OBVIOUS
<1> PICK es : es = Elements
  OBVIOUS
<1> PICK me : me = session
  OBVIOUS
<1>0. DisplayTypes /\ Sized
  BY DEF DisplayInv
<1>1. /\ w \in Nat /\ ~crashed /\ elements' = es
      /\ buffer' = IF crashed' THEN b ELSE Reflow(b, es, w)
      /\ displayed' = me /\ nodes' = nodes /\ bars' = bars /\ me \in Sessions
      /\ Here \in Seq(NodeSet) /\ Countable(es)
      /\ bars = 0 => es = <<Logo>> \o Here
      /\ IsBuffer(b) /\ Numbered(b.rows)
  BY <1>0, ProjectIs
<1>2. Here = nodes[me]
  BY DEF Here
<1>3. happened' = happened \cup Sheds(es, w) /\ output' = ResetOutput(output, me)
  <2>1. Width = w
    BY <1>0, <1>1, WidthIs
  <2> QED BY <2>1 DEF Project
<1>4. AppendOnly' = AppendOnly
  BY <1>1 DEF AppendOnly
<1>5. "shorter" \notin happened' => "shorter" \notin happened
  BY <1>3
<1>6. ASSUME AppendOnly PROVE es = <<Logo>> \o nodes[me]
  BY <1>1, <1>2, <1>6 DEF AppendOnly
<1>7. \A s : EsOf(s)' = Shows(s, me, es, nodes) /\ EsOf(s) = Shows(s, displayed, elements, nodes)
  BY <1>1 DEF EsOf
<1>8. ASSUME AppendOnly, NEW s
      PROVE  /\ Continues(EsOf(s), EsOf(s)')
             /\ "shorter" \notin happened => Grown(EsOf(s), EsOf(s)')
  <2>1. CASE s = displayed /\ s \in Sessions
    <3>1. EsOf(s) = elements
      BY <1>7, <2>1, ShowsAre
    <3>2. EsOf(s)' = <<Logo>> \o nodes[s]
      <4>1. CASE s = me
        BY <1>6, <1>7, <1>8, <4>1, ShowsAre
      <4>2. CASE s # me
        BY <1>7, <2>1, <4>2, ShowsAre
      <4> QED BY <4>1, <4>2
    <3>3. Continues(elements, <<Logo>> \o nodes[s])
      BY <1>8, <2>1, ElementsGo
    <3>4. "shorter" \notin happened => Grown(elements, <<Logo>> \o nodes[s])
      BY <1>8, <2>1 DEF GrowthInv
    <3> QED BY <3>1, <3>2, <3>3, <3>4
  <2>2. CASE s = displayed /\ s \notin Sessions
    <3>1. EsOf(s) = elements
      BY <1>7, <2>2, ShowsAre
    <3>2. EsOf(s)' = <<Logo>>
      <4>1. s # me
        BY <1>1, <2>2
      <4> QED BY <1>7, <2>2, <4>1, ShowsAre
    <3> QED BY <1>8, <2>2, <3>1, <3>2, ElementsGo
  <2>3. CASE s # displayed /\ s \in Sessions
    <3>1. EsOf(s) = <<Logo>> \o nodes[s]
      BY <1>7, <2>3, ShowsAre
    <3>2. EsOf(s)' = <<Logo>> \o nodes[s]
      <4>1. CASE s = me
        BY <1>6, <1>7, <1>8, <4>1, ShowsAre
      <4>2. CASE s # me
        BY <1>7, <2>3, <4>2, ShowsAre
      <4> QED BY <4>1, <4>2
    <3> QED BY <1>8, <2>3, <3>1, <3>2, NodesGo
  <2>4. CASE s # displayed /\ s \notin Sessions
    <3>1. EsOf(s) = <<Logo>> /\ EsOf(s)' = <<Logo>>
      <4>1. s # me
        BY <1>1, <2>4
      <4> QED BY <1>7, <2>4, <4>1, ShowsAre
    <3> QED BY <1>8, <3>1, NodesGo
  <2> QED BY <2>1, <2>2, <2>3, <2>4
<1>9. Onward
  BY <1>3, <1>4, <1>5, <1>8 DEF Onward
<1>10. output'.session = displayed'
  <2>1. ResetOutput(output, me).session = me
    BY DEF ResetOutput, EmptyOutput
  <2> QED BY <1>1, <1>3, <2>1
<1>11. ASSUME AppendOnly', "shed" \notin happened' PROVE Cut(RowsFor(elements', buffer'.width)) = 0
  <2>1. ~crashed'
    BY <1>11 DEF DisplayInv, ExactInv
  <2>2. buffer'.width = w
    BY <1>1, <2>1, ReflowIs
  <2>3. Cut(RowsFor(es, w)) = 0
    BY <1>1, <1>3, <1>11, NothingShed
  <2> QED BY <1>1, <2>2, <2>3
<1>12. ASSUME AppendOnly' PROVE Grown(elements', <<Logo>> \o nodes'[displayed'])
  <2>1. es = <<Logo>> \o nodes[me]
    BY <1>4, <1>6, <1>12
  <2>2. Grown(<<Logo>> \o nodes[me], <<Logo>> \o nodes[me])
    BY <1>1, <1>4, <1>12, NodesGo
  <2> QED BY <1>1, <2>1, <2>2
<1>13. GrowthInv'
  BY <1>10, <1>11, <1>12 DEF GrowthInv
<1> QED BY <1>9, <1>13

(* Another size: the elements are those there were, or the logo.           *)
LEMMA ResizeOnward ==
    ASSUME DisplayInv, DisplayInv', GrowthInv, NEW w \in Widths, NEW h \in Heights, Resize(w, h)
    PROVE  Onward /\ GrowthInv'
<1> PICK es : es = IF elements = <<>> THEN <<Logo>> ELSE elements
  OBVIOUS
<1> PICK r : r = Reflow(buffer, es, w)
  OBVIOUS
<1> PICK v : v = SetViewport(r, buffer.top, h, buffer.follow)
  OBVIOUS
<1>0. DisplayTypes
  BY DEF DisplayInv
<1>1. /\ elements' = es /\ buffer' = IF crashed' THEN buffer ELSE v
      /\ nodes' = nodes /\ bars' = bars /\ displayed' = displayed
      /\ w \in Nat /\ Countable(es) /\ v.width = w
  BY <1>0, ResizeIs
<1>2. /\ AppendOnly => /\ Continues(elements, es)
                       /\ displayed = NoSession => es = <<Logo>>
                       /\ displayed # NoSession => es = elements
  BY ResizedElements
<1>3. /\ happened' = happened \cup Sheds(es, w) \cup Happened(Shrinks(w, h), "shrunk")
      /\ output' = output
  BY DEF Resize
<1>4. AppendOnly' = AppendOnly
  BY <1>1 DEF AppendOnly
<1>5. \A s : EsOf(s)' = Shows(s, displayed, es, nodes) /\ EsOf(s) = Shows(s, displayed, elements, nodes)
  BY <1>1 DEF EsOf
<1>6. ASSUME AppendOnly PROVE Grown(elements, es)
  <2>1. CASE displayed = NoSession
    BY <1>2, <1>6, <2>1, ElementsGo, TranscriptAssumption
  <2>2. CASE displayed # NoSession
    BY <1>2, <1>6, <2>2, NodesGo
  <2> QED BY <2>1, <2>2
<1>7. ASSUME AppendOnly, NEW s PROVE Continues(EsOf(s), EsOf(s)') /\ Grown(EsOf(s), EsOf(s)')
  <2>1. CASE s = displayed
    <3>1. EsOf(s) = elements /\ EsOf(s)' = es
      BY <1>5, <2>1, ShowsAre
    <3> QED BY <1>2, <1>6, <1>7, <3>1
  <2>2. CASE s # displayed /\ s \in Sessions
    <3>1. EsOf(s) = <<Logo>> \o nodes[s] /\ EsOf(s)' = <<Logo>> \o nodes[s]
      BY <1>5, <2>2, ShowsAre
    <3> QED BY <1>7, <2>2, <3>1, NodesGo
  <2>3. CASE s # displayed /\ s \notin Sessions
    <3>1. EsOf(s) = <<Logo>> /\ EsOf(s)' = <<Logo>>
      BY <1>5, <2>3, ShowsAre
    <3> QED BY <1>7, <3>1, NodesGo
  <2> QED BY <2>1, <2>2, <2>3
<1>8. Onward
  BY <1>3, <1>4, <1>7 DEF Onward
<1>9. ASSUME AppendOnly', "shed" \notin happened' PROVE Cut(RowsFor(elements', buffer'.width)) = 0
  <2>1. ~crashed'
    BY <1>9 DEF DisplayInv, ExactInv
  <2>2. Cut(RowsFor(es, w)) = 0
    BY <1>1, <1>3, <1>9, NothingShed
  <2> QED BY <1>1, <2>1, <2>2
<1>10. ASSUME AppendOnly', "shorter" \notin happened', displayed' \in Sessions
       PROVE  Grown(elements', <<Logo>> \o nodes'[displayed'])
  <2>1. displayed \in Sessions /\ displayed # NoSession /\ AppendOnly /\ "shorter" \notin happened
    BY <1>1, <1>3, <1>4, <1>10, TranscriptAssumption
  <2>2. es = elements /\ Grown(elements, <<Logo>> \o nodes[displayed])
    BY <1>2, <2>1 DEF GrowthInv
  <2> QED BY <1>1, <2>2
<1>11. GrowthInv'
  BY <1>1, <1>3, <1>9, <1>10 DEF GrowthInv
<1> QED BY <1>8, <1>11

-----------------------------------------------------------------------------
\* The settled rows of a layout, and how many of them have been shed.
SettledIn(key) == Fixed(EsOf(key[1]), key[2])
GoneIn(key) == IF "shed" \in happened THEN Cut(RowsFor(EsOf(key[1]), key[2])) ELSE 0

\* The rows with Ink's Static, in its layout.
PlacedInv ==
    /\ mounted => terminal = "active"
    /\ ~mounted => static = NoStatic
    /\ static.key[2] \in Nat
    /\ mounted /\ NothingReturns =>
         Arranged(RowsOf(committed, static.key), RowsOf(pend, static.key), static, queued,
                  SettledIn(static.key), GoneIn(static.key))

(* What happens in the transcript leaves the rows with Ink as they are, in *)
(* a layout with more of them.                                             *)
LEMMA KeptPlaces ==
    ASSUME DisplayInv, DisplayInv', PlacedInv, Onward,
           mounted' = mounted, pend' = pend, committed' = committed, queued' = queued,
           static' = static, mounted => terminal' = "active"
    PROVE  PlacedInv'
<1> PICK key : key = static.key
  OBVIOUS
<1> PICK C : C = RowsOf(committed, key)
  OBVIOUS
<1> PICK P : P = RowsOf(pend, key)
  OBVIOUS
<1> PICK w : w = key[2]
  OBVIOUS
<1> PICK s : s = key[1]
  OBVIOUS
<1> PICK e : e = EsOf(s)
  OBVIOUS
<1> PICK f : f = EsOf(s)'
  OBVIOUS
<1>1. w \in Nat
  BY DEF PlacedInv
<1>2. Countable(e) /\ Countable(f)
  <2>1. elements \in Seq(ElementSet) /\ nodes \in [Sessions -> Seq(NodeSet)]
    BY DEF DisplayInv, DisplayTypes
  <2>2. elements' \in Seq(ElementSet) /\ nodes' \in [Sessions -> Seq(NodeSet)]
    BY DEF DisplayInv, DisplayTypes
  <2> QED BY <2>1, <2>2, ShowsTyped DEF EsOf
<1>3. ASSUME mounted', NothingReturns'
      PROVE  Arranged(C, P, static, queued, Fixed(f, w),
                      IF "shed" \in happened' THEN Cut(RowsFor(f, w)) ELSE 0)
  <2> PICK L : L = GoneIn(key)
    OBVIOUS
  <2> PICK M : M = IF "shed" \in happened' THEN Cut(RowsFor(f, w)) ELSE 0
    OBVIOUS
  <2>1. AppendOnly' /\ ("shed" \in happened' => "shorter" \notin happened')
    BY <1>3 DEF NothingReturns
  <2>2. AppendOnly /\ Continues(e, f) /\ ("shorter" \notin happened' => Grown(e, f))
        /\ happened \subseteq happened'
    BY <2>1 DEF Onward
  <2>3. NothingReturns
    BY <1>3, <2>1, <2>2 DEF NothingReturns
  <2>4. Arranged(C, P, static, queued, Fixed(e, w), L)
    BY <1>3, <2>3 DEF PlacedInv, SettledIn
  <2>5. Fixed(e, w) \subseteq Fixed(f, w) /\ Fixed(f, w) \subseteq Nat
    BY <1>1, <1>2, <2>2, FixedStays DEF Fixed
  <2>6. L \in Nat /\ M \in Nat /\ L <= M
    <3>1. L = IF "shed" \in happened THEN Cut(RowsFor(e, w)) ELSE 0
      BY DEF GoneIn
    <3>2. Countable(f) /\ Grown(f, f)
      BY <1>2 DEF Countable, Grown
    <3>3. Cut(RowsFor(f, w)) \in Nat
      BY <1>1, <3>2, CutGrows
    <3>4. CASE "shed" \notin happened
      BY <3>1, <3>3, <3>4
    <3>5. CASE "shed" \in happened
      <4>1. Grown(e, f) /\ "shed" \in happened'
        BY <2>1, <2>2, <3>5
      <4>2. Cut(RowsFor(e, w)) \in Nat /\ Cut(RowsFor(e, w)) <= Cut(RowsFor(f, w))
        BY <1>1, <1>2, <4>1, CutGrows
      <4> QED BY <3>1, <3>3, <3>5, <4>1, <4>2
    <3> QED BY <3>4, <3>5
  <2> QED BY <2>4, <2>5, <2>6, ArrangedLater
<1>4. /\ SettledIn(static.key)' = Fixed(f, w)
      /\ GoneIn(static.key)' = IF "shed" \in happened' THEN Cut(RowsFor(f, w)) ELSE 0
      /\ RowsOf(committed, static.key)' = C /\ RowsOf(pend, static.key)' = P
  <2>1. static'.key[1] = s /\ static'.key[2] = w
    OBVIOUS
  <2>2. EsOf(static.key[1])' = f
    BY <2>1 DEF EsOf
  <2> QED BY <2>1, <2>2 DEF SettledIn, GoneIn, RowsOf
<1>5. /\ mounted' => terminal' = "active"
      /\ ~mounted' => static' = NoStatic
      /\ static'.key[2] \in Nat
  BY DEF PlacedInv
<1> QED BY <1>3, <1>4, <1>5 DEF PlacedInv

(* Nothing is left of it when the terminal is.                             *)
LEMMA RestorePlaces ==
    ASSUME NEW next, NEW inSignal, Restore(next, inSignal)
    PROVE  PlacedInv'
<1>1. mounted' = FALSE /\ static' = NoStatic
  BY DEF Restore, Discard
<1>2. static'.key = NoKey /\ NoKey[2] = 0
  BY <1>1 DEF NoStatic, NoKey
<1> QED BY <1>1, <1>2 DEF PlacedInv

(* The flush ends.                                                         *)
LEMMA FlushPlaces ==
    ASSUME PlacedInv, RowsInv, TypeInv, FlushEnds
    PROVE  PlacedInv'
<1> PICK key : key = static.key
  OBVIOUS
<1> PICK C : C = RowsOf(committed, key)
  OBVIOUS
<1> PICK P : P = RowsOf(pend, key)
  OBVIOUS
<1>1. /\ flush /\ terminal = "active" /\ terminal' = terminal /\ mounted' = mounted
      /\ pend' = NoRows /\ queued' = NoFrame
      /\ committed' = IF pend = NoRows THEN committed
                      ELSE [key |-> pend.key, rows |-> RowsOf(committed, pend.key) \cup pend.rows]
      /\ static' = IF queued = NoFrame THEN static ELSE Paint(static, queued)
      /\ UNCHANGED <<nodes, elements, displayed, bars, happened>>
  BY DEF FlushEnds, lifecycle, vars, history, display
<1>2. mounted
  BY <1>1 DEF RowsInv, NothingRendered
<1>3. /\ queued # NoFrame => queued.key = pend.key /\ queued.rows = pend.rows
      /\ committed.key = key
      /\ pend = NoRows \/ pend.key = key
      /\ queued = NoFrame \/ queued.key = key
  BY <1>1, <1>2 DEF RowsInv, NothingForgotten, PrintedIsKnown
<1>4. queued # NoFrame => queued.key = key /\ queued.rows = P
  BY <1>3 DEF RowsOf
<1>5. RowsOf(committed', key) = C \cup P /\ RowsOf(pend', key) = {}
  <2>1. RowsOf(pend', key) = {}
    BY <1>1, NoRowsKept
  <2>2. CASE pend = NoRows
    <3>1. P = {} /\ committed' = committed
      BY <1>1, <2>2, NoRowsKept
    <3> QED BY <2>1, <3>1
  <2>3. CASE pend # NoRows
    <3>1. committed' = [key |-> key, rows |-> C \cup pend.rows] /\ P = pend.rows
      BY <1>1, <1>3, <2>3 DEF RowsOf
    <3> QED BY <2>1, <3>1 DEF RowsOf
  <2> QED BY <2>2, <2>3
<1>6. static'.key = key
  BY <1>1, <1>4, PaintPrints
<1>7. static.index \in Nat /\ queued.len \in Nat
  BY DEF TypeInv, RenderingTypes
<1>8. key[2] \in Nat
  BY DEF PlacedInv
<1>9. NothingReturns' = NothingReturns
  BY <1>1 DEF NothingReturns, AppendOnly
<1>10. SettledIn(static.key)' = SettledIn(key) /\ GoneIn(static.key)' = GoneIn(key)
  <2>1. EsOf(static.key[1])' = EsOf(key[1])
    BY <1>1, <1>6 DEF EsOf
  <2> QED BY <1>1, <1>6, <2>1 DEF SettledIn, GoneIn
<1>11. ASSUME NothingReturns
       PROVE  Arranged(C \cup P, {}, static', NoFrame, SettledIn(key), GoneIn(key))
  <2>1. Arranged(C, P, static, queued, SettledIn(key), GoneIn(key))
    BY <1>2, <1>11 DEF PlacedInv
  <2>2. SettledIn(key) \subseteq Nat
    BY DEF SettledIn, Fixed
  <2>3. GoneIn(key) \in Nat
    <3>1. elements \in Seq(ElementSet) /\ nodes \in [Sessions -> Seq(NodeSet)]
      BY DEF TypeInv, DisplayTypes
    <3>2. Countable(EsOf(key[1]))
      BY <3>1, ShowsTyped DEF EsOf
    <3>3. Grown(EsOf(key[1]), EsOf(key[1]))
      BY <3>2 DEF Countable, Grown
    <3>4. Cut(RowsFor(EsOf(key[1]), key[2])) \in Nat
      BY <1>8, <3>2, <3>3, CutGrows
    <3> QED BY <3>4 DEF GoneIn
  <2>4. static' = IF queued = NoFrame THEN static ELSE Paint(static, queued)
    BY <1>1
  <2> QED BY <1>4, <1>7, <2>1, <2>2, <2>3, <2>4, ArrangedFlush
<1> QED BY <1>1, <1>2, <1>5, <1>6, <1>8, <1>9, <1>10, <1>11 DEF PlacedInv

(* What a frame that does not throw takes from the buffer.                 *)
LEMMA FrameIs ==
    ASSUME IsOutput, Frame, ~crashed', NEW S, S = Numbers(Committed(buffer)),
           NEW known, known = IF output.width # buffer.width THEN {} ELSE output.stable
    PROVE  /\ output'.session = output.session /\ output'.width = buffer.width
           /\ output'.stable = S /\ output'.pending = S \ known
<1> PICK R : R = S \ known
  OBVIOUS
<1>1. output' = [output EXCEPT !.width = buffer.width, !.stable = S, !.pending = R]
  BY DEF Frame, ApplyFrame
<1> QED BY <1>1 DEF IsOutput

(* The window of the buffer, when nothing returns.                         *)
LEMMA WindowIs ==
    ASSUME DisplayInv, GrowthInv, AppendOnly, NEW key, key = <<displayed, buffer.width>>
    PROVE  Window(SettledIn(key), GoneIn(key), Numbers(Committed(buffer)))
<1> PICK w : w = buffer.width
  OBVIOUS
<1> PICK F : F = Fixed(elements, w)
  OBVIOUS
<1> PICK c : c = Cut(RowsFor(elements, w))
  OBVIOUS
<1> PICK S : S = Numbers(Committed(buffer))
  OBVIOUS
<1>1. key[1] = displayed /\ key[2] = w
  OBVIOUS
<1>2. EsOf(key[1]) = elements
  BY <1>1, ShowsAre DEF EsOf
<1>3. SettledIn(key) = F
  BY <1>1, <1>2 DEF SettledIn
<1>4. Countable(elements) /\ w \in Nat /\ Exact(buffer, elements) /\ OnlyLastLive(elements)
  BY BufferIs, ElementsAre
<1>5. c \in Nat /\ S = {n \in F : n >= c}
  BY <1>4, CommittedAre
<1>6. GoneIn(key) = c
  BY <1>1, <1>2 DEF GoneIn, GrowthInv
<1>7. F \subseteq Nat /\ \A m \in F, n \in Nat : n <= m => n \in F
  BY <1>4, FixedDown DEF Fixed
<1>8. Bounded(S)
  BY CommittedBounded DEF DisplayInv, DisplayTypes
<1> QED BY <1>3, <1>5, <1>6, <1>7, <1>8 DEF Window

(* A render: the same layout goes on, another begins anew.                 *)
LEMMA RenderPlaces ==
    ASSUME DisplayInv, DisplayInv', GrowthInv, PlacedInv, RowsInv, TypeInv, Render
    PROVE  PlacedInv'
<1>1. /\ terminal = "active" /\ ~crashed /\ Frame
      /\ UNCHANGED <<nodes, elements, displayed, bars, happened, buffer>>
  BY DEF Render, Frame, history
<1>2. CASE crashed' /\ UNCHANGED <<lifecycle, flush, pend, committed, queued, static>>
  <2>1. Onward
    BY <1>1, StillOnward
  <2>2. /\ mounted' = mounted /\ pend' = pend /\ committed' = committed /\ queued' = queued
        /\ static' = static /\ terminal' = "active"
    BY <1>1, <1>2 DEF lifecycle
  <2> QED BY <2>1, <2>2, KeptPlaces
<1>3. CASE Restore("failed", FALSE)
  BY <1>3, RestorePlaces
<1>4. CASE ~(crashed' /\ UNCHANGED <<lifecycle, flush, pend, committed, queued, static>>)
           /\ ~Restore("failed", FALSE)
  <2> PICK key : key = <<displayed, buffer.width>>
    OBVIOUS
  <2> PICK S : S = Numbers(Committed(buffer))
    OBVIOUS
  <2> PICK known : known = IF output.width # buffer.width THEN {} ELSE output.stable
    OBVIOUS
  <2> PICK C : C = IF mounted THEN RowsOf(committed, key) ELSE {}
    OBVIOUS
  <2> PICK P : P = IF mounted THEN RowsOf(pend, key) ELSE {}
    OBVIOUS
  <2> PICK rows : rows = (S \ known) \cup P
    OBVIOUS
  <2> PICK full : full = Carrier(key, S, rows)
    OBVIOUS
  <2> PICK s : s = IF static.key = key THEN static ELSE Blank(key)
    OBVIOUS
  <2>1. /\ ~crashed'
        /\ output'.session = output.session /\ output'.width = buffer.width
        /\ output'.stable = S /\ output'.pending = S \ known
    <3>1. ~crashed' /\ IsOutput
      BY <1>4 DEF Render, RowsInv
    <3> QED BY <1>1, <3>1, FrameIs
  <2>2. <<output'.session, output'.width>> = key
    BY <2>1 DEF GrowthInv
  <2>3. mounted \/ (~flush /\ pend = NoRows /\ queued = NoFrame /\ static = NoStatic
                     /\ output.stable = {})
    BY <1>1 DEF RowsInv, NothingRendered
  <2>4. /\ mounted' = TRUE /\ terminal' = "active"
        /\ pend' = IF mounted THEN [key |-> key, rows |-> rows] ELSE NoRows
        /\ committed' = [key |-> key, rows |-> IF mounted THEN C ELSE S]
        /\ queued' = IF flush THEN full ELSE queued
        /\ static' = Paint(static, IF flush THEN Carrier(key, C, {}) ELSE full)
    <3> DEFINE k == <<output'.session, output'.width>>
               before == RowsOf(committed, k)
               r == output'.pending \cup IF mounted THEN RowsOf(pend, k) ELSE {}
               f == Carrier(k, output'.stable, r)
    <3>1. /\ mounted' = TRUE /\ terminal' = terminal
          /\ pend' = IF mounted THEN [key |-> k, rows |-> r] ELSE pend
          /\ committed' = [key |-> k, rows |-> IF mounted THEN before ELSE output'.stable]
          /\ queued' = IF flush THEN f ELSE queued
          /\ static' = Paint(static, IF flush THEN Carrier(k, before, {}) ELSE f)
      BY <1>4 DEF Render
    <3>2. k = key
      BY <2>2
    <3>3. r = rows
      BY <2>1, <3>2
    <3>4. f = full
      BY <2>1, <3>2, <3>3
    <3>5. mounted => before = C
      BY <3>2
    <3> HIDE DEF k, before, r, f
    <3>6. flush => mounted
      BY <2>3
    <3>7. ~mounted => pend = NoRows
      BY <2>3
    <3> QED BY <1>1, <2>1, <3>1, <3>2, <3>3, <3>4, <3>5, <3>6, <3>7
  <2>5. key # NoKey /\ key[2] \in Nat /\ key[2] = buffer.width
    <3>1. buffer.width \in Widths
      BY <1>1 DEF DisplayInv, Sized
    <3>2. buffer.width \in Nat /\ buffer.width # 0
      BY <3>1, SizesAre
    <3> QED BY <3>2 DEF NoKey
  <2>6. full.key = key /\ full # NoFrame /\ Carrier(key, C, {}).key = key
    BY <2>5 DEF Carrier, NoFrame
  <2>7. s.key = key /\ static' = Paint(s, IF flush THEN Carrier(s.key, C, {}) ELSE full)
    <3>1. CASE static.key = key
      BY <2>4, <3>1
    <3>2. CASE static.key # key
      <4>1. s = Blank(key) /\ s.key = key
        BY <3>2, BlankIs
      <4> PICK frame : frame = IF flush THEN Carrier(key, C, {}) ELSE full
        OBVIOUS
      <4>2. frame.key = key
        BY <2>6
      <4>3. static' = Paint(static, frame)
        BY <2>4
      <4>4. Paint(static, frame) = Paint(Blank(key), frame)
        BY <3>2, <4>2, PaintFresh
      <4> QED BY <4>1, <4>3, <4>4
    <3> QED BY <3>1, <3>2
  <2>8. static'.key = key
    <3> PICK frame : frame = IF flush THEN Carrier(key, C, {}) ELSE full
      OBVIOUS
    <3>1. frame.key = key
      BY <2>6
    <3>2. static' = Paint(static, frame)
      BY <2>4
    <3>3. Paint(static, frame).key = frame.key
      BY ONLY PaintPrints
    <3> QED BY <3>1, <3>2, <3>3
  <2>9. ASSUME NothingReturns
        PROVE  Arranged(RowsOf(committed', key), RowsOf(pend', key), static', queued',
                        SettledIn(key), GoneIn(key))
    <3> PICK F : F = SettledIn(key)
      OBVIOUS
    <3> PICK L : L = GoneIn(key)
      OBVIOUS
    <3> PICK q : q = IF static.key = key THEN queued ELSE NoFrame
      OBVIOUS
    <3>1. Window(F, L, S)
      BY <2>9, WindowIs DEF NothingReturns
    <3>2. static.key = key => mounted
      <4>1. NoStatic.key = NoKey
        BY DEF NoStatic
      <4> QED BY <2>3, <2>5, <4>1
    <3>3. static.key # key => C = {} /\ P = {}
      <4> SUFFICES ASSUME static.key # key, mounted PROVE C = {} /\ P = {}
        OBVIOUS
      <4>1. committed.key = static.key /\ (pend = NoRows \/ pend.key = static.key)
        BY <1>1 DEF RowsInv, PrintedIsKnown
      <4> QED BY <4>1, NoRowsKept DEF RowsOf
    <3>4. Arranged(C, P, s, q, F, L) /\ DOMAIN s.times \subseteq C \cup P
      <4>1. CASE static.key = key
        <5>1. mounted /\ s = static /\ q = queued /\ C = RowsOf(committed, static.key)
              /\ P = RowsOf(pend, static.key)
          BY <3>2, <4>1
        <5>2. Arranged(C, P, s, q, F, L)
          BY <2>9, <4>1, <5>1 DEF PlacedInv
        <5>3. Printed \subseteq C \cup P
          BY <1>1, <5>1 DEF RowsInv, PrintedIsKnown
        <5> QED BY <5>1, <5>2, <5>3 DEF Printed
      <4>2. CASE static.key # key
        <5>1. C = {} /\ P = {} /\ s = Blank(key) /\ q = NoFrame
          BY <3>3, <4>2
        <5> QED BY <5>1, BlankIs
      <4> QED BY <4>1, <4>2
    <3>5. s.index \in Nat
      <4>1. static.index \in Nat
        BY DEF TypeInv, RenderingTypes
      <4> QED BY <4>1, BlankIs
    <3>6. Bounded(C) /\ Bounded(P)
      <4>1. Bounded(committed.rows) /\ Bounded(pend.rows) /\ Bounded({})
        BY NothingTyped DEF TypeInv, RenderingTypes
      <4> QED BY <4>1 DEF RowsOf
    <3>7. ~flush => P = {} /\ q = NoFrame
      <4> SUFFICES ASSUME ~flush PROVE P = {} /\ q = NoFrame
        OBVIOUS
      <4>1. pend = NoRows /\ queued = NoFrame
        BY <1>1, <2>3 DEF RowsInv, NothingForgotten
      <4> QED BY <4>1, NoRowsKept
    <3>8. known \subseteq C \cup P
      <4>1. CASE output.width # buffer.width
        BY <4>1
      <4>2. CASE output.width = buffer.width /\ ~mounted
        BY <2>3, <4>2
      <4>3. CASE output.width = buffer.width /\ mounted
        <5>1. OutputKey = key
          BY <4>3 DEF OutputKey, GrowthInv
        <5>2. output.stable \subseteq RowsOf(committed, key) \cup RowsOf(pend, key)
          BY <1>1, <4>3, <5>1 DEF RowsInv, NothingForgotten
        <5> QED BY <4>3, <5>2
      <4> QED BY <4>1, <4>2, <4>3
    <3>9. flush \in BOOLEAN
      BY DEF TypeInv, LifecycleTypes
    <3> PICK t : t = static'
      OBVIOUS
    <3> PICK g : g = IF flush THEN full ELSE NoFrame
      OBVIOUS
    <3>10. Arranged(C, rows, t, g, F, L)
      <4>1. full = Carrier(s.key, S, rows) /\ full # NoFrame
        BY <2>6, <2>7
      <4>2. S \ (C \cup P) \subseteq rows /\ P \subseteq rows /\ rows \subseteq P \cup S
        BY <3>8
      <4>3. CASE flush
        <5>1. t = Paint(s, Carrier(s.key, C, {})) /\ g = full
          BY <2>7, <4>3
        <5>2. Arranged(C, rows, t, full, F, L)
          BY ONLY <3>1, <3>4, <3>6, <4>1, <4>2, <5>1, ArrangedWaits
        <5> QED BY <5>1, <5>2
      <4>4. CASE ~flush
        <5>1. t = Paint(s, Carrier(s.key, S, rows)) /\ g = NoFrame /\ P = {} /\ q = NoFrame
          BY <2>7, <3>7, <4>1, <4>4
        <5>2. /\ Arranged(C, {}, s, NoFrame, F, L) /\ DOMAIN s.times \subseteq C
              /\ S \ C \subseteq rows /\ rows \subseteq S
          BY <3>4, <4>2, <5>1
        <5>3. Arranged(C, rows, t, NoFrame, F, L)
          BY ONLY <3>1, <3>5, <5>1, <5>2, ArrangedPaint
        <5> QED BY <5>1, <5>3
      <4> QED BY <3>9, <4>3, <4>4
    <3>11. queued' = g
      <4>1. ~flush => queued = NoFrame
        BY <1>1, <2>3 DEF RowsInv, NothingForgotten
      <4> QED BY <2>4, <4>1
    <3>12. CASE mounted
      <4>1. RowsOf(committed', key) = C /\ RowsOf(pend', key) = rows
        BY <2>4, <3>12 DEF RowsOf
      <4> QED BY <3>10, <3>11, <4>1
    <3>13. CASE ~mounted
      <4>1. C = {} /\ P = {} /\ ~flush /\ known = {} /\ rows = S /\ g = NoFrame
        BY <2>3, <3>8, <3>13
      <4>2. RowsOf(committed', key) = S /\ RowsOf(pend', key) = {}
        BY <2>4, <3>13, NoRowsKept DEF RowsOf
      <4>3. Arranged({}, S, t, NoFrame, F, L)
        BY <3>10, <4>1
      <4>4. F \subseteq Nat /\ L \in Nat /\ NoFrame.len \in Nat
        BY <3>1, NothingTyped DEF Window
      <4>5. t.index \in Nat
        <5>1. Bounded(S \cup rows)
          BY <3>1, <4>1 DEF Window
        <5>2. full.len \in Nat
          BY <5>1, CarrierIs
        <5>3. t = Paint(s, full) /\ s.key = full.key
          BY <2>6, <2>7, <4>1
        <5> PICK new : new = {n \in full.rows : n >= s.index}
          OBVIOUS
        <5>4. Paint(s, full).index = full.len
          BY ONLY <5>3, new = {n \in full.rows : n >= s.index}, PaintIs
        <5> QED BY <5>2, <5>3, <5>4
      <4>6. Arranged({} \cup S, {}, t, NoFrame, F, L)
        BY <4>3, <4>4, <4>5, ArrangedFlush
      <4>7. {} \cup S = S
        OBVIOUS
      <4> QED BY <3>11, <4>1, <4>2, <4>6, <4>7
    <3> QED BY <3>12, <3>13
  <2>10. NothingReturns' = NothingReturns
    BY <1>1 DEF NothingReturns, AppendOnly
  <2>11. SettledIn(static.key)' = SettledIn(key) /\ GoneIn(static.key)' = GoneIn(key)
    <3>1. EsOf(static.key[1])' = EsOf(key[1])
      BY <1>1, <2>8 DEF EsOf
    <3> QED BY <1>1, <2>8, <3>1 DEF SettledIn, GoneIn
  <2> QED BY <2>4, <2>5, <2>8, <2>9, <2>10, <2>11 DEF PlacedInv
<1> QED BY <1>2, <1>3, <1>4

(* A projection, a resize or an event leaves what is rendered alone.       *)
LEMMA ShownPlaces ==
    ASSUME DisplayInv, DisplayInv', PlacedInv, Onward, NEW A, Shown(A)
    PROVE  PlacedInv'
<1>1. /\ terminal = "active" /\ terminal' = terminal
      /\ mounted' = mounted /\ pend' = pend /\ committed' = committed
      /\ queued' = queued /\ static' = static
  BY DEF Shown, lifecycle
<1> QED BY <1>1, KeptPlaces

(* What the lifecycle does to a display that stays as it is.               *)
LEMMA StillPlaces ==
    ASSUME DisplayInv, DisplayInv', PlacedInv, UNCHANGED vars,
           mounted' = mounted, pend' = pend, committed' = committed, queued' = queued,
           static' = static, terminal' = terminal
    PROVE  PlacedInv'
<1>1. UNCHANGED <<nodes, elements, displayed, bars, happened>>
  BY DEF vars, history, display
<1>2. Onward
  BY <1>1, StillOnward
<1>3. mounted => terminal' = "active"
  BY DEF PlacedInv
<1> QED BY <1>2, <1>3, KeptPlaces

(* A render changes nothing of what is displayed.                          *)
LEMMA RenderGrows ==
    ASSUME GrowthInv, RowsInv, Render
    PROVE  GrowthInv'
<1>1. Frame /\ UNCHANGED <<nodes, elements, displayed, bars, happened, buffer>>
  BY DEF Render, Frame, history
<1>2. output'.session = output.session
  <2>1. CASE crashed'
    <3>1. output' = output
      BY <1>1, <2>1 DEF Frame
    <3> QED BY <3>1
  <2>2. CASE ~crashed'
    <3> PICK known : known = IF output.width # buffer.width THEN {} ELSE output.stable
      OBVIOUS
    <3>1. IsOutput
      BY DEF RowsInv
    <3> QED BY <1>1, <2>2, <3>1, FrameIs
  <2> QED BY <2>1, <2>2
<1> QED BY <1>1, <1>2, GrowthStays

(* The lifecycle changes nothing of what is displayed.                     *)
LEMMA LifecycleGrows ==
    ASSUME GrowthInv, UNCHANGED vars
    PROVE  GrowthInv'
<1>1. UNCHANGED <<nodes, elements, displayed, bars, happened, buffer>> /\ output' = output
  BY DEF vars, history, display
<1> QED BY <1>1, GrowthStays

(* Each step keeps the rows with Ink's Static in their places.             *)
LEMMA PlacedStep ==
    ASSUME Orderly, DisplayInv, DisplayInv', TypeInv, RowsInv, GrowthInv, PlacedInv,
           [ScrollbackNext]_allVars
    PROVE  GrowthInv' /\ PlacedInv'
<1>1. ASSUME NEW w \in Widths, NEW h \in Heights, Boot(w, h) PROVE GrowthInv' /\ PlacedInv'
  <2>1. Onward /\ GrowthInv'
    BY <1>1, ResizeOnward DEF Boot
  <2>2. /\ terminal' = "active" /\ mounted' = mounted /\ pend' = pend /\ committed' = committed
        /\ queued' = queued /\ static' = static
    BY <1>1 DEF Boot
  <2> QED BY <2>1, <2>2, KeptPlaces
<1>2. CASE Recorded
  <2>1. Shown(Happens) /\ Happens
    BY <1>2 DEF Recorded, Shown
  <2>2. session # NoSession => InSession
    BY SelectedSession
  <2>3. (\E s \in Sessions : Select(s)) \/ (InSession /\ Advances)
    BY <2>1, <2>2, HappensIs
  <2>4. Onward /\ GrowthInv'
    BY <2>3, SelectOnward, AdvanceOnward
  <2>5. PlacedInv'
    BY <2>1, <2>4, ShownPlaces
  <2> QED BY <2>4, <2>5
<1>3. CASE Refreshed(Project)
  <2>1. Shown(Project) /\ Project /\ terminal = "active" /\ terminal' = terminal
    BY <1>3 DEF Refreshed, Shown, lifecycle
  <2>2. Onward /\ GrowthInv'
    BY <2>1, ProjectOnward
  <2>3. PlacedInv'
    BY <2>1, <2>2, ShownPlaces
  <2> QED BY <2>2, <2>3
<1>4. CASE Refreshed(Resized)
  <2>1. Shown(Resized) /\ Resized
    BY <1>4 DEF Refreshed, Shown
  <2>2. Onward /\ GrowthInv'
    BY <2>1, ResizeOnward DEF Resized
  <2>3. PlacedInv'
    BY <2>1, <2>2, ShownPlaces
  <2> QED BY <2>2, <2>3
<1>5. CASE Refreshed(Subagent)
  <2>1. Shown(Subagent) /\ Subagent
    BY <1>5 DEF Refreshed, Shown
  <2>2. Onward /\ GrowthInv'
    BY <2>1, SelectOnward
  <2>3. PlacedInv'
    BY <2>1, <2>2, ShownPlaces
  <2> QED BY <2>2, <2>3
<1>6. CASE Render
  BY <1>6, RenderGrows, RenderPlaces
<1>7. CASE FlushEnds
  <2>1. UNCHANGED vars
    BY <1>7 DEF FlushEnds
  <2> QED BY <1>7, <2>1, FlushPlaces, LifecycleGrows
<1>8. CASE Redraw \/ DetachSignals \/ UNCHANGED allVars
  <2>1. /\ UNCHANGED vars
        /\ mounted' = mounted /\ pend' = pend /\ committed' = committed /\ queued' = queued
        /\ static' = static /\ terminal' = terminal
    BY <1>8 DEF Redraw, DetachSignals, allVars, lifecycle, rendering
  <2> QED BY <2>1, StillPlaces, LifecycleGrows
<1>9. CASE Fail \/ ExitAfterFailure \/ \E inSignal \in BOOLEAN : Exit(inSignal)
  <2>1. UNCHANGED vars
    BY <1>9 DEF Fail, ExitAfterFailure, Exit
  <2>2. PlacedInv'
    BY <1>9, RestorePlaces DEF Fail, ExitAfterFailure, Exit
  <2> QED BY <2>1, <2>2, LifecycleGrows
<1> QED BY <1>1, <1>2, <1>3, <1>4, <1>5, <1>6, <1>7, <1>8, <1>9 DEF ScrollbackNext

(* At the start there is nothing to place.                                 *)
LEMMA PlacedInit == ScrollbackInit => GrowthInv /\ PlacedInv
<1> SUFFICES ASSUME ScrollbackInit PROVE GrowthInv /\ PlacedInv
  OBVIOUS
<1>1. /\ elements = <<>> /\ displayed = NoSession /\ buffer = EmptyBuffer
      /\ output = EmptyOutput(NoSession) /\ happened = {}
      /\ mounted = FALSE /\ static = NoStatic
  BY DEF ScrollbackInit, Init
<1>2. output.session = displayed
  BY <1>1 DEF EmptyOutput
<1>3. Cut(RowsFor(elements, buffer.width)) = 0
  <2>1. buffer.width = 0
    BY <1>1 DEF EmptyBuffer
  <2>2. Countable(elements)
    BY <1>1 DEF Countable
  <2>3. "shed" \notin Sheds(elements, 0)
    <3>1. Len(elements) = 0
      BY <1>1
    <3> PICK r : r = RowsFor(elements, 0)
      OBVIOUS
    <3>2. InPlace(r) /\ Len(r) = Ends(elements, 0)[0]
      BY <2>2, <3>1, RowsInPlace
    <3>3. IsEnds(Ends(elements, 0), elements, 0)
      BY <2>2, EndsAre
    <3>4. Len(r) = 0
      BY <3>2, <3>3 DEF IsEnds
    <3> QED BY <3>4, SizesAre DEF Sheds, Happened
  <2> QED BY <2>1, <2>2, <2>3, NothingShed
<1>4. displayed \notin Sessions
  BY <1>1, TranscriptAssumption
<1>5. static.key = NoKey /\ NoKey[2] = 0
  BY <1>1 DEF NoStatic, NoKey
<1> QED BY <1>1, <1>2, <1>3, <1>4, <1>5 DEF GrowthInv, PlacedInv

\* What the last three theorems are proved from.
ScrollbackInv == DisplayInv /\ TypeInv /\ RowsInv /\ GrowthInv /\ PlacedInv

(* It is an invariant.                                                     *)
LEMMA ScrollbackInvariant ==
    ASSUME Orderly
    PROVE  ScrollbackSpec => []ScrollbackInv
<1>1. ScrollbackInit => ScrollbackInv
  <2>1. ScrollbackInit => RowsInv
    BY DEF ScrollbackInit, Init, EmptyOutput, RowsInv, IsOutput, NothingRendered,
           NothingForgotten, PrintedIsKnown
  <2> QED BY <2>1, DisplayInit, TypeInit, PlacedInit DEF ScrollbackInv
<1>2. ScrollbackInv /\ [ScrollbackNext]_allVars => ScrollbackInv'
  <2> SUFFICES ASSUME ScrollbackInv, [ScrollbackNext]_allVars PROVE ScrollbackInv'
    OBVIOUS
  <2>1. DisplayInv /\ TypeInv /\ RowsInv /\ GrowthInv /\ PlacedInv
    BY DEF ScrollbackInv
  <2>2. DisplayInv' /\ TypeInv' /\ RowsInv'
    BY <2>1, DisplayStep, TypeStep, RowsStep
  <2>3. GrowthInv' /\ PlacedInv'
    BY <2>1, <2>2, PlacedStep
  <2> QED BY <2>2, <2>3 DEF ScrollbackInv
<1> QED BY <1>1, <1>2, PTL DEF ScrollbackSpec

(* The rows while the terminal is mounted, and before and after.           *)
LEMMA PlacesAre ==
    ASSUME ScrollbackInv, NothingReturns
    PROVE  /\ ~mounted => Printed = {}
           /\ mounted => /\ terminal = "active"
                         /\ Arranged(RowsOf(committed, static.key), RowsOf(pend, static.key), static,
                                     queued, SettledIn(static.key), GoneIn(static.key))
<1>1. ~mounted => Printed = {}
  BY DEF ScrollbackInv, PlacedInv, Printed, NoStatic
<1> QED BY <1>1 DEF ScrollbackInv, PlacedInv

(* Scrollback is never reordered, whatever renders, flushes, projections   *)
(* and resizes come between two frames: when a row is printed, every row   *)
(* before it that is committed and still in the buffer has been printed    *)
(* (pendingStableRows, completeFlush).                                     *)
THEOREM NoneSkipped ==
    ASSUME Orderly
    PROVE  ScrollbackSpec => []NoRowSkipped
<1>1. ASSUME ScrollbackInv PROVE NoRowSkipped
  <2> SUFFICES ASSUME NothingReturns, static.key = <<output.session, output.width>>,
                      NEW n \in output.stable, NEW p \in Printed, n < p, n \notin Printed
               PROVE  FALSE
    BY DEF NoRowSkipped
  <2>1. mounted /\ terminal = "active"
    BY <1>1, PlacesAre
  <2> PICK C : C = RowsOf(committed, static.key)
    OBVIOUS
  <2> PICK P : P = RowsOf(pend, static.key)
    OBVIOUS
  <2>2. n \in C \cup P
    BY <1>1, <2>1 DEF ScrollbackInv, RowsInv, NothingForgotten, OutputKey
  <2>3. Arranged(C, P, static, queued, SettledIn(static.key), GoneIn(static.key))
    BY <1>1, PlacesAre, <2>1
  <2>4. p < n
    BY <2>2, <2>3 DEF Arranged, Printed
  <2>5. n \in Int /\ p \in Int
    <3>1. C \cup P \subseteq Nat
      BY <2>3 DEF Arranged, SettledIn, Fixed
    <3>2. Printed \subseteq Nat
      BY <1>1 DEF ScrollbackInv, TypeInv, RenderingTypes, Printed
    <3> QED BY <2>2, <3>1, <3>2
  <2> QED BY <2>4, <2>5
<1> QED BY <1>1, ScrollbackInvariant, PTL

(* A row is printed twice at most: by a render between two flushes, and    *)
(* again by the frame that a render during the flush queued.               *)
THEOREM AtMostTwice ==
    ASSUME Orderly
    PROVE  ScrollbackSpec => []PrintedAtMostTwice
<1>1. ASSUME ScrollbackInv PROVE PrintedAtMostTwice
  <2> SUFFICES ASSUME NothingReturns, NEW n \in Printed PROVE static.times[n] <= 2
    BY DEF PrintedAtMostTwice
  <2>1. Arranged(RowsOf(committed, static.key), RowsOf(pend, static.key), static, queued,
                 SettledIn(static.key), GoneIn(static.key))
    BY <1>1, PlacesAre
  <2> QED BY <2>1 DEF Arranged, Printed
<1> QED BY <1>1, ScrollbackInvariant, PTL

(* When no flush is pending every committed row of the last frame is on    *)
(* the terminal: no render during a flush, no failed flush and no change   *)
(* of the Session or the width loses one.                                  *)
THEOREM NoneLost ==
    ASSUME Orderly
    PROVE  ScrollbackSpec => []NoRowLost
<1>1. ASSUME ScrollbackInv PROVE NoRowLost
  <2> SUFFICES ASSUME terminal = "active", mounted, ~flush, output.stable # {}, NothingReturns
               PROVE  static.key = OutputKey /\ output.stable \subseteq Printed
    BY DEF NoRowLost, OutputKey
  <2>1. /\ output.stable \subseteq RowsOf(committed, OutputKey) \cup RowsOf(pend, OutputKey)
        /\ pend = NoRows /\ committed.key = static.key
    BY <1>1 DEF ScrollbackInv, RowsInv, NothingForgotten, PrintedIsKnown
  <2>2. output.stable \subseteq RowsOf(committed, OutputKey)
    BY <2>1, NoRowsKept
  <2>3. committed.key = OutputKey
    BY <2>2 DEF RowsOf
  <2>4. Arranged(RowsOf(committed, static.key), RowsOf(pend, static.key), static, queued,
                 SettledIn(static.key), GoneIn(static.key))
    BY <1>1, PlacesAre
  <2>5. RowsOf(committed, static.key) \subseteq Printed
    BY <2>4 DEF Arranged, Printed
  <2> QED BY <2>1, <2>2, <2>3, <2>5
<1> QED BY <1>1, ScrollbackInvariant, PTL
=============================================================================
