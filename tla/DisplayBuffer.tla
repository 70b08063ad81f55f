---------------------------- MODULE DisplayBuffer ----------------------------
(***************************************************************************)
(* TuiDisplayBufferService and TuiTerminalOutputService of agent-tui as    *)
(* operators on their snapshots.  The buffer turns display elements into   *)
(* numbered physical rows: a prefix of committed (stable) rows and a tail  *)
(* of live ones.  A row keeps its number as long as the layout does not    *)
(* change.  An element is [id, life, lines, text] with life "stable" or    *)
(* "live"; text stands for what its lines say.  A width is the number of   *)
(* physical rows a source line takes (splitLine).                          *)
(***************************************************************************)
EXTENDS Integers, FiniteSets, FiniteSetsExt, Sequences, SequencesExt

CONSTANT MaxRetained    \* DEFAULT_MAX_RETAINED_ROWS, 1000 in the code

(* How many rows there are up to and with each element.                    *)
Ends(elements, width) ==
    LET ends[i \in 0..Len(elements)] ==
            IF i = 0 THEN 0 ELSE ends[i - 1] + elements[i].lines * width
    IN  ends

(* The rows of the elements, one after the other, numbered from 0.         *)
RowsFor(elements, width) ==
    LET ends == Ends(elements, width)
        row(n, i) == [abs |-> n - 1, id |-> elements[i].id, line |-> n - ends[i - 1],
                      life |-> elements[i].life, text |-> elements[i].text]
    IN  [n \in 1..ends[Len(elements)] |-> row(n, Min({i \in DOMAIN elements : n <= ends[i]}))]

(* rowsFor throws: also for elements without lines.                        *)
StableAfterLive(elements) ==
    \E i, j \in DOMAIN elements :
        i < j /\ elements[i].life = "live" /\ elements[j].life = "stable"

SameRow(r, s) == r.id = s.id /\ r.line = s.line                     \* rowKey
SameSignature(r, s) == SameRow(r, s) /\ r.text = s.text      \* rowSignature

(* Mutant: a new row gets the number after the last known one.             *)
MutantPreserveAbsoluteRows(rows, previous) ==
    LET known(i) == {p \in Range(previous) : SameRow(p, rows[i])}
        last == IF previous = <<>> THEN -1 ELSE Last(previous).abs
    IN  [i \in DOMAIN rows |->
            [rows[i] EXCEPT !.abs = IF known(i) # {} THEN (CHOOSE p \in known(i) : TRUE).abs
                                    ELSE last + 1]]

(* A row that was there keeps its number; a run of new rows is numbered    *)
(* backwards from the known row that follows it, else forwards from the    *)
(* known row before it, else from 0.                                       *)
PreserveAbsoluteRows(rows, previous) ==
    LET known == {i \in DOMAIN rows : \E p \in Range(previous) : SameRow(p, rows[i])}
        was(i) == (CHOOSE p \in Range(previous) : SameRow(p, rows[i])).abs
        right(i) == {j \in known : j > i}
        left(i) == {j \in known : j < i}
        number(i) ==
            IF i \in known THEN was(i)
            ELSE IF right(i) # {} THEN was(Min(right(i))) - (Min(right(i)) - i)
            ELSE IF left(i) # {} THEN was(Max(left(i))) + (i - Max(left(i)))
            ELSE i - 1
    IN  [i \in DOMAIN rows |-> [rows[i] EXCEPT !.abs = number(i)]]

-----------------------------------------------------------------------------
(* The snapshot: followTail, the top row and the height are its viewport.  *)
EmptyBuffer == [width |-> 0, rows |-> <<>>, top |-> 0, height |-> 0, follow |-> TRUE]

Committed(b) == {r \in Range(b.rows) : r.life = "stable"}

First(rows) == IF rows = <<>> THEN 0 ELSE rows[1].abs               \* retainedFirst
MaxTop(rows, height) ==
    IF rows = <<>> THEN 0 ELSE Max({First(rows), Last(rows).abs - height + 1})
Clamp(top, rows, height) == Max({First(rows), Min({top, MaxTop(rows, height)})})

Reset(b) == [b EXCEPT !.rows = <<>>, !.top = 0, !.follow = TRUE]

NumberedRows(b, elements, width) ==
    IF width = b.width THEN PreserveAbsoluteRows(RowsFor(elements, width), b.rows)
    ELSE RowsFor(elements, width)

(* "committed rows are append-only within a layout width": the stable row  *)
(* of the same number (the last one wins in the map) says the same.        *)
RewritesCommitted(b, rows) ==
    \E r \in Committed(b) :
        LET same == {i \in DOMAIN rows : rows[i].abs = r.abs /\ rows[i].life = "stable"}
        IN  same = {} \/ ~SameSignature(r, rows[Max(same)])

Refuses(b, elements, width) ==
    \/ StableAfterLive(elements)
    \/ width = b.width /\ RewritesCommitted(b, NumberedRows(b, elements, width))

Cut(rows) == Max({0, Len(rows) - MaxRetained})
Retained(rows) == SubSeq(rows, Cut(rows) + 1, Len(rows))

(* Mutant: the viewport stays where it was.                                *)
MutantReflow(b, elements, width) ==
    LET rows == Retained(NumberedRows(b, elements, width))
    IN  [b EXCEPT !.width = width, !.rows = rows, !.top = Clamp(b.top, rows, b.height)]

Reflow(b, elements, width) ==
    LET rows == Retained(NumberedRows(b, elements, width))
        top == IF b.follow THEN MaxTop(rows, b.height) ELSE Clamp(b.top, rows, b.height)
    IN  [b EXCEPT !.width = width, !.rows = rows, !.top = top]

InvalidTop(top) == top < 0               \* "invalid viewport": a TypeError

SetViewport(b, top, height, follow) ==
    LET newTop == Clamp(top, b.rows, height)
    IN  [b EXCEPT !.top = newTop, !.height = height,
                  !.follow = follow /\ newTop = MaxTop(b.rows, height)]

-----------------------------------------------------------------------------
(* TuiTerminalRenderService.project and TuiTerminalOutputService: which    *)
(* committed rows the terminal has not been given yet.                     *)
EmptyOutput(session) == [session |-> session, width |-> 0, stable |-> {}, pending |-> {}]

ResetOutput(o, session) == IF o.session = session THEN o ELSE EmptyOutput(session)

Visible(b) == {i \in DOMAIN b.rows : b.rows[i].abs \in b.top..(b.top + b.height - 1)}

(* validateFrame: "rows must be ordered".                                  *)
FrameOutOfOrder(b) ==
    \E i, j \in Visible(b) : i < j /\ b.rows[i].abs >= b.rows[j].abs

Numbers(rows) == {r.abs : r \in rows}

(* Mutant: rows stay pending after the terminal got them.                  *)
MutantApplyFrame(o, b) ==
    LET stable == Numbers(Committed(b))
    IN  [o EXCEPT !.width = b.width, !.stable = stable,
                  !.pending = IF o.width # b.width THEN stable ELSE o.pending \cup stable]

ApplyFrame(o, b) ==
    LET stable == Numbers(Committed(b))
        known == IF o.width # b.width THEN {} ELSE o.stable
    IN  [o EXCEPT !.width = b.width, !.stable = stable, !.pending = stable \ known]
=============================================================================
