------------------------------- MODULE Shell -------------------------------
(***************************************************************************)
(* What is on top of the composer, and who gets the keys: the overlay      *)
(* stack, the focus stack, the interactive window, the pending approvals   *)
(* and questions of the Session, the execution status, and the shell that  *)
(* routes Esc, q and Enter.  A slash command awaits the Host before it     *)
(* opens its overlay, so its reply may come when something else is up.  An *)
(* exception in a key handler ends the process ("crashed"); in a command   *)
(* it is reported; in the pump that delivers the Host's requests it ends   *)
(* the pump.                                                               *)
(***************************************************************************)
EXTENDS Naturals, SequencesExt

CONSTANTS
    Approvals,      \* ids of the approvals the Host asks for
    Questions,      \* ids of its questions
    NoKey,          \* null or undefined, for a key
    Kinds,          \* kinds of overlays a slash command opens, of AllKinds
    MaxOpens,       \* bound: slash commands and fork selectors
    MaxHappened     \* bound: how many of Events come about together

Interactions == Approvals \cup Questions

Known    == {"overlay.help", "overlay.jobs", "command", "selector.resume-current-cwd"}
Unknown  == {"queue", "selector.workspaces"}
Windows  == {"selector.model"}
AllKinds == Known \cup Unknown \cup Windows

ASSUME ShellAssumption ==
    /\ Kinds \subseteq AllKinds
    /\ MaxOpens \in Nat /\ MaxHappened \in Nat
    /\ Approvals \cap Questions = {}
    /\ Interactions \cap Nat = {} /\ NoKey \notin Interactions \cup Nat

VARIABLES
    stack,       \* the overlay manager's views, top last
    active,      \* the view of activeOverlayKey and overlayFocusDispose
    focus,       \* the focus manager's stack
    window,      \* the interactive window's current: [key, consumed]
    selected,    \* lastResult is set
    inflight,    \* the views of slash commands that await the Host
    opens,       \* commands and fork selectors so far; numbers their keys
    armed,       \* escapePressedAt is set, and less than a second ago
    pending,     \* snapshot.interactions
    shown,       \* interactionWindowKey
    asked,       \* the interactions the Host has sent so far
    withdrawn,   \* those it has cancelled
    answering,   \* those whose response is under way
    pump,        \* the pump of forwarded events is alive
    turn,        \* snapshot.running
    status,      \* the execution status
    crashed,     \* a key handler has thrown
    happened     \* which of Events have come about

views     == <<stack, active, focus, window, selected>>
requests  == <<pending, shown, asked, withdrawn, answering, pump>>
execution == <<turn, status>>
vars == <<views, inflight, opens, armed, requests, execution, crashed, happened>>

\* What the code does not put up with; each property names those it needs
\* not to have happened.
Events ==
    { "covered",      \* an interaction opened over another view
      "late",         \* a command's reply came while a view was up
      "dismissed",    \* the user closed an interactive window
      "refused",      \* the Host did not accept a response
      "unsupported",  \* a question had no options, or allowed several
      "escAgain" }    \* Esc after an interrupt, before the turn ended

Without(event) == event \notin happened
Note(cond, event) == happened' = happened \cup (IF cond THEN {event} ELSE {})

View(kind, key) == [kind |-> kind, key |-> key]
NoView   == View("none", NoKey)
NoWindow == [key |-> NoKey, consumed |-> FALSE]

-----------------------------------------------------------------------------
(* The overlay manager, the focus manager and the interactive window.      *)

Priority(kind) ==
    CASE kind = "approval-question"                            -> 5
      [] kind \in {"selector.fork-history", "selector.resume-current-cwd"} -> 4
      [] kind \in {"overlay.jobs", "queue"}                    -> 2
      [] kind = "overlay.help"                                 -> 1
      [] OTHER                                                 -> 3

OnStack(s, key) == \E v \in Range(s) : v.key = key
TopKey(s) == IF s = <<>> THEN NoKey ELSE Last(s).key

\* The first view of the key goes.
Closed(s, key) ==
    IF OnStack(s, key) THEN RemoveAt(s, Min({i \in DOMAIN s : s[i].key = key})) ELSE s

\* open() refuses a view of lower priority than the one on top.
Admits(s, kind) == s = <<>> \/ Priority(kind) >= Priority(Last(s).kind)

\* The disposer pushView returns removes the last occurrence of its view.
RemoveFocus(view) ==
    IF view = NoView THEN focus
    ELSE RemoveAt(focus, Max({i \in DOMAIN focus : focus[i] = view.kind}))

\* A mutant for the runs: the focus is not given back.
MutantClearOverlayFocus == active' = NoView /\ UNCHANGED focus
ClearOverlayFocus == active' = NoView /\ focus' = RemoveFocus(active)

\* A mutant for the runs: nothing is cleared after a selection.
MutantSyncClosedOverlay == UNCHANGED <<active, focus>>
SyncClosedOverlay ==
    IF stack' = <<>> THEN ClearOverlayFocus ELSE UNCHANGED <<active, focus>>

\* The selected window's closer does nothing any more.  The mutant for the
\* runs does not ask whether the selected view is the current window.
MutantConsumed(w, key) == [w EXCEPT !.consumed = TRUE]
Consumed(w, key) == IF w.key = key THEN [w EXCEPT !.consumed = TRUE] ELSE w

\* The window's subscription to the overlay manager forgets a window that is
\* no longer on top, but not any more once a selection has been made; it hears
\* of nothing when a view under the top is closed.
Watched(s, w) == IF ~selected /\ TopKey(s) # w.key THEN NoWindow ELSE w
WatchedClosing(key) ==
    IF TopKey(stack) = key THEN Watched(Closed(stack, key), window) ELSE window

\* TuiInteractiveWindowService.open; the closer of a window throws when its
\* view is no longer on the stack.
WindowOpened(kind, key) ==
    LET closes == window.key # NoKey /\ ~window.consumed
        throws == closes /\ ~OnStack(stack, window.key)
        below  == IF closes THEN Closed(stack, window.key) ELSE stack
        ok     == ~throws /\ Admits(below, kind)
    IN  [ ok     |-> ok,
          stack  |-> IF ok THEN Append(below, View(kind, key)) ELSE below,
          window |-> CASE ok -> [key |-> key, consumed |-> FALSE]
                       [] throws -> window
                       [] OTHER -> IF closes THEN WatchedClosing(window.key) ELSE window ]

-----------------------------------------------------------------------------
(* A snapshot of the Session reaches the listener in startup.              *)

\* syncExecutionStatus
Synced(running) ==
    CASE running /\ status \in {"idle", "completed"} -> "running"
      [] ~running /\ status = "running"              -> "completed"
      [] OTHER                                       -> status

\* A mutant for the runs: one window at a time, and no other after it.
MutantDue(head) == head # NoKey /\ shown = NoKey
Due(head) == head # NoKey /\ head # shown

\* removeInteraction; an interaction is pending once at most.
Removed(s, i) ==
    IF i \in Range(s) THEN RemoveAt(s, CHOOSE n \in DOMAIN s : s[n] = i) ELSE s

\* openPendingInteraction opens the window of the first interaction, once;
\* what it throws goes to whoever published the snapshot.
Publish(interactions, running) ==
    LET head   == IF interactions = <<>> THEN NoKey ELSE interactions[1]
        due    == Due(head)
        opened == WindowOpened("approval-question", head)
    IN  \E supported \in BOOLEAN :
          /\ ~supported => due /\ head \in Questions
          /\ pending' = interactions /\ shown' = head
          /\ turn' = running /\ status' = Synced(running)
          /\ stack'  = IF due /\ supported THEN opened.stack ELSE stack
          /\ window' = IF due /\ supported THEN opened.window ELSE window
          /\ happened' = happened
               \cup (IF due /\ ~supported THEN {"unsupported"} ELSE {})
               \cup (IF due /\ supported /\ Len(opened.stack) > 1 THEN {"covered"} ELSE {})

\* Publish has thrown: the window of a new head is not there.
Threw == shown' \notin {NoKey, shown} /\ ~(stack' # <<>> /\ Last(stack').key = shown')

\* applyForwardedEvent: approval/request, user-questions/request
Ask(i) ==
    /\ pump /\ i \notin asked
    /\ asked' = asked \cup {i}
    /\ Publish(Append(pending, i), turn)
    /\ pump' = ~Threw
    /\ UNCHANGED <<active, focus, selected, inflight, opens, armed, withdrawn, answering, crashed>>

\* applyForwardedEvent: cancel.  An approval is stored under its eventId but
\* removed under its approvalId: it stays.
Withdraw(i) ==
    /\ pump /\ i \in Range(pending) \ withdrawn
    /\ withdrawn' = withdrawn \cup {i}
    /\ IF i \in Questions
       THEN Publish(Removed(pending, i), turn) /\ pump' = ~Threw
       ELSE /\ status' = Synced(turn)
            /\ UNCHANGED <<pending, shown, pump, turn, stack, window, happened>>
    /\ UNCHANGED <<active, focus, selected, inflight, opens, armed, asked, answering, crashed>>

\* respondApproval, respondQuestion after their await
Responded(i) ==
    /\ i \in answering
    /\ answering' = answering \ {i}
    /\ \/ /\ i \notin withdrawn
          /\ Publish(Removed(pending, i), turn)
       \/ /\ Note(i \in Range(pending), "refused")
          /\ UNCHANGED <<pending, shown, execution, stack, window>>
    /\ UNCHANGED <<active, focus, selected, inflight, opens, armed, asked, withdrawn, pump, crashed>>

\* select: another Session is on, with no interactions and new pumps
SelectSession ==
    /\ pending # <<>> \/ ~pump
    /\ Publish(<<>>, FALSE)
    /\ pump' = TRUE
    /\ UNCHANGED <<active, focus, selected, inflight, opens, armed, asked, withdrawn, answering, crashed>>

\* turn/start and turn/end change snapshot.running
TurnChanges ==
    /\ Publish(pending, ~turn)
    /\ UNCHANGED <<active, focus, selected, inflight, opens, armed, asked, withdrawn, answering, pump, crashed>>

-----------------------------------------------------------------------------
(* Slash commands.                                                         *)

\* A command is typed in the composer, so with no overlay up.
Command(kind) ==
    /\ stack = <<>> /\ opens < MaxOpens
    /\ inflight' = inflight \cup {View(kind, opens)}
    /\ opens' = opens + 1 /\ armed' = FALSE
    /\ UNCHANGED <<views, requests, execution, crashed, happened>>

\* What closeOverlay would close: the active key, else what is on top.
ToClose == IF active # NoView THEN active.key ELSE TopKey(stack)
CloseThrows == ToClose # NoKey /\ ~OnStack(stack, ToClose)

Replied(view) ==
    /\ view \in inflight
    /\ inflight' = inflight \ {view}
    /\ Note(stack # <<>>, "late")
    /\ UNCHANGED <<selected, opens, armed, requests, execution, crashed>>

\* openOverlay of the shell: closeOverlay, then pushView, which refuses a view
\* it does not know, then overlayManager.open, which may refuse it too: its
\* focus has been pushed by then.
ReplyOpensOverlay(view) ==
    /\ view.kind \notin Windows
    /\ Replied(view)
    /\ LET below == Closed(stack, ToClose)
           known == view.kind \in Known
           admitted == known /\ Admits(below, view.kind)
       IN  IF CloseThrows THEN UNCHANGED <<stack, window, active, focus>>
           ELSE /\ stack'  = IF admitted THEN Append(below, view) ELSE below
                /\ window' = LET w == WatchedClosing(ToClose)
                             IN  IF admitted THEN Watched(stack', w) ELSE w
                /\ active' = IF admitted THEN view ELSE NoView
                /\ focus'  = IF known THEN Append(RemoveFocus(active), view.kind) ELSE RemoveFocus(active)

\* tuiInteractiveWindow.open, which knows nothing of the shell's active key
ReplyOpensWindow(view) ==
    /\ view.kind \in Windows
    /\ Replied(view)
    /\ LET opened == WindowOpened(view.kind, view.key)
       IN  stack' = opened.stack /\ window' = opened.window
    /\ UNCHANGED <<active, focus>>

-----------------------------------------------------------------------------
(* Keys: handleKey.                                                        *)

Running == turn \/ status = "running"

Crash == crashed' = TRUE /\ UNCHANGED <<views, inflight, opens, armed, requests, execution>>

\* A prompt: beginExecutionStatus
Submit ==
    /\ stack = <<>> /\ status # "running"
    /\ status' = "running" /\ armed' = FALSE
    /\ UNCHANGED <<views, inflight, opens, requests, turn, crashed, happened>>

\* Esc while something runs; executionStatus.interrupt throws unless it runs.
EscInterrupts ==
    /\ Running
    /\ Note(status # "running", "escAgain")
    /\ IF status = "running"
       THEN /\ status' = "interrupted"
            /\ UNCHANGED <<views, inflight, opens, armed, requests, turn, crashed>>
       ELSE Crash

\* Esc or q with an overlay up: closeOverlay
CloseKey ==
    /\ stack # <<>>
    /\ Note(ToClose = window.key, "dismissed")
    /\ IF CloseThrows THEN Crash
       ELSE /\ stack' = Closed(stack, ToClose)
            /\ window' = WatchedClosing(ToClose)
            /\ ClearOverlayFocus
            /\ UNCHANGED <<selected, inflight, opens, armed, requests, execution, crashed>>

\* Esc, and Esc again within a second, in the empty composer: the fork
\* selector opens in the overlay manager alone.
EscArms ==
    /\ stack = <<>> /\ ~Running /\ opens < MaxOpens
    /\ armed' = ~armed
    /\ IF armed
       THEN /\ stack' = <<View("selector.fork-history", opens)>>
            /\ window' = Watched(stack', window)
            /\ opens' = opens + 1
       ELSE UNCHANGED <<stack, window, opens>>
    /\ UNCHANGED <<active, focus, selected, inflight, requests, execution, crashed, happened>>

\* Enter with an overlay up: overlayManager.select closes the view on top and
\* calls back, then syncClosedOverlay.  A window that is selected before any
\* other is forgotten as its view closes, unless revisions happen to agree.
EnterSelects ==
    /\ stack # <<>>
    /\ LET top == Last(stack)
           isWindow == top.kind \in Windows \cup {"approval-question"}
       IN  /\ stack' = Front(stack)
           /\ \E kept \in {Watched(stack', window)} \cup {w \in {window} : w.key = top.key} :
                 window' = Consumed(kept, top.key)
           /\ selected' = (selected \/ isWindow)
           /\ answering' = answering \cup ({top.key} \cap Range(pending))
           /\ \/ UNCHANGED <<inflight, opens>>
              \/ /\ top.kind = "command" /\ opens < MaxOpens
                 /\ inflight' = inflight \cup {View("command", opens)}
                 /\ opens' = opens + 1
    /\ SyncClosedOverlay
    /\ UNCHANGED <<armed, pending, shown, asked, withdrawn, pump, execution, crashed, happened>>

Init ==
    /\ stack = <<>> /\ active = NoView /\ focus = <<"composer.editor">>
    /\ window = NoWindow /\ selected = FALSE
    /\ inflight = {} /\ opens = 0 /\ armed = FALSE
    /\ pending = <<>> /\ shown = NoKey /\ asked = {} /\ withdrawn = {} /\ answering = {}
    /\ pump = TRUE /\ turn = FALSE /\ status = "idle"
    /\ crashed = FALSE /\ happened = {}

Keys == Submit \/ EscInterrupts \/ CloseKey \/ EscArms \/ EnterSelects

Next ==
    /\ ~crashed
    /\ \/ \E i \in Interactions : Ask(i) \/ Withdraw(i) \/ Responded(i)
       \/ SelectSession
       \/ TurnChanges
       \/ \E kind \in Kinds : Command(kind)
       \/ \E view \in inflight : ReplyOpensOverlay(view) \/ ReplyOpensWindow(view)
       \/ Keys
    /\ Cardinality(happened') <= MaxHappened

Spec == Init /\ [][Next]_vars

-----------------------------------------------------------------------------
(* Properties.                                                             *)

Keyed == Interactions \cup 0..MaxOpens
Anything == [kind : AllKinds \cup {"approval-question", "selector.fork-history"}, key : Keyed]

\* The type invariant of the module's variables.
TypeOK ==
    /\ stack \in Seq(Anything) /\ active \in Anything \cup {NoView}
    /\ focus \in Seq(Known \cup {"composer.editor"})
    /\ window \in [key : Keyed, consumed : BOOLEAN] \cup {NoWindow}
    /\ selected \in BOOLEAN /\ inflight \subseteq Anything
    /\ opens \in 0..MaxOpens /\ armed \in BOOLEAN
    /\ pending \in Seq(Interactions) /\ shown \in Interactions \cup {NoKey}
    /\ asked \subseteq Interactions /\ withdrawn \subseteq asked /\ answering \subseteq asked
    /\ pump \in BOOLEAN /\ turn \in BOOLEAN
    /\ status \in {"idle", "running", "completed", "interrupted"}
    /\ crashed \in BOOLEAN /\ happened \subseteq Events

\* A key that takes a view away takes the one the user sees, and no key ends
\* the process: activeOverlayKey, which Esc and q close (closeOverlay), is the
\* top view for as long as nothing opens over it or replies late, and Esc is
\* not repeated after an interrupt.
KeysActOnTop ==
    [][Keys => /\ \/ Len(stack') >= Len(stack) \/ stack' = Front(stack)
                  \/ happened' \cap {"covered", "late"} # {}
               /\ crashed' => happened' \cap {"late", "escAgain"} # {}]_vars

\* Closing an overlay restores the previous focus owner (contract of the focus
\* manager): the focus stack is the composer and the view of activeOverlayKey,
\* and that view is on the stack.
FocusRestored ==
    Without("late") =>
        /\ focus = <<"composer.editor">> \o (IF active = NoView THEN <<>> ELSE <<active.kind>>)
        /\ active = NoView \/ OnStack(stack, active.key)

\* While the Host waits for an answer the user can give it: the window of the
\* first pending interaction is up or its response is under way, and the pump
\* that brings the next ones lives.
HeadShown ==
    happened \subseteq {"covered", "escAgain"} =>
        /\ pump
        /\ pending # <<>> => OnStack(stack, pending[1]) \/ pending[1] \in answering

=============================================================================
