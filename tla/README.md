# A verification project for agent-plugins

TLA+ specifications of the stateful parts of `agent-tui`, `dsh-concurrency-limit`
and `Teams`, the TLC configurations that check them on small instances, and TLAPS
proofs of what holds for every instance. Paths are relative to `src/`.

Run a configuration with `tlc -config X.cfg M`, the proofs with `tlapm M.tla`.
`PROJECT.json` lists the runs, the source lines each definition models, the
hazards of the code with the properties that watch them, and, for every property
of a passing run, a small change of the model (a plausible bug) that breaks it.

## 1. Inventory

The repository is a shared surface for four first-party projects
(`docs/governance/agent-plugins-guidance.md`); `deepseek-harness/` is a vendored
reference of the host the plugins run in and is treated as external.
`agent-memory` has no source yet. All three live projects are TypeScript on a
single-threaded event loop: concurrency is the interleaving of user calls, RPC
replies, stream frames and timers, and it happens wherever a function awaits.

### agent-tui (`agent-tui/src/experiments/<x>/src/<x>.ts`)

| Component | State | Operations | Hard behaviour | What makes it correct |
| --- | --- | --- | --- | --- |
| **Session service**, prompt path (`session`) | the selected Session and its snapshot (`running`, `live`, `lastSeq`, `queue`), `activePrompt`, `promptController`, `queuedPrompts`, `drainingPrompts`, `selecting` | `prompt`, `promptImage`, `cancel`, `select`/`create`/`resume`, `dispose`; frames of the follow stream | every RPC may be answered after the event it causes, after a selection, or not at all; a continuation of one selection runs in the next; a turn may belong to somebody else | prompts keep their order, none is lost, repeated or sent elsewhere; a reported cancellation is one; the queue shown is the queue |
| Session service, history and interactions | `entries`, `lastSeq`, `pendingInteractions`, subagent state | `loadOlder`, `command`, `selectModel`, `fork`, `updateQueue`, `respondApproval`, `respondQuestion`; control frames | results read before an await are written over what arrived during it | entries stay ordered and unique, an interaction is answered once |
| OpenCode adapter (`transport`) | numbering of live events, pending terminal events | `followAsLegacy`, `messageToLegacyEvent`, `semanticEventToLegacy`, `readSse` | history and subscription are two steps; numbering is local to one follow | numbers are contiguous for the Session service's sequence check; a turn ends once |
| Event bus, refresh orchestrator | listeners, `seenCauses`, pending publication | `publish`, `subscribe`, `request` | re-entrant listeners, a listener that throws | every accepted cause is published once |
| Overlay manager, focus manager, interactive window, execution status, app shell | overlay stack, focus stack, `activeOverlayKey`, the current window and its last result, the execution state | `open`, `close`, `select`, disposers, `handleKey` | replies of commands that come when something else is up, refusals after the stack changed, an exception in a key handler | a key acts on the view the user sees, the focus goes back, a pending request has its window |
| Terminal lifecycle | the state machine, the instance, attached signals | `enter`, `suspend`, `resume`, `exit`, flush | signals, failures and flushes that end after the instance was replaced | the terminal is restored exactly once |
| Composer, session switcher | local echoes, list requests | `submit`, `settle`, `refresh` | echoes against official entries, stale replies | an echo is matched once, an old reply never overwrites a newer one |
| Startup, logic controls | `createLatestAsyncTask`, revisions | `run`, `cancel`, `apply` | a newer task starts before the older ends | only the latest task's result is applied |
| Presentation, display buffer, terminal output | nodes of each Session, rows with absolute numbers, the committed count, the viewport | projection, `reflow`, `setViewport`, `apply` | events between an event and its projection, retention, resizes; a settled row may not change any more | rows keep their numbers and order, none is refused or skipped |
| Terminal UI, tool cards, theme | none | pure functions | layout | left to the fixture tests |

The Session service calls the Host through RPCs (`session.prompt`,
`session.cancel`, `session.list`, ...) and reads three streams (control, follow,
events). Its snapshot is published to listeners: the shell, the composer and the
presentation react to it and call back.

### dsh-concurrency-limit (`dsh-concurrency-limit/src/`)

| Component | State | Operations | Hard behaviour | What makes it correct |
| --- | --- | --- | --- | --- |
| **`Semaphore`** (`index.ts`) | `active`, `waiters` | `acquire`, abort listener, `release` | the limit is read live and moves at any time; an abort races a grant | slots are counted, grants keep to the limit, waiters are FIFO and all served |
| **Tool cap** | one process-wide semaphore | the `tools/execute` wrapper | a tool body may await a child agent whose calls need slots | a cap delays calls, it does not stop them |
| Request caps | cap log of each session, `overrides`, lazily made semaphores | `/concurrency`, `session/event` listener, `llm/stream` wrapper | log and mirror may differ after a resume; the semaphore keeps the first Session object | the cap in force is the cap logged |
| Client (`client/ConcurrencyControl.tsx`) | none | one command per click | none | nothing to state |

### Teams (`Teams/`)

| Component | State | Hard behaviour | What makes it correct |
| --- | --- | --- | --- |
| Session channels (`control-protocol/channel-state.ts`, `network/session-channel-registry.ts`, `network/target-transport.ts`) | channels by id with a state and a generation | frames of an older generation, closed channels that stay registered | a frame reaches the channel of its generation only |
| Directories, registration, routes (`server/`, `network/`) | hosts, accounts, route candidates | repeated and late registrations; a plan used twice | one live registration per host, a plan settles once |
| Runtime (`runtime/`) | lifecycle state, published capabilities | steps out of order | ready implies admitted and configured |
| OpenCode adapter, console host (`opencode-adapter`, `console-host`, `agent/`) | notifications, relation reports | overlapping refreshes, older reports | newest information wins |
| Codecs, memory, search, identity | none | none | pure functions with unit tests |
| Console UI | projections of the above | none | a view |

Governance manifests and lifecycle scripts of the repository have no run-time
behaviour and are not modelled.

## 2. Plan

Modules, the most important behaviour first. A to E exist, F is ahead.

* **A. Prompts.** `PromptQueue`, `MCPromptQueue`, `QueueLemmas`, `PromptQueueProofs`.
* **B. Admission.** `FifoAdmission` (abstract), `Semaphore` (implements it),
  `ToolCalls` (calls of nested agents on a `Semaphore`), `RequestCaps` (the caps of
  several Sessions, each of which comes down to a `Semaphore`), their MC modules,
  `SemaphoreProofs`, `ToolCallsProofs` and `RequestCapsProofs`.
* **C. History.** `History`: what a Session shows, over a Host that numbers events
  and over OpenCode behind its adapter; `HistoryProofs`.
* **D. Rendering.** `DisplayBuffer`, `Transcript` (extends it with the events of a
  Session and the projection task), `Scrollback` (extends that with the terminal); `ScrollbackProofs`.
* **E. Shell.** `Shell`: requests of the Host, commands, overlays, focus and keys; `ShellProofs`.
* **F. Ahead.** The local echoes of the composer against official entries; control
  frames and the Host's own queue; overlapping refreshes of the Teams notification
  store and relation reports. Every safety property of the runs but one is proved
  (section 5).

## 3. The modules

### PromptQueue

The prompt path of `TuiSessionService`. Variables carry the names of the fields.
What runs between two awaits is atomic in JavaScript, and the continuations of a
promise run before the next macrotask; so an action is *one macrotask with all the
continuations it triggers*: a user call, an RPC reply, a frame.

| Action | Code (`session.ts`) |
| --- | --- |
| `Prompt`, `PromptImage` + `ImageRead` | `prompt`, `promptImage` before and after the file is read |
| `QueueOrSendPrompt`, `Enqueue`, `Send`, `SendFails` | `queueOrSendPrompt`, first part of `sendPrompt`; its throw without a Host |
| `ReplyOk`, `ReplyFails` | the rest of `sendPrompt` and, for a drained prompt, of `drainPromptQueue` (`requeuePrompt`, lock) |
| `ApplySnapshot`, `IgnoreEvent`, `ReportGap`, `ApplyTurnStart`, `ApplyTurnEnd` | `applyFollowFrame`, `applyLiveEvent` with its early returns, `Drain` for `drainPromptQueue` |
| `StreamEnds` | `pumpFollow` when the stream ends, `fail` |
| `SelectStart`, `SelectCommit`, `SelectFails` | `select` with `prepare` and `hydrate` |
| `Dispose` | `dispose` |
| `CancelStart`, `Resumed`, `CancelReturns` | `cancel`: the call, its waits, the answer and `finally` |
| `HostAdmits`, `TurnStarts`, `TurnEnds`, `HostCancels`, `StreamOpens`, `LoseEvent`, `ForeignTurnStarts` | the Host, external: what the code expects of it |

Encodings. A prompt is its submission number; 0 is `null`; `MaxPrompts + 1` stands for
whoever else starts turns. Sequence numbers start at 1 and `lastSeq = 0` is the code's
-1. `phase` says where a prompt is in its own call: `direct` and `drain` have an RPC
outstanding, `done` is answered, `failed` threw or was refused, `dropped` was queued
when the selection changed.
`admissions` is a history variable. The snapshot's queue is reduced to its local
items. The items of the Host's own queue, brought by control frames, are left out.

`Conditions` is the set of things the environment does besides the ordinary. A run names them, so that what each property depends on is visible:

| Condition | Meaning |
| --- | --- |
| `foreignTurn` | another client runs a turn in the Session |
| `earlyStart`, `earlyEnd` | a turn starts, ends, before the RPC that asked for it is answered |
| `slowStream` | a turn ends before the follow stream is open |
| `failedTurn` | a turn ends with another reason than `completed` |
| `rejected` | a request is refused, or cannot be sent |
| `lateFailure` | an RPC fails although the Host took the request |
| `lostEvent`, `duplicate`, `streamEnd` | the follow stream skips, repeats, ends |
| `dispose` | the plugin context is disposed |

### Semaphore, FifoAdmission, ToolCalls

`Semaphore` has one action per path of `acquire` (aborted, slot, queue), the abort
listener (`Abort`), `release` with its granting loop (`Release`; the loop's result is
written down directly, `Grants` and `Taken`), and `SetLimit` for the owner of
`limit()`. None of these awaits, so each is atomic. `granted` is a history variable.
The value `Infinity` (uncapped) is a limit not smaller than the number of callers.
`FifoAdmission` says what a FIFO semaphore promises: callers stand in one line and the
first `limit` of it are inside. `Semaphore` implements it under the mapping
`line = granted \o waiters` as long as the limit does not move, as the tool cap does not;
after a raise the code lets newcomers overtake the queue.
`ToolCalls` adds the tree of calls: the body of a call may run an agent whose
calls pass through the same semaphore while the body keeps its slot, as the
`subagent` and `workflow` tools of the harness do.

### RequestCaps

The caps on model requests. State: the Session store (`live`, and the `logs` of the
objects each Session has had in this process, oldest first), the mirror `overrides`,
`owner` (the object a semaphore's limit closes over), and per semaphore its holders
and queue. `Stream` chooses the semaphore when the stream is asked for (index.ts:199-205),
`Acquire`, `Abort` and `Release` are those of `Semaphore` with the limit looked up by
`CapFor`; `SetCap` is the command and, at once, the `session/event` listener. `Open`,
`Fork`, `PutAway` and `Restart` are the Session store, external: a resumed Session is a
new object seeded from the log, whose events are not published; a restart may lose the last
events. A log holds the events of this plugin only; an override of `null` is 0, no
mirror entry is -1. Session ids are not used for another log within one process (the
mirror is never cleared).

`MCRequestCaps!Line(k)` instantiates `Semaphore` once per Session id with
`limit <- Projected(k)`: `OneSemaphoreEach` says that every step of the caps is a step
of one of these semaphores or leaves it alone.

### History

`entries`, `lastSeq`, `hasMore`, `oldest` and `live` of the snapshot; the follow and the
frames it has not delivered; the requests under way. What is said is a sequence of
chunks of messages; an entry is its number and the chunks it shows. Each
function that awaits is split at its awaits: `Select`/`AnswerSelect`/`Selected` (`select`,
`hydrate`), `LoadOlder`/`PageLoaded`, `Command`/`AnswerCommand`/`Commanded` (`command`; `selectModel`
is the same code), `Open`/`Subscribe`/`DeliverSnapshot`/`DeliverEvent` for the follow.
With `host = "opencode"` the follow is `followAsLegacy`: it lists messages, one entry
each, yields its snapshot, subscribes, and numbers events on from the listing;
`New` is what `semanticEventToLegacy` makes of an update or a delta with the texts it
remembers. OpenCode supports neither pages nor commands. One command is under way at a
time (`commanding = Idle`), a bound of the model.

### DisplayBuffer, Transcript, Scrollback

`DisplayBuffer` has the operations of the buffer (`Reflow`, `SetViewport`, `Reset`,
`PreserveAbsoluteRows`), of the frame projection (`Visible`, `Numbers`) and of the output
(`ApplyFrame`) as operators on their snapshots, with what they refuse (`Refuses`, `InvalidTop`,
`FrameOutOfOrder`). `Transcript` has one action per event kind of
`presentation.ts`, with the change it makes to the nodes, the latest-wins projection
task (`Project`), resizes and frames; `crashed` is an exception in a timer callback,
which nobody catches. A Code Mode call that dispatches (`CodeDispatchStart`) gives its place to
its sub-call, whose result is `CodeDispatch`; the result of the suppressed call shows nothing and ends the
step (`SuppressedResult`), and its other events change nothing at all. A result may come without its call
(`ToolResult`, `CodeDispatch`), where the loaded history begins. `Conditions` is as in `PromptQueue`: the orders of events the code does
not put up with (section 6). `Scrollback` adds the terminal: `Render` during and outside
a flush, `FlushEnds`, failures and exits, and Ink's `Static` (`Paint`, external), which
prints the items beyond its index.

### Shell

`stack`, `focus`, `window` are the overlay manager, the focus manager and the interactive
window; `active` is the shell's `activeOverlayKey`; `pending` and `shown` are the
requests of the Host and `interactionWindowKey`. A command is two actions, the
key that sends it and the reply that opens its overlay (`ReplyOpensOverlay` through the
shell, `ReplyOpensWindow` through the interactive window). Every change of the Session snapshot
passes through `Publish`, which is `syncExecutionStatus` and `openPendingInteraction`.
`CloseKey`, `EnterSelects`, `EscArms` and `EscInterrupts` are `handleKey`. `Closed` takes
away the first view of a key, as the manager's `findIndex` does. The stack limit
(`MAX_STACK_DEPTH`, 32) is beyond the bounds and is not modelled. `ShellAssumption` keeps
the keys of interactions apart from the numbers that name other views.

### `happened`

`History`, `Shell` and `Transcript` keep a history variable `happened`, the set of named events that
the code does not put up with and that have come about. Each property names those it
needs *not* to have happened; nothing is kept from happening. For each event a property
names, TLC finds a state that breaks the property when the event is taken out of the
formula, so the lists are tight, and they read as the list of weaknesses:

| Event | What happens | The code |
| --- | --- | --- |
| `raced` | a frame is applied between the Host's answer to `command`'s hydrate and its arrival | `lastSeq` goes back, the next event is a gap (`session.ts:488`) |
| `overtaken` | the Session is selected again while a page or a command is under way | the answer is merged into another history (`session.ts:382`) |
| `reverted` | a page comes while a command is under way and another is asked for before it is answered | the command rebuilds its entries from those captured before the page (`session.ts:477-488`), and the second page is put in front of a hole (`session.ts:366-399`) |
| `burst` | more than a page is said between two snapshots | an unnoticed hole (`session.ts:794`) |
| `unheard` | something is said between the listing and the subscription | it is never shown (`opencode-serve.ts:685-710`) |
| `midway` | a listed message goes on | repeated whole, or a delta ends the follow (`opencode-serve.ts:836`) |
| `empty` | a listed message has no content yet | the listing throws (`opencode-serve.ts:694`) |
| `covered` | a request opens over another view | Esc closes the hidden one (`app-shell.ts:801`) |
| `late` | a command is answered while a view is up | that view is closed, an approval for good; a refused overlay leaks its focus (`app-shell.ts:893-899`) |
| `dismissed` | a window is closed with Esc | a request dismissed is not shown again; after a selection the stale window makes the next request throw (`interactive-window-plugin.ts:22`) |
| `refused` | the Host refuses a response | the request stays pending without a window (`session.ts:560`) |
| `unsupported` | a question without single options | the pump of requests ends (`startup.ts:1529`) |
| `escAgain` | Esc twice while a turn is being interrupted | the key handler throws (`app-shell.ts:688`) |
| `shrunk` | the terminal became narrower or less high | the viewport keeps the old top row and stops following (`startup.ts:1757`) |
| `shed` and `shorter` | rows were cut at the retention limit, and a node of a transcript lost lines or went | each reflow numbers all rows and cuts anew (`display-buffer-plugin.ts:169`): rows that were cut come back and are handed over after later ones |

## 4. The runs

| Run | Shows |
| --- | --- |
| `prompt_queue` | one Session nobody else uses, 3 prompts, two cancels, refusals, failed turns, lost and repeated events, a stream that ends: `DrainLock`, `TurnsFollowSubmission`, `TakenAtMostOnce`, `SettledCancelMeansNotRunning`; unless a failure is reported to the user every queued prompt is sent (`QueuedPromptIsSent`), and every `cancel()` returns (`CancelReturnsEventually`), as long as the client goes on hearing what the Host did last (`InStep`) |
| `prompt_selection` | two Sessions, two selections, disposal, an image prompt, foreign turns, every failure except lost and repeated events: the state of the service is consistent (`TypeOK`, `QueueHoldsEachPromptOnce`, `ShownIsQueued`, `ActivePromptIsAlive`, `ControllerIsInFlight`, `RunningIsTrue`) |
| `semaphore` | 4 calls, aborts anywhere, 2 moves of the limit: counting, queue, grants, no idle slot, and every waiting call is served or gives up |
| `tool_calls_wide` | with more slots (3 or 4) than bodies that run agents (2), a queue of nested calls can always advance; the cap implements `FifoAdmission` |
| `request_caps` | two Sessions, three requests of one of them, two overrides, two objects per Session, one restart, forks: the cap in force is the one shown (`CapInForce`), and each Session has one semaphore under it (`OneSemaphoreEach`) |
| `history` | both Hosts, a page of 2 entries, 5 chunks of 3 messages, 4 selections, commands or pages: `NoHole`, `ShownOnce`, `FollowLives` |
| `rendering` | one Session, 4 events, widths that wrap, 2 resizes, 4 retained rows, older pages and subagents: rows keep their order and the buffer refuses none (`RowsInOrder`, `NothingRefused`), no row is skipped, lost or printed a third time (`NoRowSkipped`, `NoRowLost`, `PrintedAtMostTwice`), and the terminal is given back (`ReleasedAfterwards`) |
| `rendering_progress` | 3 events, two widths and two heights, 3 resizes either way: the tail is visible until the terminal shrinks (`TailVisible`), and all settled rows are printed in the end (`EventuallyPrinted`) |
| `shell` | an approval, a question, 3 commands of 3 kinds: `KeysActOnTop`, `FocusRestored`, `HeadShown` |

Runs that end in a counterexample; each refutes a sentence of the repository and is a
finding in `PROJECT.json`:

| Run | The code |
| --- | --- |
| `cancel_reported` | the end of a foreign turn ends the active prompt, so `cancel()` reports success while the prompt's own turn is still to run |
| `early_end` | a drained turn that ends before its reply leaves the rest of the queue waiting |
| `tool_calls_serial` | with a cap of 1 a nested call waits for its own parent's slot |

The other conditions under which a property fails are seen by adding them to
`Conditions`; they are noted at their hazard in `PROJECT.json`: `foreignTurn` breaks
`TurnsFollowSubmission` (the end of a foreign turn drains the queue past a prompt still
on its way), `lateFailure` breaks `TakenAtMostOnce` (a drained prompt whose reply is
lost is sent again), `slowStream` breaks `QueuedPromptIsSent` (the end of the turn is
only in the snapshot frame), and so does an image prompt, which queues on a `running` captured
before its file was read. A second selection lets a prompt of the Session left back into
the queue.

**Bounds.** `MaxPrompts` 3 gives a prompt that is over or requeued, one draining and one queued; two Sessions and two selections give a continuation of one
selection in the other; `MaxSeq` is two events per prompt or more. `prompt_selection`
uses 2 events per Session: one whole turn, which is what the hazards across selections
need, and it keeps the run at a minute or two. Four callers and limits up to 3 let one
release grant several waiters after a raise and none after a cut, with aborts between;
two changes allow cut and raise in either order. Five calls in two trees give a tool cap that is full of parents
and one that is not. In `request_caps` three requests under a cap of 1 or 2 give a
release that grants several and one that grants none; two objects and a fork are the
least that let log, mirror and owner differ. In `history` a page of 2 against 5 chunks gives holes larger
than a page, and 4 calls a command across a reselection, or one that takes back a page while
the next is asked for. In `rendering` the first event selects the Session
and the first resize is the one at the start; 4 retained rows are fewer than what the logo and the other three events
make of 2 rows each, so rows are shed while a flush is on. In `rendering_progress` the two resizes after the start
are enough to grow in width and in height one after the other, to grow and then shrink, or the
reverse; both heights are less than the retained rows, so the tail is at another row for each. One event
fewer leaves enough rows to shed, and what the run asks is whether every change is followed by a refresh, a
render and a flush. In `shell`
`MaxHappened` 1 explores each weakness by itself; `MaxOpens` 3 numbers three
commands or selectors beside two requests. `CHECK_DEADLOCK FALSE` everywhere: users may stop, all calls may
be over, a bound may be reached.

**Fairness.** `FairSpec` of `PromptQueue`: the event loop delivers frames and replies,
a selection in progress commits, the Host admits, starts and completes turns and
answers. Nobody has to submit, select or cancel, and nothing has to fail. For
`Semaphore`, `WF(Release)`: a body that has a slot returns or throws and `finally`
releases. For `ToolCalls` only a body that waits for no child has to return. For `Scrollback`
(`LiveScrollbackSpec`) the projection task, a render that was asked for and the end of a
flush come about, as timers and promises do in Node; events, resizes, failures
and exits need not.

## 5. The proofs

TLAPS proves what follows for all values of the constants that satisfy the named
assumption of each module (`PromptAssumption`, `SemaphoreAssumption`,
`RequestCapsAssumption`, `HistoryAssumption`, `ShellAssumption`, `TranscriptAssumption`): sizes are
natural numbers and names are distinct. The bounds play no part in any argument.

* `PromptQueueProofs`: `TypeCorrect`, `QueueIsSound`, `ShownQueueIsTrue`,
  `ActivePromptAlive`, `ControllerSound`, under **every** set of conditions,
  duplicates included. The inductive invariant `Inv` is the conjunction of the five
  properties and `UnsentIsFresh`: a prompt not yet given to `queueOrSendPrompt` is in
  no queue and its promise is pending, which is what makes a new active prompt alive.
  They need each other: that the head of the queue is not in flight (`Drain`) is
  `QueueHoldsEachPromptOnce`; that a requeued prompt is no longer active uses
  `ActivePromptIsAlive`. There is one lemma per action.
  `RunningFlagIsTrue`, under every set of conditions as well: `RunInv` says that nothing on the
  stream is newer than the Host's last event, that a start which is the newest event
  means a turn that runs, and that a snapshot comes first and finds the flag down.
  Without the last part the snapshot of a follow could put out a flag a start has set.
  `DrainIsLocked` needs `OneSelection` (one selection, no disposal): a second selection
  drops the lock of the drain under way. `EachPromptTakenOnce`, `SettledCancelIsSound` and `TurnsInOrder` need
  `Tame`: besides that, nobody else starts turns, no request fails after the Host took it,
  and no reply comes after the end of its turn. `MCCancelReported` and `MCEarlyEnd`
  show two ways in which they are false otherwise. Under `Tame` there is one turn at a
  time (`TurnInv`): the request in flight is that of the active prompt (`FlightInv`), the Host
  works on the active prompt or on nothing (`TurnsInv`), and an end the client has not
  seen is the last thing that happened, with the active prompt still blocking what
  comes after (`EndsInv`). So what is sent has never been taken. `TurnsInOrder` adds `OrderInv`:
  taken, in flight and queued prompts follow each other. It excludes images, because
  `promptImage` reads its file before it takes its place.
* `SemaphoreProofs`: `TypeCorrect`, `SlotsAreCounted`, `QueueIsWaiters`,
  `GrantsKeepToLimit` (an action property), `NoSlotStaysIdle`. The inductive invariant
  is typing, `ActiveCountsHolders` and `WaitersAreWaiting`; `NoIdleSlot` is inductive
  relative to it. No two callers of a release are confused because the two sequences
  are injective and disjoint.
  Under `MaxChanges = 0` (nobody changes the limit) `FixedLimitIsFifo`: the semaphore implements `FifoAdmission`. The line is
  `granted \o waiters`; the argument needs the inductive invariant and `NoIdleSlot`,
  which together say that the holders are exactly the first `limit` of the line
  (`FirstOfLine`). A call that gets its slot at once stands at the end of the line
  because nobody waits then; an abort and a release take one call out of the line
  wherever it stands (`RemoveFromFirst`, `RemoveFromSecond`), and the grants of a
  release only move the border between holders and waiters (`CutAndJoin`). With a
  limit that moves the claim is false: after a rise the holders may be too few.
* `ToolCallsProofs`: `ToolCallsInLine`, the same for the cap on tool bodies, whose
  steps are steps of the semaphore; `QueueNeverSticks`, `QueueAdvances` whenever every
  limit exceeds the number of bodies that run agents (`AgentBodies`): if
  somebody waits all slots are taken, and by the pigeonhole principle one of them by a
  body that waits for nobody. The run with one slot shows that the hypothesis is needed.
* `RequestCapsProofs`: `CapIsTheLoggedOne` (`CapInForce`), `TypeCorrect`,
  `SlotsKeepToShownCap`, `EachRequestInItsQueue`. Two invariants. `IInv` is about logs and
  mirror: an override in the mirror is the last one of the current log
  (`MirrorIsTrue`), and while the mirror has none all objects of a Session hold the same
  override (`ObjectsAgree`). Neither is enough alone: the semaphore may look at
  the log of an old object, and it is the mirror that keeps this from mattering after a
  change. `RInv`, inductive relative to `IInv`, is about requests: each queue is the
  requests that wait for it, once each, the holders likewise, and a request under a
  Session's semaphore finds an object to look at. That a slot keeps to the shown cap
  then follows from the bound on `Grants` and `CapInForce`.
* `HistoryProofs`: `HistoryTyped`, `NoHoleInHistory`, `FollowStaysAlive`, `EverythingShownOnce`, on both Hosts.
  `NoHole` speaks of what is shown; the invariant has to follow every answer and
  frame on its way. `HostInv` and `FramesInv` say that the frames are the events since the
  listing, in line, behind at most one snapshot; `EntriesInv` that entries, captured entries and
  answers are pieces of history; `HoleInv` that each of them joins what is shown without a gap,
  whichever arrives first; `FollowInv` that the next event has the next number, for OpenCode
  that numbering on from the listing meets what the client has; `ShownInv` that each chunk
  delivered is in one entry. Each of the last three assumes only that its own events have
  not `happened`. The attempt to prove `HoleInv` found the event `reverted`, which needs four
  calls where the run then had three.
* `ShellProofs`: `ShellTyped`, `FocusIsRestored`, `HeadIsShown`, `KeysActOnTheTop`. Besides types
  (`TypeInv`), `KeysInv`: no key is used twice, on the stack or on its way to it, so a disposer
  takes away its own view; `PendingInv`: only the first pending interaction ever had a window;
  `FocusInv`, `CoverInv` and `WindowInv`: until the named events, one view, its focus, and the window that is
  up on top of the stack.
* `ScrollbackProofs`, in seven parts. `TerminalIsReleased`, `NoRowForgotten` and `ScrollbackTypeCorrect`
  hold under every set of `Conditions`. The other theorems need `Orderly`: besides the ordinary, only
  older pages, subagents and a terminal that shrinks. The four conditions left out are those of
  section 6 under which `rowsFor` or the append-only check throws, so there the properties are false.
  * *Rows.* `Ends` counts the rows of the elements before each element; each row belongs to one
    element (`OneOwner`), and what `FlattenSeq` builds is at the place `Ends` says (`RowsAre`).
    `Continues` relates two lists of elements: what was settled stays where it was. Then a
    committed row stays what it was (`StableStays`), and preserving the old numbers gives each row
    the number it would get anew (`PreserveKeeps`): the buffer is `Exact`.
  * *Nodes.* `Ordered`: only the last node is live, and identities come from counters that have
    passed them. `Goes` names what an event may do: settle, rewrite or remove the last node, or append
    one (`Keeps`), or put a sub-call in the place of a live last node (`Dispatches`); there is one lemma per event kind (`ChunkAdvances`, ..., `CompactionAdvances`).
  * *Display.* `DisplayInv`: the elements are the logo and what the nodes were at some earlier time,
    from which they have gone on (`Follows`), and the buffer is exact and its top row not below zero. That gives `NothingIsRefused`
    and `RowsStayInOrder`. The history since the last projection has to be in the invariant, because
    events come while the projection task waits.
  * *Viewport.* `TailStaysVisible`, until the terminal has shrunk, whatever sizes come later: `TailInv` adds that
    the viewport follows until `shrunk` has happened. The top it keeps is the old one or the new bottom, whichever is
    smaller, and the bottom only falls as the terminal grows (`BottomFalls`).
  * *Rendering.* `RowsInv` (`NoRowForgotten`): from the first render on the rows of the last frame are
    committed or pending, the frame that waits carries all that is pending, and both are of the
    layout Ink shows. A row the output does not hand over again is one the lifecycle still has.
  * *Printing.* In one layout the settled rows only grow and those that were shed are the first
    (`GrowthInv`, `Onward`, `Window`). `Arranged` says of the committed, pending and printed rows, Ink's index and
    the frame that waits: what is known is contiguous; what is committed is printed; what is known and
    not printed waits, after all that was printed, and Ink's index is not past it; only a committed row was
    printed twice. A render outside a flush (`ArrangedPaint`), one during a flush (`ArrangedWaits`) and the end of the
    flush (`ArrangedFlush`) keep it, and so does whatever happens between two renders (`ArrangedLater`). `PlacedInv` is
    `Arranged` of the current layout, and gives `NoneSkipped`, `AtMostTwice` and `NoneLost`. It speaks of
    `NothingReturns`, as the properties do: a row that was shed and comes back breaks the contiguity.
* `QueueLemmas`: appending to, removing from, joining and cutting sequences, and least and
  greatest numbers; used by all of them. What a recursive function or a fold computes is proved
  from a least counterexample (`LeastNat`), since induction theorems cannot be instantiated.

Only model-checked. Liveness (`QueuedPromptIsSent`, `CancelReturnsEventually`, `WaiterIsServed`,
`EventuallyPrinted`), which is beyond TLAPS here. `OneSemaphoreEach`: tlapm does not take
an instance with a parameter.
`TypeOK` of `RequestCaps` is proved and not listed in the run.

## 6. Where the code and its documents part

Three runs end in a counterexample (section 4). The others show what holds although
the following, met while modelling, does not; each is behind a name in `Conditions`
or `happened`.

* *Order of nodes.* The comments at `presentation.ts:398-401` and `555-557` say the
  buffer never receives a stable node after its live tail. It does: results of
  parallel tools, permission and question notices (`opencode-serve.ts:901-902`), an unknown event or
  another user's message in mid-turn, a subagent bar (`startup.ts:1437`). `rowsFor` then throws
  (`display-buffer-plugin.ts:79-81`) in a `setImmediate` callback.
* *Settled rows.* Older pages meet the rows of the logo, compaction writes one node
  twice, text after a tool call reopens a settled node, text that turns out to be
  orchestration disappears: the buffer refuses what is no longer append-only, although
  `docs/goals/agent-tui-renderer-lifecycle-plan.md:62` and `:71` promise that older
  pages are put in front.
* *Printed once.* A render during a flush shrinks the index of Ink's `Static`
  (`terminal-lifecycle.ts:500-516`, `636-654`), so rows of the frame being flushed are printed a second time
  (TLC shows it with `<= 1` in `PrintedAtMostTwice`). `docs/design/tui-raw-interpreter-display-buffer-design.md:170` asks that stable
  scrollback and live redraw neither repeat nor lose rows, and `note.md:526` says the rows are emitted
  once. `PrintedAtMostTwice` is what holds.
* *Shed rows.* Rows shed before the first render (more than the retention limit)
  never reach the scrollback; `NoRowLost` speaks of the rows the output knows. A row that was cut
  comes back into the buffer when what follows it gets shorter (`display-buffer-plugin.ts:169`): it is
  handed over after later rows, and Ink, whose index is past it, may never print it.
  `NothingReturns` names both events; neither alone does it.
* *Following the tail.* After the terminal shrinks, the old top row keeps the
  viewport away from the tail (`startup.ts:1749-1760`): event `shrunk`.
  `contracts/tui/terminal-ui/terminal-ui.contract.json:17` says following stops on explicit scroll, and
  nothing in the program scrolls. So it does
  when the logo is higher than the first viewport, which starts at row 0
  (`LogoFits`; `display-buffer-plugin.ts:188-190`). What an older page does to the row numbers is
  outside `AppendOnly`: should it bring the top row below zero, `setViewport` throws (`InvalidTop`).
* *Cancelled approvals* are looked up under `approval:<approvalId>` and stored under
  `approval:<eventId>` (`session.ts:909`), so they stay. The model removes questions only.
* *Esc.* `docs/goals/agent-tui-renderer-lifecycle-plan.md:93` says Esc only stops the
  turn; pressed twice it throws (event `escAgain`).

## 7. Not modelled

* **Session service.** Control frames and the Host's own queue items, `updateQueue`, `fork`, listings, subagent
  events, projections, the texts of errors.
* **Adapter.** Tool parts, status and error events; HTTP, SSE and JSON.
* **Shell.** Moving a selection, the text keys, the fatal view (nothing opens it), Ctrl+C
  (an exit in `Scrollback`), what each command lists. The mouse.
* **Terminal.** `suspend` and `resume`, which nothing calls. Ink itself.
* **Bus and orchestrator.** Synchronous fan-out to one listener; a listener that throws.
* **Composer and switcher.** `attachOfficialEcho`, which matches local echoes by text and
  revision; `reportSubmissionError`, which fails the newest pending echo whichever prompt failed
  (`app-shell.ts:863`). Both are next.
* **Request caps.** Reloading the plugin with requests in flight; a raised cap
  wakes nobody until the next release, so no liveness is claimed there.
* **Teams.** `channel-state`, `session-channel-registry`, `target-transport`, `route-plan`, `directory`,
  `host-registration`, `account-directory` and `daemon-runtime` are pure functions over
  records that only tests compose: there is no order of calls in the repository to
  model. `opencode-adapter` and `console-host` are HTTP services over maps: two refreshes
  may overlap and the older reply is stored last (`opencode-adapter/src/index.ts:170`), and a relation report replaces
  a newer one (`console-host/src/index.ts:238`). Modelling them is part of the plan.
* Layout, theming and wording, governance scripts, and `deepseek-harness`, a vendored
  reference of the host, except for what the plugins call.
