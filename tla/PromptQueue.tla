----------------------------- MODULE PromptQueue -----------------------------
(***************************************************************************)
(* The prompt path of TuiSessionService (agent-tui, session.ts): prompts   *)
(* submitted by the user are sent to the Host one at a time, wait in a     *)
(* local FIFO queue while a turn runs, and are drained by the live events  *)
(* of the selected Session.  Cancellation waits on promises of the active  *)
(* prompt; selecting another Session or disposing the service drops state. *)
(*                                                                         *)
(* A macrotask of the event loop (an RPC reply, one frame of the live      *)
(* stream, a user call) runs with all its promise continuations before the *)
(* next one, so each is one action.  The Host (turns, its own queue and    *)
(* the follow stream) is external: it is modelled from what the code       *)
(* handles.  Ids are integers: a prompt is its submission number, 0 is     *)
(* null, MaxPrompts + 1 stands for whoever else starts turns on the Host.  *)
(* Sequence numbers count from 1, and lastSeq = 0 is the code's -1.        *)
(***************************************************************************)
EXTENDS Integers, Sequences, Functions

CONSTANTS
    Sessions,     \* the Session ids of the Host
    NoSession,    \* no Session is selected / no selection is in progress
    MaxPrompts,   \* bound: how many prompts are submitted
    Images,       \* the submissions that come through promptImage
    Cancels,      \* the calls of cancel()
    Conditions,   \* what the environment may do, see AllConditions
    MaxSeq,       \* bound: events per Session
    MaxSelects    \* bound: how many selections are started

AllConditions ==
    { "foreignTurn",   \* another client's turn runs in the Session
      "earlyStart",    \* a turn starts before its RPC reply is delivered
      "earlyEnd",      \* a turn ends before its RPC reply is delivered
      "slowStream",    \* a turn ends before the live stream is open
      "failedTurn",    \* a turn ends for another reason than 'completed'
      "rejected",      \* the Host refuses the request or it cannot be sent
      "lateFailure",   \* the RPC fails although the Host took the request
      "lostEvent",     \* the live stream skips an event
      "duplicate",     \* the live stream repeats an event
      "streamEnd",     \* the live stream ends
      "dispose" }      \* the plugin context is disposed

ASSUME PromptAssumption ==
    /\ MaxPrompts \in Nat /\ MaxSeq \in Nat /\ MaxSelects \in Nat
    /\ NoSession \notin Sessions
    /\ Images \subseteq 1..MaxPrompts
    /\ Conditions \subseteq AllConditions

Prompts == 1..MaxPrompts
None    == 0
Foreign == MaxPrompts + 1

VARIABLES
    current,          \* the selected Session (sessionId of this.current)
    activeHost,       \* this.activeHost is set
    selecting,        \* the Session being prepared, NoSession if none
    selects,          \* how many selections were started (bound)
    running, live, error, lastSeq,   \* fields of the snapshot
    shown,            \* the local items in the snapshot's queue
    activePrompt, promptController,  \* request ids, None for null
    queuedPrompts, drainingPrompts,
    nextId,           \* the next submission number
    phase,            \* where each prompt is
    target,           \* request.sessionId
    runningAtCall,    \* snapshot.running as promptImage captured it
    accepted,         \* prompts whose 'accepted' promise is resolved
    lifecycle,        \* the 'lifecycle' promise of each prompt
    aborted,          \* prompts whose request signal is aborted
    cancel,           \* the state of each cancel() call
    follow, wire,     \* the live follow stream and its frames in flight
    admitted,         \* requests in flight that the Host has taken
    admissions,       \* history: the prompts the Host took, in order
    hostTurn, hostQueue, hostSeq

selection == <<current, activeHost, selecting, selects>>
snapshot  == <<running, live, error, lastSeq>>
requests  == <<nextId, target, runningAtCall>>
promises  == <<accepted, lifecycle, aborted>>
stream    == <<follow, wire>>
host      == <<admitted, admissions, hostTurn, hostQueue, hostSeq>>
prompting == <<activePrompt, promptController, queuedPrompts,
               drainingPrompts, shown, phase>>
vars == <<selection, snapshot, prompting, requests, promises, cancel,
          stream, host>>

InFlight(r) == phase[r] \in {"direct", "drain"}
NoCancel == [pc |-> "idle", prompt |-> None, session |-> NoSession,
             controller |-> None]

Init ==
    /\ current = NoSession /\ activeHost = FALSE
    /\ selecting = NoSession /\ selects = 0
    /\ running = FALSE /\ live = FALSE /\ error = FALSE /\ lastSeq = 0
    /\ shown = {} /\ activePrompt = None /\ promptController = None
    /\ queuedPrompts = <<>> /\ drainingPrompts = FALSE
    /\ nextId = 1
    /\ phase = [r \in Prompts |-> "new"]
    /\ target = [r \in Prompts |-> NoSession]
    /\ runningAtCall = [r \in Prompts |-> FALSE]
    /\ accepted = {} /\ aborted = {}
    /\ lifecycle = [r \in Prompts |-> "pending"]
    /\ cancel = [c \in Cancels |-> NoCancel]
    /\ follow = "closed" /\ wire = <<>>
    /\ admitted = {} /\ admissions = <<>>
    /\ hostTurn = [s \in Sessions |-> None]
    /\ hostQueue = [s \in Sessions |-> <<>>]
    /\ hostSeq = [s \in Sessions |-> 0]

-----------------------------------------------------------------------------
(***************************************************************************)
(* Promises.  A promise is settled once.  A cancel() call waits first for  *)
(* 'accepted', then for 'lifecycle': "ended" lets it report success, any   *)
(* other value makes it call the Host.                                     *)
(***************************************************************************)
MutantSettleStartOnly(r, value) ==
    IF r \in Prompts /\ lifecycle[r] = "pending" /\ value = "started"
    THEN [lifecycle EXCEPT ![r] = value] ELSE lifecycle

Settle(r, value) ==
    IF r \in Prompts /\ lifecycle[r] = "pending"
    THEN [lifecycle EXCEPT ![r] = value] ELSE lifecycle

MutantAfterWait(value) == value

MutantReportSuccess(value) == "settled"

AfterWait(value) == IF value = "ended" THEN "settled" ELSE "sent"

Resumed(taken, life) ==
    [c \in Cancels |->
        IF /\ cancel[c].pc = "waiting"
           /\ cancel[c].prompt \in taken
           /\ life[cancel[c].prompt] # "pending"
        THEN [cancel[c] EXCEPT !.pc = AfterWait(life[cancel[c].prompt])]
        ELSE cancel[c]]

(* A controller that is replaced is no call's "own" controller any more.   *)
Forget(calls, r) ==
    [c \in Cancels |-> IF calls[c].controller = r
                       THEN [calls[c] EXCEPT !.controller = None]
                       ELSE calls[c]]

-----------------------------------------------------------------------------
(***************************************************************************)
(* Submission.  queueOrSendPrompt queues behind an active prompt, a        *)
(* running turn or a queue; otherwise it sends.  Without a Host the send   *)
(* throws at once and leaves nothing behind.                               *)
(***************************************************************************)
Enqueue(r) ==
    /\ queuedPrompts' = Append(queuedPrompts, r)
    /\ shown' = shown \cup {r}
    /\ phase' = [phase EXCEPT ![r] = "queued"]
    /\ UNCHANGED <<activePrompt, promptController, drainingPrompts,
                   promises, cancel, admitted>>

Send(r) ==
    /\ activePrompt' = r /\ promptController' = r
    /\ phase' = [phase EXCEPT ![r] = "direct"]
    /\ cancel' = Forget(cancel, r)
    /\ UNCHANGED <<queuedPrompts, drainingPrompts, shown, promises, admitted>>

SendFails(r) ==
    /\ phase' = [phase EXCEPT ![r] = "failed"]
    /\ activePrompt' = None /\ promptController' = None
    /\ UNCHANGED <<queuedPrompts, drainingPrompts, shown, promises, cancel,
                   admitted>>

MutantSendPastQueue(r, turnRunning) ==
    IF activePrompt # None \/ turnRunning THEN Enqueue(r)
    ELSE IF activeHost THEN Send(r) ELSE SendFails(r)

QueueOrSendPrompt(r, turnRunning) ==
    IF activePrompt # None \/ turnRunning \/ queuedPrompts # <<>>
    THEN Enqueue(r)
    ELSE IF activeHost THEN Send(r) ELSE SendFails(r)

Prompt(r) ==
    /\ r = nextId /\ r \notin Images
    /\ current # NoSession
    /\ nextId' = r + 1
    /\ target' = [target EXCEPT ![r] = current]
    /\ QueueOrSendPrompt(r, running)
    /\ UNCHANGED <<selection, snapshot, runningAtCall, stream, admissions,
                   hostTurn, hostQueue, hostSeq>>

(* promptImage captures the snapshot, then awaits the file.                *)
PromptImage(r) ==
    /\ r = nextId /\ r \in Images
    /\ current # NoSession
    /\ nextId' = r + 1
    /\ target' = [target EXCEPT ![r] = current]
    /\ runningAtCall' = [runningAtCall EXCEPT ![r] = running]
    /\ phase' = [phase EXCEPT ![r] = "reading"]
    /\ UNCHANGED <<selection, snapshot, activePrompt, promptController,
                   queuedPrompts, drainingPrompts, shown, promises, cancel,
                   stream, host>>

ImageRead(r) ==
    /\ phase[r] = "reading"
    /\ QueueOrSendPrompt(r, runningAtCall[r])
    /\ UNCHANGED <<selection, snapshot, requests, stream, admissions,
                   hostTurn, hostQueue, hostSeq>>

-----------------------------------------------------------------------------
(***************************************************************************)
(* The reply of the prompt RPC, with the continuations of sendPrompt and,  *)
(* for a drained prompt, of drainPromptQueue.                              *)
(***************************************************************************)
MutantKeepController(r) == promptController

ReleaseController(r) == IF promptController = r THEN None ELSE promptController

MutantKeepActivePrompt(r) == activePrompt

ClearActivePrompt(r) == IF activePrompt = r THEN None ELSE activePrompt

MutantKeepLock(r) == drainingPrompts

Unlock(r) == IF phase[r] = "drain" THEN FALSE ELSE drainingPrompts

ReplyOk(r) ==
    /\ InFlight(r) /\ r \in admitted /\ r \notin aborted
    /\ accepted' = accepted \cup {r}
    /\ cancel' = Resumed(accepted', lifecycle)
    /\ promptController' = ReleaseController(r)
    /\ drainingPrompts' = Unlock(r)
    /\ phase' = [phase EXCEPT ![r] = "done"]
    /\ UNCHANGED <<selection, snapshot, requests, stream, host, shown,
                   activePrompt, queuedPrompts, lifecycle, aborted>>

MayFail(r) == \/ r \in aborted
              \/ "rejected" \in Conditions /\ r \notin admitted
              \/ "lateFailure" \in Conditions /\ r \in admitted

MutantRequeue(r) ==
    /\ phase' = [phase EXCEPT ![r] = "queued"]
    /\ queuedPrompts' = <<r>> \o queuedPrompts
    /\ UNCHANGED shown

Requeue(r) ==
    /\ phase' = [phase EXCEPT ![r] = "queued"]
    /\ queuedPrompts' = <<r>> \o queuedPrompts
    /\ shown' = shown \cup Range(queuedPrompts')

(* thrown: the call rejects; otherwise the Host answers ok: false.         *)
ReplyFails(r, thrown) ==
    /\ InFlight(r) /\ MayFail(r)
    /\ r \in aborted \cup admitted => thrown
    /\ accepted' = accepted \cup {r}
    /\ lifecycle' = Settle(r, "ended")
    /\ cancel' = Resumed(accepted', lifecycle')
    /\ activePrompt' = ClearActivePrompt(r)
    /\ promptController' = ReleaseController(r)
    /\ drainingPrompts' = Unlock(r)
    /\ error' = (error \/ ~thrown \/ phase[r] = "drain")
    /\ \/ /\ phase[r] = "direct"
          /\ phase' = [phase EXCEPT ![r] = "failed"]
          /\ UNCHANGED <<queuedPrompts, shown>>
       \/ phase[r] = "drain" /\ Requeue(r)
    /\ UNCHANGED <<selection, running, live, lastSeq, requests, aborted,
                   stream, host>>

-----------------------------------------------------------------------------
(***************************************************************************)
(* The live stream.  Its first frame is a snapshot; then come events.      *)
(***************************************************************************)
Frame == Head(wire)

Receives(kinds) ==
    /\ follow = "open" /\ wire # <<>> /\ Frame.kind \in kinds
    /\ wire' = Tail(wire) \/ ("duplicate" \in Conditions /\ wire' = wire)
    /\ UNCHANGED <<selection, requests, follow, admissions,
                   hostTurn, hostQueue, hostSeq>>

Fresh(seq) == seq > lastSeq

Contiguous(seq) == lastSeq = 0 \/ seq = lastSeq + 1

ApplySnapshot ==
    /\ Receives({"snapshot"})
    /\ live' = TRUE
    /\ lastSeq' = IF Frame.seq > lastSeq THEN Frame.seq ELSE lastSeq   \* max
    /\ UNCHANGED <<running, error, prompting, promises, cancel, admitted>>

IgnoreEvent ==
    /\ Receives({"start", "completed", "failed"})
    /\ ~Fresh(Frame.seq)
    /\ UNCHANGED <<snapshot, prompting, promises, cancel, admitted>>

ReportGap ==
    /\ Receives({"start", "completed", "failed"})
    /\ Fresh(Frame.seq) /\ ~Contiguous(Frame.seq)
    /\ live' = FALSE /\ error' = TRUE
    /\ UNCHANGED <<running, lastSeq, prompting, promises, cancel, admitted>>

ApplyTurnStart ==
    /\ Receives({"start"})
    /\ Fresh(Frame.seq) /\ Contiguous(Frame.seq)
    /\ running' = TRUE /\ lastSeq' = Frame.seq
    /\ lifecycle' = Settle(activePrompt, "started")
    /\ cancel' = Resumed(accepted, lifecycle')
    /\ UNCHANGED <<live, error, prompting, accepted, aborted, admitted>>

(* drainPromptQueue: the head of the queue is sent, as a new request.      *)
MutantShift(queue) == queue

Shift(queue) == Tail(queue)

Drain(r) ==
    /\ queuedPrompts' = Shift(queuedPrompts)
    /\ shown' = shown \ {r}
    /\ drainingPrompts' = TRUE
    /\ activePrompt' = r /\ promptController' = r
    /\ phase' = [phase EXCEPT ![r] = "drain"]
    /\ lifecycle' = [Settle(activePrompt, "ended") EXCEPT ![r] = "pending"]
    /\ accepted' = accepted \ {r}
    /\ aborted' = aborted \ {r}
    /\ admitted' = admitted \ {r}
    /\ cancel' = Forget(Resumed(accepted, Settle(activePrompt, "ended")), r)

Drains(kind) ==
    kind = "completed" /\ ~drainingPrompts /\ queuedPrompts # <<>>

ApplyTurnEnd ==
    /\ Receives({"completed", "failed"})
    /\ Fresh(Frame.seq) /\ Contiguous(Frame.seq)
    /\ running' = FALSE /\ lastSeq' = Frame.seq
    /\ error' = (error \/ Frame.kind = "failed")
    /\ \/ Drains(Frame.kind) /\ Drain(Head(queuedPrompts))
       \/ /\ ~Drains(Frame.kind)
          /\ activePrompt' = None
          /\ lifecycle' = Settle(activePrompt, "ended")
          /\ cancel' = Resumed(accepted, lifecycle')
          /\ UNCHANGED <<queuedPrompts, shown, drainingPrompts, phase,
                         promptController, accepted, aborted, admitted>>
    /\ UNCHANGED live

StreamEnds ==
    /\ "streamEnd" \in Conditions /\ follow = "open"
    /\ follow' = "closed" /\ wire' = <<>>
    /\ live' = FALSE /\ error' = TRUE
    /\ UNCHANGED <<selection, running, lastSeq, prompting, requests,
                   promises, cancel, host>>

-----------------------------------------------------------------------------
(***************************************************************************)
(* Selection.  select() runs prepare() (the Host is asked, the history     *)
(* hydrated), then replaces the selection in one go.  dispose() drops it.  *)
(***************************************************************************)
SelectStart(s) ==
    /\ selects < MaxSelects /\ selecting = NoSession
    /\ selects' = selects + 1 /\ selecting' = s
    /\ UNCHANGED <<current, activeHost, snapshot, prompting, requests,
                   promises, cancel, stream, host>>

DropPrompts ==
    /\ aborted' = aborted \cup ({promptController} \ {None})
    /\ promptController' = None /\ activePrompt' = None
    /\ queuedPrompts' = <<>> /\ drainingPrompts' = FALSE
    /\ phase' = [r \in Prompts |-> IF phase[r] = "queued" THEN "dropped"
                                   ELSE phase[r]]

MutantPrepare(s) ==
    /\ UNCHANGED running
    /\ live' = FALSE /\ error' = FALSE /\ lastSeq' = hostSeq[s] /\ shown' = {}

Prepare(s) ==
    /\ running' = FALSE
    /\ live' = FALSE /\ error' = FALSE /\ lastSeq' = hostSeq[s] /\ shown' = {}

SelectCommit ==
    /\ selecting # NoSession
    /\ DropPrompts
    /\ current' = selecting /\ activeHost' = TRUE /\ selecting' = NoSession
    /\ Prepare(selecting)
    /\ follow' = "opening" /\ wire' = <<>>
    /\ UNCHANGED <<selects, requests, accepted, lifecycle, cancel, host>>

SelectFails ==
    /\ "rejected" \in Conditions /\ selecting # NoSession
    /\ selecting' = NoSession
    /\ UNCHANGED <<current, activeHost, selects, snapshot, prompting,
                   requests, promises, cancel, stream, host>>

Dispose ==
    /\ "dispose" \in Conditions /\ activeHost
    /\ DropPrompts
    /\ activeHost' = FALSE
    /\ live' = FALSE /\ error' = TRUE
    /\ follow' = "closed" /\ wire' = <<>>
    /\ UNCHANGED <<current, selecting, selects, running, lastSeq, shown,
                   requests, accepted, lifecycle, cancel, host>>

-----------------------------------------------------------------------------
(***************************************************************************)
(* cancel().  With an active prompt the call waits for its promises; else  *)
(* it asks the Host at once.  When the Host has answered, the controller   *)
(* captured at the call is aborted if it is still the current one.         *)
(***************************************************************************)
CancelStart(c) ==
    /\ cancel[c].pc = "idle" /\ current # NoSession
    /\ activePrompt = None => activeHost
    /\ LET known == activePrompt \in accepted
                    /\ lifecycle[activePrompt] # "pending"
           pc == IF activePrompt = None THEN "sent"
                 ELSE IF known THEN AfterWait(lifecycle[activePrompt])
                 ELSE "waiting"
       IN cancel' = [cancel EXCEPT ![c] =
                       [pc |-> pc, prompt |-> activePrompt,
                        session |-> current, controller |-> promptController]]
    /\ UNCHANGED <<selection, snapshot, prompting, requests, promises,
                   stream, host>>

CancelReturns(c) ==
    /\ \/ cancel[c].pc = "answered"
       \/ cancel[c].pc = "sent" /\ "rejected" \in Conditions
    /\ cancel' = [cancel EXCEPT ![c].pc = "done"]
    /\ aborted' = IF promptController = cancel[c].controller
                  THEN aborted \cup ({promptController} \ {None})
                  ELSE aborted
    /\ UNCHANGED <<selection, snapshot, prompting, requests, accepted,
                   lifecycle, stream, host>>

-----------------------------------------------------------------------------
(***************************************************************************)
(* The Host (external).                                                    *)
(***************************************************************************)
Emit(s, kind) ==
    /\ hostSeq[s] < MaxSeq
    /\ hostSeq' = [hostSeq EXCEPT ![s] = @ + 1]
    /\ wire' = IF follow = "open" /\ s = current
               THEN Append(wire, [kind |-> kind, seq |-> hostSeq[s] + 1])
               ELSE wire

HostAdmits(r) ==
    /\ InFlight(r) /\ r \notin admitted
    /\ admitted' = admitted \cup {r}
    /\ admissions' = Append(admissions, r)
    /\ hostQueue' = [hostQueue EXCEPT ![target[r]] = Append(@, r)]
    /\ UNCHANGED <<selection, snapshot, prompting, requests, promises,
                   cancel, stream, hostTurn, hostSeq>>

TurnStarts(s) ==
    /\ hostTurn[s] = None /\ hostQueue[s] # <<>>
    /\ InFlight(Head(hostQueue[s])) => "earlyStart" \in Conditions
    /\ Emit(s, "start")
    /\ hostTurn' = [hostTurn EXCEPT ![s] = Head(hostQueue[s])]
    /\ hostQueue' = [hostQueue EXCEPT ![s] = Tail(@)]
    /\ UNCHANGED <<selection, snapshot, prompting, requests, promises,
                   cancel, follow, admitted, admissions>>

MayEnd(s) ==
    /\ hostTurn[s] # None
    /\ (hostTurn[s] \in Prompts /\ InFlight(hostTurn[s]))
         => "earlyEnd" \in Conditions
    /\ (s = current /\ follow = "opening") => "slowStream" \in Conditions

ForeignTurnStarts(s) ==
    /\ "foreignTurn" \in Conditions /\ hostTurn[s] = None
    /\ Emit(s, "start")
    /\ hostTurn' = [hostTurn EXCEPT ![s] = Foreign]
    /\ UNCHANGED <<selection, snapshot, prompting, requests, promises,
                   cancel, follow, admitted, admissions, hostQueue>>

TurnEnds(s, kind) ==
    /\ MayEnd(s)
    /\ kind = "failed" => "failedTurn" \in Conditions
    /\ Emit(s, kind)
    /\ hostTurn' = [hostTurn EXCEPT ![s] = None]
    /\ UNCHANGED <<selection, snapshot, prompting, requests, promises,
                   cancel, follow, admitted, admissions, hostQueue>>

(* session.cancel reaches the Host: the running turn, if any, is ended.    *)
HostCancels(c) ==
    LET s == cancel[c].session
    IN /\ cancel[c].pc = "sent"
       /\ cancel' = [cancel EXCEPT ![c].pc = "answered"]
       /\ IF hostTurn[s] = None
          THEN UNCHANGED <<hostTurn, hostSeq, wire>>
          ELSE /\ MayEnd(s) /\ Emit(s, "failed")
               /\ hostTurn' = [hostTurn EXCEPT ![s] = None]
       /\ UNCHANGED <<selection, snapshot, prompting, requests, promises,
                      follow, admitted, admissions, hostQueue>>

StreamOpens ==
    /\ follow = "opening"
    /\ follow' = "open"
    /\ wire' = <<[kind |-> "snapshot", seq |-> hostSeq[current]]>>
    /\ UNCHANGED <<selection, snapshot, prompting, requests, promises,
                   cancel, host>>

LoseEvent ==
    /\ "lostEvent" \in Conditions
    /\ wire # <<>> /\ Frame.kind # "snapshot"
    /\ wire' = Tail(wire)
    /\ UNCHANGED <<selection, snapshot, prompting, requests, promises,
                   cancel, follow, host>>

-----------------------------------------------------------------------------
Reply(r) == ReplyOk(r) \/ \E thrown \in BOOLEAN : ReplyFails(r, thrown)
Deliver  == \/ ApplySnapshot \/ IgnoreEvent \/ ReportGap
            \/ ApplyTurnStart \/ ApplyTurnEnd
Submit   == \E r \in Prompts : Prompt(r) \/ PromptImage(r)
Client   == \/ Submit \/ Deliver \/ StreamEnds
            \/ \E r \in Prompts : ImageRead(r) \/ Reply(r)
            \/ \E s \in Sessions : SelectStart(s)
            \/ SelectCommit \/ SelectFails \/ Dispose
            \/ \E c \in Cancels : CancelStart(c) \/ CancelReturns(c)
Host     == \/ \E r \in Prompts : HostAdmits(r)
            \/ \E s \in Sessions : \/ TurnStarts(s) \/ ForeignTurnStarts(s)
                                   \/ TurnEnds(s, "completed")
                                   \/ TurnEnds(s, "failed")
            \/ \E c \in Cancels : HostCancels(c)
            \/ StreamOpens \/ LoseEvent

Next == Client \/ Host
Spec == Init /\ [][Next]_vars

(***************************************************************************)
(* Fairness.  The event loop delivers what has arrived and the Host keeps  *)
(* working; nobody is obliged to submit, select, cancel or fail.           *)
(***************************************************************************)
FairSpec ==
    /\ Spec
    /\ WF_vars(Deliver) /\ WF_vars(StreamOpens) /\ WF_vars(SelectCommit)
    /\ \A r \in Prompts : /\ WF_vars(HostAdmits(r)) /\ WF_vars(Reply(r))
                          /\ WF_vars(ImageRead(r))
    /\ \A s \in Sessions : /\ WF_vars(TurnStarts(s))
                           /\ WF_vars(TurnEnds(s, "completed"))
    /\ \A c \in Cancels : WF_vars(HostCancels(c)) /\ WF_vars(CancelReturns(c))

-----------------------------------------------------------------------------
Phases     == {"new", "reading", "queued", "direct", "drain", "done",
               "failed", "dropped"}
FrameKinds == {"snapshot", "start", "completed", "failed"}
Frames     == [kind : FrameKinds, seq : Nat]
Calls      == [pc : {"idle", "waiting", "sent", "answered", "settled", "done"},
               prompt : Prompts \cup {None},
               session : Sessions \cup {NoSession},
               controller : Prompts \cup {None}]

(* Every variable has its type; a live stream is that of a Session.        *)
TypeOK ==
    /\ current \in Sessions \cup {NoSession} /\ activeHost \in BOOLEAN
    /\ selecting \in Sessions \cup {NoSession} /\ selects \in 0..MaxSelects
    /\ running \in BOOLEAN /\ live \in BOOLEAN /\ error \in BOOLEAN
    /\ lastSeq \in Nat
    /\ shown \subseteq Prompts
    /\ activePrompt \in Prompts \cup {None}
    /\ promptController \in Prompts \cup {None}
    /\ queuedPrompts \in Seq(Prompts) /\ drainingPrompts \in BOOLEAN
    /\ nextId \in 1..(MaxPrompts + 1)
    /\ phase \in [Prompts -> Phases]
    /\ target \in [Prompts -> Sessions \cup {NoSession}]
    /\ runningAtCall \in [Prompts -> BOOLEAN]
    /\ accepted \subseteq Prompts /\ aborted \subseteq Prompts
    /\ lifecycle \in [Prompts -> {"pending", "started", "ended"}]
    /\ cancel \in [Cancels -> Calls]
    /\ follow \in {"closed", "opening", "open"}
    /\ follow # "closed" => current \in Sessions
    /\ wire \in Seq(Frames)
    /\ admitted \subseteq Prompts /\ admissions \in Seq(Prompts)
    /\ hostTurn \in [Sessions -> Prompts \cup {None, Foreign}]
    /\ hostQueue \in [Sessions -> Seq(Prompts)]
    /\ hostSeq \in [Sessions -> Nat]

(* queuedPrompts holds a prompt at most once, and never one that has been  *)
(* handed to the Host: shift, requeue and the drop at a selection never    *)
(* duplicate an item of the queue.                                         *)
QueueHoldsEachPromptOnce ==
    /\ IsInjective(queuedPrompts)
    /\ \A r \in Prompts : r \in Range(queuedPrompts) <=> phase[r] = "queued"

(* A prompt that was not handed to queueOrSendPrompt yet is untouched: it  *)
(* is in no queue and its promise is pending.                              *)
UnsentIsFresh ==
    \A r \in Prompts :
        /\ r >= nextId => phase[r] = "new"
        /\ phase[r] \in {"new", "reading"} => lifecycle[r] = "pending"

(* What the user sees as pending is what is pending: while a Host is       *)
(* active, the local items of the snapshot's queue are those of            *)
(* queuedPrompts, through drains, failed drains and selections.            *)
ShownIsQueued == activeHost => shown = Range(queuedPrompts)

(* The active prompt blocks every later submission, so it is never one     *)
(* whose turn is known to be over or that went back to the queue.          *)
ActivePromptIsAlive ==
    activePrompt # None =>
        /\ lifecycle[activePrompt] # "ended"
        /\ phase[activePrompt] \in {"direct", "drain", "done"}

(* promptController belongs to a request in flight, so an abort by         *)
(* cancel(), select() or dispose() never hits a request already answered.  *)
ControllerIsInFlight ==
    promptController # None => InFlight(promptController)

(* drainingPrompts is the lock of drainPromptQueue: it is set exactly      *)
(* while one drained request is in flight.                                 *)
DrainLock ==
    /\ drainingPrompts <=> \E r \in Prompts : phase[r] = "drain"
    /\ \A q, r \in Prompts : phase[q] = "drain" /\ phase[r] = "drain" => q = r

(* FIFO (session.spec.ts:180): the Host takes the prompts of a Session in  *)
(* the order of submission; a prompt overtaken by a later one is not       *)
(* still waiting or on its way.                                            *)
TurnsFollowSubmission ==
    /\ \A i, j \in DOMAIN admissions :
          i < j /\ target[admissions[i]] = target[admissions[j]]
             => admissions[i] <= admissions[j]
    /\ \A q \in Range(admissions) : \A r \in 1..(q - 1) :
          (phase[r] = "queued" \/ InFlight(r)) /\ target[r] = target[q]
             => r \in Range(admissions)

(* A prompt is taken by the Host at most once.                             *)
TakenAtMostOnce == IsInjective(admissions)

OnHost(r, s) == hostTurn[s] = r \/ r \in Range(hostQueue[s])

(* cancel() reports success without asking the Host only when the prompt   *)
(* it waited for is not, and will not be, running there.                   *)
SettledCancelMeansNotRunning ==
    [][\A c \in Cancels :
          cancel[c].pc = "waiting" /\ cancel'[c].pc = "settled"
             => ~OnHost(cancel[c].prompt, cancel[c].session)]_vars

(* Once the view has caught up with the Host it does not show a turn       *)
(* running that is over: 'running' makes queueOrSendPrompt queue, so a     *)
(* stale one would hold back every later prompt.                           *)
RunningIsTrue ==
    (/\ follow = "open" /\ wire = <<>> /\ live
     /\ lastSeq = hostSeq[current] /\ running)
    => hostTurn[current] # None

(* No failure was ever reported: no error is shown, no call threw.         *)
NoFailureReported == ~error /\ \A r \in Prompts : phase[r] # "failed"

(* The client has the Host's last event: none is missing on the stream.    *)
InStep == current \in Sessions => lastSeq = hostSeq[current]

(* No prompt waits for ever in silence: if no failure is ever reported to  *)
(* the user, and no event of the Host stays lost for good, every queued    *)
(* prompt leaves the queue (drainPromptQueue).                             *)
QueuedPromptIsSent ==
    []NoFailureReported /\ []<>InStep
        => \A r \in Prompts : phase[r] = "queued" ~> phase[r] # "queued"

(* Every cancel() returns, if the client always comes to hear what the     *)
(* Host did last: a cancel that waits for the end of a turn misses it when *)
(* the live stream has ended or lost that event.                           *)
CancelReturnsEventually ==
    []<>InStep
        => \A c \in Cancels :
               cancel[c].pc # "idle" ~> cancel[c].pc \in {"settled", "done"}
=============================================================================
