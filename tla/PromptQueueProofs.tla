-------------------------- MODULE PromptQueueProofs --------------------------
(***************************************************************************)
(* Theorems about PromptQueue, for every number of Sessions, prompts and   *)
(* cancel() calls and under every set of conditions.                       *)
(***************************************************************************)
EXTENDS PromptQueue, QueueLemmas

-----------------------------------------------------------------------------
(* Type correctness.                                                       *)

LifeStates == {"pending", "started", "ended"}

(* Settling a promise keeps the table of promises well typed.              *)
LEMMA SettleType ==
    ASSUME TypeOK, NEW r, NEW value \in LifeStates
    PROVE  Settle(r, value) \in [Prompts -> LifeStates]
BY DEF TypeOK, Settle, LifeStates

(* The continuation of a promise leaves well-typed calls of cancel().      *)
LEMMA ResumedType ==
    ASSUME TypeOK, NEW taken, NEW life \in [Prompts -> LifeStates]
    PROVE  Resumed(taken, life) \in [Cancels -> Calls]
<1> SUFFICES ASSUME NEW c \in Cancels
             PROVE  [cancel[c] EXCEPT !.pc = AfterWait(life[cancel[c].prompt])]
                       \in Calls
  BY DEF Resumed, TypeOK
<1>1. cancel[c] \in Calls
  BY DEF TypeOK
<1>2. AfterWait(life[cancel[c].prompt]) \in {"settled", "sent"}
  BY DEF AfterWait
<1> QED BY <1>1, <1>2 DEF Calls

(* Detaching a replaced controller keeps the calls of cancel() well typed. *)
LEMMA ForgetType ==
    ASSUME NEW calls \in [Cancels -> Calls], NEW r
    PROVE  Forget(calls, r) \in [Cancels -> Calls]
BY DEF Forget, Calls

\* The types of what queueOrSendPrompt writes, and of the rest.
WrittenTypes ==
    /\ shown \subseteq Prompts
    /\ activePrompt \in Prompts \cup {None}
    /\ promptController \in Prompts \cup {None}
    /\ queuedPrompts \in Seq(Prompts) /\ drainingPrompts \in BOOLEAN
    /\ phase \in [Prompts -> Phases]
    /\ accepted \subseteq Prompts /\ aborted \subseteq Prompts
    /\ lifecycle \in [Prompts -> LifeStates]
    /\ cancel \in [Cancels -> Calls]
    /\ admitted \subseteq Prompts

OtherTypes ==
    /\ current \in Sessions \cup {NoSession} /\ activeHost \in BOOLEAN
    /\ selecting \in Sessions \cup {NoSession} /\ selects \in 0..MaxSelects
    /\ running \in BOOLEAN /\ live \in BOOLEAN /\ error \in BOOLEAN
    /\ lastSeq \in Nat
    /\ nextId \in 1..(MaxPrompts + 1)
    /\ target \in [Prompts -> Sessions \cup {NoSession}]
    /\ runningAtCall \in [Prompts -> BOOLEAN]
    /\ follow \in {"closed", "opening", "open"}
    /\ follow # "closed" => current \in Sessions
    /\ wire \in Seq(Frames)
    /\ admissions \in Seq(Prompts)
    /\ hostTurn \in [Sessions -> Prompts \cup {None, Foreign}]
    /\ hostQueue \in [Sessions -> Seq(Prompts)]
    /\ hostSeq \in [Sessions -> Nat]

(* TypeOK in two parts.                                                    *)
LEMMA TypeParts ==
    /\ TypeOK => WrittenTypes /\ OtherTypes
    /\ WrittenTypes' /\ OtherTypes' => TypeOK'
<1>1. TypeOK => WrittenTypes /\ OtherTypes
  BY ZenonT(90) DEF TypeOK, WrittenTypes, OtherTypes, LifeStates
<1>2. WrittenTypes' /\ OtherTypes' => TypeOK'
  BY ZenonT(90) DEF TypeOK, WrittenTypes, OtherTypes, LifeStates
<1> QED BY <1>1, <1>2

(* queueOrSendPrompt keeps the types of all it writes.                     *)
LEMMA QueueOrSendType ==
    ASSUME TypeOK, NEW r \in Prompts, NEW b \in BOOLEAN, QueueOrSendPrompt(r, b)
    PROVE  WrittenTypes'
<1> USE DEF WrittenTypes
<1>1. CASE Enqueue(r)
  BY <1>1, AppendQueue DEF Enqueue, TypeOK, promises, LifeStates, Phases
<1>2. CASE Send(r)
  <2>1. cancel' \in [Cancels -> Calls]
    BY <1>2, ForgetType DEF Send, TypeOK
  <2> QED BY <1>2, <2>1 DEF Send, TypeOK, promises, LifeStates, Phases
<1>3. CASE SendFails(r)
  BY <1>3 DEF SendFails, TypeOK, promises, LifeStates, Phases
<1> QED BY <1>1, <1>2, <1>3 DEF QueueOrSendPrompt

(* The service starts well typed: nothing selected, nothing queued.        *)
LEMMA InitType == Init => TypeOK
<1> SUFFICES ASSUME Init PROVE TypeOK
  OBVIOUS
<1>1. NoCancel \in Calls
  BY DEF NoCancel, Calls
<1>2. 1 \in 1..(MaxPrompts + 1) /\ 0 \in 0..MaxSelects
  BY PromptAssumption
<1>3. <<>> \in Seq(Prompts) /\ <<>> \in Seq(Frames)
  BY EmptySeq
<1>4. cancel \in [Cancels -> Calls]
  BY <1>1 DEF Init
<1>5. phase \in [Prompts -> Phases] /\ hostQueue \in [Sessions -> Seq(Prompts)]
  BY <1>3 DEF Init, Phases
<1> QED BY <1>2, <1>3, <1>4, <1>5 DEF Init, TypeOK

(* What Receives leaves of the stream and keeps unchanged.                 *)
LEMMA ReceivesType ==
    ASSUME TypeOK, NEW kinds, Receives(kinds)
    PROVE  /\ Frame \in Frames /\ Frame.kind \in kinds
           /\ wire' \in Seq(Frames)
           /\ Frame.seq \in Nat
<1>1. wire \in Seq(Frames) /\ wire # <<>>
  BY DEF TypeOK, Receives
<1>2. Head(wire) \in Frames /\ Tail(wire) \in Seq(Frames)
  BY <1>1, HeadTailProperties
<1>3. wire' = Tail(wire) \/ wire' = wire
  BY DEF Receives
<1> QED BY <1>1, <1>2, <1>3 DEF Receives, Frame, Frames

(* An event of the Host is a well-typed frame of the stream.               *)
LEMMA EmitType ==
    ASSUME TypeOK, NEW s \in Sessions, NEW kind \in FrameKinds, Emit(s, kind)
    PROVE  wire' \in Seq(Frames) /\ hostSeq' \in [Sessions -> Nat]
<1>1. hostSeq[s] + 1 \in Nat
  BY DEF TypeOK
<1>2. [kind |-> kind, seq |-> hostSeq[s] + 1] \in Frames
  BY <1>1 DEF Frames
<1>3. Append(wire, [kind |-> kind, seq |-> hostSeq[s] + 1]) \in Seq(Frames)
  BY <1>2, AppendProperties DEF TypeOK
<1> QED BY <1>1, <1>3 DEF Emit, TypeOK

(* prompt(), promptImage() and the end of its file read keep the types.    *)
LEMMA SubmitType ==
    ASSUME TypeOK, NEW r \in Prompts, Prompt(r) \/ PromptImage(r) \/ ImageRead(r)
    PROVE  TypeOK'
<1> USE DEF selection, snapshot, requests, stream, host, LifeStates
<1>0. OtherTypes /\ WrittenTypes
  BY TypeParts
<1>1. CASE Prompt(r)
  <2>1. r + 1 \in 1..(MaxPrompts + 1) /\ running \in BOOLEAN
    BY PromptAssumption DEF Prompts, TypeOK
  <2>2. QueueOrSendPrompt(r, running)
    BY <1>1 DEF Prompt
  <2>3. WrittenTypes'
    BY <2>1, <2>2, QueueOrSendType
  <2>4. OtherTypes'
    <3>1. nextId' = r + 1 /\ target' = [target EXCEPT ![r] = current]
      BY <1>1 DEF Prompt
    <3>2. target' \in [Prompts -> Sessions \cup {NoSession}]
      BY <1>0, <3>1 DEF OtherTypes
    <3>3. /\ UNCHANGED <<current, activeHost, selecting, selects, running, live, error, lastSeq>>
          /\ UNCHANGED <<runningAtCall, follow, wire, admissions, hostTurn, hostQueue, hostSeq>>
      BY <1>1 DEF Prompt
    <3> QED BY <1>0, <2>1, <3>1, <3>2, <3>3 DEF OtherTypes
  <2> QED BY <2>3, <2>4, TypeParts
<1>2. CASE PromptImage(r)
  <2>1. r + 1 \in 1..(MaxPrompts + 1)
    BY PromptAssumption DEF Prompts
  <2>2. WrittenTypes'
    <3>1. phase' = [phase EXCEPT ![r] = "reading"]
      BY <1>2 DEF PromptImage
    <3>2. phase' \in [Prompts -> Phases]
      BY <1>0, <3>1 DEF WrittenTypes, Phases
    <3>3. UNCHANGED <<activePrompt, promptController, queuedPrompts, drainingPrompts, shown,
                      accepted, lifecycle, aborted, cancel, admitted>>
      BY <1>2 DEF PromptImage, promises
    <3> QED BY <1>0, <3>2, <3>3 DEF WrittenTypes
  <2>3. OtherTypes'
    <3>1. /\ nextId' = r + 1 /\ target' = [target EXCEPT ![r] = current]
          /\ runningAtCall' = [runningAtCall EXCEPT ![r] = running]
      BY <1>2 DEF PromptImage
    <3>2. /\ target' \in [Prompts -> Sessions \cup {NoSession}]
          /\ runningAtCall' \in [Prompts -> BOOLEAN]
      BY <1>0, <3>1 DEF OtherTypes
    <3>3. /\ UNCHANGED <<current, activeHost, selecting, selects, running, live, error, lastSeq>>
          /\ UNCHANGED <<follow, wire, admissions, hostTurn, hostQueue, hostSeq>>
      BY <1>2 DEF PromptImage
    <3> QED BY <1>0, <2>1, <3>1, <3>2, <3>3 DEF OtherTypes
  <2> QED BY <2>2, <2>3, TypeParts
<1>3. CASE ImageRead(r)
  <2>1. runningAtCall[r] \in BOOLEAN
    BY <1>0 DEF OtherTypes
  <2>2. WrittenTypes'
    BY <1>3, <2>1, QueueOrSendType DEF ImageRead
  <2>3. OtherTypes'
    <3>1. /\ UNCHANGED <<current, activeHost, selecting, selects, running, live, error, lastSeq>>
          /\ UNCHANGED <<nextId, target, runningAtCall, follow, wire, admissions, hostTurn, hostQueue, hostSeq>>
      BY <1>3 DEF ImageRead
    <3> QED BY <1>0, <3>1 DEF OtherTypes
  <2> QED BY <2>2, <2>3, TypeParts
<1> QED BY <1>1, <1>2, <1>3

(* Both outcomes of the prompt RPC keep the types.                         *)
LEMMA ReplyType ==
    ASSUME TypeOK, NEW r \in Prompts, Reply(r)
    PROVE  TypeOK'
<1> USE DEF selection, snapshot, requests, stream, host
<1>0. WrittenTypes /\ OtherTypes
  BY TypeParts
<1>1. /\ ReleaseController(r) \in Prompts \cup {None}
      /\ ClearActivePrompt(r) \in Prompts \cup {None}
      /\ Unlock(r) \in BOOLEAN
  BY DEF TypeOK, ReleaseController, ClearActivePrompt, Unlock
<1>2. lifecycle \in [Prompts -> LifeStates] /\ "ended" \in LifeStates
  BY DEF TypeOK, LifeStates
<1>3. CASE ReplyOk(r)
  <2>1. cancel' \in [Cancels -> Calls]
    BY <1>2, <1>3, ResumedType DEF ReplyOk
  <2>2. phase' \in [Prompts -> Phases] /\ accepted' \subseteq Prompts
    BY <1>3 DEF ReplyOk, TypeOK, Phases
  <2> QED BY <1>1, <1>3, <2>1, <2>2, ZenonT(90) DEF ReplyOk, TypeOK
<1>4. ASSUME NEW thrown \in BOOLEAN, ReplyFails(r, thrown)
      PROVE  TypeOK'
  <2>1. lifecycle' \in [Prompts -> LifeStates]
    BY <1>2, <1>4, SettleType DEF ReplyFails
  <2>2. cancel' \in [Cancels -> Calls]
    BY <1>4, <2>1, ResumedType DEF ReplyFails
  <2>3. /\ queuedPrompts' \in Seq(Prompts) /\ shown' \subseteq Prompts
        /\ phase' \in [Prompts -> Phases]
    <3>1. CASE phase[r] = "direct"
      BY <1>4, <3>1 DEF ReplyFails, TypeOK, Phases
    <3>2. CASE phase[r] = "drain"
      <4>1. Requeue(r)
        BY <1>4, <3>2 DEF ReplyFails
      <4>2. /\ <<r>> \o queuedPrompts \in Seq(Prompts)
            /\ Range(<<r>> \o queuedPrompts) \subseteq Prompts
        BY RequeueAtHead, RangeOfSeq DEF TypeOK
      <4> QED BY <4>1, <4>2 DEF Requeue, TypeOK, Phases
    <3> QED BY <1>4, <3>1, <3>2 DEF ReplyFails
  <2>4. accepted' \subseteq Prompts /\ error' \in BOOLEAN
    BY <1>4 DEF ReplyFails, TypeOK
  <2>5. WrittenTypes'
    <3>1. /\ activePrompt' = ClearActivePrompt(r)
          /\ promptController' = ReleaseController(r) /\ drainingPrompts' = Unlock(r)
          /\ UNCHANGED <<aborted, admitted>>
      BY <1>4 DEF ReplyFails
    <3> QED BY <1>0, <1>1, <2>1, <2>2, <2>3, <2>4, <3>1 DEF WrittenTypes
  <2>6. OtherTypes'
    <3>1. /\ UNCHANGED <<current, activeHost, selecting, selects, running, live, lastSeq>>
          /\ UNCHANGED <<nextId, target, runningAtCall, follow, wire, admissions>>
          /\ UNCHANGED <<hostTurn, hostQueue, hostSeq>>
      BY <1>4 DEF ReplyFails
    <3> QED BY <1>0, <2>4, <3>1 DEF OtherTypes
  <2> QED BY <2>5, <2>6, TypeParts
<1> QED BY <1>3, <1>4 DEF Reply

(* Every frame of the live stream, applied or not, keeps the types.        *)
LEMMA DeliverType ==
    ASSUME TypeOK, Deliver
    PROVE  TypeOK'
<1> USE DEF selection, snapshot, requests, host, stream, promises, prompting
<1>0. lifecycle \in [Prompts -> LifeStates]
      /\ "started" \in LifeStates /\ "ended" \in LifeStates
  BY DEF TypeOK, LifeStates
<1>1. CASE ApplySnapshot
  <2>1. /\ wire' \in Seq(Frames) /\ lastSeq' \in Nat /\ live' \in BOOLEAN
    BY <1>1, ReceivesType DEF ApplySnapshot, TypeOK
  <2>2. /\ UNCHANGED <<selection, requests, follow, admissions, hostTurn>>
        /\ UNCHANGED <<hostQueue, hostSeq, running, error, prompting, promises>>
        /\ UNCHANGED <<cancel, admitted>>
    BY <1>1 DEF ApplySnapshot, Receives
  <2> QED BY <2>1, <2>2, ZenonT(90) DEF TypeOK
<1>2. CASE IgnoreEvent
  <2>1. wire' \in Seq(Frames)
    BY <1>2, ReceivesType DEF IgnoreEvent
  <2>2. /\ UNCHANGED <<selection, requests, follow, admissions, hostTurn>>
        /\ UNCHANGED <<hostQueue, hostSeq, snapshot, prompting, promises>>
        /\ UNCHANGED <<cancel, admitted>>
    BY <1>2 DEF IgnoreEvent, Receives
  <2> QED BY <2>1, <2>2, ZenonT(90) DEF TypeOK
<1>3. CASE ReportGap
  <2>1. wire' \in Seq(Frames) /\ live' \in BOOLEAN /\ error' \in BOOLEAN
    BY <1>3, ReceivesType DEF ReportGap
  <2>2. /\ UNCHANGED <<selection, requests, follow, admissions, hostTurn>>
        /\ UNCHANGED <<hostQueue, hostSeq, running, lastSeq, prompting, promises>>
        /\ UNCHANGED <<cancel, admitted>>
    BY <1>3 DEF ReportGap, Receives
  <2> QED BY <2>1, <2>2, ZenonT(90) DEF TypeOK
<1>4. CASE ApplyTurnStart
  <2>1. lifecycle' \in [Prompts -> LifeStates]
    BY <1>0, <1>4, SettleType DEF ApplyTurnStart
  <2>2. cancel' \in [Cancels -> Calls]
    BY <1>4, <2>1, ResumedType DEF ApplyTurnStart
  <2>3. WrittenTypes'
    <3>1. /\ UNCHANGED <<activePrompt, promptController, queuedPrompts, drainingPrompts>>
          /\ UNCHANGED <<shown, phase, accepted, aborted, admitted>>
      BY <1>4 DEF ApplyTurnStart
    <3> QED BY <2>1, <2>2, <3>1, TypeParts DEF WrittenTypes
  <2>4. OtherTypes'
    <3>1. wire' \in Seq(Frames) /\ lastSeq' \in Nat /\ running' = TRUE
      BY <1>4, ReceivesType DEF ApplyTurnStart
    <3>2. /\ UNCHANGED <<current, activeHost, selecting, selects, live, error, nextId, target>>
          /\ UNCHANGED <<runningAtCall, follow, admissions, hostTurn, hostQueue, hostSeq>>
      BY <1>4 DEF ApplyTurnStart, Receives
    <3> QED BY <3>1, <3>2, TypeParts DEF OtherTypes
  <2> QED BY <2>3, <2>4, TypeParts
<1>5. CASE ApplyTurnEnd
  <2> DEFINE settled == Settle(activePrompt, "ended")
  <2>0. settled \in [Prompts -> LifeStates]
    BY <1>0, SettleType
  <2>1. /\ wire' \in Seq(Frames) /\ lastSeq' \in Nat
        /\ running' \in BOOLEAN /\ error' \in BOOLEAN
    BY <1>5, ReceivesType DEF ApplyTurnEnd, TypeOK
  <2>2. CASE Drains(Frame.kind) /\ Drain(Head(queuedPrompts))
    <3> DEFINE r == Head(queuedPrompts)
    <3>1. r \in Prompts /\ Tail(queuedPrompts) \in Seq(Prompts)
      BY <2>2, ShiftQueue DEF Drains, TypeOK
    <3>2. lifecycle' \in [Prompts -> LifeStates]
      BY <2>0, <2>2 DEF Drain, LifeStates
    <3>3. cancel' \in [Cancels -> Calls]
      <4>1. Resumed(accepted, settled) \in [Cancels -> Calls]
        BY <2>0, ResumedType
      <4> QED BY <2>2, <4>1, ForgetType DEF Drain
    <3>4. phase' \in [Prompts -> Phases]
      BY <2>2 DEF Drain, TypeOK, Phases
    <3>5. /\ shown' \subseteq Prompts /\ accepted' \subseteq Prompts
          /\ aborted' \subseteq Prompts /\ admitted' \subseteq Prompts
          /\ activePrompt' \in Prompts /\ promptController' \in Prompts
          /\ queuedPrompts' \in Seq(Prompts) /\ drainingPrompts' \in BOOLEAN
      BY <2>2, <3>1 DEF Drain, Shift, TypeOK
    <3> HIDE DEF r
    <3> QED BY <1>5, <2>1, <3>2, <3>3, <3>4, <3>5
            DEF ApplyTurnEnd, Receives, TypeOK, LifeStates
  <2>3. CASE ~Drains(Frame.kind)
    <3>1. cancel' \in [Cancels -> Calls]
      BY <1>5, <2>0, <2>3, ResumedType DEF ApplyTurnEnd
    <3> QED BY <1>5, <2>0, <2>1, <2>3, <3>1
            DEF ApplyTurnEnd, Receives, TypeOK, LifeStates
  <2> QED BY <1>5, <2>2, <2>3 DEF ApplyTurnEnd
<1> QED BY <1>1, <1>2, <1>3, <1>4, <1>5 DEF Deliver

(* What select() and dispose() drop leaves well-typed fields.              *)
LEMMA DropType ==
    ASSUME TypeOK, DropPrompts
    PROVE  /\ aborted' \subseteq Prompts
           /\ promptController' = None /\ activePrompt' = None
           /\ queuedPrompts' \in Seq(Prompts) /\ drainingPrompts' \in BOOLEAN
           /\ phase' \in [Prompts -> Phases]
<1>1. promptController \in Prompts \cup {None} /\ aborted \subseteq Prompts
  BY DEF TypeOK
<1>2. aborted' \subseteq Prompts
  BY <1>1 DEF DropPrompts
<1>3. phase' \in [Prompts -> Phases]
  <2>1. phase \in [Prompts -> Phases] /\ "dropped" \in Phases
    BY DEF TypeOK, Phases
  <2> QED BY <2>1 DEF DropPrompts
<1>4. queuedPrompts' \in Seq(Prompts) /\ drainingPrompts' \in BOOLEAN
  BY EmptySeq DEF DropPrompts
<1> QED BY <1>2, <1>3, <1>4 DEF DropPrompts

(* select(), in its three steps, dispose() and a lost stream keep the      *)
(* types.                                                                  *)
LEMMA SelectionType ==
    ASSUME TypeOK,
           \/ \E s \in Sessions : SelectStart(s)
           \/ SelectCommit \/ SelectFails \/ Dispose \/ StreamEnds
    PROVE  TypeOK'
<1> USE DEF selection, snapshot, requests, host, stream, promises, prompting
<1>1. ASSUME NEW s \in Sessions, SelectStart(s)
      PROVE  TypeOK'
  <2>1. selects + 1 \in 0..MaxSelects
    BY <1>1, PromptAssumption DEF SelectStart, TypeOK
  <2> QED BY <1>1, <2>1 DEF SelectStart, TypeOK
<1>2. CASE SelectCommit
  <2>1. selecting \in Sessions /\ hostSeq[selecting] \in Nat
    BY <1>2 DEF SelectCommit, TypeOK
  <2>2. <<>> \in Seq(Frames)
    OBVIOUS
  <2> QED BY <1>2, <2>1, <2>2, DropType DEF SelectCommit, Prepare, TypeOK
<1>3. CASE SelectFails
  BY <1>3 DEF SelectFails, TypeOK
<1>4. CASE Dispose
  <2>1. <<>> \in Seq(Frames)
    OBVIOUS
  <2> QED BY <1>4, <2>1, DropType DEF Dispose, TypeOK
<1>5. CASE StreamEnds
  <2>1. <<>> \in Seq(Frames)
    OBVIOUS
  <2> QED BY <1>5, <2>1 DEF StreamEnds, TypeOK
<1> QED BY <1>1, <1>2, <1>3, <1>4, <1>5

(* The steps of cancel() keep the types.                                   *)
LEMMA CancelType ==
    ASSUME TypeOK, NEW c \in Cancels,
           CancelStart(c) \/ CancelReturns(c) \/ HostCancels(c)
    PROVE  TypeOK'
<1> USE DEF selection, snapshot, requests, host, stream, promises, prompting
<1>0. cancel[c] \in Calls
  BY DEF TypeOK
<1>1. CASE CancelStart(c)
  <2>1. PICK pc \in {"sent", "settled", "waiting"} :
           cancel' = [cancel EXCEPT ![c] =
                        [pc |-> pc, prompt |-> activePrompt,
                         session |-> current, controller |-> promptController]]
    BY <1>1 DEF CancelStart, AfterWait
  <2>2. [pc |-> pc, prompt |-> activePrompt, session |-> current,
         controller |-> promptController] \in Calls
    BY DEF Calls, TypeOK
  <2>3. cancel' \in [Cancels -> Calls]
    BY <2>1, <2>2 DEF TypeOK
  <2> QED BY <1>1, <2>3 DEF CancelStart, TypeOK
<1>2. CASE CancelReturns(c)
  <2>1. [cancel[c] EXCEPT !.pc = "done"] \in Calls
    BY <1>0 DEF Calls
  <2>2. cancel' \in [Cancels -> Calls]
    BY <1>2, <2>1 DEF CancelReturns, TypeOK
  <2>3. aborted' \subseteq Prompts
    BY <1>2 DEF CancelReturns, TypeOK
  <2> QED BY <1>2, <2>2, <2>3 DEF CancelReturns, TypeOK
<1>3. CASE HostCancels(c)
  <2>1. [cancel[c] EXCEPT !.pc = "answered"] \in Calls
    BY <1>0 DEF Calls
  <2>2. cancel' \in [Cancels -> Calls]
    BY <1>3, <2>1 DEF HostCancels, TypeOK
  <2>3. /\ wire' \in Seq(Frames) /\ hostSeq' \in [Sessions -> Nat]
        /\ hostTurn' \in [Sessions -> Prompts \cup {None, Foreign}]
    <3> DEFINE s == cancel[c].session
    <3>1. CASE hostTurn[s] = None
      BY <1>3, <3>1 DEF HostCancels, TypeOK
    <3>2. CASE hostTurn[s] # None /\ s \in Sessions
      <4>1. Emit(s, "failed") /\ hostTurn' = [hostTurn EXCEPT ![s] = None]
        BY <1>3, <3>2 DEF HostCancels
      <4> QED BY <3>2, <4>1, EmitType DEF TypeOK, FrameKinds
    <3>3. CASE hostTurn[s] # None /\ s \notin Sessions
      <4>1. /\ hostTurn' = [hostTurn EXCEPT ![s] = None]
            /\ hostSeq' = [hostSeq EXCEPT ![s] = @ + 1]
            /\ wire' = wire
        BY <1>3, <3>3 DEF HostCancels, Emit, TypeOK
      <4> QED BY <3>3, <4>1 DEF TypeOK
    <3> QED BY <3>1, <3>2, <3>3
  <2>4. UNCHANGED <<selection, snapshot, prompting, requests, promises,
                    follow, admitted, admissions, hostQueue>>
    BY <1>3 DEF HostCancels
  <2>5. /\ UNCHANGED <<current, activeHost, selecting, selects, running, live,
                       error, lastSeq, shown, activePrompt, promptController>>
        /\ UNCHANGED <<queuedPrompts, drainingPrompts, nextId, phase, target,
                       runningAtCall, accepted, aborted, lifecycle, follow,
                       admitted, admissions, hostQueue>>
    BY <2>4
  <2> QED BY <2>2, <2>3, <2>5 DEF TypeOK
<1> QED BY <1>1, <1>2, <1>3

(* The steps of the Host keep the types.                                   *)
LEMMA HostType ==
    ASSUME TypeOK, Host
    PROVE  TypeOK'
<1> USE DEF selection, snapshot, requests, host, stream, promises, prompting
<1> DEFINE Quiet ==
             /\ UNCHANGED <<current, activeHost, selecting, selects>>
             /\ UNCHANGED <<running, live, error, lastSeq>>
             /\ UNCHANGED <<activePrompt, promptController, queuedPrompts>>
             /\ UNCHANGED <<drainingPrompts, shown, phase>>
             /\ UNCHANGED <<nextId, target, runningAtCall>>
             /\ UNCHANGED <<accepted, aborted, lifecycle, cancel>>
             /\ UNCHANGED <<follow, admitted, admissions>>
<1>1. ASSUME NEW r \in Prompts, HostAdmits(r)
      PROVE  TypeOK'
  <2>1. Append(admissions, r) \in Seq(Prompts)
    BY AppendProperties DEF TypeOK
  <2>2. hostQueue' \in [Sessions -> Seq(Prompts)]
    BY <1>1, AppendProperties DEF HostAdmits, TypeOK
  <2> QED BY <1>1, <2>1, <2>2, SMTT(60) DEF HostAdmits, TypeOK
<1>2. ASSUME NEW s \in Sessions, TurnStarts(s)
      PROVE  TypeOK'
  <2>1. Head(hostQueue[s]) \in Prompts /\ Tail(hostQueue[s]) \in Seq(Prompts)
    BY <1>2, HeadTailProperties DEF TurnStarts, TypeOK
  <2>2. wire' \in Seq(Frames) /\ hostSeq' \in [Sessions -> Nat]
    BY <1>2, EmitType DEF TurnStarts, FrameKinds
  <2>3. /\ hostTurn' \in [Sessions -> Prompts \cup {None, Foreign}]
        /\ hostQueue' \in [Sessions -> Seq(Prompts)]
    BY <1>2, <2>1 DEF TurnStarts, TypeOK
  <2>4. Quiet
    BY <1>2 DEF TurnStarts
  <2> QED BY <2>2, <2>3, <2>4, ZenonT(90) DEF TypeOK
<1>3. ASSUME NEW s \in Sessions, ForeignTurnStarts(s)
      PROVE  TypeOK'
  <2>1. wire' \in Seq(Frames) /\ hostSeq' \in [Sessions -> Nat]
    BY <1>3, EmitType DEF ForeignTurnStarts, FrameKinds
  <2>2. hostTurn' \in [Sessions -> Prompts \cup {None, Foreign}]
    BY <1>3 DEF ForeignTurnStarts, TypeOK
  <2>3. Quiet /\ hostQueue' = hostQueue
    BY <1>3 DEF ForeignTurnStarts
  <2> QED BY <2>1, <2>2, <2>3, ZenonT(90) DEF TypeOK
<1>4. ASSUME NEW s \in Sessions, NEW kind \in {"completed", "failed"},
             TurnEnds(s, kind)
      PROVE  TypeOK'
  <2>1. wire' \in Seq(Frames) /\ hostSeq' \in [Sessions -> Nat]
    BY <1>4, EmitType DEF TurnEnds, FrameKinds
  <2>2. hostTurn' \in [Sessions -> Prompts \cup {None, Foreign}]
    BY <1>4 DEF TurnEnds, TypeOK
  <2>3. Quiet /\ hostQueue' = hostQueue
    BY <1>4 DEF TurnEnds
  <2> QED BY <2>1, <2>2, <2>3, ZenonT(90) DEF TypeOK
<1>5. CASE StreamOpens
  <2>1. hostSeq[current] \in Nat
    BY <1>5 DEF StreamOpens, TypeOK
  <2>2. [kind |-> "snapshot", seq |-> hostSeq[current]] \in Frames
    BY <2>1 DEF Frames, FrameKinds
  <2> QED BY <1>5, <2>2 DEF StreamOpens, TypeOK
<1>6. CASE LoseEvent
  <2>1. Tail(wire) \in Seq(Frames)
    BY <1>6, HeadTailProperties DEF LoseEvent, TypeOK
  <2> QED BY <1>6, <2>1 DEF LoseEvent, TypeOK
<1> QED BY <1>1, <1>2, <1>3, <1>4, <1>5, <1>6, CancelType DEF Host

(* Every variable keeps its type, whatever the Host, the network and the   *)
(* user do (PromptQueue!TypeOK; the fields of TuiSessionService).          *)
THEOREM TypeCorrect == Spec => []TypeOK
<1>1. TypeOK /\ [Next]_vars => TypeOK'
  <2> SUFFICES ASSUME TypeOK, [Next]_vars PROVE TypeOK'
    OBVIOUS
  <2>1. CASE Client
    BY <2>1, SubmitType, DeliverType, ReplyType, SelectionType, CancelType
    DEF Client, Submit
  <2>2. CASE Host
    BY <2>2, HostType
  <2>3. CASE UNCHANGED vars
    BY <2>3 DEF TypeOK, vars, selection, snapshot, requests, host, stream,
                promises, prompting
  <2> QED BY <2>1, <2>2, <2>3 DEF Next
<1> QED BY <1>1, InitType, PTL DEF Spec

-----------------------------------------------------------------------------
(***************************************************************************)
(* The queue, what is shown of it, the active prompt and the controller.   *)
(* None of the four is inductive alone: a prompt can only be queued, sent  *)
(* or requeued safely because its phase says where it is, and a prompt     *)
(* that was never sent has an unsettled promise.                           *)
(***************************************************************************)
Inv == /\ TypeOK
       /\ UnsentIsFresh
       /\ QueueHoldsEachPromptOnce
       /\ ShownIsQueued
       /\ ActivePromptIsAlive
       /\ ControllerIsInFlight

InvParts == UnsentIsFresh /\ QueueHoldsEachPromptOnce /\ ShownIsQueued
            /\ ActivePromptIsAlive /\ ControllerIsInFlight

(* Actions that leave these variables alone preserve the invariant.        *)
LEMMA InvUntouched ==
    ASSUME Inv, UNCHANGED <<prompting, requests, lifecycle, activeHost>>
    PROVE  InvParts'
BY DEF Inv, InvParts, UnsentIsFresh, QueueHoldsEachPromptOnce, ShownIsQueued,
       ActivePromptIsAlive, ControllerIsInFlight, prompting, requests, InFlight

(* A prompt that is queued or sent was new or being read.                  *)
LEMMA QueueOrSendInv ==
    ASSUME Inv, NEW r \in Prompts, NEW b \in BOOLEAN, QueueOrSendPrompt(r, b),
           phase[r] \in {"new", "reading"}, activeHost' = activeHost,
           nextId' >= nextId, nextId' \in Nat, nextId' > r
    PROVE  InvParts'
<1> DEFINE keep == \A q \in Prompts : q # r => phase'[q] = phase[q]
<1>0. /\ r \notin Range(queuedPrompts) /\ activePrompt # r
      /\ promptController # r /\ lifecycle[r] = "pending"
  BY DEF Inv, UnsentIsFresh, QueueHoldsEachPromptOnce, ActivePromptIsAlive,
         ControllerIsInFlight, InFlight, Prompts, None
<1>1. CASE Enqueue(r)
  <2>1. /\ Range(queuedPrompts') = Range(queuedPrompts) \cup {r}
        /\ IsInjective(queuedPrompts')
    BY <1>0, <1>1, AppendQueue DEF Enqueue, Inv, TypeOK, QueueHoldsEachPromptOnce
  <2>2. keep /\ phase'[r] = "queued" /\ lifecycle' = lifecycle
    BY <1>1 DEF Enqueue, Inv, TypeOK, promises
  <2>3. UnsentIsFresh'
    BY <2>2 DEF UnsentIsFresh, Inv, TypeOK, Prompts
  <2>4. QueueHoldsEachPromptOnce'
    BY <2>1, <2>2 DEF QueueHoldsEachPromptOnce, Inv
  <2>5. ShownIsQueued'
    BY <1>1, <2>1 DEF ShownIsQueued, Inv, Enqueue
  <2>6. ActivePromptIsAlive' /\ ControllerIsInFlight'
    BY <1>0, <1>1, <2>2
    DEF ActivePromptIsAlive, ControllerIsInFlight, Inv, Enqueue, InFlight, TypeOK
  <2> QED BY <2>3, <2>4, <2>5, <2>6 DEF InvParts
<1>2. CASE Send(r)
  <2>2. keep /\ phase'[r] = "direct" /\ lifecycle' = lifecycle
    BY <1>2 DEF Send, Inv, TypeOK, promises
  <2>3. UnsentIsFresh'
    BY <2>2 DEF UnsentIsFresh, Inv, TypeOK, Prompts
  <2>4. QueueHoldsEachPromptOnce' /\ ShownIsQueued'
    BY <1>0, <1>2, <2>2 DEF QueueHoldsEachPromptOnce, ShownIsQueued, Inv, Send
  <2>5. ActivePromptIsAlive' /\ ControllerIsInFlight'
    BY <1>0, <1>2, <2>2
    DEF ActivePromptIsAlive, ControllerIsInFlight, Inv, Send, InFlight
  <2> QED BY <2>3, <2>4, <2>5 DEF InvParts
<1>3. CASE SendFails(r)
  <2>2. keep /\ phase'[r] = "failed" /\ lifecycle' = lifecycle
    BY <1>3 DEF SendFails, Inv, TypeOK, promises
  <2>3. UnsentIsFresh'
    BY <2>2 DEF UnsentIsFresh, Inv, TypeOK, Prompts
  <2>4. QueueHoldsEachPromptOnce' /\ ShownIsQueued'
    BY <1>0, <1>3, <2>2 DEF QueueHoldsEachPromptOnce, ShownIsQueued, Inv, SendFails
  <2>5. ActivePromptIsAlive' /\ ControllerIsInFlight'
    BY <1>3 DEF ActivePromptIsAlive, ControllerIsInFlight, SendFails
  <2> QED BY <2>3, <2>4, <2>5 DEF InvParts
<1> QED BY <1>1, <1>2, <1>3 DEF QueueOrSendPrompt

(* A submission queues or sends a prompt nobody holds yet.                 *)
LEMMA SubmitInv ==
    ASSUME Inv, NEW r \in Prompts, Prompt(r) \/ PromptImage(r) \/ ImageRead(r)
    PROVE  InvParts'
<1> USE DEF selection
<1>0. r \in Nat /\ nextId \in Nat /\ MaxPrompts \in Nat
  BY PromptAssumption DEF Inv, TypeOK, Prompts
<1>1. CASE Prompt(r)
  <2>1. phase[r] = "new" /\ nextId' > r /\ nextId' >= nextId /\ nextId' \in Nat
    BY <1>0, <1>1 DEF Prompt, Inv, UnsentIsFresh
  <2>2. running \in BOOLEAN
    BY DEF Inv, TypeOK
  <2> QED BY <1>1, <2>1, <2>2, QueueOrSendInv DEF Prompt
<1>2. CASE PromptImage(r)
  <2>1. phase[r] = "new" /\ nextId' = r + 1 /\ r = nextId
    BY <1>0, <1>2 DEF PromptImage, Inv, UnsentIsFresh
  <2>2. \A q \in Prompts : phase'[q] = IF q = r THEN "reading" ELSE phase[q]
    BY <1>2 DEF PromptImage, Inv, TypeOK
  <2>3. UnsentIsFresh'
    BY <1>0, <1>2, <2>1, <2>2
    DEF PromptImage, promises, UnsentIsFresh, Inv, Prompts
  <2>4. /\ QueueHoldsEachPromptOnce' /\ ShownIsQueued'
        /\ ActivePromptIsAlive' /\ ControllerIsInFlight'
    BY <1>2, <2>1, <2>2
    DEF PromptImage, promises, Inv, QueueHoldsEachPromptOnce, ShownIsQueued,
        ActivePromptIsAlive, ControllerIsInFlight, InFlight, TypeOK
  <2> QED BY <2>3, <2>4 DEF InvParts
<1>3. CASE ImageRead(r)
  <2>1. phase[r] = "reading" /\ runningAtCall[r] \in BOOLEAN
    BY <1>3 DEF ImageRead, Inv, TypeOK
  <2>2. nextId > r
    BY <1>0, <2>1 DEF Inv, UnsentIsFresh
  <2>3. nextId' = nextId
    BY <1>3 DEF ImageRead, requests
  <2> QED BY <1>0, <1>3, <2>1, <2>2, <2>3, QueueOrSendInv DEF ImageRead
<1> QED BY <1>1, <1>2, <1>3

(* A reply ends the flight of a request, and requeues a failed drain.      *)
LEMMA ReplyInv ==
    ASSUME Inv, NEW r \in Prompts, Reply(r)
    PROVE  InvParts'
<1> USE DEF selection, requests
<1>0. /\ InFlight(r) /\ r # None /\ r \notin Range(queuedPrompts)
      /\ UNCHANGED <<activeHost, nextId>>
      /\ promptController' = ReleaseController(r)
  BY DEF Reply, ReplyOk, ReplyFails, Inv, QueueHoldsEachPromptOnce, InFlight,
         Prompts, None
<1>1. CASE ReplyOk(r)
  <2>1. /\ phase' = [phase EXCEPT ![r] = "done"] /\ phase \in [Prompts -> Phases]
        /\ UNCHANGED <<shown, activePrompt, queuedPrompts, lifecycle>>
    BY <1>1 DEF ReplyOk, Inv, TypeOK
  <2>2. UnsentIsFresh'
    BY <1>0, <2>1 DEF UnsentIsFresh, Inv, InFlight
  <2>3. QueueHoldsEachPromptOnce' /\ ShownIsQueued'
    BY <1>0, <2>1 DEF QueueHoldsEachPromptOnce, ShownIsQueued, Inv, InFlight
  <2>4. ActivePromptIsAlive'
    BY <2>1 DEF ActivePromptIsAlive, Inv, TypeOK
  <2>5. ControllerIsInFlight'
    BY <1>0, <2>1
    DEF ControllerIsInFlight, Inv, TypeOK, InFlight, ReleaseController
  <2> QED BY <2>2, <2>3, <2>4, <2>5 DEF InvParts
<1>2. ASSUME NEW thrown \in BOOLEAN, ReplyFails(r, thrown)
      PROVE  InvParts'
  <2>0. /\ lifecycle \in [Prompts -> LifeStates] /\ phase \in [Prompts -> Phases]
        /\ activePrompt' = ClearActivePrompt(r)
        /\ lifecycle' = Settle(r, "ended")
    BY <1>2 DEF ReplyFails, Inv, TypeOK, LifeStates
  <2>1. PICK p \in {"failed", "queued"} : phase' = [phase EXCEPT ![r] = p]
    BY <1>2 DEF ReplyFails, Requeue
  <2>2. \A q \in Prompts : q # r => phase'[q] = phase[q] /\ lifecycle'[q] = lifecycle[q]
    BY <2>0, <2>1 DEF Settle
  <2>3. phase'[r] = p
    BY <2>0, <2>1
  <2>4. UnsentIsFresh'
    BY <1>0, <2>2, <2>3 DEF UnsentIsFresh, Inv, InFlight
  <2>5. QueueHoldsEachPromptOnce' /\ ShownIsQueued'
    <3>1. CASE phase[r] = "direct"
      <4>1. phase'[r] = "failed" /\ UNCHANGED <<queuedPrompts, shown>>
        BY <1>2, <2>0, <3>1 DEF ReplyFails
      <4> QED BY <1>0, <2>2, <3>1, <4>1
              DEF QueueHoldsEachPromptOnce, ShownIsQueued, Inv
    <3>2. CASE phase[r] = "drain"
      <4>1. /\ queuedPrompts' = <<r>> \o queuedPrompts /\ phase'[r] = "queued"
            /\ shown' = shown \cup Range(queuedPrompts')
        BY <1>2, <2>0, <3>2 DEF ReplyFails, Requeue
      <4>2. /\ Range(queuedPrompts') = Range(queuedPrompts) \cup {r}
            /\ IsInjective(queuedPrompts')
        BY <1>0, <4>1, RequeueAtHead DEF Inv, TypeOK, QueueHoldsEachPromptOnce
      <4>3. QueueHoldsEachPromptOnce'
        BY <2>2, <4>1, <4>2 DEF QueueHoldsEachPromptOnce, Inv
      <4>4. ShownIsQueued'
        BY <1>0, <4>1, <4>2 DEF ShownIsQueued, Inv
      <4> QED BY <4>3, <4>4
    <3> QED BY <1>0, <3>1, <3>2 DEF InFlight
  <2>6. ActivePromptIsAlive'
    BY <2>0, <2>2 DEF ActivePromptIsAlive, ClearActivePrompt, Inv, TypeOK
  <2>7. ControllerIsInFlight'
    BY <1>0, <2>2 DEF ControllerIsInFlight, ReleaseController, Inv, TypeOK, InFlight
  <2> QED BY <2>4, <2>5, <2>6, <2>7 DEF InvParts
<1> QED BY <1>1, <1>2 DEF Reply

(* The end of a turn ends the active prompt and may drain the queue's head.*)
LEMMA TurnEndInv ==
    ASSUME Inv, ApplyTurnEnd
    PROVE  InvParts'
<1> DEFINE settled == Settle(activePrompt, "ended")
<1> USE DEF selection, requests
<1>0. /\ UNCHANGED <<activeHost, nextId>> /\ phase \in [Prompts -> Phases]
      /\ settled \in [Prompts -> LifeStates]
      /\ queuedPrompts \in Seq(Prompts)
  BY SettleType DEF ApplyTurnEnd, Receives, Inv, TypeOK, LifeStates
<1>1. \A q \in Prompts : q # activePrompt => settled[q] = lifecycle[q]
  BY DEF Settle, Inv, TypeOK
<1>2. activePrompt # None => phase[activePrompt] \notin {"new", "reading"}
  BY DEF Inv, ActivePromptIsAlive
<1>3. CASE Drains(Frame.kind) /\ Drain(Head(queuedPrompts))
  <2> DEFINE r == Head(queuedPrompts)
  <2>1. /\ r \in Prompts /\ r \in Range(queuedPrompts)
        /\ IsInjective(Tail(queuedPrompts))
        /\ Range(Tail(queuedPrompts)) = Range(queuedPrompts) \ {r}
    BY <1>0, <1>3, ShiftQueue DEF Drains, Inv, QueueHoldsEachPromptOnce
  <2> HIDE DEF r
  <2>2. /\ queuedPrompts' = Tail(queuedPrompts) /\ shown' = shown \ {r}
        /\ activePrompt' = r /\ promptController' = r
        /\ phase' = [phase EXCEPT ![r] = "drain"]
        /\ lifecycle' = [settled EXCEPT ![r] = "pending"]
    BY <1>3 DEF Drain, Shift, r
  <2>3. /\ phase[r] = "queued" /\ phase'[r] = "drain" /\ lifecycle'[r] = "pending"
        /\ \A q \in Prompts : q # r => /\ phase'[q] = phase[q]
                                      /\ lifecycle'[q] = settled[q]
    BY <1>0, <2>1, <2>2 DEF Inv, QueueHoldsEachPromptOnce
  <2>4. UnsentIsFresh'
    BY <1>0, <1>1, <1>2, <2>3 DEF UnsentIsFresh, Inv, Prompts, None
  <2>5. QueueHoldsEachPromptOnce'
    BY <2>1, <2>2, <2>3 DEF QueueHoldsEachPromptOnce, Inv
  <2>6. ShownIsQueued'
    BY <1>0, <2>1, <2>2 DEF ShownIsQueued, Inv
  <2>7. ActivePromptIsAlive' /\ ControllerIsInFlight'
    BY <2>2, <2>3 DEF ActivePromptIsAlive, ControllerIsInFlight, InFlight
  <2> QED BY <2>4, <2>5, <2>6, <2>7 DEF InvParts
<1>4. CASE ~Drains(Frame.kind)
  <2>1. /\ activePrompt' = None /\ lifecycle' = settled
        /\ UNCHANGED <<queuedPrompts, shown, phase, promptController>>
    BY <1>4 DEF ApplyTurnEnd
  <2>2. UnsentIsFresh'
    BY <1>0, <1>1, <1>2, <2>1 DEF UnsentIsFresh, Inv, Prompts, None
  <2>3. /\ QueueHoldsEachPromptOnce' /\ ShownIsQueued'
        /\ ActivePromptIsAlive' /\ ControllerIsInFlight'
    BY <1>0, <2>1 DEF QueueHoldsEachPromptOnce, ShownIsQueued, Inv, InFlight,
                      ActivePromptIsAlive, ControllerIsInFlight
  <2> QED BY <2>2, <2>3 DEF InvParts
<1> QED BY <1>3, <1>4 DEF ApplyTurnEnd

(* Every frame of the live stream keeps the invariant.                     *)
LEMMA DeliverInv ==
    ASSUME Inv, Deliver
    PROVE  InvParts'
<1>1. CASE ApplySnapshot \/ IgnoreEvent \/ ReportGap
  BY <1>1, InvUntouched
  DEF ApplySnapshot, IgnoreEvent, ReportGap, Receives, selection, promises
<1>2. CASE ApplyTurnStart
  <2>1. /\ UNCHANGED <<prompting, requests, activeHost>>
        /\ lifecycle' = Settle(activePrompt, "started")
    BY <1>2 DEF ApplyTurnStart, Receives, selection
  <2>2. /\ UNCHANGED <<activePrompt, promptController, queuedPrompts, shown,
                       phase, nextId>>
        /\ lifecycle \in [Prompts -> LifeStates]
    BY <2>1 DEF prompting, requests, Inv, TypeOK, LifeStates
  <2>3. \A q \in Prompts : \/ lifecycle'[q] = lifecycle[q]
                           \/ q = activePrompt /\ lifecycle'[q] = "started"
    BY <2>1, <2>2 DEF Settle
  <2>4. UnsentIsFresh' /\ ActivePromptIsAlive'
    BY <2>2, <2>3 DEF UnsentIsFresh, ActivePromptIsAlive, Inv, Prompts, None, TypeOK
  <2>5. /\ QueueHoldsEachPromptOnce' /\ ShownIsQueued' /\ ControllerIsInFlight'
    BY <2>1, <2>2 DEF QueueHoldsEachPromptOnce, ShownIsQueued, Inv, InFlight,
                      ControllerIsInFlight
  <2> QED BY <2>4, <2>5 DEF InvParts
<1> QED BY <1>1, <1>2, TurnEndInv DEF Deliver

(* select() and dispose() empty the queue and end the active prompt.       *)
LEMMA DropInv ==
    ASSUME Inv, DropPrompts, UNCHANGED <<nextId, lifecycle>>,
           activeHost' => shown' = {}
    PROVE  InvParts'
<1>1. /\ queuedPrompts' = <<>> /\ activePrompt' = None /\ promptController' = None
      /\ phase' = [q \in Prompts |-> IF phase[q] = "queued" THEN "dropped"
                                     ELSE phase[q]]
  BY DEF DropPrompts
<1>2. Range(<<>>) = {} /\ IsInjective(<<>>)
  BY DEF Range, IsInjective
<1>3. UnsentIsFresh'
  BY <1>1 DEF UnsentIsFresh, Inv
<1>4. QueueHoldsEachPromptOnce' /\ ShownIsQueued'
  BY <1>1, <1>2 DEF QueueHoldsEachPromptOnce, ShownIsQueued
<1>5. ActivePromptIsAlive' /\ ControllerIsInFlight'
  BY <1>1 DEF ActivePromptIsAlive, ControllerIsInFlight
<1> QED BY <1>3, <1>4, <1>5 DEF InvParts

(* Steps that read the prompt state only keep the invariant.               *)
LEMMA OtherInv ==
    ASSUME Inv,
           \/ \E s \in Sessions : SelectStart(s)
           \/ SelectCommit \/ SelectFails \/ Dispose \/ StreamEnds
           \/ \E c \in Cancels : CancelStart(c) \/ CancelReturns(c)
           \/ Host
    PROVE  InvParts'
<1> USE DEF selection, promises
<1>1. CASE SelectCommit
  BY <1>1, DropInv DEF SelectCommit, Prepare, requests
<1>2. CASE Dispose
  BY <1>2, DropInv DEF Dispose, requests
<1>3. CASE SelectFails \/ StreamEnds \/ \E s \in Sessions : SelectStart(s)
  BY <1>3, InvUntouched DEF SelectFails, StreamEnds, SelectStart
<1>4. ASSUME NEW c \in Cancels, CancelStart(c) \/ CancelReturns(c)
      PROVE  InvParts'
  BY <1>4, InvUntouched DEF CancelStart, CancelReturns
<1>5. CASE Host
  <2>1. UNCHANGED <<prompting, requests, lifecycle, activeHost>>
    BY <1>5 DEF Host, HostAdmits, TurnStarts, ForeignTurnStarts, TurnEnds,
                HostCancels, StreamOpens, LoseEvent
  <2> QED BY <2>1, InvUntouched
<1> QED BY <1>1, <1>2, <1>3, <1>4, <1>5

(* The inductive invariant holds in every reachable state.                 *)
LEMMA InvHolds == Spec => []Inv
<1>1. Init => Inv
  <2> SUFFICES ASSUME Init PROVE Inv
    OBVIOUS
  <2>1. Range(<<>>) = {} /\ IsInjective(<<>>)
    BY DEF Range, IsInjective
  <2> QED BY <2>1, InitType
          DEF Init, Inv, UnsentIsFresh, QueueHoldsEachPromptOnce, ShownIsQueued,
              ActivePromptIsAlive, ControllerIsInFlight
<1>2. TypeOK' /\ Inv /\ [Next]_vars => Inv'
  <2> SUFFICES ASSUME Inv, [Next]_vars PROVE InvParts'
    BY DEF Inv, InvParts
  <2>1. CASE Client
    BY <2>1, SubmitInv, DeliverInv, ReplyInv, OtherInv DEF Client, Submit
  <2>2. CASE Host
    BY <2>2, OtherInv
  <2>3. CASE UNCHANGED vars
    BY <2>3, InvUntouched DEF vars, selection, promises
  <2> QED BY <2>1, <2>2, <2>3 DEF Next
<1> QED BY <1>1, <1>2, TypeCorrect, PTL DEF Spec

(* No prompt is in the local queue twice, or both there and on its way to  *)
(* the Host (queueOrSendPrompt, drainPromptQueue, requeuePrompt).          *)
THEOREM QueueIsSound == Spec => []QueueHoldsEachPromptOnce
BY InvHolds, PTL DEF Inv

(* The queue shown to the user is the local queue as long as the service   *)
(* has a Host (queueWithLocal and its callers).                            *)
THEOREM ShownQueueIsTrue == Spec => []ShownIsQueued
BY InvHolds, PTL DEF Inv

(* The active prompt is never one whose turn is known to be over           *)
(* (applyLiveEvent, sendPrompt, clearActivePrompt).                        *)
THEOREM ActivePromptAlive == Spec => []ActivePromptIsAlive
BY InvHolds, PTL DEF Inv

(* An abort only ever hits a request in flight (promptController).         *)
THEOREM ControllerSound == Spec => []ControllerIsInFlight
BY InvHolds, PTL DEF Inv

-----------------------------------------------------------------------------
(***************************************************************************)
(* The running flag.  A stale one would hold back every later prompt, and  *)
(* the only thing that keeps it true is the order of frames: the flag is   *)
(* raised by the newest event of a turn only, and never over the snapshot  *)
(* of a follow.                                                            *)
(***************************************************************************)
RunInv ==
    follow # "closed" =>
        /\ lastSeq <= hostSeq[current]
        /\ follow = "opening" => ~running
        /\ running /\ lastSeq = hostSeq[current] => hostTurn[current] # None
        /\ \A i \in DOMAIN wire :
              /\ wire[i].seq <= hostSeq[current]
              /\ wire[i].kind = "start" /\ wire[i].seq = hostSeq[current]
                    => hostTurn[current] # None
              /\ wire[i].kind = "snapshot" => i = 1 /\ ~running

(* What the stream holds when a frame has been taken from it.              *)
LEMMA Received ==
    ASSUME TypeOK, wire # <<>>, wire' = Tail(wire) \/ wire' = wire
    PROVE  /\ 1 \in DOMAIN wire /\ wire[1] = Frame /\ Frame \in Frames
           /\ \A i \in DOMAIN wire' : \E j \in DOMAIN wire :
                 wire'[i] = wire[j] /\ (j = 1 => i = 1)
<1>1. wire \in Seq(Frames)
  BY DEF TypeOK
<1>2. PICK n : n = Len(wire)
  OBVIOUS
<1>3. n \in Nat /\ n # 0 /\ DOMAIN wire = 1..n /\ \A i \in 1..n : wire[i] \in Frames
  BY <1>1, <1>2, LenProperties, EmptySeq, ElementOfSeq
<1>4. 1 \in DOMAIN wire /\ wire[1] = Frame
  BY <1>1, <1>3 DEF Frame
<1>5. /\ DOMAIN Tail(wire) = 1..(n - 1)
      /\ \A i \in 1..(n - 1) : Tail(wire)[i] = wire[i + 1]
  <2>1. Tail(wire) \in Seq(Frames) /\ Len(Tail(wire)) = n - 1
        /\ \A i \in 1..Len(Tail(wire)) : Tail(wire)[i] = wire[i + 1]
    BY <1>1, <1>2, HeadTailProperties
  <2> QED BY <2>1, LenProperties
<1>6. ASSUME NEW i \in DOMAIN wire'
      PROVE  \E j \in DOMAIN wire : wire'[i] = wire[j] /\ (j = 1 => i = 1)
  <2>1. CASE wire' = wire
    BY <1>6, <2>1
  <2>2. CASE wire' = Tail(wire)
    <3>1. i \in 1..(n - 1) /\ wire'[i] = wire[i + 1]
      BY <1>5, <1>6, <2>2
    <3>2. i + 1 \in DOMAIN wire /\ i + 1 # 1
      BY <1>3, <3>1
    <3> QED BY <3>1, <3>2
  <2> QED BY <2>1, <2>2
<1> QED BY <1>3, <1>4, <1>6

(* What the stream holds when an event of the Host has been added.         *)
LEMMA Emitted ==
    ASSUME TypeOK, NEW s \in Sessions, NEW kind \in FrameKinds, Emit(s, kind)
    PROVE  /\ \A t \in Sessions : hostSeq'[t] = IF t = s THEN hostSeq[s] + 1 ELSE hostSeq[t]
           /\ \A i \in DOMAIN wire' :
                 \/ i \in DOMAIN wire /\ wire'[i] = wire[i]
                 \/ s = current /\ wire'[i] = [kind |-> kind, seq |-> hostSeq[s] + 1]
           /\ s # current => wire' = wire
<1>1. PICK e : e = [kind |-> kind, seq |-> hostSeq[s] + 1]
  OBVIOUS
<1>2. hostSeq[s] + 1 \in Nat /\ e \in Frames
  BY <1>1 DEF TypeOK, Frames
<1>3. wire \in Seq(Frames)
  BY DEF TypeOK
<1>4. /\ Len(Append(wire, e)) = Len(wire) + 1 /\ Append(wire, e)[Len(wire) + 1] = e
      /\ \A i \in 1..Len(wire) : Append(wire, e)[i] = wire[i]
      /\ Append(wire, e) \in Seq(Frames)
  BY <1>2, <1>3, AppendProperties
<1>5. PICK n : n = Len(wire)
  OBVIOUS
<1>6. n \in Nat /\ DOMAIN wire = 1..n /\ DOMAIN Append(wire, e) = 1..(n + 1)
  BY <1>3, <1>4, <1>5, LenProperties
<1>7. ASSUME NEW i \in 1..(n + 1)
      PROVE  (i \in 1..n /\ Append(wire, e)[i] = wire[i]) \/ Append(wire, e)[i] = e
  <2>1. i \in 1..n \/ i = n + 1
    BY <1>6
  <2> QED BY <1>4, <1>5, <2>1
<1>8. (wire' = Append(wire, e) /\ s = current) \/ wire' = wire
  BY <1>1 DEF Emit
<1>9. \A i \in DOMAIN wire' :
         \/ i \in DOMAIN wire /\ wire'[i] = wire[i]
         \/ s = current /\ wire'[i] = e
  BY <1>6, <1>7, <1>8
<1> QED BY <1>1, <1>9 DEF Emit, TypeOK

(* A session.cancel that ends a turn does so for a Session of the Host.    *)
LEMMA CancelEnds ==
    ASSUME TypeOK, NEW c \in Cancels, HostCancels(c)
    PROVE  \/ UNCHANGED <<hostTurn, hostSeq, wire>>
           \/ \E s \in Sessions : /\ hostTurn[s] # None /\ MayEnd(s) /\ Emit(s, "failed")
                                  /\ hostTurn' = [hostTurn EXCEPT ![s] = None]
<1> DEFINE s == cancel[c].session
<1>1. CASE s \in Sessions
  BY <1>1 DEF HostCancels
<1>2. CASE s \notin Sessions
  <2>1. s # current \/ follow # "open"
    BY <1>2 DEF TypeOK
  <2>2. \/ UNCHANGED <<hostTurn, hostSeq, wire>>
        \/ /\ hostTurn' = [hostTurn EXCEPT ![s] = None]
           /\ hostSeq' = [hostSeq EXCEPT ![s] = @ + 1] /\ wire' = wire
    BY <2>1 DEF HostCancels, Emit
  <2>3. [hostTurn EXCEPT ![s] = None] = hostTurn /\ [hostSeq EXCEPT ![s] = @ + 1] = hostSeq
    BY <1>2 DEF TypeOK
  <2> QED BY <2>2, <2>3
<1> QED BY <1>1, <1>2

(* Frames that are applied, ignored or refused.                            *)
LEMMA DeliverRun ==
    ASSUME TypeOK, RunInv, Deliver
    PROVE  RunInv'
<1> DEFINE Kept == /\ UNCHANGED <<follow, current, hostTurn, hostSeq>>
                   /\ follow = "open" /\ wire # <<>> /\ (wire' = Tail(wire) \/ wire' = wire)
<1>1. Kept
  BY DEF Deliver, ApplySnapshot, IgnoreEvent, ReportGap, ApplyTurnStart, ApplyTurnEnd,
         Receives, selection
<1>2. /\ 1 \in DOMAIN wire /\ wire[1] = Frame /\ Frame \in Frames
      /\ \A i \in DOMAIN wire' : \E j \in DOMAIN wire :
            wire'[i] = wire[j] /\ (j = 1 => i = 1)
  BY <1>1, Received
<1>3. /\ lastSeq \in Nat /\ Frame.seq \in Nat /\ hostSeq[current] \in Nat
      /\ running \in BOOLEAN
  BY <1>1, <1>2 DEF TypeOK, Frames
<1>4. /\ lastSeq <= hostSeq[current] /\ Frame.seq <= hostSeq[current]
      /\ Frame.kind = "start" /\ Frame.seq = hostSeq[current] => hostTurn[current] # None
      /\ Frame.kind = "snapshot" => ~running
      /\ running /\ lastSeq = hostSeq[current] => hostTurn[current] # None
  BY <1>1, <1>2 DEF RunInv
<1>5. \A i \in DOMAIN wire' :
         /\ wire'[i].seq <= hostSeq[current]
         /\ wire'[i].kind = "start" /\ wire'[i].seq = hostSeq[current]
               => hostTurn[current] # None
         /\ wire'[i].kind = "snapshot" => i = 1 /\ ~running /\ Frame.kind = "snapshot"
  <2> SUFFICES ASSUME NEW i \in DOMAIN wire'
               PROVE  /\ wire'[i].seq <= hostSeq[current]
                      /\ wire'[i].kind = "start" /\ wire'[i].seq = hostSeq[current]
                            => hostTurn[current] # None
                      /\ wire'[i].kind = "snapshot" => i = 1 /\ ~running /\ Frame.kind = "snapshot"
    OBVIOUS
  <2>1. PICK j \in DOMAIN wire : wire'[i] = wire[j] /\ (j = 1 => i = 1)
    BY <1>2
  <2> QED BY <1>1, <1>2, <2>1 DEF RunInv
<1>6. CASE ApplySnapshot \/ IgnoreEvent \/ ReportGap
  <2>1. running' = running /\ (lastSeq' = lastSeq \/ Frame.kind = "snapshot")
        /\ lastSeq' \in Nat /\ lastSeq' <= hostSeq[current]
    BY <1>3, <1>4, <1>6 DEF ApplySnapshot, IgnoreEvent, ReportGap, Receives, snapshot
  <2> QED BY <1>1, <1>4, <1>5, <2>1 DEF RunInv
<1>7. CASE ApplyTurnStart
  <2>1. running' = TRUE /\ lastSeq' = Frame.seq /\ Frame.kind = "start"
    BY <1>7 DEF ApplyTurnStart, Receives
  <2> QED BY <1>1, <1>4, <1>5, <2>1 DEF RunInv
<1>8. CASE ApplyTurnEnd
  <2>1. running' = FALSE /\ lastSeq' = Frame.seq
    BY <1>8 DEF ApplyTurnEnd
  <2> QED BY <1>1, <1>4, <1>5, <2>1 DEF RunInv
<1> QED BY <1>6, <1>7, <1>8 DEF Deliver

(* A turn starts or ends on the Host.                                      *)
LEMMA EmitRun ==
    ASSUME TypeOK, RunInv, NEW s \in Sessions, NEW kind \in FrameKinds, Emit(s, kind),
           kind # "snapshot", kind = "start" => hostTurn'[s] # None,
           \A t \in Sessions : t # s => hostTurn'[t] = hostTurn[t],
           UNCHANGED <<follow, current, running, lastSeq>>
    PROVE  RunInv'
<1> SUFFICES ASSUME follow # "closed" PROVE RunInv'
  BY DEF RunInv
<1>1. /\ current \in Sessions /\ hostSeq[current] \in Nat /\ lastSeq \in Nat
      /\ hostSeq[s] \in Nat
  BY DEF TypeOK
<1>2. /\ \A t \in Sessions : hostSeq'[t] = IF t = s THEN hostSeq[s] + 1 ELSE hostSeq[t]
      /\ \A i \in DOMAIN wire' :
            \/ i \in DOMAIN wire /\ wire'[i] = wire[i]
            \/ s = current /\ wire'[i] = [kind |-> kind, seq |-> hostSeq[s] + 1]
      /\ s # current => wire' = wire
  BY Emitted
<1>3. ASSUME NEW i \in DOMAIN wire PROVE wire[i].seq \in Nat
  <2>1. wire \in Seq(Frames)
    BY DEF TypeOK
  <2>2. wire[i] \in Frames
    BY <2>1, ElementOfSeq, LenProperties
  <2> QED BY <2>2 DEF Frames
<1>4. CASE s # current
  <2>1. /\ hostSeq'[current] = hostSeq[current] /\ wire' = wire
        /\ hostTurn'[current] = hostTurn[current]
    BY <1>1, <1>2, <1>4
  <2> QED BY <2>1 DEF RunInv
<1>5. CASE s = current
  <2>1. hostSeq'[current] = hostSeq[current] + 1
    BY <1>1, <1>2, <1>5
  <2>2. ASSUME NEW i \in DOMAIN wire'
        PROVE  /\ wire'[i].seq <= hostSeq'[current]
               /\ wire'[i].kind = "start" /\ wire'[i].seq = hostSeq'[current]
                    => hostTurn'[current] # None
               /\ wire'[i].kind = "snapshot" => i = 1 /\ ~running
    <3>1. CASE i \in DOMAIN wire /\ wire'[i] = wire[i]
      <4>1. /\ wire[i].seq <= hostSeq[current]
            /\ wire[i].kind = "snapshot" => i = 1 /\ ~running
        BY <3>1 DEF RunInv
      <4>2. wire'[i].seq < hostSeq'[current]
        BY <1>1, <1>3, <2>1, <3>1, <4>1
      <4> QED BY <1>1, <1>3, <2>1, <3>1, <4>1, <4>2
    <3>2. CASE wire'[i] = [kind |-> kind, seq |-> hostSeq[s] + 1]
      BY <1>1, <1>5, <2>1, <3>2
    <3> QED BY <1>2, <2>2, <3>1, <3>2
  <2>3. lastSeq <= hostSeq'[current] /\ lastSeq # hostSeq'[current]
    BY <1>1, <2>1 DEF RunInv
  <2> QED BY <2>2, <2>3 DEF RunInv
<1> QED BY <1>4, <1>5

(* The steps of the Host.                                                  *)
LEMMA HostRun ==
    ASSUME TypeOK, RunInv, Host
    PROVE  RunInv'
<1> USE DEF selection, snapshot, stream
<1>1. ASSUME NEW r \in Prompts, HostAdmits(r) PROVE RunInv'
  BY <1>1 DEF HostAdmits, RunInv
<1>2. ASSUME NEW s \in Sessions, TurnStarts(s) PROVE RunInv'
  <2>1. Head(hostQueue[s]) \in Prompts
    BY <1>2, HeadTailProperties DEF TurnStarts, TypeOK
  <2>2. hostTurn'[s] # None
    BY <1>2, <2>1 DEF TurnStarts, TypeOK, Prompts, None
  <2>3. \A t \in Sessions : t # s => hostTurn'[t] = hostTurn[t]
    BY <1>2 DEF TurnStarts, TypeOK
  <2>4. Emit(s, "start") /\ UNCHANGED <<follow, current, running, lastSeq>>
    BY <1>2 DEF TurnStarts
  <2> QED BY <2>2, <2>3, <2>4, EmitRun DEF FrameKinds
<1>3. ASSUME NEW s \in Sessions, ForeignTurnStarts(s) PROVE RunInv'
  <2>1. hostTurn'[s] = Foreign /\ Foreign # None
    BY <1>3, PromptAssumption DEF ForeignTurnStarts, TypeOK, None, Foreign
  <2>2. \A t \in Sessions : t # s => hostTurn'[t] = hostTurn[t]
    BY <1>3 DEF ForeignTurnStarts, TypeOK
  <2>3. Emit(s, "start") /\ UNCHANGED <<follow, current, running, lastSeq>>
    BY <1>3 DEF ForeignTurnStarts
  <2> QED BY <2>1, <2>2, <2>3, EmitRun DEF FrameKinds
<1>4. ASSUME NEW s \in Sessions, NEW kind \in {"completed", "failed"}, TurnEnds(s, kind)
      PROVE  RunInv'
  <2>1. \A t \in Sessions : t # s => hostTurn'[t] = hostTurn[t]
    BY <1>4 DEF TurnEnds, TypeOK
  <2>2. Emit(s, kind) /\ UNCHANGED <<follow, current, running, lastSeq>>
    BY <1>4 DEF TurnEnds
  <2> QED BY <2>1, <2>2, EmitRun DEF FrameKinds
<1>5. ASSUME NEW c \in Cancels, HostCancels(c) PROVE RunInv'
  <2>1. UNCHANGED <<follow, current, running, lastSeq>>
    BY <1>5 DEF HostCancels
  <2>2. CASE UNCHANGED <<hostTurn, hostSeq, wire>>
    BY <2>1, <2>2 DEF RunInv
  <2>3. ASSUME NEW s \in Sessions, Emit(s, "failed"), hostTurn' = [hostTurn EXCEPT ![s] = None]
        PROVE  RunInv'
    <3>1. \A t \in Sessions : t # s => hostTurn'[t] = hostTurn[t]
      BY <2>3 DEF TypeOK
    <3> QED BY <2>1, <2>3, <3>1, EmitRun DEF FrameKinds
  <2> QED BY <1>5, <2>2, <2>3, CancelEnds
<1>6. CASE StreamOpens
  <2>1. /\ follow = "opening" /\ hostSeq' = hostSeq /\ hostTurn' = hostTurn
        /\ UNCHANGED <<current, running, lastSeq>>
        /\ wire' = <<[kind |-> "snapshot", seq |-> hostSeq[current]]>>
    BY <1>6 DEF StreamOpens, host
  <2>2. DOMAIN wire' = {1} /\ wire'[1] = [kind |-> "snapshot", seq |-> hostSeq[current]]
    BY <2>1
  <2>3. hostSeq[current] \in Nat
    BY <2>1 DEF TypeOK
  <2> QED BY <2>1, <2>2, <2>3 DEF RunInv
<1>7. CASE LoseEvent
  <2>1. /\ UNCHANGED <<follow, current, running, lastSeq, hostSeq, hostTurn>>
        /\ wire # <<>> /\ wire' = Tail(wire)
    BY <1>7 DEF LoseEvent, host
  <2>2. \A i \in DOMAIN wire' : \E j \in DOMAIN wire :
           wire'[i] = wire[j] /\ (j = 1 => i = 1)
    BY <2>1, Received
  <2>3. SUFFICES ASSUME follow # "closed", NEW i \in DOMAIN wire'
                 PROVE  /\ wire'[i].seq <= hostSeq[current]
                        /\ wire'[i].kind = "start" /\ wire'[i].seq = hostSeq[current]
                              => hostTurn[current] # None
                        /\ wire'[i].kind = "snapshot" => i = 1 /\ ~running
    BY <2>1 DEF RunInv
  <2>4. PICK j \in DOMAIN wire : wire'[i] = wire[j] /\ (j = 1 => i = 1)
    BY <2>2
  <2> QED BY <2>3, <2>4 DEF RunInv
<1> QED BY <1>1, <1>2, <1>3, <1>4, <1>5, <1>6, <1>7 DEF Host

(* The other steps: what they change starts a new follow or ends it.       *)
LEMMA ClientRun ==
    ASSUME TypeOK, RunInv,
           \/ Submit \/ StreamEnds \/ SelectCommit \/ SelectFails \/ Dispose
           \/ \E r \in Prompts : ImageRead(r) \/ Reply(r)
           \/ \E s \in Sessions : SelectStart(s)
           \/ \E c \in Cancels : CancelStart(c) \/ CancelReturns(c)
           \/ UNCHANGED vars
    PROVE  RunInv'
<1> DEFINE Same == UNCHANGED <<follow, current, running, lastSeq, wire, hostSeq, hostTurn>>
<1> USE DEF selection, snapshot, stream, host
<1>1. Same => RunInv'
  BY DEF RunInv
<1>2. ASSUME NEW r \in Prompts, Prompt(r) \/ PromptImage(r) \/ ImageRead(r) PROVE Same
  BY <1>2 DEF Prompt, PromptImage, ImageRead
<1>3. ASSUME NEW r \in Prompts, Reply(r) PROVE Same
  BY <1>3 DEF Reply, ReplyOk, ReplyFails
<1>4. ASSUME NEW c \in Cancels, CancelStart(c) \/ CancelReturns(c) PROVE Same
  BY <1>4 DEF CancelStart, CancelReturns
<1>5. ASSUME NEW s \in Sessions, SelectStart(s) PROVE Same
  BY <1>5 DEF SelectStart
<1>6. SelectFails => Same
  BY DEF SelectFails
<1>7. CASE StreamEnds \/ Dispose
  BY <1>7 DEF StreamEnds, Dispose, RunInv
<1>8. CASE SelectCommit
  <2>1. /\ follow' = "opening" /\ wire' = <<>> /\ running' = FALSE /\ hostSeq' = hostSeq
        /\ current' = selecting /\ lastSeq' = hostSeq[selecting] /\ selecting \in Sessions
    BY <1>8 DEF SelectCommit, Prepare, TypeOK
  <2>2. hostSeq[selecting] \in Nat /\ DOMAIN wire' = {}
    BY <2>1 DEF TypeOK
  <2> QED BY <2>1, <2>2 DEF RunInv
<1>9. UNCHANGED vars => Same
  BY DEF vars
<1> QED BY <1>1, <1>2, <1>3, <1>4, <1>5, <1>6, <1>7, <1>8, <1>9 DEF Submit

(* The invariant of the running flag.                                      *)
LEMMA RunHolds == Spec => []RunInv
<1>1. Init => RunInv
  BY DEF Init, RunInv
<1>2. TypeOK /\ RunInv /\ [Next]_vars => RunInv'
  BY DeliverRun, HostRun, ClientRun DEF Next, Client
<1> QED BY <1>1, <1>2, TypeCorrect, PTL DEF Spec

(* When the view has caught up with the Host, it shows no turn running     *)
(* that is over, under every set of conditions: turns of others, lost,     *)
(* repeated and late events, selections and failures (applyFollowFrame,    *)
(* applyLiveEvent, prepare).                                               *)
THEOREM RunningFlagIsTrue == Spec => []RunningIsTrue
<1>1. RunInv => RunningIsTrue
  BY DEF RunInv, RunningIsTrue
<1> QED BY <1>1, RunHolds, PTL

-----------------------------------------------------------------------------
(***************************************************************************)
(* A service that is selected once.  A second selection drops the lock of  *)
(* a drain that is under way, so what follows is claimed for a service     *)
(* that makes one selection and is not disposed of.                        *)
(***************************************************************************)
OneSelection == MaxSelects <= 1 /\ "dispose" \notin Conditions

\* Nothing has been asked of the service.
Untouched ==
    /\ nextId = 1 /\ \A r \in Prompts : phase[r] = "new"
    /\ activePrompt = None /\ promptController = None
    /\ queuedPrompts = <<>> /\ drainingPrompts = FALSE
    /\ follow = "closed" /\ wire = <<>>
    /\ \A c \in Cancels : cancel[c].pc = "idle"

SelectedInv ==
    /\ current # NoSession => selects >= 1 /\ selecting = NoSession
    /\ selecting # NoSession => selects >= 1
    /\ current = NoSession => Untouched

(* Before the selection nothing but the selection happens to the service.  *)
LEMMA BeforeSelection ==
    ASSUME OneSelection, TypeOK, Untouched, current = NoSession, [Next]_vars,
           UNCHANGED <<current, selecting, selects>>
    PROVE  Untouched'
<1> DEFINE Same == UNCHANGED <<nextId, phase, activePrompt, promptController, queuedPrompts,
                               drainingPrompts, follow, wire, cancel>>
<1> USE DEF selection, snapshot, prompting, requests, promises, stream, host
<1>1. Same => Untouched'
  BY DEF Untouched
<1>2. \A r \in Prompts : ~InFlight(r) /\ phase[r] # "reading"
  BY DEF Untouched, InFlight
<1>3. ~Submit /\ ~Deliver /\ ~StreamEnds /\ ~Dispose
  BY DEF Untouched, Submit, Prompt, PromptImage, Deliver, ApplySnapshot, IgnoreEvent, ReportGap,
         ApplyTurnStart, ApplyTurnEnd, Receives, StreamEnds, Dispose, OneSelection
<1>4. \A r \in Prompts : ~ImageRead(r) /\ ~Reply(r) /\ ~HostAdmits(r)
  BY <1>2 DEF ImageRead, Reply, ReplyOk, ReplyFails, HostAdmits
<1>5. \A c \in Cancels : ~CancelStart(c) /\ ~CancelReturns(c) /\ ~HostCancels(c)
  BY DEF Untouched, CancelStart, CancelReturns, HostCancels
<1>6. ~StreamOpens /\ ~LoseEvent
  BY DEF Untouched, StreamOpens, LoseEvent
<1>7. \A s \in Sessions : SelectStart(s) => Same
  BY DEF SelectStart
<1>8. SelectFails => Same
  BY DEF SelectFails
<1>9. ~SelectCommit
  BY DEF SelectCommit
<1>10. ASSUME NEW s \in Sessions,
              \/ TurnStarts(s) \/ ForeignTurnStarts(s)
              \/ TurnEnds(s, "completed") \/ TurnEnds(s, "failed")
       PROVE  Same
  <2>1. follow # "open"
    BY DEF Untouched
  <2> QED BY <1>10, <2>1 DEF TurnStarts, ForeignTurnStarts, TurnEnds, Emit
<1>11. UNCHANGED vars => Same
  BY DEF vars
<1> QED
  BY <1>1, <1>3, <1>4, <1>5, <1>6, <1>7, <1>8, <1>9, <1>10, <1>11 DEF Next, Client, Host

(* Each step leaves the service selected at most once.                     *)
LEMMA SelectedStep ==
    ASSUME OneSelection, TypeOK, SelectedInv, [Next]_vars
    PROVE  SelectedInv'
<1>0. selects \in Nat /\ MaxSelects \in Nat /\ MaxSelects <= 1
  BY PromptAssumption DEF TypeOK, OneSelection
<1>1. ASSUME NEW s \in Sessions, SelectStart(s) PROVE SelectedInv'
  <2>1. /\ selects' >= 1 /\ current' = current /\ current = NoSession
    BY <1>0, <1>1 DEF SelectStart, SelectedInv
  <2>2. Untouched'
    BY <1>1, <2>1 DEF SelectStart, SelectedInv, Untouched, prompting, requests, stream
  <2> QED BY <2>1, <2>2 DEF SelectedInv
<1>2. CASE SelectCommit
  BY <1>2 DEF SelectCommit, SelectedInv
<1>3. CASE SelectFails
  <2>1. current = NoSession => Untouched'
    BY <1>3 DEF SelectFails, SelectedInv, Untouched, prompting, requests, stream
  <2> QED BY <1>3, <2>1 DEF SelectFails, SelectedInv
<1>4. CASE UNCHANGED <<current, selecting, selects>>
  <2>1. current = NoSession => Untouched'
    BY <1>4, BeforeSelection DEF SelectedInv
  <2> QED BY <1>4, <2>1 DEF SelectedInv
<1>5. ASSUME Client, ~SelectCommit, ~SelectFails, \A s \in Sessions : ~SelectStart(s)
      PROVE  UNCHANGED <<current, selecting, selects>>
  BY <1>5 DEF Client, Submit, Prompt, PromptImage, ImageRead, Reply, ReplyOk, ReplyFails,
              Deliver, ApplySnapshot, IgnoreEvent, ReportGap, ApplyTurnStart, ApplyTurnEnd,
              Receives, StreamEnds, Dispose, CancelStart, CancelReturns, selection
<1>6. Host => UNCHANGED <<current, selecting, selects>>
  BY DEF Host, HostAdmits, TurnStarts, ForeignTurnStarts, TurnEnds, HostCancels, StreamOpens,
         LoseEvent, selection
<1>7. UNCHANGED vars => UNCHANGED <<current, selecting, selects>>
  BY DEF vars, selection
<1> QED BY <1>1, <1>2, <1>3, <1>4, <1>5, <1>6, <1>7 DEF Next

(* A service that may select once has done so at most once.                *)
LEMMA SelectedHolds == ASSUME OneSelection PROVE Spec => []SelectedInv
<1>1. Init => SelectedInv
  BY DEF Init, SelectedInv, Untouched, NoCancel
<1>2. TypeOK /\ SelectedInv /\ [Next]_vars => SelectedInv'
  BY SelectedStep
<1> QED BY <1>1, <1>2, TypeCorrect, PTL DEF Spec

(* A prompt is queued, sent or refused at its submission: no drain starts. *)
LEMMA QueueOrSendLock ==
    ASSUME TypeOK, DrainLock, NEW r \in Prompts, phase[r] \in {"new", "reading"},
           NEW b \in BOOLEAN, QueueOrSendPrompt(r, b)
    PROVE  DrainLock'
<1>1. PICK p \in {"queued", "direct", "failed"} : phase' = [phase EXCEPT ![r] = p]
  BY DEF QueueOrSendPrompt, Enqueue, Send, SendFails
<1>2. drainingPrompts' = drainingPrompts
  BY DEF QueueOrSendPrompt, Enqueue, Send, SendFails
<1>3. \A q \in Prompts : phase'[q] = "drain" <=> phase[q] = "drain"
  BY <1>1 DEF TypeOK
<1> QED BY <1>2, <1>3 DEF DrainLock

(* The lock opens with the reply of the prompt that is drained.            *)
LEMMA ReplyLock ==
    ASSUME TypeOK, DrainLock, NEW r \in Prompts, Reply(r)
    PROVE  DrainLock'
<1>1. PICK p \in {"done", "failed", "queued"} : phase' = [phase EXCEPT ![r] = p]
  BY DEF Reply, ReplyOk, ReplyFails, Requeue
<1>2. drainingPrompts' = Unlock(r)
  BY DEF Reply, ReplyOk, ReplyFails
<1>3. \A q \in Prompts : phase'[q] = "drain" <=> phase[q] = "drain" /\ q # r
  BY <1>1 DEF TypeOK
<1>4. CASE phase[r] = "drain"
  <2>1. drainingPrompts' = FALSE
    BY <1>2, <1>4 DEF Unlock
  <2>2. \A q \in Prompts : phase'[q] # "drain"
    BY <1>3, <1>4 DEF DrainLock
  <2> QED BY <2>1, <2>2 DEF DrainLock
<1>5. CASE phase[r] # "drain"
  <2>1. drainingPrompts' = drainingPrompts
    BY <1>2, <1>5 DEF Unlock
  <2> QED BY <1>3, <1>5, <2>1 DEF DrainLock
<1> QED BY <1>4, <1>5

(* A drain takes the lock, and only when it is open.                       *)
LEMMA TurnEndLock ==
    ASSUME TypeOK, DrainLock, ApplyTurnEnd
    PROVE  DrainLock'
<1>1. CASE Drains(Frame.kind) /\ Drain(Head(queuedPrompts))
  <2>1. PICK r : r = Head(queuedPrompts)
    OBVIOUS
  <2>2. /\ r \in Prompts /\ drainingPrompts = FALSE /\ drainingPrompts' = TRUE
        /\ phase' = [phase EXCEPT ![r] = "drain"]
    BY <1>1, <2>1, ShiftQueue DEF Drains, Drain, TypeOK
  <2>3. \A q \in Prompts : phase'[q] = "drain" <=> q = r
    BY <2>2 DEF TypeOK, DrainLock
  <2> QED BY <2>2, <2>3 DEF DrainLock
<1>2. CASE ~Drains(Frame.kind)
  BY <1>2 DEF ApplyTurnEnd, DrainLock
<1> QED BY <1>1, <1>2 DEF ApplyTurnEnd

(* Each step keeps the lock.                                               *)
LEMMA LockStep ==
    ASSUME OneSelection, Inv, SelectedInv, DrainLock, [Next]_vars
    PROVE  DrainLock'
<1> USE DEF selection, snapshot, prompting, requests, promises, stream, host
<1>0. TypeOK /\ UnsentIsFresh
  BY DEF Inv
<1>1. UNCHANGED <<phase, drainingPrompts>> => DrainLock'
  BY DEF DrainLock
<1>2. ASSUME NEW r \in Prompts, Prompt(r) PROVE DrainLock'
  <2>1. phase[r] = "new" /\ running \in BOOLEAN
    BY <1>0, <1>2 DEF Prompt, UnsentIsFresh, TypeOK, Prompts
  <2> QED BY <1>0, <1>2, <2>1, QueueOrSendLock DEF Prompt
<1>3. ASSUME NEW r \in Prompts, PromptImage(r) PROVE DrainLock'
  <2>1. phase[r] = "new"
    BY <1>0, <1>3 DEF PromptImage, UnsentIsFresh, TypeOK, Prompts
  <2>2. \A q \in Prompts : phase'[q] = "drain" <=> phase[q] = "drain"
    BY <1>0, <1>3, <2>1 DEF PromptImage, TypeOK
  <2>3. drainingPrompts' = drainingPrompts
    BY <1>3 DEF PromptImage
  <2> QED BY <2>2, <2>3 DEF DrainLock
<1>4. ASSUME NEW r \in Prompts, ImageRead(r) PROVE DrainLock'
  <2>1. runningAtCall[r] \in BOOLEAN
    BY <1>0 DEF TypeOK
  <2> QED BY <1>0, <1>4, <2>1, QueueOrSendLock DEF ImageRead
<1>5. ASSUME NEW r \in Prompts, Reply(r) PROVE DrainLock'
  BY <1>0, <1>5, ReplyLock
<1>6. CASE Deliver
  <2>1. ApplySnapshot \/ IgnoreEvent \/ ReportGap \/ ApplyTurnStart => UNCHANGED <<phase, drainingPrompts>>
    BY DEF ApplySnapshot, IgnoreEvent, ReportGap, ApplyTurnStart
  <2> QED BY <1>0, <1>1, <1>6, <2>1, TurnEndLock DEF Deliver
<1>7. CASE SelectCommit
  <2>1. Untouched
    BY <1>7 DEF SelectCommit, SelectedInv
  <2>2. drainingPrompts' = FALSE /\ \A q \in Prompts : phase'[q] # "drain"
    BY <1>7, <2>1 DEF SelectCommit, DropPrompts, Untouched
  <2> QED BY <2>2 DEF DrainLock
<1>8. CASE \/ StreamEnds \/ SelectFails \/ UNCHANGED vars
           \/ \E s \in Sessions : SelectStart(s)
           \/ \E c \in Cancels : CancelStart(c) \/ CancelReturns(c)
  <2>1. UNCHANGED <<phase, drainingPrompts>>
    BY <1>8 DEF StreamEnds, SelectFails, SelectStart, CancelStart, CancelReturns, vars
  <2> QED BY <1>1, <2>1
<1>9. CASE Host
  <2>1. UNCHANGED <<phase, drainingPrompts>>
    BY <1>9 DEF Host, HostAdmits, TurnStarts, ForeignTurnStarts, TurnEnds, HostCancels,
                StreamOpens, LoseEvent
  <2> QED BY <1>1, <2>1
<1>10. ~Dispose
  BY DEF Dispose, OneSelection
<1>11. CASE Submit \/ \E r \in Prompts : ImageRead(r) \/ Reply(r)
  BY <1>2, <1>3, <1>4, <1>5, <1>11 DEF Submit
<1> QED BY <1>6, <1>7, <1>8, <1>9, <1>10, <1>11 DEF Next, Client

(* drainingPrompts is set exactly while one drained request is in flight,  *)
(* under every condition but disposal, in a service that is selected once  *)
(* (drainPromptQueue and the finally of its send).                         *)
THEOREM DrainIsLocked == ASSUME OneSelection PROVE Spec => []DrainLock
<1>1. Init => DrainLock
  BY DEF Init, DrainLock
<1>2. Inv /\ SelectedInv /\ DrainLock /\ [Next]_vars => DrainLock'
  BY LockStep
<1> QED BY <1>1, <1>2, InvHolds, SelectedHolds, PTL DEF Spec

-----------------------------------------------------------------------------
(***************************************************************************)
(* One turn at a time.  In a service that is selected once, on a Session   *)
(* in which nobody else starts turns and whose Host answers a prompt       *)
(* before it ends its turn and does not fail a prompt it took, the request *)
(* in flight is the active prompt and the Host works on nothing else.      *)
(* Outside these conditions the claims below are false: MCEarlyEnd and     *)
(* MCCancelReported show two of the ways.                                  *)
(***************************************************************************)
Tame == /\ OneSelection
        /\ "foreignTurn" \notin Conditions
        /\ "earlyEnd" \notin Conditions
        /\ "lateFailure" \notin Conditions

\* One request is in flight, that of the active prompt; none is aborted.
FlightInv ==
    /\ \A r \in Prompts : InFlight(r) => promptController = r
    /\ promptController # None =>
          activePrompt = promptController /\ promptController \notin accepted
    /\ aborted = {}
    /\ \A r \in accepted : phase[r] \notin {"new", "reading"}

\* A call that asks the Host holds no controller that is still in use, and
\* a call that waits does so for a prompt.
CallsInv(calls, controller) ==
    \A c \in Cancels :
        /\ calls[c].controller \in {None, calls[c].prompt}
        /\ calls[c].pc \in {"sent", "answered"} =>
              calls[c].controller = None \/ calls[c].controller # controller
        /\ calls[c].pc = "waiting" =>
              calls[c].prompt \in Prompts /\ calls[c].session \in Sessions

\* The Host works on the active prompt, which it took, or on nothing.
TurnsInv ==
    \A s \in Sessions :
        /\ hostTurn[s] # None =>
              /\ s = current /\ hostTurn[s] = activePrompt
              /\ activePrompt \in admitted /\ hostQueue[s] = <<>>
        /\ hostQueue[s] # <<>> =>
              /\ s = current /\ hostQueue[s] = <<activePrompt>>
              /\ activePrompt \in admitted /\ activePrompt # None

HostIsEmpty == \A s \in Sessions : hostTurn[s] = None /\ hostQueue[s] = <<>>

\* An end that the client has not seen yet is the last thing that happened,
\* and the active prompt keeps everything else waiting for it.
IsNewEnd(frame) == frame.kind \in {"completed", "failed"} /\ Fresh(frame.seq)

EndsInv ==
    \A i \in DOMAIN wire :
        IsNewEnd(wire[i]) =>
            /\ wire[i].seq = hostSeq[current] /\ HostIsEmpty
            /\ promptController = None /\ activePrompt # None

TargetInv == \A r \in Prompts : r < nextId => target[r] = current

\* What the Host took it took once, and it is not waiting any more.
AdmitInv ==
    /\ IsInjective(admissions)
    /\ \A r \in Range(admissions) :
          /\ phase[r] \in {"direct", "drain", "done"}
          /\ InFlight(r) => r \in admitted

TurnInv ==
    /\ FlightInv /\ CallsInv(cancel, promptController)
    /\ TurnsInv /\ EndsInv /\ TargetInv /\ AdmitInv

(* The Host is empty unless it works on the active prompt.                 *)
LEMMA NothingOnHost ==
    ASSUME TurnsInv, activePrompt = None \/ activePrompt \notin admitted
    PROVE  HostIsEmpty
BY DEF TurnsInv, HostIsEmpty

(* While a request is in flight no end is unseen.                          *)
LEMMA OneInFlight ==
    ASSUME FlightInv, EndsInv, NEW r \in Prompts, InFlight(r)
    PROVE  /\ promptController = r /\ activePrompt = r /\ r \notin accepted
           /\ \A q \in Prompts : InFlight(q) => q = r
           /\ \A i \in DOMAIN wire : ~IsNewEnd(wire[i])
<1>1. r # None
  BY DEF Prompts, None
<1> QED BY <1>1 DEF FlightInv, EndsInv

(* Resuming calls of cancel() leaves them sound when the controller that   *)
(* stays in use, if any, is of a request that is not resumed.              *)
LEMMA ResumedCalls ==
    ASSUME TypeOK, CallsInv(cancel, promptController), NEW taken, NEW life,
           NEW controller,
           controller = None \/ (controller = promptController /\ controller \notin taken)
    PROVE  CallsInv(Resumed(taken, life), controller)
<1> SUFFICES ASSUME NEW c \in Cancels, NEW call, call = Resumed(taken, life)[c]
             PROVE  /\ call.controller \in {None, call.prompt}
                    /\ call.pc \in {"sent", "answered"} =>
                          call.controller = None \/ call.controller # controller
                    /\ call.pc = "waiting" =>
                          call.prompt \in Prompts /\ call.session \in Sessions
  BY DEF CallsInv
<1>0. cancel[c] \in Calls
  BY DEF TypeOK
<1>1. \/ call = cancel[c]
      \/ /\ cancel[c].prompt \in taken
         /\ call = [cancel[c] EXCEPT !.pc = AfterWait(life[cancel[c].prompt])]
  BY DEF Resumed
<1>2. CASE call = cancel[c]
  BY <1>2 DEF CallsInv
<1>3. CASE /\ cancel[c].prompt \in taken
           /\ call = [cancel[c] EXCEPT !.pc = AfterWait(life[cancel[c].prompt])]
  <2>1. /\ call.controller = cancel[c].controller /\ call.prompt = cancel[c].prompt
        /\ call.pc \in {"settled", "sent"}
    BY <1>0, <1>3 DEF Calls, AfterWait
  <2> QED BY <1>3, <2>1 DEF CallsInv
<1> QED BY <1>1, <1>2, <1>3

(* A controller that is taken into use is no call's own.                   *)
LEMMA ForgetCalls ==
    ASSUME NEW calls \in [Cancels -> Calls], NEW controller, CallsInv(calls, controller),
           NEW r \in Prompts
    PROVE  CallsInv(Forget(calls, r), r)
<1> SUFFICES ASSUME NEW c \in Cancels, NEW call, call = Forget(calls, r)[c]
             PROVE  /\ call.controller \in {None, call.prompt}
                    /\ call.pc \in {"sent", "answered"} =>
                          call.controller = None \/ call.controller # r
                    /\ call.pc = "waiting" =>
                          call.prompt \in Prompts /\ call.session \in Sessions
  BY DEF CallsInv
<1>1. calls[c] \in Calls
  OBVIOUS
<1>2. CASE calls[c].controller = r
  <2>1. call = [calls[c] EXCEPT !.controller = None]
    BY <1>2 DEF Forget
  <2>2. /\ call.controller = None /\ call.prompt = calls[c].prompt
        /\ call.pc = calls[c].pc /\ call.session = calls[c].session
    BY <1>1, <2>1 DEF Calls
  <2> QED BY <2>2 DEF CallsInv
<1>3. CASE calls[c].controller # r
  <2>1. call = calls[c]
    BY <1>3 DEF Forget
  <2> QED BY <1>3, <2>1 DEF CallsInv
<1> QED BY <1>2, <1>3

(* Steps that leave the stream and the Host alone keep EndsInv, when they  *)
(* touch the active prompt only while it is in flight or missing.          *)
LEMMA EndsKept ==
    ASSUME EndsInv,
           UNCHANGED <<wire, lastSeq, hostSeq, current, hostTurn, hostQueue>>,
           activePrompt # None /\ promptController = None
              => UNCHANGED <<activePrompt, promptController>>
    PROVE  EndsInv'
BY DEF EndsInv, IsNewEnd, Fresh, HostIsEmpty

(* Steps that leave the Host's admissions alone keep AdmitInv, when a      *)
(* prompt the Host took stays as it is or is answered.                     *)
LEMMA AdmitKept ==
    ASSUME AdmitInv, admissions' = admissions,
           \A q \in Range(admissions) :
              /\ phase'[q] = phase[q] \/ phase'[q] = "done"
              /\ q \in admitted => q \in admitted'
    PROVE  AdmitInv'
BY DEF AdmitInv, InFlight

(* queueOrSendPrompt sends only when nothing is in flight or on the Host.  *)
LEMMA QueueOrSendTurn ==
    ASSUME Inv, TurnInv, NEW r \in Prompts, phase[r] \in {"new", "reading"},
           NEW b \in BOOLEAN, QueueOrSendPrompt(r, b),
           UNCHANGED <<current, lastSeq, wire, admissions, hostTurn, hostQueue, hostSeq>>
    PROVE  /\ FlightInv' /\ CallsInv(cancel', promptController')
           /\ TurnsInv' /\ EndsInv' /\ AdmitInv'
<1>0. TypeOK /\ r # None
  BY DEF Inv, Prompts, None
<1>1. /\ UNCHANGED <<accepted, aborted, admitted>>
  BY DEF QueueOrSendPrompt, Enqueue, Send, SendFails, promises
<1>2. r \notin accepted /\ r \notin Range(admissions)
  BY DEF TurnInv, FlightInv, AdmitInv
<1>3. PICK p \in {"queued", "direct", "failed"} : phase' = [phase EXCEPT ![r] = p]
  BY DEF QueueOrSendPrompt, Enqueue, Send, SendFails
<1>4. /\ phase'[r] = p /\ \A q \in Prompts : q # r => phase'[q] = phase[q]
  BY <1>0, <1>3 DEF TypeOK
<1>5. AdmitInv'
  <2>1. \A q \in Range(admissions) : q \in Prompts /\ q # r
    BY <1>0, <1>2, RangeOfSeq DEF TypeOK
  <2> QED BY <1>1, <1>4, <2>1, AdmitKept DEF TurnInv
<1>6. CASE Enqueue(r)
  <2>1. /\ p = "queued" /\ UNCHANGED <<activePrompt, promptController, cancel>>
    BY <1>0, <1>4, <1>6 DEF Enqueue, TypeOK
  <2>2. FlightInv'
    BY <1>0, <1>1, <1>4, <2>1 DEF FlightInv, TurnInv, InFlight, TypeOK
  <2>3. TurnsInv'
    BY <1>1, <2>1 DEF TurnInv, TurnsInv
  <2>4. EndsInv'
    BY <2>1, EndsKept DEF TurnInv
  <2> QED BY <1>5, <2>1, <2>2, <2>3, <2>4 DEF TurnInv
<1>7. CASE ~Enqueue(r)
  <2>1. activePrompt = None /\ (Send(r) \/ SendFails(r))
    BY <1>7 DEF QueueOrSendPrompt
  <2>2. promptController = None /\ \A q \in Prompts : ~InFlight(q)
    BY <2>1 DEF TurnInv, FlightInv, Prompts, None
  <2>3. HostIsEmpty
    BY <2>1, NothingOnHost DEF TurnInv
  <2>4. TurnsInv'
    BY <2>3 DEF HostIsEmpty, TurnsInv
  <2>5. EndsInv'
    BY <2>1, EndsKept DEF TurnInv
  <2>6. CASE Send(r)
    <3>1. activePrompt' = r /\ promptController' = r /\ p = "direct"
      BY <1>0, <1>4, <2>6 DEF Send, TypeOK
    <3>2. FlightInv'
      BY <1>0, <1>1, <1>2, <1>4, <2>2, <3>1 DEF FlightInv, TurnInv, InFlight, TypeOK
    <3>3. CallsInv(cancel', r)
      BY <1>0, <2>6, ForgetCalls DEF Send, TurnInv, TypeOK
    <3> QED BY <1>5, <2>4, <2>5, <3>1, <3>2, <3>3
  <2>7. CASE SendFails(r)
    <3>1. activePrompt' = None /\ promptController' = None /\ p = "failed" /\ cancel' = cancel
      BY <1>0, <1>4, <2>7 DEF SendFails, TypeOK
    <3>2. FlightInv'
      BY <1>0, <1>1, <1>4, <2>2, <3>1 DEF FlightInv, TurnInv, InFlight, TypeOK
    <3> QED BY <1>5, <2>2, <2>4, <2>5, <3>1, <3>2 DEF TurnInv
  <2> QED BY <2>1, <2>6, <2>7
<1> QED BY <1>6, <1>7

(* prompt(), promptImage() and the end of its file read.                   *)
LEMMA SubmitTurn ==
    ASSUME Inv, TurnInv, NEW r \in Prompts, Prompt(r) \/ PromptImage(r) \/ ImageRead(r)
    PROVE  TurnInv'
<1> USE DEF selection, snapshot, requests, stream, host, promises
<1>0. TypeOK /\ UnsentIsFresh
  BY DEF Inv
<1>1. r = nextId => phase[r] = "new"
  BY <1>0 DEF UnsentIsFresh, Prompts
<1>2. ASSUME r = nextId, current' = current, nextId' = r + 1,
             target' = [target EXCEPT ![r] = current]
      PROVE  TargetInv'
  <2>1. \A q \in Prompts : q < r + 1 => q = r \/ q < nextId
    BY <1>2 DEF Prompts
  <2>2. target'[r] = current /\ \A q \in Prompts : q # r => target'[q] = target[q]
    BY <1>0, <1>2 DEF TypeOK
  <2> QED BY <1>2, <2>1, <2>2 DEF TargetInv, TurnInv
<1>3. CASE Prompt(r)
  <2>1. TargetInv'
    BY <1>2, <1>3 DEF Prompt
  <2>2. running \in BOOLEAN /\ phase[r] = "new"
    BY <1>0, <1>1, <1>3 DEF Prompt, TypeOK
  <2>3. /\ FlightInv' /\ CallsInv(cancel', promptController')
        /\ TurnsInv' /\ EndsInv' /\ AdmitInv'
    BY <1>3, <2>2, QueueOrSendTurn DEF Prompt
  <2> QED BY <2>1, <2>3 DEF TurnInv
<1>4. CASE ImageRead(r)
  <2>1. TargetInv'
    BY <1>4 DEF ImageRead, TargetInv, TurnInv
  <2>2. runningAtCall[r] \in BOOLEAN
    BY <1>0 DEF TypeOK
  <2>3. /\ FlightInv' /\ CallsInv(cancel', promptController')
        /\ TurnsInv' /\ EndsInv' /\ AdmitInv'
    BY <1>4, <2>2, QueueOrSendTurn DEF ImageRead
  <2> QED BY <2>1, <2>3 DEF TurnInv
<1>5. CASE PromptImage(r)
  <2>1. TargetInv'
    BY <1>2, <1>5 DEF PromptImage
  <2>2. phase[r] = "new"
    BY <1>1, <1>5 DEF PromptImage
  <2>3. /\ phase'[r] = "reading" /\ \A q \in Prompts : q # r => phase'[q] = phase[q]
    BY <1>0, <1>5 DEF PromptImage, TypeOK
  <2>4. /\ UNCHANGED <<activePrompt, promptController, cancel, accepted, aborted, admitted>>
        /\ UNCHANGED <<admissions, hostTurn, hostQueue, hostSeq, wire, lastSeq, current>>
    BY <1>5 DEF PromptImage
  <2>5. FlightInv'
    <3>1. r \notin accepted /\ accepted \subseteq Prompts
      BY <1>0, <2>2 DEF TurnInv, FlightInv, TypeOK
    <3> QED BY <2>3, <2>4, <3>1 DEF TurnInv, FlightInv, InFlight
  <2>6. TurnsInv' /\ EndsInv'
    BY <2>4, EndsKept DEF TurnInv, TurnsInv
  <2>7. AdmitInv'
    <3>1. \A q \in Range(admissions) : q \in Prompts /\ q # r
      BY <1>0, <2>2, RangeOfSeq DEF TypeOK, TurnInv, AdmitInv
    <3> QED BY <2>3, <2>4, <3>1, AdmitKept DEF TurnInv
  <2> QED BY <2>1, <2>4, <2>5, <2>6, <2>7 DEF TurnInv
<1> QED BY <1>3, <1>4, <1>5

(* The reply of the request in flight leaves nothing in flight; when it is *)
(* a failure, the Host did not take the prompt.                            *)
LEMMA ReplyTurn ==
    ASSUME Tame, Inv, TurnInv, NEW r \in Prompts, Reply(r)
    PROVE  TurnInv'
<1> USE DEF selection, snapshot, requests, stream, host, promises
<1>0. TypeOK /\ r # None
  BY DEF Inv, Prompts, None
<1>1. /\ InFlight(r) /\ accepted' = accepted \cup {r} /\ aborted' = aborted
      /\ promptController' = ReleaseController(r)
      /\ cancel' = Resumed(accepted', lifecycle')
      /\ UNCHANGED <<current, nextId, target, wire, lastSeq, admitted, admissions>>
      /\ UNCHANGED <<hostTurn, hostQueue, hostSeq>>
  BY DEF Reply, ReplyOk, ReplyFails
<1>2. /\ promptController = r /\ activePrompt = r /\ promptController' = None
      /\ \A q \in Prompts : InFlight(q) => q = r
  BY <1>1, OneInFlight DEF TurnInv, ReleaseController
<1>3. PICK p \in {"done", "failed", "queued"} : phase' = [phase EXCEPT ![r] = p]
  BY DEF Reply, ReplyOk, ReplyFails, Requeue
<1>4. /\ phase'[r] = p /\ \A q \in Prompts : q # r => phase'[q] = phase[q]
  BY <1>0, <1>3 DEF TypeOK
<1>5. FlightInv'
  <2>1. \A q \in Prompts : ~InFlight(q)'
    BY <1>2, <1>4 DEF InFlight
  <2>2. accepted \subseteq Prompts
    BY <1>0 DEF TypeOK
  <2> QED BY <1>1, <1>2, <1>4, <2>1, <2>2 DEF FlightInv, TurnInv
<1>6. CallsInv(cancel', promptController')
  BY <1>0, <1>1, <1>2, ResumedCalls DEF TurnInv
<1>7. TargetInv'
  BY <1>1 DEF TurnInv, TargetInv
<1>8. EndsInv'
  BY <1>0, <1>1, <1>2, EndsKept DEF TurnInv
<1>9. CASE ReplyOk(r)
  <2>1. TurnsInv'
    BY <1>1, <1>9 DEF ReplyOk, TurnInv, TurnsInv
  <2>2. AdmitInv'
    <3>1. p = "done"
      BY <1>0, <1>4, <1>9 DEF ReplyOk, TypeOK
    <3>2. \A q \in Range(admissions) : q \in Prompts
      BY <1>0, RangeOfSeq DEF TypeOK
    <3> QED BY <1>1, <1>4, <3>1, <3>2, AdmitKept DEF TurnInv
  <2> QED BY <1>5, <1>6, <1>7, <1>8, <2>1, <2>2 DEF TurnInv
<1>10. CASE \E thrown \in BOOLEAN : ReplyFails(r, thrown)
  <2>1. MayFail(r) /\ activePrompt' = ClearActivePrompt(r)
    BY <1>10 DEF ReplyFails
  <2>2. r \notin admitted /\ activePrompt' = None
    BY <1>2, <2>1 DEF MayFail, Tame, TurnInv, FlightInv, ClearActivePrompt
  <2>3. TurnsInv'
    <3>1. HostIsEmpty
      BY <1>2, <2>2, NothingOnHost DEF TurnInv
    <3> QED BY <1>1, <3>1 DEF HostIsEmpty, TurnsInv
  <2>4. AdmitInv'
    <3>1. \A q \in Range(admissions) : q \in Prompts /\ q # r
      BY <1>0, <1>1, <2>2, RangeOfSeq DEF TypeOK, TurnInv, AdmitInv
    <3> QED BY <1>1, <1>4, <3>1, AdmitKept DEF TurnInv
  <2> QED BY <1>5, <1>6, <1>7, <1>8, <2>3, <2>4 DEF TurnInv
<1> QED BY <1>9, <1>10 DEF Reply

(* A frame that is applied or dropped makes no end new.                    *)
LEMMA EndsReceived ==
    ASSUME TypeOK, EndsInv, wire # <<>>, wire' = Tail(wire) \/ wire' = wire,
           lastSeq' \in Nat, lastSeq' >= lastSeq,
           UNCHANGED <<hostSeq, current, hostTurn, hostQueue, activePrompt, promptController>>
    PROVE  EndsInv'
<1> SUFFICES ASSUME NEW i \in DOMAIN wire', IsNewEnd(wire[i])'
             PROVE  /\ wire'[i].seq = hostSeq[current] /\ HostIsEmpty
                    /\ promptController = None /\ activePrompt # None
  BY DEF EndsInv, HostIsEmpty
<1>1. PICK j \in DOMAIN wire : wire'[i] = wire[j]
  BY Received
<1>2. wire[j].seq \in Nat /\ lastSeq \in Nat
  <2>1. wire[j] \in Frames
    BY LenProperties, ElementOfSeq DEF TypeOK
  <2> QED BY <2>1 DEF Frames, TypeOK
<1>3. IsNewEnd(wire[j])
  BY <1>1, <1>2 DEF IsNewEnd, Fresh
<1> QED BY <1>1, <1>3 DEF EndsInv

(* When the end of a turn arrives, no request is in flight, the Host is    *)
(* empty and the client has seen all it did.                               *)
LEMMA EndArrives ==
    ASSUME TypeOK, RunInv, TurnInv, ApplyTurnEnd
    PROVE  /\ HostIsEmpty /\ promptController = None
           /\ \A i \in DOMAIN wire' : ~IsNewEnd(wire[i])'
<1>1. /\ wire # <<>> /\ follow = "open" /\ IsNewEnd(Frame) /\ lastSeq' = Frame.seq
      /\ wire' = Tail(wire) \/ wire' = wire
  BY DEF ApplyTurnEnd, Receives, IsNewEnd
<1>2. 1 \in DOMAIN wire /\ wire[1] = Frame
  BY <1>1, Received
<1>3. HostIsEmpty /\ promptController = None /\ lastSeq' = hostSeq[current]
  BY <1>1, <1>2 DEF TurnInv, EndsInv
<1>4. hostSeq[current] \in Nat
  BY <1>1 DEF TypeOK
<1>5. ASSUME NEW i \in DOMAIN wire'
      PROVE  ~IsNewEnd(wire[i])'
  <2>1. PICK j \in DOMAIN wire : wire'[i] = wire[j]
    BY <1>1, Received
  <2>2. wire[j] \in Frames
    BY LenProperties, ElementOfSeq DEF TypeOK
  <2>3. wire[j].seq \in Nat /\ wire[j].seq <= hostSeq[current]
    BY <1>1, <2>2 DEF Frames, RunInv
  <2> QED BY <1>3, <1>4, <2>1, <2>3 DEF IsNewEnd, Fresh
<1> QED BY <1>3, <1>5

(* The end of a turn: the head of the queue is sent, or nothing is active. *)
LEMMA TurnEndTurn ==
    ASSUME Inv, RunInv, TurnInv, ApplyTurnEnd
    PROVE  TurnInv'
<1> USE DEF selection, requests, host
<1>0. TypeOK /\ QueueHoldsEachPromptOnce
  BY DEF Inv
<1>1. /\ HostIsEmpty /\ promptController = None
      /\ \A i \in DOMAIN wire' : ~IsNewEnd(wire[i])'
  BY <1>0, EndArrives
<1>2. /\ UNCHANGED <<current, nextId, target, admissions, hostTurn, hostQueue, hostSeq>>
  BY DEF ApplyTurnEnd, Receives
<1>3. TurnsInv' /\ EndsInv' /\ TargetInv'
  <2>1. TurnsInv'
    BY <1>1, <1>2 DEF HostIsEmpty, TurnsInv
  <2>2. EndsInv'
    BY <1>1 DEF EndsInv
  <2>3. TargetInv'
    BY <1>2 DEF TurnInv, TargetInv
  <2> QED BY <2>1, <2>2, <2>3
<1>4. \A q \in Prompts : ~InFlight(q)
  BY <1>1 DEF TurnInv, FlightInv, Prompts, None
<1>5. PICK settled : settled = Settle(activePrompt, "ended")
  OBVIOUS
<1>6. CallsInv(Resumed(accepted, settled), None)
  BY <1>0, ResumedCalls DEF TurnInv
<1>7. CASE Drain(Head(queuedPrompts)) /\ queuedPrompts # <<>>
  <2>1. PICK r : r = Head(queuedPrompts)
    OBVIOUS
  <2>2. r \in Prompts /\ phase[r] = "queued"
    <3>1. r \in Prompts /\ r \in Range(queuedPrompts)
      BY <1>0, <1>7, <2>1, ShiftQueue DEF TypeOK
    <3> QED BY <1>0, <3>1 DEF QueueHoldsEachPromptOnce
  <2>3. /\ activePrompt' = r /\ promptController' = r /\ phase' = [phase EXCEPT ![r] = "drain"]
        /\ accepted' = accepted \ {r} /\ aborted' = aborted \ {r} /\ admitted' = admitted \ {r}
        /\ cancel' = Forget(Resumed(accepted, settled), r)
    BY <1>5, <1>7, <2>1 DEF Drain
  <2>4. /\ phase'[r] = "drain" /\ \A q \in Prompts : q # r => phase'[q] = phase[q]
    BY <1>0, <2>2, <2>3 DEF TypeOK
  <2>5. FlightInv'
    <3>1. /\ accepted \subseteq Prompts /\ aborted = {}
          /\ \A q \in accepted : phase[q] \notin {"new", "reading"}
      BY <1>0 DEF TypeOK, TurnInv, FlightInv
    <3> QED BY <1>4, <2>2, <2>3, <2>4, <3>1 DEF FlightInv, InFlight
  <2>6. CallsInv(cancel', promptController')
    <3>1. settled \in [Prompts -> LifeStates]
      BY <1>0, <1>5, SettleType DEF LifeStates
    <3>2. Resumed(accepted, settled) \in [Cancels -> Calls]
      BY <1>0, <3>1, ResumedType
    <3> QED BY <1>6, <2>2, <2>3, <3>2, ForgetCalls
  <2>7. AdmitInv'
    <3>1. \A q \in Range(admissions) : q \in Prompts /\ q # r
      BY <1>0, <2>2, RangeOfSeq DEF TypeOK, TurnInv, AdmitInv
    <3> QED BY <1>2, <2>3, <2>4, <3>1, AdmitKept DEF TurnInv
  <2> QED BY <1>3, <2>5, <2>6, <2>7 DEF TurnInv
<1>8. CASE /\ activePrompt' = None
           /\ lifecycle' = Settle(activePrompt, "ended")
           /\ cancel' = Resumed(accepted, lifecycle')
           /\ UNCHANGED <<phase, promptController, accepted, aborted, admitted>>
  <2>1. FlightInv'
    BY <1>1, <1>8 DEF TurnInv, FlightInv, InFlight
  <2>2. CallsInv(cancel', promptController')
    BY <1>1, <1>5, <1>6, <1>8
  <2>3. AdmitInv'
    BY <1>2, <1>8, AdmitKept DEF TurnInv
  <2> QED BY <1>3, <2>1, <2>2, <2>3 DEF TurnInv
<1> QED BY <1>7, <1>8 DEF ApplyTurnEnd, Drains

(* Every frame of the live stream.                                         *)
LEMMA DeliverTurn ==
    ASSUME Inv, RunInv, TurnInv, Deliver
    PROVE  TurnInv'
<1> USE DEF selection, snapshot, requests, host, promises, prompting
<1>0. TypeOK
  BY DEF Inv
<1>1. CASE ApplySnapshot \/ IgnoreEvent \/ ReportGap \/ ApplyTurnStart
  <2>1. /\ wire # <<>> /\ (wire' = Tail(wire) \/ wire' = wire)
        /\ UNCHANGED <<current, nextId, target, admissions, admitted, hostTurn, hostQueue, hostSeq>>
        /\ UNCHANGED <<activePrompt, promptController, phase, accepted, aborted>>
        /\ UNCHANGED cancel \/ cancel' = Resumed(accepted, lifecycle')
    BY <1>1 DEF ApplySnapshot, IgnoreEvent, ReportGap, ApplyTurnStart, Receives
  <2>2. lastSeq' \in Nat /\ lastSeq' >= lastSeq
    <3>1. Frame.seq \in Nat /\ lastSeq \in Nat
      <4>1. Frame \in Frames
        BY <1>0, <2>1, Received
      <4> QED BY <1>0, <4>1 DEF Frames, TypeOK
    <3> QED BY <1>1, <3>1 DEF ApplySnapshot, IgnoreEvent, ReportGap, ApplyTurnStart, Fresh
  <2>3. EndsInv'
    BY <1>0, <2>1, <2>2, EndsReceived DEF TurnInv
  <2>4. CallsInv(cancel', promptController')
    <3>1. promptController = None \/ promptController \notin accepted
      BY DEF TurnInv, FlightInv
    <3>2. CallsInv(Resumed(accepted, lifecycle'), promptController)
      BY <1>0, <3>1, ResumedCalls DEF TurnInv
    <3> QED BY <2>1, <3>2 DEF TurnInv
  <2>5. FlightInv' /\ TurnsInv' /\ TargetInv'
    BY <2>1 DEF TurnInv, FlightInv, InFlight, TurnsInv, TargetInv
  <2>6. AdmitInv'
    BY <2>1, AdmitKept DEF TurnInv
  <2> QED BY <2>3, <2>4, <2>5, <2>6 DEF TurnInv
<1>2. CASE ApplyTurnEnd
  BY <1>2, TurnEndTurn
<1> QED BY <1>1, <1>2 DEF Deliver

(* A turn ends once its prompt was answered, and leaves the Host empty.    *)
LEMMA EndEmitted ==
    ASSUME Tame, Inv, TurnInv, NEW s \in Sessions, NEW kind \in {"completed", "failed"},
           hostTurn[s] # None, MayEnd(s), Emit(s, kind),
           hostTurn' = [hostTurn EXCEPT ![s] = None],
           UNCHANGED <<hostQueue, current, activePrompt, promptController, lastSeq, admitted>>
    PROVE  TurnsInv' /\ EndsInv'
<1>0. TypeOK /\ ControllerIsInFlight
  BY DEF Inv
<1>1. /\ s = current /\ hostTurn[s] = activePrompt /\ hostQueue[s] = <<>> /\ activePrompt # None
      /\ \A t \in Sessions : t # s => hostTurn[t] = None /\ hostQueue[t] = <<>>
  BY DEF TurnInv, TurnsInv
<1>2. promptController = None
  <2>1. activePrompt \in Prompts /\ ~InFlight(activePrompt)
    BY <1>0, <1>1 DEF MayEnd, Tame, TypeOK
  <2> QED BY <1>0, <2>1 DEF ControllerIsInFlight, TurnInv, FlightInv
<1>3. HostIsEmpty' /\ ~HostIsEmpty
  <2>1. hostTurn'[s] = None /\ \A t \in Sessions : t # s => hostTurn'[t] = hostTurn[t]
    BY <1>0 DEF TypeOK
  <2> QED BY <1>1, <2>1 DEF HostIsEmpty
<1>4. ASSUME NEW i \in DOMAIN wire', IsNewEnd(wire[i])'
      PROVE  wire'[i].seq = hostSeq'[current]
  <2>1. \/ i \in DOMAIN wire /\ wire'[i] = wire[i]
        \/ wire'[i] = [kind |-> kind, seq |-> hostSeq[s] + 1]
    BY <1>0, Emitted DEF FrameKinds
  <2>2. ~(i \in DOMAIN wire /\ wire'[i] = wire[i])
    BY <1>3, <1>4 DEF TurnInv, EndsInv, IsNewEnd, Fresh
  <2>3. hostSeq'[s] = hostSeq[s] + 1
    BY <1>0, Emitted DEF FrameKinds
  <2> QED BY <1>1, <2>1, <2>2, <2>3
<1>5. EndsInv'
  BY <1>1, <1>2, <1>3, <1>4 DEF EndsInv
<1> QED BY <1>3, <1>5 DEF HostIsEmpty, TurnsInv

(* A turn starts for the active prompt, which waits on the Host.           *)
LEMMA StartEmitted ==
    ASSUME TypeOK, TurnInv, NEW s \in Sessions, TurnStarts(s)
    PROVE  TurnsInv' /\ EndsInv'
<1>1. /\ s = current /\ hostTurn[s] = None /\ hostQueue[s] = <<activePrompt>>
      /\ activePrompt \in admitted /\ activePrompt # None
      /\ \A t \in Sessions : t # s => hostTurn[t] = None /\ hostQueue[t] = <<>>
  BY DEF TurnStarts, TurnInv, TurnsInv
<1>2. /\ hostTurn' = [hostTurn EXCEPT ![s] = activePrompt]
      /\ hostQueue' = [hostQueue EXCEPT ![s] = <<>>]
      /\ Emit(s, "start") /\ lastSeq' = lastSeq
      /\ UNCHANGED <<current, activePrompt, admitted>>
  BY <1>1 DEF TurnStarts, selection, snapshot, prompting
<1>3. /\ hostTurn'[s] = activePrompt /\ hostQueue'[s] = <<>>
      /\ \A t \in Sessions : t # s => hostTurn'[t] = None /\ hostQueue'[t] = <<>>
  BY <1>1, <1>2 DEF TypeOK
<1>4. TurnsInv'
  BY <1>1, <1>2, <1>3 DEF TurnsInv
<1>5. ASSUME NEW i \in DOMAIN wire', IsNewEnd(wire[i])'
      PROVE  FALSE
  <2>1. ~HostIsEmpty
    BY <1>1 DEF HostIsEmpty
  <2>2. \/ i \in DOMAIN wire /\ wire'[i] = wire[i]
        \/ wire'[i] = [kind |-> "start", seq |-> hostSeq[s] + 1]
    BY <1>2, Emitted DEF FrameKinds
  <2> QED BY <1>2, <1>5, <2>1, <2>2 DEF TurnInv, EndsInv, IsNewEnd, Fresh
<1> QED BY <1>4, <1>5 DEF EndsInv

(* The Host takes the request in flight, when it works on nothing.         *)
LEMMA AdmitTurn ==
    ASSUME Inv, TurnInv, NEW r \in Prompts, HostAdmits(r)
    PROVE  TurnInv'
<1> USE DEF selection, snapshot, requests, prompting, promises, stream
<1>0. TypeOK /\ UnsentIsFresh
  BY DEF Inv
<1>1. /\ InFlight(r) /\ r \notin admitted /\ promptController = r /\ activePrompt = r
      /\ \A i \in DOMAIN wire : ~IsNewEnd(wire[i])
  BY OneInFlight DEF HostAdmits, TurnInv
<1>2. HostIsEmpty
  BY <1>1, NothingOnHost DEF TurnInv
<1>3. target[r] = current
  <2>1. r < nextId
    BY <1>0, <1>1 DEF UnsentIsFresh, InFlight, TypeOK, Prompts
  <2> QED BY <2>1 DEF TurnInv, TargetInv
<1>4. /\ admitted' = admitted \cup {r} /\ admissions' = Append(admissions, r)
      /\ hostQueue' = [hostQueue EXCEPT ![current] = Append(@, r)]
      /\ UNCHANGED <<current, nextId, target, phase, activePrompt, promptController, cancel>>
      /\ UNCHANGED <<accepted, aborted, wire, lastSeq, hostTurn, hostSeq>>
  BY <1>3 DEF HostAdmits
<1>5. TurnsInv'
  <2>1. Append(<<>>, r) = <<r>> /\ r # None
    BY DEF Prompts, None
  <2>2. ASSUME NEW s \in Sessions
        PROVE  hostQueue'[s] = IF s = current THEN <<r>> ELSE <<>>
    <3>1. hostQueue'[s] = IF s = current THEN Append(hostQueue[s], r) ELSE hostQueue[s]
      BY <1>0, <1>4 DEF TypeOK
    <3> QED BY <1>2, <2>1, <3>1 DEF HostIsEmpty
  <2> QED BY <1>1, <1>2, <1>4, <2>1, <2>2 DEF TurnsInv, HostIsEmpty
<1>6. EndsInv'
  BY <1>1, <1>4 DEF EndsInv, IsNewEnd, Fresh
<1>7. AdmitInv'
  <2>1. r \notin Range(admissions) /\ IsInjective(admissions)
    BY <1>1 DEF TurnInv, AdmitInv
  <2>2. IsInjective(admissions') /\ Range(admissions') = Range(admissions) \cup {r}
    BY <1>0, <1>4, <2>1, AppendQueue DEF TypeOK
  <2> QED BY <1>1, <1>4, <2>2 DEF TurnInv, AdmitInv, InFlight
<1>8. FlightInv' /\ CallsInv(cancel', promptController') /\ TargetInv'
  BY <1>4 DEF TurnInv, FlightInv, InFlight, TargetInv
<1> QED BY <1>5, <1>6, <1>7, <1>8 DEF TurnInv

(* One call of cancel() moves on.                                          *)
LEMMA CallMoves ==
    ASSUME TypeOK, TurnInv, NEW c \in Cancels, NEW call,
           cancel' = [cancel EXCEPT ![c] = call], promptController' = promptController,
           /\ call.controller \in {None, call.prompt}
           /\ call.pc \in {"sent", "answered"} =>
                 call.controller = None \/ call.controller # promptController
           /\ call.pc = "waiting" => call.prompt \in Prompts /\ call.session \in Sessions
    PROVE  CallsInv(cancel', promptController')
<1>1. cancel'[c] = call /\ \A d \in Cancels : d # c => cancel'[d] = cancel[d]
  BY DEF TypeOK
<1>2. SUFFICES ASSUME NEW d \in Cancels
               PROVE  LET other == cancel'[d]
                      IN  /\ other.controller \in {None, other.prompt}
                          /\ other.pc \in {"sent", "answered"} =>
                                other.controller = None \/ other.controller # promptController
                          /\ other.pc = "waiting" =>
                                other.prompt \in Prompts /\ other.session \in Sessions
  BY DEF CallsInv
<1>3. CASE d = c
  BY <1>1, <1>3
<1>4. CASE d # c
  <2>1. cancel'[d] = cancel[d]
    BY <1>1, <1>4
  <2> QED BY <2>1 DEF TurnInv, CallsInv
<1> QED BY <1>3, <1>4

(* cancel(), from its start to its return, aborts no request in flight.    *)
LEMMA CancelTurn ==
    ASSUME Tame, Inv, TurnInv, NEW c \in Cancels,
           CancelStart(c) \/ CancelReturns(c) \/ HostCancels(c)
    PROVE  TurnInv'
<1> USE DEF selection, snapshot, prompting, requests, promises, stream, host
<1>0. TypeOK /\ cancel[c] \in Calls
  BY DEF Inv, TypeOK
<1>1. CASE CancelStart(c)
  <2>1. PICK pc \in {"sent", "settled", "waiting"} :
           /\ cancel' = [cancel EXCEPT ![c] =
                           [pc |-> pc, prompt |-> activePrompt,
                            session |-> current, controller |-> promptController]]
           /\ pc = "sent" => activePrompt = None \/ activePrompt \in accepted
           /\ pc = "waiting" => activePrompt # None
    BY <1>1 DEF CancelStart, AfterWait
  <2>2. promptController \in {None, activePrompt}
        /\ (pc = "sent" => promptController = None)
    BY <2>1 DEF TurnInv, FlightInv
  <2>3. pc = "waiting" => activePrompt \in Prompts /\ current \in Sessions
    BY <1>0, <1>1, <2>1 DEF CancelStart, TypeOK
  <2>4. PICK call : call = [pc |-> pc, prompt |-> activePrompt,
                            session |-> current, controller |-> promptController]
    OBVIOUS
  <2>5. /\ call.pc = pc /\ call.prompt = activePrompt
        /\ call.session = current /\ call.controller = promptController
    BY <2>4
  <2>6. /\ UNCHANGED <<activePrompt, promptController, phase, nextId, target, accepted, aborted>>
        /\ UNCHANGED <<current, lastSeq, wire, admitted, admissions>>
        /\ UNCHANGED <<hostTurn, hostQueue, hostSeq>>
    BY <1>1 DEF CancelStart
  <2>7. CallsInv(cancel', promptController')
    BY <1>0, <2>1, <2>2, <2>3, <2>4, <2>5, <2>6, CallMoves
  <2>8. FlightInv' /\ TurnsInv' /\ TargetInv'
    BY <2>6 DEF TurnInv, FlightInv, InFlight, TurnsInv, TargetInv
  <2> QED BY <2>6, <2>7, <2>8, EndsKept, AdmitKept DEF TurnInv
<1>2. CASE CancelReturns(c)
  <2>1. /\ cancel[c].pc \in {"sent", "answered"}
        /\ cancel' = [cancel EXCEPT ![c] = [cancel[c] EXCEPT !.pc = "done"]]
    BY <1>2 DEF CancelReturns
  <2>2. PICK call : call = [cancel[c] EXCEPT !.pc = "done"]
    OBVIOUS
  <2>3. /\ call.pc = "done" /\ call.prompt = cancel[c].prompt
        /\ call.controller = cancel[c].controller
    BY <1>0, <2>2 DEF Calls
  <2>4. /\ UNCHANGED <<activePrompt, promptController, phase, nextId, target, accepted>>
        /\ UNCHANGED <<current, lastSeq, wire, admitted, admissions>>
        /\ UNCHANGED <<hostTurn, hostQueue, hostSeq>>
    BY <1>2 DEF CancelReturns
  <2>5. CallsInv(cancel', promptController')
    <3>1. call.controller \in {None, call.prompt}
      BY <2>3 DEF TurnInv, CallsInv
    <3> QED BY <1>0, <2>1, <2>2, <2>3, <2>4, <3>1, CallMoves
  <2>6. aborted' = aborted
    <3>1. promptController = cancel[c].controller => promptController = None
      BY <2>1 DEF TurnInv, CallsInv
    <3> QED BY <1>2, <3>1 DEF CancelReturns
  <2>7. FlightInv' /\ TurnsInv' /\ TargetInv'
    BY <2>4, <2>6 DEF TurnInv, FlightInv, InFlight, TurnsInv, TargetInv
  <2> QED BY <2>4, <2>5, <2>7, EndsKept, AdmitKept DEF TurnInv
<1>3. CASE HostCancels(c)
  <2>1. /\ cancel[c].pc = "sent"
        /\ cancel' = [cancel EXCEPT ![c] = [cancel[c] EXCEPT !.pc = "answered"]]
    BY <1>3 DEF HostCancels
  <2>2. PICK call : call = [cancel[c] EXCEPT !.pc = "answered"]
    OBVIOUS
  <2>3. /\ call.pc = "answered" /\ call.prompt = cancel[c].prompt
        /\ call.controller = cancel[c].controller
    BY <1>0, <2>2 DEF Calls
  <2>4. /\ UNCHANGED <<activePrompt, promptController, phase, nextId, target, accepted, aborted>>
        /\ UNCHANGED <<current, lastSeq, admitted, admissions, hostQueue>>
    BY <1>3 DEF HostCancels
  <2>5. CallsInv(cancel', promptController')
    <3>1. /\ call.controller \in {None, call.prompt}
          /\ call.controller = None \/ call.controller # promptController
      BY <2>1, <2>3 DEF TurnInv, CallsInv
    <3> QED BY <1>0, <2>1, <2>2, <2>3, <2>4, <3>1, CallMoves
  <2>6. FlightInv' /\ TargetInv' /\ AdmitInv'
    BY <2>4, AdmitKept DEF TurnInv, FlightInv, InFlight, TargetInv
  <2>7. CASE UNCHANGED <<hostTurn, hostSeq, wire>>
    BY <2>4, <2>5, <2>6, <2>7, EndsKept DEF TurnInv, TurnsInv
  <2>8. ASSUME NEW s \in Sessions, hostTurn[s] # None, MayEnd(s), Emit(s, "failed"),
               hostTurn' = [hostTurn EXCEPT ![s] = None]
        PROVE  TurnInv'
    BY <2>4, <2>5, <2>6, <2>8, EndEmitted DEF TurnInv
  <2> QED BY <1>0, <1>3, <2>7, <2>8, CancelEnds
<1> QED BY <1>1, <1>2, <1>3

(* The one selection finds a service that was asked nothing.               *)
LEMMA SelectTurn ==
    ASSUME Inv, SelectedInv, TurnInv, SelectCommit
    PROVE  TurnInv'
<1> USE DEF requests, host
<1>0. TypeOK
  BY DEF Inv
<1>1. Untouched
  BY DEF SelectCommit, SelectedInv
<1>2. /\ activePrompt' = None /\ promptController' = None /\ nextId' = 1 /\ wire' = <<>>
      /\ UNCHANGED <<aborted, accepted, cancel, admitted, admissions, hostTurn, hostQueue>>
      /\ \A q \in Prompts : phase'[q] = phase[q]
  BY <1>1 DEF SelectCommit, DropPrompts, Untouched
<1>3. FlightInv' /\ CallsInv(cancel', promptController')
  <2>1. accepted \subseteq Prompts /\ promptController = None
    BY <1>0, <1>1 DEF TypeOK, Untouched
  <2> QED BY <1>2, <2>1 DEF TurnInv, FlightInv, InFlight
<1>4. TurnsInv'
  <2>1. HostIsEmpty
    BY <1>1, NothingOnHost DEF TurnInv, Untouched
  <2> QED BY <1>2, <2>1 DEF HostIsEmpty, TurnsInv
<1>5. EndsInv'
  <2>1. DOMAIN wire' = {}
    BY <1>2
  <2> QED BY <2>1 DEF EndsInv
<1>6. TargetInv'
  BY <1>2 DEF TargetInv, Prompts
<1>7. AdmitInv'
  <2>1. \A q \in Range(admissions) : q \in Prompts
    BY <1>0, RangeOfSeq DEF TypeOK
  <2> QED BY <1>2, <2>1, AdmitKept DEF TurnInv
<1> QED BY <1>3, <1>4, <1>5, <1>6, <1>7 DEF TurnInv

(* Each step keeps it at one turn.                                         *)
LEMMA TurnStep ==
    ASSUME Tame, Inv, RunInv, SelectedInv, TurnInv, [Next]_vars
    PROVE  TurnInv'
<1> USE DEF selection, snapshot, prompting, requests, promises, stream, host
<1> DEFINE Rest == /\ UNCHANGED <<activePrompt, promptController, phase, nextId, target, accepted>>
                   /\ UNCHANGED <<aborted, cancel, current, admitted, admissions, hostQueue>>
<1>0. TypeOK
  BY DEF Inv
<1>1. ASSUME Rest
      PROVE  /\ FlightInv' /\ CallsInv(cancel', promptController')
             /\ TargetInv' /\ AdmitInv'
  BY <1>1, AdmitKept DEF TurnInv, FlightInv, InFlight, TargetInv
<1>2. ASSUME Rest, hostTurn' = hostTurn, EndsInv' PROVE TurnInv'
  BY <1>1, <1>2 DEF TurnInv, TurnsInv
<1>3. CASE \/ SelectFails \/ UNCHANGED vars \/ \E s \in Sessions : SelectStart(s)
  <2>1. Rest /\ UNCHANGED <<wire, lastSeq, hostSeq, hostTurn>>
    BY <1>3 DEF SelectFails, SelectStart, vars
  <2> QED BY <1>2, <2>1, EndsKept DEF TurnInv
<1>4. CASE StreamEnds
  <2>1. Rest /\ hostTurn' = hostTurn /\ DOMAIN wire' = {}
    BY <1>4 DEF StreamEnds
  <2>2. EndsInv'
    BY <2>1 DEF EndsInv
  <2> QED BY <1>2, <2>1, <2>2
<1>5. CASE StreamOpens
  <2>1. Rest /\ hostTurn' = hostTurn /\ wire' = <<[kind |-> "snapshot", seq |-> hostSeq[current]]>>
    BY <1>5 DEF StreamOpens
  <2>2. \A i \in DOMAIN wire' : wire'[i].kind = "snapshot"
    BY <2>1
  <2>3. EndsInv'
    BY <2>2 DEF EndsInv, IsNewEnd
  <2> QED BY <1>2, <2>1, <2>3
<1>6. CASE LoseEvent
  <2>1. /\ Rest /\ UNCHANGED <<hostTurn, lastSeq, hostSeq>>
        /\ wire # <<>> /\ wire' = Tail(wire)
    BY <1>6 DEF LoseEvent
  <2>2. lastSeq' \in Nat /\ lastSeq' >= lastSeq
    BY <1>0, <2>1 DEF TypeOK
  <2>3. EndsInv'
    BY <1>0, <2>1, <2>2, EndsReceived DEF TurnInv
  <2> QED BY <1>2, <2>1, <2>3
<1>7. ASSUME NEW s \in Sessions, TurnStarts(s) PROVE TurnInv'
  <2>1. Rest \/ UNCHANGED <<activePrompt, promptController, phase, nextId, target, accepted,
                            aborted, cancel, current, admitted, admissions>>
    BY <1>7 DEF TurnStarts
  <2>2. FlightInv' /\ CallsInv(cancel', promptController') /\ TargetInv' /\ AdmitInv'
    BY <2>1, AdmitKept DEF TurnInv, FlightInv, InFlight, TargetInv
  <2>3. TurnsInv' /\ EndsInv'
    BY <1>0, <1>7, StartEmitted
  <2> QED BY <2>2, <2>3 DEF TurnInv
<1>8. ASSUME NEW s \in Sessions, NEW kind \in {"completed", "failed"}, TurnEnds(s, kind)
      PROVE  TurnInv'
  <2>1. Rest /\ lastSeq' = lastSeq
    BY <1>8 DEF TurnEnds
  <2>2. TurnsInv' /\ EndsInv'
    BY <1>8, <2>1, EndEmitted DEF TurnEnds, MayEnd
  <2> QED BY <1>1, <2>1, <2>2 DEF TurnInv
<1>9. ~Dispose /\ \A s \in Sessions : ~ForeignTurnStarts(s)
  BY DEF Dispose, ForeignTurnStarts, Tame, OneSelection
<1>10. CASE Host
  <2>1. ASSUME NEW s \in Sessions, TurnEnds(s, "completed") \/ TurnEnds(s, "failed")
        PROVE  TurnInv'
    BY <1>8, <2>1
  <2> QED BY <1>5, <1>6, <1>7, <1>9, <1>10, <2>1, AdmitTurn, CancelTurn DEF Host
<1>11. CASE Client
  BY <1>3, <1>4, <1>9, <1>11, SubmitTurn, ReplyTurn, DeliverTurn, CancelTurn, SelectTurn
  DEF Client, Submit
<1> QED BY <1>3, <1>10, <1>11 DEF Next

(* The invariant of one turn at a time.                                    *)
LEMMA TurnHolds == ASSUME Tame PROVE Spec => [](Inv /\ SelectedInv /\ TurnInv)
<1>1. Init => TurnInv
  <2> SUFFICES ASSUME Init PROVE TurnInv
    OBVIOUS
  <2>1. /\ \A c \in Cancels : cancel[c] = NoCancel
        /\ DOMAIN wire = {} /\ Range(admissions) = {} /\ IsInjective(admissions)
    BY DEF Init, Range, IsInjective
  <2>2. CallsInv(cancel, promptController)
    BY <2>1 DEF CallsInv, NoCancel
  <2>3. FlightInv /\ TurnsInv /\ TargetInv
    BY DEF Init, FlightInv, InFlight, TurnsInv, TargetInv, Prompts
  <2> QED BY <2>1, <2>2, <2>3 DEF TurnInv, EndsInv, AdmitInv
<1>2. Inv /\ RunInv /\ SelectedInv /\ TurnInv /\ [Next]_vars => TurnInv'
  BY TurnStep
<1>3. OneSelection
  BY DEF Tame
<1>4. Spec => []SelectedInv
  BY <1>3, SelectedHolds
<1> QED BY <1>1, <1>2, <1>4, InvHolds, RunHolds, PTL DEF Spec

(* The Host takes a prompt at most once: a failed drain that is put back,  *)
(* a cancel(), a repeated event never send again what was taken            *)
(* (sendPrompt, drainPromptQueue).                                         *)
THEOREM EachPromptTakenOnce == ASSUME Tame PROVE Spec => []TakenAtMostOnce
<1>1. TurnInv => TakenAtMostOnce
  BY DEF TurnInv, AdmitInv, TakenAtMostOnce
<1> QED BY <1>1, TurnHolds, PTL

(* A call of cancel() that stops waiting with success waited for a prompt  *)
(* that the Host does not work on.                                         *)
LEMMA SettledStep ==
    ASSUME Tame, Inv, RunInv, TurnInv, [Next]_vars, NEW c \in Cancels,
           cancel[c].pc = "waiting", cancel'[c].pc = "settled"
    PROVE  ~OnHost(cancel[c].prompt, cancel[c].session)
<1> USE DEF selection, snapshot, prompting, requests, promises, stream, host
<1>0. /\ TypeOK /\ ActivePromptIsAlive
      /\ cancel[c] \in Calls /\ cancel[c].prompt \in Prompts /\ cancel[c].session \in Sessions
      /\ cancel[c].prompt # None
  <2>1. TypeOK /\ ActivePromptIsAlive /\ CallsInv(cancel, promptController)
    BY DEF Inv, TurnInv
  <2>2. cancel[c].prompt \in Prompts /\ cancel[c].session \in Sessions
    BY <2>1 DEF CallsInv
  <2>3. cancel[c] \in Calls
    BY <2>1 DEF TypeOK
  <2> QED BY <2>1, <2>2, <2>3 DEF Prompts, None
<1>1. HostIsEmpty => ~OnHost(cancel[c].prompt, cancel[c].session)
  BY <1>0 DEF HostIsEmpty, OnHost, Range
<1>2. OnHost(cancel[c].prompt, cancel[c].session) =>
         cancel[c].prompt = activePrompt /\ activePrompt \in admitted
  <2>1. Range(<<activePrompt>>) = {activePrompt} /\ Range(<<>>) = {}
    BY DEF Range
  <2> QED BY <1>0, <2>1 DEF OnHost, TurnInv, TurnsInv
<1>3. \A taken, life :
         Resumed(taken, life)[c].pc = "settled" => life[cancel[c].prompt] = "ended"
  <2> SUFFICES ASSUME NEW taken, NEW life, Resumed(taken, life)[c].pc = "settled",
                      life[cancel[c].prompt] # "ended"
               PROVE  FALSE
    OBVIOUS
  <2>1. \/ Resumed(taken, life)[c] = cancel[c]
        \/ Resumed(taken, life)[c] = [cancel[c] EXCEPT !.pc = "sent"]
    BY DEF Resumed, AfterWait
  <2> QED BY <1>0, <2>1 DEF Calls
<1>4. cancel[c].prompt = activePrompt => lifecycle[cancel[c].prompt] # "ended"
  BY <1>0 DEF ActivePromptIsAlive
<1>5. cancel' # cancel
  BY <1>0
<1>6. ASSUME NEW r \in Prompts, ReplyOk(r)
      PROVE  ~OnHost(cancel[c].prompt, cancel[c].session)
  <2>1. lifecycle[cancel[c].prompt] = "ended"
    BY <1>3, <1>6 DEF ReplyOk
  <2> QED BY <1>2, <1>4, <2>1
<1>7. ASSUME NEW r \in Prompts, NEW thrown \in BOOLEAN, ReplyFails(r, thrown)
      PROVE  ~OnHost(cancel[c].prompt, cancel[c].session)
  <2>1. activePrompt = r /\ r \notin aborted /\ r \notin admitted
    BY <1>7, OneInFlight DEF ReplyFails, MayFail, Tame, TurnInv, FlightInv
  <2> QED BY <1>2, <2>1
<1>8. CASE ApplyTurnStart
  <2>1. lifecycle'[cancel[c].prompt] = "ended" /\ lifecycle' = Settle(activePrompt, "started")
    BY <1>3, <1>8 DEF ApplyTurnStart
  <2>2. lifecycle[cancel[c].prompt] = "ended"
    BY <1>0, <2>1 DEF Settle, TypeOK
  <2> QED BY <1>2, <1>4, <2>2
<1>9. CASE ApplyTurnEnd
  BY <1>0, <1>1, <1>9, EndArrives
<1>10. ASSUME NEW r \in Prompts, Prompt(r) \/ PromptImage(r) \/ ImageRead(r) PROVE FALSE
  <2>1. cancel' = cancel \/ cancel' = Forget(cancel, r)
    BY <1>10 DEF Prompt, PromptImage, ImageRead, QueueOrSendPrompt, Enqueue, Send, SendFails
  <2>2. Forget(cancel, r)[c].pc = cancel[c].pc
    BY <1>0 DEF Forget, Calls
  <2> QED BY <1>5, <2>1, <2>2
<1>11. ASSUME NEW d \in Cancels, CancelStart(d) \/ CancelReturns(d) \/ HostCancels(d) PROVE FALSE
  <2>1. cancel[d].pc \in {"idle", "sent", "answered"} /\ d # c
    BY <1>11 DEF CancelStart, CancelReturns, HostCancels
  <2>2. \E call : cancel' = [cancel EXCEPT ![d] = call]
    BY <1>11 DEF CancelStart, CancelReturns, HostCancels
  <2> QED BY <1>0, <2>1, <2>2 DEF TypeOK
<1>12. ~(ApplySnapshot \/ IgnoreEvent \/ ReportGap \/ StreamEnds \/ SelectCommit \/ SelectFails)
       /\ ~(Dispose \/ UNCHANGED vars \/ \E s \in Sessions : SelectStart(s))
  BY <1>5 DEF ApplySnapshot, IgnoreEvent, ReportGap, StreamEnds, SelectCommit, SelectFails,
              Dispose, SelectStart, vars
<1>13. ~(\E r \in Prompts : HostAdmits(r)) /\ ~StreamOpens /\ ~LoseEvent
       /\ \A s \in Sessions : ~(\/ TurnStarts(s) \/ ForeignTurnStarts(s)
                                \/ TurnEnds(s, "completed") \/ TurnEnds(s, "failed"))
  BY <1>5 DEF HostAdmits, StreamOpens, LoseEvent, TurnStarts, ForeignTurnStarts, TurnEnds
<1>14. CASE Client
  BY <1>6, <1>7, <1>8, <1>9, <1>10, <1>11, <1>12, <1>14 DEF Client, Submit, Reply, Deliver
<1>15. CASE Host
  BY <1>11, <1>13, <1>15 DEF Host
<1> QED BY <1>12, <1>14, <1>15 DEF Next

(* cancel() reports success without asking the Host only when the prompt   *)
(* it waited for is not, and will not be, running there (cancel awaits     *)
(* 'accepted' and 'lifecycle'; sendPrompt and the live events settle them).*)
THEOREM SettledCancelIsSound == ASSUME Tame PROVE Spec => SettledCancelMeansNotRunning
<1>1. Inv /\ RunInv /\ TurnInv /\ [Next]_vars =>
         [\A c \in Cancels :
             cancel[c].pc = "waiting" /\ cancel'[c].pc = "settled"
                => ~OnHost(cancel[c].prompt, cancel[c].session)]_vars
  <2> SUFFICES ASSUME Inv, RunInv, TurnInv, Next, NEW c \in Cancels,
                      cancel[c].pc = "waiting", cancel'[c].pc = "settled"
               PROVE  ~OnHost(cancel[c].prompt, cancel[c].session)
    OBVIOUS
  <2> QED BY SettledStep
<1> QED BY <1>1, TurnHolds, RunHolds, PTL DEF Spec, SettledCancelMeansNotRunning

-----------------------------------------------------------------------------
(***************************************************************************)
(* The order of the turns.  promptImage() reads its file before it takes   *)
(* its place, so the order of submission is claimed for plain prompts.     *)
(***************************************************************************)
Increasing(seq) == \A i, j \in DOMAIN seq : i < j => seq[i] < seq[j]

OrderInv ==
    /\ \A r \in Prompts : phase[r] # "reading"
    /\ Increasing(admissions) /\ Increasing(queuedPrompts)
    \* what waits or is on its way is later than what the Host took
    /\ \A q \in Range(admissions) : \A r \in Prompts :
          phase[r] = "queued" \/ (InFlight(r) /\ r \notin Range(admissions)) => q < r
    \* what waits is later than what is on its way
    /\ \A q, r \in Prompts : InFlight(q) /\ phase[r] = "queued" => q < r

(* A later element can be appended to an increasing queue.                 *)
LEMMA AppendIncreasing ==
    ASSUME NEW q \in Seq(Prompts), Increasing(q), NEW e \in Prompts,
           \A x \in Range(q) : x < e
    PROVE  Increasing(Append(q, e))
<1> PICK a : a = Append(q, e)
  OBVIOUS
<1> PICK n : n = Len(q)
  OBVIOUS
<1>1. /\ n \in Nat /\ DOMAIN q = 1..n /\ DOMAIN a = 1..(n + 1)
      /\ a[n + 1] = e /\ \A i \in 1..n : a[i] = q[i]
  BY AppendProperties, LenProperties
<1>2. \A i \in 1..n : q[i] < e
  BY <1>1 DEF Range
<1>3. ASSUME NEW i \in 1..(n + 1), NEW j \in 1..(n + 1), i < j PROVE a[i] < a[j]
  <2>1. i \in 1..n /\ a[i] = q[i] /\ (j = n + 1 \/ j \in 1..n)
    BY <1>1, <1>3
  <2>2. CASE j = n + 1
    BY <1>1, <1>2, <2>1, <2>2
  <2>3. CASE j \in 1..n
    BY <1>1, <1>3, <2>1, <2>3 DEF Increasing
  <2> QED BY <2>1, <2>2, <2>3
<1> QED BY <1>1, <1>3 DEF Increasing

(* An earlier element can be put in front of an increasing queue.          *)
LEMMA RequeueIncreasing ==
    ASSUME NEW q \in Seq(Prompts), Increasing(q), NEW e \in Prompts,
           \A x \in Range(q) : e < x
    PROVE  Increasing(<<e>> \o q)
<1> PICK a : a = <<e>> \o q
  OBVIOUS
<1> PICK n : n = Len(q)
  OBVIOUS
<1>0. <<e>> \in Seq(Prompts) /\ Len(<<e>>) = 1 /\ <<e>>[1] = e
  OBVIOUS
<1>1. /\ n \in Nat /\ DOMAIN q = 1..n /\ a \in Seq(Prompts) /\ Len(a) = n + 1
      /\ \A i \in 1..(n + 1) : a[i] = IF i <= 1 THEN <<e>>[i] ELSE q[i - 1]
  BY <1>0, ConcatProperties, LenProperties
<1>2. DOMAIN a = 1..(n + 1)
  BY <1>1, LenProperties
<1>3. \A i \in 1..n : e < q[i]
  BY <1>1 DEF Range
<1>4. ASSUME NEW i \in 1..(n + 1), NEW j \in 1..(n + 1), i < j PROVE a[i] < a[j]
  <2>1. j - 1 \in 1..n /\ a[j] = q[j - 1]
    BY <1>1, <1>4
  <2>2. CASE i = 1
    <3>1. a[i] = e
      BY <1>0, <1>1, <2>2
    <3> QED BY <1>3, <2>1, <3>1
  <2>3. CASE i # 1
    <3>1. i - 1 \in 1..n /\ a[i] = q[i - 1] /\ i - 1 < j - 1
      BY <1>1, <1>4, <2>3
    <3> QED BY <1>1, <2>1, <3>1 DEF Increasing
  <2> QED BY <2>2, <2>3
<1> QED BY <1>2, <1>4 DEF Increasing

(* The head of an increasing queue is before the rest.                     *)
LEMMA ShiftIncreasing ==
    ASSUME NEW q \in Seq(Prompts), Increasing(q), q # <<>>
    PROVE  Increasing(Tail(q)) /\ \A x \in Range(Tail(q)) : Head(q) < x
<1> PICK t : t = Tail(q)
  OBVIOUS
<1> PICK n : n = Len(q)
  OBVIOUS
<1>1. /\ n \in Nat /\ n # 0 /\ DOMAIN q = 1..n /\ Head(q) = q[1]
      /\ t \in Seq(Prompts) /\ Len(t) = n - 1
      /\ \A i \in 1..(n - 1) : t[i] = q[i + 1]
  BY HeadTailProperties, LenProperties, EmptySeq
<1>2. DOMAIN t = 1..(n - 1)
  BY <1>1, LenProperties
<1>3. ASSUME NEW i \in 1..(n - 1), NEW j \in 1..(n - 1), i < j PROVE t[i] < t[j]
  <2>1. i + 1 \in 1..n /\ j + 1 \in 1..n /\ i + 1 < j + 1
    BY <1>1, <1>3
  <2> QED BY <1>1, <2>1 DEF Increasing
<1>4. ASSUME NEW i \in 1..(n - 1) PROVE q[1] < t[i]
  <2>1. 1 \in 1..n /\ i + 1 \in 1..n /\ 1 < i + 1
    BY <1>1
  <2> QED BY <1>1, <2>1 DEF Increasing
<1> QED BY <1>1, <1>2, <1>3, <1>4 DEF Increasing, Range

(* Steps in which prompts only leave the queue and the wire keep the order.*)
LEMMA OrderKept ==
    ASSUME OrderInv, admissions' = admissions, Increasing(queuedPrompts'),
           \A q \in Prompts : /\ phase'[q] # "reading"
                              /\ phase'[q] = "queued" => phase[q] = "queued"
                              /\ InFlight(q)' => InFlight(q)
    PROVE  OrderInv'
BY DEF OrderInv, Increasing

(* A new prompt is later than all that were submitted before it.           *)
LEMMA SubmitOrder ==
    ASSUME Images = {}, Inv, TurnInv, OrderInv, NEW r \in Prompts,
           Prompt(r) \/ PromptImage(r) \/ ImageRead(r)
    PROVE  OrderInv'
<1>0. TypeOK /\ QueueHoldsEachPromptOnce /\ UnsentIsFresh
  BY DEF Inv
<1>1. Prompt(r)
  BY DEF PromptImage, ImageRead, OrderInv
<1>2. r = nextId /\ QueueOrSendPrompt(r, running) /\ admissions' = admissions
  BY <1>1 DEF Prompt
<1>3. \A q \in Prompts : phase[q] # "new" => q < r
  BY <1>0, <1>2 DEF UnsentIsFresh, Prompts, TypeOK
<1>4. PICK p \in {"queued", "direct", "failed"} : phase' = [phase EXCEPT ![r] = p]
  BY <1>2 DEF QueueOrSendPrompt, Enqueue, Send, SendFails
<1>5. /\ phase'[r] = p /\ \A q \in Prompts : q # r => phase'[q] = phase[q]
      /\ phase[r] = "new"
  BY <1>0, <1>2, <1>4 DEF TypeOK, UnsentIsFresh, Prompts
<1>6. \A q \in Range(admissions) : q \in Prompts /\ q < r
  BY <1>0, <1>3, RangeOfSeq DEF TypeOK, TurnInv, AdmitInv
<1>7. Increasing(queuedPrompts')
  <2>1. CASE Enqueue(r)
    <3>1. \A q \in Range(queuedPrompts) : q \in Prompts /\ q < r
      BY <1>0, <1>3, RangeOfSeq DEF TypeOK, QueueHoldsEachPromptOnce
    <3> QED BY <1>0, <2>1, <3>1, AppendIncreasing DEF Enqueue, OrderInv, TypeOK
  <2>2. CASE ~Enqueue(r)
    BY <1>2, <2>2 DEF QueueOrSendPrompt, Send, SendFails, OrderInv
  <2> QED BY <2>1, <2>2
<1>8. \A q \in Range(admissions) : \A x \in Prompts :
         phase'[x] = "queued" \/ (InFlight(x)' /\ x \notin Range(admissions)) => q < x
  <2> SUFFICES ASSUME NEW q \in Range(admissions), NEW x \in Prompts,
                      phase'[x] = "queued" \/ (InFlight(x)' /\ x \notin Range(admissions))
               PROVE  q < x
    OBVIOUS
  <2>1. CASE x = r
    BY <1>6, <2>1
  <2>2. CASE x # r
    BY <1>5, <2>2 DEF OrderInv, InFlight
  <2> QED BY <2>1, <2>2
<1>9. \A q, x \in Prompts : InFlight(q)' /\ phase'[x] = "queued" => q < x
  <2> SUFFICES ASSUME NEW q \in Prompts, NEW x \in Prompts, InFlight(q)', phase'[x] = "queued"
               PROVE  q < x
    OBVIOUS
  <2>1. CASE q = r
    <3>1. p = "direct" /\ x # r /\ phase[x] = "queued"
      BY <1>5, <2>1 DEF InFlight
    <3>2. queuedPrompts = <<>>
      BY <1>0, <1>2, <1>5, <3>1 DEF QueueOrSendPrompt, Enqueue, TypeOK
    <3>3. x \in Range(queuedPrompts)
      BY <1>0, <3>1 DEF QueueHoldsEachPromptOnce
    <3> QED BY <3>2, <3>3 DEF Range
  <2>2. CASE q # r /\ x = r
    BY <1>3, <1>5, <2>2 DEF InFlight
  <2>3. CASE q # r /\ x # r
    BY <1>5, <2>3 DEF OrderInv, InFlight
  <2> QED BY <2>1, <2>2, <2>3
<1>10. \A q \in Prompts : phase'[q] # "reading"
  BY <1>5 DEF OrderInv
<1> QED BY <1>2, <1>7, <1>8, <1>9, <1>10 DEF OrderInv

(* A drained prompt that failed goes back before all that wait.            *)
LEMMA ReplyOrder ==
    ASSUME Tame, Inv, TurnInv, OrderInv, NEW r \in Prompts, Reply(r)
    PROVE  OrderInv'
<1>0. TypeOK /\ QueueHoldsEachPromptOnce
  BY DEF Inv
<1>1. InFlight(r) /\ admissions' = admissions
  BY DEF Reply, ReplyOk, ReplyFails, host
<1>2. \A q \in Prompts : InFlight(q) => q = r
  BY <1>1, OneInFlight DEF TurnInv
<1>3. PICK p \in {"done", "failed", "queued"} : phase' = [phase EXCEPT ![r] = p]
  BY DEF Reply, ReplyOk, ReplyFails, Requeue
<1>4. /\ phase'[r] = p /\ \A q \in Prompts : q # r => phase'[q] = phase[q]
  BY <1>0, <1>3 DEF TypeOK
<1>5. CASE p \in {"done", "failed"}
  <2>1. queuedPrompts' = queuedPrompts
    BY <1>0, <1>4, <1>5 DEF Reply, ReplyOk, ReplyFails, Requeue, TypeOK
  <2>2. \A q \in Prompts : /\ phase'[q] # "reading"
                           /\ phase'[q] = "queued" => phase[q] = "queued"
                           /\ InFlight(q)' => InFlight(q)
    BY <1>4, <1>5 DEF InFlight, OrderInv
  <2> QED BY <1>1, <2>1, <2>2, OrderKept DEF OrderInv
<1>6. CASE p = "queued"
  <2>1. queuedPrompts' = <<r>> \o queuedPrompts /\ r \notin admitted
    <3>1. PICK thrown \in BOOLEAN : ReplyFails(r, thrown) /\ Requeue(r)
      BY <1>0, <1>4, <1>6 DEF Reply, ReplyOk, ReplyFails, TypeOK
    <3> QED BY <3>1 DEF ReplyFails, Requeue, MayFail, Tame, TurnInv, FlightInv
  <2>2. r \notin Range(admissions)
    BY <1>1, <2>1 DEF TurnInv, AdmitInv
  <2>3. \A x \in Range(queuedPrompts) : x \in Prompts /\ r < x
    BY <1>0, <1>1, RangeOfSeq DEF TypeOK, QueueHoldsEachPromptOnce, OrderInv
  <2>4. Increasing(queuedPrompts')
    BY <1>0, <2>1, <2>3, RequeueIncreasing DEF OrderInv, TypeOK
  <2>5. \A q \in Prompts : ~InFlight(q)' /\ phase'[q] # "reading"
    BY <1>2, <1>4, <1>6 DEF InFlight, OrderInv
  <2>6. \A q \in Range(admissions) : \A x \in Prompts : phase'[x] = "queued" => q < x
    <3> SUFFICES ASSUME NEW q \in Range(admissions), NEW x \in Prompts, phase'[x] = "queued"
                 PROVE  q < x
      OBVIOUS
    <3>1. phase[x] = "queued" \/ (InFlight(x) /\ x \notin Range(admissions))
      BY <1>1, <1>4, <2>2
    <3> QED BY <3>1 DEF OrderInv
  <2> QED BY <1>1, <2>4, <2>5, <2>6 DEF OrderInv
<1> QED BY <1>5, <1>6

(* What is drained is the earliest that waits.                             *)
LEMMA TurnEndOrder ==
    ASSUME Inv, RunInv, TurnInv, OrderInv, ApplyTurnEnd
    PROVE  OrderInv'
<1>0. TypeOK /\ QueueHoldsEachPromptOnce
  BY DEF Inv
<1>1. admissions' = admissions
  BY DEF ApplyTurnEnd, Receives
<1>2. CASE Drain(Head(queuedPrompts)) /\ queuedPrompts # <<>>
  <2>1. PICK r : r = Head(queuedPrompts)
    OBVIOUS
  <2>2. PICK t : t = Tail(queuedPrompts)
    OBVIOUS
  <2>3. /\ r \in Prompts /\ phase[r] = "queued" /\ Range(t) = Range(queuedPrompts) \ {r}
    <3>1. /\ r \in Prompts /\ r \in Range(queuedPrompts)
          /\ Range(t) = Range(queuedPrompts) \ {r}
      BY <1>0, <1>2, <2>1, <2>2, ShiftQueue DEF TypeOK, QueueHoldsEachPromptOnce
    <3> QED BY <1>0, <3>1 DEF QueueHoldsEachPromptOnce
  <2>4. Increasing(t) /\ \A x \in Range(t) : r < x
    BY <1>0, <1>2, <2>1, <2>2, ShiftIncreasing DEF TypeOK, OrderInv
  <2>5. queuedPrompts' = t /\ phase' = [phase EXCEPT ![r] = "drain"]
    BY <1>2, <2>1, <2>2 DEF Drain, Shift
  <2>6. /\ phase'[r] = "drain" /\ \A q \in Prompts : q # r => phase'[q] = phase[q]
    BY <1>0, <2>3, <2>5 DEF TypeOK
  <2>7. \A q \in Prompts : ~InFlight(q)
    BY <1>0, EndArrives DEF TurnInv, FlightInv, Prompts, None
  <2>8. \A q \in Prompts : InFlight(q)' => q = r
    BY <2>6, <2>7 DEF InFlight
  <2>9. \A x \in Prompts : phase'[x] = "queued" => phase[x] = "queued" /\ r < x
    BY <1>0, <2>3, <2>4, <2>6 DEF QueueHoldsEachPromptOnce
  <2>10. \A q \in Range(admissions) : \A x \in Prompts :
            phase'[x] = "queued" \/ (InFlight(x)' /\ x \notin Range(admissions)) => q < x
    BY <2>3, <2>8, <2>9 DEF OrderInv
  <2>11. \A q \in Prompts : phase'[q] # "reading"
    BY <2>6 DEF OrderInv
  <2> QED BY <1>1, <2>4, <2>5, <2>8, <2>9, <2>10, <2>11 DEF OrderInv
<1>3. CASE UNCHANGED <<queuedPrompts, phase>>
  BY <1>1, <1>3, OrderKept DEF OrderInv, InFlight
<1> QED BY <1>2, <1>3 DEF ApplyTurnEnd, Drains

(* The Host takes the request in flight, later than all it took.           *)
LEMMA AdmitOrder ==
    ASSUME Inv, TurnInv, OrderInv, NEW r \in Prompts, HostAdmits(r)
    PROVE  OrderInv'
<1>0. TypeOK
  BY DEF Inv
<1>1. /\ InFlight(r) /\ r \notin admitted /\ admissions' = Append(admissions, r)
      /\ UNCHANGED <<phase, queuedPrompts>>
  BY DEF HostAdmits, prompting
<1>2. \A q \in Prompts : InFlight(q) => q = r
  BY <1>1, OneInFlight DEF TurnInv
<1>3. r \notin Range(admissions)
  BY <1>1 DEF TurnInv, AdmitInv
<1>4. \A q \in Range(admissions) : q < r
  BY <1>1, <1>3 DEF OrderInv
<1>5. Increasing(admissions')
  BY <1>0, <1>1, <1>4, AppendIncreasing DEF OrderInv, TypeOK
<1>6. Range(admissions') = Range(admissions) \cup {r}
  BY <1>0, <1>1, AppendQueue DEF TypeOK
<1>7. \A q \in Range(admissions') : \A x \in Prompts :
         phase[x] = "queued" \/ (InFlight(x) /\ x \notin Range(admissions')) => q < x
  BY <1>1, <1>2, <1>6 DEF OrderInv
<1> QED BY <1>1, <1>5, <1>7 DEF OrderInv, InFlight

(* Each step keeps the order.                                              *)
LEMMA OrderStep ==
    ASSUME Tame, Images = {}, Inv, RunInv, SelectedInv, TurnInv, OrderInv, [Next]_vars
    PROVE  OrderInv'
<1> USE DEF selection, snapshot, prompting, requests, promises, stream, host
<1>1. UNCHANGED <<admissions, queuedPrompts, phase>> => OrderInv'
  BY OrderKept DEF OrderInv, InFlight
<1>2. CASE SelectCommit
  <2>1. Untouched
    BY <1>2 DEF SelectCommit, SelectedInv
  <2>2. UNCHANGED <<admissions, queuedPrompts>> /\ \A q \in Prompts : phase'[q] = phase[q]
    BY <1>2, <2>1 DEF SelectCommit, DropPrompts, Untouched
  <2> QED BY <2>2, OrderKept DEF OrderInv, InFlight
<1>3. CASE ApplySnapshot \/ IgnoreEvent \/ ReportGap \/ ApplyTurnStart
  <2>1. UNCHANGED <<admissions, queuedPrompts, phase>>
    BY <1>3 DEF ApplySnapshot, IgnoreEvent, ReportGap, ApplyTurnStart, Receives
  <2> QED BY <1>1, <2>1
<1>4. CASE \/ StreamEnds \/ SelectFails \/ UNCHANGED vars
           \/ \E s \in Sessions : SelectStart(s)
           \/ \E c \in Cancels : CancelStart(c) \/ CancelReturns(c)
  <2>1. UNCHANGED <<admissions, queuedPrompts, phase>>
    BY <1>4 DEF StreamEnds, SelectFails, SelectStart, CancelStart, CancelReturns, vars
  <2> QED BY <1>1, <2>1
<1>5. CASE Host /\ \A r \in Prompts : ~HostAdmits(r)
  <2>1. UNCHANGED <<admissions, queuedPrompts, phase>>
    BY <1>5 DEF Host, TurnStarts, ForeignTurnStarts, TurnEnds, HostCancels, StreamOpens, LoseEvent
  <2> QED BY <1>1, <2>1
<1>6. ASSUME NEW r \in Prompts, HostAdmits(r) PROVE OrderInv'
  BY <1>6, AdmitOrder
<1>7. CASE Submit \/ \E r \in Prompts : ImageRead(r) \/ Reply(r)
  BY <1>7, SubmitOrder, ReplyOrder DEF Submit
<1>8. CASE Deliver
  BY <1>3, <1>8, TurnEndOrder DEF Deliver
<1>9. ~Dispose
  BY DEF Dispose, Tame, OneSelection
<1>10. CASE Client
  BY <1>2, <1>4, <1>7, <1>8, <1>9, <1>10 DEF Client
<1> QED BY <1>4, <1>5, <1>6, <1>10 DEF Next

(* FIFO: the Host takes plain prompts in the order of submission, through  *)
(* the local queue, failed drains and turns that are cancelled; none is    *)
(* overtaken while it waits or is on its way (queueOrSendPrompt,           *)
(* drainPromptQueue; session.spec.ts:180).                                 *)
THEOREM TurnsInOrder ==
    ASSUME Tame, Images = {} PROVE Spec => []TurnsFollowSubmission
<1>1. Init => OrderInv
  <2> SUFFICES ASSUME Init PROVE OrderInv
    OBVIOUS
  <2>1. /\ \A r \in Prompts : phase[r] = "new"
        /\ admissions = <<>> /\ queuedPrompts = <<>>
    BY DEF Init
  <2>2. DOMAIN admissions = {} /\ DOMAIN queuedPrompts = {} /\ Range(admissions) = {}
    BY <2>1 DEF Range
  <2>3. \A r \in Prompts : phase[r] \notin {"reading", "queued", "direct", "drain"}
    BY <2>1
  <2> QED BY <2>2, <2>3 DEF OrderInv, Increasing, InFlight
<1>2. Inv /\ RunInv /\ SelectedInv /\ TurnInv /\ OrderInv /\ [Next]_vars => OrderInv'
  BY OrderStep
<1>3. Inv /\ OrderInv => TurnsFollowSubmission
  <2> SUFFICES ASSUME Inv, OrderInv PROVE TurnsFollowSubmission
    OBVIOUS
  <2>1. admissions \in Seq(Prompts) /\ \A i \in DOMAIN admissions : admissions[i] \in Nat
    <3>1. admissions \in Seq(Prompts)
      BY DEF Inv, TypeOK
    <3>2. \A i \in DOMAIN admissions : admissions[i] \in Prompts
      BY <3>1, LenProperties, ElementOfSeq
    <3> QED BY <3>1, <3>2 DEF Prompts
  <2>2. \A i, j \in DOMAIN admissions : i < j => admissions[i] <= admissions[j]
    BY <2>1 DEF OrderInv, Increasing
  <2>3. \A q \in Range(admissions) : q \in Prompts
    BY <2>1, RangeOfSeq
  <2>4. ASSUME NEW q \in Range(admissions), NEW r \in 1..(q - 1),
               phase[r] = "queued" \/ InFlight(r), r \notin Range(admissions)
        PROVE  FALSE
    <3>1. r \in Prompts /\ r < q /\ q \in Nat /\ r \in Nat
      BY <2>3, PromptAssumption DEF Prompts
    <3>2. q < r
      BY <2>4, <3>1 DEF OrderInv
    <3> QED BY <3>1, <3>2
  <2> QED BY <2>2, <2>4 DEF TurnsFollowSubmission
<1> QED BY <1>1, <1>2, <1>3, TurnHolds, RunHolds, PTL DEF Spec
=============================================================================
