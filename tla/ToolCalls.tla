------------------------------ MODULE ToolCalls ------------------------------
(***************************************************************************)
(* The process-wide cap on tool bodies of dsh-concurrency-limit (the       *)
(* tools/execute wrapper, index.ts:176-197): one Semaphore for the calls   *)
(* of all agents.  A tool body may run a child agent and await it (the     *)
(* subagent and workflow tools of the harness do), and the calls of that   *)
(* child pass through the same semaphore while the body keeps its slot.    *)
(***************************************************************************)
EXTENDS Semaphore

CONSTANTS
    NoCall,     \* no parent
    Parent      \* the call whose body runs the agent that makes a call

ASSUME ParentAssumption == Parent \in [Callers -> Callers \cup {NoCall}]

Children(c) == {d \in Callers : Parent[d] = c}

(* A child agent makes its calls while the body that runs it is executing; *)
(* acquire() is the first thing the wrapper does.                          *)
Execute(c) ==
    /\ Parent[c] # NoCall => pc[Parent[c]] = "held"
    /\ Acquire(c)

Settled(c) == pc[c] \in {"idle", "released", "aborted"}

(* next() returns when the child agent is done, and 'finally' releases.    *)
CanReturn(c) == pc[c] = "held" /\ \A d \in Children(c) : Settled(d)

Return(c) == CanReturn(c) /\ Release(c)

ToolNext == \E c \in Callers : Execute(c) \/ Abort(c) \/ Return(c)
ToolSpec == Init /\ [][ToolNext]_vars

(* A body that waits for no other call returns.                            *)
FairToolSpec == ToolSpec /\ \A c \in Callers : WF_vars(Return(c))

-----------------------------------------------------------------------------
(* "1 is fully serial" (Config, index.ts:56): a cap delays calls, so while *)
(* a call is queued, some body that holds a slot can still return.         *)
QueueAdvances == waiters # <<>> => \E c \in Callers : CanReturn(c)
=============================================================================
