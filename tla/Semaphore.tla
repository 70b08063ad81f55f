------------------------------ MODULE Semaphore ------------------------------
(***************************************************************************)
(* The Semaphore of dsh-concurrency-limit (index.ts): a FIFO semaphore     *)
(* whose limit is read live at every acquire and release, and whose queue  *)
(* an aborted caller leaves.  acquire(), the abort listener and release()  *)
(* run without awaiting anything, so each is one action.                   *)
(***************************************************************************)
EXTENDS Integers, FiniteSets, Sequences, SequencesExt

CONSTANTS
    Callers,    \* the calls of acquire(), each with its own abort signal
    Limits,     \* the values limit() may return
    MaxChanges  \* bound: how often the limit changes

ASSUME SemaphoreAssumption ==
    /\ IsFiniteSet(Callers) /\ Limits \subseteq Nat \ {0} /\ MaxChanges \in Nat

VARIABLES
    limit,      \* what limit() returns now
    changes,    \* how often it has changed (bound)
    active,     \* slots taken
    waiters,    \* the queue of pending acquire() calls
    granted,    \* the calls that hold a slot, in the order of the grants
    signalled,  \* the calls whose signal is aborted
    pc          \* where each call is

vars == <<limit, changes, active, waiters, granted, signalled, pc>>

Init ==
    /\ limit \in Limits /\ changes = 0
    /\ active = 0 /\ waiters = <<>> /\ granted = <<>>
    /\ signalled = {}
    /\ pc = [c \in Callers |-> "idle"]

Position(q, c) == CHOOSE i \in DOMAIN q : q[i] = c
Without(q, c)  == RemoveAt(q, Position(q, c))

MutantHasRoom(n) == n <= limit

HasRoom(n) == n < limit

AcquireAborted(c) ==
    /\ pc[c] = "idle" /\ c \in signalled
    /\ pc' = [pc EXCEPT ![c] = "aborted"]
    /\ UNCHANGED <<limit, changes, active, waiters, granted, signalled>>

AcquireNow(c) ==
    /\ pc[c] = "idle" /\ c \notin signalled /\ HasRoom(active)
    /\ active' = active + 1
    /\ granted' = Append(granted, c)
    /\ pc' = [pc EXCEPT ![c] = "held"]
    /\ UNCHANGED <<limit, changes, waiters, signalled>>

MutantEnqueue(c) == <<c>> \o waiters

Enqueue(c) == Append(waiters, c)

AcquireWaits(c) ==
    /\ pc[c] = "idle" /\ c \notin signalled /\ ~HasRoom(active)
    /\ waiters' = Enqueue(c)
    /\ pc' = [pc EXCEPT ![c] = "waiting"]
    /\ UNCHANGED <<limit, changes, active, granted, signalled>>

(* onAbort takes a waiter out of the queue; a call that holds a slot keeps *)
(* it until it releases it.                                                *)
MutantAbort(c) ==
    /\ c \notin signalled
    /\ signalled' = signalled \cup {c}
    /\ pc' = [pc EXCEPT ![c] = IF @ = "waiting" THEN "aborted" ELSE @]
    /\ UNCHANGED <<limit, changes, active, granted, waiters>>

Abort(c) ==
    /\ c \notin signalled
    /\ signalled' = signalled \cup {c}
    /\ IF pc[c] = "waiting"
       THEN /\ waiters' = Without(waiters, c)
            /\ pc' = [pc EXCEPT ![c] = "aborted"]
       ELSE UNCHANGED <<waiters, pc>>
    /\ UNCHANGED <<limit, changes, active, granted>>

(* How many waiters the loop of release() grants with n slots taken.       *)
MutantGrants(n) == 0

Grants(n) ==
    IF HasRoom(n)
    THEN IF Len(waiters) <= limit - n THEN Len(waiters) ELSE limit - n
    ELSE 0

(* The slots taken after that loop: it counts every grant.                 *)
MutantTaken(n, k) == n

Taken(n, k) == n + k

Release(c) ==
    LET k == Grants(active - 1)
    IN /\ pc[c] = "held"
       /\ active' = Taken(active - 1, k)
       /\ waiters' = SubSeq(waiters, k + 1, Len(waiters))
       /\ granted' = Without(granted, c) \o SubSeq(waiters, 1, k)
       /\ pc' = [d \in Callers |->
                   IF d = c THEN "released"
                   ELSE IF \E i \in 1..k : waiters[i] = d THEN "held"
                   ELSE pc[d]]
       /\ UNCHANGED <<limit, changes, signalled>>

(* The owner of limit() changes its mind; nothing else happens.            *)
SetLimit(n) ==
    /\ changes < MaxChanges /\ n # limit
    /\ limit' = n /\ changes' = changes + 1
    /\ UNCHANGED <<active, waiters, granted, signalled, pc>>

Acquire(c) == AcquireAborted(c) \/ AcquireNow(c) \/ AcquireWaits(c)
Next == \/ \E c \in Callers : Acquire(c) \/ Abort(c) \/ Release(c)
        \/ \E n \in Limits : SetLimit(n)
Spec == Init /\ [][Next]_vars

(* A body that holds a slot finishes: next() returns or throws.            *)
FairSpec == Spec /\ \A c \in Callers : WF_vars(Release(c))

-----------------------------------------------------------------------------
TypeOK ==
    /\ limit \in Limits /\ changes \in 0..MaxChanges
    /\ active \in Nat
    /\ waiters \in Seq(Callers) /\ granted \in Seq(Callers)
    /\ signalled \subseteq Callers
    /\ pc \in [Callers -> {"idle", "waiting", "held", "released", "aborted"}]

(* The counter counts the slots that are held: neither an abort, nor a     *)
(* release that grants several waiters, leaks or invents a slot.           *)
ActiveCountsHolders ==
    /\ active = Len(granted)
    /\ IsInjective(granted)
    /\ \A c \in Callers : c \in Range(granted) <=> pc[c] = "held"

(* The queue holds exactly the calls that wait, each once: an aborted call *)
(* never blocks the ones behind it.                                        *)
WaitersAreWaiting ==
    /\ IsInjective(waiters)
    /\ \A c \in Callers : c \in Range(waiters) <=> pc[c] = "waiting"

(* A slot is only granted under the limit then in force, however the limit *)
(* was moved while calls were queued.                                      *)
GrantsRespectLimit ==
    [][(\E c \in Callers : pc[c] # "held" /\ pc'[c] = "held")
          => active' <= limit]_vars

(* With a limit that does not change no slot stays free while a call       *)
(* waits, and the limit is never exceeded.                                 *)
NoIdleSlot ==
    changes = 0 => /\ active <= limit
                   /\ waiters # <<>> => active = limit

(* Every waiting call gets its slot or gives up.                           *)
WaiterIsServed ==
    \A c \in Callers : pc[c] = "waiting" ~> pc[c] # "waiting"

(* With a limit that does not change, the semaphore is a FIFO line: those  *)
(* who hold a slot in the order of the grants, then the queue.             *)
Line == INSTANCE FifoAdmission
            WITH line <- granted \o waiters, inside <- Range(granted),
                 gone <- {c \in Callers : pc[c] \in {"released", "aborted"}}
ImplementsFifoAdmission == Line!Spec
=============================================================================
