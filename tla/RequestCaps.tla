----------------------------- MODULE RequestCaps -----------------------------
(***************************************************************************)
(* The caps on model requests of dsh-concurrency-limit (index.ts): one     *)
(* semaphore per Session id, made for the first Session object of that id  *)
(* that streams, with a limit that is looked up live in the mirror of the  *)
(* logged overrides, or else in the log of that object.  A Session may be  *)
(* put away and opened again, as a new object, may be forked, and the      *)
(* process may be restarted: the log is all that is left then.             *)
(* The Session store of the harness is external; its event log is reduced  *)
(* to the events concurrency/request-cap, which are overrides.             *)
(***************************************************************************)
EXTENDS Integers, FiniteSets, Sequences, SequencesExt

CONSTANTS
    Sessions,    \* Session ids
    Global,      \* GLOBAL_SESSION_KEY
    Requests,    \* calls of llm/stream
    SessionOf,   \* the sessionId of each, Global for none
    Caps,        \* the caps users set
    DefaultCap,  \* maxConcurrentRequests; without one, more than Requests
    MaxAppends,  \* bound: overrides logged
    MaxOpens,    \* bound: objects of one Session in one process
    MaxRestarts  \* bound: restarts of the process

Inherit == 0     \* an override of null
Unheard == -1    \* no entry in the mirror

ASSUME RequestCapsAssumption ==
    /\ Global \notin Sessions
    /\ SessionOf \in [Requests -> Sessions \cup {Global}]
    /\ Caps \subseteq Nat \ {0} /\ DefaultCap \in Nat \ {0}
    /\ MaxAppends \in Nat /\ MaxOpens \in Nat /\ MaxRestarts \in Nat

Keys == Sessions \cup {Global}

VARIABLES
    live,       \* the Sessions the store has an object of
    logs,       \* the logs of a Session's objects in this process, last now
    appended,   \* overrides logged so far (bound)
    restarts,   \* restarts so far (bound)
    overrides,  \* the mirror: overrides.get(id)
    owner,      \* the object the semaphore of an id was made for, 0 for none
    key,        \* the semaphore each request was given, Global at first
    granted,    \* per semaphore, who holds its slots (its count is their number)
    waiters,    \* per semaphore, its queue
    signalled,  \* the requests whose signal is aborted
    pc          \* where each request is

store     == <<live, logs, appended, restarts>>
requests  == <<key, granted, waiters, signalled, pc>>
vars      == <<store, overrides, owner, requests>>

Init ==
    /\ live = {} /\ logs = [s \in Sessions |-> <<>>] /\ appended = 0 /\ restarts = 0
    /\ overrides = [s \in Sessions |-> Unheard] /\ owner = [s \in Sessions |-> 0]
    /\ key = [r \in Requests |-> Global]
    /\ granted = [k \in Keys |-> <<>>] /\ waiters = [k \in Keys |-> <<>>]
    /\ signalled = {} /\ pc = [r \in Requests |-> "unasked"]

-----------------------------------------------------------------------------
(* Which cap is in force.                                                  *)

FoldConcurrencyCap(log) == IF log = <<>> THEN Inherit ELSE log[Len(log)]

InForce(override) == IF override = Inherit THEN DefaultCap ELSE override

\* A mutant for the runs: without the mirror.
MutantCapFor(s, object) == InForce(FoldConcurrencyCap(logs[s][object]))

CapFor(s, object) ==
    IF overrides[s] # Unheard THEN InForce(overrides[s])
    ELSE InForce(FoldConcurrencyCap(logs[s][object]))

Limit(k) == IF k = Global THEN DefaultCap ELSE CapFor(k, owner[k])

\* What the projection of the Session tells the user.
Projected(k) ==
    IF k = Global \/ logs[k] = <<>> THEN DefaultCap
    ELSE InForce(FoldConcurrencyCap(logs[k][Len(logs[k])]))

-----------------------------------------------------------------------------
(* The store of Sessions, and the command that sets the cap.               *)

\* A new Session, or one that was put away and is resumed from its log.
Open(s) ==
    /\ s \notin live /\ Len(logs[s]) < MaxOpens
    /\ live' = live \cup {s}
    /\ logs' = [logs EXCEPT ![s] =
                  Append(@, IF @ = <<>> THEN <<>> ELSE @[Len(@)])]
    /\ UNCHANGED <<appended, restarts, overrides, owner, requests>>

\* A new Session with a prefix of another's log, of which no event is heard.
Fork(s, child) ==
    /\ s \in live /\ logs[child] = <<>>
    /\ live' = live \cup {child}
    /\ \E n \in 0..Len(logs[s][Len(logs[s])]) :
          logs' = [logs EXCEPT ![child] = <<SubSeq(logs[s][Len(logs[s])], 1, n)>>]
    /\ UNCHANGED <<appended, restarts, overrides, owner, requests>>

PutAway(s) ==
    /\ s \in live
    /\ live' = live \ {s}
    /\ UNCHANGED <<logs, appended, restarts, overrides, owner, requests>>

\* /concurrency set N and reset: the event is logged, and heard at once.
SetCap(s, override) ==
    /\ s \in live /\ appended < MaxAppends
    /\ logs' = [logs EXCEPT ![s][Len(logs[s])] = Append(@, override)]
    /\ overrides' = [overrides EXCEPT ![s] = override]
    /\ appended' = appended + 1
    /\ UNCHANGED <<live, restarts, owner, requests>>

\* The last events of a log may not have been stored.
Restart ==
    /\ restarts < MaxRestarts
    /\ restarts' = restarts + 1
    /\ live' = {}
    /\ \E kept \in [Sessions -> 0..MaxAppends] :
          /\ \A s \in Sessions :
                kept[s] <= IF logs[s] = <<>> THEN 0 ELSE Len(logs[s][Len(logs[s])])
          /\ logs' = [s \in Sessions |->
                        IF logs[s] = <<>> THEN <<>>
                        ELSE <<SubSeq(logs[s][Len(logs[s])], 1, kept[s])>>]
    /\ overrides' = [s \in Sessions |-> Unheard] /\ owner' = [s \in Sessions |-> 0]
    /\ key' = [r \in Requests |-> Global]
    /\ granted' = [k \in Keys |-> <<>>] /\ waiters' = [k \in Keys |-> <<>>]
    /\ signalled' = {} /\ pc' = [r \in Requests |-> "unasked"]
    /\ UNCHANGED appended

-----------------------------------------------------------------------------
(* llm/stream: the semaphore is chosen when the stream is asked for, and a *)
(* slot is acquired when it is first read.                                 *)

KeyFor(r) == IF SessionOf[r] \in live THEN SessionOf[r] ELSE Global

Stream(r) ==
    /\ pc[r] = "unasked"
    /\ pc' = [pc EXCEPT ![r] = "idle"]
    /\ key' = [key EXCEPT ![r] = KeyFor(r)]
    /\ owner' = [s \in Sessions |->
                   IF s = KeyFor(r) /\ owner[s] = 0 THEN Len(logs[s]) ELSE owner[s]]
    /\ UNCHANGED <<store, overrides, granted, waiters, signalled>>

HasRoom(k, n) == n < Limit(k)

Without(q, r) == RemoveAt(q, CHOOSE i \in DOMAIN q : q[i] = r)

Acquire(r) ==
    /\ pc[r] = "idle"
    /\ IF r \in signalled THEN
            /\ pc' = [pc EXCEPT ![r] = "aborted"]
            /\ UNCHANGED <<granted, waiters>>
       ELSE IF HasRoom(key[r], Len(granted[key[r]])) THEN
            /\ pc' = [pc EXCEPT ![r] = "held"]
            /\ granted' = [granted EXCEPT ![key[r]] = Append(@, r)]
            /\ UNCHANGED waiters
       ELSE /\ pc' = [pc EXCEPT ![r] = "waiting"]
            /\ waiters' = [waiters EXCEPT ![key[r]] = Append(@, r)]
            /\ UNCHANGED granted
    /\ UNCHANGED <<store, overrides, owner, key, signalled>>

\* Nobody listens any more to the signal of a request that has its slot.
Abort(r) ==
    /\ pc[r] \in {"idle", "waiting"} /\ r \notin signalled
    /\ signalled' = signalled \cup {r}
    /\ IF pc[r] = "waiting"
       THEN /\ waiters' = [waiters EXCEPT ![key[r]] = Without(@, r)]
            /\ pc' = [pc EXCEPT ![r] = "aborted"]
       ELSE UNCHANGED <<waiters, pc>>
    /\ UNCHANGED <<store, overrides, owner, key, granted>>

\* How many waiters release() grants with n slots taken.  The mutant for the
\* runs grants one at most.
MutantGrants(k, n) == IF HasRoom(k, n) /\ waiters[k] # <<>> THEN 1 ELSE 0
Grants(k, n) ==
    Cardinality({i \in DOMAIN waiters[k] : HasRoom(k, n + i - 1)})

\* The stream is read to its end, fails or is dropped: 'finally'.
Release(r) ==
    /\ pc[r] = "held"
    /\ LET k == key[r]
           n == Grants(k, Len(granted[k]) - 1)
           next == SubSeq(waiters[k], 1, n)
       IN  /\ granted' = [granted EXCEPT ![k] = Without(@, r) \o next]
           /\ waiters' = [waiters EXCEPT ![k] = SubSeq(@, n + 1, Len(@))]
           /\ pc' = [q \in Requests |->
                       IF q = r THEN "released" ELSE IF q \in Range(next) THEN "held" ELSE pc[q]]
    /\ UNCHANGED <<store, overrides, owner, key, signalled>>

Next ==
    \/ \E s \in Sessions :
          \/ Open(s) \/ PutAway(s)
          \/ \E child \in Sessions : Fork(s, child)
          \/ \E override \in Caps \cup {Inherit} : SetCap(s, override)
    \/ Restart
    \/ \E r \in Requests : Stream(r) \/ Acquire(r) \/ Abort(r) \/ Release(r)

Spec == Init /\ [][Next]_vars

-----------------------------------------------------------------------------
(* Properties.                                                             *)

Overrides == Caps \cup {Inherit}
States == {"unasked", "idle", "waiting", "held", "released", "aborted"}

StoreTypeOK ==
    /\ live \subseteq Sessions
    /\ logs \in [Sessions -> Seq(Seq(Overrides))]
    /\ overrides \in [Sessions -> Overrides \cup {Unheard}]

RequestsTypeOK ==
    /\ owner \in [Sessions -> Nat] /\ key \in [Requests -> Keys]
    /\ granted \in [Keys -> Seq(Requests)] /\ waiters \in [Keys -> Seq(Requests)]
    /\ signalled \subseteq Requests /\ pc \in [Requests -> States]

\* The type invariant, but for the two counters of the bounds.
TypeOK == StoreTypeOK /\ RequestsTypeOK

\* The cap that is enforced is the one the user is shown and the log holds,
\* whichever object of the Session the semaphore was made for: through
\* changes of the cap, Sessions put away and resumed, forks and restarts
\* ("resume and fork rebuild the same cap", README of the plugin).
CapInForce ==
    \A s \in Sessions : \A object \in DOMAIN logs[s] :
        CapFor(s, object) = Projected(s)
=============================================================================
