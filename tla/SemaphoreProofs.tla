--------------------------- MODULE SemaphoreProofs ---------------------------
(***************************************************************************)
(* The semaphore counts its slots, keeps its queue, and, while the limit   *)
(* does not move, leaves no slot idle - for any callers and any limits.    *)
(***************************************************************************)
EXTENDS Semaphore, QueueLemmas

(* The conjuncts are inductive together.                                   *)
Inv == TypeOK /\ ActiveCountsHolders /\ WaitersAreWaiting

-----------------------------------------------------------------------------
(* An element of a queue has a position, and taking it out removes it.     *)
LEMMA WithoutQueue ==
    ASSUME NEW q \in Seq(Callers), IsInjective(q), NEW c \in Range(q)
    PROVE  /\ Without(q, c) \in Seq(Callers)
           /\ Len(Without(q, c)) = Len(q) - 1
           /\ IsInjective(Without(q, c))
           /\ Range(Without(q, c)) = Range(q) \ {c}
<1> DEFINE p == Position(q, c)
<1>1. p \in DOMAIN q /\ q[p] = c
  <2>1. \E i \in DOMAIN q : q[i] = c
    BY DEF Range
  <2> QED BY <2>1 DEF Position
<1> HIDE DEF p
<1>2. /\ RemoveAt(q, p) \in Seq(Callers) /\ Len(RemoveAt(q, p)) = Len(q) - 1
      /\ IsInjective(RemoveAt(q, p))
      /\ Range(RemoveAt(q, p)) = Range(q) \ {q[p]}
  BY <1>1, RemoveFromQueue
<1> QED BY <1>1, <1>2 DEF Without, p

(* How far the loop of release() goes: never past the limit or the queue,  *)
(* and it stops early only when the limit is reached.                      *)
LEMMA GrantsBounds ==
    ASSUME TypeOK, NEW n \in Nat
    PROVE  /\ Grants(n) \in 0..Len(waiters)
           /\ Grants(n) > 0 => n + Grants(n) <= limit
           /\ n <= limit /\ Grants(n) < Len(waiters) => n + Grants(n) = limit
<1>1. Len(waiters) \in Nat /\ limit \in Nat
  BY SemaphoreAssumption, LenProperties DEF TypeOK
<1> DEFINE w == Len(waiters)
<1>2. Grants(n) = IF n < limit THEN IF w <= limit - n THEN w ELSE limit - n ELSE 0
  BY DEF Grants, HasRoom
<1> HIDE DEF w
<1>3. w \in Nat
  BY <1>1 DEF w
<1>4. CASE n < limit /\ w <= limit - n
  BY <1>1, <1>2, <1>3, <1>4 DEF w
<1>5. CASE n < limit /\ ~ (w <= limit - n)
  <2>1. Grants(n) = limit - n
    BY <1>2, <1>5
  <2>2. limit - n \in 0..w /\ n + (limit - n) = limit
    BY <1>1, <1>3, <1>5
  <2> QED BY <1>1, <2>1, <2>2 DEF w
<1>6. CASE ~ (n < limit)
  <2>1. Grants(n) = 0
    BY <1>2, <1>6
  <2> QED BY <1>1, <1>6, <2>1
<1> QED BY <1>4, <1>5, <1>6

-----------------------------------------------------------------------------
(* A call that gets its slot at once.                                      *)
LEMMA AcquireNowInv ==
    ASSUME Inv, NEW c \in Callers, AcquireNow(c)
    PROVE  Inv'
<1> USE DEF Inv
<1>1. /\ pc[c] = "idle" /\ active' = active + 1 /\ granted' = Append(granted, c)
      /\ pc' = [pc EXCEPT ![c] = "held"]
      /\ UNCHANGED <<limit, changes, waiters, signalled>>
  BY DEF AcquireNow
<1>2. c \notin Range(granted) /\ c \notin Range(waiters)
  BY <1>1 DEF ActiveCountsHolders, WaitersAreWaiting
<1>3. granted \in Seq(Callers) /\ IsInjective(granted)
  BY DEF TypeOK, ActiveCountsHolders
<1>4. /\ granted' \in Seq(Callers) /\ Range(granted') = Range(granted) \cup {c}
      /\ IsInjective(granted') /\ Len(granted') = Len(granted) + 1
  BY <1>1, <1>2, <1>3, AppendQueue, AppendProperties
<1>5. /\ pc' \in [Callers -> {"idle", "waiting", "held", "released", "aborted"}]
      /\ pc'[c] = "held" /\ \A d \in Callers \ {c} : pc'[d] = pc[d]
  BY <1>1 DEF TypeOK
<1>6. TypeOK'
  BY <1>1, <1>4, <1>5 DEF TypeOK
<1>7. ActiveCountsHolders'
  BY <1>1, <1>4, <1>5 DEF ActiveCountsHolders
<1>8. WaitersAreWaiting'
  BY <1>1, <1>2, <1>5 DEF WaitersAreWaiting
<1> QED BY <1>6, <1>7, <1>8

(* A call that joins the queue.                                            *)
LEMMA AcquireWaitsInv ==
    ASSUME Inv, NEW c \in Callers, AcquireWaits(c)
    PROVE  Inv'
<1> USE DEF Inv
<1>1. /\ pc[c] = "idle" /\ waiters' = Append(waiters, c)
      /\ pc' = [pc EXCEPT ![c] = "waiting"]
      /\ UNCHANGED <<limit, changes, active, granted, signalled>>
  BY DEF AcquireWaits, Enqueue
<1>2. c \notin Range(granted) /\ c \notin Range(waiters)
  BY <1>1 DEF ActiveCountsHolders, WaitersAreWaiting
<1>3. waiters \in Seq(Callers) /\ IsInjective(waiters)
  BY DEF TypeOK, WaitersAreWaiting
<1>4. /\ waiters' \in Seq(Callers) /\ Range(waiters') = Range(waiters) \cup {c}
      /\ IsInjective(waiters')
  BY <1>1, <1>2, <1>3, AppendQueue
<1>5. /\ pc' \in [Callers -> {"idle", "waiting", "held", "released", "aborted"}]
      /\ pc'[c] = "waiting" /\ \A d \in Callers \ {c} : pc'[d] = pc[d]
  BY <1>1 DEF TypeOK
<1>6. TypeOK'
  BY <1>1, <1>4, <1>5 DEF TypeOK
<1>7. ActiveCountsHolders'
  BY <1>1, <1>2, <1>5 DEF ActiveCountsHolders
<1>8. WaitersAreWaiting'
  BY <1>1, <1>4, <1>5 DEF WaitersAreWaiting
<1> QED BY <1>6, <1>7, <1>8

(* An abort takes a waiter, and nobody else, out of the queue.             *)
LEMMA AbortInv ==
    ASSUME Inv, NEW c \in Callers, Abort(c)
    PROVE  Inv'
<1> USE DEF Inv
<1>1. /\ signalled' = signalled \cup {c}
      /\ UNCHANGED <<limit, changes, active, granted>>
  BY DEF Abort
<1>2. CASE pc[c] = "waiting"
  <2>1. waiters' = Without(waiters, c) /\ pc' = [pc EXCEPT ![c] = "aborted"]
    BY <1>2 DEF Abort
  <2>2. waiters \in Seq(Callers) /\ IsInjective(waiters) /\ c \in Range(waiters)
    BY <1>2 DEF TypeOK, WaitersAreWaiting
  <2>3. /\ waiters' \in Seq(Callers) /\ IsInjective(waiters')
        /\ Range(waiters') = Range(waiters) \ {c}
    BY <2>1, <2>2, WithoutQueue
  <2>4. /\ pc' \in [Callers -> {"idle", "waiting", "held", "released", "aborted"}]
        /\ pc'[c] = "aborted" /\ \A d \in Callers \ {c} : pc'[d] = pc[d]
    BY <2>1 DEF TypeOK
  <2>5. TypeOK'
    BY <1>1, <2>3, <2>4 DEF TypeOK
  <2>6. ActiveCountsHolders'
    BY <1>1, <1>2, <2>4 DEF ActiveCountsHolders
  <2>7. WaitersAreWaiting'
    BY <2>3, <2>4 DEF WaitersAreWaiting
  <2> QED BY <2>5, <2>6, <2>7
<1>3. CASE pc[c] # "waiting"
  <2>1. UNCHANGED <<waiters, pc>>
    BY <1>3 DEF Abort
  <2> QED BY <1>1, <2>1 DEF TypeOK, ActiveCountsHolders, WaitersAreWaiting
<1> QED BY <1>2, <1>3

(* What a release leaves: one holder goes, the first k waiters come.       *)
LEMMA ReleaseEffect ==
    ASSUME Inv, NEW c \in Callers, Release(c)
    PROVE  LET k == Grants(active - 1)
               first == {waiters[i] : i \in 1..k}
           IN  /\ active - 1 \in Nat /\ k \in 0..Len(waiters)
               /\ active' = (active - 1) + k
               /\ granted' \in Seq(Callers) /\ IsInjective(granted')
               /\ Len(granted') = (active - 1) + k
               /\ Range(granted') = (Range(granted) \ {c}) \cup first
               /\ waiters' \in Seq(Callers) /\ IsInjective(waiters')
               /\ Len(waiters') = Len(waiters) - k
               /\ Range(waiters') = Range(waiters) \ first
               /\ first \subseteq Range(waiters)
<1> USE DEF Inv
<1> DEFINE k == Grants(active - 1)
           first == {waiters[i] : i \in 1..k}
           stay == Without(granted, c)
           come == SubSeq(waiters, 1, k)
<1>1. /\ pc[c] = "held" /\ active' = (active - 1) + k
      /\ waiters' = SubSeq(waiters, k + 1, Len(waiters))
      /\ granted' = stay \o come
  BY DEF Release, Taken
<1>2. /\ granted \in Seq(Callers) /\ IsInjective(granted) /\ c \in Range(granted)
      /\ waiters \in Seq(Callers) /\ IsInjective(waiters)
      /\ active = Len(granted) /\ active \in Nat
  BY <1>1 DEF TypeOK, ActiveCountsHolders, WaitersAreWaiting
<1>3. active - 1 \in Nat
  <2>1. active # 0
    <3>1. \E i \in DOMAIN granted : granted[i] = c
      BY <1>2 DEF Range
    <3>2. DOMAIN granted = 1..active
      BY <1>2, LenProperties
    <3> QED BY <3>1, <3>2
  <2> QED BY <1>2, <2>1
<1>4. k \in 0..Len(waiters)
  BY <1>3, GrantsBounds
<1> HIDE DEF k
<1>5. /\ stay \in Seq(Callers) /\ Len(stay) = active - 1 /\ IsInjective(stay)
      /\ Range(stay) = Range(granted) \ {c}
  BY <1>2, WithoutQueue
<1>6. /\ come \in Seq(Callers) /\ Len(come) = k /\ IsInjective(come)
      /\ Range(come) = first
      /\ waiters' \in Seq(Callers) /\ Len(waiters') = Len(waiters) - k
      /\ IsInjective(waiters') /\ Range(waiters') = Range(waiters) \ first
  <2>1. /\ come \in Seq(Callers) /\ Len(come) = k /\ IsInjective(come)
        /\ Range(come) = first
        /\ SubSeq(waiters, k + 1, Len(waiters)) \in Seq(Callers)
        /\ Len(SubSeq(waiters, k + 1, Len(waiters))) = Len(waiters) - k
        /\ IsInjective(SubSeq(waiters, k + 1, Len(waiters)))
        /\ Range(SubSeq(waiters, k + 1, Len(waiters))) = Range(waiters) \ Range(come)
    BY <1>2, <1>4, SplitQueue
  <2> QED BY <1>1, <2>1
<1>7. first \subseteq Range(waiters)
  <2>1. DOMAIN waiters = 1..Len(waiters) /\ Len(waiters) \in Nat
    BY <1>2, LenProperties
  <2>2. \A i \in 1..k : i \in DOMAIN waiters
    BY <1>4, <2>1
  <2> QED BY <2>2 DEF Range
<1>8. Range(stay) \cap Range(come) = {}
  <2>1. \A d \in Callers : ~ (d \in Range(granted) /\ d \in Range(waiters))
    BY DEF ActiveCountsHolders, WaitersAreWaiting
  <2>2. Range(granted) \subseteq Callers
    BY <1>2, LenProperties, ElementOfSeq DEF Range
  <2> QED BY <1>5, <1>6, <1>7, <2>1, <2>2
<1> HIDE DEF stay, come, first
<1>9. /\ stay \o come \in Seq(Callers) /\ Len(stay \o come) = Len(stay) + Len(come)
      /\ Range(stay \o come) = Range(stay) \cup Range(come)
      /\ IsInjective(stay \o come)
  BY <1>5, <1>6, <1>8, JoinQueues
<1>10. Len(granted') = (active - 1) + k
  BY <1>1, <1>5, <1>6, <1>9
<1>11. /\ granted' \in Seq(Callers) /\ IsInjective(granted')
       /\ Range(granted') = (Range(granted) \ {c}) \cup first
  BY <1>1, <1>5, <1>6, <1>9
<1> QED BY <1>1, <1>3, <1>4, <1>6, <1>7, <1>10, <1>11 DEF k, first

(* A release that grants several waiters keeps the counts.                 *)
LEMMA ReleaseInv ==
    ASSUME Inv, NEW c \in Callers, Release(c)
    PROVE  Inv'
<1> USE DEF Inv
<1> DEFINE k == Grants(active - 1)
           first == {waiters[i] : i \in 1..k}
<1>1. /\ active - 1 \in Nat /\ k \in 0..Len(waiters)
      /\ active' = (active - 1) + k
      /\ granted' \in Seq(Callers) /\ IsInjective(granted')
      /\ Len(granted') = (active - 1) + k
      /\ Range(granted') = (Range(granted) \ {c}) \cup first
      /\ waiters' \in Seq(Callers) /\ IsInjective(waiters')
      /\ Range(waiters') = Range(waiters) \ first
      /\ first \subseteq Range(waiters)
  BY ReleaseEffect
<1>2. /\ pc[c] = "held"
      /\ pc' = [d \in Callers |-> IF d = c THEN "released"
                                  ELSE IF \E i \in 1..k : waiters[i] = d
                                       THEN "held" ELSE pc[d]]
      /\ UNCHANGED <<limit, changes, signalled>>
  BY DEF Release
<1>3. \A d \in Callers : pc'[d] = IF d = c THEN "released"
                                  ELSE IF d \in first THEN "held" ELSE pc[d]
  BY <1>2
<1>4. Len(waiters) \in Nat
  BY LenProperties DEF TypeOK
<1>5. active' \in Nat
  BY <1>1, <1>4
<1> HIDE DEF first, k
<1>6. pc' \in [Callers -> {"idle", "waiting", "held", "released", "aborted"}]
  BY <1>2 DEF TypeOK
<1>7. c \notin Range(waiters)
  BY <1>2 DEF WaitersAreWaiting
<1>8. TypeOK'
  BY <1>1, <1>2, <1>5, <1>6 DEF TypeOK
<1>9. ActiveCountsHolders'
  <2>1. ASSUME NEW d \in Callers
        PROVE  d \in Range(granted') <=> pc'[d] = "held"
    BY <1>1, <1>3, <1>7 DEF ActiveCountsHolders
  <2>2. active' = Len(granted')
    BY <1>1
  <2> QED BY <1>1, <2>1, <2>2 DEF ActiveCountsHolders
<1>10. WaitersAreWaiting'
  <2>1. ASSUME NEW d \in Callers
        PROVE  d \in Range(waiters') <=> pc'[d] = "waiting"
    BY <1>1, <1>3, <1>7 DEF WaitersAreWaiting
  <2> QED BY <1>1, <2>1 DEF WaitersAreWaiting
<1> QED BY <1>8, <1>9, <1>10

-----------------------------------------------------------------------------
(* The invariant holds initially and is kept by every step.                *)
LEMMA InvInductive == (Init => Inv) /\ (Inv /\ [Next]_vars => Inv')
<1> USE DEF Inv
<1>1. Init => Inv
  <2> SUFFICES ASSUME Init PROVE Inv
    OBVIOUS
  <2>1. /\ waiters \in Seq(Callers) /\ granted \in Seq(Callers)
        /\ Len(granted) = 0 /\ Range(granted) = {} /\ Range(waiters) = {}
        /\ IsInjective(waiters) /\ IsInjective(granted)
    BY DEF Init, Range, IsInjective
  <2>2. TypeOK
    BY <2>1, SemaphoreAssumption DEF Init, TypeOK
  <2>3. ActiveCountsHolders /\ WaitersAreWaiting
    BY <2>1 DEF Init, ActiveCountsHolders, WaitersAreWaiting
  <2> QED BY <2>2, <2>3
<1>2. ASSUME Inv, Next
      PROVE  Inv'
  <2>1. ASSUME NEW c \in Callers, AcquireAborted(c)
        PROVE  Inv'
    <3>1. /\ UNCHANGED <<limit, changes, active, waiters, granted, signalled>>
          /\ pc[c] = "idle" /\ pc' = [pc EXCEPT ![c] = "aborted"]
      BY <2>1 DEF AcquireAborted
    <3>2. /\ pc' \in [Callers -> {"idle", "waiting", "held", "released", "aborted"}]
          /\ pc'[c] = "aborted" /\ \A d \in Callers \ {c} : pc'[d] = pc[d]
      BY <1>2, <3>1 DEF TypeOK
    <3> QED BY <1>2, <3>1, <3>2
            DEF TypeOK, ActiveCountsHolders, WaitersAreWaiting
  <2>2. ASSUME NEW n \in Limits, SetLimit(n)
        PROVE  Inv'
    <3>1. /\ limit' \in Limits /\ changes' = changes + 1 /\ changes < MaxChanges
          /\ UNCHANGED <<active, waiters, granted, signalled, pc>>
      BY <2>2 DEF SetLimit
    <3>2. changes' \in 0..MaxChanges
      BY <1>2, <3>1, SemaphoreAssumption DEF TypeOK
    <3> QED BY <1>2, <3>1, <3>2
            DEF TypeOK, ActiveCountsHolders, WaitersAreWaiting
  <2> QED BY <1>2, <2>1, <2>2, AcquireNowInv, AcquireWaitsInv, AbortInv, ReleaseInv
          DEF Next, Acquire
<1>3. ASSUME Inv, UNCHANGED vars
      PROVE  Inv'
  BY <1>3 DEF vars, TypeOK, ActiveCountsHolders, WaitersAreWaiting
<1> QED BY <1>1, <1>2, <1>3

(* acquire(), the abort listener and release() keep the types.             *)
THEOREM TypeCorrect == Spec => []TypeOK
<1>1. Inv => TypeOK
  BY DEF Inv
<1> QED BY <1>1, InvInductive, PTL DEF Spec

(* The counter is the number of held slots, whatever mixture of aborts,    *)
(* grants and limit changes came before.                                   *)
THEOREM SlotsAreCounted == Spec => []ActiveCountsHolders
<1>1. Inv => ActiveCountsHolders
  BY DEF Inv
<1> QED BY <1>1, InvInductive, PTL DEF Spec

(* The queue is exactly the waiting calls: no aborted call stays in it and *)
(* no waiting call is lost from it.                                        *)
THEOREM QueueIsWaiters == Spec => []WaitersAreWaiting
<1>1. Inv => WaitersAreWaiting
  BY DEF Inv
<1> QED BY <1>1, InvInductive, PTL DEF Spec

-----------------------------------------------------------------------------
(* A slot is granted only under the limit then in force: also the loop of  *)
(* release() re-reads it, and grants none when it was lowered.             *)
THEOREM GrantsKeepToLimit == Spec => GrantsRespectLimit
<1>1. ASSUME Inv, [Next]_vars
      PROVE  [(\E c \in Callers : pc[c] # "held" /\ pc'[c] = "held")
                => active' <= limit]_vars
  <2> SUFFICES ASSUME Next, NEW d \in Callers, pc[d] # "held", pc'[d] = "held"
               PROVE  active' <= limit
    BY <1>1
  <2>0. limit \in Nat /\ active \in Nat /\ TypeOK
    BY <1>1, SemaphoreAssumption DEF Inv, TypeOK
  <2>1. ASSUME NEW c \in Callers, AcquireNow(c)
        PROVE  active' <= limit
    BY <2>0, <2>1 DEF AcquireNow, HasRoom
  <2>2. ASSUME NEW c \in Callers, Release(c)
        PROVE  active' <= limit
    <3> DEFINE k == Grants(active - 1)
    <3>1. active - 1 \in Nat /\ k \in 0..Len(waiters) /\ active' = (active - 1) + k
      BY <1>1, <2>2, ReleaseEffect
    <3>2. \E i \in 1..k : waiters[i] = d
      BY <2>2 DEF Release
    <3> HIDE DEF k
    <3>3. k > 0
      <4>1. Len(waiters) \in Nat
        BY <2>0, LenProperties DEF TypeOK
      <4> QED BY <3>1, <3>2, <4>1
    <3> QED BY <2>0, <3>1, <3>3, GrantsBounds DEF k
  <2>3. ASSUME NEW c \in Callers,
               AcquireAborted(c) \/ AcquireWaits(c) \/ Abort(c)
        PROVE  FALSE
    BY <2>0, <2>3 DEF AcquireAborted, AcquireWaits, Abort, TypeOK
  <2>4. ASSUME NEW n \in Limits, SetLimit(n)
        PROVE  FALSE
    BY <2>4 DEF SetLimit
  <2> QED BY <2>1, <2>2, <2>3, <2>4 DEF Next, Acquire
<1> QED BY <1>1, InvInductive, PTL DEF Spec, GrantsRespectLimit

(* While the limit does not move, no step leaves a slot idle in front of a *)
(* waiting call, nor takes one slot too many.                              *)
LEMMA NoIdleSlotStep ==
    ASSUME Inv, NoIdleSlot, Next
    PROVE  NoIdleSlot'
<1>0. /\ limit \in Nat /\ active \in Nat /\ changes \in Nat /\ TypeOK
      /\ waiters \in Seq(Callers)
  BY SemaphoreAssumption DEF Inv, TypeOK
<1>1. ASSUME NEW c \in Callers, AcquireNow(c)
      PROVE  NoIdleSlot'
  BY <1>0, <1>1 DEF AcquireNow, HasRoom, NoIdleSlot
<1>2. ASSUME NEW c \in Callers, AcquireWaits(c)
      PROVE  NoIdleSlot'
  BY <1>0, <1>2 DEF AcquireWaits, HasRoom, NoIdleSlot
<1>3. ASSUME NEW c \in Callers, Abort(c)
      PROVE  NoIdleSlot'
  <2>1. CASE pc[c] = "waiting"
    <3>1. c \in Range(waiters)
      BY <2>1 DEF Inv, WaitersAreWaiting
    <3>2. waiters # <<>>
      BY <3>1 DEF Range
    <3> QED BY <1>3, <3>2 DEF Abort, NoIdleSlot
  <2>2. CASE pc[c] # "waiting"
    BY <1>3, <2>2 DEF Abort, NoIdleSlot
  <2> QED BY <2>1, <2>2
<1>4. ASSUME NEW c \in Callers, Release(c)
      PROVE  NoIdleSlot'
  <2> DEFINE k == Grants(active - 1)
  <2>1. /\ active - 1 \in Nat /\ k \in 0..Len(waiters)
        /\ active' = (active - 1) + k
        /\ waiters' \in Seq(Callers) /\ Len(waiters') = Len(waiters) - k
    BY <1>4, ReleaseEffect
  <2>2. /\ k > 0 => (active - 1) + k <= limit
        /\ active - 1 <= limit /\ k < Len(waiters) => (active - 1) + k = limit
    BY <1>0, <2>1, GrantsBounds
  <2>3. UNCHANGED <<limit, changes>>
    BY <1>4 DEF Release
  <2> HIDE DEF k
  <2>4. Len(waiters) \in Nat
    BY <1>0, LenProperties
  <2> SUFFICES ASSUME changes = 0
               PROVE  active' <= limit /\ (waiters' # <<>> => active' = limit)
    BY <2>3 DEF NoIdleSlot
  <2>5. active <= limit
    BY DEF NoIdleSlot
  <2>6. active' <= limit
    BY <1>0, <2>1, <2>2, <2>4, <2>5
  <2>7. waiters' # <<>> => k < Len(waiters)
    <3>1. waiters' # <<>> => Len(waiters') # 0
      BY <2>1, EmptySeq
    <3> QED BY <2>1, <2>4, <3>1
  <2> QED BY <1>0, <2>1, <2>2, <2>5, <2>6, <2>7
<1>5. ASSUME NEW c \in Callers, AcquireAborted(c)
      PROVE  NoIdleSlot'
  BY <1>5 DEF AcquireAborted, NoIdleSlot
<1>6. ASSUME NEW n \in Limits, SetLimit(n)
      PROVE  NoIdleSlot'
  BY <1>0, <1>6 DEF SetLimit, NoIdleSlot
<1> QED BY <1>1, <1>2, <1>3, <1>4, <1>5, <1>6 DEF Next, Acquire

(* With a limit nobody has changed, a call never waits while a slot is     *)
(* free and the limit is never exceeded.                                   *)
THEOREM NoSlotStaysIdle == Spec => []NoIdleSlot
<1>1. Init => NoIdleSlot
  <2> SUFFICES ASSUME Init PROVE NoIdleSlot
    OBVIOUS
  <2>1. limit \in Nat
    BY SemaphoreAssumption DEF Init
  <2> QED BY <2>1 DEF Init, NoIdleSlot
<1>2. ASSUME Inv, NoIdleSlot, [Next]_vars
      PROVE  NoIdleSlot'
  <2>1. CASE Next
    BY <1>2, <2>1, NoIdleSlotStep
  <2>2. CASE UNCHANGED vars
    BY <1>2, <2>2 DEF vars, NoIdleSlot
  <2> QED BY <1>2, <2>1, <2>2
<1> QED BY <1>1, <1>2, InvInductive, PTL DEF Spec

-----------------------------------------------------------------------------
(***************************************************************************)
(* With a limit that nobody changes the semaphore is a FIFO line, for any  *)
(* callers and any limit: every step of it is a step of FifoAdmission, or  *)
(* a stutter.                                                              *)
(***************************************************************************)

(* The elements of a queue that has lost one.                              *)
LEMMA RemoveAtElements ==
    ASSUME NEW S, NEW q \in Seq(S), NEW i \in 1..Len(q)
    PROVE  /\ RemoveAt(q, i) \in Seq(S) /\ Len(RemoveAt(q, i)) = Len(q) - 1
           /\ \A j \in 1..(Len(q) - 1) :
                RemoveAt(q, i)[j] = IF j < i THEN q[j] ELSE q[j + 1]
<1> DEFINE n == Len(q)
           p == SubSeq(q, 1, i - 1)
           t == SubSeq(q, i + 1, n)
<1>1. /\ n \in Nat /\ i \in 1..n
      /\ \A j \in 1..n : q[j] \in S
  BY LenProperties, ElementOfSeq
<1> HIDE DEF n
<1>2. p \in Seq(S) /\ Len(p) = i - 1 /\ \A j \in 1..(i - 1) : p[j] = q[j]
  <2>1. /\ 1 \in Int /\ i - 1 \in Int
        /\ \A j \in 1..(i - 1) : q[j] \in S
    BY <1>1
  <2>2. /\ p \in Seq(S) /\ Len(p) = IF 1 <= i - 1 THEN (i - 1) - 1 + 1 ELSE 0
        /\ \A j \in 1..((i - 1) - 1 + 1) : p[j] = q[1 + j - 1]
    BY <2>1, SubSeqProperties
  <2> HIDE DEF p
  <2>3. \A j \in 1..(i - 1) : 1 + j - 1 = j
    OBVIOUS
  <2>4. (i - 1) - 1 + 1 = i - 1
    BY <1>1
  <2>5. Len(p) = i - 1
    BY <1>1, <2>2
  <2> QED BY <2>2, <2>3, <2>4, <2>5
<1>3. t \in Seq(S) /\ Len(t) = n - i /\ \A j \in 1..(n - i) : t[j] = q[j + i]
  <2>1. /\ i + 1 \in Int /\ n \in Int
        /\ \A j \in (i + 1)..n : q[j] \in S
    BY <1>1
  <2>2. /\ t \in Seq(S) /\ Len(t) = IF i + 1 <= n THEN n - (i + 1) + 1 ELSE 0
        /\ \A j \in 1..(n - (i + 1) + 1) : t[j] = q[i + 1 + j - 1]
    BY <2>1, SubSeqProperties
  <2> HIDE DEF t
  <2>3. \A j \in 1..(n - i) : i + 1 + j - 1 = j + i
    BY <1>1
  <2>4. n - (i + 1) + 1 = n - i
    BY <1>1
  <2>5. Len(t) = n - i
    BY <1>1, <2>2
  <2> QED BY <2>2, <2>3, <2>4, <2>5
<1>4. RemoveAt(q, i) = p \o t
  BY DEF RemoveAt, n
<1> HIDE DEF p, t
<1>5. /\ p \o t \in Seq(S) /\ Len(p \o t) = Len(p) + Len(t)
      /\ \A j \in 1..(Len(p) + Len(t)) :
           (p \o t)[j] = IF j <= Len(p) THEN p[j] ELSE t[j - Len(p)]
  BY <1>2, <1>3, ConcatProperties
<1>6. Len(p) + Len(t) = n - 1
  BY <1>1, <1>2, <1>3
<1>7. ASSUME NEW j \in 1..(n - 1)
      PROVE  (p \o t)[j] = IF j < i THEN q[j] ELSE q[j + 1]
  <2>0. (p \o t)[j] = IF j <= i - 1 THEN p[j] ELSE t[j - (i - 1)]
    BY <1>2, <1>5, <1>6
  <2>1. CASE j < i
    <3>1. j \in 1..(i - 1)
      BY <1>1, <2>1
    <3> QED BY <1>2, <2>0, <2>1, <3>1
  <2>2. CASE ~ (j < i)
    <3>1. /\ j - (i - 1) \in 1..(n - i) /\ ~ (j <= i - 1)
          /\ (j - (i - 1)) + i = j + 1
      BY <1>1, <2>2
    <3> QED BY <1>3, <2>0, <2>2, <3>1
  <2> QED BY <2>1, <2>2
<1> QED BY <1>4, <1>5, <1>6, <1>7 DEF n

(* A queue joined to another loses an element of the first part, ...       *)
LEMMA RemoveFromFirst ==
    ASSUME NEW S, NEW g \in Seq(S), NEW w \in Seq(S), NEW i \in 1..Len(g)
    PROVE  RemoveAt(g \o w, i) = RemoveAt(g, i) \o w
<1> DEFINE m == Len(g)
           n == Len(w)
           l == RemoveAt(g \o w, i)
           r == RemoveAt(g, i) \o w
<1>1. /\ m \in Nat /\ n \in Nat /\ i \in 1..m
      /\ g \o w \in Seq(S) /\ Len(g \o w) = m + n
      /\ \A j \in 1..(m + n) : (g \o w)[j] = IF j <= m THEN g[j] ELSE w[j - m]
  BY LenProperties, ConcatProperties
<1>2. /\ RemoveAt(g, i) \in Seq(S) /\ Len(RemoveAt(g, i)) = m - 1
      /\ \A j \in 1..(m - 1) :
           RemoveAt(g, i)[j] = IF j < i THEN g[j] ELSE g[j + 1]
  BY RemoveAtElements
<1>3. i \in 1..Len(g \o w)
  BY <1>1
<1>4. /\ l \in Seq(S) /\ Len(l) = (m + n) - 1
      /\ \A j \in 1..((m + n) - 1) :
           l[j] = IF j < i THEN (g \o w)[j] ELSE (g \o w)[j + 1]
  BY <1>1, <1>3, RemoveAtElements
<1>5. /\ r \in Seq(S) /\ Len(r) = (m - 1) + n
      /\ \A j \in 1..((m - 1) + n) :
           r[j] = IF j <= m - 1 THEN RemoveAt(g, i)[j] ELSE w[j - (m - 1)]
  <2> DEFINE x == RemoveAt(g, i)
  <2> HIDE DEF x, m, n
  <2>1. x \in Seq(S) /\ Len(x) = m - 1 /\ Len(w) = n
    BY <1>2 DEF x, n
  <2>2. /\ x \o w \in Seq(S) /\ Len(x \o w) = Len(x) + Len(w)
        /\ \A j \in 1..(Len(x) + Len(w)) :
             (x \o w)[j] = IF j <= Len(x) THEN x[j] ELSE w[j - Len(x)]
    BY <2>1, ConcatProperties
  <2> QED BY <2>1, <2>2 DEF x
<1> HIDE DEF m, n, l, r
<1>6. (m - 1) + n = (m + n) - 1
  BY <1>1
<1>7. ASSUME NEW j \in 1..((m + n) - 1)
      PROVE  l[j] = r[j]
  <2>1. CASE j < i
    <3>1. j \in 1..(m - 1) /\ j <= m /\ j \in 1..(m + n)
      BY <1>1, <2>1
    <3> QED BY <1>1, <1>2, <1>4, <1>5, <1>6, <2>1, <3>1
  <2>2. CASE ~ (j < i) /\ j <= m - 1
    <3>1. j \in 1..(m - 1) /\ j + 1 <= m /\ j + 1 \in 1..(m + n)
      BY <1>1, <2>2
    <3>2. l[j] = g[j + 1]
      BY <1>1, <1>4, <2>2, <3>1
    <3>3. r[j] = g[j + 1]
      BY <1>2, <1>5, <1>6, <2>2, <3>1
    <3> QED BY <3>2, <3>3
  <2>3. CASE j > m - 1
    <3>1. ~ (j < i) /\ ~ (j + 1 <= m) /\ j + 1 \in 1..(m + n)
      BY <1>1, <2>3
    <3>2. (j + 1) - m = j - (m - 1)
      BY <1>1
    <3>3. l[j] = w[(j + 1) - m]
      BY <1>1, <1>4, <3>1
    <3>4. ~ (j <= m - 1)
      BY <1>1, <2>3
    <3>5. r[j] = w[j - (m - 1)]
      BY <1>5, <1>6, <3>4
    <3> QED BY <3>2, <3>3, <3>5
  <2> QED BY <1>1, <2>1, <2>2, <2>3
<1>8. Len(l) = Len(r) /\ \A j \in 1..Len(l) : l[j] = r[j]
  BY <1>4, <1>5, <1>6, <1>7
<1>9. l = r
  BY <1>4, <1>5, <1>8, SeqEqual
<1> QED BY <1>9 DEF l, r

(* ... or one of the second part.                                          *)
LEMMA RemoveFromSecond ==
    ASSUME NEW S, NEW g \in Seq(S), NEW w \in Seq(S), NEW i \in 1..Len(w)
    PROVE  RemoveAt(g \o w, Len(g) + i) = g \o RemoveAt(w, i)
<1> DEFINE m == Len(g)
           n == Len(w)
           l == RemoveAt(g \o w, m + i)
           r == g \o RemoveAt(w, i)
<1>1. /\ m \in Nat /\ n \in Nat /\ i \in 1..n
      /\ g \o w \in Seq(S) /\ Len(g \o w) = m + n
      /\ \A j \in 1..(m + n) : (g \o w)[j] = IF j <= m THEN g[j] ELSE w[j - m]
  BY LenProperties, ConcatProperties
<1>2. /\ RemoveAt(w, i) \in Seq(S) /\ Len(RemoveAt(w, i)) = n - 1
      /\ \A j \in 1..(n - 1) :
           RemoveAt(w, i)[j] = IF j < i THEN w[j] ELSE w[j + 1]
  BY RemoveAtElements
<1>3. m + i \in 1..Len(g \o w)
  BY <1>1
<1>4. /\ l \in Seq(S) /\ Len(l) = (m + n) - 1
      /\ \A j \in 1..((m + n) - 1) :
           l[j] = IF j < m + i THEN (g \o w)[j] ELSE (g \o w)[j + 1]
  BY <1>1, <1>3, RemoveAtElements
<1>5. /\ r \in Seq(S) /\ Len(r) = m + (n - 1)
      /\ \A j \in 1..(m + (n - 1)) :
           r[j] = IF j <= m THEN g[j] ELSE RemoveAt(w, i)[j - m]
  <2> DEFINE x == RemoveAt(w, i)
  <2> HIDE DEF x, m, n
  <2>1. x \in Seq(S) /\ Len(x) = n - 1 /\ Len(g) = m
    BY <1>2 DEF x, m
  <2>2. /\ g \o x \in Seq(S) /\ Len(g \o x) = Len(g) + Len(x)
        /\ \A j \in 1..(Len(g) + Len(x)) :
             (g \o x)[j] = IF j <= Len(g) THEN g[j] ELSE x[j - Len(g)]
    BY <2>1, ConcatProperties
  <2> QED BY <2>1, <2>2 DEF x
<1> HIDE DEF m, n, l, r
<1>6. m + (n - 1) = (m + n) - 1
  BY <1>1
<1>7. ASSUME NEW j \in 1..((m + n) - 1)
      PROVE  l[j] = r[j]
  <2>1. CASE j <= m
    <3>1. j < m + i /\ j \in 1..(m + n)
      BY <1>1, <2>1
    <3> QED BY <1>1, <1>4, <1>5, <1>6, <2>1, <3>1
  <2>2. CASE j > m /\ j < m + i
    <3>1. /\ j \in 1..(m + n) /\ ~ (j <= m)
          /\ j - m \in 1..(n - 1) /\ j - m < i
      BY <1>1, <2>2
    <3>2. l[j] = w[j - m]
      BY <1>1, <1>4, <2>2, <3>1
    <3>3. r[j] = w[j - m]
      BY <1>2, <1>5, <1>6, <3>1
    <3> QED BY <3>2, <3>3
  <2>3. CASE ~ (j < m + i)
    <3>1. /\ j + 1 \in 1..(m + n) /\ ~ (j <= m) /\ ~ (j + 1 <= m)
          /\ j - m \in 1..(n - 1) /\ ~ (j - m < i)
          /\ (j + 1) - m = (j - m) + 1
      BY <1>1, <2>3
    <3>2. l[j] = w[(j + 1) - m]
      BY <1>1, <1>4, <2>3, <3>1
    <3>3. r[j] = w[(j - m) + 1]
      BY <1>2, <1>5, <1>6, <3>1
    <3> QED BY <3>1, <3>2, <3>3
  <2> QED BY <1>1, <2>1, <2>2, <2>3
<1>8. Len(l) = Len(r) /\ \A j \in 1..Len(l) : l[j] = r[j]
  BY <1>4, <1>5, <1>6, <1>7
<1>9. l = r
  BY <1>4, <1>5, <1>8, SeqEqual
<1> QED BY <1>9 DEF l, r, m

(* A queue that is cut in two and joined again is the queue.               *)
LEMMA CutAndJoin ==
    ASSUME NEW S, NEW q \in Seq(S), NEW k \in 0..Len(q)
    PROVE  SubSeq(q, 1, k) \o SubSeq(q, k + 1, Len(q)) = q
<1> DEFINE n == Len(q)
           p == SubSeq(q, 1, k)
           t == SubSeq(q, k + 1, n)
<1>1. n \in Nat /\ k \in 0..n /\ \A j \in 1..n : q[j] \in S
  BY LenProperties, ElementOfSeq
<1> HIDE DEF n
<1>2. p \in Seq(S) /\ Len(p) = k /\ \A j \in 1..k : p[j] = q[j]
  <2>1. 1 \in Int /\ k \in Int /\ \A j \in 1..k : q[j] \in S
    BY <1>1
  <2>2. /\ p \in Seq(S) /\ Len(p) = IF 1 <= k THEN k - 1 + 1 ELSE 0
        /\ \A j \in 1..(k - 1 + 1) : p[j] = q[1 + j - 1]
    BY <2>1, SubSeqProperties
  <2> HIDE DEF p
  <2>3. Len(p) = k /\ k - 1 + 1 = k /\ \A j \in 1..k : 1 + j - 1 = j
    BY <1>1, <2>2
  <2> QED BY <2>2, <2>3
<1>3. t \in Seq(S) /\ Len(t) = n - k /\ \A j \in 1..(n - k) : t[j] = q[j + k]
  <2>1. k + 1 \in Int /\ n \in Int /\ \A j \in (k + 1)..n : q[j] \in S
    BY <1>1
  <2>2. /\ t \in Seq(S) /\ Len(t) = IF k + 1 <= n THEN n - (k + 1) + 1 ELSE 0
        /\ \A j \in 1..(n - (k + 1) + 1) : t[j] = q[k + 1 + j - 1]
    BY <2>1, SubSeqProperties
  <2> HIDE DEF t
  <2>3. /\ Len(t) = n - k /\ n - (k + 1) + 1 = n - k
        /\ \A j \in 1..(n - k) : k + 1 + j - 1 = j + k
    BY <1>1, <2>2
  <2> QED BY <2>2, <2>3
<1> HIDE DEF p, t
<1>4. /\ p \o t \in Seq(S) /\ Len(p \o t) = k + (n - k)
      /\ \A j \in 1..(k + (n - k)) :
           (p \o t)[j] = IF j <= k THEN p[j] ELSE t[j - k]
  <2>1. /\ p \o t \in Seq(S) /\ Len(p \o t) = Len(p) + Len(t)
        /\ \A j \in 1..(Len(p) + Len(t)) :
             (p \o t)[j] = IF j <= Len(p) THEN p[j] ELSE t[j - Len(p)]
    <3>1. p \in Seq(S) /\ t \in Seq(S)
      BY <1>2, <1>3
    <3> QED BY <3>1, ConcatProperties
  <2> QED BY <1>1, <1>2, <1>3, <2>1
<1>5. k + (n - k) = n
  BY <1>1
<1>6. ASSUME NEW j \in 1..n
      PROVE  (p \o t)[j] = q[j]
  <2>1. CASE j <= k
    <3>1. j \in 1..k
      BY <2>1
    <3> QED BY <1>2, <1>4, <1>5, <2>1, <3>1
  <2>2. CASE ~ (j <= k)
    <3>1. j - k \in 1..(n - k) /\ (j - k) + k = j
      BY <1>1, <2>2
    <3> QED BY <1>3, <1>4, <1>5, <2>2, <3>1
  <2> QED BY <2>1, <2>2
<1>7. Len(p \o t) = Len(q) /\ \A j \in 1..Len(p \o t) : (p \o t)[j] = q[j]
  BY <1>4, <1>5, <1>6 DEF n
<1>8. p \o t = q
  BY <1>4, <1>7, SeqEqual
<1> QED BY <1>8 DEF p, t, n

-----------------------------------------------------------------------------
(* The first n of a queue.                                                 *)
FirstN(q, n) == {q[i] : i \in {j \in DOMAIN q : j <= n}}

(* With as many holders as the limit allows, or fewer and nobody waiting,  *)
(* the first of the line are those that hold a slot.                       *)
LEMMA FirstOfLine ==
    ASSUME NEW S, NEW g \in Seq(S), NEW w \in Seq(S), NEW n \in Nat,
           Len(g) <= n, w # <<>> => Len(g) = n
    PROVE  FirstN(g \o w, n) = Range(g)
<1> DEFINE q == g \o w
           m == Len(g)
           k == Len(w)
<1>1. /\ m \in Nat /\ k \in Nat /\ DOMAIN g = 1..m
      /\ q \in Seq(S) /\ Len(q) = m + k
      /\ \A i \in 1..(m + k) : q[i] = IF i <= m THEN g[i] ELSE w[i - m]
  BY LenProperties, ConcatProperties
<1>2. DOMAIN q = 1..(m + k)
  BY <1>1, LenProperties
<1>3. m <= n /\ (k = 0 \/ m = n)
  BY EmptySeq
<1> HIDE DEF q, m, k
<1>4. {j \in DOMAIN q : j <= n} = 1..m
  <2>1. \A j \in 1..(m + k) : j <= n => j \in 1..m
    BY <1>1, <1>3
  <2>2. \A j \in 1..m : j \in 1..(m + k) /\ j <= n
    BY <1>1, <1>3
  <2> QED BY <1>2, <2>1, <2>2
<1>5. \A i \in 1..m : q[i] = g[i]
  <2> SUFFICES ASSUME NEW i \in 1..m PROVE q[i] = g[i]
    OBVIOUS
  <2>1. i \in 1..(m + k) /\ i <= m
    BY <1>1
  <2> QED BY <1>1, <2>1
<1> QED BY <1>1, <1>4, <1>5 DEF FirstN, Range, q

(* After a step that leaves the limit alone, those inside are the first of *)
(* the line.                                                               *)
LEMMA HoldersAreFirst ==
    ASSUME Inv', NoIdleSlot', changes' = 0, limit' = limit
    PROVE  Range(granted)' = Line!FirstOf((granted \o waiters)')
<1>1. /\ granted' \in Seq(Callers) /\ waiters' \in Seq(Callers)
      /\ limit' \in Nat /\ Len(granted') <= limit'
      /\ waiters' # <<>> => Len(granted') = limit'
  BY SemaphoreAssumption DEF Inv, TypeOK, ActiveCountsHolders, NoIdleSlot
<1>2. FirstN(granted' \o waiters', limit') = Range(granted')
  BY <1>1, FirstOfLine
<1>3. Line!FirstOf((granted \o waiters)') = FirstN(granted' \o waiters', limit')
  BY DEF Line!FirstOf, FirstN
<1> QED BY <1>2, <1>3

(* The line of a state holds the calls that hold a slot or wait for one.   *)
LEMMA LineHoldsThem ==
    ASSUME Inv
    PROVE  /\ granted \o waiters \in Seq(Callers)
           /\ Range(granted \o waiters) = Range(granted) \cup Range(waiters)
           /\ \A c \in Callers : /\ c \in Range(granted) <=> pc[c] = "held"
                                 /\ c \in Range(waiters) <=> pc[c] = "waiting"
<1>1. granted \in Seq(Callers) /\ waiters \in Seq(Callers)
  BY DEF Inv, TypeOK
<1>2. /\ granted \o waiters \in Seq(Callers)
      /\ Range(granted \o waiters) = Range(granted) \cup Range(waiters)
  BY <1>1, JoinQueues
<1> QED BY <1>2 DEF Inv, ActiveCountsHolders, WaitersAreWaiting

Gone == {c \in Callers : pc[c] \in {"released", "aborted"}}

(* A call that comes and has not come before is not in the line.           *)
LEMMA NotInLine ==
    ASSUME Inv, NEW c \in Callers, pc[c] = "idle"
    PROVE  c \notin Line!Range(granted \o waiters) \cup Gone
<1>1. Line!Range(granted \o waiters) = Range(granted \o waiters)
  BY DEF Line!Range, Range
<1> QED BY <1>1, LineHoldsThem DEF Gone

(* The step of a call that gave up before it came.                         *)
LEMMA AbortedRefuses ==
    ASSUME Inv, NEW c \in Callers, AcquireAborted(c)
    PROVE  Line!Refuse(c)
<1>1. c \notin Line!Range(granted \o waiters) \cup Gone
  BY NotInLine DEF AcquireAborted
<1>2. Gone' = Gone \cup {c}
  BY DEF AcquireAborted, Inv, TypeOK, Gone
<1>3. UNCHANGED <<limit, granted \o waiters, Range(granted)>>
  BY DEF AcquireAborted
<1> QED BY <1>1, <1>2, <1>3 DEF Line!Refuse, Gone

(* The step of a call that gets its slot at once: nobody waits then.       *)
LEMMA NowComes ==
    ASSUME Inv, NoIdleSlot, changes = 0, NEW c \in Callers, AcquireNow(c),
           Inv', NoIdleSlot'
    PROVE  Line!Come(c)
<1>0. /\ granted \in Seq(Callers) /\ waiters \in Seq(Callers)
      /\ limit \in Nat /\ active \in Nat
      /\ granted' = Append(granted, c) /\ waiters' = waiters
      /\ limit' = limit /\ changes' = changes /\ pc[c] = "idle"
  BY SemaphoreAssumption DEF AcquireNow, Inv, TypeOK
<1>1. waiters = <<>>
  BY <1>0 DEF AcquireNow, HasRoom, NoIdleSlot
<1>2. (granted \o waiters)' = Append(granted \o waiters, c)
  <2>1. Append(granted, c) \in Seq(Callers)
    BY <1>0, AppendProperties
  <2>2. granted \o <<>> = granted /\ Append(granted, c) \o <<>> = Append(granted, c)
    BY <1>0, <2>1, ConcatEmptySeq
  <2> QED BY <1>0, <1>1, <2>2
<1>3. Range(granted)' = Line!FirstOf((granted \o waiters)')
  BY <1>0, HoldersAreFirst
<1>4. c \notin Line!Range(granted \o waiters) \cup Gone
  BY <1>0, NotInLine
<1>5. Gone' = Gone
  BY <1>0 DEF AcquireNow, Inv, TypeOK, Gone
<1> QED BY <1>0, <1>2, <1>3, <1>4, <1>5 DEF Line!Come, Gone

(* The step of a call that has to wait: it stands at the end of the line.  *)
LEMMA WaitsComes ==
    ASSUME Inv, NoIdleSlot, changes = 0, NEW c \in Callers, AcquireWaits(c),
           Inv', NoIdleSlot'
    PROVE  Line!Come(c)
<1>0. /\ granted \in Seq(Callers) /\ waiters \in Seq(Callers)
      /\ waiters' = Append(waiters, c) /\ granted' = granted
      /\ limit' = limit /\ changes' = changes /\ pc[c] = "idle"
  BY DEF AcquireWaits, Enqueue, Inv, TypeOK
<1>1. (granted \o waiters)' = Append(granted \o waiters, c)
  <2>1. /\ <<c>> \in Seq(Callers) /\ granted \o waiters \in Seq(Callers)
        /\ Append(waiters, c) = waiters \o <<c>>
        /\ Append(granted \o waiters, c) = (granted \o waiters) \o <<c>>
    <3>1. <<c>> \in Seq(Callers) /\ granted \o waiters \in Seq(Callers)
      BY <1>0, ConcatProperties
    <3>2. Append(waiters, c) = waiters \o <<c>>
      BY <1>0, AppendIsConcat
    <3>3. Append(granted \o waiters, c) = (granted \o waiters) \o <<c>>
      BY <3>1, AppendIsConcat
    <3> QED BY <3>1, <3>2, <3>3
  <2>2. (granted \o waiters) \o <<c>> = granted \o (waiters \o <<c>>)
    <3>1. granted \in Seq(Callers) /\ waiters \in Seq(Callers) /\ <<c>> \in Seq(Callers)
      BY <1>0, <2>1
    <3> QED BY ONLY <3>1, ConcatAssociative
  <2> QED BY <1>0, <2>1, <2>2
<1>2. Range(granted)' = Line!FirstOf((granted \o waiters)')
  BY <1>0, HoldersAreFirst
<1>3. c \notin Line!Range(granted \o waiters) \cup Gone
  BY <1>0, NotInLine
<1>4. Gone' = Gone
  BY <1>0 DEF AcquireWaits, Inv, TypeOK, Gone
<1> QED BY <1>0, <1>1, <1>2, <1>3, <1>4 DEF Line!Come, Gone

(* An abort takes a waiting call out of the line, and changes nothing of   *)
(* the line for any other call.                                            *)
LEMMA AbortLeaves ==
    ASSUME Inv, NoIdleSlot, changes = 0, NEW c \in Callers, Abort(c),
           Inv', NoIdleSlot'
    PROVE  Line!Next \/ UNCHANGED Line!vars
<1>0. /\ granted \in Seq(Callers) /\ waiters \in Seq(Callers)
      /\ granted' = granted /\ limit' = limit /\ changes' = changes
  BY DEF Abort, Inv, TypeOK
<1>1. CASE pc[c] # "waiting"
  <2>1. UNCHANGED <<waiters, pc>>
    BY <1>1 DEF Abort
  <2> QED BY <1>0, <2>1 DEF Line!vars
<1>2. CASE pc[c] = "waiting"
  <2>1. PICK p \in DOMAIN waiters : waiters[p] = c /\ p = Position(waiters, c)
    <3>1. \E j \in DOMAIN waiters : waiters[j] = c
      BY <1>2 DEF Inv, WaitersAreWaiting, Range
    <3> QED BY <3>1 DEF Position
  <2>2. waiters' = RemoveAt(waiters, p) /\ pc' = [pc EXCEPT ![c] = "aborted"]
    BY <1>2, <2>1 DEF Abort, Without
  <2>3. p \in 1..Len(waiters) /\ Len(waiters) \in Nat /\ Len(granted) \in Nat
    BY <1>0, <2>1, LenProperties
  <2>4. PICK i \in Nat : i = Len(granted) + p
    BY <2>3
  <2>5. RemoveAt(granted \o waiters, i) = granted \o RemoveAt(waiters, p)
    BY <1>0, <2>3, <2>4, RemoveFromSecond
  <2>6. i \in DOMAIN (granted \o waiters) /\ (granted \o waiters)[i] = c
    <3>1. /\ granted \o waiters \in Seq(Callers)
          /\ Len(granted \o waiters) = Len(granted) + Len(waiters)
          /\ \A j \in 1..(Len(granted) + Len(waiters)) :
               (granted \o waiters)[j] = IF j <= Len(granted) THEN granted[j]
                                         ELSE waiters[j - Len(granted)]
      BY <1>0, ConcatProperties
    <3>2. /\ i \in 1..(Len(granted) + Len(waiters))
          /\ ~ (i <= Len(granted)) /\ i - Len(granted) = p
      BY <2>3, <2>4
    <3>3. DOMAIN (granted \o waiters) = 1..(Len(granted) + Len(waiters))
      BY <3>1, LenProperties
    <3> QED BY <2>1, <3>1, <3>2, <3>3
  <2>7. Range(granted)' = Line!FirstOf((granted \o waiters)')
    BY <1>0, HoldersAreFirst
  <2>8. Gone' = Gone \cup {(granted \o waiters)[i]}
    BY <2>2, <2>6 DEF Inv, TypeOK, Gone
  <2>9. Line!RemoveAt(granted \o waiters, i) = RemoveAt(granted \o waiters, i)
    BY DEF Line!RemoveAt, RemoveAt
  <2>10. (granted \o waiters)' = Line!RemoveAt(granted \o waiters, i)
    BY <1>0, <2>2, <2>5, <2>9
  <2>11. Line!Leave(i)
    BY <1>0, <2>7, <2>8, <2>10 DEF Line!Leave, Gone
  <2> QED BY <2>6, <2>11 DEF Line!Next
<1> QED BY <1>1, <1>2

(* A release takes the call out of the line; those it lets in are the      *)
(* next ones of the line.                                                  *)
LEMMA ReleaseLeaves ==
    ASSUME Inv, NoIdleSlot, changes = 0, NEW c \in Callers, Release(c),
           Inv', NoIdleSlot'
    PROVE  Line!Next
<1> DEFINE k == Grants(active - 1)
           come == SubSeq(waiters, 1, k)
           rest == SubSeq(waiters, k + 1, Len(waiters))
<1>0. PICK p \in DOMAIN granted : granted[p] = c /\ p = Position(granted, c)
  <2>1. pc[c] = "held"
    BY DEF Release
  <2>2. \E j \in DOMAIN granted : granted[j] = c
    BY <2>1 DEF Inv, ActiveCountsHolders, Range
  <2> QED BY <2>2 DEF Position
<1>1. /\ granted \in Seq(Callers) /\ waiters \in Seq(Callers)
      /\ limit' = limit /\ changes' = changes /\ pc[c] = "held"
      /\ granted' = RemoveAt(granted, p) \o come /\ waiters' = rest
      /\ pc' = [d \in Callers |->
                  IF d = c THEN "released"
                  ELSE IF \E j \in 1..k : waiters[j] = d THEN "held"
                  ELSE pc[d]]
  BY <1>0 DEF Release, Without, Inv, TypeOK
<1>2. k \in 0..Len(waiters) /\ {waiters[j] : j \in 1..k} \subseteq Range(waiters)
  BY ReleaseEffect
<1> HIDE DEF k
<1>3. p \in 1..Len(granted) /\ Len(granted) \in Nat /\ Len(waiters) \in Nat
  BY <1>1, <1>0, LenProperties
<1>4. /\ come \in Seq(Callers) /\ rest \in Seq(Callers)
      /\ come \o rest = waiters
  <2>1. IsInjective(waiters)
    BY DEF Inv, WaitersAreWaiting
  <2>2. come \in Seq(Callers) /\ rest \in Seq(Callers)
    BY <1>1, <1>2, <2>1, SplitQueue
  <2>3. come \o rest = waiters
    BY <1>1, <1>2, CutAndJoin
  <2> QED BY <2>2, <2>3
<1> HIDE DEF come, rest
<1>5. (granted \o waiters)' = RemoveAt(granted \o waiters, p)
  <2>1. RemoveAt(granted, p) \in Seq(Callers)
    BY <1>1, <1>3, RemoveAtElements
  <2>2. (RemoveAt(granted, p) \o come) \o rest
          = RemoveAt(granted, p) \o (come \o rest)
    <3> DEFINE stay == RemoveAt(granted, p)
    <3> HIDE DEF stay
    <3>1. stay \in Seq(Callers) /\ come \in Seq(Callers) /\ rest \in Seq(Callers)
      BY <1>4, <2>1 DEF stay
    <3>2. (stay \o come) \o rest = stay \o (come \o rest)
      BY <3>1, ConcatAssociative
    <3> QED BY <3>2 DEF stay
  <2>3. RemoveAt(granted \o waiters, p) = RemoveAt(granted, p) \o waiters
    BY <1>1, <1>3, RemoveFromFirst
  <2> QED BY <1>1, <1>4, <2>2, <2>3
<1>6. p \in DOMAIN (granted \o waiters) /\ (granted \o waiters)[p] = c
  <2>1. /\ granted \o waiters \in Seq(Callers)
        /\ Len(granted \o waiters) = Len(granted) + Len(waiters)
        /\ \A j \in 1..(Len(granted) + Len(waiters)) :
             (granted \o waiters)[j] = IF j <= Len(granted) THEN granted[j]
                                       ELSE waiters[j - Len(granted)]
    BY <1>1, ConcatProperties
  <2>2. p \in 1..(Len(granted) + Len(waiters)) /\ p <= Len(granted)
    BY <1>3
  <2>3. DOMAIN (granted \o waiters) = 1..(Len(granted) + Len(waiters))
    BY <2>1, LenProperties
  <2> QED BY <1>0, <2>1, <2>2, <2>3
<1>7. Gone' = Gone \cup {(granted \o waiters)[p]}
  <2>1. \A j \in 1..k : waiters[j] \in Callers => pc[waiters[j]] = "waiting"
    BY <1>2 DEF Inv, WaitersAreWaiting
  <2>2. ASSUME NEW d \in Callers
        PROVE  d \in Gone' <=> d \in Gone \cup {c}
    <3>1. CASE d = c
      BY <1>1, <3>1 DEF Gone
    <3>2. CASE d # c /\ \E j \in 1..k : waiters[j] = d
      <4>1. pc'[d] = "held" /\ pc[d] = "waiting"
        BY <1>1, <2>1, <3>2
      <4> QED BY <3>2, <4>1 DEF Gone
    <3>3. CASE d # c /\ ~ \E j \in 1..k : waiters[j] = d
      BY <1>1, <3>3 DEF Gone
    <3> QED BY <3>1, <3>2, <3>3
  <2>3. \A d : d \in Gone' \/ d \in Gone => d \in Callers
    BY DEF Gone
  <2> QED BY <1>6, <2>2, <2>3
<1>8. Range(granted)' = Line!FirstOf((granted \o waiters)')
  BY <1>1, HoldersAreFirst
<1>9. Line!RemoveAt(granted \o waiters, p) = RemoveAt(granted \o waiters, p)
  BY DEF Line!RemoveAt, RemoveAt
<1>10. (granted \o waiters)' = Line!RemoveAt(granted \o waiters, p)
  BY <1>5, <1>9
<1>11. Line!Leave(p)
  BY <1>1, <1>7, <1>8, <1>10 DEF Line!Leave, Gone
<1> QED BY <1>6, <1>11 DEF Line!Next

-----------------------------------------------------------------------------
(* With a limit that nobody changes, every behaviour of the semaphore -    *)
(* acquire, abort and release in any order - is one of the FIFO line: the  *)
(* slots are granted in the order of the calls and nobody overtakes.       *)
THEOREM FixedLimitIsFifo ==
    ASSUME MaxChanges = 0
    PROVE  Spec => ImplementsFifoAdmission
<1>1. Init => Line!Init
  <2> SUFFICES ASSUME Init PROVE Line!Init
    OBVIOUS
  <2>1. limit \in Nat \ {0}
    BY SemaphoreAssumption DEF Init
  <2>2. granted \o waiters = <<>> /\ Range(granted) = {}
    <3>1. <<>> \o <<>> = <<>>
      BY EmptySeq, ConcatEmptySeq
    <3>2. granted = <<>> /\ waiters = <<>>
      BY DEF Init
    <3>3. DOMAIN <<>> = {}
      OBVIOUS
    <3> QED BY <3>1, <3>2, <3>3 DEF Range
  <2>3. \A c \in Callers : pc[c] = "idle"
    BY DEF Init
  <2> QED BY <2>1, <2>2, <2>3 DEF Line!Init
<1>2. ASSUME Inv, NoIdleSlot, Inv', NoIdleSlot', [Next]_vars
      PROVE  [Line!Next]_(Line!vars)
  <2>0. changes = 0
    BY <1>2 DEF Inv, TypeOK
  <2>1. ASSUME NEW c \in Callers, AcquireAborted(c)
        PROVE  Line!Next
    BY <1>2, <2>1, AbortedRefuses DEF Line!Next
  <2>2. ASSUME NEW c \in Callers, AcquireNow(c)
        PROVE  Line!Next
    BY <1>2, <2>0, <2>2, NowComes DEF Line!Next
  <2>3. ASSUME NEW c \in Callers, AcquireWaits(c)
        PROVE  Line!Next
    BY <1>2, <2>0, <2>3, WaitsComes DEF Line!Next
  <2>4. ASSUME NEW c \in Callers, Abort(c)
        PROVE  Line!Next \/ UNCHANGED Line!vars
    BY <1>2, <2>0, <2>4, AbortLeaves
  <2>5. ASSUME NEW c \in Callers, Release(c)
        PROVE  Line!Next
    BY <1>2, <2>0, <2>5, ReleaseLeaves
  <2>6. ASSUME NEW n \in Limits, SetLimit(n)
        PROVE  FALSE
    BY <2>0, <2>6 DEF SetLimit
  <2>7. CASE UNCHANGED vars
    BY <2>7 DEF vars, Line!vars
  <2> QED
    BY <1>2, <2>1, <2>2, <2>3, <2>4, <2>5, <2>6, <2>7 DEF Next, Acquire
<1> QED
  BY <1>1, <1>2, InvInductive, NoSlotStaysIdle, PTL
  DEF Spec, ImplementsFifoAdmission, Line!Spec
=============================================================================
