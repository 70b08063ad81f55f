-------------------------- MODULE RequestCapsProofs --------------------------
(***************************************************************************)
(* The cap enforced on the requests of a Session is the one its log holds, *)
(* for any Sessions, requests and caps, without the bounds of the runs.    *)
(* The mirror is only consulted for overrides heard in this process; the   *)
(* invariant says why that is enough: while none was heard, all objects of *)
(* the Session in this process hold the same override.                     *)
(***************************************************************************)
EXTENDS RequestCaps, QueueLemmas, FiniteSetTheorems

Current(s) == logs[s][Len(logs[s])]

LiveHasObject == \A s \in live : logs[s] # <<>>

(* An override in the mirror is the last one of the current log. *)
MirrorIsTrue ==
    \A s \in Sessions : overrides[s] # Unheard =>
        logs[s] # <<>> /\ FoldConcurrencyCap(Current(s)) = overrides[s]

(* Without one all objects of the Session hold what the current one holds. *)
ObjectsAgree ==
    \A s \in Sessions : overrides[s] = Unheard =>
        \A i \in DOMAIN logs[s] :
            FoldConcurrencyCap(logs[s][i]) = FoldConcurrencyCap(Current(s))

IInv == StoreTypeOK /\ LiveHasObject /\ MirrorIsTrue /\ ObjectsAgree

(* The last override of a log is an override. *)
LEMMA FoldType ==
    ASSUME NEW log \in Seq(Overrides) PROVE FoldConcurrencyCap(log) \in Overrides
  BY DEF FoldConcurrencyCap, Overrides

(* An override that is logged is the one in force from then on. *)
LEMMA FoldAppend ==
    ASSUME NEW log \in Seq(Overrides), NEW o \in Overrides
    PROVE  /\ Append(log, o) \in Seq(Overrides)
           /\ FoldConcurrencyCap(Append(log, o)) = o
  BY DEF FoldConcurrencyCap

(* A prefix of a log is a log. *)
LEMMA PrefixType ==
    ASSUME NEW log \in Seq(Overrides), NEW n \in 0..Len(log)
    PROVE  SubSeq(log, 1, n) \in Seq(Overrides)
  OBVIOUS

(* At the start every log, mirror entry and semaphore owner is empty.      *)
THEOREM InitIInv == Init => IInv
  BY RequestCapsAssumption
     DEF Init, IInv, StoreTypeOK, LiveHasObject, MirrorIsTrue, ObjectsAgree, Overrides, Unheard

(* The mirror stays true and the objects of a Session keep agreeing: every *)
(* override goes into the last log and, at once, into the mirror           *)
(* (index.ts:181-185), and a resumed object starts from the whole log.     *)
THEOREM NextIInv == IInv /\ [Next]_vars => IInv'
<1> SUFFICES ASSUME IInv, [Next]_vars PROVE IInv'
  OBVIOUS
<1> USE RequestCapsAssumption DEF IInv, StoreTypeOK, LiveHasObject
<1>1. ASSUME NEW s \in Sessions, Open(s) PROVE IInv'
  <2>1. PICK log \in Seq(Overrides) :
          /\ logs' = [logs EXCEPT ![s] = Append(@, log)]
          /\ logs[s] = <<>> \/ log = Current(s)
    <3>1. logs[s] = <<>> => <<>> \in Seq(Overrides)
      OBVIOUS
    <3>2. logs[s] # <<>> => Current(s) \in Seq(Overrides)
      BY DEF Current
    <3>. QED  BY <1>1, <3>1, <3>2 DEF Open, Current
  <2>2. /\ logs'[s] = Append(logs[s], log)
        /\ \A t \in Sessions \ {s} : logs'[t] = logs[t]
        /\ logs' \in [Sessions -> Seq(Seq(Overrides))]
        /\ overrides' = overrides /\ live' = live \cup {s}
    BY <1>1, <2>1 DEF Open
  <2>3. /\ Current(s)' = log /\ logs'[s] # <<>>
        /\ \A i \in DOMAIN logs'[s] : 
               logs'[s][i] = log \/ (i \in DOMAIN logs[s] /\ logs'[s][i] = logs[s][i])
    BY <2>2 DEF Current
  <2>4. (StoreTypeOK /\ LiveHasObject)'
    BY <2>2, <2>3
  <2>5. MirrorIsTrue'
    BY <2>1, <2>2, <2>3 DEF MirrorIsTrue, Current, FoldConcurrencyCap
  <2>6. ObjectsAgree'
    <3> SUFFICES ASSUME NEW t \in Sessions, overrides[t] = Unheard,
                        NEW i \in DOMAIN logs'[t]
                 PROVE  FoldConcurrencyCap(logs'[t][i]) = FoldConcurrencyCap(Current(t)')
      BY <2>2 DEF ObjectsAgree
    <3>1. CASE t # s
      BY <2>2, <3>1 DEF ObjectsAgree, Current
    <3>2. CASE t = s /\ logs'[s][i] = log
      BY <2>3, <3>2
    <3>3. CASE t = s /\ i \in DOMAIN logs[s] /\ logs'[s][i] = logs[s][i]
      <4>1. log = Current(s)
        BY <3>3, <2>1
      <4>. QED  BY <3>3, <4>1, <2>3 DEF ObjectsAgree
    <3>. QED  BY <2>3, <3>1, <3>2, <3>3
  <2>. QED  BY <2>4, <2>5, <2>6
<1>2. ASSUME NEW s \in Sessions, NEW child \in Sessions, Fork(s, child) PROVE IInv'
  <2>1. PICK n \in 0..Len(Current(s)) :
          logs' = [logs EXCEPT ![child] = <<SubSeq(Current(s), 1, n)>>]
    BY <1>2 DEF Fork, Current
  <2>2. Current(s) \in Seq(Overrides)
    BY <1>2 DEF Fork, Current
  <2>3. /\ logs'[child] = <<SubSeq(Current(s), 1, n)>>
        /\ \A t \in Sessions \ {child} : logs'[t] = logs[t]
        /\ logs' \in [Sessions -> Seq(Seq(Overrides))]
        /\ overrides' = overrides /\ live' = live \cup {child}
        /\ logs[child] = <<>>
    BY <1>2, <2>1, <2>2, PrefixType DEF Fork
  <2>4. overrides[child] = Unheard
    BY <2>3 DEF MirrorIsTrue
  <2>5. logs'[child] # <<>> /\ DOMAIN logs'[child] = {1} /\ logs'[child][1] = Current(child)'
    BY <2>3 DEF Current
  <2>6. (StoreTypeOK /\ LiveHasObject)'
    BY <2>3, <2>5
  <2>7. MirrorIsTrue'
    BY <2>3, <2>4 DEF MirrorIsTrue, Current
  <2>8. ObjectsAgree'
    <3> SUFFICES ASSUME NEW t \in Sessions, overrides[t] = Unheard,
                        NEW i \in DOMAIN logs'[t]
                 PROVE  FoldConcurrencyCap(logs'[t][i]) = FoldConcurrencyCap(Current(t)')
      BY <2>3 DEF ObjectsAgree
    <3>1. CASE t # child
      BY <2>3, <3>1 DEF ObjectsAgree, Current
    <3>2. CASE t = child
      BY <2>5, <3>2
    <3>. QED  BY <3>1, <3>2
  <2>. QED  BY <2>6, <2>7, <2>8
<1>3. ASSUME NEW s \in Sessions, NEW o \in Overrides, SetCap(s, o) PROVE IInv'
  <2>1. logs[s] # <<>> /\ Current(s) \in Seq(Overrides)
    BY <1>3 DEF SetCap, Current
  <2>2. /\ logs'[s] = [logs[s] EXCEPT ![Len(logs[s])] = Append(Current(s), o)]
        /\ \A t \in Sessions \ {s} : logs'[t] = logs[t]
        /\ overrides'[s] = o /\ \A t \in Sessions \ {s} : overrides'[t] = overrides[t]
        /\ overrides' \in [Sessions -> Overrides \cup {Unheard}]
        /\ live' = live
    BY <1>3 DEF SetCap, Current
  <2>3. /\ logs'[s] \in Seq(Seq(Overrides)) /\ Len(logs'[s]) = Len(logs[s])
        /\ Current(s)' = Append(Current(s), o)
    BY <2>1, <2>2, FoldAppend DEF Current
  <2>4. logs' \in [Sessions -> Seq(Seq(Overrides))]
    BY <1>3, <2>2, <2>3 DEF SetCap
  <2>5. o # Unheard
    BY DEF Overrides, Inherit, Unheard
  <2>6. LiveHasObject'
    BY <2>1, <2>2, <2>3
  <2>7. MirrorIsTrue'
    <3> SUFFICES ASSUME NEW t \in Sessions, overrides'[t] # Unheard
                 PROVE  logs'[t] # <<>> /\ FoldConcurrencyCap(Current(t)') = overrides'[t]
      BY DEF MirrorIsTrue
    <3>1. CASE t # s
      BY <2>2, <3>1 DEF MirrorIsTrue, Current
    <3>2. CASE t = s
      <4>1. logs'[t] # <<>>
        BY <2>1, <2>3, <3>2
      <4>2. FoldConcurrencyCap(Append(Current(s), o)) = o
        BY <2>1, FoldAppend
      <4> QED BY <2>2, <2>3, <3>2, <4>1, <4>2
    <3> QED BY <3>1, <3>2
  <2>8. ObjectsAgree'
    <3> SUFFICES ASSUME NEW t \in Sessions, overrides'[t] = Unheard,
                        NEW i \in DOMAIN logs'[t]
                 PROVE  FoldConcurrencyCap(logs'[t][i]) = FoldConcurrencyCap(Current(t)')
      BY DEF ObjectsAgree
    <3>1. t # s /\ overrides[t] = Unheard
      BY <2>2, <2>5
    <3>. QED  BY <2>2, <3>1 DEF ObjectsAgree, Current
  <2>. QED  BY <2>2, <2>4, <2>6, <2>7, <2>8
<1>4. CASE Restart
  <2>1. PICK kept \in [Sessions -> 0..MaxAppends] :
          /\ \A s \in Sessions : kept[s] <= IF logs[s] = <<>> THEN 0 ELSE Len(Current(s))
          /\ logs' = [s \in Sessions |->
                        IF logs[s] = <<>> THEN <<>> ELSE <<SubSeq(Current(s), 1, kept[s])>>]
    BY <1>4 DEF Restart, Current
  <2>2. \A s \in Sessions :
          /\ logs'[s] \in Seq(Seq(Overrides))
          /\ \A i \in DOMAIN logs'[s] : logs'[s][i] = Current(s)'
    <3> SUFFICES ASSUME NEW s \in Sessions
                 PROVE  /\ logs'[s] \in Seq(Seq(Overrides))
                        /\ \A i \in DOMAIN logs'[s] : logs'[s][i] = Current(s)'
      OBVIOUS
    <3>1. CASE logs[s] = <<>>
      BY <2>1, <3>1
    <3>2. CASE logs[s] # <<>>
      <4>1. Current(s) \in Seq(Overrides)
        BY <3>2 DEF Current
      <4>2. SubSeq(Current(s), 1, kept[s]) \in Seq(Overrides)
        BY <2>1, <3>2, <4>1, PrefixType
      <4>. QED  BY <2>1, <3>2, <4>2 DEF Current
    <3>. QED  BY <3>1, <3>2
  <2>3. logs' \in [Sessions -> Seq(Seq(Overrides))]
    BY <2>1, <2>2
  <2>4. live' = {} /\ overrides' = [s \in Sessions |-> Unheard]
    BY <1>4 DEF Restart
  <2>5. (StoreTypeOK /\ LiveHasObject /\ MirrorIsTrue)'
    BY <2>3, <2>4 DEF MirrorIsTrue
  <2>6. ObjectsAgree'
    BY <2>2 DEF ObjectsAgree
  <2>. QED  BY <2>5, <2>6
<1>5. ASSUME logs' = logs, overrides' = overrides, live' \subseteq live PROVE IInv'
  BY <1>5 DEF MirrorIsTrue, ObjectsAgree, Current, FoldConcurrencyCap
<1>6. ASSUME NEW s \in Sessions, PutAway(s) PROVE IInv'
  BY <1>5, <1>6 DEF PutAway
<1>7. ASSUME NEW r \in Requests, Stream(r) \/ Acquire(r) \/ Abort(r) \/ Release(r) PROVE IInv'
  BY <1>5, <1>7 DEF Stream, Acquire, Abort, Release, store
<1>8. CASE UNCHANGED vars
  BY <1>5, <1>8 DEF vars, store
<1>. QED  BY <1>1, <1>2, <1>3, <1>4, <1>6, <1>7, <1>8 DEF Next, Overrides

(* With a true mirror, or else with objects that agree, capFor answers the *)
(* same for every object of a Session: index.ts:276-282.                   *)
THEOREM IInvImpliesCapInForce == IInv => CapInForce
<1> SUFFICES ASSUME IInv, NEW s \in Sessions, NEW object \in DOMAIN logs[s]
             PROVE  CapFor(s, object) = Projected(s)
  BY DEF CapInForce
<1> USE RequestCapsAssumption DEF IInv, StoreTypeOK
<1>1. logs[s] # <<>> /\ s # Global /\ Len(logs[s]) \in DOMAIN logs[s]
  OBVIOUS
<1>2. Projected(s) = InForce(FoldConcurrencyCap(Current(s)))
  BY <1>1 DEF Projected, Current
<1>3. CASE overrides[s] # Unheard
  BY <1>2, <1>3 DEF CapFor, MirrorIsTrue
<1>4. CASE overrides[s] = Unheard
  BY <1>1, <1>2, <1>4 DEF CapFor, ObjectsAgree, Current
<1>. QED  BY <1>3, <1>4

-----------------------------------------------------------------------------
(* The requests: each is in the queue, or among the holders, of the        *)
(* semaphore it was given, and in no other.                                *)

In(k, state) == {r \in Requests : key[r] = k /\ pc[r] = state}

QueuesAreTrue ==
    \A k \in Keys :
        /\ IsInjective(waiters[k]) /\ Range(waiters[k]) = In(k, "waiting")
        /\ IsInjective(granted[k]) /\ Range(granted[k]) = In(k, "held")

(* The semaphore of a Session was made for an object of this process. *)
OwnerIsObject ==
    /\ \A s \in Sessions : owner[s] <= Len(logs[s])
    /\ \A r \in Requests : key[r] # Global => owner[key[r]] # 0

RInv == RequestsTypeOK /\ QueuesAreTrue /\ OwnerIsObject

(* A queue loses one element.                                              *)
LEMMA WithoutQueue ==
    ASSUME NEW q \in Seq(Requests), IsInjective(q), NEW r \in Range(q)
    PROVE  /\ Without(q, r) \in Seq(Requests) /\ Len(Without(q, r)) = Len(q) - 1
           /\ IsInjective(Without(q, r)) /\ Range(Without(q, r)) = Range(q) \ {r}
<1> DEFINE p == CHOOSE i \in DOMAIN q : q[i] = r
<1>1. p \in DOMAIN q /\ q[p] = r
  BY DEF Range
<1> HIDE DEF p
<1>2. /\ RemoveAt(q, p) \in Seq(Requests) /\ Len(RemoveAt(q, p)) = Len(q) - 1
      /\ IsInjective(RemoveAt(q, p))
      /\ Range(RemoveAt(q, p)) = Range(q) \ {q[p]}
  BY <1>1, RemoveFromQueue
<1>. QED  BY <1>1, <1>2 DEF Without, p

(* The limit of a semaphore in use is the cap its Session shows.           *)
LEMMA LimitIsProjected ==
    ASSUME IInv, RInv, NEW r \in Requests
    PROVE  Limit(key[r]) = Projected(key[r]) /\ Limit(key[r]) \in Nat \ {0}
<1>1. CASE key[r] = Global
  BY <1>1, RequestCapsAssumption DEF Limit, Projected
<1>2. CASE key[r] # Global
  <2>1. key[r] \in Sessions
    BY <1>2 DEF RInv, RequestsTypeOK, Keys
  <2>2. owner[key[r]] \in DOMAIN logs[key[r]]
    BY <1>2, <2>1 DEF RInv, RequestsTypeOK, OwnerIsObject, IInv, StoreTypeOK
  <2>3. Limit(key[r]) = CapFor(key[r], owner[key[r]])
    BY <1>2 DEF Limit
  <2>4. Limit(key[r]) = Projected(key[r])
    BY <2>1, <2>2, <2>3, IInvImpliesCapInForce DEF CapInForce
  <2>5. \A o \in Overrides : InForce(o) \in Nat \ {0}
    BY RequestCapsAssumption DEF Overrides, InForce, Inherit
  <2>6. logs[key[r]][owner[key[r]]] \in Seq(Overrides)
    BY <2>1, <2>2 DEF IInv, StoreTypeOK
  <2>7. CapFor(key[r], owner[key[r]]) \in Nat \ {0}
    BY <2>1, <2>5, <2>6, FoldType DEF CapFor, IInv, StoreTypeOK
  <2>. QED  BY <2>3, <2>4, <2>7
<1>. QED  BY <1>1, <1>2

(* How far the loop of release() goes.                                     *)
LEMMA GrantsBounds ==
    ASSUME NEW k, Limit(k) \in Nat, Len(waiters[k]) \in Nat,
           DOMAIN waiters[k] = 1..Len(waiters[k]), NEW n \in Nat
    PROVE  /\ Grants(k, n) \in 0..Len(waiters[k])
           /\ Grants(k, n) > 0 => n + Grants(k, n) <= Limit(k)
<1> DEFINE w == Len(waiters[k])
           l == Limit(k)
           S == {i \in 1..w : n + i - 1 < l}
<1>0. Grants(k, n) = Cardinality(S) /\ w \in Nat /\ l \in Nat
  BY DEF Grants, HasRoom
<1>1. ASSUME n >= l PROVE S = {}
  BY <1>0, <1>1
<1>2. ASSUME n < l, w <= l - n PROVE S = 1..w
  BY <1>0, <1>2
<1>3. ASSUME n < l, w > l - n PROVE S = 1..(l - n)
  BY <1>0, <1>3
<1>4. \A m \in Nat : Cardinality(1..m) = m
  BY FS_Interval
<1>5. Cardinality({}) = 0
  BY FS_EmptySet
<1> DEFINE g == Grants(k, n)
<1> HIDE DEF S, w, l, g
<1>6. /\ n >= l => g = 0
      /\ n < l /\ w <= l - n => g = w
      /\ n < l /\ w > l - n => g = l - n
  <2>1. n >= l => g = 0
    BY <1>0, <1>1, <1>5 DEF g
  <2>2. n < l /\ w <= l - n => g = w
    BY <1>0, <1>2, <1>4 DEF g
  <2>3. ASSUME n < l, w > l - n PROVE g = l - n
    <3>1. l - n \in Nat
      BY <1>0, <2>3
    <3>. QED  BY <1>0, <1>3, <1>4, <2>3, <3>1 DEF g
  <2>. QED  BY <2>1, <2>2, <2>3
<1>7. g \in 0..w /\ (g > 0 => n + g <= l)
  BY <1>0, <1>6
<1>. QED  BY <1>7 DEF g, w, l

(* At the start nobody holds or waits for a slot.                          *)
THEOREM InitRInv == Init => RInv
<1> SUFFICES ASSUME Init PROVE RInv
  OBVIOUS
<1>1. IsInjective(<<>>) /\ Range(<<>>) = {} /\ <<>> \in Seq(Requests)
  BY DEF IsInjective, Range
<1>2. RequestsTypeOK
  BY <1>1 DEF Init, RequestsTypeOK, Keys, States
<1>3. QueuesAreTrue
  BY <1>1 DEF Init, QueuesAreTrue, In
<1>4. OwnerIsObject
  BY DEF Init, OwnerIsObject
<1>. QED  BY <1>2, <1>3, <1>4 DEF RInv

(* A stream is asked for: its semaphore is one of a live Session, or Global. *)
LEMMA StreamRInv ==
    ASSUME IInv, RInv, NEW r \in Requests, Stream(r) PROVE RInv'
<1> DEFINE k == KeyFor(r)
<1>1. /\ pc[r] = "unasked" /\ pc' = [pc EXCEPT ![r] = "idle"] /\ key' = [key EXCEPT ![r] = k]
      /\ owner' = [s \in Sessions |-> IF s = k /\ owner[s] = 0 THEN Len(logs[s]) ELSE owner[s]]
      /\ UNCHANGED <<logs, granted, waiters, signalled>>
  BY DEF Stream, store
<1>2. k \in Keys /\ (k # Global => k \in live /\ k \in Sessions)
  BY RequestCapsAssumption DEF KeyFor, Keys, IInv, StoreTypeOK
<1>3. \A s \in Sessions : Len(logs[s]) \in Nat
  BY DEF IInv, StoreTypeOK
<1>4. k # Global => Len(logs[k]) # 0
  BY <1>2, <1>3 DEF IInv, LiveHasObject, StoreTypeOK
<1> HIDE DEF k
<1>5. RequestsTypeOK'
  BY <1>1, <1>2, <1>3 DEF RInv, RequestsTypeOK, States
<1>6. \A j \in Keys : In(j, "waiting")' = In(j, "waiting") /\ In(j, "held")' = In(j, "held")
  BY <1>1 DEF In, RInv, RequestsTypeOK
<1>7. QueuesAreTrue'
  BY <1>1, <1>6 DEF RInv, QueuesAreTrue
<1>8. OwnerIsObject'
  <2>1. \A s \in Sessions : owner'[s] <= Len(logs'[s])
    BY <1>1, <1>3 DEF RInv, OwnerIsObject
  <2>2. ASSUME NEW q \in Requests, key'[q] # Global PROVE owner'[key'[q]] # 0
    <3>1. CASE q = r
      BY <1>1, <1>2, <1>4, <2>2, <3>1 DEF RInv, RequestsTypeOK
    <3>2. CASE q # r
      BY <1>1, <1>3, <1>4, <2>2, <3>2 DEF RInv, RequestsTypeOK, OwnerIsObject, Keys
    <3>. QED  BY <3>1, <3>2
  <2>. QED  BY <2>1, <2>2 DEF OwnerIsObject
<1>. QED  BY <1>5, <1>7, <1>8 DEF RInv

(* A request is refused, gets its slot, or joins the queue.                *)
LEMMA AcquireRInv ==
    ASSUME RInv, NEW r \in Requests, Acquire(r) PROVE RInv'
<1>0. PICK k \in Keys : k = key[r]
  BY DEF RInv, RequestsTypeOK
<1>1. /\ pc[r] = "idle" /\ UNCHANGED <<logs, owner, key, signalled>>
  BY DEF Acquire, store
<1>2. /\ granted[k] \in Seq(Requests) /\ IsInjective(granted[k]) /\ r \notin Range(granted[k])
      /\ waiters[k] \in Seq(Requests) /\ IsInjective(waiters[k]) /\ r \notin Range(waiters[k])
  BY <1>0, <1>1 DEF RInv, RequestsTypeOK, QueuesAreTrue, In
<1>3. OwnerIsObject'
  BY <1>1 DEF RInv, OwnerIsObject
<1>4. CASE pc' = [pc EXCEPT ![r] = "aborted"] /\ UNCHANGED <<granted, waiters>>
  <2>1. RequestsTypeOK'
    BY <1>1, <1>4 DEF RInv, RequestsTypeOK, States
  <2>2. \A j \in Keys : In(j, "waiting")' = In(j, "waiting") /\ In(j, "held")' = In(j, "held")
    <3>1. /\ In(k, "aborted")' = In(k, "aborted") \cup {r}
          /\ In(k, "idle")' = In(k, "idle") \ {r}
          /\ \A j \in Keys, state \in States :
               j # k \/ state \notin {"idle", "aborted"} => In(j, state)' = In(j, state)
      <4>1. /\ \A q \in Requests : pc'[q] = IF q = r THEN "aborted" ELSE pc[q]
            /\ key' = key /\ key[r] = k /\ pc[r] = "idle"
        BY <1>0, <1>1, <1>4 DEF RInv, RequestsTypeOK
      <4>2. In(k, "aborted")' = In(k, "aborted") \cup {r}
        BY <4>1 DEF In
      <4>3. In(k, "idle")' = In(k, "idle") \ {r}
        BY <4>1 DEF In
      <4>4. ASSUME NEW j \in Keys, NEW state \in States, j # k \/ state \notin {"idle", "aborted"}
            PROVE  In(j, state)' = In(j, state)
        BY <4>1, <4>4 DEF In
      <4>. QED  BY <4>2, <4>3, <4>4
    <3>. QED  BY <3>1 DEF States
  <2>. QED  BY <1>3, <1>4, <2>1, <2>2 DEF RInv, QueuesAreTrue
<1>5. CASE /\ pc' = [pc EXCEPT ![r] = "held"] /\ UNCHANGED waiters
           /\ granted' = [granted EXCEPT ![k] = Append(@, r)]
  <2>1. /\ Append(granted[k], r) \in Seq(Requests)
        /\ Range(Append(granted[k], r)) = Range(granted[k]) \cup {r}
        /\ IsInjective(Append(granted[k], r))
    BY <1>2, AppendQueue
  <2>2. /\ granted'[k] = Append(granted[k], r) /\ \A j \in Keys \ {k} : granted'[j] = granted[j]
        /\ granted' \in [Keys -> Seq(Requests)]
    BY <1>1, <1>5, <2>1 DEF RInv, RequestsTypeOK
  <2>3. RequestsTypeOK'
    BY <1>1, <1>5, <2>2 DEF RInv, RequestsTypeOK, States
  <2>4. /\ \A j \in Keys : In(j, "waiting")' = In(j, "waiting")
        /\ In(k, "held")' = In(k, "held") \cup {r}
        /\ \A j \in Keys \ {k} : In(j, "held")' = In(j, "held")
    <3>1. /\ In(k, "held")' = In(k, "held") \cup {r}
          /\ In(k, "idle")' = In(k, "idle") \ {r}
          /\ \A j \in Keys, state \in States :
               j # k \/ state \notin {"idle", "held"} => In(j, state)' = In(j, state)
      <4>1. /\ \A q \in Requests : pc'[q] = IF q = r THEN "held" ELSE pc[q]
            /\ key' = key /\ key[r] = k /\ pc[r] = "idle"
        BY <1>0, <1>1, <1>5 DEF RInv, RequestsTypeOK
      <4>2. In(k, "held")' = In(k, "held") \cup {r}
        BY <4>1 DEF In
      <4>3. In(k, "idle")' = In(k, "idle") \ {r}
        BY <4>1 DEF In
      <4>4. ASSUME NEW j \in Keys, NEW state \in States, j # k \/ state \notin {"idle", "held"}
            PROVE  In(j, state)' = In(j, state)
        BY <4>1, <4>4 DEF In
      <4>. QED  BY <4>2, <4>3, <4>4
    <3>. QED  BY <3>1 DEF States
  <2>5. QueuesAreTrue'
    BY <1>5, <2>1, <2>2, <2>4 DEF RInv, QueuesAreTrue
  <2>. QED  BY <1>3, <2>3, <2>5 DEF RInv
<1>6. CASE /\ pc' = [pc EXCEPT ![r] = "waiting"] /\ UNCHANGED granted
           /\ waiters' = [waiters EXCEPT ![k] = Append(@, r)]
  <2>1. /\ Append(waiters[k], r) \in Seq(Requests)
        /\ Range(Append(waiters[k], r)) = Range(waiters[k]) \cup {r}
        /\ IsInjective(Append(waiters[k], r))
    BY <1>2, AppendQueue
  <2>2. /\ waiters'[k] = Append(waiters[k], r) /\ \A j \in Keys \ {k} : waiters'[j] = waiters[j]
        /\ waiters' \in [Keys -> Seq(Requests)]
    BY <1>1, <1>6, <2>1 DEF RInv, RequestsTypeOK
  <2>3. RequestsTypeOK'
    BY <1>1, <1>6, <2>2 DEF RInv, RequestsTypeOK, States
  <2>4. /\ \A j \in Keys : In(j, "held")' = In(j, "held")
        /\ In(k, "waiting")' = In(k, "waiting") \cup {r}
        /\ \A j \in Keys \ {k} : In(j, "waiting")' = In(j, "waiting")
    <3>1. /\ In(k, "waiting")' = In(k, "waiting") \cup {r}
          /\ In(k, "idle")' = In(k, "idle") \ {r}
          /\ \A j \in Keys, state \in States :
               j # k \/ state \notin {"idle", "waiting"} => In(j, state)' = In(j, state)
      <4>1. /\ \A q \in Requests : pc'[q] = IF q = r THEN "waiting" ELSE pc[q]
            /\ key' = key /\ key[r] = k /\ pc[r] = "idle"
        BY <1>0, <1>1, <1>6 DEF RInv, RequestsTypeOK
      <4>2. In(k, "waiting")' = In(k, "waiting") \cup {r}
        BY <4>1 DEF In
      <4>3. In(k, "idle")' = In(k, "idle") \ {r}
        BY <4>1 DEF In
      <4>4. ASSUME NEW j \in Keys, NEW state \in States, j # k \/ state \notin {"idle", "waiting"}
            PROVE  In(j, state)' = In(j, state)
        BY <4>1, <4>4 DEF In
      <4>. QED  BY <4>2, <4>3, <4>4
    <3>. QED  BY <3>1 DEF States
  <2>5. QueuesAreTrue'
    BY <1>6, <2>1, <2>2, <2>4 DEF RInv, QueuesAreTrue
  <2>. QED  BY <1>3, <2>3, <2>5 DEF RInv
<1>. QED  BY <1>0, <1>4, <1>5, <1>6 DEF Acquire

(* An abort takes a waiter out of its queue.                               *)
LEMMA AbortRInv ==
    ASSUME RInv, NEW r \in Requests, Abort(r) PROVE RInv'
<1>0. PICK k \in Keys : k = key[r]
  BY DEF RInv, RequestsTypeOK
<1>1. /\ UNCHANGED <<logs, owner, key, granted>>
      /\ signalled' = signalled \cup {r}
  BY DEF Abort, store
<1>2. OwnerIsObject'
  BY <1>1 DEF RInv, OwnerIsObject
<1>3. CASE UNCHANGED <<waiters, pc>>
  BY <1>1, <1>2, <1>3 DEF RInv, RequestsTypeOK, QueuesAreTrue, In
<1>4. CASE /\ pc[r] = "waiting" /\ pc' = [pc EXCEPT ![r] = "aborted"]
           /\ waiters' = [waiters EXCEPT ![k] = Without(@, r)]
  <2>1. waiters[k] \in Seq(Requests) /\ IsInjective(waiters[k]) /\ r \in Range(waiters[k])
    BY <1>0, <1>1, <1>4 DEF RInv, RequestsTypeOK, QueuesAreTrue, In
  <2>2. /\ Without(waiters[k], r) \in Seq(Requests) /\ IsInjective(Without(waiters[k], r))
        /\ Range(Without(waiters[k], r)) = Range(waiters[k]) \ {r}
    BY <2>1, WithoutQueue
  <2>3. /\ waiters'[k] = Without(waiters[k], r)
        /\ \A j \in Keys \ {k} : waiters'[j] = waiters[j]
        /\ waiters' \in [Keys -> Seq(Requests)]
    BY <1>1, <1>4, <2>2 DEF RInv, RequestsTypeOK
  <2>4. RequestsTypeOK'
    BY <1>1, <1>4, <2>3 DEF RInv, RequestsTypeOK, States
  <2>5. /\ \A j \in Keys : In(j, "held")' = In(j, "held")
        /\ In(k, "waiting")' = In(k, "waiting") \ {r}
        /\ \A j \in Keys \ {k} : In(j, "waiting")' = In(j, "waiting")
    <3>1. /\ In(k, "aborted")' = In(k, "aborted") \cup {r}
          /\ In(k, "waiting")' = In(k, "waiting") \ {r}
          /\ \A j \in Keys, state \in States :
               j # k \/ state \notin {"waiting", "aborted"} => In(j, state)' = In(j, state)
      <4>1. /\ \A q \in Requests : pc'[q] = IF q = r THEN "aborted" ELSE pc[q]
            /\ key' = key /\ key[r] = k /\ pc[r] = "waiting"
        BY <1>0, <1>1, <1>4 DEF RInv, RequestsTypeOK
      <4>2. In(k, "aborted")' = In(k, "aborted") \cup {r}
        BY <4>1 DEF In
      <4>3. In(k, "waiting")' = In(k, "waiting") \ {r}
        BY <4>1 DEF In
      <4>4. ASSUME NEW j \in Keys, NEW state \in States, j # k \/ state \notin {"waiting", "aborted"}
            PROVE  In(j, state)' = In(j, state)
        BY <4>1, <4>4 DEF In
      <4>. QED  BY <4>2, <4>3, <4>4
    <3>. QED  BY <3>1 DEF States
  <2>6. QueuesAreTrue'
    BY <1>1, <2>2, <2>3, <2>5 DEF RInv, QueuesAreTrue
  <2>. QED  BY <1>2, <2>4, <2>6 DEF RInv
<1>. QED  BY <1>0, <1>3, <1>4 DEF Abort

(* What a release leaves: a holder goes, the first n waiters come.         *)
LEMMA ReleaseEffect ==
    ASSUME IInv, RInv, NEW r \in Requests, Release(r), NEW k \in Keys, k = key[r]
    PROVE  LET n == Grants(k, Len(granted[k]) - 1)
               come == SubSeq(waiters[k], 1, n)
           IN  /\ pc[r] = "held"
               /\ granted' = [granted EXCEPT ![k] = Without(@, r) \o come]
               /\ waiters' = [waiters EXCEPT ![k] = SubSeq(@, n + 1, Len(@))]
               /\ pc' = [q \in Requests |->
                           IF q = r THEN "released" ELSE IF q \in Range(come) THEN "held" ELSE pc[q]]
               /\ granted'[k] \in Seq(Requests) /\ IsInjective(granted'[k])
               /\ Range(granted'[k]) = (In(k, "held") \ {r}) \cup Range(come)
               /\ waiters'[k] \in Seq(Requests) /\ IsInjective(waiters'[k])
               /\ Range(waiters'[k]) = In(k, "waiting") \ Range(come)
               /\ Range(come) \subseteq In(k, "waiting")
               /\ n = 0 \/ Len(granted'[k]) <= Projected(k)
               /\ n = 0 => come = <<>>
<1> DEFINE n == Grants(k, Len(granted[k]) - 1)
           come == SubSeq(waiters[k], 1, n)
           stay == Without(granted[k], r)
<1>1. /\ pc[r] = "held"
      /\ granted' = [granted EXCEPT ![k] = stay \o come]
      /\ waiters' = [waiters EXCEPT ![k] = SubSeq(@, n + 1, Len(@))]
      /\ pc' = [q \in Requests |->
                  IF q = r THEN "released" ELSE IF q \in Range(come) THEN "held" ELSE pc[q]]
  BY DEF Release
<1>2. /\ granted[k] \in Seq(Requests) /\ IsInjective(granted[k]) /\ r \in Range(granted[k])
      /\ waiters[k] \in Seq(Requests) /\ IsInjective(waiters[k])
      /\ Range(granted[k]) = In(k, "held") /\ Range(waiters[k]) = In(k, "waiting")
  BY <1>1 DEF RInv, RequestsTypeOK, QueuesAreTrue, In
<1>3. /\ Len(granted[k]) \in Nat /\ Len(waiters[k]) \in Nat
      /\ DOMAIN waiters[k] = 1..Len(waiters[k]) /\ DOMAIN granted[k] = 1..Len(granted[k])
  BY <1>2, LenProperties
<1>4. Len(granted[k]) - 1 \in Nat
  <2>1. \E i \in DOMAIN granted[k] : granted[k][i] = r
    BY <1>2 DEF Range
  <2>. QED  BY <1>3, <2>1
<1>5. Limit(k) = Projected(k) /\ Limit(k) \in Nat
  BY LimitIsProjected
<1>6. n \in 0..Len(waiters[k]) /\ (n > 0 => Len(granted[k]) - 1 + n <= Limit(k))
  BY <1>3, <1>4, <1>5, GrantsBounds
<1> HIDE DEF n
<1>7. /\ stay \in Seq(Requests) /\ Len(stay) = Len(granted[k]) - 1
      /\ IsInjective(stay) /\ Range(stay) = In(k, "held") \ {r}
  BY <1>2, WithoutQueue
<1>8. /\ come \in Seq(Requests) /\ Len(come) = n /\ IsInjective(come)
      /\ SubSeq(waiters[k], n + 1, Len(waiters[k])) \in Seq(Requests)
      /\ IsInjective(SubSeq(waiters[k], n + 1, Len(waiters[k])))
      /\ Range(SubSeq(waiters[k], n + 1, Len(waiters[k]))) = In(k, "waiting") \ Range(come)
  BY <1>2, <1>6, SplitQueue
<1>9. Range(come) \subseteq In(k, "waiting")
  <2>1. \A i \in 1..n : i \in DOMAIN waiters[k]
    BY <1>3, <1>6
  <2>2. Range(come) = {waiters[k][i] : i \in 1..n}
    <3> DEFINE q == waiters[k]
    <3>1. q \in Seq(Requests) /\ IsInjective(q) /\ n \in 0..Len(q)
      BY <1>2, <1>6
    <3> HIDE DEF q
    <3>2. Range(SubSeq(q, 1, n)) = {q[i] : i \in 1..n}
      BY <3>1, SplitQueue
    <3>. QED  BY <3>2 DEF q
  <2>. QED  BY <1>2, <2>1, <2>2 DEF Range
<1>10. Range(stay) \cap Range(come) = {}
  BY <1>7, <1>9 DEF In
<1>11. come \in Seq(Requests) /\ IsInjective(come) /\ stay \in Seq(Requests) /\ IsInjective(stay)
  BY <1>7, <1>8
<1> HIDE DEF stay, come
<1>12. /\ stay \o come \in Seq(Requests) /\ Len(stay \o come) = Len(stay) + Len(come)
       /\ Range(stay \o come) = Range(stay) \cup Range(come) /\ IsInjective(stay \o come)
  BY <1>11, <1>10, JoinQueues
<1>13. granted'[k] = stay \o come /\ waiters'[k] = SubSeq(waiters[k], n + 1, Len(waiters[k]))
  BY <1>1 DEF RInv, RequestsTypeOK
<1>14. n > 0 => Len(granted'[k]) <= Projected(k)
  BY <1>5, <1>6, <1>7, <1>8, <1>12, <1>13
<1>15. n = 0 => come = <<>>
  BY <1>8 DEF come
<1>16. /\ granted'[k] \in Seq(Requests) /\ IsInjective(granted'[k])
       /\ Range(granted'[k]) = (In(k, "held") \ {r}) \cup Range(come)
       /\ waiters'[k] \in Seq(Requests) /\ IsInjective(waiters'[k])
       /\ Range(waiters'[k]) = In(k, "waiting") \ Range(come)
  BY <1>7, <1>8, <1>12, <1>13
<1>. QED  BY <1>1, <1>6, <1>9, <1>14, <1>15, <1>16 DEF stay, come, n

(* A release keeps every request in its place.                             *)
LEMMA ReleaseRInv ==
    ASSUME IInv, RInv, NEW r \in Requests, Release(r) PROVE RInv'
<1>1. PICK k \in Keys : k = key[r]
  BY DEF RInv, RequestsTypeOK
<1> DEFINE n == Grants(k, Len(granted[k]) - 1)
           first == Range(SubSeq(waiters[k], 1, n))
<1>2. /\ granted' = [granted EXCEPT ![k] = Without(@, r) \o SubSeq(waiters[k], 1, n)]
      /\ waiters' = [waiters EXCEPT ![k] = SubSeq(@, n + 1, Len(@))]
      /\ pc' = [q \in Requests |->
                  IF q = r THEN "released" ELSE IF q \in first THEN "held" ELSE pc[q]]
      /\ granted'[k] \in Seq(Requests) /\ IsInjective(granted'[k])
      /\ Range(granted'[k]) = (In(k, "held") \ {r}) \cup first
      /\ waiters'[k] \in Seq(Requests) /\ IsInjective(waiters'[k])
      /\ Range(waiters'[k]) = In(k, "waiting") \ first
      /\ first \subseteq In(k, "waiting")
  BY <1>1, ReleaseEffect
<1> HIDE DEF n, first
<1>4. UNCHANGED <<logs, owner, key, signalled>> /\ pc[r] = "held"
  BY DEF Release, store
<1>5. /\ pc' \in [Requests -> States]
      /\ \A q \in Requests : pc'[q] =
           IF q = r THEN "released" ELSE IF q \in first THEN "held" ELSE pc[q]
  BY <1>2 DEF RInv, RequestsTypeOK, States
<1>6. /\ \A j \in Keys \ {k} : granted'[j] = granted[j] /\ waiters'[j] = waiters[j]
      /\ granted' \in [Keys -> Seq(Requests)] /\ waiters' \in [Keys -> Seq(Requests)]
  BY <1>2 DEF RInv, RequestsTypeOK
<1>7. RequestsTypeOK'
  BY <1>4, <1>5, <1>6 DEF RInv, RequestsTypeOK
<1>8. first \subseteq In(k, "waiting")
  BY <1>2
<1>9. In(k, "held")' = (In(k, "held") \ {r}) \cup first
  BY <1>1, <1>4, <1>5, <1>8 DEF In
<1>10. In(k, "waiting")' = In(k, "waiting") \ first
  BY <1>1, <1>4, <1>5, <1>8 DEF In
<1>11. ASSUME NEW j \in Keys, j # k
       PROVE  In(j, "waiting")' = In(j, "waiting") /\ In(j, "held")' = In(j, "held")
  BY <1>1, <1>4, <1>5, <1>8, <1>11 DEF In
<1>12. QueuesAreTrue'
  BY <1>2, <1>6, <1>9, <1>10, <1>11 DEF RInv, QueuesAreTrue
<1>13. OwnerIsObject'
  BY <1>4 DEF RInv, OwnerIsObject
<1>. QED  BY <1>7, <1>12, <1>13 DEF RInv

(* The store changes, no log loses an object, and no request moves.        *)
LEMMA StoreRInv ==
    ASSUME IInv, IInv', RInv, UNCHANGED <<owner, requests>>,
           \A s \in Sessions : Len(logs[s]) <= Len(logs'[s])
    PROVE  RInv'
<1>1. UNCHANGED <<owner, key, granted, waiters, signalled, pc>>
  BY DEF requests
<1>2. RequestsTypeOK' /\ QueuesAreTrue'
  BY <1>1 DEF RInv, RequestsTypeOK, QueuesAreTrue, In
<1>3. \A s \in Sessions : Len(logs[s]) \in Nat /\ Len(logs'[s]) \in Nat
  BY DEF IInv, StoreTypeOK
<1>4. OwnerIsObject'
  BY <1>1, <1>3 DEF RInv, RequestsTypeOK, OwnerIsObject
<1>. QED  BY <1>2, <1>4 DEF RInv

(* Every step keeps each request in the one place its state names: acquire,*)
(* the abort listener and release, index.ts:104-134.                       *)
THEOREM NextRInv == IInv /\ RInv /\ [Next]_vars => RInv'
<1> SUFFICES ASSUME IInv, RInv, [Next]_vars PROVE RInv'
  OBVIOUS
<1>1. IInv'
  BY NextIInv
<1>2. \A s \in Sessions : logs[s] \in Seq(Seq(Overrides))
  BY DEF IInv, StoreTypeOK
<1>3. ASSUME NEW s \in Sessions, Open(s) PROVE RInv'
  <2>1. PICK log \in Seq(Overrides) : logs' = [logs EXCEPT ![s] = Append(@, log)]
    <3>1. /\ <<>> \in Seq(Overrides)
          /\ logs[s] # <<>> => logs[s][Len(logs[s])] \in Seq(Overrides)
      BY <1>2
    <3>. QED  BY <1>3, <3>1 DEF Open
  <2>2. logs' \in [Sessions -> Seq(Seq(Overrides))] /\ logs \in [Sessions -> Seq(Seq(Overrides))]
    BY <1>1 DEF IInv, StoreTypeOK
  <2>3. logs'[s] = Append(logs[s], log) /\ \A t \in Sessions \ {s} : logs'[t] = logs[t]
    BY <2>1, <2>2
  <2>4. \A t \in Sessions : Len(logs[t]) <= Len(logs'[t])
    <3>1. Len(logs[s]) \in Nat /\ Len(logs'[s]) >= Len(logs[s])
      BY <1>2, <2>3
    <3>2. ASSUME NEW t \in Sessions, t # s PROVE Len(logs[t]) <= Len(logs'[t])
      <4>1. Len(logs[t]) \in Nat /\ logs'[t] = logs[t]
        BY <1>2, <2>3, <3>2
      <4>. QED  BY <4>1
    <3>. QED  BY <3>1, <3>2
  <2>. QED  BY <1>1, <1>3, <2>4, StoreRInv DEF Open
<1>4. ASSUME NEW s \in Sessions, NEW child \in Sessions, Fork(s, child) PROVE RInv'
  <2>1. PICK log : logs' = [logs EXCEPT ![child] = <<log>>] /\ logs[child] = <<>>
    BY <1>4 DEF Fork
  <2>2. logs' \in [Sessions -> Seq(Seq(Overrides))] /\ logs \in [Sessions -> Seq(Seq(Overrides))]
    BY <1>1 DEF IInv, StoreTypeOK
  <2>3. logs'[child] = <<log>> /\ \A t \in Sessions \ {child} : logs'[t] = logs[t]
    BY <2>1, <2>2
  <2>4. \A t \in Sessions : Len(logs[t]) <= Len(logs'[t])
    BY <2>1, <2>2, <2>3
  <2>. QED  BY <1>1, <1>4, <2>4, StoreRInv DEF Fork
<1>5. ASSUME NEW s \in Sessions, NEW o \in Overrides, SetCap(s, o) PROVE RInv'
  <2>1. PICK log \in Seq(Overrides) :
          logs' = [logs EXCEPT ![s] = [@ EXCEPT ![Len(logs[s])] = log]]
    <3>1. logs[s] # <<>> /\ logs[s][Len(logs[s])] \in Seq(Overrides)
      BY <1>2, <1>5 DEF SetCap, IInv, LiveHasObject
    <3>. QED  BY <1>5, <3>1, FoldAppend DEF SetCap
  <2>2. logs' \in [Sessions -> Seq(Seq(Overrides))] /\ logs \in [Sessions -> Seq(Seq(Overrides))]
    BY <1>1 DEF IInv, StoreTypeOK
  <2>3. /\ logs'[s] = [logs[s] EXCEPT ![Len(logs[s])] = log]
        /\ \A t \in Sessions \ {s} : logs'[t] = logs[t]
    BY <2>1, <2>2
  <2>4. \A t \in Sessions : Len(logs[t]) <= Len(logs'[t])
    <3>1. Len(logs[s]) \in Nat /\ Len(logs'[s]) >= Len(logs[s])
      BY <1>2, <2>3
    <3>2. ASSUME NEW t \in Sessions, t # s PROVE Len(logs[t]) <= Len(logs'[t])
      <4>1. Len(logs[t]) \in Nat /\ logs'[t] = logs[t]
        BY <1>2, <2>3, <3>2
      <4>. QED  BY <4>1
    <3>. QED  BY <3>1, <3>2
  <2>. QED  BY <1>1, <1>5, <2>4, StoreRInv DEF SetCap
<1>6. CASE Restart
  <2>1. /\ owner' = [s \in Sessions |-> 0] /\ key' = [r \in Requests |-> Global]
        /\ granted' = [k \in Keys |-> <<>>] /\ waiters' = [k \in Keys |-> <<>>]
        /\ signalled' = {} /\ pc' = [r \in Requests |-> "unasked"]
    BY <1>6 DEF Restart
  <2>2. IsInjective(<<>>) /\ Range(<<>>) = {} /\ <<>> \in Seq(Requests)
    BY DEF IInv, IsInjective, Range
  <2>3. RequestsTypeOK'
    BY <2>1, <2>2 DEF RequestsTypeOK, Keys, States
  <2>4. QueuesAreTrue'
    BY <2>1, <2>2 DEF QueuesAreTrue, In
  <2>5. \A s \in Sessions : Len(logs'[s]) \in Nat
    BY <1>1 DEF IInv, StoreTypeOK
  <2>6. OwnerIsObject'
    BY <2>1, <2>5 DEF OwnerIsObject
  <2>. QED  BY <2>3, <2>4, <2>6 DEF RInv
<1>7. ASSUME NEW s \in Sessions, PutAway(s) PROVE RInv'
  <2>1. \A t \in Sessions : Len(logs[t]) <= Len(logs'[t])
    BY <1>2, <1>7 DEF PutAway
  <2>. QED  BY <1>1, <1>7, <2>1, StoreRInv DEF PutAway
<1>8. CASE UNCHANGED vars
  <2>1. \A t \in Sessions : Len(logs[t]) <= Len(logs'[t])
    BY <1>2, <1>8 DEF vars, store
  <2>. QED  BY <1>1, <1>8, <2>1, StoreRInv DEF vars
<1>. QED  BY <1>3, <1>4, <1>5, <1>6, <1>7, <1>8,
             StreamRInv, AcquireRInv, AbortRInv, ReleaseRInv DEF Next, Overrides

(* What one step may do to the requests: a slot is given only below the cap *)
(* the Session then shows.                                                 *)
Keeps(r) == pc[r] # "held" /\ pc'[r] = "held" => Len(granted'[key[r]]) <= Projected(key[r])

LEMMA GrantsKeep ==
    ASSUME IInv, RInv, [Next]_vars, NEW r \in Requests PROVE Keeps(r)
<1> SUFFICES ASSUME pc[r] # "held", pc'[r] = "held"
             PROVE  Len(granted'[key[r]]) <= Projected(key[r])
  BY DEF Keeps
<1> USE DEF RInv, RequestsTypeOK
<1>1. ASSUME NEW q \in Requests, Acquire(q) PROVE Len(granted'[key[r]]) <= Projected(key[r])
  <2>1. q = r
    BY <1>1 DEF Acquire
  <2>2. key[r] \in Keys /\ granted[key[r]] \in Seq(Requests)
    OBVIOUS
  <2>3. /\ HasRoom(key[r], Len(granted[key[r]]))
        /\ granted' = [granted EXCEPT ![key[r]] = Append(@, r)]
    BY <1>1, <2>1 DEF Acquire
  <2>4. Len(granted'[key[r]]) = Len(granted[key[r]]) + 1 /\ Len(granted[key[r]]) \in Nat
    BY <2>2, <2>3
  <2>5. Limit(key[r]) = Projected(key[r]) /\ Limit(key[r]) \in Nat
    BY LimitIsProjected
  <2>. QED  BY <2>3, <2>4, <2>5 DEF HasRoom
<1>2. ASSUME NEW q \in Requests, Release(q) PROVE Len(granted'[key[r]]) <= Projected(key[r])
  <2>1. PICK k \in Keys : k = key[q]
    OBVIOUS
  <2> DEFINE n == Grants(k, Len(granted[k]) - 1)
             come == SubSeq(waiters[k], 1, n)
  <2>2. /\ pc' = [p \in Requests |->
                    IF p = q THEN "released" ELSE IF p \in Range(come) THEN "held" ELSE pc[p]]
        /\ Range(come) \subseteq In(k, "waiting")
        /\ n = 0 \/ Len(granted'[k]) <= Projected(k)
        /\ n = 0 => come = <<>>
    BY <1>2, <2>1, ReleaseEffect
  <2> HIDE DEF n, come
  <2>3. r \in Range(come)
    BY <2>2
  <2>4. key[r] = k
    BY <2>2, <2>3 DEF In
  <2>5. n # 0
    BY <2>2, <2>3 DEF Range
  <2>. QED  BY <2>2, <2>4, <2>5
<1>3. ASSUME pc' = pc PROVE FALSE
  BY <1>3
<1>4. ASSUME NEW q \in Requests, Stream(q) \/ Abort(q) PROVE FALSE
  BY <1>4 DEF Stream, Abort
<1>5. CASE Restart
  BY <1>5 DEF Restart
<1>6. ASSUME NEW s \in Sessions, Open(s) \/ PutAway(s) PROVE FALSE
  BY <1>3, <1>6 DEF Open, PutAway, requests
<1>7. ASSUME NEW s \in Sessions, NEW child \in Sessions, Fork(s, child) PROVE FALSE
  BY <1>3, <1>7 DEF Fork, requests
<1>8. ASSUME NEW s \in Sessions, NEW o \in Overrides, SetCap(s, o) PROVE FALSE
  BY <1>3, <1>8 DEF SetCap, requests
<1>9. CASE UNCHANGED vars
  BY <1>3, <1>9 DEF vars, requests
<1>. QED  BY <1>1, <1>2, <1>4, <1>5, <1>6, <1>7, <1>8, <1>9 DEF Next, Overrides

-----------------------------------------------------------------------------
(* The results.                                                            *)

LEMMA Invariants == Spec => [](IInv /\ RInv)
<1>1. Init => IInv /\ RInv
  BY InitIInv, InitRInv
<1>2. (IInv /\ RInv) /\ [Next]_vars => (IInv /\ RInv)'
  BY NextIInv, NextRInv
<1>. QED  BY <1>1, <1>2, PTL DEF Spec

(* Every variable of the store and of the requests keeps its type.         *)
THEOREM TypeCorrect == Spec => []TypeOK
<1>1. IInv /\ RInv => TypeOK
  BY DEF IInv, RInv, TypeOK
<1>. QED  BY <1>1, Invariants, PTL

(* The cap that is enforced, and that the command reports, is the one the  *)
(* projection shows: index.ts:276-282 against 226-236.                     *)
THEOREM CapIsTheLoggedOne == Spec => []CapInForce
<1>1. IInv /\ RInv => CapInForce
  BY IInvImpliesCapInForce
<1>. QED  BY <1>1, Invariants, PTL

(* Whoever gets a slot gets it below the cap its Session shows, whatever   *)
(* happened to the Session and its cap while it was queued: index.ts:99-134 *)
(* with the limit of index.ts:292.                                         *)
THEOREM SlotsKeepToShownCap == Spec => [][\A r \in Requests : Keeps(r)]_vars
<1>1. IInv /\ RInv /\ [Next]_vars => [\A r \in Requests : Keeps(r)]_vars
  BY GrantsKeep
<1>. QED  BY <1>1, Invariants, PTL DEF Spec

(* The queue of a semaphore is the requests that wait for it, and its slots *)
(* are the requests that hold one, each once.                              *)
THEOREM EachRequestInItsQueue == Spec => []QueuesAreTrue
<1>1. IInv /\ RInv => QueuesAreTrue
  BY DEF RInv
<1>. QED  BY <1>1, Invariants, PTL
=============================================================================
