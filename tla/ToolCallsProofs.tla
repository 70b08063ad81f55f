--------------------------- MODULE ToolCallsProofs ---------------------------
(***************************************************************************)
(* What the tool cap owes to its semaphore: nested calls of child agents   *)
(* are served in one line, and a queue in front of the cap can advance     *)
(* whenever there are more slots than bodies that run agents.              *)
(***************************************************************************)
EXTENDS ToolCalls, SemaphoreProofs, FiniteSetTheorems

(* The bodies that run agents of their own.                                *)
AgentBodies == {c \in Callers : Children(c) # {}}

-----------------------------------------------------------------------------
(* The cap makes no step the semaphore does not: a nested call is one more *)
(* caller, and a body returns only when it may.                            *)
LEMMA CapIsASemaphore == ToolSpec => Spec
<1>1. ToolNext => Next
  BY DEF ToolNext, Execute, Return, Next
<1> QED BY <1>1, PTL DEF ToolSpec, Spec

(* The tool calls of all agents, nested ones included, are served in the   *)
(* order in which they come while the cap is not changed.                  *)
THEOREM ToolCallsInLine ==
    ASSUME MaxChanges = 0
    PROVE  ToolSpec => ImplementsFifoAdmission
BY CapIsASemaphore, FixedLimitIsFifo, PTL

(* More slots taken than bodies run agents: one of those that hold a slot  *)
(* runs none.                                                              *)
LEMMA SomeHolderRunsNone ==
    ASSUME Inv, Len(granted) > Cardinality(AgentBodies)
    PROVE  \E c \in Callers : pc[c] = "held" /\ Children(c) = {}
<1> DEFINE n == Len(granted)
<1>1. /\ granted \in Seq(Callers) /\ IsInjective(granted)
      /\ n \in Nat /\ DOMAIN granted = 1..n /\ granted \in [1..n -> Callers]
  BY LenProperties DEF Inv, TypeOK, ActiveCountsHolders
<1> HIDE DEF n
<1>2. IsFiniteSet(AgentBodies)
  <2>1. AgentBodies \in SUBSET Callers /\ IsFiniteSet(Callers)
    BY SemaphoreAssumption DEF AgentBodies
  <2> QED BY <2>1, FS_Subset
<1>3. \E i \in 1..n : granted[i] \notin AgentBodies
  <2> SUFFICES ASSUME \A i \in 1..n : granted[i] \in AgentBodies
               PROVE  FALSE
    OBVIOUS
  <2>1. granted \in [1..n -> AgentBodies]
    BY <1>1
  <2>2. IsFiniteSet(1..n) /\ Cardinality(1..n) = n
    <3>1. /\ IsFiniteSet(1..n)
          /\ Cardinality(1..n) = IF 1 > n THEN 0 ELSE n - 1 + 1
      BY <1>1, FS_Interval
    <3> QED BY <1>1, <3>1
  <2>3. Cardinality(AgentBodies) < Cardinality(1..n)
    <3>1. Cardinality(AgentBodies) \in Nat
      BY <1>2, FS_CardinalityType
    <3> QED BY <1>1, <2>2, <3>1 DEF n
  <2>4. \E i, j \in 1..n : i # j /\ granted[i] = granted[j]
    BY <1>2, <2>1, <2>2, <2>3, FS_PigeonHole
  <2> QED BY <1>1, <2>4 DEF IsInjective
<1>4. PICK i \in 1..n : granted[i] \notin AgentBodies
  BY <1>3
<1>5. granted[i] \in Callers /\ granted[i] \in Range(granted)
  BY <1>1 DEF Range
<1> QED BY <1>4, <1>5 DEF AgentBodies, Inv, ActiveCountsHolders

(* With more slots than bodies that run agents the cap only delays calls:  *)
(* in front of every queue there is a body that holds a slot and waits for *)
(* nobody, whatever the nesting of the agents.  With fewer slots the code  *)
(* has no such guarantee.                                                  *)
THEOREM QueueNeverSticks ==
    ASSUME MaxChanges = 0, \A n \in Limits : Cardinality(AgentBodies) < n
    PROVE  ToolSpec => []QueueAdvances
<1>1. ASSUME Inv, NoIdleSlot
      PROVE  QueueAdvances
  <2> SUFFICES ASSUME waiters # <<>>
               PROVE  \E c \in Callers : CanReturn(c)
    BY DEF QueueAdvances
  <2>1. changes = 0
    BY <1>1 DEF Inv, TypeOK
  <2>2. Len(granted) = limit /\ limit \in Limits
    BY <1>1, <2>1 DEF Inv, TypeOK, ActiveCountsHolders, NoIdleSlot
  <2>3. Len(granted) > Cardinality(AgentBodies)
    <3>1. limit \in Nat /\ Cardinality(AgentBodies) < limit
      BY <2>2, SemaphoreAssumption
    <3> QED BY <2>2, <3>1
  <2>4. PICK c \in Callers : pc[c] = "held" /\ Children(c) = {}
    BY <1>1, <2>3, SomeHolderRunsNone
  <2>5. CanReturn(c)
    BY <2>4 DEF CanReturn
  <2> QED BY <2>5
<1> QED
  BY <1>1, CapIsASemaphore, InvInductive, NoSlotStaysIdle, PTL DEF Spec
=============================================================================
