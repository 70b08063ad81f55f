---------------------------- MODULE FifoAdmission ----------------------------
(***************************************************************************)
(* What a FIFO semaphore with a fixed limit promises: callers stand in one *)
(* line in the order in which they came, those inside are at every moment  *)
(* the first 'limit' of the line, and a caller leaves the line when it is  *)
(* done, or gives up.  No slot is left free while somebody stands outside, *)
(* and nobody overtakes.                                                   *)
(***************************************************************************)
EXTENDS Integers, Sequences, SequencesExt

CONSTANT Callers

VARIABLES
    limit,    \* how many may be inside
    line,     \* the callers that came and did not leave, in order
    inside,   \* those that are inside
    gone      \* those that left, or never joined

vars == <<limit, line, inside, gone>>

FirstOf(q) == {q[i] : i \in {j \in DOMAIN q : j <= limit}}

Init ==
    /\ limit \in Nat \ {0}
    /\ line = <<>> /\ inside = {} /\ gone = {}

Come(c) ==
    /\ c \notin Range(line) \cup gone
    /\ line' = Append(line, c)
    /\ inside' = FirstOf(line')
    /\ UNCHANGED <<limit, gone>>

Leave(i) ==
    /\ line' = RemoveAt(line, i)
    /\ inside' = FirstOf(line')
    /\ gone' = gone \cup {line[i]}
    /\ UNCHANGED limit

(* A caller that has given up before it came does not join the line.       *)
Refuse(c) ==
    /\ c \notin Range(line) \cup gone
    /\ gone' = gone \cup {c}
    /\ UNCHANGED <<limit, line, inside>>

Next == \/ \E c \in Callers : Come(c) \/ Refuse(c)
        \/ \E i \in DOMAIN line : Leave(i)
Spec == Init /\ [][Next]_vars
=============================================================================
