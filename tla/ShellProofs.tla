---------------------------- MODULE ShellProofs ----------------------------
(***************************************************************************)
(* Proofs about Shell: what its operators on the overlay stack do, the     *)
(* inductive invariant, and the properties that follow from it.            *)
(***************************************************************************)
EXTENDS Shell, QueueLemmas

ViewKinds == AllKinds \cup {"approval-question", "selector.fork-history"}

\* No two views of the stack have the same key.
KeysDiffer(s) == \A i, j \in DOMAIN s : s[i].key = s[j].key => i = j

\* The interactive window has a closer, and it has not been called.
WindowUp == window.key # NoKey /\ ~window.consumed

-----------------------------------------------------------------------------
(* The operators.                                                          *)

(* Closing the view of a key takes at most that view away: the others keep *)
(* their order, the bottom and the top stay unless they have that key.     *)
LEMMA ClosedView ==
    ASSUME NEW s \in Seq(Anything), NEW key
    PROVE  LET c == Closed(s, key)
           IN  /\ c \in Seq(Anything) /\ Range(c) \subseteq Range(s)
               /\ Len(c) <= Len(s)
               /\ OnStack(s, key) => Len(c) = Len(s) - 1
               /\ KeysDiffer(s) => KeysDiffer(c)
               /\ s # <<>> /\ s[1].key # key => c # <<>> /\ c[1] = s[1]
               /\ s # <<>> /\ Last(s).key # key => c # <<>> /\ Last(c) = Last(s)
               /\ KeysDiffer(s) /\ s # <<>> /\ Last(s).key = key => c = Front(s)
<1> DEFINE c == Closed(s, key)
           n == Len(s)
           T == {i \in DOMAIN s : s[i].key = key}
           m == Min(T)
<1>1. n \in Nat /\ DOMAIN s = 1..n /\ \A i \in 1..n : s[i] \in Anything
  BY LenProperties, ElementOfSeq
<1>2. s # <<>> => n # 0
  BY EmptySeq
<1>3. CASE ~OnStack(s, key)
  <2>1. c = s
    BY <1>3 DEF Closed
  <2>2. s # <<>> => Last(s) \in Range(s)
    BY <1>1, <1>2 DEF Last, Range
  <2>3. s # <<>> => Last(s).key # key
    BY <1>3, <2>2 DEF OnStack
  <2>4. /\ c \in Seq(Anything) /\ Range(c) \subseteq Range(s) /\ Len(c) <= Len(s)
        /\ KeysDiffer(s) => KeysDiffer(c)
        /\ s # <<>> => c # <<>> /\ c[1] = s[1] /\ Last(c) = Last(s)
    <3> HIDE DEF c
    <3> QED BY <1>1, <2>1
  <2> HIDE DEF c
  <2> QED BY <1>3, <2>3, <2>4 DEF c
<1>4. CASE OnStack(s, key)
  <2>1. T \in SUBSET Nat /\ T # {}
    BY <1>1, <1>4 DEF OnStack, Range
  <2>2. m \in T /\ \A i \in T : m <= i
    <3> HIDE DEF T
    <3> QED BY <2>1, MinOfNats
  <2>3. c = RemoveAt(s, m)
    BY <1>4 DEF Closed
  <2> HIDE DEF c, m
  <2>4. m \in 1..n /\ s[m].key = key /\ s # <<>>
    BY <1>1, <2>2
  <2>5. /\ c \in Seq(Anything) /\ Len(c) = n - 1 /\ DOMAIN c = 1..(n - 1)
        /\ \A j \in 1..(n - 1) : c[j] = IF j < m THEN s[j] ELSE s[j + 1]
    <3>1. m \in DOMAIN s
      BY <1>1, <2>4
    <3> QED BY <2>3, <3>1, RemovedAt
  <2> HIDE DEF n
  <2>6. Range(c) \subseteq Range(s)
    <3>1. ASSUME NEW j \in DOMAIN c PROVE c[j] \in Range(s)
      <4>1. j \in 1..n /\ j + 1 \in 1..n
        BY <1>1, <2>5
      <4> QED BY <1>1, <2>5, <4>1 DEF Range
    <3> QED BY <3>1 DEF Range
  <2>7. ASSUME KeysDiffer(s) PROVE KeysDiffer(c)
    <3> SUFFICES ASSUME NEW i \in 1..(n - 1), NEW j \in 1..(n - 1), c[i].key = c[j].key
                 PROVE  i = j
      BY <2>5 DEF KeysDiffer
    <3> DEFINE up(x) == IF x < m THEN x ELSE x + 1
    <3>1. /\ up(i) \in 1..n /\ up(j) \in 1..n /\ c[i] = s[up(i)] /\ c[j] = s[up(j)]
      BY <1>1, <2>5
    <3>2. up(i) = up(j)
      <4> HIDE DEF up
      <4> QED BY <1>1, <2>7, <3>1 DEF KeysDiffer
    <3> QED BY <1>1, <2>4, <3>2
  <2>8. s[1].key # key => c # <<>> /\ c[1] = s[1]
    <3> SUFFICES ASSUME s[1].key # key PROVE c # <<>> /\ c[1] = s[1]
      OBVIOUS
    <3>1. m # 1
      BY <2>4
    <3>2. 1 \in 1..(n - 1) /\ 1 < m
      BY <1>1, <2>4, <3>1
    <3> QED BY <2>5, <3>2
  <2>9. Last(s).key # key => c # <<>> /\ Last(c) = Last(s)
    <3> SUFFICES ASSUME Last(s).key # key PROVE c # <<>> /\ Last(c) = Last(s)
      OBVIOUS
    <3>1. m # n
      BY <2>4 DEF Last, n
    <3>2. n - 1 \in 1..(n - 1) /\ ~(n - 1 < m) /\ (n - 1) + 1 = n
      BY <1>1, <2>4, <3>1
    <3>3. c[n - 1] = s[n]
      BY <2>5, <3>2
    <3>4. Last(c) = c[n - 1] /\ Last(s) = s[n]
      BY <2>5 DEF Last, n
    <3> QED BY <2>5, <3>2, <3>3, <3>4
  <2>10. KeysDiffer(s) /\ Last(s).key = key => c = Front(s)
    <3> SUFFICES ASSUME KeysDiffer(s), Last(s).key = key PROVE c = Front(s)
      OBVIOUS
    <3>1. m = n
      <4>1. n \in DOMAIN s /\ m \in DOMAIN s
        BY <1>1, <2>4
      <4>2. s[n].key = s[m].key
        BY <2>4 DEF Last, n
      <4> QED BY <4>1, <4>2 DEF KeysDiffer
    <3>2. /\ Front(s) \in Seq(Anything) /\ Len(Front(s)) = n - 1
          /\ \A j \in 1..(n - 1) : Front(s)[j] = s[j]
      BY <2>4, FrontOf DEF n
    <3>3. \A j \in 1..(n - 1) : c[j] = s[j]
      BY <1>1, <2>5, <3>1
    <3> QED BY <2>5, <3>2, <3>3, SeqEqual
  <2> QED BY <1>1, <2>4, <2>5, <2>6, <2>7, <2>8, <2>9, <2>10 DEF n, c
<1> QED BY <1>3, <1>4

(* A view that is opened lies on top of what was there.                    *)
LEMMA OpenedView ==
    ASSUME NEW s \in Seq(Anything), NEW v \in Anything
    PROVE  LET a == Append(s, v)
           IN  /\ a \in Seq(Anything) /\ a # <<>> /\ Last(a) = v
               /\ Len(a) = Len(s) + 1 /\ Range(a) = Range(s) \cup {v}
               /\ KeysDiffer(s) /\ ~OnStack(s, v.key) => KeysDiffer(a)
               /\ s # <<>> => a[1] = s[1]
               /\ s = <<>> => a[1] = v
<1> DEFINE a == Append(s, v)
<1>1. /\ a \in Seq(Anything) /\ a # <<>> /\ Len(a) = Len(s) + 1
      /\ \A i \in 1..Len(s) : a[i] = s[i]
      /\ a[Len(s) + 1] = v
  BY AppendProperties
<1>2. /\ Len(s) \in Nat /\ DOMAIN s = 1..Len(s) /\ DOMAIN a = 1..(Len(s) + 1)
  BY <1>1, LenProperties
<1>3. Range(a) = Range(s) \cup {v}
  BY AppendQueue
<1> HIDE DEF a
<1>4. Last(a) = v
  BY <1>1 DEF Last
<1>5. ASSUME KeysDiffer(s), ~OnStack(s, v.key) PROVE KeysDiffer(a)
  <2>1. \A i \in 1..Len(s) : a[i].key # v.key
    BY <1>1, <1>2, <1>5 DEF OnStack, Range
  <2>2. ASSUME NEW i \in 1..(Len(s) + 1), NEW j \in 1..(Len(s) + 1), a[i].key = a[j].key
        PROVE  i = j
    <3>1. CASE i \in 1..Len(s) /\ j \in 1..Len(s)
      BY <1>1, <1>2, <1>5, <2>2, <3>1 DEF KeysDiffer
    <3>2. CASE i = Len(s) + 1 \/ j = Len(s) + 1
      BY <1>1, <1>2, <2>1, <2>2, <3>2
    <3> QED BY <1>2, <3>1, <3>2
  <2> QED BY <1>2, <2>2 DEF KeysDiffer
<1>6. s # <<>> => a[1] = s[1]
  BY <1>1, <1>2, EmptySeq
<1>7. s = <<>> => a[1] = v
  BY <1>1, EmptySeq
<1> QED BY <1>1, <1>3, <1>4, <1>5, <1>6, <1>7 DEF a

(* Every window the interactive window opens goes on top of the stack, and *)
(* takes at most the window that was up away.                              *)
LEMMA WindowOpens ==
    ASSUME stack \in Seq(Anything), NEW kind, NEW key, View(kind, key) \in Anything
    PROVE  LET o == WindowOpened(kind, key)
               v == View(kind, key)
           IN  /\ o.stack \in Seq(Anything) /\ Range(o.stack) \subseteq Range(stack) \cup {v}
               /\ o.window \in {window, NoWindow, [key |-> key, consumed |-> FALSE]}
               /\ stack = <<>> => Len(o.stack) <= 1
               /\ KeysDiffer(stack) /\ ~OnStack(stack, key) => KeysDiffer(o.stack)
               /\ stack # <<>> /\ stack[1].key # window.key
                    => o.stack # <<>> /\ o.stack[1] = stack[1]
               /\ (kind = "approval-question" \/ stack = <<>>) /\ (WindowUp => OnStack(stack, window.key))
                    => /\ o.stack # <<>> /\ Last(o.stack) = v
                       /\ o.window = [key |-> key, consumed |-> FALSE]
<1> DEFINE o == WindowOpened(kind, key)
           v == View(kind, key)
           new == [key |-> key, consumed |-> FALSE]
           throws == WindowUp /\ ~OnStack(stack, window.key)
           below == IF WindowUp THEN Closed(stack, window.key) ELSE stack
           ok == ~throws /\ Admits(below, kind)
<1>1. /\ o.stack = IF ok THEN Append(below, v) ELSE below
      /\ o.window = CASE ok -> new [] throws -> window
                      [] OTHER -> IF WindowUp THEN WatchedClosing(window.key) ELSE window
  BY DEF WindowOpened, WindowUp
<1>2. /\ below \in Seq(Anything) /\ Range(below) \subseteq Range(stack)
      /\ Len(below) <= Len(stack)
      /\ KeysDiffer(stack) => KeysDiffer(below)
      /\ stack # <<>> /\ stack[1].key # window.key => below # <<>> /\ below[1] = stack[1]
  <2>1. CASE WindowUp
    <3>1. PICK w : w = window.key
      OBVIOUS
    <3> DEFINE c == Closed(stack, w)
    <3>2. below = c
      BY <2>1, <3>1
    <3>3. /\ c \in Seq(Anything) /\ Range(c) \subseteq Range(stack)
          /\ Len(c) <= Len(stack)
          /\ KeysDiffer(stack) => KeysDiffer(c)
          /\ stack # <<>> /\ stack[1].key # w => c # <<>> /\ c[1] = stack[1]
      BY ClosedView
    <3> HIDE DEF c, below
    <3> QED BY <3>1, <3>2, <3>3
  <2>2. CASE ~WindowUp
    <3>1. below = stack
      BY <2>2
    <3>2. Len(stack) <= Len(stack)
      BY LenProperties
    <3> HIDE DEF below
    <3> QED BY <3>1, <3>2
  <2> QED BY <2>1, <2>2
<1>3. WatchedClosing(window.key) \in {window, NoWindow}
  BY DEF WatchedClosing, Watched
<1>4. o.window \in {window, NoWindow, new}
  BY <1>1, <1>3
<1>5. stack = <<>> => below = <<>>
  <2> SUFFICES ASSUME stack = <<>> PROVE below = <<>>
    OBVIOUS
  <2>1. Range(stack) = {}
    BY DEF Range
  <2>2. ~OnStack(stack, window.key)
    BY <2>1 DEF OnStack
  <2> QED BY <2>2 DEF Closed
<1>6. kind = "approval-question" \/ stack = <<>> => Admits(below, kind)
  <2>1. ASSUME kind = "approval-question", below # <<>> PROVE Admits(below, kind)
    <3>1. Priority(kind) = 5
      BY <2>1 DEF Priority
    <3>2. Priority(Last(below).kind) \in 1..5
      BY DEF Priority
    <3> QED BY <3>1, <3>2 DEF Admits
  <2> QED BY <1>5, <2>1 DEF Admits
<1>7. OnStack(below, key) => OnStack(stack, key)
  BY <1>2 DEF OnStack
<1>8. v.key = key
  BY DEF View
<1> HIDE DEF below, v
<1> DEFINE a == Append(below, v)
<1>9. /\ a \in Seq(Anything) /\ a # <<>> /\ Last(a) = v
      /\ Len(a) = Len(below) + 1 /\ Range(a) = Range(below) \cup {v}
      /\ KeysDiffer(below) /\ ~OnStack(below, v.key) => KeysDiffer(a)
      /\ below # <<>> => a[1] = below[1]
  <2>1. below \in Seq(Anything) /\ v \in Anything
    BY <1>2 DEF v
  <2> QED BY <2>1, OpenedView
<1> HIDE DEF a, ok
<1>10. o.stack \in {a, below}
  BY <1>1 DEF a
<1>11. stack = <<>> => Len(o.stack) <= 1
  <2> SUFFICES ASSUME stack = <<>> PROVE Len(o.stack) <= 1
    OBVIOUS
  <2>1. Len(below) = 0 /\ Len(a) = 1
    BY <1>5, <1>9
  <2>2. \A x \in {a, below} : Len(x) <= 1
    BY <2>1
  <2> HIDE DEF o
  <2> QED BY <1>10, <2>2
<1>12. KeysDiffer(stack) /\ ~OnStack(stack, key) => KeysDiffer(o.stack)
  BY <1>2, <1>7, <1>8, <1>9, <1>10
<1>13. stack # <<>> /\ stack[1].key # window.key => o.stack # <<>> /\ o.stack[1] = stack[1]
  BY <1>2, <1>9, <1>10
<1>14. ASSUME kind = "approval-question" \/ stack = <<>>,
              WindowUp => OnStack(stack, window.key)
       PROVE  o.stack # <<>> /\ Last(o.stack) = v /\ o.window = new
  <2>1. ok
    BY <1>6, <1>14 DEF ok
  <2>2. ~throws
    BY <1>14
  <2>3. o.stack = a /\ o.window = new
    BY <1>1, <2>1, <2>2 DEF a
  <2> QED BY <1>9, <2>3
<1>15. Range(o.stack) \subseteq Range(stack) \cup {v} /\ o.stack \in Seq(Anything)
  BY <1>2, <1>9, <1>10
<1> HIDE DEF o, new
<1>16. /\ o.stack \in Seq(Anything) /\ Range(o.stack) \subseteq Range(stack) \cup {v}
       /\ o.window \in {window, NoWindow, new}
       /\ stack = <<>> => Len(o.stack) <= 1
       /\ KeysDiffer(stack) /\ ~OnStack(stack, key) => KeysDiffer(o.stack)
       /\ stack # <<>> /\ stack[1].key # window.key
            => o.stack # <<>> /\ o.stack[1] = stack[1]
       /\ (kind = "approval-question" \/ stack = <<>>) /\ (WindowUp => OnStack(stack, window.key))
            => o.stack # <<>> /\ Last(o.stack) = v /\ o.window = new
  BY <1>4, <1>11, <1>12, <1>13, <1>14, <1>15
<1> QED BY <1>16 DEF o, v, new

-----------------------------------------------------------------------------
(* The inductive invariant.                                                *)

\* The types, and the focus a dispose will find.
TypeInv ==
    /\ TypeOK
    /\ active # NoView => active.kind \in Known \cap Range(focus) /\ active.key \in Nat

\* No key is used twice: not on the stack, and not by what is on its way to it.
KeysInv ==
    /\ KeysDiffer(stack)
    /\ \A v, w \in inflight : v.key = w.key => v = w
    /\ \A v \in inflight : /\ v.kind \in AllKinds /\ v.key \in Nat /\ v.key < opens
                           /\ v.key \notin {window.key, active.key}
                           /\ \A u \in Range(stack) : u.key # v.key
    /\ \A v \in Range(stack) : v.key \in Nat => v.key < opens
    /\ active # NoView => active.key < opens /\ active.key # window.key
    /\ window.key \in Nat => window.key < opens

\* What is pending has been asked for and is there once, and only its first
\* interaction has ever had a window.
PendingInv ==
    /\ IsInjective(pending) /\ Range(pending) \subseteq asked
    /\ shown = IF pending = <<>> THEN NoKey ELSE pending[1]
    /\ \A v \in Range(stack) : v.key \in Interactions =>
         /\ v.key \in asked
         /\ \A n \in DOMAIN pending : pending[n] = v.key => n = 1

\* Until a reply comes late, the view of activeOverlayKey is at the bottom of
\* the stack, and its focus on top of the composer's.
FocusInv ==
    Without("late") =>
        /\ focus = IF active = NoView THEN <<"composer.editor">>
                   ELSE <<"composer.editor", active.kind>>
        /\ active # NoView => stack # <<>> /\ stack[1] = active

\* Until something opens over a view, there is one at most.
CoverInv == happened \cap {"covered", "late"} = {} => Len(stack) <= 1

\* The window that is up is on top, and it is that of the first interaction
\* unless this one has been answered.
WindowInv ==
    happened \subseteq {"covered", "escAgain"} =>
        /\ pump
        /\ pending # <<>> => pending[1] \in answering \/ (window.key = pending[1] /\ ~window.consumed)
        /\ WindowUp => stack # <<>> /\ Last(stack).key = window.key

IInv == TypeInv /\ KeysInv /\ PendingInv /\ FocusInv /\ CoverInv /\ WindowInv

(* The invariant implies the properties the runs check.                    *)
LEMMA IInvImplies == IInv => TypeOK /\ FocusRestored /\ HeadShown
<1> SUFFICES ASSUME IInv PROVE TypeOK /\ FocusRestored /\ HeadShown
  OBVIOUS
<1>1. TypeOK
  BY DEF IInv, TypeInv
<1>2. /\ stack \in Seq(Anything) /\ Len(stack) \in Nat /\ DOMAIN stack = 1..Len(stack)
      /\ stack # <<>> => Len(stack) # 0
  <2>1. stack \in Seq(Anything)
    BY <1>1 DEF TypeOK
  <2> QED BY <2>1, LenProperties, EmptySeq
<1>3. stack # <<>> => stack[1] \in Range(stack) /\ Last(stack) \in Range(stack)
  BY <1>2 DEF Last, Range
<1>4. FocusRestored
  <2> SUFFICES ASSUME Without("late")
               PROVE  /\ focus = <<"composer.editor">> \o (IF active = NoView THEN <<>> ELSE <<active.kind>>)
                      /\ active = NoView \/ OnStack(stack, active.key)
    BY DEF FocusRestored
  <2>1. /\ focus = IF active = NoView THEN <<"composer.editor">> ELSE <<"composer.editor", active.kind>>
        /\ active # NoView => stack # <<>> /\ stack[1] = active
    BY DEF IInv, FocusInv
  <2>2. active # NoView => OnStack(stack, active.key)
    BY <1>3, <2>1 DEF OnStack
  <2>3. focus = <<"composer.editor">> \o (IF active = NoView THEN <<>> ELSE <<active.kind>>)
    <3>1. CASE active = NoView
      BY <2>1, <3>1
    <3>2. CASE active # NoView
      BY <2>1, <3>2
    <3> QED BY <3>1, <3>2
  <2> QED BY <2>2, <2>3
<1>5. HeadShown
  <2> SUFFICES ASSUME happened \subseteq {"covered", "escAgain"}
               PROVE  pump /\ (pending # <<>> => OnStack(stack, pending[1]) \/ pending[1] \in answering)
    BY DEF HeadShown
  <2>1. /\ pump
        /\ pending # <<>> => pending[1] \in answering \/ (window.key = pending[1] /\ ~window.consumed)
        /\ WindowUp => stack # <<>> /\ Last(stack).key = window.key
    BY DEF IInv, WindowInv
  <2>2. ASSUME pending # <<>>, window.key = pending[1], ~window.consumed
        PROVE  OnStack(stack, pending[1])
    <3>1. pending[1] # NoKey
      <4>1. pending \in Seq(Interactions)
        BY <1>1 DEF TypeOK
      <4>2. 1 \in 1..Len(pending)
        BY <2>2, <4>1, EmptySeq
      <4>3. pending[1] \in Interactions
        BY <4>1, <4>2, ElementOfSeq
      <4> QED BY <4>3, ShellAssumption DEF ShellAssumption
    <3>2. stack # <<>> /\ Last(stack).key = pending[1]
      BY <2>1, <2>2, <3>1 DEF WindowUp
    <3> QED BY <1>3, <3>2 DEF OnStack
  <2> QED BY <2>1, <2>2
<1> QED BY <1>1, <1>4, <1>5

-----------------------------------------------------------------------------
(* What reaches the listener of the snapshots.                             *)

\* What Publish does to the window, told by the values it leaves.
Published ==
    /\ shown' = IF pending' = <<>> THEN NoKey ELSE pending'[1]
    /\ turn' \in BOOLEAN /\ status' = Synced(turn')
    /\ happened \subseteq happened' /\ happened' \subseteq happened \cup {"unsupported", "covered"}
    /\ \/ /\ stack' = stack /\ window' = window
          /\ shown' \in {NoKey, shown} \/ "unsupported" \in happened'
       \/ /\ shown' \notin {NoKey, shown}
          /\ stack' = WindowOpened("approval-question", shown').stack
          /\ window' = WindowOpened("approval-question", shown').window
          /\ Len(stack') > 1 => "covered" \in happened'

\* How a queue of interactions moves: one comes, one goes, or all go.
Queued ==
    \/ /\ \E i \in Interactions \ asked : pending' = Append(pending, i) /\ asked' = asked \cup {i}
    \/ /\ \E i \in Interactions : pending' = Removed(pending, i)
       /\ asked' = asked
    \/ pending' \in {<<>>, pending} /\ asked' = asked

(* The actions that publish a snapshot do so, and move the queue; a        *)
(* response that the Host refuses publishes nothing.                       *)
LEMMA WhoPublishes ==
    ASSUME TypeInv, NEW i
    PROVE  /\ (\/ i \in Interactions /\ Ask(i)
               \/ i \in Questions /\ Withdraw(i)
               \/ SelectSession \/ TurnChanges) => Published /\ Queued
           /\ Responded(i) => \/ Published /\ pending' = Removed(pending, i)
                              \/ /\ Note(i \in Range(pending), "refused")
                                 /\ UNCHANGED <<pending, shown, execution, stack, window>>
<1>0. turn \in BOOLEAN /\ shown \in Interactions \cup {NoKey}
  BY DEF TypeInv, TypeOK
<1>1. ASSUME i \in Interactions, Ask(i) PROVE Published /\ Queued
  <2>1. Published
    BY <1>0, <1>1 DEF Ask, Publish, Published, Due
  <2>2. Queued
    BY <1>1 DEF Ask, Publish, Queued
  <2> QED BY <2>1, <2>2
<1>2. ASSUME Withdraw(i), i \in Questions PROVE Published /\ Queued
  <2>1. Publish(Removed(pending, i), turn) /\ asked' = asked
    BY <1>2 DEF Withdraw
  <2>2. Published
    BY <1>0, <2>1 DEF Publish, Published, Due
  <2>3. Queued
    BY <1>2, <2>1 DEF Publish, Queued, Interactions
  <2> QED BY <2>2, <2>3
<1>3. ASSUME SelectSession PROVE Published /\ Queued
  <2>1. Published
    BY <1>0, <1>3 DEF SelectSession, Publish, Published, Due
  <2>2. Queued
    BY <1>3 DEF SelectSession, Publish, Queued
  <2> QED BY <2>1, <2>2
<1>4. ASSUME TurnChanges PROVE Published /\ Queued
  <2>1. Published
    BY <1>0, <1>4 DEF TurnChanges, Publish, Published, Due
  <2>2. Queued
    BY <1>4 DEF TurnChanges, Publish, Queued
  <2> QED BY <2>1, <2>2
<1>5. ASSUME Responded(i), i \notin withdrawn, Publish(Removed(pending, i), turn)
      PROVE  Published /\ pending' = Removed(pending, i)
  BY <1>0, <1>5 DEF Publish, Published, Due
<1> QED BY <1>1, <1>2, <1>3, <1>4, <1>5 DEF Responded

(* The queue keeps its order and holds no interaction twice; a new head    *)
(* has no window yet.                                                      *)
LEMMA QueueMoves ==
    ASSUME TypeInv, PendingInv, Queued,
           shown' = IF pending' = <<>> THEN NoKey ELSE pending'[1]
    PROVE  /\ pending' \in Seq(Interactions) /\ IsInjective(pending')
           /\ asked \subseteq asked' /\ asked' \subseteq Interactions /\ Range(pending') \subseteq asked'
           /\ \A v \in Range(stack), n \in DOMAIN pending' : pending'[n] = v.key => n = 1
           /\ shown' \notin {NoKey, shown} => \A v \in Range(stack) : v.key # shown'
           /\ shown' \in Interactions \cup {NoKey}
<1>0. /\ pending \in Seq(Interactions) /\ asked \subseteq Interactions
      /\ IsInjective(pending) /\ Range(pending) \subseteq asked
      /\ shown = IF pending = <<>> THEN NoKey ELSE pending[1]
      /\ \A v \in Range(stack) : v.key \in Interactions =>
         /\ v.key \in asked
         /\ \A n \in DOMAIN pending : pending[n] = v.key => n = 1
  BY DEF TypeInv, TypeOK, PendingInv
<1>1. /\ Len(pending) \in Nat /\ DOMAIN pending = 1..Len(pending)
      /\ pending # <<>> => Len(pending) # 0
      /\ \A n \in DOMAIN pending : pending[n] \in Interactions /\ pending[n] \in Range(pending)
  BY <1>0, LenProperties, EmptySeq, ElementOfSeq DEF Range
<1>2. CASE \E i \in Interactions \ asked : pending' = Append(pending, i) /\ asked' = asked \cup {i}
  <2>1. PICK i \in Interactions \ asked : pending' = Append(pending, i) /\ asked' = asked \cup {i}
    BY <1>2
  <2> DEFINE q == Append(pending, i)
  <2>2. /\ q \in Seq(Interactions) /\ Range(q) = Range(pending) \cup {i} /\ IsInjective(q)
    BY <1>0, AppendQueue
  <2>3. /\ Len(q) = Len(pending) + 1 /\ \A n \in 1..Len(pending) : q[n] = pending[n]
        /\ q[Len(pending) + 1] = i /\ DOMAIN q = 1..(Len(pending) + 1) /\ q # <<>>
    BY <1>0, <2>2, AppendProperties, LenProperties
  <2> HIDE DEF q
  <2>4. ASSUME NEW v \in Range(stack), NEW n \in DOMAIN q, q[n] = v.key
        PROVE  n = 1 /\ (q[1] = pending[1] /\ pending # <<>>)
    <3>1. v.key # i /\ v.key \in Interactions
      <4>1. q[n] \in Interactions
        BY <2>2, <2>3, ElementOfSeq
      <4> QED BY <1>0, <2>1, <2>4, <4>1
    <3>2. n \in 1..Len(pending)
      BY <1>1, <2>3, <2>4, <3>1
    <3>3. n = 1
      BY <1>0, <1>1, <2>3, <2>4, <3>1, <3>2
    <3> QED BY <1>1, <2>3, <3>2, <3>3, EmptySeq
  <2>5. shown' = q[1] /\ pending' = q
    BY <2>1, <2>3 DEF q
  <2>6. 1 \in DOMAIN q /\ q[1] \in Interactions
    BY <1>1, <2>2, <2>3, ElementOfSeq
  <2>7. ASSUME shown' # shown, NEW v \in Range(stack) PROVE v.key # shown'
    BY <1>0, <2>4, <2>5, <2>6, <2>7
  <2> QED BY <1>0, <2>1, <2>2, <2>4, <2>5, <2>6, <2>7
<1>3. CASE \E i \in Range(pending) : pending' = Removed(pending, i) /\ asked' = asked
  <2>1. PICK i \in Range(pending) : pending' = Removed(pending, i) /\ asked' = asked
    BY <1>3
  <2>2. PICK k \in DOMAIN pending : pending[k] = i /\ pending' = RemoveAt(pending, k)
    <3> DEFINE k == CHOOSE n \in DOMAIN pending : pending[n] = i
    <3>1. k \in DOMAIN pending /\ pending[k] = i
      BY <2>1 DEF Range
    <3>2. Removed(pending, i) = RemoveAt(pending, k)
      BY <2>1 DEF Removed
    <3> HIDE DEF k
    <3> QED BY <2>1, <3>1, <3>2
  <2> DEFINE q == RemoveAt(pending, k)
  <2>3. /\ q \in Seq(Interactions) /\ Range(q) \subseteq Range(pending) /\ IsInjective(q)
    BY <1>0, RemoveFromQueue
  <2>4. /\ DOMAIN q = 1..(Len(pending) - 1) /\ Len(q) = Len(pending) - 1
        /\ \A j \in 1..(Len(pending) - 1) : q[j] = IF j < k THEN pending[j] ELSE pending[j + 1]
    BY <1>0, RemovedAt
  <2> HIDE DEF q
  <2>5. ASSUME NEW v \in Range(stack), NEW n \in DOMAIN q, q[n] = v.key
        PROVE  n = 1 /\ k # 1
    <3> DEFINE m == IF n < k THEN n ELSE n + 1
    <3>1. m \in DOMAIN pending /\ pending[m] = v.key
      BY <1>1, <2>2, <2>4, <2>5
    <3>2. v.key \in Interactions
      BY <1>1, <3>1
    <3>3. m = 1
      <4> HIDE DEF m
      <4> QED BY <1>0, <3>1, <3>2
    <3> QED BY <1>1, <2>2, <2>4, <3>3
  <2>6. pending' = q /\ (shown' = IF q = <<>> THEN NoKey ELSE q[1])
    BY <2>2 DEF q
  <2>7. q # <<>> => 1 \in DOMAIN q /\ q[1] \in Interactions /\ pending # <<>>
    <3> SUFFICES ASSUME q # <<>> PROVE 1 \in DOMAIN q /\ q[1] \in Interactions /\ pending # <<>>
      OBVIOUS
    <3>1. Len(q) \in Nat \ {0}
      BY <2>3, EmptySeq
    <3>2. 1 \in 1..Len(q) /\ Len(pending) # 0
      BY <1>1, <2>4, <3>1
    <3> QED BY <2>3, <2>4, <3>2, ElementOfSeq, EmptySeq
  <2>8. ASSUME shown' \notin {NoKey, shown}, NEW v \in Range(stack), v.key = shown' PROVE FALSE
    <3>1. q # <<>> /\ q[1] = v.key
      BY <2>6, <2>8
    <3>2. k # 1
      BY <2>5, <2>7, <3>1
    <3>3. q[1] = pending[1]
      BY <1>1, <2>2, <2>4, <2>7, <3>1, <3>2
    <3> QED BY <1>0, <2>6, <2>7, <2>8, <3>1, <3>3
  <2>9. shown' \in Interactions \cup {NoKey}
    BY <2>6, <2>7
  <2> QED BY <1>0, <2>1, <2>3, <2>5, <2>6, <2>8, <2>9
<1>4. CASE pending' = pending /\ asked' = asked
  BY <1>0, <1>1, <1>4
<1>5. CASE pending' = <<>> /\ asked' = asked
  BY <1>0, <1>5 DEF Range, IsInjective
<1> QED BY <1>2, <1>3, <1>4, <1>5 DEF Queued, Removed

(* Publishing changes the stack and the window for a new head only, opens  *)
(* its window on top, and leaves the rest of the stack in its order.       *)
LEMMA WindowMoves ==
    ASSUME IInv, Published, Queued
    PROVE  /\ stack' \in Seq(Anything)
           /\ window' \in [key : Keyed, consumed : BOOLEAN] \cup {NoWindow}
           /\ \A v \in Range(stack') : v \in Range(stack) \/ (v.key = shown' /\ shown' \in Interactions)
           /\ KeysDiffer(stack')
           /\ window'.key \in {window.key, NoKey, shown'}
           /\ stack # <<>> /\ stack[1].key # window.key => stack' # <<>> /\ stack'[1] = stack[1]
           /\ happened' \cap {"covered", "late"} = {} => Len(stack') <= 1
           /\ happened' \subseteq {"covered", "escAgain"} =>
                /\ pending' # <<>> => \/ pending'[1] \in answering
                                      \/ (window'.key = pending'[1] /\ ~window'.consumed)
                /\ window'.key # NoKey /\ ~window'.consumed
                     => stack' # <<>> /\ Last(stack').key = window'.key
                /\ ~Threw
<1>0. /\ stack \in Seq(Anything) /\ window \in [key : Keyed, consumed : BOOLEAN] \cup {NoWindow}
      /\ KeysDiffer(stack) /\ happened \subseteq happened'
  BY DEF IInv, TypeInv, TypeOK, KeysInv, Published
<1>1. /\ shown' \notin {NoKey, shown} => \A v \in Range(stack) : v.key # shown'
      /\ shown' \in Interactions \cup {NoKey}
      /\ shown' = IF pending' = <<>> THEN NoKey ELSE pending'[1]
      /\ pending' # <<>> => pending'[1] # NoKey
      /\ \A i \in Interactions : i # NoKey
  <2>1. shown' = IF pending' = <<>> THEN NoKey ELSE pending'[1]
    BY DEF Published
  <2>2. TypeInv /\ PendingInv
    BY DEF IInv
  <2>3. \A i \in Interactions : i # NoKey
    BY ShellAssumption DEF ShellAssumption
  <2>4. pending' \in Seq(Interactions)
    BY <2>1, <2>2, QueueMoves
  <2>5. ASSUME pending' # <<>> PROVE pending'[1] # NoKey
    <3>1. 1 \in 1..Len(pending')
      BY <2>4, <2>5, EmptySeq
    <3> QED BY <2>3, <2>4, <3>1, ElementOfSeq
  <2> QED BY <2>1, <2>2, <2>3, <2>5, QueueMoves
<1>2. happened' \subseteq {"covered", "escAgain"} =>
        /\ pending # <<>> => pending[1] \in answering \/ (window.key = pending[1] /\ ~window.consumed)
        /\ WindowUp => stack # <<>> /\ Last(stack).key = window.key
  BY <1>0 DEF IInv, WindowInv
<1>3. CASE stack' = stack /\ window' = window /\ (shown' \in {NoKey, shown} \/ "unsupported" \in happened')
  <2>1. happened' \cap {"covered", "late"} = {} => Len(stack') <= 1
    BY <1>0, <1>3 DEF IInv, CoverInv
  <2>2. ASSUME happened' \subseteq {"covered", "escAgain"}
        PROVE  /\ pending' # <<>> => \/ pending'[1] \in answering
                                     \/ (window'.key = pending'[1] /\ ~window'.consumed)
               /\ window'.key # NoKey /\ ~window'.consumed
                    => stack' # <<>> /\ Last(stack').key = window'.key
               /\ ~Threw
    <3>1. shown' \in {NoKey, shown}
      BY <1>3, <2>2
    <3>2. pending' # <<>> => pending # <<>> /\ pending'[1] = pending[1]
      <4>1. shown = IF pending = <<>> THEN NoKey ELSE pending[1]
        BY DEF IInv, PendingInv
      <4> QED BY <1>1, <3>1, <4>1
    <3>3. ~Threw
      BY <3>1 DEF Threw
    <3> QED BY <1>2, <1>3, <2>2, <3>2, <3>3 DEF WindowUp
  <2> QED BY <1>0, <1>3, <2>1, <2>2
<1>4. CASE /\ shown' \notin {NoKey, shown}
           /\ stack' = WindowOpened("approval-question", shown').stack
           /\ window' = WindowOpened("approval-question", shown').window
           /\ Len(stack') > 1 => "covered" \in happened'
  <2>1. PICK h : h = shown'
    OBVIOUS
  <2> DEFINE o == WindowOpened("approval-question", h)
             v == View("approval-question", h)
  <2>2. stack' = o.stack /\ window' = o.window
    BY <1>4, <2>1
  <2>3. h \in Interactions /\ (\A u \in Range(stack) : u.key # h) /\ h # NoKey
    BY <1>1, <1>4, <2>1
  <2>4. v \in Anything /\ v.key = h
    BY <2>3 DEF View, Anything, Keyed
  <2>5. ~OnStack(stack, h)
    BY <2>3 DEF OnStack
  <2>6. /\ o.stack \in Seq(Anything) /\ Range(o.stack) \subseteq Range(stack) \cup {v}
        /\ o.window \in {window, NoWindow, [key |-> h, consumed |-> FALSE]}
        /\ KeysDiffer(o.stack)
        /\ stack # <<>> /\ stack[1].key # window.key
             => o.stack # <<>> /\ o.stack[1] = stack[1]
        /\ (WindowUp => OnStack(stack, window.key))
             => /\ o.stack # <<>> /\ Last(o.stack) = v
                /\ o.window = [key |-> h, consumed |-> FALSE]
    BY <1>0, <2>4, <2>5, WindowOpens
  <2> HIDE DEF o, v
  <2>7. ASSUME happened' \subseteq {"covered", "escAgain"}
        PROVE  /\ pending' # <<>> => \/ pending'[1] \in answering
                                     \/ (window'.key = pending'[1] /\ ~window'.consumed)
               /\ window'.key # NoKey /\ ~window'.consumed
                    => stack' # <<>> /\ Last(stack').key = window'.key
               /\ ~Threw
    <3>1. WindowUp => OnStack(stack, window.key)
      <4> SUFFICES ASSUME WindowUp PROVE OnStack(stack, window.key)
        OBVIOUS
      <4>1. stack # <<>> /\ Last(stack).key = window.key
        BY <1>2, <2>7
      <4>2. Last(stack) \in Range(stack)
        BY <1>0, <4>1, FrontOf
      <4> QED BY <4>1, <4>2 DEF OnStack
    <3>2. /\ stack' # <<>> /\ Last(stack').key = h
          /\ window' = [key |-> h, consumed |-> FALSE]
      BY <2>2, <2>4, <2>6, <3>1
    <3>3. pending' # <<>> => pending'[1] = h
      BY <1>1, <2>1
    <3> QED BY <2>1, <3>2, <3>3 DEF Threw
  <2>8. window' \in [key : Keyed, consumed : BOOLEAN] \cup {NoWindow}
    <3>1. [key |-> h, consumed |-> FALSE] \in [key : Keyed, consumed : BOOLEAN]
      BY <2>3 DEF Keyed
    <3>2. window' \in {window, NoWindow, [key |-> h, consumed |-> FALSE]}
      BY <2>2, <2>6
    <3> QED BY <1>0, <3>1, <3>2
  <2>9. window'.key \in {window.key, NoKey, shown'}
    BY <2>1, <2>2, <2>6 DEF NoWindow
  <2>10. happened' \cap {"covered", "late"} = {} => Len(stack') <= 1
    <3>1. Len(stack') \in Nat
      BY <2>2, <2>6, LenProperties
    <3> QED BY <1>4, <3>1
  <2> QED BY <2>1, <2>2, <2>3, <2>4, <2>6, <2>7, <2>8, <2>9, <2>10
<1> QED BY <1>3, <1>4 DEF Published

(* Publishing keeps the invariant, whatever published.                     *)
LEMMA PublishKeeps ==
    ASSUME IInv, Published, Queued,
           UNCHANGED <<active, focus, selected, inflight, opens, armed, crashed>>,
           withdrawn' \subseteq asked', answering' \subseteq asked', pump' \in BOOLEAN,
           \A x \in answering : x \in answering' \/ x \notin Range(pending'),
           pump /\ ~Threw => pump'
    PROVE  IInv'
<1> DEFINE quiet == happened' \subseteq {"covered", "escAgain"}
<1>0. TypeInv /\ TypeOK /\ KeysInv /\ PendingInv /\ FocusInv /\ CoverInv /\ WindowInv
  BY DEF IInv, TypeInv
<1>1. /\ stack' \in Seq(Anything)
      /\ window' \in [key : Keyed, consumed : BOOLEAN] \cup {NoWindow}
      /\ \A v \in Range(stack') : v \in Range(stack) \/ (v.key = shown' /\ shown' \in Interactions)
      /\ KeysDiffer(stack')
      /\ window'.key \in {window.key, NoKey, shown'}
      /\ stack # <<>> /\ stack[1].key # window.key => stack' # <<>> /\ stack'[1] = stack[1]
      /\ happened' \cap {"covered", "late"} = {} => Len(stack') <= 1
      /\ quiet =>
           /\ pending' # <<>> => \/ pending'[1] \in answering
                                 \/ (window'.key = pending'[1] /\ ~window'.consumed)
           /\ window'.key # NoKey /\ ~window'.consumed
                => stack' # <<>> /\ Last(stack').key = window'.key
           /\ ~Threw
  BY WindowMoves
<1>2. /\ pending' \in Seq(Interactions) /\ IsInjective(pending')
      /\ asked \subseteq asked' /\ asked' \subseteq Interactions /\ Range(pending') \subseteq asked'
      /\ \A v \in Range(stack), n \in DOMAIN pending' : pending'[n] = v.key => n = 1
      /\ shown' \in Interactions \cup {NoKey}
      /\ shown' = IF pending' = <<>> THEN NoKey ELSE pending'[1]
  <2>1. shown' = IF pending' = <<>> THEN NoKey ELSE pending'[1]
    BY DEF Published
  <2> QED BY <1>0, <2>1, QueueMoves
<1>3. /\ DOMAIN pending' = 1..Len(pending') /\ Len(pending') \in Nat
      /\ pending' # <<>> => 1 \in DOMAIN pending' /\ pending'[1] \in Range(pending')
  <2>1. DOMAIN pending' = 1..Len(pending') /\ Len(pending') \in Nat
    BY <1>2, LenProperties
  <2>2. pending' # <<>> => 1 \in DOMAIN pending'
    BY <1>2, <2>1, EmptySeq
  <2> QED BY <2>1, <2>2 DEF Range
<1>4. /\ happened \subseteq happened' /\ happened' \subseteq happened \cup {"unsupported", "covered"}
      /\ turn' \in BOOLEAN /\ status' = Synced(turn')
  BY DEF Published
<1>5. /\ NoKey \notin Nat /\ NoKey \notin Interactions /\ Interactions \cap Nat = {}
  BY ShellAssumption DEF ShellAssumption
<1>6. TypeInv'
  <2>1. /\ active' = active /\ focus' = focus /\ selected' = selected /\ inflight' = inflight
        /\ opens' = opens /\ armed' = armed /\ crashed' = crashed
    OBVIOUS
  <2>2. status' \in {"idle", "running", "completed", "interrupted"}
    BY <1>0, <1>4 DEF TypeOK, Synced
  <2>3. happened' \subseteq Events
    BY <1>0, <1>4 DEF TypeOK, Events
  <2>4. TypeOK'
    BY <1>0, <1>1, <1>2, <1>4, <2>1, <2>2, <2>3 DEF TypeOK, NoView, NoWindow, Keyed, Anything
  <2> QED BY <1>0, <2>1, <2>4 DEF TypeInv, NoView
<1>7. KeysInv'
  <2>1. ASSUME NEW v \in Range(stack'), v.key \in Nat PROVE v \in Range(stack)
    BY <1>1, <1>5, <2>1
  <2>2. window'.key \in Nat => window'.key = window.key
    BY <1>1, <1>2, <1>5
  <2>3. ASSUME NEW v \in inflight
        PROVE  /\ v.kind \in AllKinds /\ v.key \in Nat /\ v.key < opens
               /\ v.key \notin {window'.key, active.key}
               /\ \A u \in Range(stack') : u.key # v.key
    <3>1. /\ v.kind \in AllKinds /\ v.key \in Nat /\ v.key < opens
          /\ v.key \notin {window.key, active.key}
          /\ \A u \in Range(stack) : u.key # v.key
      BY <1>0 DEF KeysInv
    <3> QED BY <2>1, <2>2, <3>1
  <2>4. \A v, w \in inflight : v.key = w.key => v = w
    BY <1>0 DEF KeysInv
  <2>5. \A v \in Range(stack') : v.key \in Nat => v.key < opens
    BY <1>0, <2>1 DEF KeysInv
  <2>6. active # NoView => active.key < opens /\ active.key # window'.key
    BY <1>0, <2>2 DEF KeysInv, TypeInv
  <2>7. window'.key \in Nat => window'.key < opens
    BY <1>0, <2>2 DEF KeysInv
  <2> QED BY <1>1, <2>3, <2>4, <2>5, <2>6, <2>7 DEF KeysInv, NoView
<1>8. PendingInv'
  <2>1. ASSUME NEW v \in Range(stack'), v.key \in Interactions
        PROVE  v.key \in asked' /\ \A n \in DOMAIN pending' : pending'[n] = v.key => n = 1
    <3>1. CASE v \in Range(stack)
      BY <1>0, <1>2, <2>1, <3>1 DEF PendingInv
    <3>2. CASE v.key = shown'
      <4>1. pending' # <<>> /\ v.key = pending'[1]
        BY <1>2, <1>5, <2>1, <3>2
      <4> QED BY <1>2, <1>3, <4>1 DEF IsInjective
    <3> QED BY <1>1, <3>1, <3>2
  <2> QED BY <1>2, <2>1 DEF PendingInv
<1>9. FocusInv'
  <2> SUFFICES ASSUME "late" \notin happened'
               PROVE  /\ focus = IF active = NoView THEN <<"composer.editor">>
                                 ELSE <<"composer.editor", active.kind>>
                      /\ active # NoView => stack' # <<>> /\ stack'[1] = active
    BY DEF FocusInv, Without, NoView
  <2>1. /\ focus = IF active = NoView THEN <<"composer.editor">>
                   ELSE <<"composer.editor", active.kind>>
        /\ active # NoView => stack # <<>> /\ stack[1] = active
    BY <1>0, <1>4 DEF FocusInv, Without
  <2>2. active # NoView => active.key # window.key
    BY <1>0 DEF KeysInv
  <2> QED BY <1>1, <2>1, <2>2
<1>10. CoverInv'
  BY <1>1 DEF CoverInv
<1>11. WindowInv'
  <2> SUFFICES ASSUME quiet
               PROVE  /\ pump'
                      /\ pending' # <<>> => \/ pending'[1] \in answering'
                                            \/ (window'.key = pending'[1] /\ ~window'.consumed)
                      /\ window'.key # NoKey /\ ~window'.consumed
                           => stack' # <<>> /\ Last(stack').key = window'.key
    BY DEF WindowInv, WindowUp
  <2>1. pump
    BY <1>0, <1>4 DEF WindowInv
  <2> QED BY <1>1, <1>3, <2>1
<1> QED BY <1>6, <1>7, <1>8, <1>9, <1>10, <1>11 DEF IInv

(* A step that leaves the views, the queue and the commands alone keeps    *)
(* the invariant.                                                          *)
LEMMA RestKeeps ==
    ASSUME IInv, UNCHANGED <<views, inflight, opens, pending, shown, asked, pump>>,
           withdrawn' \subseteq asked, answering' \subseteq asked,
           \A x \in answering : x \in answering' \/ x \notin Range(pending) \/ "refused" \in happened',
           armed' \in BOOLEAN, turn' \in BOOLEAN, crashed' \in BOOLEAN,
           status' \in {"idle", "running", "completed", "interrupted"},
           happened \subseteq happened', happened' \subseteq Events
    PROVE  IInv'
<1>0. TypeInv /\ TypeOK /\ KeysInv /\ PendingInv /\ FocusInv /\ CoverInv /\ WindowInv
  BY DEF IInv, TypeInv
<1>1. /\ stack' = stack /\ active' = active /\ focus' = focus /\ window' = window
      /\ selected' = selected /\ inflight' = inflight /\ opens' = opens
      /\ pending' = pending /\ shown' = shown /\ asked' = asked /\ pump' = pump
  BY DEF views
<1>2. TypeInv'
  <2>1. TypeOK'
    BY <1>0, <1>1 DEF TypeOK, NoView, NoWindow, Keyed, Anything
  <2> QED BY <1>0, <1>1, <2>1 DEF TypeInv, NoView
<1>3. KeysInv' /\ PendingInv'
  BY <1>0, <1>1 DEF KeysInv, PendingInv, KeysDiffer, NoView
<1>4. FocusInv' /\ CoverInv'
  BY <1>0, <1>1 DEF FocusInv, CoverInv, Without, NoView
<1>5. WindowInv'
  <2> SUFFICES ASSUME happened' \subseteq {"covered", "escAgain"}
               PROVE  /\ pump
                      /\ pending # <<>> => \/ pending[1] \in answering'
                                           \/ (window.key = pending[1] /\ ~window.consumed)
                      /\ WindowUp => stack # <<>> /\ Last(stack).key = window.key
    BY <1>1 DEF WindowInv, WindowUp
  <2>1. /\ pump
        /\ pending # <<>> => \/ pending[1] \in answering
                             \/ (window.key = pending[1] /\ ~window.consumed)
        /\ WindowUp => stack # <<>> /\ Last(stack).key = window.key
    BY <1>0 DEF WindowInv
  <2>2. pending # <<>> => pending[1] \in Range(pending)
    <3>1. pending \in Seq(Interactions)
      BY <1>0 DEF TypeOK
    <3> QED BY <3>1, EmptySeq, LenProperties DEF Range
  <2> QED BY <2>1, <2>2
<1> QED BY <1>2, <1>3, <1>4, <1>5 DEF IInv

(* What the Host sends, and the answers it gives, keep the invariant.      *)
LEMMA HostKeeps ==
    ASSUME IInv, NEW i,
           \/ i \in Interactions /\ (Ask(i) \/ Withdraw(i) \/ Responded(i))
           \/ SelectSession \/ TurnChanges
    PROVE  IInv'
<1>0. TypeInv /\ TypeOK /\ PendingInv
  BY DEF IInv, TypeInv
<1>1. /\ withdrawn \subseteq asked /\ answering \subseteq asked /\ asked \subseteq Interactions
      /\ pump \in BOOLEAN /\ turn \in BOOLEAN /\ armed \in BOOLEAN /\ crashed \in BOOLEAN
      /\ status \in {"idle", "running", "completed", "interrupted"} /\ happened \subseteq Events
      /\ pending \in Seq(Interactions) /\ Range(pending) \subseteq asked /\ IsInjective(pending)
  BY <1>0 DEF TypeOK, PendingInv
<1>2. Synced(turn) \in {"idle", "running", "completed", "interrupted"}
  BY <1>1 DEF Synced
<1>3. CASE i \in Interactions /\ Ask(i)
  <2>1. Published /\ Queued
    BY <1>0, <1>3, WhoPublishes
  <2>2. /\ UNCHANGED <<active, focus, selected, inflight, opens, armed, withdrawn, answering, crashed>>
        /\ asked' = asked \cup {i} /\ pump' = ~Threw
    BY <1>3 DEF Ask
  <2>3. /\ withdrawn' \subseteq asked' /\ answering' \subseteq asked' /\ pump' \in BOOLEAN
        /\ \A x \in answering : x \in answering' \/ x \notin Range(pending')
        /\ (pump /\ ~Threw) => pump'
    BY <1>1, <2>2 DEF Threw
  <2> QED BY <2>1, <2>2, <2>3, PublishKeeps
<1>4. CASE i \in Interactions /\ Withdraw(i)
  <2>1. i \in asked
    BY <1>1, <1>4 DEF Withdraw
  <2>2. /\ UNCHANGED <<active, focus, selected, inflight, opens, armed, asked, answering, crashed>>
        /\ withdrawn' = withdrawn \cup {i}
    BY <1>4 DEF Withdraw
  <2>3. CASE i \in Questions
    <3>1. Published /\ Queued /\ pump' = ~Threw
      BY <1>0, <1>4, <2>3, WhoPublishes DEF Withdraw
    <3>2. /\ withdrawn' \subseteq asked' /\ answering' \subseteq asked' /\ pump' \in BOOLEAN
          /\ \A x \in answering : x \in answering' \/ x \notin Range(pending')
          /\ (pump /\ ~Threw) => pump'
      BY <1>1, <2>1, <2>2, <3>1 DEF Threw
    <3> QED BY <2>2, <3>1, <3>2, PublishKeeps
  <2>4. CASE i \notin Questions
    <3>1. /\ UNCHANGED <<pending, shown, pump, turn, stack, window, happened>>
          /\ status' = Synced(turn)
      BY <1>4, <2>4 DEF Withdraw
    <3>2. UNCHANGED <<views, inflight, opens, pending, shown, asked, pump>>
      BY <2>2, <3>1 DEF views
    <3>3. /\ withdrawn' \subseteq asked /\ answering' \subseteq asked
          /\ \A x \in answering : x \in answering' \/ x \notin Range(pending) \/ "refused" \in happened'
          /\ armed' \in BOOLEAN /\ turn' \in BOOLEAN /\ crashed' \in BOOLEAN
          /\ status' \in {"idle", "running", "completed", "interrupted"}
          /\ happened \subseteq happened' /\ happened' \subseteq Events
      BY <1>1, <1>2, <2>1, <2>2, <3>1
    <3> QED BY <3>2, <3>3, RestKeeps
  <2> QED BY <2>3, <2>4
<1>5. CASE i \in Interactions /\ Responded(i)
  <2>1. /\ UNCHANGED <<active, focus, selected, inflight, opens, armed, asked, withdrawn, pump, crashed>>
        /\ answering' = answering \ {i}
    BY <1>5 DEF Responded
  <2>2. CASE Published /\ pending' = Removed(pending, i)
    <3>1. Queued
      BY <1>5, <2>1, <2>2 DEF Queued
    <3>2. i \notin Range(pending')
      <4>1. CASE i \notin Range(pending)
        BY <2>2, <4>1 DEF Removed
      <4>2. CASE i \in Range(pending)
        <5> DEFINE k == CHOOSE n \in DOMAIN pending : pending[n] = i
        <5>1. k \in DOMAIN pending /\ pending[k] = i
          BY <4>2 DEF Range
        <5>2. pending' = RemoveAt(pending, k)
          BY <2>2, <4>2 DEF Removed
        <5> HIDE DEF k
        <5>3. Range(RemoveAt(pending, k)) = Range(pending) \ {pending[k]}
          BY <1>1, <5>1, RemoveFromQueue
        <5> QED BY <5>1, <5>2, <5>3
      <4> QED BY <4>1, <4>2
    <3>3. /\ withdrawn' \subseteq asked' /\ answering' \subseteq asked' /\ pump' \in BOOLEAN
          /\ \A x \in answering : x \in answering' \/ x \notin Range(pending')
          /\ (pump /\ ~Threw) => pump'
      BY <1>1, <2>1, <3>2
    <3> QED BY <2>1, <2>2, <3>1, <3>3, PublishKeeps
  <2>3. CASE /\ Note(i \in Range(pending), "refused")
             /\ UNCHANGED <<pending, shown, execution, stack, window>>
    <3>1. UNCHANGED <<views, inflight, opens, pending, shown, asked, pump>>
      BY <2>1, <2>3 DEF views
    <3>2. /\ happened' = happened \cup (IF i \in Range(pending) THEN {"refused"} ELSE {})
          /\ turn' = turn /\ status' = status
      BY <2>3 DEF Note, execution
    <3>3. /\ withdrawn' \subseteq asked /\ answering' \subseteq asked
          /\ \A x \in answering : x \in answering' \/ x \notin Range(pending) \/ "refused" \in happened'
          /\ armed' \in BOOLEAN /\ turn' \in BOOLEAN /\ crashed' \in BOOLEAN
          /\ status' \in {"idle", "running", "completed", "interrupted"}
          /\ happened \subseteq happened' /\ happened' \subseteq Events
      BY <1>1, <2>1, <3>2 DEF Events
    <3> QED BY <3>1, <3>3, RestKeeps
  <2> QED BY <1>0, <1>5, <2>2, <2>3, WhoPublishes
<1>6. CASE SelectSession
  <2>1. Published /\ Queued
    BY <1>0, <1>6, WhoPublishes
  <2>2. /\ UNCHANGED <<active, focus, selected, inflight, opens, armed, asked, withdrawn, answering, crashed>>
        /\ pump' = TRUE
    BY <1>6 DEF SelectSession
  <2>3. /\ withdrawn' \subseteq asked' /\ answering' \subseteq asked' /\ pump' \in BOOLEAN
        /\ \A x \in answering : x \in answering' \/ x \notin Range(pending')
        /\ (pump /\ ~Threw) => pump'
    BY <1>1, <2>2
  <2> QED BY <2>1, <2>2, <2>3, PublishKeeps
<1>7. CASE TurnChanges
  <2>1. Published /\ Queued
    BY <1>0, <1>7, WhoPublishes
  <2>2. UNCHANGED <<active, focus, selected, inflight, opens, armed, asked, withdrawn, answering, pump, crashed>>
    BY <1>7 DEF TurnChanges
  <2>3. /\ withdrawn' \subseteq asked' /\ answering' \subseteq asked' /\ pump' \in BOOLEAN
        /\ \A x \in answering : x \in answering' \/ x \notin Range(pending')
        /\ (pump /\ ~Threw) => pump'
    BY <1>1, <2>2
  <2> QED BY <2>1, <2>2, <2>3, PublishKeeps
<1> QED BY <1>3, <1>4, <1>5, <1>6, <1>7

-----------------------------------------------------------------------------
(* Commands and keys.                                                      *)

(* The disposer of the active view finds its focus, and takes it away.     *)
LEMMA FocusGivenBack ==
    ASSUME TypeInv
    PROVE  /\ RemoveFocus(active) \in Seq(Known \cup {"composer.editor"})
           /\ active = NoView => RemoveFocus(active) = focus
           /\ active # NoView /\ focus = <<"composer.editor", active.kind>>
                => RemoveFocus(active) = <<"composer.editor">>
<1>0. /\ focus \in Seq(Known \cup {"composer.editor"})
      /\ Len(focus) \in Nat /\ DOMAIN focus = 1..Len(focus)
  <2>1. focus \in Seq(Known \cup {"composer.editor"})
    BY DEF TypeInv, TypeOK
  <2> QED BY <2>1, LenProperties
<1>1. CASE active = NoView
  BY <1>0, <1>1 DEF RemoveFocus
<1>2. CASE active # NoView
  <2> DEFINE T == {i \in DOMAIN focus : focus[i] = active.kind}
             m == Max(T)
  <2>1. active.kind \in Known \cap Range(focus)
    BY <1>2 DEF TypeInv
  <2>2. T \in SUBSET (0..Len(focus)) /\ T # {}
    BY <1>0, <2>1 DEF Range
  <2>3. m \in T
    <3> HIDE DEF T
    <3> QED BY <1>0, <2>2, MaxOfNats
  <2>4. RemoveFocus(active) = RemoveAt(focus, m)
    BY <1>2 DEF RemoveFocus
  <2> HIDE DEF m
  <2>5. /\ RemoveAt(focus, m) \in Seq(Known \cup {"composer.editor"})
        /\ Len(RemoveAt(focus, m)) = Len(focus) - 1
        /\ \A j \in 1..(Len(focus) - 1) :
              RemoveAt(focus, m)[j] = IF j < m THEN focus[j] ELSE focus[j + 1]
    BY <1>0, <2>3, RemovedAt
  <2>6. ASSUME focus = <<"composer.editor", active.kind>>
        PROVE  RemoveFocus(active) = <<"composer.editor">>
    <3>1. Len(focus) = 2 /\ focus[1] = "composer.editor" /\ focus[2] = active.kind
      BY <2>6
    <3>2. active.kind # "composer.editor"
      BY <2>1 DEF Known
    <3>3. m = 2
      BY <1>0, <2>3, <3>1, <3>2
    <3> DEFINE r == RemoveAt(focus, m)
               one == <<"composer.editor">>
    <3>4. Len(r) = 1 /\ r[1] = "composer.editor"
      BY <2>5, <3>1, <3>3
    <3>5. one \in Seq(Known \cup {"composer.editor"}) /\ Len(one) = 1 /\ one[1] = "composer.editor"
      OBVIOUS
    <3>6. r \in Seq(Known \cup {"composer.editor"})
      BY <2>5
    <3> HIDE DEF r, one
    <3>7. \A j \in 1..Len(r) : r[j] = one[j]
      BY <3>4, <3>5
    <3>8. r = one
      BY <3>4, <3>5, <3>6, <3>7, SeqEqual
    <3> QED BY <2>4, <3>8 DEF r, one
  <2> QED BY <1>2, <2>4, <2>5, <2>6
<1> QED BY <1>1, <1>2

(* What the state says of the stack, its top and the key Esc closes.       *)
LEMMA StackFacts ==
    ASSUME IInv
    PROVE  /\ stack \in Seq(Anything) /\ KeysDiffer(stack) /\ Len(stack) \in Nat
           /\ stack # <<>> => /\ Len(stack) # 0 /\ stack[1] \in Range(stack)
                              /\ Last(stack) \in Range(stack) /\ Last(stack) \in Anything
                              /\ TopKey(stack) = Last(stack).key
           /\ stack = <<>> => TopKey(stack) = NoKey /\ Range(stack) = {}
           /\ \A v \in Anything : v.key # NoKey /\ v.key \in Keyed
           /\ ~WindowUp /\ happened \subseteq {"covered", "escAgain"} /\ pending # <<>>
                => pending[1] \in answering
           /\ happened \subseteq {"covered", "escAgain"} /\ WindowUp
                => stack # <<>> /\ Last(stack).key = window.key
           /\ pending # <<>> => pending[1] \in Range(pending) /\ pending[1] \in Interactions
<1>1. stack \in Seq(Anything) /\ KeysDiffer(stack) /\ pending \in Seq(Interactions)
  BY DEF IInv, TypeInv, TypeOK, KeysInv
<1>2. /\ Len(stack) \in Nat /\ DOMAIN stack = 1..Len(stack)
      /\ stack # <<>> => Len(stack) # 0
  BY <1>1, LenProperties, EmptySeq
<1>3. stack # <<>> => /\ stack[1] \in Range(stack) /\ Last(stack) \in Range(stack)
                      /\ Last(stack) \in Anything /\ TopKey(stack) = Last(stack).key
  BY <1>1, <1>2, ElementOfSeq DEF Range, Last, TopKey
<1>4. stack = <<>> => TopKey(stack) = NoKey /\ Range(stack) = {}
  BY DEF TopKey, Range
<1>5. \A v \in Anything : v.key # NoKey /\ v.key \in Keyed
  BY ShellAssumption DEF ShellAssumption, Anything, Keyed
<1>6. pending # <<>> => pending[1] \in Range(pending) /\ pending[1] \in Interactions
  <2> SUFFICES ASSUME pending # <<>> PROVE pending[1] \in Range(pending) /\ pending[1] \in Interactions
    OBVIOUS
  <2>1. 1 \in DOMAIN pending
    BY <1>1, LenProperties, EmptySeq
  <2> QED BY <1>1, <2>1, LenProperties, ElementOfSeq DEF Range
<1>7. ASSUME happened \subseteq {"covered", "escAgain"}
      PROVE  /\ pending # <<>> => \/ pending[1] \in answering
                                  \/ (window.key = pending[1] /\ ~window.consumed)
             /\ WindowUp => stack # <<>> /\ Last(stack).key = window.key
  BY <1>7 DEF IInv, WindowInv
<1>8. pending # <<>> /\ window.key = pending[1] /\ ~window.consumed => WindowUp
  BY <1>6, ShellAssumption DEF ShellAssumption, WindowUp
<1> QED BY <1>1, <1>2, <1>3, <1>4, <1>5, <1>6, <1>7, <1>8

(* The queue is not touched: a view that opens is that of a command.       *)
LEMMA PendingKeeps ==
    ASSUME PendingInv, UNCHANGED <<pending, shown, asked>>,
           \A v \in Range(stack') : v \in Range(stack) \/ v.key \in Nat
    PROVE  PendingInv'
<1>1. Interactions \cap Nat = {}
  BY ShellAssumption DEF ShellAssumption
<1> QED BY <1>1 DEF PendingInv

(* A prompt, a command and Esc during a turn leave the views alone.        *)
LEMMA TypingKeeps ==
    ASSUME IInv, Submit \/ EscInterrupts \/ (\E kind \in Kinds : Command(kind))
    PROVE  IInv'
<1>0. TypeInv /\ TypeOK /\ KeysInv
  BY DEF IInv, TypeInv
<1>1. /\ withdrawn \subseteq asked /\ answering \subseteq asked
      /\ turn \in BOOLEAN /\ armed \in BOOLEAN /\ crashed \in BOOLEAN
      /\ status \in {"idle", "running", "completed", "interrupted"} /\ happened \subseteq Events
      /\ opens \in 0..MaxOpens /\ inflight \subseteq Anything /\ MaxOpens \in Nat
  BY <1>0, ShellAssumption DEF TypeOK, ShellAssumption
<1>2. CASE Submit
  <2>1. /\ UNCHANGED <<views, inflight, opens, pending, shown, asked, pump>>
        /\ UNCHANGED <<withdrawn, answering, turn, crashed, happened>>
        /\ status' = "running" /\ armed' = FALSE
    BY <1>2 DEF Submit, requests
  <2> QED BY <1>1, <2>1, RestKeeps
<1>3. CASE EscInterrupts
  <2>1. /\ UNCHANGED <<views, inflight, opens, pending, shown, asked, pump>>
        /\ UNCHANGED <<withdrawn, answering, turn, armed>>
        /\ status' \in {status, "interrupted"} /\ crashed' \in {crashed, TRUE}
        /\ happened' \in {happened, happened \cup {"escAgain"}}
    BY <1>3 DEF EscInterrupts, Crash, requests, execution, Note
  <2>2. happened \subseteq happened' /\ happened' \subseteq Events
    BY <1>1, <2>1 DEF Events
  <2>3. status' \in {"idle", "running", "completed", "interrupted"} /\ crashed' \in BOOLEAN
    BY <1>1, <2>1
  <2> QED BY <1>1, <2>1, <2>2, <2>3, RestKeeps
<1>4. ASSUME NEW kind \in Kinds, Command(kind) PROVE IInv'
  <2> DEFINE new == View(kind, opens)
  <2>1. /\ inflight' = inflight \cup {new} /\ opens' = opens + 1 /\ opens < MaxOpens
        /\ armed' = FALSE /\ stack = <<>>
        /\ UNCHANGED <<views, requests, execution, crashed, happened>>
    BY <1>4 DEF Command
  <2>2. /\ stack' = stack /\ active' = active /\ focus' = focus /\ window' = window
        /\ selected' = selected /\ pending' = pending /\ shown' = shown /\ asked' = asked
        /\ pump' = pump /\ withdrawn' = withdrawn /\ answering' = answering
        /\ turn' = turn /\ status' = status /\ crashed' = crashed /\ happened' = happened
    BY <2>1 DEF views, requests, execution
  <2>3. new.kind \in AllKinds /\ new.key = opens /\ new \in Anything
    BY <1>1, ShellAssumption DEF ShellAssumption, View, Anything, Keyed
  <2> HIDE DEF new
  <2>4. TypeInv'
    <3>1. opens' \in 0..MaxOpens /\ inflight' \subseteq Anything /\ armed' \in BOOLEAN
      <4>1. opens + 1 \in 0..MaxOpens
        BY <1>1, <2>1
      <4>2. inflight \cup {new} \subseteq Anything
        BY <1>1, <2>3
      <4> QED BY <2>1, <4>1, <4>2
    <3>2. TypeOK'
      BY <1>0, <2>2, <3>1 DEF TypeOK, NoView, NoWindow, Keyed, Anything
    <3> QED BY <1>0, <2>2, <3>2 DEF TypeInv, NoView
  <2>5. KeysInv'
    <3>1. /\ KeysDiffer(stack)
          /\ \A v, w \in inflight : v.key = w.key => v = w
          /\ \A v \in inflight : /\ v.kind \in AllKinds /\ v.key \in Nat /\ v.key < opens
                                 /\ v.key \notin {window.key, active.key}
                                 /\ \A u \in Range(stack) : u.key # v.key
          /\ \A v \in Range(stack) : v.key \in Nat => v.key < opens
          /\ active # NoView => active.key < opens /\ active.key # window.key
          /\ window.key \in Nat => window.key < opens
      BY <1>0 DEF KeysInv
    <3>2. active = NoView => active.key \notin Nat
      BY ShellAssumption DEF ShellAssumption, NoView, View
    <3>3. active # NoView => active.key \in Nat
      BY <1>0 DEF TypeInv
    <3>4. opens \in Nat /\ opens' = opens + 1
      BY <1>1, <2>1
    <3>5. ASSUME NEW v \in inflight'
          PROVE  /\ v.kind \in AllKinds /\ v.key \in Nat /\ v.key < opens'
                 /\ v.key \notin {window.key, active.key}
                 /\ \A u \in Range(stack) : u.key # v.key
      <4>1. CASE v \in inflight
        BY <3>1, <3>4, <4>1
      <4>2. CASE v = new
        BY <2>3, <3>1, <3>2, <3>3, <3>4, <4>2
      <4> QED BY <2>1, <4>1, <4>2
    <3>6. ASSUME NEW v \in inflight', NEW w \in inflight', v.key = w.key PROVE v = w
      <4>1. \A u \in inflight : u.key # new.key
        BY <2>3, <3>1, <3>4
      <4> QED BY <2>1, <3>1, <3>6, <4>1
    <3>7. \A v \in Range(stack) : v.key \in Nat => v.key < opens'
      BY <3>1, <3>4
    <3>8. active # NoView => active.key < opens' /\ active.key # window.key
      BY <3>1, <3>3, <3>4
    <3>9. window.key \in Nat => window.key < opens'
      BY <3>1, <3>4
    <3> QED BY <2>2, <3>1, <3>5, <3>6, <3>7, <3>8, <3>9 DEF KeysInv, KeysDiffer, NoView
  <2>6. PendingInv'
    BY <2>2 DEF IInv, PendingInv
  <2>7. FocusInv' /\ CoverInv'
    BY <2>2 DEF IInv, FocusInv, CoverInv, Without, NoView
  <2>8. WindowInv'
    BY <2>2 DEF IInv, WindowInv, WindowUp
  <2> QED BY <2>4, <2>5, <2>6, <2>7, <2>8 DEF IInv
<1> QED BY <1>2, <1>3, <1>4

(* Esc, or q, with an overlay up closes the view of activeOverlayKey, or   *)
(* what is on top, and keeps the invariant.                                *)
LEMMA CloseKeeps ==
    ASSUME IInv, CloseKey
    PROVE  IInv'
<1>0. TypeInv /\ TypeOK /\ KeysInv /\ PendingInv /\ FocusInv /\ CoverInv /\ WindowInv
  BY DEF IInv, TypeInv
<1>1. PICK k : k = ToClose
  OBVIOUS
<1>2. /\ stack # <<>> /\ happened' = happened \cup (IF k = window.key THEN {"dismissed"} ELSE {})
  BY <1>1 DEF CloseKey, Note
<1>3. happened \subseteq happened' /\ happened' \subseteq Events
  BY <1>0, <1>2 DEF TypeOK, Events
<1>4. CASE CloseThrows
  <2>1. /\ crashed' = TRUE
        /\ UNCHANGED <<views, inflight, opens, armed, requests, execution>>
    BY <1>4 DEF CloseKey, Crash
  <2>2. /\ UNCHANGED <<views, inflight, opens, pending, shown, asked, pump>>
        /\ UNCHANGED <<withdrawn, answering, turn, status, armed>>
    BY <2>1 DEF requests, execution
  <2>3. /\ withdrawn' \subseteq asked /\ answering' \subseteq asked
        /\ armed' \in BOOLEAN /\ turn' \in BOOLEAN /\ crashed' \in BOOLEAN
        /\ status' \in {"idle", "running", "completed", "interrupted"}
    BY <1>0, <2>1, <2>2 DEF TypeOK
  <2> QED BY <1>3, <2>2, <2>3, RestKeeps
<1>5. CASE ~CloseThrows
  <2>1. /\ stack' = Closed(stack, k) /\ window' = WatchedClosing(k)
        /\ active' = NoView /\ focus' = RemoveFocus(active)
        /\ UNCHANGED <<selected, inflight, opens, armed, requests, execution, crashed>>
    BY <1>1, <1>5 DEF CloseKey, ClearOverlayFocus
  <2>2. /\ pending' = pending /\ shown' = shown /\ asked' = asked /\ selected' = selected
        /\ inflight' = inflight /\ opens' = opens /\ armed' = armed
        /\ pump' = pump /\ withdrawn' = withdrawn /\ answering' = answering
        /\ turn' = turn /\ status' = status /\ crashed' = crashed
    BY <2>1 DEF requests, execution
  <2> DEFINE c == Closed(stack, k)
  <2>3. /\ c \in Seq(Anything) /\ Range(c) \subseteq Range(stack) /\ Len(c) <= Len(stack)
        /\ KeysDiffer(stack) => KeysDiffer(c)
        /\ Last(stack).key # k => c # <<>> /\ Last(c) = Last(stack)
    <3>1. stack \in Seq(Anything)
      BY <1>0 DEF TypeOK
    <3> QED BY <1>2, <3>1, ClosedView
  <2>4. stack' = c
    BY <2>1
  <2> HIDE DEF c
  <2>5. window' \in {window, NoWindow} /\ (TopKey(stack) # k => window' = window)
    BY <2>1 DEF WatchedClosing, Watched
  <2>6. NoKey \notin Nat
    BY ShellAssumption DEF ShellAssumption
  <2>7. TypeInv'
    <3>1. focus' \in Seq(Known \cup {"composer.editor"})
      BY <1>0, <2>1, FocusGivenBack
    <3>2. TypeOK'
      BY <1>0, <1>3, <2>1, <2>2, <2>3, <2>4, <2>5, <3>1 DEF TypeOK, NoView, NoWindow, Keyed, Anything
    <3> QED BY <2>1, <3>2 DEF TypeInv, NoView
  <2>8. KeysInv'
    <3>1. window'.key \in {window.key, NoKey} /\ active'.key = NoKey /\ active' = NoView
      BY <2>1, <2>5 DEF NoWindow, NoView, View
    <3>2. ASSUME NEW v \in inflight
          PROVE  /\ v.kind \in AllKinds /\ v.key \in Nat /\ v.key < opens
                 /\ v.key \notin {window'.key, active'.key}
                 /\ \A u \in Range(stack') : u.key # v.key
      BY <1>0, <2>3, <2>4, <2>6, <3>1 DEF KeysInv
    <3>3. /\ KeysDiffer(stack') /\ \A v, w \in inflight : v.key = w.key => v = w
          /\ \A v \in Range(stack') : v.key \in Nat => v.key < opens
          /\ window'.key \in Nat => window'.key < opens
      BY <1>0, <2>3, <2>4, <2>6, <3>1 DEF KeysInv
    <3> QED BY <2>2, <3>1, <3>2, <3>3 DEF KeysInv, KeysDiffer, NoView
  <2>9. PendingInv'
    BY <1>0, <2>2, <2>3, <2>4, PendingKeeps
  <2>10. FocusInv'
    <3> SUFFICES ASSUME Without("late")
                 PROVE  focus' = <<"composer.editor">>
      BY <1>3, <2>1 DEF FocusInv, Without, NoView
    <3>1. focus = IF active = NoView THEN <<"composer.editor">>
                  ELSE <<"composer.editor", active.kind>>
      BY <1>0 DEF FocusInv
    <3> QED BY <1>0, <2>1, <3>1, FocusGivenBack
  <2>11. CoverInv'
    <3> SUFFICES ASSUME happened \cap {"covered", "late"} = {}
                 PROVE  Len(stack') <= 1
      BY <1>3 DEF CoverInv
    <3>1. Len(stack) <= 1 /\ Len(stack) \in Nat /\ Len(c) \in Nat
      BY <1>0, <2>3, StackFacts, LenProperties DEF CoverInv
    <3> QED BY <2>3, <2>4, <3>1
  <2>12. WindowInv'
    <3> SUFFICES ASSUME happened' \subseteq {"covered", "escAgain"}
                 PROVE  /\ pump
                        /\ pending # <<>> => \/ pending[1] \in answering
                                             \/ (window'.key = pending[1] /\ ~window'.consumed)
                        /\ window'.key # NoKey /\ ~window'.consumed
                             => stack' # <<>> /\ Last(stack').key = window'.key
      BY <2>2 DEF WindowInv, WindowUp
    <3>1. happened \subseteq {"covered", "escAgain"} /\ k # window.key
      BY <1>2, <1>3
    <3>2. pump /\ (pending # <<>> => \/ pending[1] \in answering
                                     \/ (window.key = pending[1] /\ ~window.consumed))
      BY <1>0, <3>1 DEF WindowInv
    <3>3. CASE WindowUp
      <4>1. Last(stack).key = window.key /\ TopKey(stack) = Last(stack).key
        BY <3>1, <3>3, StackFacts
      <4> QED BY <2>3, <2>4, <2>5, <3>1, <3>2, <4>1
    <3>4. CASE ~WindowUp
      <4>1. pending # <<>> => pending[1] \in answering
        BY <3>1, <3>4, StackFacts
      <4> QED BY <2>5, <3>2, <3>4, <4>1 DEF WindowUp, NoWindow
    <3> QED BY <3>3, <3>4
  <2> QED BY <2>7, <2>8, <2>9, <2>10, <2>11, <2>12 DEF IInv
<1> QED BY <1>4, <1>5

(* Esc twice in the empty composer opens the fork selector where nothing   *)
(* else is, and keeps the invariant.                                       *)
LEMMA ArmKeeps ==
    ASSUME IInv, EscArms
    PROVE  IInv'
<1>0. TypeInv /\ TypeOK /\ KeysInv /\ PendingInv /\ FocusInv /\ CoverInv /\ WindowInv
  BY DEF IInv, TypeInv
<1>1. /\ stack = <<>> /\ opens < MaxOpens /\ armed' = ~armed
      /\ active' = active /\ focus' = focus /\ selected' = selected /\ inflight' = inflight
      /\ pending' = pending /\ shown' = shown /\ asked' = asked
      /\ pump' = pump /\ withdrawn' = withdrawn /\ answering' = answering
      /\ turn' = turn /\ status' = status /\ crashed' = crashed /\ happened' = happened
  BY DEF EscArms, requests, execution
<1>2. /\ withdrawn \subseteq asked /\ answering \subseteq asked
      /\ turn \in BOOLEAN /\ armed \in BOOLEAN /\ crashed \in BOOLEAN
      /\ status \in {"idle", "running", "completed", "interrupted"} /\ happened \subseteq Events
      /\ opens \in 0..MaxOpens /\ inflight \subseteq Anything /\ MaxOpens \in Nat
  BY <1>0, ShellAssumption DEF TypeOK, ShellAssumption
<1>3. CASE ~armed
  <2>1. UNCHANGED <<stack, window, opens>>
    BY <1>3 DEF EscArms
  <2>2. UNCHANGED <<views, inflight, opens, pending, shown, asked, pump>>
    BY <1>1, <2>1 DEF views
  <2> QED BY <1>1, <1>2, <2>2, RestKeeps
<1>4. CASE armed
  <2> DEFINE new == View("selector.fork-history", opens)
  <2>1. /\ stack' = <<new>> /\ window' \in {window, NoWindow} /\ opens' = opens + 1
    BY <1>4 DEF EscArms, Watched
  <2>2. new \in Anything /\ new.key = opens
    BY <1>2 DEF View, Anything, Keyed
  <2> HIDE DEF new
  <2>3. /\ stack' \in Seq(Anything) /\ Range(stack') = {new} /\ KeysDiffer(stack') /\ Len(stack') = 1
    <3> DEFINE one == <<new>>
    <3>1. one \in Seq(Anything) /\ Len(one) = 1 /\ one[1] = new /\ DOMAIN one = 1..1
      BY <2>2
    <3> HIDE DEF one
    <3>2. Range(one) = {new} /\ KeysDiffer(one)
      BY <3>1 DEF Range, KeysDiffer
    <3> QED BY <2>1, <3>1, <3>2 DEF one
  <2>4. opens' \in 0..MaxOpens /\ opens \in Nat
    <3>1. opens + 1 \in 0..MaxOpens
      BY <1>1, <1>2
    <3> QED BY <1>2, <2>1, <3>1
  <2>5. TypeInv'
    <3>1. TypeOK'
      BY <1>0, <1>1, <1>2, <2>1, <2>3, <2>4 DEF TypeOK, NoView, NoWindow, Keyed, Anything
    <3> QED BY <1>0, <1>1, <3>1 DEF TypeInv, NoView
  <2>6. KeysInv'
    <3>1. NoKey \notin Nat /\ (active # NoView => active.key \in Nat)
      BY <1>0, ShellAssumption DEF ShellAssumption, TypeInv
    <3>2. window'.key \in {window.key, NoKey}
      BY <2>1 DEF NoWindow
    <3>3. ASSUME NEW v \in inflight
          PROVE  /\ v.kind \in AllKinds /\ v.key \in Nat /\ v.key < opens'
                 /\ v.key \notin {window'.key, active.key}
                 /\ \A u \in Range(stack') : u.key # v.key
      <4>1. /\ v.kind \in AllKinds /\ v.key \in Nat /\ v.key < opens
            /\ v.key \notin {window.key, active.key}
        BY <1>0 DEF KeysInv
      <4> QED BY <2>1, <2>2, <2>3, <2>4, <3>1, <3>2, <4>1
    <3>4. /\ \A v, w \in inflight : v.key = w.key => v = w
          /\ active # NoView => active.key < opens /\ active.key # window.key
          /\ window.key \in Nat => window.key < opens
      BY <1>0 DEF KeysInv
    <3>5. \A v \in Range(stack') : v.key \in Nat => v.key < opens'
      BY <2>1, <2>2, <2>3, <2>4
    <3>6. active # NoView => active.key < opens' /\ active.key # window'.key
      BY <2>1, <2>4, <3>1, <3>2, <3>4
    <3>7. window'.key \in Nat => window'.key < opens'
      BY <2>1, <2>4, <3>1, <3>2, <3>4
    <3> QED BY <1>1, <2>3, <3>3, <3>4, <3>5, <3>6, <3>7 DEF KeysInv, NoView
  <2>7. PendingInv'
    BY <1>0, <1>1, <2>2, <2>3, <2>4, PendingKeeps
  <2>8. FocusInv' /\ CoverInv'
    BY <1>0, <1>1, <2>3 DEF FocusInv, CoverInv, Without, NoView
  <2>9. WindowInv'
    <3> SUFFICES ASSUME happened \subseteq {"covered", "escAgain"}
                 PROVE  pump /\ (pending # <<>> => pending[1] \in answering)
                        /\ ~(window'.key # NoKey /\ ~window'.consumed)
      BY <1>1 DEF WindowInv, WindowUp
    <3>1. ~WindowUp
      BY <1>1, StackFacts
    <3> QED BY <1>0, <2>1, <3>1, StackFacts DEF WindowInv, WindowUp, NoWindow
  <2> QED BY <2>5, <2>6, <2>7, <2>8, <2>9 DEF IInv
<1> QED BY <1>2, <1>3, <1>4

(* Enter selects what is on top: its view goes, a window that has been     *)
(* selected is not up any more, and the invariant is kept.                 *)
LEMMA SelectKeeps ==
    ASSUME IInv, EnterSelects
    PROVE  IInv'
<1>0. TypeInv /\ TypeOK /\ KeysInv /\ PendingInv /\ FocusInv /\ CoverInv /\ WindowInv
  BY DEF IInv, TypeInv
<1>1. PICK top : top = Last(stack)
  OBVIOUS
<1>2. /\ stack # <<>> /\ stack' = Front(stack)
      /\ \E kept \in {Watched(stack', window)} \cup {w \in {window} : w.key = top.key} :
            window' = Consumed(kept, top.key)
      /\ selected' \in BOOLEAN
      /\ answering' = answering \cup ({top.key} \cap Range(pending))
      /\ \/ inflight' = inflight /\ opens' = opens
         \/ /\ opens < MaxOpens /\ inflight' = inflight \cup {View("command", opens)}
            /\ opens' = opens + 1
  <2> DEFINE isWindow == top.kind \in Windows \cup {"approval-question"}
  <2>1. /\ stack # <<>> /\ stack' = Front(stack)
        /\ \E kept \in {Watched(stack', window)} \cup {w \in {window} : w.key = top.key} :
              window' = Consumed(kept, top.key)
        /\ selected' = (selected \/ isWindow)
        /\ answering' = answering \cup ({top.key} \cap Range(pending))
        /\ \/ UNCHANGED <<inflight, opens>>
           \/ /\ top.kind = "command" /\ opens < MaxOpens
              /\ inflight' = inflight \cup {View("command", opens)}
              /\ opens' = opens + 1
    BY <1>1, Zenon DEF EnterSelects
  <2>2. selected' \in BOOLEAN
    BY <2>1
  <2> HIDE DEF isWindow
  <2> QED BY <2>1, <2>2
<1>3. /\ armed' = armed /\ pending' = pending /\ shown' = shown /\ asked' = asked
      /\ pump' = pump /\ withdrawn' = withdrawn /\ turn' = turn /\ status' = status
      /\ crashed' = crashed /\ happened' = happened
  BY DEF EnterSelects, execution
<1>4. /\ stack' = <<>> => active' = NoView /\ focus' = RemoveFocus(active)
      /\ stack' # <<>> => active' = active /\ focus' = focus
  BY DEF EnterSelects, SyncClosedOverlay, ClearOverlayFocus
<1>5. /\ stack \in Seq(Anything) /\ KeysDiffer(stack) /\ top \in Anything /\ top.key # NoKey
      /\ Len(stack) \in Nat \ {0} /\ DOMAIN stack = 1..Len(stack)
  BY <1>1, <1>2, StackFacts, LenProperties
<1>6. /\ stack' \in Seq(Anything) /\ Len(stack') = Len(stack) - 1
      /\ DOMAIN stack' = 1..(Len(stack) - 1)
      /\ \A j \in 1..(Len(stack) - 1) : stack'[j] = stack[j]
  BY <1>2, <1>5, FrontOf
<1>7. /\ Range(stack') \subseteq Range(stack) /\ KeysDiffer(stack')
      /\ stack' # <<>> => stack'[1] = stack[1]
  <2>1. \A j \in 1..(Len(stack) - 1) : j \in DOMAIN stack
    BY <1>5
  <2>2. Range(stack') \subseteq Range(stack)
    BY <1>6, <2>1 DEF Range
  <2>3. KeysDiffer(stack')
    BY <1>5, <1>6, <2>1 DEF KeysDiffer
  <2>4. stack' # <<>> => 1 \in 1..(Len(stack) - 1)
    BY <1>5, <1>6, EmptySeq
  <2> QED BY <1>6, <2>2, <2>3, <2>4
<1>8. \/ window' = NoWindow
      \/ window' = window /\ window.key # top.key
      \/ window' = [key |-> top.key, consumed |-> TRUE] /\ window.key = top.key
  <2>1. PICK kept \in {window, NoWindow} : window' = Consumed(kept, top.key)
    BY <1>2 DEF Watched
  <2>2. CASE kept = NoWindow
    BY <1>5, <2>1, <2>2 DEF Consumed, NoWindow
  <2>3. CASE kept = window
    <3>1. window' = IF window.key = top.key THEN [window EXCEPT !.consumed = TRUE] ELSE window
      BY <2>1, <2>3 DEF Consumed
    <3>2. window \in [key : Keyed, consumed : BOOLEAN] \/ window = NoWindow
      BY <1>0 DEF TypeOK
    <3> QED BY <1>5, <3>1, <3>2 DEF NoWindow
  <2> QED BY <2>1, <2>2, <2>3
<1>9. /\ window' \in [key : Keyed, consumed : BOOLEAN] \cup {NoWindow}
      /\ window'.key \in {window.key, NoKey}
      /\ window'.key # NoKey /\ ~window'.consumed => window' = window /\ window.key # top.key
  <2>1. top.key \in Keyed
    BY <1>5, StackFacts
  <2>2. window \in [key : Keyed, consumed : BOOLEAN] \cup {NoWindow}
    BY <1>0 DEF TypeOK
  <2>3. CASE window' = NoWindow
    BY <2>3 DEF NoWindow
  <2>4. CASE window' = window /\ window.key # top.key
    BY <2>2, <2>4
  <2>5. CASE window' = [key |-> top.key, consumed |-> TRUE] /\ window.key = top.key
    BY <2>1, <2>5
  <2> QED BY <1>8, <2>3, <2>4, <2>5
<1>10. NoKey \notin Nat /\ NoView.key = NoKey /\ MaxOpens \in Nat
  BY ShellAssumption DEF ShellAssumption, NoView, View
<1>11. opens \in Nat /\ opens' \in 0..MaxOpens /\ opens <= opens' /\ inflight' \subseteq Anything
  <2>1. opens \in 0..MaxOpens /\ inflight \subseteq Anything
    BY <1>0 DEF TypeOK
  <2>2. opens < MaxOpens => opens + 1 \in 0..MaxOpens
    BY <1>10, <2>1
  <2>3. View("command", opens) \in Anything
    BY <2>1 DEF View, Anything, Keyed, AllKinds, Known
  <2> QED BY <1>2, <1>10, <2>1, <2>2, <2>3
<1>12. active' \in {active, NoView} /\ (active' # NoView => active' = active /\ focus' = focus)
  BY <1>4
<1>13. TypeInv'
  <2>1. focus' \in Seq(Known \cup {"composer.editor"})
    BY <1>0, <1>4, FocusGivenBack DEF TypeOK
  <2>2. answering' \subseteq asked
    <3>1. answering \subseteq asked /\ Range(pending) \subseteq asked
      BY <1>0 DEF TypeOK, PendingInv
    <3> QED BY <1>2, <3>1
  <2>3. active' \in Anything \cup {NoView} /\ selected' \in BOOLEAN
    BY <1>0, <1>2, <1>12 DEF TypeOK
  <2>4. TypeOK'
    BY <1>0, <1>3, <1>6, <1>9, <1>11, <2>1, <2>2, <2>3 DEF TypeOK, NoView, NoWindow, Keyed, Anything
  <2> QED BY <1>0, <1>12, <2>4 DEF TypeInv, NoView
<1>14. KeysInv'
  <2> DEFINE new == View("command", opens)
  <2>1. new.kind \in AllKinds /\ new.key = opens
    BY DEF View, AllKinds, Known
  <2>2. \/ inflight' = inflight /\ opens' = opens
        \/ inflight' = inflight \cup {new} /\ opens' = opens + 1
    BY <1>2
  <2> HIDE DEF new
  <2>3. /\ \A v, w \in inflight : v.key = w.key => v = w
        /\ \A v \in inflight : /\ v.kind \in AllKinds /\ v.key \in Nat /\ v.key < opens
                               /\ v.key \notin {window.key, active.key}
                               /\ \A u \in Range(stack) : u.key # v.key
        /\ \A v \in Range(stack) : v.key \in Nat => v.key < opens
        /\ active # NoView => active.key < opens /\ active.key # window.key
        /\ window.key \in Nat => window.key < opens
        /\ active # NoView => active.key \in Nat
    BY <1>0 DEF KeysInv, TypeInv
  <2>4. ASSUME NEW v \in inflight'
        PROVE  /\ v.kind \in AllKinds /\ v.key \in Nat /\ v.key < opens'
               /\ v.key \notin {window'.key, active'.key}
               /\ \A u \in Range(stack') : u.key # v.key
    <3>1. CASE v \in inflight
      BY <1>7, <1>9, <1>10, <1>11, <1>12, <2>2, <2>3, <3>1
    <3>2. CASE v = new /\ opens' = opens + 1
      <4>1. \A u \in Range(stack') : u.key # opens
        BY <1>7, <1>11, <2>3
      <4>2. window'.key # opens /\ active'.key # opens
        BY <1>9, <1>10, <1>11, <1>12, <2>3
      <4> QED BY <1>11, <2>1, <3>2, <4>1, <4>2
    <3> QED BY <2>2, <3>1, <3>2
  <2>5. ASSUME NEW v \in inflight', NEW w \in inflight', v.key = w.key PROVE v = w
    <3>1. \A u \in inflight : u.key # new.key
      BY <1>11, <2>1, <2>3
    <3> QED BY <2>2, <2>3, <2>5, <3>1
  <2>6. \A v \in Range(stack') : v.key \in Nat => v.key < opens'
    BY <1>7, <1>11, <2>2, <2>3
  <2>7. active' # NoView => active'.key < opens' /\ active'.key # window'.key
    BY <1>9, <1>10, <1>11, <1>12, <2>2, <2>3
  <2>8. window'.key \in Nat => window'.key < opens'
    BY <1>9, <1>10, <1>11, <2>2, <2>3
  <2> QED BY <1>7, <2>4, <2>5, <2>6, <2>7, <2>8 DEF KeysInv, NoView
<1>15. PendingInv'
  BY <1>0, <1>3, <1>7, PendingKeeps
<1>16. FocusInv'
  <2> SUFFICES ASSUME Without("late")
               PROVE  /\ focus' = IF active' = NoView THEN <<"composer.editor">>
                                  ELSE <<"composer.editor", active'.kind>>
                      /\ active' # NoView => stack' # <<>> /\ stack'[1] = active'
    BY <1>3 DEF FocusInv, Without, NoView
  <2>1. /\ focus = IF active = NoView THEN <<"composer.editor">>
                   ELSE <<"composer.editor", active.kind>>
        /\ active # NoView => stack # <<>> /\ stack[1] = active
    BY <1>0 DEF FocusInv
  <2>2. CASE stack' = <<>>
    BY <1>0, <1>4, <2>1, <2>2, FocusGivenBack
  <2>3. CASE stack' # <<>>
    BY <1>4, <1>7, <2>1, <2>3
  <2> QED BY <2>2, <2>3
<1>17. CoverInv'
  BY <1>0, <1>3, <1>5, <1>6 DEF CoverInv
<1>18. WindowInv'
  <2> SUFFICES ASSUME happened \subseteq {"covered", "escAgain"}
               PROVE  /\ pump
                      /\ pending # <<>> => pending[1] \in answering'
                      /\ ~(window'.key # NoKey /\ ~window'.consumed)
    BY <1>3 DEF WindowInv, WindowUp
  <2>1. pump /\ (pending # <<>> => \/ pending[1] \in answering
                                   \/ (window.key = pending[1] /\ ~window.consumed))
    BY <1>0 DEF WindowInv
  <2>2. WindowUp => top.key = window.key
    BY <1>1, StackFacts
  <2>3. pending # <<>> => pending[1] \in answering'
    <3>1. CASE WindowUp /\ pending # <<>> /\ window.key = pending[1]
      BY <1>2, <2>2, <3>1, StackFacts
    <3>2. CASE ~WindowUp
      BY <1>2, <3>2, StackFacts
    <3> QED BY <1>2, <2>1, <3>1, <3>2
  <2>4. ~(window'.key # NoKey /\ ~window'.consumed)
    BY <1>9, <2>2 DEF WindowUp
  <2> QED BY <2>1, <2>3, <2>4
<1> QED BY <1>13, <1>14, <1>15, <1>16, <1>17, <1>18 DEF IInv

(* Appending to a sequence of one makes a pair.                            *)
LEMMA AppendTwo ==
    ASSUME NEW x, NEW y
    PROVE  Append(<<x>>, y) = <<x, y>>
<1> DEFINE S == {x, y}
           one == <<x>>
           l == Append(one, y)
           r == <<x, y>>
<1>1. one \in Seq(S) /\ Len(one) = 1 /\ one[1] = x /\ y \in S
  OBVIOUS
<1>2. r \in Seq(S) /\ Len(r) = 2 /\ r[1] = x /\ r[2] = y
  OBVIOUS
<1> HIDE DEF S, one, r
<1>3. /\ Append(one, y) \in Seq(S)
      /\ Len(Append(one, y)) = Len(one) + 1
      /\ \A i \in 1..Len(one) : Append(one, y)[i] = one[i]
      /\ Append(one, y)[Len(one) + 1] = y
  <2>1. one \in Seq(S) /\ y \in S
    BY <1>1
  <2> QED BY <2>1, AppendProperties
<1>4. l \in Seq(S) /\ Len(l) = 2 /\ l[1] = x /\ l[2] = y
  <2>1. 1 \in 1..Len(one)
    BY <1>1
  <2> QED BY <1>1, <1>3, <2>1
<1> HIDE DEF l
<1>5. \A i \in 1..Len(l) : l[i] = r[i]
  BY <1>2, <1>4
<1>6. l = r
  BY <1>2, <1>4, <1>5, SeqEqual
<1> QED BY <1>6 DEF l, r, one

(* A reply takes its view from those on their way; whatever it opens or    *)
(* closes, the invariant is kept if the keys, the focus and the window are *)
(* those of the view or of what was there.                                 *)
LEMMA RepliesKeep ==
    ASSUME IInv, NEW view, Replied(view),
           stack' \in Seq(Anything), Range(stack') \subseteq Range(stack) \cup {view},
           KeysDiffer(stack'),
           window' \in {window, NoWindow, [key |-> view.key, consumed |-> FALSE]},
           focus' \in Seq(Known \cup {"composer.editor"}),
           \/ active' = active /\ (active # NoView => focus' = focus)
           \/ active' = NoView
           \/ /\ active' = view /\ view.kind \in Known \cap Range(focus')
              /\ window' \in {window, NoWindow},
           stack = <<>> => Len(stack') <= 1,
           stack = <<>> /\ active = NoView /\ focus = <<"composer.editor">> =>
             /\ focus' = IF active' = NoView THEN <<"composer.editor">>
                         ELSE <<"composer.editor", active'.kind>>
             /\ active' # NoView => stack' # <<>> /\ stack'[1] = active',
           stack = <<>> /\ ~WindowUp /\ window'.key # NoKey /\ ~window'.consumed =>
             stack' # <<>> /\ Last(stack').key = window'.key
    PROVE  IInv'
<1>0. TypeInv /\ TypeOK /\ KeysInv /\ PendingInv /\ FocusInv /\ CoverInv /\ WindowInv
  BY DEF IInv, TypeInv
<1>1. /\ view \in inflight /\ inflight' = inflight \ {view}
      /\ happened' = happened \cup (IF stack # <<>> THEN {"late"} ELSE {})
      /\ selected' = selected /\ opens' = opens /\ armed' = armed
      /\ pending' = pending /\ shown' = shown /\ asked' = asked
      /\ pump' = pump /\ withdrawn' = withdrawn /\ answering' = answering
      /\ turn' = turn /\ status' = status /\ crashed' = crashed
  BY DEF Replied, Note, requests, execution
<1>2. /\ happened \subseteq happened' /\ happened' \subseteq Events
      /\ "late" \notin happened' => stack = <<>>
  BY <1>0, <1>1 DEF TypeOK, Events
<1>3. /\ view \in Anything /\ view.key \in Nat /\ view.key < opens
      /\ view.key \notin {window.key, active.key} /\ view.key \in Keyed
      /\ \A u \in Range(stack) : u.key # view.key
      /\ \A v \in inflight : v.key = view.key => v = view
  BY <1>0, <1>1, StackFacts DEF KeysInv, TypeOK
<1>4. NoKey \notin Nat /\ NoView.key = NoKey /\ Interactions \cap Nat = {} /\ NoWindow.key = NoKey
  BY ShellAssumption DEF ShellAssumption, NoView, View, NoWindow
<1>5. view # NoView /\ NoView \notin Anything
  BY <1>3, <1>4, StackFacts
<1>6. TypeInv'
  <2>1. window' \in [key : Keyed, consumed : BOOLEAN] \cup {NoWindow}
    <3>1. [key |-> view.key, consumed |-> FALSE] \in [key : Keyed, consumed : BOOLEAN]
      BY <1>3
    <3>2. window \in [key : Keyed, consumed : BOOLEAN] \cup {NoWindow}
      BY <1>0 DEF TypeOK
    <3> QED BY <3>1, <3>2
  <2>2. active' \in Anything \cup {NoView} /\ inflight' \subseteq Anything
    BY <1>0, <1>1, <1>3 DEF TypeOK
  <2>3. TypeOK'
    BY <1>0, <1>1, <1>2, <2>1, <2>2 DEF TypeOK, NoView, NoWindow, Keyed, Anything
  <2>4. active' # NoView => active'.kind \in Known \cap Range(focus') /\ active'.key \in Nat
    BY <1>0, <1>3 DEF TypeInv
  <2> QED BY <2>3, <2>4 DEF TypeInv, NoView
<1>7. KeysInv'
  <2>1. /\ \A v, w \in inflight : v.key = w.key => v = w
        /\ \A v \in inflight : /\ v.kind \in AllKinds /\ v.key \in Nat /\ v.key < opens
                               /\ v.key \notin {window.key, active.key}
                               /\ \A u \in Range(stack) : u.key # v.key
        /\ \A v \in Range(stack) : v.key \in Nat => v.key < opens
        /\ active # NoView => active.key < opens /\ active.key # window.key
        /\ window.key \in Nat => window.key < opens
    BY <1>0 DEF KeysInv
  <2>2. window'.key \in {window.key, NoKey, view.key} /\ active'.key \in {active.key, NoKey, view.key}
    BY <1>4
  <2>3. ASSUME NEW v \in inflight'
        PROVE  /\ v.kind \in AllKinds /\ v.key \in Nat /\ v.key < opens
               /\ v.key \notin {window'.key, active'.key}
               /\ \A u \in Range(stack') : u.key # v.key
    <3>1. v \in inflight /\ v.key # view.key
      BY <1>1, <1>3
    <3> QED BY <1>4, <2>1, <2>2, <3>1
  <2>4. \A v \in Range(stack') : v.key \in Nat => v.key < opens
    BY <1>3, <2>1
  <2>5. ASSUME active' # NoView PROVE active'.key < opens /\ active'.key # window'.key
    <3>1. active # NoView => active.key \in Nat
      BY <1>0 DEF TypeInv
    <3>2. CASE active' = active /\ active # NoView
      <4>1. active.key # view.key /\ active.key # NoKey
        BY <1>3, <1>4, <3>1, <3>2
      <4> QED BY <2>1, <2>2, <3>2, <4>1
    <3>3. CASE active' = view /\ window' \in {window, NoWindow}
      BY <1>3, <1>4, <3>3
    <3> QED BY <2>5, <3>2, <3>3
  <2>6. window'.key \in Nat => window'.key < opens
    BY <1>3, <1>4, <2>1, <2>2
  <2> QED BY <1>1, <2>1, <2>3, <2>4, <2>5, <2>6 DEF KeysInv, KeysDiffer, NoView
<1>8. PendingInv'
  BY <1>0, <1>1, <1>3, PendingKeeps
<1>9. FocusInv'
  <2> SUFFICES ASSUME "late" \notin happened'
               PROVE  /\ focus' = IF active' = NoView THEN <<"composer.editor">>
                                  ELSE <<"composer.editor", active'.kind>>
                      /\ active' # NoView => stack' # <<>> /\ stack'[1] = active'
    BY DEF FocusInv, Without, NoView
  <2>1. stack = <<>> /\ Without("late")
    BY <1>2 DEF Without
  <2>2. active = NoView /\ focus = <<"composer.editor">>
    BY <1>0, <2>1 DEF FocusInv
  <2> QED BY <2>1, <2>2
<1>10. CoverInv'
  BY <1>2 DEF CoverInv
<1>11. WindowInv'
  <2> SUFFICES ASSUME happened' \subseteq {"covered", "escAgain"}
               PROVE  /\ pump
                      /\ pending # <<>> => pending[1] \in answering
                      /\ window'.key # NoKey /\ ~window'.consumed
                           => stack' # <<>> /\ Last(stack').key = window'.key
    BY <1>1 DEF WindowInv, WindowUp
  <2>1. stack = <<>> /\ happened \subseteq {"covered", "escAgain"}
    BY <1>2
  <2>2. ~WindowUp
    BY <2>1, StackFacts
  <2> QED BY <1>0, <2>1, <2>2, StackFacts DEF WindowInv
<1> QED BY <1>6, <1>7, <1>8, <1>9, <1>10, <1>11 DEF IInv

(* The reply of a command the shell opens keeps the invariant.             *)
LEMMA OverlayReplyKeeps ==
    ASSUME IInv, NEW view, ReplyOpensOverlay(view)
    PROVE  IInv'
<1>0. TypeInv /\ TypeOK /\ KeysInv
  BY DEF IInv, TypeInv
<1>1. Replied(view) /\ view \in inflight
  BY DEF ReplyOpensOverlay, Replied
<1>2. PICK k : k = ToClose
  OBVIOUS
<1> DEFINE below == Closed(stack, k)
           known == view.kind \in Known
           admitted == known /\ Admits(below, view.kind)
<1>3. /\ focus \in Seq(Known \cup {"composer.editor"})
      /\ stack \in Seq(Anything) /\ KeysDiffer(stack) /\ view \in Anything
      /\ \A u \in Range(stack) : u.key # view.key
  BY <1>0, <1>1 DEF TypeOK, KeysInv
<1>4. CASE CloseThrows
  <2>1. stack' = stack /\ window' = window /\ active' = active /\ focus' = focus
    BY <1>4 DEF ReplyOpensOverlay
  <2>2. stack = <<>> => Len(stack') <= 1
    BY <2>1
  <2>3. /\ stack' \in Seq(Anything) /\ Range(stack') \subseteq Range(stack) \cup {view}
        /\ KeysDiffer(stack') /\ focus' \in Seq(Known \cup {"composer.editor"})
        /\ stack = <<>> /\ ~WindowUp /\ window'.key # NoKey /\ ~window'.consumed =>
             stack' # <<>> /\ Last(stack').key = window'.key
    BY <1>3, <2>1 DEF WindowUp
  <2>4. stack = <<>> /\ active = NoView /\ focus = <<"composer.editor">> =>
          /\ focus' = IF active' = NoView THEN <<"composer.editor">>
                      ELSE <<"composer.editor", active'.kind>>
          /\ active' # NoView => stack' # <<>> /\ stack'[1] = active'
    BY <2>1
  <2> QED BY <1>1, <2>1, <2>2, <2>3, <2>4, RepliesKeep
<1>5. CASE ~CloseThrows
  <2>1. /\ stack' = IF admitted THEN Append(below, view) ELSE below
        /\ window' \in {window, NoWindow}
        /\ active' = IF admitted THEN view ELSE NoView
        /\ focus' = IF known THEN Append(RemoveFocus(active), view.kind) ELSE RemoveFocus(active)
    BY <1>2, <1>5 DEF ReplyOpensOverlay, WatchedClosing, Watched
  <2>2. /\ below \in Seq(Anything) /\ Range(below) \subseteq Range(stack) /\ KeysDiffer(below)
        /\ Len(below) <= Len(stack)
    BY <1>3, ClosedView
  <2>3. stack = <<>> => below = <<>>
    <3> SUFFICES ASSUME stack = <<>> PROVE below = <<>>
      OBVIOUS
    <3>1. ~OnStack(stack, k)
      BY DEF OnStack, Range
    <3> QED BY <3>1 DEF Closed
  <2>4. below = <<>> => (admitted <=> known)
    BY DEF Admits
  <2> HIDE DEF below, admitted
  <2> DEFINE a == Append(below, view)
  <2>5. /\ a \in Seq(Anything) /\ a # <<>> /\ Range(a) = Range(below) \cup {view}
        /\ KeysDiffer(a) /\ Len(a) = Len(below) + 1
        /\ below = <<>> => a[1] = view
    <3>1. ~OnStack(below, view.key)
      BY <1>3, <2>2 DEF OnStack
    <3> QED BY <1>3, <2>2, <3>1, OpenedView
  <2>6. stack' \in {a, below} /\ (admitted => stack' = a)
    BY <2>1
  <2> HIDE DEF a
  <2>7. stack' \in Seq(Anything) /\ Range(stack') \subseteq Range(stack) \cup {view} /\ KeysDiffer(stack')
    BY <2>2, <2>5, <2>6
  <2>8. stack = <<>> => Len(stack') <= 1
    <3> SUFFICES ASSUME stack = <<>> PROVE Len(stack') <= 1
      OBVIOUS
    <3>1. Len(below) = 0
      BY <2>3
    <3>2. Len(a) <= 1 /\ Len(below) <= 1
      BY <2>5, <3>1
    <3> QED BY <2>6, <3>2
  <2> DEFINE rest == RemoveFocus(active)
  <2>9. /\ rest \in Seq(Known \cup {"composer.editor"})
        /\ active = NoView => rest = focus
    BY <1>0, FocusGivenBack
  <2> HIDE DEF rest
  <2>10. /\ focus' \in Seq(Known \cup {"composer.editor"})
         /\ known => view.kind \in Range(focus')
    <3>1. ASSUME known
          PROVE  Append(rest, view.kind) \in Seq(Known \cup {"composer.editor"})
                 /\ view.kind \in Range(Append(rest, view.kind))
      BY <2>9, <3>1, AppendQueue
    <3> QED BY <2>1, <2>9, <3>1 DEF rest
  <2>11. \/ active' = NoView
         \/ /\ active' = view /\ view.kind \in Known \cap Range(focus')
            /\ window' \in {window, NoWindow}
    BY <2>1, <2>10 DEF admitted
  <2>12. ASSUME stack = <<>>, active = NoView, focus = <<"composer.editor">>
         PROVE  /\ focus' = IF active' = NoView THEN <<"composer.editor">>
                            ELSE <<"composer.editor", active'.kind>>
                /\ active' # NoView => stack' # <<>> /\ stack'[1] = active'
    <3>1. admitted <=> known
      BY <2>3, <2>4, <2>12
    <3>2. rest = <<"composer.editor">>
      BY <2>9, <2>12
    <3>3. NoView \notin Anything
      BY StackFacts, ShellAssumption DEF NoView, View
    <3>4. CASE known
      <4>1. active' = view /\ view # NoView /\ stack' = a
        BY <1>3, <2>1, <2>6, <3>1, <3>3, <3>4
      <4>2. focus' = Append(<<"composer.editor">>, view.kind)
        BY <2>1, <3>2, <3>4 DEF rest
      <4>3. Append(<<"composer.editor">>, view.kind) = <<"composer.editor", view.kind>>
        BY AppendTwo
      <4> QED BY <2>3, <2>5, <2>12, <4>1, <4>2, <4>3
    <3>5. CASE ~known
      BY <2>1, <3>1, <3>2, <3>5 DEF rest
    <3> QED BY <3>4, <3>5
  <2>13. stack = <<>> /\ ~WindowUp /\ window'.key # NoKey /\ ~window'.consumed =>
           stack' # <<>> /\ Last(stack').key = window'.key
    BY <2>1 DEF WindowUp, NoWindow
  <2> QED BY <1>1, <2>1, <2>7, <2>8, <2>10, <2>11, <2>12, <2>13, RepliesKeep
<1> QED BY <1>4, <1>5

(* The reply of a command the interactive window opens keeps the invariant. *)
LEMMA WindowReplyKeeps ==
    ASSUME IInv, NEW view, ReplyOpensWindow(view)
    PROVE  IInv'
<1>0. TypeInv /\ TypeOK /\ KeysInv
  BY DEF IInv, TypeInv
<1>1. Replied(view) /\ view \in inflight /\ active' = active /\ focus' = focus
  BY DEF ReplyOpensWindow, Replied
<1> DEFINE o == WindowOpened(view.kind, view.key)
<1>2. stack' = o.stack /\ window' = o.window
  BY DEF ReplyOpensWindow
<1>3. /\ focus \in Seq(Known \cup {"composer.editor"})
      /\ stack \in Seq(Anything) /\ KeysDiffer(stack) /\ view \in Anything
      /\ \A u \in Range(stack) : u.key # view.key
  BY <1>0, <1>1 DEF TypeOK, KeysInv
<1>4. View(view.kind, view.key) = view
  BY <1>3 DEF View, Anything
<1>5. /\ o.stack \in Seq(Anything) /\ Range(o.stack) \subseteq Range(stack) \cup {view}
      /\ o.window \in {window, NoWindow, [key |-> view.key, consumed |-> FALSE]}
      /\ stack = <<>> => Len(o.stack) <= 1
      /\ KeysDiffer(o.stack)
      /\ stack = <<>> /\ (WindowUp => OnStack(stack, window.key))
           => o.stack # <<>> /\ Last(o.stack) = view /\ o.window = [key |-> view.key, consumed |-> FALSE]
  <2>1. ~OnStack(stack, view.key)
    BY <1>3 DEF OnStack
  <2>2. View(view.kind, view.key) \in Anything
    BY <1>3, <1>4
  <2> HIDE DEF o
  <2>3. PICK kind, key : kind = view.kind /\ key = view.key
    OBVIOUS
  <2>4. o = WindowOpened(kind, key) /\ View(kind, key) = view
    BY <1>4, <2>3 DEF o
  <2> QED BY <1>3, <2>1, <2>2, <2>3, <2>4, WindowOpens
<1> HIDE DEF o
<1>6. stack = <<>> /\ ~WindowUp /\ window'.key # NoKey /\ ~window'.consumed =>
        stack' # <<>> /\ Last(stack').key = window'.key
  BY <1>2, <1>5
<1>7. stack = <<>> /\ active = NoView /\ focus = <<"composer.editor">> =>
        /\ focus' = IF active' = NoView THEN <<"composer.editor">>
                    ELSE <<"composer.editor", active'.kind>>
        /\ active' # NoView => stack' # <<>> /\ stack'[1] = active'
  BY <1>1
<1>8. /\ stack' \in Seq(Anything) /\ Range(stack') \subseteq Range(stack) \cup {view}
      /\ KeysDiffer(stack') /\ (stack = <<>> => Len(stack') <= 1)
      /\ window' \in {window, NoWindow, [key |-> view.key, consumed |-> FALSE]}
      /\ focus' \in Seq(Known \cup {"composer.editor"})
  BY <1>1, <1>2, <1>3, <1>5
<1> QED BY <1>1, <1>6, <1>7, <1>8, RepliesKeep

-----------------------------------------------------------------------------
(* The theorems.                                                           *)

(* The invariant holds at the start.                                       *)
LEMMA InitIInv == Init => IInv
<1> SUFFICES ASSUME Init PROVE IInv
  OBVIOUS
<1>1. /\ stack = <<>> /\ active = NoView /\ focus = <<"composer.editor">>
      /\ window = NoWindow /\ selected = FALSE
      /\ inflight = {} /\ opens = 0 /\ armed = FALSE
      /\ pending = <<>> /\ shown = NoKey /\ asked = {} /\ withdrawn = {} /\ answering = {}
      /\ pump = TRUE /\ turn = FALSE /\ status = "idle"
      /\ crashed = FALSE /\ happened = {}
  BY DEF Init
<1>2. Len(<<>>) = 0 /\ DOMAIN stack = {} /\ Range(stack) = {} /\ Range(pending) = {} /\ DOMAIN pending = {}
  BY <1>1 DEF Range
<1>3. NoKey \notin Nat /\ NoWindow.key = NoKey
  BY ShellAssumption DEF ShellAssumption, NoWindow
<1>4. TypeInv
  <2>1. opens \in 0..MaxOpens
    BY <1>1, ShellAssumption DEF ShellAssumption
  <2>2. /\ <<>> \in Seq(Anything) /\ <<>> \in Seq(Interactions)
        /\ focus \in Seq(Known \cup {"composer.editor"})
    BY <1>1
  <2>3. TypeOK
    BY <1>1, <2>1, <2>2 DEF TypeOK
  <2> QED BY <1>1, <2>3 DEF TypeInv
<1>5. KeysInv /\ PendingInv
  BY <1>1, <1>2, <1>3 DEF KeysInv, PendingInv, KeysDiffer, IsInjective
<1>6. FocusInv /\ CoverInv /\ WindowInv
  BY <1>1, <1>2, <1>3 DEF FocusInv, CoverInv, WindowInv, WindowUp
<1> QED BY <1>4, <1>5, <1>6 DEF IInv

(* Every step of the shell keeps the invariant.                            *)
LEMMA NextIInv == IInv /\ [Next]_vars => IInv'
<1> SUFFICES ASSUME IInv, [Next]_vars PROVE IInv'
  OBVIOUS
<1>1. CASE UNCHANGED vars
  <2>1. /\ UNCHANGED <<views, inflight, opens, pending, shown, asked, pump>>
        /\ UNCHANGED <<withdrawn, answering, armed, turn, status, crashed, happened>>
    BY <1>1 DEF vars, requests, execution
  <2>2. /\ withdrawn \subseteq asked /\ answering \subseteq asked
        /\ armed \in BOOLEAN /\ turn \in BOOLEAN /\ crashed \in BOOLEAN
        /\ status \in {"idle", "running", "completed", "interrupted"} /\ happened \subseteq Events
    BY DEF IInv, TypeInv, TypeOK
  <2> QED BY <2>1, <2>2, RestKeeps
<1>2. ASSUME NEW i \in Interactions, Ask(i) \/ Withdraw(i) \/ Responded(i) PROVE IInv'
  BY <1>2, HostKeeps
<1>3. CASE SelectSession \/ TurnChanges
  BY <1>3, HostKeeps
<1>4. CASE Submit \/ EscInterrupts \/ (\E kind \in Kinds : Command(kind))
  BY <1>4, TypingKeeps
<1>5. ASSUME NEW view \in inflight, ReplyOpensOverlay(view) \/ ReplyOpensWindow(view) PROVE IInv'
  BY <1>5, OverlayReplyKeeps, WindowReplyKeeps
<1>6. CASE CloseKey \/ EscArms \/ EnterSelects
  BY <1>6, CloseKeeps, ArmKeeps, SelectKeeps
<1> QED BY <1>1, <1>2, <1>3, <1>4, <1>5, <1>6 DEF Next, Keys

(* A key never takes another view than the top one away, and never ends    *)
(* the process, but for what the property excepts.                         *)
LEMMA KeysStep ==
    ASSUME IInv, ~crashed, Keys
    PROVE  /\ \/ Len(stack') >= Len(stack) \/ stack' = Front(stack)
              \/ happened' \cap {"covered", "late"} # {}
           /\ crashed' => happened' \cap {"late", "escAgain"} # {}
<1>1. /\ stack \in Seq(Anything) /\ KeysDiffer(stack) /\ Len(stack) \in Nat
      /\ FocusInv /\ CoverInv /\ TypeInv
  BY StackFacts DEF IInv
<1>2. CASE Submit \/ EscInterrupts
  <2>1. stack' = stack /\ (crashed' => "escAgain" \in happened')
    BY <1>2 DEF Submit, EscInterrupts, Crash, Note, views
  <2> QED BY <1>1, <2>1
<1>3. CASE CloseKey
  <2>1. PICK k : k = ToClose
    OBVIOUS
  <2>2. stack # <<>> /\ happened \subseteq happened'
    BY <1>3 DEF CloseKey, Note
  <2>3. Without("late") => OnStack(stack, k) /\ (Len(stack) <= 1 => Last(stack).key = k)
    <3> SUFFICES ASSUME Without("late")
                 PROVE  OnStack(stack, k) /\ (Len(stack) <= 1 => Last(stack).key = k)
      OBVIOUS
    <3>1. stack[1] \in Range(stack) /\ Last(stack) \in Range(stack) /\ TopKey(stack) = Last(stack).key
      BY <2>2, StackFacts
    <3>2. CASE active # NoView
      <4>1. stack[1] = active /\ k = active.key
        BY <1>1, <2>1, <3>2 DEF FocusInv, ToClose
      <4>2. Len(stack) <= 1 => Last(stack) = stack[1]
        BY <2>2, StackFacts DEF Last
      <4> QED BY <3>1, <4>1, <4>2 DEF OnStack
    <3>3. CASE active = NoView
      <4>1. k = Last(stack).key
        BY <2>1, <3>1, <3>3 DEF ToClose
      <4> QED BY <3>1, <4>1 DEF OnStack
    <3> QED BY <3>2, <3>3
  <2>4. CASE CloseThrows
    <3>1. stack' = stack
      BY <1>3, <2>4 DEF CloseKey, Crash, views
    <3>2. "late" \in happened'
      BY <2>1, <2>2, <2>3, <2>4 DEF CloseThrows, Without
    <3> QED BY <3>2
  <2>5. CASE ~CloseThrows
    <3>1. stack' = Closed(stack, k) /\ crashed' = FALSE
      BY <1>3, <2>1, <2>5 DEF CloseKey
    <3>2. ASSUME happened' \cap {"covered", "late"} = {} PROVE stack' = Front(stack)
      <4>1. Len(stack) <= 1 /\ Without("late")
        BY <1>1, <2>2, <3>2 DEF CoverInv, Without
      <4>2. Last(stack).key = k
        BY <2>3, <4>1
      <4>3. Closed(stack, k) = Front(stack)
        BY <1>1, <2>2, <4>2, ClosedView
      <4> QED BY <3>1, <4>3
    <3> QED BY <3>1, <3>2
  <2> QED BY <2>4, <2>5
<1>4. CASE EscArms
  <2>1. stack = <<>> /\ crashed' = crashed /\ (stack' = stack \/ Len(stack') = 1)
    <3>1. Len(<<View("selector.fork-history", opens)>>) = 1
      OBVIOUS
    <3> QED BY <1>4, <3>1 DEF EscArms
  <2>2. Len(stack) = 0
    BY <2>1
  <2> QED BY <1>1, <2>1, <2>2
<1>5. CASE EnterSelects
  BY <1>5 DEF EnterSelects
<1> QED BY <1>2, <1>3, <1>4, <1>5 DEF Keys

(* The invariant holds throughout.                                         *)
LEMMA InvariantHolds == Spec => []IInv
BY InitIInv, NextIInv, PTL DEF Spec

(* Every variable of the shell keeps its type, for every set of            *)
(* interactions and every bound.                                           *)
THEOREM ShellTyped == Spec => []TypeOK
BY InvariantHolds, IInvImplies, PTL

(* Closing an overlay gives the focus back to its previous owner: the      *)
(* focus stack is the composer and the view of activeOverlayKey, which is  *)
(* on the overlay stack, until a command's reply comes over another view.  *)
THEOREM FocusIsRestored == Spec => []FocusRestored
BY InvariantHolds, IInvImplies, PTL

(* As long as the user dismisses no window, the Host accepts the responses *)
(* and supports its own questions, and no reply comes late, the first      *)
(* pending interaction has its window on the stack or its response under   *)
(* way, and the pump lives.                                                *)
THEOREM HeadIsShown == Spec => []HeadShown
BY InvariantHolds, IInvImplies, PTL

(* No key takes a view from under another one, or ends the process, before *)
(* something has opened over a view, a reply has come late, or Esc has     *)
(* been repeated after an interrupt.                                       *)
THEOREM KeysActOnTheTop == Spec => KeysActOnTop
<1>1. IInv /\ [Next]_vars =>
        [Keys => /\ \/ Len(stack') >= Len(stack) \/ stack' = Front(stack)
                    \/ happened' \cap {"covered", "late"} # {}
                 /\ crashed' => happened' \cap {"late", "escAgain"} # {}]_vars
  BY KeysStep DEF Next
<1> QED BY <1>1, InvariantHolds, PTL DEF Spec, KeysActOnTop
=============================================================================
