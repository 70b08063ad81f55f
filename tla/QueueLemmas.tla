----------------------------- MODULE QueueLemmas -----------------------------
(***************************************************************************)
(* Facts about queues: sequences without repetition, which grow at either  *)
(* end, lose their head, one element or a prefix, and are concatenated;    *)
(* and about the least and the greatest of a set of natural numbers.       *)
(* The proofs about the components cite them by name.                      *)
(***************************************************************************)
EXTENDS Integers, Sequences, SequencesExt, SequenceTheorems,
        WellFoundedInduction, TLAPS

(* Appending to a queue adds one element to its range.                     *)
LEMMA AppendQueue ==
    ASSUME NEW S, NEW q \in Seq(S), NEW e \in S
    PROVE  /\ Append(q, e) \in Seq(S)
           /\ Range(Append(q, e)) = Range(q) \cup {e}
           /\ IsInjective(q) /\ e \notin Range(q) => IsInjective(Append(q, e))
<1> DEFINE a == Append(q, e)
<1>1. /\ a \in Seq(S) /\ Len(a) = Len(q) + 1 /\ a[Len(a)] = e
      /\ \A i \in 1..Len(q) : a[i] = q[i]
  BY AppendProperties
<1>2. /\ DOMAIN q = 1..Len(q) /\ DOMAIN a = 1..(Len(q) + 1) /\ Len(q) \in Nat
  BY <1>1, LenProperties
<1>3. Range(a) = Range(q) \cup {e}
  <2>1. \A i \in DOMAIN a : a[i] \in Range(q) \cup {e}
    BY <1>1, <1>2 DEF Range
  <2>2. e \in Range(a)
    BY <1>1, <1>2 DEF Range
  <2>3. \A i \in DOMAIN q : q[i] \in Range(a)
    BY <1>1, <1>2 DEF Range
  <2> QED BY <2>1, <2>2, <2>3 DEF Range
<1>4. ASSUME IsInjective(q), e \notin Range(q)
      PROVE  IsInjective(a)
  <2>1. \A i \in 1..Len(q) : q[i] # e
    BY <1>2, <1>4 DEF Range
  <2> QED BY <1>1, <1>2, <1>4, <2>1 DEF IsInjective
<1> QED BY <1>1, <1>3, <1>4

(* Putting an element in front adds it to the range.                       *)
LEMMA RequeueAtHead ==
    ASSUME NEW S, NEW q \in Seq(S), NEW e \in S
    PROVE  /\ <<e>> \o q \in Seq(S)
           /\ Range(<<e>> \o q) = Range(q) \cup {e}
           /\ IsInjective(q) /\ e \notin Range(q) => IsInjective(<<e>> \o q)
<1> DEFINE a == <<e>> \o q
<1>0. <<e>> \in Seq(S) /\ Len(<<e>>) = 1 /\ <<e>>[1] = e
  OBVIOUS
<1>1. /\ a \in Seq(S) /\ Len(a) = Len(q) + 1
      /\ \A i \in 1..(Len(q) + 1) : a[i] = IF i <= 1 THEN <<e>>[i] ELSE q[i - 1]
  BY <1>0, ConcatProperties, LenProperties
<1>2. /\ DOMAIN q = 1..Len(q) /\ DOMAIN a = 1..(Len(q) + 1) /\ Len(q) \in Nat
  BY <1>1, LenProperties
<1>3. Range(a) = Range(q) \cup {e}
  <2>1. \A i \in DOMAIN a : a[i] \in Range(q) \cup {e}
    BY <1>0, <1>1, <1>2 DEF Range
  <2>2. e \in Range(a)
    BY <1>0, <1>1, <1>2 DEF Range
  <2>3. \A i \in DOMAIN q : q[i] \in Range(a)
    <3>1. \A i \in DOMAIN q : i + 1 \in DOMAIN a /\ a[i + 1] = q[i]
      BY <1>0, <1>1, <1>2
    <3> QED BY <3>1 DEF Range
  <2> QED BY <2>1, <2>2, <2>3 DEF Range
<1>4. ASSUME IsInjective(q), e \notin Range(q)
      PROVE  IsInjective(a)
  <2>1. \A i \in 1..Len(q) : q[i] # e
    BY <1>2, <1>4 DEF Range
  <2>2. ASSUME NEW i \in 1..(Len(q) + 1), NEW j \in 1..(Len(q) + 1), a[i] = a[j]
        PROVE  i = j
    <3>1. CASE i = 1 /\ j = 1
      BY <3>1
    <3>2. CASE i = 1 /\ j > 1
      BY <1>0, <1>1, <1>2, <2>1, <2>2, <3>2
    <3>3. CASE i > 1 /\ j = 1
      BY <1>0, <1>1, <1>2, <2>1, <2>2, <3>3
    <3>4. CASE i > 1 /\ j > 1
      <4>1. /\ i - 1 \in DOMAIN q /\ j - 1 \in DOMAIN q
            /\ q[i - 1] = q[j - 1]
        BY <1>1, <1>2, <2>2, <3>4
      <4> QED BY <1>4, <4>1, <1>2 DEF IsInjective
    <3> QED BY <3>1, <3>2, <3>3, <3>4, <1>2
  <2> QED BY <1>2, <2>2 DEF IsInjective
<1> QED BY <1>1, <1>3, <1>4

(* Taking the head off a queue without repetition removes it.              *)
LEMMA ShiftQueue ==
    ASSUME NEW S, NEW q \in Seq(S), q # <<>>
    PROVE  /\ Head(q) \in S /\ Head(q) \in Range(q) /\ Tail(q) \in Seq(S)
           /\ IsInjective(q) => /\ IsInjective(Tail(q))
                               /\ Range(Tail(q)) = Range(q) \ {Head(q)}
<1> DEFINE t == Tail(q)
<1>1. /\ Head(q) \in S /\ t \in Seq(S) /\ Len(t) = Len(q) - 1
      /\ \A i \in 1..Len(t) : t[i] = q[i + 1]
  BY HeadTailProperties
<1>2. Head(q) = q[1]
  OBVIOUS
<1>3. /\ DOMAIN q = 1..Len(q) /\ DOMAIN t = 1..(Len(q) - 1)
      /\ Len(q) \in Nat \ {0}
  BY <1>1, LenProperties, EmptySeq
<1>4. Head(q) \in Range(q)
  BY <1>2, <1>3 DEF Range
<1>5. ASSUME IsInjective(q)
      PROVE  IsInjective(t) /\ Range(t) = Range(q) \ {Head(q)}
  <2>1. IsInjective(t)
    <3> SUFFICES ASSUME NEW i \in DOMAIN t, NEW j \in DOMAIN t, t[i] = t[j]
                 PROVE  i = j
      BY DEF IsInjective
    <3>1. i + 1 \in DOMAIN q /\ j + 1 \in DOMAIN q /\ q[i + 1] = q[j + 1]
      BY <1>1, <1>3
    <3> QED BY <1>3, <1>5, <3>1 DEF IsInjective
  <2>2. \A i \in DOMAIN t : t[i] \in Range(q) \ {Head(q)}
    <3> SUFFICES ASSUME NEW i \in DOMAIN t
                 PROVE  t[i] \in Range(q) /\ t[i] # q[1]
      BY <1>2
    <3>1. i + 1 \in DOMAIN q /\ 1 \in DOMAIN q /\ i + 1 # 1 /\ t[i] = q[i + 1]
      BY <1>1, <1>3
    <3> QED BY <1>5, <3>1 DEF IsInjective, Range
  <2>3. \A j \in DOMAIN q : j # 1 => q[j] \in Range(t)
    <3> SUFFICES ASSUME NEW j \in DOMAIN q, j # 1
                 PROVE  q[j] \in Range(t)
      OBVIOUS
    <3>1. j - 1 \in DOMAIN t /\ t[j - 1] = q[j]
      BY <1>1, <1>3
    <3> QED BY <3>1 DEF Range
  <2> QED BY <1>2, <2>1, <2>2, <2>3 DEF Range
<1> QED BY <1>1, <1>4, <1>5

(* A prefix and the rest of a queue are queues that share no element.      *)
LEMMA SplitQueue ==
    ASSUME NEW S, NEW q \in Seq(S), IsInjective(q), NEW k \in 0..Len(q)
    PROVE  LET p == SubSeq(q, 1, k)
               t == SubSeq(q, k + 1, Len(q))
           IN  /\ p \in Seq(S) /\ Len(p) = k /\ IsInjective(p)
               /\ t \in Seq(S) /\ Len(t) = Len(q) - k /\ IsInjective(t)
               /\ Range(p) = {q[i] : i \in 1..k}
               /\ Range(t) = Range(q) \ Range(p)
<1> DEFINE n == Len(q)
           p == SubSeq(q, 1, k)
           t == SubSeq(q, k + 1, n)
<1>0. /\ n \in Nat /\ k \in Nat /\ k <= n /\ DOMAIN q = 1..n
      /\ \A i \in 1..n : q[i] \in S
  BY LenProperties, ElementOfSeq
<1>1. /\ p \in Seq(S) /\ Len(p) = k /\ \A i \in 1..k : p[i] = q[i]
  BY <1>0, SubSeqProperties
<1>2. /\ t \in Seq(S) /\ Len(t) = n - k /\ \A i \in 1..(n - k) : t[i] = q[k + i]
  <2>1. \A i \in (k + 1)..n : q[i] \in S
    BY <1>0
  <2>2. k + 1 \in Int /\ n \in Int /\ n - (k + 1) + 1 = n - k
    BY <1>0
  <2>3. /\ t \in Seq(S)
        /\ Len(t) = IF k + 1 <= n THEN n - (k + 1) + 1 ELSE 0
        /\ \A i \in 1..(n - (k + 1) + 1) : t[i] = q[(k + 1) + i - 1]
    BY <2>1, <2>2, SubSeqProperties
  <2> HIDE DEF t, n
  <2>4. Len(t) = n - k
    <3>1. CASE k + 1 <= n
      BY <2>2, <2>3, <3>1
    <3>2. CASE ~ (k + 1 <= n)
      BY <1>0, <2>3, <3>2
    <3> QED BY <3>1, <3>2
  <2>5. ASSUME NEW i \in 1..(n - k)
        PROVE  t[i] = q[k + i]
    <3>1. i \in 1..(n - (k + 1) + 1) /\ (k + 1) + i - 1 = k + i
      BY <1>0
    <3> QED BY <2>3, <3>1
  <2> QED BY <2>3, <2>4, <2>5
<1>3. DOMAIN p = 1..k /\ DOMAIN t = 1..(n - k)
  BY <1>1, <1>2, LenProperties
<1> HIDE DEF n, p, t
<1>4. IsInjective(p) /\ IsInjective(t)
  <2>1. ASSUME NEW i \in 1..(n - k), NEW j \in 1..(n - k), t[i] = t[j]
        PROVE  i = j
    <3>1. k + i \in DOMAIN q /\ k + j \in DOMAIN q /\ q[k + i] = q[k + j]
      BY <1>0, <1>2, <2>1
    <3>2. k + i = k + j
      BY <3>1 DEF IsInjective
    <3> QED BY <1>0, <3>2
  <2> QED BY <1>0, <1>1, <1>3, <2>1 DEF IsInjective
<1>5. Range(p) = {q[i] : i \in 1..k}
  BY <1>1, <1>3 DEF Range
<1>6. \A i \in DOMAIN t : t[i] \in Range(q) /\ t[i] \notin Range(p)
  <2> SUFFICES ASSUME NEW i \in DOMAIN t
               PROVE  t[i] \in Range(q) /\ t[i] \notin Range(p)
    OBVIOUS
  <2>1. k + i \in DOMAIN q /\ t[i] = q[k + i] /\ k + i > k
    BY <1>0, <1>2, <1>3
  <2>2. \A j \in 1..k : j \in DOMAIN q /\ j # k + i
    BY <1>0, <2>1
  <2> QED BY <1>5, <2>1, <2>2 DEF IsInjective, Range
<1>7. \A x \in Range(q) : x \notin Range(p) => x \in Range(t)
  <2> SUFFICES ASSUME NEW j \in DOMAIN q, q[j] \notin Range(p)
               PROVE  q[j] \in Range(t)
    BY DEF Range
  <2>1. j > k
    BY <1>0, <1>5
  <2>2. j - k \in DOMAIN t /\ t[j - k] = q[j]
    BY <1>0, <1>2, <1>3, <2>1
  <2> QED BY <2>2 DEF Range
<1>8. Range(t) = Range(q) \ Range(p)
  BY <1>6, <1>7 DEF Range
<1> QED BY <1>1, <1>2, <1>4, <1>5, <1>8 DEF n, p, t

(* Two queues that share no element make one queue.                        *)
LEMMA JoinQueues ==
    ASSUME NEW S, NEW q \in Seq(S), NEW r \in Seq(S)
    PROVE  /\ q \o r \in Seq(S) /\ Len(q \o r) = Len(q) + Len(r)
           /\ Range(q \o r) = Range(q) \cup Range(r)
           /\ (/\ IsInjective(q) /\ IsInjective(r)
               /\ Range(q) \cap Range(r) = {})
              => IsInjective(q \o r)
<1> DEFINE a == q \o r
           m == Len(q)
           n == Len(r)
<1>0. /\ m \in Nat /\ n \in Nat /\ DOMAIN q = 1..m /\ DOMAIN r = 1..n
  BY LenProperties
<1>1. /\ a \in Seq(S) /\ Len(a) = m + n
      /\ \A i \in 1..(m + n) : a[i] = IF i <= m THEN q[i] ELSE r[i - m]
  BY ConcatProperties
<1>2. DOMAIN a = 1..(m + n)
  BY <1>1, LenProperties
<1>3. Range(a) = Range(q) \cup Range(r)
  BY RangeConcatenation
<1> HIDE DEF a, m, n
<1>4. ASSUME IsInjective(q), IsInjective(r), Range(q) \cap Range(r) = {},
             NEW i \in 1..(m + n), NEW j \in 1..(m + n), a[i] = a[j]
      PROVE  i = j
  <2>1. CASE i <= m /\ j <= m
    <3>1. i \in DOMAIN q /\ j \in DOMAIN q /\ q[i] = q[j]
      BY <1>0, <1>1, <1>4, <2>1
    <3> QED BY <1>4, <3>1 DEF IsInjective
  <2>2. CASE i > m /\ j > m
    <3>1. i - m \in DOMAIN r /\ j - m \in DOMAIN r /\ r[i - m] = r[j - m]
      BY <1>0, <1>1, <1>4, <2>2
    <3>2. i - m = j - m
      BY <1>4, <3>1 DEF IsInjective
    <3> QED BY <1>0, <3>2
  <2>3. CASE i <= m /\ j > m
    <3>1. i \in DOMAIN q /\ j - m \in DOMAIN r /\ q[i] = r[j - m]
      BY <1>0, <1>1, <1>4, <2>3
    <3> QED BY <1>4, <3>1 DEF Range
  <2>4. CASE i > m /\ j <= m
    <3>1. j \in DOMAIN q /\ i - m \in DOMAIN r /\ q[j] = r[i - m]
      BY <1>0, <1>1, <1>4, <2>4
    <3> QED BY <1>4, <3>1 DEF Range
  <2> QED BY <1>0, <2>1, <2>2, <2>3, <2>4
<1> QED BY <1>1, <1>2, <1>3, <1>4 DEF IsInjective, a, m, n

(* Taking one element out of a queue.                                      *)
LEMMA RemoveFromQueue ==
    ASSUME NEW S, NEW q \in Seq(S), IsInjective(q), NEW i \in DOMAIN q
    PROVE  /\ RemoveAt(q, i) \in Seq(S) /\ Len(RemoveAt(q, i)) = Len(q) - 1
           /\ IsInjective(RemoveAt(q, i))
           /\ Range(RemoveAt(q, i)) = Range(q) \ {q[i]}
<1> DEFINE n == Len(q)
           p == SubSeq(q, 1, i - 1)
           t == SubSeq(q, i + 1, n)
<1>0. /\ n \in Nat /\ DOMAIN q = 1..n /\ i \in 1..n
      /\ i - 1 \in 0..n /\ (i - 1) + 1 = i
  BY LenProperties
<1>1. /\ p \in Seq(S) /\ Len(p) = i - 1 /\ IsInjective(p)
      /\ Range(p) = {q[j] : j \in 1..(i - 1)}
  <2>1. i - 1 \in 0..Len(q)
    BY <1>0
  <2> DEFINE k == i - 1
  <2> HIDE DEF n, k
  <2>2. /\ SubSeq(q, 1, k) \in Seq(S) /\ Len(SubSeq(q, 1, k)) = k
        /\ IsInjective(SubSeq(q, 1, k))
        /\ Range(SubSeq(q, 1, k)) = {q[j] : j \in 1..k}
    BY <2>1, SplitQueue DEF k
  <2> QED BY <2>2 DEF k
<1>2. /\ t \in Seq(S) /\ Len(t) = n - i /\ IsInjective(t)
      /\ Range(SubSeq(q, 1, i)) = {q[j] : j \in 1..i}
      /\ Range(t) = Range(q) \ Range(SubSeq(q, 1, i))
  <2>1. i \in 0..Len(q)
    BY <1>0
  <2> HIDE DEF n
  <2>2. /\ SubSeq(q, i + 1, Len(q)) \in Seq(S)
        /\ Len(SubSeq(q, i + 1, Len(q))) = Len(q) - i
        /\ IsInjective(SubSeq(q, i + 1, Len(q)))
        /\ Range(SubSeq(q, 1, i)) = {q[j] : j \in 1..i}
        /\ Range(SubSeq(q, i + 1, Len(q))) = Range(q) \ Range(SubSeq(q, 1, i))
    BY <2>1, SplitQueue
  <2> QED BY <2>2 DEF n
<1> HIDE DEF p, t
<1>3. Range(t) = Range(q) \ {q[j] : j \in 1..i}
  BY <1>2
<1>4. \A j \in 1..(i - 1) : j \in DOMAIN q /\ j # i /\ j \in 1..i
  BY <1>0
<1>5. \A j \in 1..i : j = i \/ j \in 1..(i - 1)
  BY <1>0
<1>6. Range(p) \cup Range(t) = Range(q) \ {q[i]}
  <2>1. \A x \in Range(p) : x \in Range(q) /\ x # q[i]
    BY <1>1, <1>4 DEF IsInjective, Range
  <2>2. \A x \in Range(t) : x \in Range(q) /\ x # q[i]
    BY <1>0, <1>3
  <2>3. \A x \in Range(q) : x # q[i] => x \in Range(p) \/ x \in Range(t)
    BY <1>1, <1>3, <1>5
  <2> QED BY <2>1, <2>2, <2>3
<1>7. Range(p) \cap Range(t) = {}
  BY <1>1, <1>3, <1>4
<1>8. RemoveAt(q, i) = p \o t
  BY DEF RemoveAt, p, t
<1>9. (i - 1) + (n - i) = n - 1
  BY <1>0
<1>10. /\ p \o t \in Seq(S) /\ Len(p \o t) = Len(p) + Len(t)
       /\ Range(p \o t) = Range(p) \cup Range(t)
       /\ IsInjective(p \o t)
  BY <1>1, <1>2, <1>7, JoinQueues
<1>11. Len(p \o t) = Len(q) - 1
  BY <1>1, <1>2, <1>9, <1>10
<1> QED BY <1>6, <1>8, <1>10, <1>11

(* A set of natural numbers has a least element, since < is well-founded.  *)
LEMMA LeastNat ==
  ASSUME NEW T \in SUBSET Nat, T # {}
  PROVE  \E x \in T : \A y \in T : x <= y
<1>1. PICK x \in T : \A y \in T : ~ (<<y, x>> \in OpToRel(<, Nat))
  BY NatLessThanWellFounded, WFMin
<1>2. \A y \in T : ~(y < x)
  BY <1>1 DEF OpToRel
<1> QED BY <1>2

(* Min of a set of natural numbers is its least element.                    *)
LEMMA MinOfNats ==
  ASSUME NEW T \in SUBSET Nat, T # {}
  PROVE  Min(T) \in T /\ \A y \in T : Min(T) <= y
BY LeastNat DEF Min

(* Max of a bounded set of natural numbers is its greatest element.         *)
LEMMA MaxOfNats ==
  ASSUME NEW n \in Nat, NEW T \in SUBSET (0..n), T # {}
  PROVE  Max(T) \in T /\ \A y \in T : y <= Max(T)
<1> DEFINE U == {n - y : y \in T}
<1>0. \A y \in T : y \in Nat /\ n - y \in Nat
  OBVIOUS
<1>1. U \in SUBSET Nat /\ U # {}
  BY <1>0
<1>2. PICK u \in U : \A y \in U : u <= y
  BY <1>1, LeastNat
<1>3. PICK x \in T : u = n - x
  BY <1>2
<1>4. ASSUME NEW y \in T
      PROVE  x >= y
  <2>1. n - y \in U
    OBVIOUS
  <2>2. n - x <= n - y
    BY <1>2, <1>3, <2>1
  <2> QED BY <1>0, <2>2
<1>5. Max(T) \in T /\ \A y \in T : Max(T) >= y
  BY <1>3, <1>4 DEF Max
<1>6. T \subseteq Nat
  OBVIOUS
<1> QED BY <1>5, <1>6

(* What is left of a sequence when one element goes, place by place.       *)
LEMMA RemovedAt ==
    ASSUME NEW S, NEW s \in Seq(S), NEW i \in DOMAIN s
    PROVE  /\ RemoveAt(s, i) \in Seq(S) /\ Len(RemoveAt(s, i)) = Len(s) - 1
           /\ DOMAIN RemoveAt(s, i) = 1..(Len(s) - 1)
           /\ \A j \in 1..(Len(s) - 1) :
                 RemoveAt(s, i)[j] = IF j < i THEN s[j] ELSE s[j + 1]
<1> DEFINE n == Len(s)
           p == SubSeq(s, 1, i - 1)
           t == SubSeq(s, i + 1, n)
<1>0. /\ n \in Nat /\ DOMAIN s = 1..n /\ i \in 1..n /\ \A j \in 1..n : s[j] \in S
  BY LenProperties, ElementOfSeq
<1>1. /\ p \in Seq(S) /\ Len(p) = i - 1 /\ \A j \in 1..(i - 1) : p[j] = s[j]
  <2>1. i - 1 \in Int /\ 1 \in Int /\ \A j \in 1..(i - 1) : s[j] \in S
    BY <1>0
  <2> DEFINE m == i - 1
  <2>2. /\ SubSeq(s, 1, m) \in Seq(S)
        /\ Len(SubSeq(s, 1, m)) = IF 1 <= m THEN m - 1 + 1 ELSE 0
        /\ \A j \in 1..(m - 1 + 1) : SubSeq(s, 1, m)[j] = s[1 + j - 1]
    BY <2>1, SubSeqProperties
  <2> HIDE DEF p
  <2>3. Len(p) = i - 1
    BY <1>0, <2>2 DEF p
  <2>4. ASSUME NEW j \in 1..(i - 1) PROVE p[j] = s[j]
    <3>1. j \in 1..(m - 1 + 1) /\ 1 + j - 1 = j
      BY <1>0
    <3> QED BY <2>2, <3>1 DEF p
  <2> QED BY <2>2, <2>3, <2>4 DEF p
<1>2. /\ t \in Seq(S) /\ Len(t) = n - i /\ \A j \in 1..(n - i) : t[j] = s[i + j]
  <2>1. i + 1 \in Int /\ n \in Int /\ \A j \in (i + 1)..n : s[j] \in S
    BY <1>0
  <2> DEFINE m == i + 1
  <2>2. /\ SubSeq(s, m, n) \in Seq(S)
        /\ Len(SubSeq(s, m, n)) = IF m <= n THEN n - m + 1 ELSE 0
        /\ \A j \in 1..(n - m + 1) : SubSeq(s, m, n)[j] = s[m + j - 1]
    BY <2>1, SubSeqProperties
  <2> HIDE DEF t, n
  <2>3. Len(t) = n - i
    BY <1>0, <2>2 DEF t
  <2>4. ASSUME NEW j \in 1..(n - i) PROVE t[j] = s[i + j]
    <3>1. j \in 1..(n - m + 1) /\ m + j - 1 = i + j
      BY <1>0
    <3> QED BY <2>2, <3>1 DEF t
  <2> QED BY <2>2, <2>3, <2>4 DEF t
<1>3. RemoveAt(s, i) = p \o t
  BY DEF RemoveAt
<1> HIDE DEF p, t
<1>4. /\ p \o t \in Seq(S) /\ Len(p \o t) = Len(p) + Len(t)
      /\ \A j \in 1..(Len(p) + Len(t)) :
            (p \o t)[j] = IF j <= Len(p) THEN p[j] ELSE t[j - Len(p)]
  BY <1>1, <1>2, ConcatProperties
<1> DEFINE r == p \o t
<1> HIDE DEF r, n
<1>5. Len(r) = n - 1 /\ DOMAIN r = 1..(n - 1)
  BY <1>0, <1>1, <1>2, <1>4, LenProperties DEF r
<1>6. ASSUME NEW j \in 1..(n - 1)
      PROVE  r[j] = IF j < i THEN s[j] ELSE s[j + 1]
  <2>1. CASE j < i
    BY <1>0, <1>1, <1>2, <1>4, <2>1 DEF r
  <2>2. CASE ~(j < i)
    <3>1. j - (i - 1) \in 1..(n - i) /\ i + (j - (i - 1)) = j + 1
      BY <1>0, <2>2
    <3>2. r[j] = t[j - (i - 1)]
      BY <1>0, <1>1, <1>2, <1>4, <2>2 DEF r
    <3> QED BY <1>2, <2>2, <3>1, <3>2
  <2> QED BY <2>1, <2>2
<1> QED BY <1>3, <1>4, <1>5, <1>6 DEF r, n

(* A sequence without its last element.                                    *)
LEMMA FrontOf ==
    ASSUME NEW S, NEW s \in Seq(S), s # <<>>
    PROVE  /\ Front(s) \in Seq(S) /\ Len(Front(s)) = Len(s) - 1
           /\ DOMAIN Front(s) = 1..(Len(s) - 1)
           /\ \A j \in 1..(Len(s) - 1) : Front(s)[j] = s[j]
           /\ Last(s) \in S /\ Last(s) \in Range(s)
<1>1. /\ Len(s) \in Nat \ {0} /\ DOMAIN s = 1..Len(s)
      /\ \A j \in 1..Len(s) : s[j] \in S
  BY LenProperties, EmptySeq, ElementOfSeq
<1> DEFINE m == Len(s) - 1
<1>2. m \in Int /\ 1 \in Int /\ \A j \in 1..m : s[j] \in S
  BY <1>1
<1>3. /\ SubSeq(s, 1, m) \in Seq(S)
      /\ Len(SubSeq(s, 1, m)) = IF 1 <= m THEN m - 1 + 1 ELSE 0
      /\ \A j \in 1..(m - 1 + 1) : SubSeq(s, 1, m)[j] = s[1 + j - 1]
  BY <1>2, SubSeqProperties
<1> DEFINE f == SubSeq(s, 1, m)
<1>4. Front(s) = f
  BY DEF Front
<1> HIDE DEF f, m
<1>5. Len(f) = m /\ m \in Nat /\ m = Len(s) - 1
  BY <1>1, <1>3 DEF f, m
<1>6. ASSUME NEW j \in 1..m PROVE f[j] = s[j]
  <2>1. j \in 1..(m - 1 + 1) /\ 1 + j - 1 = j
    BY <1>5
  <2> QED BY <1>3, <2>1 DEF f
<1>7. DOMAIN f = 1..m
  BY <1>3, <1>5, LenProperties DEF f
<1>8. Last(s) \in S /\ Last(s) \in Range(s)
  BY <1>1 DEF Last, Range
<1> QED BY <1>3, <1>4, <1>5, <1>6, <1>7, <1>8 DEF f
=============================================================================
