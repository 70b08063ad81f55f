---------------------------- MODULE HistoryProofs ----------------------------
(***************************************************************************)
(* Proofs about History: what its operators on sets of entries do, the     *)
(* inductive invariant, and the properties that follow from it.            *)
(***************************************************************************)
EXTENDS History, QueueLemmas, FiniteSetTheorems

Numbers == 0..(MaxChunks + MaxMessages)

\* Entries that show chunks among the first n.
EntriesOf(n) == [seq : Numbers, shows : (SUBSET (1..n)) \ {{}}]

\* The entries a Host that numbers its events makes of n chunks.
Singles(n) == {[seq |-> i - 1, shows |-> {i}] : i \in 1..n}

\* A set of entries that a Host h which has said n chunks can have told.
IsHistory(es, h, n) ==
    /\ es \subseteq EntriesOf(n)
    /\ \A d, e \in es : d.seq = e.seq => d = e
    /\ h = "sequenced" => es \subseteq Singles(n)

Contiguous(es) == \A a, b \in Seqs(es) : a..b \subseteq Seqs(es)
Disjoint(es) == \A d, e \in es : d # e => d.shows \cap e.shows = {}

-----------------------------------------------------------------------------
(* The operators.                                                          *)

(* The first and the last number of a set of entries.                      *)
LEMMA FirstAndLast ==
    ASSUME NEW es, \A e \in es : e.seq \in Numbers
    PROVE  /\ es = {} => FirstSeqOf(es) = -1 /\ LastSeqOf(es) = -1 /\ Seqs(es) = {}
           /\ es # {} => /\ FirstSeqOf(es) \in Seqs(es) /\ LastSeqOf(es) \in Seqs(es)
                         /\ FirstSeqOf(es) \in Nat /\ LastSeqOf(es) \in Nat
           /\ \A s \in Seqs(es) : FirstSeqOf(es) <= s /\ s <= LastSeqOf(es)
           /\ FirstSeqOf(es) \in Int /\ LastSeqOf(es) \in Int
           /\ -1 <= FirstSeqOf(es) /\ FirstSeqOf(es) <= LastSeqOf(es)
           /\ Seqs(es) \subseteq Nat
<1> DEFINE S == Seqs(es)
           top == MaxChunks + MaxMessages
<1>1. S \subseteq 0..top /\ top \in Nat
  BY HistoryAssumption DEF Seqs, Numbers
<1>2. CASE es = {}
  <2>1. S = {} /\ S \cup {-1} = {-1}
    BY <1>2 DEF Seqs
  <2>2. Max({-1}) = -1
    BY DEF Max
  <2>3. LastSeqOf(es) = -1 /\ FirstSeqOf(es) = -1
    BY <1>2, <2>1, <2>2 DEF LastSeqOf, FirstSeqOf
  <2> QED BY <1>2, <2>1, <2>3
<1>3. CASE es # {}
  <2>1. S # {}
    BY <1>3 DEF Seqs
  <2> DEFINE lo == Min(S)
             hi == Max(S)
  <2>2. lo \in S /\ \A s \in S : lo <= s
    <3> HIDE DEF S
    <3> QED BY <1>1, <2>1, MinOfNats
  <2>3. hi \in S /\ \A s \in S : s <= hi
    <3> HIDE DEF S, top
    <3> QED BY <1>1, <2>1, MaxOfNats
  <2>4. Max(S \cup {-1}) = hi
    <3> DEFINE m == Max(S \cup {-1})
    <3>1. hi \in S \cup {-1} /\ \A y \in S \cup {-1} : hi >= y
      <4> HIDE DEF S, hi
      <4> QED BY <1>1, <2>3
    <3>2. m \in S \cup {-1} /\ \A y \in S \cup {-1} : m >= y
      <4> HIDE DEF S, hi
      <4> QED BY <3>1 DEF Max
    <3> HIDE DEF S, m, hi
    <3>3. m >= hi /\ hi >= m /\ m \in Int /\ hi \in Int
      BY <1>1, <3>1, <3>2
    <3>4. m = hi
      BY <3>3
    <3> QED BY <3>4 DEF m
  <2>5. FirstSeqOf(es) = lo /\ LastSeqOf(es) = hi
    BY <1>3, <2>4 DEF FirstSeqOf, LastSeqOf
  <2> HIDE DEF S, lo, hi
  <2>6. lo \in Nat /\ hi \in Nat /\ lo <= hi
    BY <1>1, <2>2, <2>3
  <2> QED BY <1>1, <1>3, <2>2, <2>3, <2>5, <2>6 DEF S
<1> QED BY <1>2, <1>3

(* The numbers of a set of entries without a gap.                          *)
LEMMA Interval ==
    ASSUME NEW es, \A e \in es : e.seq \in Numbers
    PROVE  /\ Contiguous(es) /\ es # {} => Seqs(es) = FirstSeqOf(es)..LastSeqOf(es)
           /\ \A a \in Nat, b \in Int : Seqs(es) = a..b =>
                 /\ Contiguous(es)
                 /\ a <= b => es # {} /\ FirstSeqOf(es) = a /\ LastSeqOf(es) = b
                 /\ b < a => es = {} /\ FirstSeqOf(es) = -1 /\ LastSeqOf(es) = -1
<1>1. /\ es = {} => FirstSeqOf(es) = -1 /\ LastSeqOf(es) = -1 /\ Seqs(es) = {}
      /\ es # {} => FirstSeqOf(es) \in Seqs(es) /\ LastSeqOf(es) \in Seqs(es)
      /\ \A s \in Seqs(es) : FirstSeqOf(es) <= s /\ s <= LastSeqOf(es)
      /\ FirstSeqOf(es) \in Int /\ LastSeqOf(es) \in Int /\ Seqs(es) \subseteq Nat
  BY FirstAndLast
<1>2. es # {} => Seqs(es) # {}
  BY DEF Seqs
<1>3. ASSUME Contiguous(es), es # {}
      PROVE  Seqs(es) = FirstSeqOf(es)..LastSeqOf(es)
  <2>1. FirstSeqOf(es)..LastSeqOf(es) \subseteq Seqs(es)
    BY <1>1, <1>3 DEF Contiguous
  <2>2. \A s \in Seqs(es) : s \in FirstSeqOf(es)..LastSeqOf(es)
    BY <1>1
  <2> QED BY <2>1, <2>2
<1>4. ASSUME NEW a \in Nat, NEW b \in Int, Seqs(es) = a..b
      PROVE  /\ Contiguous(es)
             /\ a <= b => es # {} /\ FirstSeqOf(es) = a /\ LastSeqOf(es) = b
             /\ b < a => es = {} /\ FirstSeqOf(es) = -1 /\ LastSeqOf(es) = -1
  <2>1. Contiguous(es)
    BY <1>4 DEF Contiguous
  <2>2. ASSUME a <= b PROVE es # {} /\ FirstSeqOf(es) = a /\ LastSeqOf(es) = b
    <3>1. a \in Seqs(es) /\ b \in Seqs(es)
      BY <1>4, <2>2
    <3>2. es # {}
      BY <1>1, <3>1
    <3>3. FirstSeqOf(es) \in a..b /\ LastSeqOf(es) \in a..b
      BY <1>1, <1>4, <3>2
    <3>4. FirstSeqOf(es) <= a /\ b <= LastSeqOf(es)
      BY <1>1, <3>1
    <3> QED BY <3>2, <3>3, <3>4
  <2>3. ASSUME b < a PROVE es = {}
    BY <1>2, <1>4, <2>3
  <2> QED BY <1>1, <2>1, <2>2, <2>3
<1> QED BY <1>3, <1>4

(* What merging two sets of entries keeps: their numbers, what each of     *)
(* them was, the greater last and the smaller first number, and, if they   *)
(* touch, that there is no gap.                                            *)
LEMMA Merged ==
    ASSUME NEW l, NEW r, \A e \in l \cup r : e.seq \in Numbers
    PROVE  LET m == MergeHistoryEntries(l, r)
           IN  /\ m \subseteq l \cup r /\ r \subseteq m
               /\ Seqs(m) = Seqs(l) \cup Seqs(r)
               /\ Seqs(l) \subseteq Seqs(r) => m = r
               /\ \A h, n : IsHistory(l, h, n) /\ IsHistory(r, h, n) => IsHistory(m, h, n)
<1> DEFINE m == MergeHistoryEntries(l, r)
<1>1. m \subseteq l \cup r /\ r \subseteq m
  BY DEF MergeHistoryEntries
<1>2. Seqs(m) = Seqs(l) \cup Seqs(r)
  BY DEF MergeHistoryEntries, Seqs
<1>3. Seqs(l) \subseteq Seqs(r) => m = r
  BY DEF MergeHistoryEntries, Seqs
<1>4. ASSUME NEW d \in m, NEW e \in m, d.seq = e.seq,
             \A x, y \in l : x.seq = y.seq => x = y,
             \A x, y \in r : x.seq = y.seq => x = y
      PROVE  d = e
  <2>1. (d \in r \/ (d \in l /\ d.seq \notin Seqs(r))) /\ (e \in r \/ (e \in l /\ e.seq \notin Seqs(r)))
    BY DEF MergeHistoryEntries
  <2>2. \A x \in r : x.seq \in Seqs(r)
    BY DEF Seqs
  <2> QED BY <1>4, <2>1, <2>2
<1>5. ASSUME NEW h, NEW n, IsHistory(l, h, n), IsHistory(r, h, n)
      PROVE  IsHistory(m, h, n)
  <2>1. /\ m \subseteq EntriesOf(n) /\ (h = "sequenced" => m \subseteq Singles(n))
    BY <1>1, <1>5 DEF IsHistory
  <2>2. \A d, e \in m : d.seq = e.seq => d = e
    BY <1>4, <1>5 DEF IsHistory
  <2> QED BY <2>1, <2>2 DEF IsHistory
<1> QED BY <1>1, <1>2, <1>3, <1>5

(* First and last of what is merged.                                       *)
LEMMA MergedBounds ==
    ASSUME NEW l, NEW r, \A e \in l \cup r : e.seq \in Numbers
    PROVE  LET m == MergeHistoryEntries(l, r)
           IN  /\ LastSeqOf(m) = IF LastSeqOf(l) <= LastSeqOf(r) THEN LastSeqOf(r) ELSE LastSeqOf(l)
               /\ l = {} => FirstSeqOf(m) = FirstSeqOf(r)
               /\ r = {} => FirstSeqOf(m) = FirstSeqOf(l)
               /\ l # {} /\ r # {} =>
                    FirstSeqOf(m) = IF FirstSeqOf(l) <= FirstSeqOf(r) THEN FirstSeqOf(l) ELSE FirstSeqOf(r)
               /\ m = {} <=> l = {} /\ r = {}
               /\ (/\ Contiguous(l) /\ Contiguous(r)
                   /\ FirstSeqOf(l) <= LastSeqOf(r) + 1 \/ r = {}
                   /\ FirstSeqOf(r) <= LastSeqOf(l) + 1 \/ l = {}) => Contiguous(m)
<1> DEFINE m == MergeHistoryEntries(l, r)
<1>1. m \subseteq l \cup r /\ r \subseteq m /\ Seqs(m) = Seqs(l) \cup Seqs(r)
  BY Merged
<1>2. \A e \in m : e.seq \in Numbers
  BY <1>1
<1> DEFINE Known(x) == /\ x = {} => FirstSeqOf(x) = -1 /\ LastSeqOf(x) = -1 /\ Seqs(x) = {}
                       /\ x # {} => /\ FirstSeqOf(x) \in Seqs(x) /\ LastSeqOf(x) \in Seqs(x)
                                    /\ FirstSeqOf(x) \in Nat /\ LastSeqOf(x) \in Nat
                       /\ \A s \in Seqs(x) : FirstSeqOf(x) <= s /\ s <= LastSeqOf(x)
                       /\ FirstSeqOf(x) \in Int /\ LastSeqOf(x) \in Int
                       /\ Seqs(x) \subseteq Nat
<1>3. Known(m)
  BY <1>2, FirstAndLast
<1>4. Known(l)
  BY FirstAndLast
<1>5. Known(r)
  BY FirstAndLast
<1>6. /\ Contiguous(l) /\ l # {} => Seqs(l) = FirstSeqOf(l)..LastSeqOf(l)
      /\ Contiguous(r) /\ r # {} => Seqs(r) = FirstSeqOf(r)..LastSeqOf(r)
  BY Interval
<1>7. m = {} <=> l = {} /\ r = {}
  BY <1>1, <1>3, <1>4, <1>5
<1> HIDE DEF m
<1>8. LastSeqOf(m) = IF LastSeqOf(l) <= LastSeqOf(r) THEN LastSeqOf(r) ELSE LastSeqOf(l)
  <2>1. CASE m = {}
    BY <1>3, <1>4, <1>5, <1>7, <2>1
  <2>2. CASE m # {}
    <3>1. LastSeqOf(m) \in Seqs(l) \cup Seqs(r)
      BY <1>1, <1>3, <2>2
    <3>2. LastSeqOf(l) <= LastSeqOf(m) /\ LastSeqOf(r) <= LastSeqOf(m)
      <4>1. l # {} => LastSeqOf(l) <= LastSeqOf(m)
        BY <1>1, <1>3, <1>4
      <4>2. r # {} => LastSeqOf(r) <= LastSeqOf(m)
        BY <1>1, <1>3, <1>5
      <4> QED BY <1>3, <1>4, <1>5, <2>2, <4>1, <4>2
    <3>3. LastSeqOf(m) <= LastSeqOf(l) \/ LastSeqOf(m) <= LastSeqOf(r)
      BY <1>4, <1>5, <3>1
    <3> QED BY <1>3, <1>4, <1>5, <3>2, <3>3
  <2> QED BY <2>1, <2>2
<1>9. /\ l = {} => FirstSeqOf(m) = FirstSeqOf(r)
      /\ r = {} => FirstSeqOf(m) = FirstSeqOf(l)
      /\ l # {} /\ r # {} =>
           FirstSeqOf(m) = IF FirstSeqOf(l) <= FirstSeqOf(r) THEN FirstSeqOf(l) ELSE FirstSeqOf(r)
  <2>1. CASE m = {}
    BY <1>3, <1>4, <1>5, <1>7, <2>1
  <2>2. CASE m # {}
    <3>1. FirstSeqOf(m) \in Seqs(l) \cup Seqs(r)
      BY <1>1, <1>3, <2>2
    <3>2. (l # {} => FirstSeqOf(m) <= FirstSeqOf(l)) /\ (r # {} => FirstSeqOf(m) <= FirstSeqOf(r))
      BY <1>1, <1>3, <1>4, <1>5
    <3>3. \/ l # {} /\ FirstSeqOf(l) <= FirstSeqOf(m)
          \/ r # {} /\ FirstSeqOf(r) <= FirstSeqOf(m)
      BY <1>4, <1>5, <3>1
    <3> QED BY <1>3, <1>4, <1>5, <3>2, <3>3
  <2> QED BY <2>1, <2>2
<1>10. ASSUME Contiguous(l), Contiguous(r),
              FirstSeqOf(l) <= LastSeqOf(r) + 1 \/ r = {},
              FirstSeqOf(r) <= LastSeqOf(l) + 1 \/ l = {}
       PROVE  Contiguous(m)
  <2>1. CASE l = {} \/ r = {}
    BY <1>1, <1>4, <1>5, <1>10, <2>1 DEF Contiguous
  <2>2. CASE l # {} /\ r # {}
    <3> DEFINE a == FirstSeqOf(l)  b == LastSeqOf(l)
               c == FirstSeqOf(r)  d == LastSeqOf(r)
    <3>1. /\ Seqs(m) = (a..b) \cup (c..d) /\ a <= d + 1 /\ c <= b + 1
          /\ a \in Nat /\ b \in Nat /\ c \in Nat /\ d \in Nat
      BY <1>1, <1>4, <1>5, <1>6, <1>10, <2>2
    <3> HIDE DEF a, b, c, d
    <3>2. ASSUME NEW x \in Seqs(m), NEW y \in Seqs(m), NEW z \in x..y
          PROVE  z \in Seqs(m)
      BY <3>1
    <3> QED BY <3>2 DEF Contiguous
  <2> QED BY <2>1, <2>2
<1> QED BY <1>7, <1>8, <1>9, <1>10 DEF m

(* What is said later does not make a history less of one.                 *)
LEMMA HistoryGrows ==
    ASSUME NEW es, NEW h, NEW m \in Nat, NEW n \in Nat, m <= n, IsHistory(es, h, m)
    PROVE  IsHistory(es, h, n)
<1>1. EntriesOf(m) \subseteq EntriesOf(n)
  BY DEF EntriesOf
<1>2. Singles(m) \subseteq Singles(n)
  BY DEF Singles
<1> QED BY <1>1, <1>2 DEF IsHistory

(* A history has numbers, and no two entries with the same one.            *)
LEMMA HistoryNumbers ==
    ASSUME NEW es, NEW h, NEW n, IsHistory(es, h, n)
    PROVE  /\ \A e \in es : e.seq \in Numbers
           /\ IsFiniteSet(es) /\ Cardinality(Seqs(es)) = Cardinality(es)
<1>1. \A e \in es : e.seq \in Numbers
  BY DEF IsHistory, EntriesOf
<1> DEFINE f == [e \in es |-> e.seq]
<1>2. f \in Bijection(es, Seqs(es))
  <2>1. f \in [es -> Seqs(es)]
    BY DEF Seqs
  <2>2. \A a, b \in es : f[a] = f[b] => a = b
    BY DEF IsHistory
  <2>3. \A s \in Seqs(es) : \E e \in es : f[e] = s
    BY DEF Seqs
  <2> HIDE DEF f
  <2> QED BY <2>1, <2>2, <2>3 DEF Bijection, Injection, Surjection, IsInjective
<1>3. IsFiniteSet(Seqs(es))
  <2> DEFINE top == MaxChunks + MaxMessages
  <2>1. top \in Nat /\ Seqs(es) \subseteq Nat /\ \A s \in Seqs(es) : s <= top
    BY <1>1, HistoryAssumption DEF Seqs, Numbers
  <2> HIDE DEF top
  <2> QED BY <2>1, FS_BoundedSetOfNaturals
<1>4. f \in Injection(es, Seqs(es))
  BY <1>2 DEF Bijection
<1> HIDE DEF f
<1>5. IsFiniteSet(es)
  BY <1>3, <1>4, FS_Injection
<1>6. ExistsBijection(es, Seqs(es))
  BY <1>2 DEF ExistsBijection
<1>7. Cardinality(Seqs(es)) = Cardinality(es)
  BY <1>5, <1>6, FS_Bijection
<1> QED BY <1>1, <1>5, <1>7

(* What a history of a Host that numbers its events shows is determined by *)
(* its numbers.                                                            *)
LEMMA SinglesAreDisjoint ==
    ASSUME NEW es, NEW n \in Nat, es \subseteq Singles(n)
    PROVE  Disjoint(es) /\ \A i \in 1..n : (i - 1) \in Seqs(es) => i \in UNION {e.shows : e \in es}
<1>1. \A e \in es : \E i \in 1..n : e = [seq |-> i - 1, shows |-> {i}]
  BY DEF Singles
<1>2. Disjoint(es)
  <2> SUFFICES ASSUME NEW d \in es, NEW e \in es, d # e PROVE d.shows \cap e.shows = {}
    BY DEF Disjoint
  <2>1. PICK i \in 1..n : d = [seq |-> i - 1, shows |-> {i}]
    BY <1>1
  <2>2. PICK j \in 1..n : e = [seq |-> j - 1, shows |-> {j}]
    BY <1>1
  <2> QED BY <2>1, <2>2
<1>3. ASSUME NEW i \in 1..n, (i - 1) \in Seqs(es)
      PROVE  i \in UNION {e.shows : e \in es}
  <2>1. PICK e \in es : e.seq = i - 1
    BY <1>3 DEF Seqs
  <2>2. PICK j \in 1..n : e = [seq |-> j - 1, shows |-> {j}]
    BY <1>1
  <2>3. i \in e.shows
    BY <2>1, <2>2
  <2> QED BY <2>3
<1> QED BY <1>2, <1>3

-----------------------------------------------------------------------------
(* What the Host answers.                                                  *)

Entry  == [seq : Nat, shows : SUBSET Nat]
Answer == [type : {"snapshot"}, records : SUBSET Entry, hasMore : BOOLEAN]
Frame  == Answer \cup [type : {"update", "delta"}, chunk : Nat]

\* The entries there are, and the number of the first one in a snapshot.
Count == IF host = "sequenced" THEN Len(log) ELSE messages
Low == IF host = "opencode" \/ Len(log) <= Page THEN 0 ELSE Len(log) - Page

\* An answer that a Host h can have given before it had said n chunks and had
\* more than count entries.
IsAnswer(a, h, n, low, count) ==
    /\ a \in Answer
    /\ IsHistory(a.records, h, n) /\ Contiguous(a.records) /\ Disjoint(a.records)
    /\ a.hasMore = (FirstSeqOf(a.records) > 0)
    /\ FirstSeqOf(a.records) <= low /\ LastSeqOf(a.records) < count

\* Part of the invariant: the Host.
HostInv ==
    /\ host \in Hosts /\ messages \in 0..MaxMessages
    /\ log \in Seq(1..messages) /\ Len(log) <= MaxChunks

(* The log of the Host as numbers.                                         *)
LEMMA TheLog ==
    ASSUME HostInv
    PROVE  /\ host \in {"sequenced", "opencode"}
           /\ Len(log) \in 0..MaxChunks /\ DOMAIN log = 1..Len(log)
           /\ \A i \in 1..Len(log) : log[i] \in 1..messages
           /\ messages \in Nat /\ Count \in Nat /\ Low \in Nat
           /\ Page \in Nat /\ Page > 0 /\ MaxChunks \in Nat /\ MaxMessages \in Nat
<1>1. /\ Len(log) \in Nat /\ DOMAIN log = 1..Len(log)
      /\ \A i \in 1..Len(log) : log[i] \in 1..messages
  BY LenProperties, ElementOfSeq DEF HostInv
<1>2. Page \in Nat /\ Page > 0 /\ MaxChunks \in Nat /\ MaxMessages \in Nat /\ host \in {"sequenced", "opencode"}
  BY HistoryAssumption DEF HostInv
<1>3. Len(log) \in 0..MaxChunks /\ messages \in Nat
  BY <1>1, <1>2 DEF HostInv
<1> QED BY <1>1, <1>2, <1>3 DEF Count, Low

(* Everything there is to tell is a history; the adapter tells each chunk. *)
LEMMA EverythingTold ==
    ASSUME HostInv, ~ListingThrows
    PROVE  /\ IsHistory(Everything, host, Len(log)) /\ Disjoint(Everything)
           /\ Seqs(Everything) = 0..(Count - 1)
           /\ UNION {e.shows : e \in Everything} = 1..Len(log)
           /\ host = "sequenced" => Everything = Singles(Len(log))
<1>1. /\ host \in {"sequenced", "opencode"}
      /\ Len(log) \in 0..MaxChunks /\ DOMAIN log = 1..Len(log)
      /\ \A i \in 1..Len(log) : log[i] \in 1..messages
      /\ messages \in Nat /\ Count \in Nat /\ MaxChunks \in Nat /\ MaxMessages \in Nat
  BY TheLog
<1>2. CASE host = "sequenced"
  <2> DEFINE n == Len(log)
  <2>1. Everything = Singles(n) /\ Count = n
    BY <1>1, <1>2 DEF Everything, Singles, Count
  <2>2. n \in Nat /\ n <= MaxChunks
    BY <1>1
  <2> HIDE DEF n
  <2>3. Singles(n) \subseteq EntriesOf(n)
    <3> SUFFICES ASSUME NEW i \in 1..n PROVE [seq |-> i - 1, shows |-> {i}] \in EntriesOf(n)
      BY DEF Singles
    <3>1. i - 1 \in Numbers /\ {i} \in (SUBSET (1..n)) \ {{}}
      BY <1>1, <2>2 DEF Numbers
    <3> QED BY <3>1 DEF EntriesOf
  <2>4. \A d, e \in Singles(n) : d.seq = e.seq => d = e
    <3> SUFFICES ASSUME NEW i \in 1..n, NEW j \in 1..n, i - 1 = j - 1
                 PROVE  [seq |-> i - 1, shows |-> {i}] = [seq |-> j - 1, shows |-> {j}]
      BY DEF Singles
    <3>1. i = j
      BY <2>2
    <3> QED BY <3>1
  <2>5. Seqs(Singles(n)) = 0..(n - 1)
    <3>1. ASSUME NEW e \in Singles(n) PROVE e.seq \in 0..(n - 1)
      BY <2>2 DEF Singles
    <3>2. ASSUME NEW s \in 0..(n - 1) PROVE \E e \in Singles(n) : e.seq = s
      <4>1. s + 1 \in 1..n /\ s = (s + 1) - 1
        BY <2>2
      <4>2. [seq |-> (s + 1) - 1, shows |-> {s + 1}] \in Singles(n)
        BY <4>1 DEF Singles
      <4> QED BY <4>1, <4>2
    <3> QED BY <3>1, <3>2 DEF Seqs
  <2>6. UNION {e.shows : e \in Singles(n)} = 1..n
    <3>1. UNION {e.shows : e \in Singles(n)} \subseteq 1..n
      BY DEF Singles
    <3>2. ASSUME NEW i \in 1..n PROVE i \in UNION {e.shows : e \in Singles(n)}
      <4>1. [seq |-> i - 1, shows |-> {i}] \in Singles(n)
        BY DEF Singles
      <4> QED BY <4>1
    <3> QED BY <3>1, <3>2
  <2>7. IsHistory(Singles(n), host, n) /\ Disjoint(Singles(n))
    BY <2>2, <2>3, <2>4, SinglesAreDisjoint DEF IsHistory
  <2> QED BY <2>1, <2>5, <2>6, <2>7 DEF n
<1>3. CASE host = "opencode"
  <2>1. Everything = {[seq |-> m - 1, shows |-> ChunksOf(m)] : m \in 1..messages} /\ Count = messages
    BY <1>3 DEF Everything, Count
  <2>2. \A m \in 1..messages : ChunksOf(m) \in (SUBSET (1..Len(log))) \ {{}}
    BY <1>1, <1>3 DEF ListingThrows, ChunksOf
  <2>3. Everything \subseteq EntriesOf(Len(log))
    <3> SUFFICES ASSUME NEW m \in 1..messages
                 PROVE  [seq |-> m - 1, shows |-> ChunksOf(m)] \in EntriesOf(Len(log))
      BY <2>1
    <3>1. m - 1 \in Numbers
      BY <1>1 DEF Numbers, HostInv
    <3> QED BY <2>2, <3>1 DEF EntriesOf
  <2>4. \A d, e \in Everything : d.seq = e.seq => d = e
    <3> SUFFICES ASSUME NEW k \in 1..messages, NEW m \in 1..messages, k - 1 = m - 1
                 PROVE  [seq |-> k - 1, shows |-> ChunksOf(k)] = [seq |-> m - 1, shows |-> ChunksOf(m)]
      BY <2>1
    <3>1. k = m
      BY <1>1
    <3> QED BY <3>1
  <2>5. Seqs(Everything) = 0..(messages - 1)
    <3>1. ASSUME NEW e \in Everything PROVE e.seq \in 0..(messages - 1)
      BY <1>1, <2>1
    <3>2. ASSUME NEW s \in 0..(messages - 1) PROVE \E e \in Everything : e.seq = s
      <4>1. s + 1 \in 1..messages /\ s = (s + 1) - 1
        BY <1>1
      <4>2. [seq |-> (s + 1) - 1, shows |-> ChunksOf(s + 1)] \in Everything
        BY <2>1, <4>1
      <4> QED BY <4>1, <4>2
    <3> QED BY <3>1, <3>2 DEF Seqs
  <2>6. UNION {e.shows : e \in Everything} = 1..Len(log)
    <3>1. UNION {e.shows : e \in Everything} \subseteq 1..Len(log)
      BY <2>1, <2>2
    <3>2. ASSUME NEW i \in 1..Len(log) PROVE i \in UNION {e.shows : e \in Everything}
      <4>1. [seq |-> log[i] - 1, shows |-> ChunksOf(log[i])] \in Everything
        BY <1>1, <2>1
      <4>2. i \in ChunksOf(log[i])
        BY <1>1 DEF ChunksOf
      <4> QED BY <4>1, <4>2
    <3> QED BY <3>1, <3>2
  <2>7. Disjoint(Everything)
    <3> SUFFICES ASSUME NEW k \in 1..messages, NEW m \in 1..messages, k # m
                 PROVE  ChunksOf(k) \cap ChunksOf(m) = {}
      BY <2>1 DEF Disjoint
    <3> QED BY DEF ChunksOf
  <2>8. host # "sequenced"
    BY <1>3
  <2> QED BY <2>1, <2>3, <2>4, <2>5, <2>6, <2>7, <2>8 DEF IsHistory
<1> QED BY <1>1, <1>2, <1>3

(* A page of a Host that numbers its events.                               *)
LEMMA PageOf ==
    ASSUME HostInv, host = "sequenced", NEW before \in Nat
    PROVE  LET m == IF before <= Len(log) THEN before ELSE Len(log)
               w == Window(before)
           IN  /\ IsHistory(w, host, Len(log))
               /\ Seqs(w) = (IF m <= Page THEN 0 ELSE m - Page)..(m - 1)
<1> DEFINE n == Len(log)
           m == IF before <= n THEN before ELSE n
           all == {e \in Everything : e.seq < before}
           w == Window(before)
<1>1. /\ n \in Nat /\ Page \in Nat /\ Page > 0 /\ host = "sequenced"
      /\ Count = n /\ ~ListingThrows
  BY TheLog DEF Count, ListingThrows
<1>2. /\ IsHistory(Everything, host, n) /\ Seqs(Everything) = 0..(n - 1)
  BY <1>1, EverythingTold
<1>3. w = {e \in all : e.seq >= LastSeqOf(all) + 1 - Page}
  BY <1>1 DEF Window
<1>4. \A e \in Everything : e.seq \in Numbers /\ e.seq \in Nat
  BY <1>2, HistoryNumbers, HistoryAssumption DEF Numbers
<1> HIDE DEF n, w
<1>5. Seqs(all) = 0..(m - 1)
  <2>1. \A s \in Seqs(all) : s \in 0..(n - 1) /\ s < before
    BY <1>2 DEF Seqs
  <2>2. \A s \in 0..(n - 1) : s < before => s \in Seqs(all)
    BY <1>2 DEF Seqs
  <2>3. 0..(m - 1) = {s \in 0..(n - 1) : s < before}
    BY <1>1
  <2> HIDE DEF all, m
  <2> QED BY <2>1, <2>2, <2>3
<1>6. LastSeqOf(all) = m - 1
  <2>1. \A e \in all : e.seq \in Numbers
    BY <1>4
  <2>2. m - 1 \in Int /\ 0 \in Nat /\ (m - 1 < 0 => m - 1 = -1)
    BY <1>1
  <2> HIDE DEF all, m
  <2> QED BY <1>5, <2>1, <2>2, Interval
<1>7. \A s : s \in Seqs(w) <=> s \in Seqs(all) /\ s >= (m - 1) + 1 - Page
  BY <1>3, <1>6 DEF Seqs
<1>8. Seqs(w) = (IF m <= Page THEN 0 ELSE m - Page)..(m - 1)
  <2>1. m \in Nat
    BY <1>1
  <2> DEFINE lo == IF m <= Page THEN 0 ELSE m - Page
  <2> HIDE DEF m, all
  <2>2. \A s \in 0..(m - 1) : s >= (m - 1) + 1 - Page <=> s >= lo
    BY <1>1, <2>1
  <2>3. lo \in Nat /\ \A s \in lo..(m - 1) : s \in 0..(m - 1)
    BY <1>1, <2>1
  <2>4. \A s \in 0..(m - 1) : s >= lo => s \in lo..(m - 1)
    BY <2>1, <2>3
  <2>5. \A s \in lo..(m - 1) : s >= lo
    BY <2>1, <2>3
  <2> HIDE DEF lo
  <2>6. Seqs(w) = lo..(m - 1)
    BY <1>5, <1>7, <2>2, <2>3, <2>4, <2>5
  <2> QED BY <2>6 DEF lo
<1>9. IsHistory(w, host, n)
  <2>1. w \subseteq Everything
    BY <1>3
  <2> QED BY <1>2, <2>1 DEF IsHistory
<1> QED BY <1>8, <1>9 DEF n, w

(* What a snapshot is, on either Host.                                     *)
LEMMA SnapshotTold ==
    ASSUME HostInv, ~ListingThrows
    PROVE  /\ IsAnswer(Snapshot, host, Len(log), Low, Count)
           /\ LastSeqOf(Snapshot.records) = Count - 1
           /\ FirstSeqOf(Snapshot.records) = IF Count = 0 THEN -1 ELSE Low
           /\ host = "opencode" =>
                /\ FirstLiveSeq(Snapshot.records) = messages
                /\ UNION {e.shows : e \in Snapshot.records} = 1..Len(log)
<1> DEFINE top == MaxChunks + MaxMessages + 1
           records == Window(top)
           n == Len(log)
           Told == /\ IsHistory(records, host, n) /\ Seqs(records) = Low..(Count - 1)
                   /\ Disjoint(records) /\ Low <= Count /\ (Low = Count => Count = 0)
                   /\ host = "opencode" => /\ FirstLiveSeq(records) = messages
                                           /\ UNION {e.shows : e \in records} = 1..n
<1>1. /\ host \in {"sequenced", "opencode"}
      /\ n \in 0..MaxChunks /\ Count \in Nat /\ Low \in Nat /\ Page \in Nat /\ Page > 0
      /\ messages \in Nat /\ MaxChunks \in Nat /\ MaxMessages \in Nat /\ top \in Nat
      /\ n <= top
  BY TheLog
<1>2. /\ IsHistory(Everything, host, n) /\ Disjoint(Everything)
      /\ Seqs(Everything) = 0..(Count - 1)
      /\ UNION {e.shows : e \in Everything} = 1..n
  BY EverythingTold
<1>3. Snapshot = [type |-> "snapshot", records |-> records, hasMore |-> FirstSeqOf(records) > 0]
  BY DEF Snapshot
<1>4. ASSUME host = "sequenced" PROVE Told
  <2>1. Count = n /\ Low = IF n <= Page THEN 0 ELSE n - Page
    BY <1>4 DEF Count, Low
  <2>2. /\ IsHistory(records, host, n)
        /\ Seqs(records) = (IF n <= Page THEN 0 ELSE n - Page)..(n - 1)
    <3> HIDE DEF top, n
    <3>1. (IF top <= n THEN top ELSE n) = n
      BY <1>1
    <3> QED BY <1>1, <1>4, <3>1, PageOf DEF n
  <2> HIDE DEF records, n, top
  <2>3. IsHistory(records, host, n) /\ Seqs(records) = Low..(Count - 1) /\ Low <= Count /\ (Low = Count => Count = 0)
    <3>1. n \in Nat
      BY <1>1 DEF n
    <3>2. (IF n <= Page THEN 0 ELSE n - Page) = Low
      BY <2>1
    <3>3. Low <= Count /\ (Low = Count => Count = 0)
      BY <1>1, <2>1, <3>1
    <3> QED BY <2>1, <2>2, <3>2, <3>3
  <2>4. Disjoint(records)
    <3>1. n \in Nat /\ records \subseteq Singles(n)
      BY <1>1, <1>4, <2>3 DEF IsHistory, n
    <3> QED BY <3>1, SinglesAreDisjoint
  <2> QED BY <1>4, <2>3, <2>4
<1>5. ASSUME host = "opencode" PROVE Told
  <2>1. Count = messages /\ Low = 0
    BY <1>5 DEF Count, Low
  <2>2. records = Everything
    <3>1. records = {e \in Everything : e.seq < top}
      BY <1>5 DEF Window
    <3>2. \A e \in Everything : e.seq \in Numbers
      BY <1>2, HistoryNumbers
    <3>3. \A e \in Everything : e.seq < top
      BY <1>1, <3>2 DEF Numbers
    <3> QED BY <3>1, <3>3
  <2> HIDE DEF records
  <2>3. /\ IsHistory(records, host, n) /\ Seqs(records) = Low..(Count - 1)
        /\ Disjoint(records) /\ UNION {e.shows : e \in records} = 1..n
    BY <1>2, <2>1, <2>2
  <2>4. FirstLiveSeq(records) = messages
    <3>1. Cardinality(Seqs(records)) = Cardinality(records)
      BY <2>3, HistoryNumbers
    <3>2. Cardinality(0..(messages - 1)) = messages
      <4>1. 0 \in Int /\ messages - 1 \in Int
        BY <1>1
      <4>2. Cardinality(0..(messages - 1)) = IF 0 > messages - 1 THEN 0 ELSE (messages - 1) - 0 + 1
        BY <4>1, FS_Interval
      <4> QED BY <1>1, <4>2
    <3> QED BY <2>1, <2>3, <3>1, <3>2 DEF FirstLiveSeq
  <2>5. Low <= Count /\ (Low = Count => Count = 0)
    BY <1>1, <2>1
  <2> QED BY <2>3, <2>4, <2>5
<1>6. Told
  BY <1>1, <1>4, <1>5
<1> HIDE DEF records, n, top
<1>7. \A e \in records : e.seq \in Numbers
  BY <1>6, HistoryNumbers
<1>8. /\ Contiguous(records) /\ LastSeqOf(records) = Count - 1
      /\ FirstSeqOf(records) = IF Count = 0 THEN -1 ELSE Low
  <2>1. Low \in Nat /\ Count - 1 \in Int
    BY <1>1
  <2>2. /\ Contiguous(records)
        /\ Low <= Count - 1 => FirstSeqOf(records) = Low /\ LastSeqOf(records) = Count - 1
        /\ Count - 1 < Low => FirstSeqOf(records) = -1 /\ LastSeqOf(records) = -1
    BY <1>6, <1>7, <2>1, Interval
  <2> QED BY <1>1, <1>6, <2>2
<1>9. Snapshot \in Answer
  <2>1. records \in SUBSET Entry
    <3>1. Numbers \subseteq Nat /\ 1..n \subseteq Nat
      BY <1>1 DEF Numbers
    <3> QED BY <1>6, <3>1 DEF IsHistory, EntriesOf, Entry
  <2> QED BY <1>3, <2>1 DEF Answer
<1>10. IsAnswer(Snapshot, host, n, Low, Count)
  <2>1. FirstSeqOf(records) <= Low /\ LastSeqOf(records) < Count
    BY <1>1, <1>8
  <2> QED BY <1>3, <1>6, <1>8, <1>9, <2>1 DEF IsAnswer
<1> QED BY <1>3, <1>6, <1>8, <1>10 DEF n

-----------------------------------------------------------------------------
(* The frames a follow has not delivered: at most one snapshot, in front,  *)
(* and the chunks that were said last.                                     *)

PendingIn(f) == f # <<>> /\ Head(f).type = "snapshot"
EventsIn(f) == IF PendingIn(f) THEN Len(f) - 1 ELSE Len(f)

InLine(f, n) ==
    /\ f \in Seq(Frame)
    /\ \A i \in 2..Len(f) : f[i].type # "snapshot"
    /\ \A i \in 1..Len(f) : f[i].type # "snapshot" => f[i].chunk = n - Len(f) + i
    /\ EventsIn(f) <= n

(* The length of the line, and its head.                                   *)
LEMMA TheLine ==
    ASSUME NEW n \in Nat, NEW f, InLine(f, n)
    PROVE  /\ f \in Seq(Frame) /\ Len(f) \in Nat /\ DOMAIN f = 1..Len(f)
           /\ f # <<>> => Len(f) > 0 /\ Head(f) = f[1] /\ Head(f) \in Frame
           /\ f = <<>> => Len(f) = 0
           /\ EventsIn(f) \in 0..n
           /\ \A i \in 1..Len(f) : f[i] \in Frame
           /\ PendingIn(f) => Head(f) \in Answer
           /\ f # <<>> /\ ~PendingIn(f) => /\ Head(f).type \in {"update", "delta"}
                                          /\ Head(f).chunk = n - EventsIn(f) + 1
                                          /\ Head(f).chunk \in 1..n
<1>1. f \in Seq(Frame) /\ Len(f) \in Nat /\ DOMAIN f = 1..Len(f)
  BY LenProperties DEF InLine
<1>2. \A i \in 1..Len(f) : f[i] \in Frame
  BY <1>1, ElementOfSeq
<1>3. f # <<>> => Len(f) > 0 /\ Head(f) = f[1] /\ Head(f) \in Frame
  BY <1>1, <1>2, EmptySeq
<1>4. f = <<>> => Len(f) = 0
  BY EmptySeq
<1>5. EventsIn(f) \in 0..n
  BY <1>1, <1>3 DEF EventsIn, PendingIn, InLine
<1>6. PendingIn(f) => Head(f) \in Answer
  BY <1>3 DEF PendingIn, Frame
<1>7. ASSUME f # <<>>, ~PendingIn(f)
      PROVE  /\ Head(f).type \in {"update", "delta"}
             /\ Head(f).chunk = n - EventsIn(f) + 1 /\ Head(f).chunk \in 1..n
  <2>1. Head(f).type # "snapshot" /\ EventsIn(f) = Len(f) /\ Len(f) > 0
    BY <1>3, <1>7 DEF PendingIn, EventsIn
  <2>2. Head(f).type \in {"update", "delta"}
    BY <1>3, <1>7, <2>1 DEF Frame, Answer
  <2>3. Head(f).chunk = n - Len(f) + 1
    <3>1. 1 \in 1..Len(f)
      BY <1>1, <2>1
    <3> QED BY <1>3, <1>7, <2>1, <3>1 DEF InLine
  <2> QED BY <1>1, <1>5, <2>1, <2>2, <2>3
<1> QED BY <1>1, <1>2, <1>3, <1>4, <1>5, <1>6, <1>7

\* The line g is f with one more event, x, the chunk after the n-th.
Joined(f, g, x, n) ==
    /\ InLine(g, n + 1) /\ PendingIn(g) = PendingIn(f) /\ g # <<>>
    /\ PendingIn(f) => Head(g) = Head(f)
    /\ EventsIn(g) = EventsIn(f) + 1
    /\ Len(g) = Len(f) + 1 /\ g[Len(f) + 1] = x
    /\ \A i \in 1..Len(f) : g[i] = f[i]

(* A chunk that is said joins the line.                                    *)
LEMMA FrameSaid ==
    ASSUME NEW n \in Nat, NEW f, InLine(f, n), NEW t \in {"update", "delta"},
           NEW e, e = [type |-> t, chunk |-> n + 1], NEW g, g = Append(f, e)
    PROVE  Joined(f, g, e, n)
<1>1. /\ f \in Seq(Frame) /\ Len(f) \in Nat
      /\ f # <<>> => Len(f) > 0 /\ Head(f) = f[1]
      /\ f = <<>> => Len(f) = 0
  BY TheLine
<1>2. e \in Frame /\ e.type = t /\ e.chunk = n + 1 /\ t # "snapshot"
  BY DEF Frame
<1>3. /\ g \in Seq(Frame) /\ g # <<>> /\ Len(g) = Len(f) + 1
      /\ \A i \in 1..Len(f) : g[i] = f[i]
      /\ g[Len(f) + 1] = e
  BY <1>1, <1>2, AppendProperties
<1>4. Head(g) = g[1]
  BY <1>3
<1>5. PendingIn(g) = PendingIn(f) /\ (PendingIn(f) => Head(g) = Head(f))
  <2>1. CASE f = <<>>
    BY <1>1, <1>2, <1>3, <1>4, <2>1 DEF PendingIn
  <2>2. CASE f # <<>>
    <3>1. Head(g) = Head(f)
      BY <1>1, <1>3, <1>4, <2>2
    <3> QED BY <1>3, <2>2, <3>1 DEF PendingIn
  <2> QED BY <2>1, <2>2
<1>6. EventsIn(g) = EventsIn(f) + 1
  BY <1>1, <1>3, <1>5 DEF EventsIn
<1>7. InLine(g, n + 1)
  <2>1. ASSUME NEW i \in 2..Len(g) PROVE g[i].type # "snapshot"
    <3>1. CASE i <= Len(f)
      BY <1>1, <1>3, <3>1 DEF InLine
    <3>2. CASE i = Len(f) + 1
      BY <1>2, <1>3, <3>2
    <3> QED BY <1>1, <1>3, <3>1, <3>2
  <2>2. ASSUME NEW i \in 1..Len(g), g[i].type # "snapshot"
        PROVE  g[i].chunk = (n + 1) - Len(g) + i
    <3>1. CASE i <= Len(f)
      <4>1. i \in 1..Len(f) /\ g[i] = f[i]
        BY <1>1, <1>3, <3>1
      <4>2. f[i].chunk = n - Len(f) + i
        BY <2>2, <4>1 DEF InLine
      <4> QED BY <1>1, <1>3, <4>1, <4>2
    <3>2. CASE i = Len(f) + 1
      BY <1>1, <1>2, <1>3, <3>2
    <3> QED BY <1>1, <1>3, <3>1, <3>2
  <2>3. EventsIn(g) <= n + 1
    <3>1. EventsIn(f) \in 0..n
      BY TheLine
    <3> QED BY <1>6, <3>1
  <2> QED BY <1>3, <2>1, <2>2, <2>3 DEF InLine
<1> QED BY <1>3, <1>5, <1>6, <1>7 DEF Joined

(* A frame that is delivered leaves the line.                              *)
LEMMA FrameDelivered ==
    ASSUME NEW n \in Nat, NEW f, InLine(f, n), f # <<>>
    PROVE  LET g == Tail(f)
           IN  /\ InLine(g, n) /\ ~PendingIn(g)
               /\ EventsIn(g) = IF PendingIn(f) THEN EventsIn(f) ELSE EventsIn(f) - 1
               /\ Len(g) = Len(f) - 1
               /\ \A i \in 1..Len(g) : g[i] = f[i + 1]
<1> DEFINE g == Tail(f)
<1>1. f \in Seq(Frame) /\ Len(f) \in Nat /\ Len(f) > 0 /\ EventsIn(f) \in 0..n
  BY TheLine
<1>2. g \in Seq(Frame) /\ Len(g) = Len(f) - 1 /\ \A i \in 1..Len(g) : g[i] = f[i + 1]
  BY <1>1, HeadTailProperties
<1> HIDE DEF g
<1>3. ~PendingIn(g)
  <2> SUFFICES ASSUME g # <<>> PROVE Head(g).type # "snapshot"
    BY DEF PendingIn
  <2>1. Len(g) > 0 /\ Head(g) = g[1] /\ g[1] = f[2] /\ 2 \in 2..Len(f)
    BY <1>1, <1>2, EmptySeq
  <2> QED BY <2>1 DEF InLine
<1>4. EventsIn(g) = IF PendingIn(f) THEN EventsIn(f) ELSE EventsIn(f) - 1
  BY <1>1, <1>2, <1>3 DEF EventsIn
<1>5. InLine(g, n)
  <2>1. ASSUME NEW i \in 2..Len(g) PROVE g[i].type # "snapshot"
    <3>1. i + 1 \in 2..Len(f) /\ g[i] = f[i + 1]
      BY <1>1, <1>2
    <3> QED BY <3>1 DEF InLine
  <2>2. ASSUME NEW i \in 1..Len(g), g[i].type # "snapshot"
        PROVE  g[i].chunk = n - Len(g) + i
    <3>1. i + 1 \in 1..Len(f) /\ g[i] = f[i + 1]
      BY <1>1, <1>2
    <3>2. f[i + 1].chunk = n - Len(f) + (i + 1)
      BY <2>2, <3>1 DEF InLine
    <3> QED BY <1>1, <1>2, <3>1, <3>2
  <2>3. EventsIn(g) <= n
    BY <1>1, <1>4
  <2> QED BY <1>2, <2>1, <2>2, <2>3 DEF InLine
<1> QED BY <1>2, <1>3, <1>4, <1>5 DEF g

(* The line of a follow that has just opened, and the empty one.           *)
LEMMA FirstFrame ==
    ASSUME NEW n \in Nat
    PROVE  /\ InLine(<<>>, n) /\ ~PendingIn(<<>>) /\ EventsIn(<<>>) = 0
           /\ \A a \in Answer : /\ InLine(<<a>>, n) /\ PendingIn(<<a>>) /\ EventsIn(<<a>>) = 0
                                /\ Head(<<a>>) = a /\ Len(<<a>>) = 1
<1>1. InLine(<<>>, n) /\ ~PendingIn(<<>>) /\ EventsIn(<<>>) = 0
  BY DEF InLine, PendingIn, EventsIn
<1>2. ASSUME NEW a \in Answer
      PROVE  /\ InLine(<<a>>, n) /\ PendingIn(<<a>>) /\ EventsIn(<<a>>) = 0
             /\ Head(<<a>>) = a /\ Len(<<a>>) = 1
  <2>1. a \in Frame /\ a.type = "snapshot"
    BY DEF Frame, Answer
  <2>2. /\ <<a>> \in Seq(Frame) /\ Len(<<a>>) = 1 /\ Head(<<a>>) = a /\ <<a>>[1] = a
        /\ <<a>> # <<>>
    BY <2>1
  <2>3. PendingIn(<<a>>) /\ EventsIn(<<a>>) = 0
    BY <2>1, <2>2 DEF PendingIn, EventsIn
  <2> QED BY <2>1, <2>2, <2>3 DEF InLine
<1> QED BY <1>1, <1>2

-----------------------------------------------------------------------------
(* The inductive invariant.                                                *)

Following == stream \in {"listed", "open"}

\* The snapshot of the follow is not applied yet.
Pending == PendingIn(frames)

\* The chunks the follow is through with.
Delivered == Len(log) - EventsIn(frames)

Answered(a) == IsAnswer(a, host, Len(log), Low, Count)

\* Events the parts of the invariant do without.
Whole  == happened \cap {"overtaken", "reverted", "burst"} = {}
Steady == happened \cap {"raced", "unheard", "midway"} = {}
Calm   == happened \subseteq {"empty"}

\* The follow: its line of frames, what its snapshot is, and the numbers and
\* texts of the adapter.
FramesInv ==
    /\ InLine(frames, Len(log))
    /\ stream \in {"none", "listing", "listed", "open", "ended"}
    /\ ~Following => frames = <<>>
    /\ stream = "listed" => host = "opencode" /\ EventsIn(frames) = 0
    /\ \A i \in 1..Len(frames) : frames[i].type = "delta" =>
          /\ host = "opencode"
          /\ \E k \in 1..(frames[i].chunk - 1) : log[k] = log[frames[i].chunk]
    /\ Pending =>
          /\ Answered(Head(frames))
          /\ LastSeqOf(Head(frames).records) = (IF host = "sequenced" THEN Delivered ELSE next) - 1
          /\ host = "opencode" => texts = {} /\ lastSeq < next
    /\ host = "opencode" /\ Following =>
          /\ next \in 0..(MaxMessages + Delivered) /\ texts \subseteq 1..Delivered
          /\ listed \in 0..messages

\* What is kept is history, and each answer on its way is one the Host gave.
EntriesInv ==
    /\ IsHistory(entries, host, Len(log)) /\ IsHistory(captured, host, Len(log))
    /\ {lastSeq, oldest, paging} \subseteq {-1} \cup Numbers
    /\ selecting \in {Idle, Waiting, Failure} \/ Answered(selecting)
    /\ commanding \in {Idle, Waiting} \/ Answered(commanding)
    /\ commanding = Idle => captured = {}
    /\ host = "sequenced" => lastSeq < Len(log)
    /\ host = "opencode" =>
          /\ hasMore = FALSE /\ paging = -1 /\ commanding = Idle
          /\ \A s \in Seqs(entries) : s <= lastSeq
          /\ stream = "listing" => lastSeq < messages
    /\ hasMore \in BOOLEAN /\ live \in BOOLEAN /\ texts \subseteq 1..Len(log)
    /\ happened \subseteq Events

\* No hole in what is shown, nor between it and what is on its way.
HoleInv ==
    Whole =>
    /\ Contiguous(entries) /\ lastSeq = LastSeqOf(entries)
    /\ oldest # -1 => oldest = FirstSeqOf(entries)
    /\ paging # -1 => oldest # -1 /\ oldest <= paging /\ paging <= lastSeq
    /\ commanding # Idle =>
          /\ Contiguous(captured)
          /\ captured = {} => oldest = -1
          /\ captured # {} => oldest <= LastSeqOf(captured) /\ paging <= LastSeqOf(captured)
          /\ stream = "listing" \/ Pending => LastSeqOf(captured) = lastSeq
    /\ AnsweredCommand =>
          /\ FirstSeqOf(commanding.records) <= LastSeqOf(captured) + 1
          /\ LastSeqOf(captured) <= LastSeqOf(commanding.records)
    /\ stream = "listing" => FirstSeqOf(entries) <= Low /\ FirstSeqOf(captured) <= Low
    /\ Pending =>
          /\ FirstSeqOf(Head(frames).records) <= lastSeq + 1
          /\ Head(frames).records # {} =>
                /\ FirstSeqOf(entries) <= FirstSeqOf(Head(frames).records)
                /\ FirstSeqOf(captured) <= FirstSeqOf(Head(frames).records)
          /\ Head(frames).records = {} => FirstSeqOf(entries) <= 0 /\ FirstSeqOf(captured) <= 0

\* The follow is live and the next event is the next number.
FollowInv ==
    /\ Steady =>
       /\ Following /\ ~Pending =>
             /\ live
             /\ host = "sequenced" => Delivered - 1 <= lastSeq
             /\ host = "opencode" => lastSeq = next - 1
       /\ AnsweredCommand /\ Following /\ ~Pending => lastSeq <= LastSeqOf(commanding.records)
       /\ host = "opencode" /\ Following =>
             /\ \A i \in 1..Delivered : log[i] > listed => i \in texts
             /\ \A i \in (Delivered + 1)..Len(log) : log[i] > listed
    /\ Steady /\ "empty" \notin happened => stream # "ended"

\* Each chunk the follow is through with is shown by one entry.
ShownInv ==
    Calm =>
    /\ Disjoint(entries)
    /\ FirstSeqOf(entries) > 0 => hasMore
    /\ host = "opencode" /\ Pending => UNION {e.shows : e \in Head(frames).records} = 1..Delivered
    /\ host = "opencode" /\ Following /\ ~Pending => Shown = 1..Delivered

IInv == HostInv /\ FramesInv /\ EntriesInv /\ HoleInv /\ FollowInv /\ ShownInv

(* Initially it holds.                                                     *)
LEMMA InitIInv == Init => IInv
<1> SUFFICES ASSUME Init PROVE IInv
  OBVIOUS
<1>1. HostInv
  BY HistoryAssumption DEF Init, HostInv
<1>2. InLine(<<>>, 0) /\ ~PendingIn(<<>>) /\ EventsIn(<<>>) = 0
  BY FirstFrame
<1>3. /\ log = <<>> /\ Len(log) = 0 /\ frames = <<>> /\ Len(frames) = 0 /\ stream = "none"
      /\ entries = {} /\ captured = {} /\ selecting = Idle /\ commanding = Idle
      /\ lastSeq = -1 /\ oldest = -1 /\ paging = -1 /\ hasMore = FALSE /\ live = FALSE
      /\ texts = {} /\ happened = {} /\ ~Pending /\ ~Following /\ ~AnsweredCommand
  BY <1>2 DEF Init, Pending, Following, AnsweredCommand
<1>4. /\ FirstSeqOf({}) = -1 /\ LastSeqOf({}) = -1 /\ Seqs({}) = {} /\ Contiguous({})
  BY FirstAndLast DEF Contiguous
<1>5. FramesInv
  BY <1>2, <1>3 DEF FramesInv, Following
<1>6. EntriesInv
  <2>1. IsHistory({}, host, Len(log))
    BY DEF IsHistory
  <2>2. {} \subseteq Events /\ {} \subseteq 1..Len(log)
    OBVIOUS
  <2>3. {lastSeq, oldest, paging} \subseteq {-1} \cup Numbers
    BY <1>3
  <2>4. \A s \in Seqs(entries) : s <= lastSeq
    BY <1>3, <1>4
  <2>5. host = "sequenced" => lastSeq < Len(log)
    BY <1>3
  <2>6. selecting \in {Idle, Waiting, Failure} /\ commanding \in {Idle, Waiting} /\ captured = {}
    BY <1>3
  <2>7. stream # "listing" /\ hasMore \in BOOLEAN /\ live \in BOOLEAN
    BY <1>3
  <2> QED BY <1>3, <2>1, <2>2, <2>3, <2>4, <2>5, <2>6, <2>7 DEF EntriesInv
<1>7. HoleInv
  BY <1>3, <1>4 DEF HoleInv
<1>8. FollowInv /\ ShownInv
  BY <1>3, <1>4 DEF FollowInv, ShownInv, Disjoint
<1> QED BY <1>1, <1>5, <1>6, <1>7, <1>8 DEF IInv

-----------------------------------------------------------------------------
(* What the lemmas about the steps share.                                  *)

(* First and last number of a history.                                     *)
LEMMA HistoryBounds ==
    ASSUME NEW es, NEW h, NEW n, IsHistory(es, h, n)
    PROVE  /\ es = {} => FirstSeqOf(es) = -1 /\ LastSeqOf(es) = -1 /\ Seqs(es) = {}
           /\ es # {} => /\ FirstSeqOf(es) \in Seqs(es) /\ LastSeqOf(es) \in Seqs(es)
                         /\ FirstSeqOf(es) \in Nat /\ LastSeqOf(es) \in Nat
           /\ \A s \in Seqs(es) : FirstSeqOf(es) <= s /\ s <= LastSeqOf(es)
           /\ FirstSeqOf(es) \in Int /\ LastSeqOf(es) \in Int
           /\ -1 <= FirstSeqOf(es) /\ FirstSeqOf(es) <= LastSeqOf(es)
           /\ Seqs(es) \subseteq Nat
           /\ {FirstSeqOf(es), LastSeqOf(es)} \subseteq {-1} \cup Numbers
           /\ \A e \in es : e.seq \in Numbers
<1>1. \A e \in es : e.seq \in Numbers
  BY HistoryNumbers
<1>2. Seqs(es) \subseteq Numbers
  BY <1>1 DEF Seqs
<1> QED BY <1>1, <1>2, FirstAndLast

(* An answer stays one when the Host goes on.                              *)
LEMMA AnswerGrows ==
    ASSUME NEW a, NEW h, NEW m \in Nat, NEW n \in Nat, m <= n,
           NEW low \in Nat, NEW low2 \in Nat, low <= low2,
           NEW count \in Nat, NEW count2 \in Nat, count <= count2,
           IsAnswer(a, h, m, low, count)
    PROVE  IsAnswer(a, h, n, low2, count2)
<1>1. IsHistory(a.records, h, n)
  BY HistoryGrows DEF IsAnswer
<1>2. FirstSeqOf(a.records) \in Int /\ LastSeqOf(a.records) \in Int
  BY <1>1, HistoryBounds
<1> QED BY <1>1, <1>2 DEF IsAnswer

(* An answer is none of the other states of a request.                     *)
LEMMA AnswersDiffer ==
    ASSUME NEW a \in Answer
    PROVE  a # Idle /\ a # Waiting /\ a # Failure
BY DEF Answer, Idle, Waiting, Failure

(* While the Host is silent, what depends on it is the same.               *)
LEMMA HostSilent ==
    ASSUME HostInv, UNCHANGED said
    PROVE  /\ HostInv' /\ Low' = Low /\ Count' = Count
           /\ host' = host /\ log' = log /\ messages' = messages
BY DEF said, HostInv, Low, Count

(* Nothing of the follow changes.                                          *)
LEMMA FollowKept ==
    ASSUME HostInv, FramesInv, UNCHANGED said, UNCHANGED follow
    PROVE  /\ Pending' = Pending /\ Following' = Following /\ Delivered' = Delivered
           /\ frames' = frames /\ stream' = stream /\ next' = next /\ texts' = texts
           /\ listed' = listed
           /\ (host = "opencode" => lastSeq' = lastSeq) => FramesInv'
<1>1. /\ frames' = frames /\ stream' = stream /\ next' = next /\ texts' = texts
      /\ listed' = listed
  BY DEF follow
<1>2. Low' = Low /\ Count' = Count /\ host' = host /\ log' = log /\ messages' = messages
  BY HostSilent
<1>3. Pending' = Pending /\ Following' = Following /\ Delivered' = Delivered
  BY <1>1, <1>2 DEF Pending, Following, Delivered
<1>4. (host = "opencode" => lastSeq' = lastSeq) => FramesInv'
  BY <1>1, <1>2, <1>3 DEF FramesInv, Answered
<1> QED BY <1>1, <1>3, <1>4

-----------------------------------------------------------------------------
(* The steps.                                                              *)

(* A selection begins.                                                     *)
LEMMA SelectInv == IInv /\ Select => IInv'
<1> SUFFICES ASSUME IInv, Select PROVE IInv'
  OBVIOUS
<1> USE DEF IInv
<1>1. UNCHANGED said /\ UNCHANGED follow /\ UNCHANGED snapshot
  BY DEF Select
<1>2. /\ HostInv' /\ Low' = Low /\ Count' = Count /\ host' = host /\ log' = log /\ messages' = messages
  BY <1>1, HostSilent
<1>3. /\ entries' = entries /\ lastSeq' = lastSeq /\ hasMore' = hasMore
      /\ oldest' = oldest /\ live' = live
      /\ commanding' = commanding /\ captured' = captured /\ paging' = paging
      /\ happened' = happened /\ selecting' = Waiting
  BY DEF Select, snapshot
<1>4. /\ FramesInv' /\ Pending' = Pending /\ Following' = Following /\ Delivered' = Delivered
      /\ frames' = frames /\ stream' = stream /\ next' = next /\ texts' = texts /\ listed' = listed
  BY <1>1, <1>3, FollowKept
<1>5. EntriesInv'
  BY <1>2, <1>3, <1>4 DEF EntriesInv, Answered
<1>6. HoleInv'
  BY <1>2, <1>3, <1>4 DEF HoleInv, Whole, AnsweredCommand
<1>7. FollowInv' /\ ShownInv'
  BY <1>2, <1>3, <1>4 DEF FollowInv, ShownInv, Steady, Calm, AnsweredCommand, Shown
<1> QED BY <1>2, <1>4, <1>5, <1>6, <1>7

(* The Host answers the hydrate of a selection.                            *)
LEMMA AnswerSelectInv == IInv /\ AnswerSelect => IInv'
<1> SUFFICES ASSUME IInv, AnswerSelect PROVE IInv'
  OBVIOUS
<1> USE DEF IInv
<1>1. UNCHANGED said /\ UNCHANGED follow /\ UNCHANGED snapshot
  BY DEF AnswerSelect
<1>2. /\ HostInv' /\ Low' = Low /\ Count' = Count /\ host' = host /\ log' = log /\ messages' = messages
  BY <1>1, HostSilent
<1>3. /\ entries' = entries /\ lastSeq' = lastSeq /\ hasMore' = hasMore
      /\ oldest' = oldest /\ live' = live
      /\ commanding' = commanding /\ captured' = captured /\ paging' = paging
      /\ happened \subseteq happened' /\ happened' \subseteq happened \cup {"empty"}
      /\ selecting' = IF ListingThrows THEN Failure ELSE Snapshot
  BY DEF AnswerSelect, snapshot, Happened
<1>4. /\ FramesInv' /\ Pending' = Pending /\ Following' = Following /\ Delivered' = Delivered
      /\ frames' = frames /\ stream' = stream /\ next' = next /\ texts' = texts /\ listed' = listed
  BY <1>1, <1>3, FollowKept
<1>5. selecting' \in {Idle, Waiting, Failure} \/ Answered(selecting)'
  BY <1>2, <1>3, SnapshotTold DEF Answered
<1>6. (Whole' => Whole) /\ (Steady' => Steady) /\ (Calm' => Calm)
  BY <1>3 DEF Whole, Steady, Calm
<1>7. EntriesInv'
  BY <1>2, <1>3, <1>4, <1>5 DEF EntriesInv, Answered, Events
<1>8. HoleInv'
  BY <1>2, <1>3, <1>4, <1>6 DEF HoleInv, AnsweredCommand
<1>9. FollowInv' /\ ShownInv'
  BY <1>2, <1>3, <1>4, <1>6 DEF FollowInv, ShownInv, AnsweredCommand, Shown
<1> QED BY <1>2, <1>4, <1>7, <1>8, <1>9

(* A page is asked for: entries are there, and it ends where they begin.   *)
LEMMA LoadOlderInv == IInv /\ LoadOlder => IInv'
<1> SUFFICES ASSUME IInv, LoadOlder PROVE IInv'
  OBVIOUS
<1> USE DEF IInv
<1>1. UNCHANGED said /\ UNCHANGED follow /\ UNCHANGED snapshot
  BY DEF LoadOlder
<1>2. /\ HostInv' /\ Low' = Low /\ Count' = Count /\ host' = host /\ log' = log /\ messages' = messages
  BY <1>1, HostSilent
<1>3. /\ entries' = entries /\ lastSeq' = lastSeq /\ hasMore' = hasMore
      /\ oldest' = oldest /\ live' = live
      /\ commanding' = commanding /\ captured' = captured /\ selecting' = selecting
      /\ happened' = happened /\ paging' = oldest /\ hasMore /\ oldest # -1 /\ paging = -1
  BY DEF LoadOlder, snapshot, BeforeSeq
<1>4. /\ FramesInv' /\ Pending' = Pending /\ Following' = Following /\ Delivered' = Delivered
      /\ frames' = frames /\ stream' = stream /\ next' = next /\ texts' = texts /\ listed' = listed
  BY <1>1, <1>3, FollowKept
<1>5. host # "opencode"
  BY <1>3 DEF EntriesInv
<1>6. EntriesInv'
  BY <1>2, <1>3, <1>4, <1>5 DEF EntriesInv, Answered
<1>7. HoleInv'
  <2> SUFFICES ASSUME Whole PROVE HoleInv'
    BY <1>3 DEF HoleInv, Whole
  <2>1. oldest = FirstSeqOf(entries) /\ lastSeq = LastSeqOf(entries)
    BY <1>3 DEF HoleInv
  <2>2. oldest \in Int /\ oldest <= lastSeq
    <3>1. IsHistory(entries, host, Len(log))
      BY DEF EntriesInv
    <3> QED BY <2>1, <3>1, HistoryBounds
  <2> QED BY <1>2, <1>3, <1>4, <2>2 DEF HoleInv, Whole, AnsweredCommand
<1>8. FollowInv' /\ ShownInv'
  BY <1>2, <1>3, <1>4 DEF FollowInv, ShownInv, Steady, Calm, AnsweredCommand, Shown
<1> QED BY <1>2, <1>4, <1>6, <1>7, <1>8

(* A command remembers the entries there are.                              *)
LEMMA CommandInv == IInv /\ Command => IInv'
<1> SUFFICES ASSUME IInv, Command PROVE IInv'
  OBVIOUS
<1> USE DEF IInv
<1>1. UNCHANGED said /\ UNCHANGED follow /\ UNCHANGED snapshot
  BY DEF Command
<1>2. /\ HostInv' /\ Low' = Low /\ Count' = Count /\ host' = host /\ log' = log /\ messages' = messages
  BY <1>1, HostSilent
<1>3. /\ entries' = entries /\ lastSeq' = lastSeq /\ hasMore' = hasMore
      /\ oldest' = oldest /\ live' = live
      /\ commanding = Idle /\ commanding' = Waiting /\ captured' = entries
      /\ selecting' = selecting /\ paging' = paging
      /\ happened' = happened /\ host = "sequenced"
  BY DEF Command, snapshot
<1>4. /\ FramesInv' /\ Pending' = Pending /\ Following' = Following /\ Delivered' = Delivered
      /\ frames' = frames /\ stream' = stream /\ next' = next /\ texts' = texts /\ listed' = listed
  BY <1>1, <1>3, FollowKept
<1>5. ~AnsweredCommand /\ ~AnsweredCommand' /\ commanding' # Idle
  BY <1>3 DEF AnsweredCommand, Idle, Waiting
<1>6. host # "opencode"
  BY <1>3
<1>7. EntriesInv'
  BY <1>2, <1>3, <1>4, <1>5, <1>6 DEF EntriesInv, Answered
<1>8. HoleInv'
  <2> SUFFICES ASSUME Whole PROVE HoleInv'
    BY <1>3 DEF HoleInv, Whole
  <2>1. /\ lastSeq = LastSeqOf(entries) /\ Contiguous(entries)
        /\ oldest # -1 => oldest = FirstSeqOf(entries)
        /\ paging # -1 => oldest # -1 /\ oldest <= paging /\ paging <= lastSeq
        /\ stream = "listing" => FirstSeqOf(entries) <= Low
        /\ Pending /\ Head(frames).records # {} => FirstSeqOf(entries) <= FirstSeqOf(Head(frames).records)
    BY DEF HoleInv
  <2>2. /\ entries = {} => FirstSeqOf(entries) = -1
        /\ FirstSeqOf(entries) <= LastSeqOf(entries)
        /\ FirstSeqOf(entries) \in Int /\ LastSeqOf(entries) \in Int /\ -1 <= LastSeqOf(entries)
    <3>1. IsHistory(entries, host, Len(log))
      BY DEF EntriesInv
    <3> QED BY <3>1, HistoryBounds
  <2>3. /\ entries = {} => oldest = -1
        /\ oldest <= LastSeqOf(entries) /\ paging <= LastSeqOf(entries)
    BY <2>1, <2>2
  <2> QED BY <1>2, <1>3, <1>4, <1>5, <2>1, <2>3 DEF HoleInv, Whole
<1>9. FollowInv' /\ ShownInv'
  BY <1>2, <1>3, <1>4, <1>5 DEF FollowInv, ShownInv, Steady, Calm, Shown
<1> QED BY <1>2, <1>4, <1>7, <1>8, <1>9

(* The Host answers the hydrate of a command: nothing was said between the *)
(* entries remembered and the answer that is in neither, unless it was     *)
(* more than a page.                                                       *)
LEMMA AnswerCommandInv == IInv /\ AnswerCommand => IInv'
<1> SUFFICES ASSUME IInv, AnswerCommand PROVE IInv'
  OBVIOUS
<1> USE DEF IInv
<1>1. UNCHANGED said /\ UNCHANGED follow /\ UNCHANGED snapshot
  BY DEF AnswerCommand
<1>2. /\ HostInv' /\ Low' = Low /\ Count' = Count /\ host' = host /\ log' = log /\ messages' = messages
  BY <1>1, HostSilent
<1>3. /\ entries' = entries /\ lastSeq' = lastSeq /\ hasMore' = hasMore
      /\ oldest' = oldest /\ live' = live
      /\ commanding = Waiting /\ commanding' = Snapshot /\ captured' = captured
      /\ selecting' = selecting /\ paging' = paging
      /\ happened' = happened \cup Happened(LastSeqOf(Everything) - LastSeqOf(captured) > Page, "burst")
  BY DEF AnswerCommand, snapshot
<1>4. /\ FramesInv' /\ Pending' = Pending /\ Following' = Following /\ Delivered' = Delivered
      /\ frames' = frames /\ stream' = stream /\ next' = next /\ texts' = texts /\ listed' = listed
  BY <1>1, <1>3, FollowKept
<1>5. /\ commanding # Idle /\ host = "sequenced" /\ ~ListingThrows /\ host # "opencode"
  <2>1. commanding # Idle
    BY <1>3 DEF Idle, Waiting
  <2>2. host = "sequenced" /\ host # "opencode"
    BY <2>1, TheLog DEF EntriesInv
  <2> QED BY <2>1, <2>2 DEF ListingThrows
<1>6. /\ IsAnswer(Snapshot, host, Len(log), Low, Count)
      /\ LastSeqOf(Snapshot.records) = Count - 1
      /\ FirstSeqOf(Snapshot.records) = IF Count = 0 THEN -1 ELSE Low
      /\ Count = Len(log) /\ Count \in Nat /\ Low \in Nat /\ Page \in Nat
      /\ Low = IF Len(log) <= Page THEN 0 ELSE Len(log) - Page
  <2>1. Count = Len(log) /\ Low = IF Len(log) <= Page THEN 0 ELSE Len(log) - Page
    BY <1>5 DEF Count, Low
  <2> QED BY <1>5, <2>1, SnapshotTold, TheLog
<1>7. LastSeqOf(Everything) = Count - 1
  <2>1. IsHistory(Everything, host, Len(log)) /\ Seqs(Everything) = 0..(Count - 1)
    BY <1>5, EverythingTold
  <2>2. \A e \in Everything : e.seq \in Numbers
    BY <2>1, HistoryNumbers
  <2>3. Count - 1 \in Int /\ 0 \in Nat /\ (Count - 1 < 0 => Count - 1 = -1)
    BY <1>6
  <2> QED BY <2>1, <2>2, <2>3, Interval
<1>8. /\ happened \subseteq happened' /\ happened' \subseteq happened \cup {"burst"}
      /\ "burst" \notin happened' => Count - 1 - LastSeqOf(captured) <= Page
  <2>1. LastSeqOf(captured) \in Int
    BY HistoryBounds DEF EntriesInv
  <2>2. Count - 1 - LastSeqOf(captured) > Page \/ Count - 1 - LastSeqOf(captured) <= Page
    BY <1>6, <2>1
  <2> QED BY <1>3, <1>7, <2>2 DEF Happened
<1>9. (Whole' => Whole) /\ (Steady' => Steady) /\ (Calm' => Calm)
  BY <1>8 DEF Whole, Steady, Calm
<1>10. commanding' # Idle /\ AnsweredCommand' /\ commanding'.records = Snapshot.records
  <2>1. Snapshot # Idle /\ Snapshot # Waiting
    BY <1>6, AnswersDiffer DEF IsAnswer
  <2> QED BY <1>3, <2>1 DEF AnsweredCommand
<1>11. EntriesInv'
  <2>1. Answered(commanding)'
    BY <1>2, <1>3, <1>6 DEF Answered
  <2> QED BY <1>2, <1>3, <1>4, <1>5, <1>8, <1>10, <2>1 DEF EntriesInv, Answered, Events
<1>12. HoleInv'
  <2> SUFFICES ASSUME Whole' PROVE HoleInv'
    BY DEF HoleInv
  <2>1. Whole
    BY <1>9
  <2>2. /\ LastSeqOf(captured) < Len(log) /\ LastSeqOf(captured) \in Int /\ -1 <= LastSeqOf(captured)
    <3>1. IsHistory(captured, host, Len(log)) /\ captured \subseteq Singles(Len(log))
      BY <1>5 DEF EntriesInv, IsHistory
    <3>2. \A s \in Seqs(captured) : s < Len(log)
      BY <1>6, <3>1 DEF Seqs, Singles
    <3> QED BY <1>6, <3>1, <3>2, HistoryBounds
  <2>3. Count - 1 - LastSeqOf(captured) <= Page
    BY <1>8 DEF Whole
  <2>4. /\ FirstSeqOf(Snapshot.records) <= LastSeqOf(captured) + 1
        /\ LastSeqOf(captured) <= LastSeqOf(Snapshot.records)
    BY <1>6, <2>2, <2>3
  <2> QED BY <1>2, <1>3, <1>4, <1>5, <1>10, <2>1, <2>4 DEF HoleInv
<1>13. FollowInv'
  <2>1. lastSeq <= LastSeqOf(Snapshot.records)
    <3>1. lastSeq < Len(log) /\ lastSeq \in Int
      BY <1>5, HistoryAssumption DEF EntriesInv, Numbers
    <3> QED BY <1>6, <3>1
  <2> QED BY <1>2, <1>3, <1>4, <1>8, <1>9, <1>10, <2>1 DEF FollowInv
<1>14. ShownInv'
  BY <1>2, <1>3, <1>4, <1>9 DEF ShownInv, Shown
<1> QED BY <1>2, <1>4, <1>11, <1>12, <1>13, <1>14

(* The adapter subscribes.                                                 *)
LEMMA SubscribeInv == IInv /\ Subscribe => IInv'
<1> SUFFICES ASSUME IInv, Subscribe PROVE IInv'
  OBVIOUS
<1> USE DEF IInv
<1>1. UNCHANGED said /\ UNCHANGED snapshot /\ UNCHANGED requests
  BY DEF Subscribe
<1>2. /\ HostInv' /\ Low' = Low /\ Count' = Count /\ host' = host /\ log' = log /\ messages' = messages
  BY <1>1, HostSilent
<1>3. /\ entries' = entries /\ lastSeq' = lastSeq /\ hasMore' = hasMore
      /\ oldest' = oldest /\ live' = live
      /\ commanding' = commanding /\ captured' = captured /\ selecting' = selecting
      /\ paging' = paging /\ happened' = happened
      /\ stream = "listed" /\ stream' = "open" /\ frames = <<>> /\ frames' = frames
      /\ next' = next /\ texts' = texts /\ listed' = listed
  BY DEF Subscribe, snapshot, requests
<1>4. Pending' = Pending /\ Following /\ Following' /\ Delivered' = Delivered
  BY <1>2, <1>3 DEF Pending, Following, Delivered
<1>5. FramesInv'
  BY <1>2, <1>3, <1>4 DEF FramesInv, Answered
<1>6. EntriesInv'
  BY <1>2, <1>3 DEF EntriesInv, Answered
<1>7. HoleInv'
  BY <1>2, <1>3, <1>4 DEF HoleInv, Whole, AnsweredCommand
<1>8. FollowInv' /\ ShownInv'
  BY <1>2, <1>3, <1>4 DEF FollowInv, ShownInv, Steady, Calm, AnsweredCommand, Shown
<1> QED BY <1>2, <1>5, <1>6, <1>7, <1>8

(* What is kept and what was answered, when the Host goes on.              *)
LEMMA EntriesKept ==
    ASSUME HostInv, HostInv', FramesInv, EntriesInv, host' = host, Len(log) <= Len(log'),
           messages <= messages', Low <= Low', Count <= Count',
           UNCHANGED snapshot, UNCHANGED requests, stream' = stream, texts' = texts,
           happened' \subseteq Events
    PROVE  /\ EntriesInv'
           /\ Pending => IsAnswer(Head(frames), host', Len(log'), Low', Count')
<1>1. /\ Len(log) \in Nat /\ Len(log') \in Nat /\ Low \in Nat /\ Low' \in Nat
      /\ Count \in Nat /\ Count' \in Nat /\ messages \in Nat /\ messages' \in Nat
  <2>1. Len(log) \in Nat /\ Low \in Nat /\ Count \in Nat /\ messages \in Nat
    BY TheLog
  <2>2. Len(log') \in Nat /\ messages' \in Nat
    BY LenProperties DEF HostInv
  <2>3. Low' \in Nat /\ Count' \in Nat
    BY <2>2, HistoryAssumption DEF Low, Count
  <2> QED BY <2>1, <2>2, <2>3
<1>2. /\ entries' = entries /\ lastSeq' = lastSeq /\ hasMore' = hasMore
      /\ oldest' = oldest /\ live' = live
      /\ commanding' = commanding /\ captured' = captured /\ selecting' = selecting
      /\ paging' = paging
  BY DEF snapshot, requests
<1>3. \A es : IsHistory(es, host, Len(log)) => IsHistory(es, host', Len(log'))
  BY <1>1, HistoryGrows
<1>4. \A a : Answered(a) => IsAnswer(a, host', Len(log'), Low', Count')
  BY <1>1, AnswerGrows DEF Answered
<1>5. lastSeq \in Int
  BY HistoryAssumption DEF EntriesInv, Numbers
<1>6. IsHistory(entries, host, Len(log))' /\ IsHistory(captured, host, Len(log))'
  BY <1>2, <1>3 DEF EntriesInv
<1>7. /\ selecting' \in {Idle, Waiting, Failure} \/ Answered(selecting)'
      /\ commanding' \in {Idle, Waiting} \/ Answered(commanding)'
  BY <1>2, <1>4 DEF EntriesInv, Answered
<1>8. /\ host' = "sequenced" => lastSeq' < Len(log')
      /\ texts' \subseteq 1..Len(log')
      /\ host' = "opencode" /\ stream' = "listing" => lastSeq' < messages'
  BY <1>1, <1>2, <1>5 DEF EntriesInv
<1>9. EntriesInv'
  BY <1>2, <1>6, <1>7, <1>8 DEF EntriesInv
<1>10. Pending => IsAnswer(Head(frames), host', Len(log'), Low', Count')
  BY <1>4 DEF FramesInv
<1> QED BY <1>9, <1>10

(* A message begins.                                                       *)
LEMMA NewMessageInv == IInv /\ NewMessage => IInv'
<1> SUFFICES ASSUME IInv, NewMessage PROVE IInv'
  OBVIOUS
<1> USE DEF IInv
<1>1. /\ messages < MaxMessages /\ messages' = messages + 1 /\ host' = host /\ log' = log
      /\ UNCHANGED snapshot /\ UNCHANGED follow /\ UNCHANGED requests /\ happened' = happened
  BY DEF NewMessage
<1>2. /\ entries' = entries /\ lastSeq' = lastSeq /\ hasMore' = hasMore
      /\ oldest' = oldest /\ live' = live
      /\ commanding' = commanding /\ captured' = captured /\ selecting' = selecting
      /\ paging' = paging
      /\ frames' = frames /\ stream' = stream /\ next' = next /\ texts' = texts /\ listed' = listed
  BY <1>1 DEF snapshot, follow, requests
<1>3. messages \in Nat /\ messages' \in 0..MaxMessages /\ messages <= messages'
  BY <1>1, TheLog
<1>4. HostInv'
  <2>1. log \in Seq(1..messages')
    <3>1. 1..messages \subseteq 1..messages'
      BY <1>1, <1>3
    <3>2. log \in Seq(1..messages)
      BY DEF HostInv
    <3> QED BY <3>1, <3>2, SeqMonotonic
  <2> QED BY <1>1, <1>3, <2>1 DEF HostInv
<1>5. Low' = Low /\ Count <= Count' /\ Low <= Low' /\ Len(log) <= Len(log')
  BY <1>1, <1>3, TheLog DEF Low, Count
<1>6. EntriesInv' /\ (Pending => IsAnswer(Head(frames), host', Len(log'), Low', Count'))
  <2>1. happened' \subseteq Events
    BY <1>1 DEF EntriesInv
  <2> QED BY <1>1, <1>2, <1>3, <1>4, <1>5, <2>1, EntriesKept
<1>7. Pending' = Pending /\ Following' = Following /\ Delivered' = Delivered
  BY <1>1, <1>2 DEF Pending, Following, Delivered
<1>8. FramesInv'
  <2>1. \A x \in 0..messages : x \in 0..messages'
    BY <1>3
  <2> QED BY <1>1, <1>2, <1>6, <1>7, <2>1 DEF FramesInv, Answered
<1>9. HoleInv'
  BY <1>1, <1>2, <1>5, <1>7 DEF HoleInv, Whole, AnsweredCommand
<1>10. FollowInv' /\ ShownInv'
  BY <1>1, <1>2, <1>7 DEF FollowInv, ShownInv, Steady, Calm, AnsweredCommand, Shown
<1> QED BY <1>4, <1>6, <1>8, <1>9, <1>10

(* A line without events is one whatever was said.                         *)
LEMMA LineWithoutEvents ==
    ASSUME NEW n \in Nat, NEW m \in Nat, NEW f, InLine(f, n), EventsIn(f) = 0
    PROVE  InLine(f, m)
<1>1. /\ f \in Seq(Frame) /\ Len(f) \in Nat
      /\ f # <<>> => Len(f) > 0 /\ Head(f) = f[1]
      /\ f = <<>> => Len(f) = 0
  BY TheLine
<1>2. Len(f) <= 1 /\ (Len(f) = 1 => f[1].type = "snapshot")
  <2>1. CASE PendingIn(f)
    <3>1. Len(f) - 1 = 0
      BY <2>1 DEF EventsIn
    <3>2. Len(f) <= 1
      <4>1. Len(f) \in Nat
        BY <1>1
      <4>2. PICK l : l = Len(f)
        OBVIOUS
      <4>3. l \in Nat /\ l - 1 = 0
        BY <3>1, <4>1, <4>2
      <4>4. l <= 1
        BY <4>3
      <4> QED BY <4>2, <4>4
    <3>3. f[1].type = "snapshot"
      BY <1>1, <2>1 DEF PendingIn
    <3> QED BY <3>2, <3>3
  <2>2. CASE ~PendingIn(f)
    <3>1. Len(f) = 0
      BY <2>2 DEF EventsIn
    <3> QED BY <3>1
  <2> QED BY <2>1, <2>2
<1>3. ASSUME NEW i \in 2..Len(f) PROVE FALSE
  BY <1>1, <1>2
<1>4. ASSUME NEW i \in 1..Len(f) PROVE f[i].type = "snapshot"
  <2>1. PICK l : l = Len(f)
    OBVIOUS
  <2>2. l \in Nat /\ l <= 1 /\ i \in 1..l
    BY <1>1, <1>2, <2>1
  <2>3. i = 1 /\ l = 1
    BY <2>2
  <2> QED BY <1>2, <2>1, <2>3
<1> QED BY <1>1, <1>3, <1>4 DEF InLine

(* A chunk is said: it joins the line if the follow is open.               *)
LEMMA SayInv == ASSUME IInv, NEW form \in {"update", "delta"}, Say(form) PROVE IInv'
<1> USE DEF IInv
<1> DEFINE n == Len(log)
           e == [type |-> form, chunk |-> n + 1]
<1>1. /\ messages > 0 /\ n < MaxChunks
      /\ form = "delta" => host = "opencode" /\ ChunksOf(messages) # {}
      /\ log' = Append(log, messages)
      /\ frames' = IF stream = "open" THEN Append(frames, [type |-> form, chunk |-> Len(log')]) ELSE frames
      /\ happened' = happened \cup Happened(stream = "listed", "unheard")
                              \cup Happened(stream \in {"listed", "open"} /\ messages = listed, "midway")
      /\ host' = host /\ messages' = messages
      /\ UNCHANGED snapshot /\ UNCHANGED requests
      /\ stream' = stream /\ listed' = listed /\ next' = next /\ texts' = texts
  BY DEF Say
<1>2. /\ entries' = entries /\ lastSeq' = lastSeq /\ hasMore' = hasMore
      /\ oldest' = oldest /\ live' = live
      /\ commanding' = commanding /\ captured' = captured /\ selecting' = selecting
      /\ paging' = paging
  BY <1>1 DEF snapshot, requests
<1>3. /\ n \in Nat /\ DOMAIN log = 1..n /\ messages \in Nat /\ messages \in 1..messages
      /\ Low \in Nat /\ Count \in Nat /\ Page \in Nat /\ MaxChunks \in Nat
      /\ host \in {"sequenced", "opencode"}
  BY <1>1, TheLog
<1>4. /\ log' \in Seq(1..messages) /\ Len(log') = n + 1
      /\ \A i \in 1..n : log'[i] = log[i]
      /\ log'[n + 1] = messages
  BY <1>1, <1>3, AppendProperties DEF HostInv
<1>5. HostInv'
  BY <1>1, <1>3, <1>4 DEF HostInv
<1>6. Low <= Low' /\ Count <= Count' /\ Len(log) <= Len(log') /\ messages <= messages'
  BY <1>1, <1>3, <1>4 DEF Low, Count
<1>7. /\ happened \subseteq happened' /\ happened' \subseteq happened \cup {"unheard", "midway"}
      /\ "unheard" \notin happened' => stream # "listed"
      /\ "midway" \notin happened' => ~Following \/ messages # listed
  BY <1>1 DEF Happened, Following
<1>8. (Whole' => Whole) /\ (Steady' => Steady) /\ (Calm' => Calm /\ Steady')
  BY <1>7 DEF Whole, Steady, Calm
<1>9. EntriesInv' /\ (Pending => IsAnswer(Head(frames), host', Len(log'), Low', Count'))
  <2>1. happened' \subseteq Events
    BY <1>7 DEF EntriesInv, Events
  <2> QED BY <1>1, <1>5, <1>6, <2>1, EntriesKept
<1>10. Following' = Following /\ (AnsweredCommand' <=> AnsweredCommand)
  BY <1>1, <1>2 DEF Following, AnsweredCommand
<1>11. InLine(frames, n) /\ EventsIn(frames) \in Nat /\ EventsIn(frames) <= n /\ Len(frames) \in Nat
  BY <1>3, TheLine DEF FramesInv
\* the line
<1>12. /\ InLine(frames', Len(log')) /\ Pending' = Pending
       /\ Pending => Head(frames') = Head(frames)
       /\ stream = "open" => Delivered' = Delivered
       /\ stream # "open" => Delivered' = Delivered + 1 /\ frames' = frames /\ EventsIn(frames) = 0
       /\ \A i \in 1..Len(frames) : frames'[i] = frames[i]
       /\ Delivered \in 0..n
       /\ stream = "open" => Len(frames') = Len(frames) + 1 /\ frames'[Len(frames) + 1] = e
  <2>1. CASE stream = "open"
    <3>1. PICK k : k = n
      OBVIOUS
    <3>2. PICK x : x = [type |-> form, chunk |-> k + 1]
      OBVIOUS
    <3>3. PICK g : g = Append(frames, x)
      OBVIOUS
    <3>4. k \in Nat /\ InLine(frames, k) /\ form \in {"update", "delta"} /\ x = e /\ frames' = g
      BY <1>1, <1>3, <1>4, <1>11, <2>1, <3>1, <3>2, <3>3
    <3> HIDE DEF n, e
    <3>5. Joined(frames, g, x, k)
      BY <3>2, <3>3, <3>4, FrameSaid
    <3>6. Delivered' = Delivered /\ Delivered \in 0..n
      <4>1. Delivered = n - EventsIn(frames) /\ Delivered' = Len(log') - EventsIn(frames')
        BY DEF Delivered, n
      <4>2. EventsIn(frames') = EventsIn(frames) + 1 /\ Len(log') = n + 1
        BY <1>4, <3>4, <3>5 DEF n, Joined
      <4>3. n \in Nat /\ EventsIn(frames) \in Nat /\ EventsIn(frames) <= n
        BY <1>3, <1>11
      <4> QED BY <4>1, <4>2, <4>3
    <3>7. Len(log') = n + 1
      BY <1>4 DEF n
    <3> QED BY <2>1, <3>1, <3>4, <3>5, <3>6, <3>7 DEF Pending, Joined
  <2>2. CASE stream # "open"
    <3>1. frames' = frames /\ EventsIn(frames) = 0
      <4>1. frames = <<>> => EventsIn(frames) = 0
        BY FirstFrame, <1>3
      <4> QED BY <1>1, <2>2, <4>1 DEF FramesInv, Following
    <3>2. InLine(frames, n + 1)
      BY <1>3, <1>11, <3>1, LineWithoutEvents
    <3>3. Delivered' = Delivered + 1 /\ Delivered \in 0..n
      BY <1>3, <1>4, <3>1 DEF Delivered
    <3>4. Len(log') = n + 1
      BY <1>4
    <3> HIDE DEF n, e
    <3> QED BY <2>2, <3>1, <3>2, <3>3, <3>4 DEF Pending
  <2> QED BY <2>1, <2>2
<1>13. Pending => Following /\ (host = "sequenced" => stream = "open")
  <2>1. Pending => frames # <<>>
    BY DEF Pending, PendingIn
  <2> QED BY <2>1 DEF FramesInv, Following
<1> HIDE DEF e
<1>14. FramesInv'
  <2>1. ASSUME NEW i \in 1..Len(frames'), frames'[i].type = "delta"
        PROVE  host = "opencode" /\ \E k \in 1..(frames'[i].chunk - 1) : log'[k] = log'[frames'[i].chunk]
    <3>1. CASE i \in 1..Len(frames)
      <4>1. frames'[i] = frames[i]
        BY <1>12, <3>1
      <4>2. frames[i].chunk = n - Len(frames) + i
        BY <1>11, <2>1, <3>1, <4>1 DEF InLine
      <4>3. frames[i].chunk \in Int /\ frames[i].chunk <= n
        BY <1>3, <1>11, <3>1, <4>2
      <4>4. host = "opencode" /\ \E k \in 1..(frames[i].chunk - 1) : log[k] = log[frames[i].chunk]
        BY <2>1, <3>1, <4>1 DEF FramesInv
      <4> DEFINE c == frames[i].chunk
      <4>5. PICK k \in 1..(c - 1) : log[k] = log[c]
        BY <4>4
      <4> HIDE DEF c
      <4>6. k \in 1..n /\ c \in 1..n
        BY <1>3, <4>3 DEF c
      <4>7. log'[k] = log'[c]
        BY <1>4, <4>5, <4>6
      <4> QED BY <4>1, <4>4, <4>7 DEF c
    <3>2. CASE i \notin 1..Len(frames)
      <4>1. stream = "open" /\ i = Len(frames) + 1 /\ frames'[i] = e
        BY <1>11, <1>12, <3>2
      <4>2. form = "delta" /\ frames'[i].chunk = n + 1
        BY <2>1, <4>1 DEF e
      <4>3. PICK k \in ChunksOf(messages) : TRUE
        BY <1>1, <4>2
      <4>4. k \in 1..n /\ log[k] = messages
        BY <1>3, <4>3 DEF ChunksOf
      <4>5. k \in 1..((n + 1) - 1) /\ log'[k] = log'[n + 1]
        BY <1>3, <1>4, <4>4
      <4> QED BY <1>1, <4>2, <4>5
    <3> QED BY <3>1, <3>2
  <2>2. Pending' =>
          /\ Answered(Head(frames))'
          /\ LastSeqOf(Head(frames').records) = (IF host' = "sequenced" THEN Delivered' ELSE next') - 1
          /\ host' = "opencode" => texts' = {} /\ lastSeq' < next'
    BY <1>1, <1>2, <1>9, <1>12, <1>13 DEF FramesInv, Answered
  <2>3. host' = "opencode" /\ Following' =>
          /\ next' \in 0..(MaxMessages + Delivered') /\ texts' \subseteq 1..Delivered'
          /\ listed' \in 0..messages'
    <3>1. 0..(MaxMessages + Delivered) \subseteq 0..(MaxMessages + Delivered') /\ 1..Delivered \subseteq 1..Delivered'
      <4>1. Delivered' = Delivered \/ Delivered' = Delivered + 1
        BY <1>12
      <4>2. Delivered \in Nat /\ MaxMessages \in Nat
        BY <1>3, <1>12, TheLog
      <4> QED BY <4>1, <4>2
    <3> QED BY <1>1, <1>10, <3>1 DEF FramesInv
  <2>4. ~Following' => frames' = <<>>
    BY <1>10, <1>12 DEF FramesInv, Following
  <2>5. stream' = "listed" => host' = "opencode" /\ EventsIn(frames') = 0
    BY <1>1, <1>12 DEF FramesInv
  <2>6. stream' \in {"none", "listing", "listed", "open", "ended"}
    BY <1>1 DEF FramesInv
  <2> QED BY <1>1, <1>12, <2>1, <2>2, <2>3, <2>4, <2>5, <2>6 DEF FramesInv
<1>15. HoleInv'
  <2> SUFFICES ASSUME Whole' PROVE HoleInv'
    BY DEF HoleInv
  <2>1. stream = "listing" => FirstSeqOf(entries) <= Low' /\ FirstSeqOf(captured) <= Low'
    <3>1. FirstSeqOf(entries) \in Int /\ FirstSeqOf(captured) \in Int
      BY HistoryBounds DEF EntriesInv
    <3>2. Low' \in Nat
      BY <1>5, HistoryAssumption DEF Low, HostInv
    <3> QED BY <1>3, <1>6, <1>8, <3>1, <3>2 DEF HoleInv
  <2> QED BY <1>1, <1>2, <1>8, <1>10, <1>12, <2>1 DEF HoleInv
<1>16. FollowInv'
  <2>1. ASSUME Steady', Following PROVE Delivered' = Delivered /\ stream = "open"
    BY <1>7, <1>12, <2>1 DEF Steady, Following
  <2>2. ASSUME Steady', host = "opencode", Following
        PROVE  /\ \A i \in 1..Delivered : log'[i] > listed => i \in texts
               /\ \A i \in (Delivered + 1)..(n + 1) : log'[i] > listed
    <3>1. messages > listed
      BY <1>3, <1>7, <2>2 DEF Steady, FramesInv
    <3>2. /\ \A i \in 1..Delivered : log[i] > listed => i \in texts
          /\ \A i \in (Delivered + 1)..n : log[i] > listed
      BY <1>8, <2>2 DEF FollowInv
    <3>3. /\ \A i \in 1..Delivered : i \in 1..n
          /\ \A i \in (Delivered + 1)..(n + 1) : i = n + 1 \/ (i \in 1..n /\ i \in (Delivered + 1)..n)
      BY <1>3, <1>12
    <3> QED BY <1>4, <3>1, <3>2, <3>3
  <2>3. Steady' /\ Following /\ ~Pending =>
             /\ live
             /\ host = "sequenced" => Delivered - 1 <= lastSeq
             /\ host = "opencode" => lastSeq = next - 1
    BY <1>8 DEF FollowInv
  <2>4. Steady' /\ AnsweredCommand /\ Following /\ ~Pending => lastSeq <= LastSeqOf(commanding.records)
    BY <1>8 DEF FollowInv
  <2>5. Steady' /\ "empty" \notin happened' => stream # "ended"
    BY <1>7, <1>8 DEF FollowInv
  <2> QED BY <1>1, <1>2, <1>4, <1>10, <1>12, <2>1, <2>2, <2>3, <2>4, <2>5 DEF FollowInv
<1>17. ShownInv'
  <2> SUFFICES ASSUME Calm' PROVE ShownInv'
    BY DEF ShownInv
  <2>1. Following => Delivered' = Delivered
    BY <1>7, <1>12 DEF Calm, Following
  <2> QED BY <1>1, <1>2, <1>8, <1>10, <1>12, <1>13, <2>1 DEF ShownInv, Shown
<1> QED BY <1>5, <1>9, <1>14, <1>15, <1>16, <1>17

(* The Session is selected: what the Host answered is shown, and followed. *)
LEMMA SelectedInv == IInv /\ Selected => IInv'
<1> SUFFICES ASSUME IInv, Selected PROVE IInv'
  OBVIOUS
<1> USE DEF IInv
<1>1. UNCHANGED said /\ commanding' = commanding /\ captured' = captured /\ paging' = paging
      /\ selecting \notin {Idle, Waiting} /\ selecting' = Idle
  BY DEF Selected
<1>2. /\ HostInv' /\ Low' = Low /\ Count' = Count /\ host' = host /\ log' = log /\ messages' = messages
  BY <1>1, HostSilent
<1>3. CASE selecting = Failure
  <2>1. UNCHANGED snapshot /\ UNCHANGED follow /\ happened' = happened
    BY <1>3 DEF Selected
  <2>2. /\ entries' = entries /\ lastSeq' = lastSeq /\ hasMore' = hasMore
        /\ oldest' = oldest /\ live' = live
    BY <2>1 DEF snapshot
  <2>3. /\ FramesInv' /\ Pending' = Pending /\ Following' = Following /\ Delivered' = Delivered
        /\ frames' = frames /\ stream' = stream /\ next' = next /\ texts' = texts /\ listed' = listed
    BY <1>1, <2>1, <2>2, FollowKept
  <2>4. EntriesInv'
    BY <1>1, <1>2, <2>1, <2>2, <2>3 DEF EntriesInv, Answered
  <2>5. HoleInv'
    BY <1>1, <1>2, <2>1, <2>2, <2>3 DEF HoleInv, Whole, AnsweredCommand
  <2>6. FollowInv' /\ ShownInv'
    BY <1>1, <1>2, <2>1, <2>2, <2>3 DEF FollowInv, ShownInv, Steady, Calm, AnsweredCommand, Shown
  <2> QED BY <1>2, <2>3, <2>4, <2>5, <2>6
<1>4. CASE selecting # Failure
  <2> DEFINE es == selecting.records
  <2>1. /\ entries' = es /\ lastSeq' = LastSeqOf(es) /\ hasMore' = selecting.hasMore
        /\ oldest' = FirstSeqOf(es) /\ live' = FALSE
        /\ stream' = "listing" /\ frames' = <<>>
        /\ listed' = listed /\ next' = next /\ texts' = texts
        /\ happened' = happened \cup Happened(paging # -1 \/ commanding # Idle, "overtaken")
    BY <1>4 DEF Selected
  <2>2. /\ IsHistory(es, host, Len(log)) /\ Contiguous(es) /\ Disjoint(es)
        /\ selecting.hasMore = (FirstSeqOf(es) > 0)
        /\ FirstSeqOf(es) <= Low /\ LastSeqOf(es) < Count
    BY <1>1, <1>4 DEF EntriesInv, Answered, IsAnswer
  <2> HIDE DEF es
  <2>3. /\ happened \subseteq happened' /\ happened' \subseteq happened \cup {"overtaken"}
        /\ "overtaken" \notin happened' => paging = -1 /\ commanding = Idle
    BY <2>1 DEF Happened
  <2>4. ~Pending' /\ ~Following' /\ InLine(frames', Len(log'))
    BY <1>2, <2>1, FirstFrame, TheLog DEF Pending, Following
  <2>5. FramesInv'
    <3>1. Len(frames') = 0
      BY <2>1
    <3> QED BY <2>1, <2>4, <3>1 DEF FramesInv
  <2>6. /\ {LastSeqOf(es), FirstSeqOf(es)} \subseteq {-1} \cup Numbers
        /\ \A s \in Seqs(es) : s <= LastSeqOf(es)
        /\ FirstSeqOf(es) \in Int /\ LastSeqOf(es) \in Int
        /\ FirstSeqOf(es) <= LastSeqOf(es)
        /\ es = {} => FirstSeqOf(es) = -1
    BY <2>2, HistoryBounds
  <2>7. EntriesInv'
    <3>1. host = "sequenced" => LastSeqOf(es) < Len(log)
      BY <2>2 DEF Count
    <3>2. host = "opencode" => selecting.hasMore = FALSE /\ LastSeqOf(es) < messages
      <4>1. host = "opencode" => Low = 0 /\ Count = messages
        BY DEF Low, Count
      <4>2. host = "opencode" => ~(FirstSeqOf(es) > 0)
        BY <2>2, <2>6, <4>1
      <4>3. host = "opencode" => LastSeqOf(es) < messages
        BY <2>2, <4>1
      <4>4. selecting.hasMore = (FirstSeqOf(es) > 0)
        BY <2>2
      <4>5. host = "opencode" => (FirstSeqOf(es) > 0) = FALSE
        BY <4>2
      <4>6. host = "opencode" => selecting.hasMore = FALSE
        BY <4>4, <4>5, Zenon
      <4> QED BY <4>3, <4>6
    <3>3. selecting.hasMore \in BOOLEAN
      BY <2>2
    <3> QED BY <1>1, <1>2, <2>1, <2>2, <2>3, <2>6, <3>1, <3>2, <3>3 DEF EntriesInv, Answered, Events
  <2>8. HoleInv'
    <3> SUFFICES ASSUME Whole' PROVE HoleInv'
      BY DEF HoleInv
    <3>1. paging = -1 /\ commanding = Idle /\ captured = {}
      BY <2>3 DEF Whole, EntriesInv
    <3>2. FirstSeqOf(captured) <= Low
      BY <3>1, FirstAndLast, TheLog
    <3> QED BY <1>1, <1>2, <2>1, <2>2, <2>4, <2>6, <3>1, <3>2 DEF HoleInv, AnsweredCommand
  <2>9. FollowInv'
    BY <2>1, <2>4 DEF FollowInv
  <2>10. ShownInv'
    BY <2>1, <2>2, <2>4 DEF ShownInv
  <2> QED BY <1>2, <2>5, <2>7, <2>8, <2>9, <2>10
<1> QED BY <1>3, <1>4

(* The follow opens with a snapshot that touches what is shown, unless     *)
(* more than a page has been said since.                                   *)
LEMMA OpenInv == IInv /\ Open => IInv'
<1> SUFFICES ASSUME IInv, Open PROVE IInv'
  OBVIOUS
<1> USE DEF IInv
<1>1. UNCHANGED said /\ UNCHANGED snapshot /\ UNCHANGED requests /\ stream = "listing"
  BY DEF Open
<1>2. /\ HostInv' /\ Low' = Low /\ Count' = Count /\ host' = host /\ log' = log /\ messages' = messages
  BY <1>1, HostSilent
<1>3. /\ entries' = entries /\ lastSeq' = lastSeq /\ hasMore' = hasMore
      /\ oldest' = oldest /\ live' = live
      /\ commanding' = commanding /\ captured' = captured /\ selecting' = selecting
      /\ paging' = paging
  BY <1>1 DEF snapshot, requests
<1>4. ~Following /\ frames = <<>> /\ ~Pending
  BY <1>1 DEF FramesInv, Following, Pending, PendingIn
<1>5. CASE ListingThrows
  <2>1. /\ stream' = "ended" /\ happened' = happened \cup {"empty"}
        /\ frames' = frames /\ next' = next /\ texts' = texts /\ listed' = listed
    BY <1>5 DEF Open
  <2>2. ~Pending' /\ ~Following' /\ InLine(frames', Len(log')) /\ Len(frames') = 0
    BY <1>2, <1>4, <2>1, FirstFrame, TheLog DEF Pending, Following
  <2>3. (Whole' => Whole) /\ (Calm' => Calm) /\ "empty" \in happened'
    BY <2>1 DEF Whole, Calm
  <2>4. FramesInv'
    BY <1>4, <2>1, <2>2 DEF FramesInv
  <2>5. EntriesInv'
    BY <1>2, <1>3, <2>1 DEF EntriesInv, Answered, Events
  <2>6. HoleInv'
    BY <1>3, <2>1, <2>2, <2>3 DEF HoleInv, AnsweredCommand
  <2>7. FollowInv' /\ ShownInv'
    BY <1>3, <2>2, <2>3 DEF FollowInv, ShownInv
  <2> QED BY <1>2, <2>4, <2>5, <2>6, <2>7
<1>6. CASE ~ListingThrows
  <2> DEFINE S == Snapshot
             es == S.records
  <2>1. /\ stream' = IF host = "opencode" THEN "listed" ELSE "open"
        /\ frames' = <<S>>
        /\ listed' = IF host = "opencode" THEN messages ELSE 0
        /\ next' = FirstLiveSeq(es) /\ texts' = {}
        /\ happened' = happened \cup Happened(LastSeqOf(Everything) - lastSeq > Page, "burst")
    BY <1>6 DEF Open
  <2>2. /\ IsAnswer(S, host, Len(log), Low, Count) /\ S \in Answer
        /\ LastSeqOf(es) = Count - 1
        /\ FirstSeqOf(es) = IF Count = 0 THEN -1 ELSE Low
        /\ host = "opencode" =>
             FirstLiveSeq(es) = messages /\ UNION {e.shows : e \in es} = 1..Len(log)
    BY <1>6, SnapshotTold DEF IsAnswer
  <2>3. LastSeqOf(Everything) = Count - 1
    <3>1. IsHistory(Everything, host, Len(log)) /\ Seqs(Everything) = 0..(Count - 1)
      BY <1>6, EverythingTold
    <3>2. \A e \in Everything : e.seq \in Numbers
      BY <3>1, HistoryNumbers
    <3>3. Count - 1 \in Int /\ 0 \in Nat /\ (Count - 1 < 0 => Count - 1 = -1)
      BY TheLog
    <3> QED BY <3>1, <3>2, <3>3, Interval
  <2>4. /\ Count \in Nat /\ Low \in Nat /\ Page \in Nat /\ Len(log) \in Nat /\ messages \in Nat
        /\ DOMAIN log = 1..Len(log) /\ \A i \in 1..Len(log) : log[i] \in 1..messages
        /\ host \in {"sequenced", "opencode"} /\ MaxMessages \in Nat /\ messages <= MaxMessages
        /\ lastSeq \in Int /\ -1 <= lastSeq
    <3>1. lastSeq \in Int /\ -1 <= lastSeq
      BY HistoryAssumption DEF EntriesInv, Numbers
    <3>2. messages <= MaxMessages
      BY TheLog DEF HostInv
    <3> QED BY <3>1, <3>2, TheLog
  <2> HIDE DEF S, es
  <2>5. /\ InLine(frames', Len(log')) /\ Pending' /\ Head(frames') = S /\ Len(frames') = 1
        /\ EventsIn(frames') = 0 /\ Delivered' = Len(log) /\ Following'
        /\ frames'[1] = S /\ S.type = "snapshot"
    <3>1. /\ InLine(<<S>>, Len(log)) /\ PendingIn(<<S>>) /\ EventsIn(<<S>>) = 0
          /\ Head(<<S>>) = S /\ Len(<<S>>) = 1 /\ <<S>>[1] = S
      BY <2>2, <2>4, FirstFrame
    <3>2. S.type = "snapshot"
      BY <2>2 DEF Answer
    <3>3. Following'
      BY <2>1 DEF Following
    <3> QED BY <1>2, <2>1, <2>4, <3>1, <3>2, <3>3 DEF Pending, Delivered
  <2>6. /\ happened \subseteq happened' /\ happened' \subseteq happened \cup {"burst"}
        /\ "burst" \notin happened' => Count - 1 - lastSeq <= Page
    <3>1. Count - 1 - lastSeq > Page \/ Count - 1 - lastSeq <= Page
      BY <2>4
    <3> QED BY <2>1, <2>3, <3>1 DEF Happened
  <2>7. FramesInv'
    <3>1. LastSeqOf(es) = (IF host = "sequenced" THEN Delivered' ELSE next') - 1
      BY <2>1, <2>2, <2>4, <2>5 DEF Count
    <3>2. host = "opencode" => lastSeq < next'
      BY <1>1, <2>1, <2>2 DEF EntriesInv
    <3>3. host = "opencode" => next' \in 0..(MaxMessages + Delivered') /\ listed' \in 0..messages
      BY <2>1, <2>2, <2>4, <2>5
    <3>4. \A i \in 1..Len(frames') : frames'[i].type # "delta"
      BY <2>5
    <3>5. IsAnswer(Head(frames'), host', Len(log'), Low', Count') /\ Head(frames').records = es
      BY <1>2, <2>2, <2>5 DEF es
    <3>6. stream' \in {"listed", "open"} /\ (stream' = "listed" => host = "opencode")
      BY <2>1
    <3> QED BY <1>2, <1>3, <2>1, <2>5, <3>1, <3>2, <3>3, <3>4, <3>5, <3>6 DEF FramesInv, Answered
  <2>8. EntriesInv'
    <3>1. stream' # "listing"
      BY <2>1
    <3> QED BY <1>2, <1>3, <2>1, <2>6, <3>1 DEF EntriesInv, Answered, Events
  <2>9. HoleInv'
    <3> SUFFICES ASSUME Whole' PROVE HoleInv'
      BY DEF HoleInv
    <3>1. Whole /\ Count - 1 - lastSeq <= Page
      BY <2>6 DEF Whole
    <3>2. FirstSeqOf(es) <= lastSeq + 1
      <4>1. CASE host = "sequenced"
        <5>1. Count = Len(log) /\ Low = IF Len(log) <= Page THEN 0 ELSE Len(log) - Page
          BY <4>1 DEF Count, Low
        <5>2. FirstSeqOf(es) = -1 \/ FirstSeqOf(es) = Low
          BY <2>2
        <5>3. Low <= lastSeq + 1
          <6>1. CASE Len(log) <= Page
            BY <2>4, <5>1, <6>1
          <6>2. CASE ~(Len(log) <= Page)
            <7>1. Low = Len(log) - Page /\ Len(log) - 1 - lastSeq <= Page
              BY <3>1, <5>1, <6>2
            <7>2. Len(log) \in Nat /\ Page \in Nat /\ lastSeq \in Int
              BY <2>4
            <7> QED BY <7>1, <7>2
          <6> QED BY <6>1, <6>2
        <5> QED BY <2>4, <5>2, <5>3
      <4>2. CASE host = "opencode"
        <5>1. Low = 0
          BY <4>2 DEF Low
        <5> QED BY <2>2, <2>4, <5>1
      <4> QED BY <2>4, <4>1, <4>2
    <3>3. ASSUME es # {} PROVE FirstSeqOf(es) = Low
      <4>1. IsHistory(es, host, Len(log))
        BY <2>2 DEF IsAnswer, es
      <4>2. FirstSeqOf(es) \in Nat
        BY <3>3, <4>1, HistoryBounds
      <4> QED BY <2>2, <4>2
    <3>4. FirstSeqOf(entries) <= Low /\ FirstSeqOf(captured) <= Low
      BY <1>1, <3>1 DEF HoleInv
    <3>5. /\ FirstSeqOf(Head(frames').records) <= lastSeq + 1
          /\ Head(frames').records # {} =>
                /\ FirstSeqOf(entries) <= FirstSeqOf(Head(frames').records)
                /\ FirstSeqOf(captured) <= FirstSeqOf(Head(frames').records)
      BY <2>5, <3>2, <3>3, <3>4 DEF es
    <3>6. stream' # "listing"
      BY <2>1
    <3>7. Head(frames').records = {} => FirstSeqOf(entries) <= 0 /\ FirstSeqOf(captured) <= 0
      <4>1. es = {} => Low = 0
        <5>1. es = {} => LastSeqOf(es) = -1
          BY FirstAndLast
        <5>2. es = {} => Count = 0
          BY <2>2, <2>4, <5>1
        <5>3. host = "sequenced" /\ Count = 0 => Len(log) = 0 /\ Len(log) <= Page
          BY <2>4 DEF Count
        <5> QED BY <2>4, <5>2, <5>3 DEF Low
      <4>2. FirstSeqOf(entries) \in Int /\ FirstSeqOf(captured) \in Int
        BY HistoryBounds DEF EntriesInv
      <4>3. es = {} => FirstSeqOf(entries) <= 0 /\ FirstSeqOf(captured) <= 0
        BY <3>4, <4>1, <4>2
      <4> QED BY <2>5, <4>3 DEF es
    <3> QED BY <1>1, <1>2, <1>3, <3>1, <3>5, <3>6, <3>7 DEF HoleInv, AnsweredCommand
  <2>10. FollowInv'
    <3>1. host = "opencode" =>
            /\ \A i \in 1..Len(log) : ~(log[i] > messages)
            /\ \A i \in (Len(log) + 1)..Len(log) : FALSE
      BY <2>4
    <3>2. stream' # "ended"
      BY <2>1
    <3> QED BY <1>2, <2>1, <2>5, <3>1, <3>2 DEF FollowInv
  <2>11. ShownInv'
    <3>1. Calm' => Calm
      BY <2>6 DEF Calm
    <3>2. host = "opencode" => UNION {e.shows : e \in Head(frames').records} = 1..Len(log)
      BY <2>2, <2>5 DEF es
    <3> QED BY <1>2, <1>3, <2>5, <3>1, <3>2 DEF ShownInv, Shown
  <2> QED BY <1>2, <2>7, <2>8, <2>9, <2>10, <2>11
<1> QED BY <1>5, <1>6

(* A page is put before what is shown, and touches it.                     *)
LEMMA PageLoadedInv == IInv /\ PageLoaded => IInv'
<1> SUFFICES ASSUME IInv, PageLoaded PROVE IInv'
  OBVIOUS
<1> USE DEF IInv
<1>1. PICK older : older = Window(paging)
  OBVIOUS
<1>2. /\ UNCHANGED said /\ UNCHANGED follow
      /\ selecting' = selecting /\ commanding' = commanding /\ captured' = captured
      /\ lastSeq' = lastSeq /\ live' = live /\ happened' = happened
      /\ paging # -1 /\ paging' = -1
      /\ entries' = MergeHistoryEntries(older, entries)
      /\ hasMore' = (FirstSeqOf(older) > 0)
      /\ oldest' = FirstSeqOf(entries')
  BY <1>1 DEF PageLoaded
<1>3. /\ HostInv' /\ Low' = Low /\ Count' = Count /\ host' = host /\ log' = log /\ messages' = messages
  BY <1>2, HostSilent
<1>4. /\ FramesInv' /\ Pending' = Pending /\ Following' = Following /\ Delivered' = Delivered
      /\ frames' = frames /\ stream' = stream /\ next' = next /\ texts' = texts /\ listed' = listed
  BY <1>2, FollowKept
<1>5. /\ host = "sequenced" /\ host # "opencode" /\ paging \in Nat /\ Len(log) \in Nat /\ Low \in Nat
      /\ Page \in Nat /\ Page > 0 /\ lastSeq \in Int /\ lastSeq < Len(log)
  <2>1. host = "sequenced" /\ host # "opencode" /\ Len(log) \in Nat /\ Low \in Nat /\ Page \in Nat /\ Page > 0
    BY <1>2, TheLog DEF EntriesInv
  <2>2. paging \in Nat /\ lastSeq \in Int
    BY <1>2, HistoryAssumption DEF EntriesInv, Numbers
  <2> QED BY <2>1, <2>2 DEF EntriesInv
<1>6. PICK m : m = IF paging <= Len(log) THEN paging ELSE Len(log)
  OBVIOUS
<1>7. PICK lo : lo = IF m <= Page THEN 0 ELSE m - Page
  OBVIOUS
<1>8. m \in Nat /\ m <= paging /\ lo \in Nat /\ lo <= m /\ (lo = m => m = 0)
  <2>1. m \in Nat /\ m <= paging
    BY <1>5, <1>6
  <2> QED BY <1>5, <1>7, <2>1
<1>9. IsHistory(older, host, Len(log)) /\ Seqs(older) = lo..(m - 1)
  BY <1>1, <1>5, <1>6, <1>7, PageOf
<1>10. /\ Contiguous(older)
       /\ m > 0 => older # {} /\ FirstSeqOf(older) = lo /\ LastSeqOf(older) = m - 1
       /\ m = 0 => older = {}
  <2>1. \A e \in older : e.seq \in Numbers
    BY <1>9, HistoryBounds
  <2>2. m - 1 \in Int
    BY <1>8
  <2>3. /\ Contiguous(older)
        /\ lo <= m - 1 => older # {} /\ FirstSeqOf(older) = lo /\ LastSeqOf(older) = m - 1
        /\ m - 1 < lo => older = {}
    BY <1>8, <1>9, <2>1, <2>2, Interval
  <2> QED BY <1>8, <2>3
<1>11. IsHistory(entries, host, Len(log)) /\ \A e \in older \cup entries : e.seq \in Numbers
  BY <1>9, HistoryBounds DEF EntriesInv
<1>12. IsHistory(entries', host, Len(log))
  BY <1>2, <1>9, <1>11, Merged
<1>13. /\ LastSeqOf(entries') = IF LastSeqOf(older) <= LastSeqOf(entries) THEN LastSeqOf(entries) ELSE LastSeqOf(older)
       /\ older = {} => FirstSeqOf(entries') = FirstSeqOf(entries)
       /\ older # {} /\ entries # {} =>
            FirstSeqOf(entries') = IF FirstSeqOf(older) <= FirstSeqOf(entries) THEN FirstSeqOf(older) ELSE FirstSeqOf(entries)
       /\ (/\ Contiguous(older) /\ Contiguous(entries)
           /\ FirstSeqOf(older) <= LastSeqOf(entries) + 1 \/ entries = {}
           /\ FirstSeqOf(entries) <= LastSeqOf(older) + 1 \/ older = {}) => Contiguous(entries')
  BY <1>2, <1>11, MergedBounds
<1>14. /\ FirstSeqOf(entries) \in Int /\ LastSeqOf(entries) \in Int
       /\ entries = {} => FirstSeqOf(entries) = -1
       /\ entries # {} => FirstSeqOf(entries) \in Nat
       /\ FirstSeqOf(older) \in Int /\ LastSeqOf(older) \in Int
       /\ older = {} => FirstSeqOf(older) = -1 /\ LastSeqOf(older) = -1
  BY <1>9, <1>11, HistoryBounds
<1>15. EntriesInv'
  <2>1. oldest' \in {-1} \cup Numbers
    BY <1>2, <1>12, HistoryBounds
  <2>2. hasMore' \in BOOLEAN
    BY <1>2
  <2> QED BY <1>2, <1>3, <1>4, <1>5, <1>12, <2>1, <2>2 DEF EntriesInv, Answered
\* where the page touches
<1>16. ASSUME Whole
       PROVE  /\ oldest # -1 /\ entries # {} /\ oldest = FirstSeqOf(entries)
              /\ Contiguous(entries') /\ LastSeqOf(entries') = lastSeq
              /\ FirstSeqOf(entries') \in Int /\ FirstSeqOf(entries') <= oldest
              /\ FirstSeqOf(entries') > 0 => hasMore'
  <2>1. /\ Contiguous(entries) /\ lastSeq = LastSeqOf(entries)
        /\ oldest # -1 /\ oldest = FirstSeqOf(entries) /\ oldest <= paging /\ paging <= lastSeq
    BY <1>2, <1>16 DEF HoleInv
  <2>2. entries # {} /\ m = paging
    BY <1>5, <1>6, <1>14, <2>1
  <2>3. CASE m = 0
    <3>1. older = {} /\ FirstSeqOf(older) = -1 /\ LastSeqOf(older) = -1
      BY <1>10, <1>14, <2>3
    <3>2. FirstSeqOf(entries') = oldest /\ Contiguous(entries')
      <4>1. FirstSeqOf(older) <= LastSeqOf(entries) + 1
        BY <1>5, <1>14, <2>1, <3>1
      <4>2. Contiguous(entries')
        BY <1>10, <1>13, <2>1, <3>1, <4>1
      <4> QED BY <1>13, <2>1, <3>1, <4>2
    <3>3. LastSeqOf(entries') = lastSeq
      BY <1>5, <1>13, <1>14, <2>1, <2>2, <2>3, <3>1
    <3>4. ~(FirstSeqOf(entries') > 0)
      BY <1>5, <1>14, <2>1, <2>2, <2>3, <3>2
    <3> QED BY <1>14, <2>1, <2>2, <3>2, <3>3, <3>4
  <2>4. CASE m # 0
    <3>1. older # {} /\ FirstSeqOf(older) = lo /\ LastSeqOf(older) = m - 1
      BY <1>8, <1>10, <2>4
    <3>2. /\ FirstSeqOf(older) <= LastSeqOf(entries) + 1
          /\ FirstSeqOf(entries) <= LastSeqOf(older) + 1
      BY <1>5, <1>8, <1>14, <2>1, <2>2, <3>1
    <3>3. Contiguous(entries')
      BY <1>10, <1>13, <2>1, <3>2
    <3>4. LastSeqOf(entries') = lastSeq
      <4>1. LastSeqOf(older) <= LastSeqOf(entries)
        BY <1>5, <1>8, <1>14, <2>1, <2>2, <3>1
      <4> QED BY <1>13, <2>1, <4>1
    <3>5. /\ FirstSeqOf(entries') \in Int /\ FirstSeqOf(entries') <= oldest
          /\ FirstSeqOf(entries') <= FirstSeqOf(older)
      <4>1. FirstSeqOf(entries') = IF FirstSeqOf(older) <= FirstSeqOf(entries) THEN FirstSeqOf(older) ELSE FirstSeqOf(entries)
        BY <1>13, <2>2, <3>1
      <4> QED BY <1>14, <2>1, <4>1
    <3>6. FirstSeqOf(entries') > 0 => FirstSeqOf(older) > 0
      BY <1>14, <3>5
    <3> QED BY <1>2, <2>1, <2>2, <3>3, <3>4, <3>5, <3>6
  <2> QED BY <2>3, <2>4
<1>17. HoleInv'
  <2> SUFFICES ASSUME Whole' PROVE HoleInv'
    BY DEF HoleInv
  <2>1. Whole
    BY <1>2 DEF Whole
  <2>2. commanding # Idle =>
          /\ captured # {} /\ oldest' <= LastSeqOf(captured) /\ -1 <= LastSeqOf(captured)
    <3>1. LastSeqOf(captured) \in Int /\ -1 <= LastSeqOf(captured)
      BY HistoryBounds DEF EntriesInv
    <3>2. commanding # Idle => captured # {} /\ oldest <= LastSeqOf(captured)
      BY <1>16, <2>1 DEF HoleInv
    <3> QED BY <1>2, <1>14, <1>16, <2>1, <3>1, <3>2
  <2>3. stream = "listing" => FirstSeqOf(entries') <= Low
    BY <1>5, <1>14, <1>16, <2>1 DEF HoleInv
  <2>4. Pending /\ Head(frames).records # {} => FirstSeqOf(entries') <= FirstSeqOf(Head(frames).records)
    <3>1. Pending => FirstSeqOf(Head(frames).records) \in Int
      BY HistoryBounds DEF FramesInv, Answered, IsAnswer
    <3> QED BY <1>14, <1>16, <2>1, <3>1 DEF HoleInv
  <2>5. Pending /\ Head(frames).records = {} => FirstSeqOf(entries') <= 0
    BY <1>14, <1>16, <2>1 DEF HoleInv
  <2> QED BY <1>2, <1>3, <1>4, <1>16, <2>1, <2>2, <2>3, <2>4, <2>5 DEF HoleInv, AnsweredCommand
<1>18. FollowInv'
  BY <1>2, <1>3, <1>4 DEF FollowInv, Steady, AnsweredCommand
<1>19. ShownInv'
  <2> SUFFICES ASSUME Calm' PROVE ShownInv'
    BY DEF ShownInv
  <2>1. Whole
    BY <1>2 DEF Whole, Calm
  <2>2. Disjoint(entries')
    BY <1>5, <1>12, SinglesAreDisjoint DEF IsHistory
  <2> QED BY <1>3, <1>5, <1>16, <2>1, <2>2 DEF ShownInv
<1> QED BY <1>3, <1>4, <1>15, <1>17, <1>18, <1>19

(* A command ends: what it remembered and what it was answered are shown.  *)
LEMMA CommandedInv == IInv /\ Commanded => IInv'
<1> SUFFICES ASSUME IInv, Commanded PROVE IInv'
  OBVIOUS
<1> USE DEF IInv
<1>1. PICK R : R = commanding.records
  OBVIOUS
<1>2. /\ UNCHANGED said /\ UNCHANGED follow
      /\ selecting' = selecting /\ commanding' = Idle /\ captured' = {} /\ paging' = paging
      /\ lastSeq' = LastSeqOf(R) /\ live' = live
      /\ AnsweredCommand
      /\ entries' = MergeHistoryEntries(captured, R)
      /\ hasMore' = commanding.hasMore
      /\ oldest' = FirstSeqOf(entries')
      /\ happened' = happened \cup Happened(paging # -1 /\ oldest' > paging, "reverted")
  BY <1>1 DEF Commanded
<1>3. /\ HostInv' /\ Low' = Low /\ Count' = Count /\ host' = host /\ log' = log /\ messages' = messages
  BY <1>2, HostSilent
<1>4. /\ host = "sequenced" /\ host # "opencode" /\ Len(log) \in Nat /\ Low \in Nat /\ Count = Len(log)
      /\ Answered(commanding)
  <2>1. host = "sequenced" /\ host # "opencode" /\ Answered(commanding)
    BY <1>2, TheLog DEF EntriesInv, AnsweredCommand
  <2> QED BY <2>1, TheLog DEF Count
<1>5. /\ FramesInv' /\ Pending' = Pending /\ Following' = Following /\ Delivered' = Delivered
      /\ frames' = frames /\ stream' = stream /\ next' = next /\ texts' = texts /\ listed' = listed
  BY <1>2, <1>4, FollowKept
<1>6. /\ IsHistory(R, host, Len(log)) /\ Contiguous(R)
      /\ commanding.hasMore = (FirstSeqOf(R) > 0)
      /\ FirstSeqOf(R) <= Low /\ LastSeqOf(R) < Count
  BY <1>1, <1>4 DEF Answered, IsAnswer
<1>7. IsHistory(captured, host, Len(log)) /\ \A e \in captured \cup R : e.seq \in Numbers
  BY <1>6, HistoryBounds DEF EntriesInv
<1>8. IsHistory(entries', host, Len(log))
  BY <1>2, <1>6, <1>7, Merged
<1>9. /\ FirstSeqOf(R) \in Int /\ LastSeqOf(R) \in Int /\ -1 <= LastSeqOf(R)
      /\ R = {} => FirstSeqOf(R) = -1 /\ LastSeqOf(R) = -1
      /\ R # {} => FirstSeqOf(R) \in Nat
      /\ {FirstSeqOf(R), LastSeqOf(R)} \subseteq {-1} \cup Numbers
      /\ FirstSeqOf(captured) \in Int /\ LastSeqOf(captured) \in Int /\ -1 <= LastSeqOf(captured)
      /\ captured = {} => FirstSeqOf(captured) = -1 /\ LastSeqOf(captured) = -1
      /\ captured # {} => FirstSeqOf(captured) \in Nat /\ LastSeqOf(captured) \in Nat
      /\ FirstSeqOf(captured) <= LastSeqOf(captured)
  BY <1>6, <1>7, HistoryBounds
<1>10. /\ FirstSeqOf(entries') \in Int /\ {FirstSeqOf(entries')} \subseteq {-1} \cup Numbers
       /\ FirstSeqOf(entries') <= LastSeqOf(entries')
  BY <1>8, HistoryBounds
<1>11. /\ LastSeqOf(entries') = IF LastSeqOf(captured) <= LastSeqOf(R) THEN LastSeqOf(R) ELSE LastSeqOf(captured)
       /\ captured = {} => FirstSeqOf(entries') = FirstSeqOf(R)
       /\ R = {} => FirstSeqOf(entries') = FirstSeqOf(captured)
       /\ captured # {} /\ R # {} =>
            FirstSeqOf(entries') = IF FirstSeqOf(captured) <= FirstSeqOf(R) THEN FirstSeqOf(captured) ELSE FirstSeqOf(R)
       /\ (/\ Contiguous(captured) /\ Contiguous(R)
           /\ FirstSeqOf(captured) <= LastSeqOf(R) + 1 \/ R = {}
           /\ FirstSeqOf(R) <= LastSeqOf(captured) + 1 \/ captured = {}) => Contiguous(entries')
  BY <1>2, <1>7, MergedBounds
\* the first number is that of the answer, or smaller
<1>12. FirstSeqOf(entries') <= FirstSeqOf(R) \/ R = {}
  BY <1>9, <1>11
<1>13. /\ happened \subseteq happened' /\ happened' \subseteq happened \cup {"reverted"}
       /\ "reverted" \notin happened' => paging = -1 \/ oldest' <= paging
  <2>1. paging = -1 \/ paging \in Int
    BY HistoryAssumption DEF EntriesInv, Numbers
  <2>2. paging # -1 => oldest' > paging \/ oldest' <= paging
    BY <1>2, <1>10, <2>1
  <2> QED BY <1>2, <2>2 DEF Happened
<1>14. (Whole' => Whole) /\ (Steady' => Steady) /\ (Calm' => Calm /\ Whole' /\ Steady')
  BY <1>13 DEF Whole, Steady, Calm
<1>15. ~AnsweredCommand' /\ commanding' \in {Idle, Waiting}
  BY <1>2 DEF AnsweredCommand
<1>16. EntriesInv'
  <2>1. oldest' \in {-1} \cup Numbers /\ lastSeq' \in {-1} \cup Numbers /\ paging' \in {-1} \cup Numbers
    BY <1>2, <1>9, <1>10 DEF EntriesInv
  <2>2. hasMore' \in BOOLEAN /\ lastSeq' < Len(log)
    BY <1>2, <1>4, <1>6
  <2>3. IsHistory({}, host, Len(log))
    BY DEF IsHistory
  <2> QED BY <1>2, <1>3, <1>4, <1>5, <1>8, <1>13, <1>15, <2>1, <2>2, <2>3 DEF EntriesInv, Answered, Events
<1>17. HoleInv'
  <2> SUFFICES ASSUME Whole' PROVE HoleInv'
    BY DEF HoleInv
  <2>1. /\ Contiguous(captured)
        /\ FirstSeqOf(R) <= LastSeqOf(captured) + 1
        /\ LastSeqOf(captured) <= LastSeqOf(R)
        /\ captured = {} => oldest = -1
        /\ captured # {} => paging <= LastSeqOf(captured)
        /\ stream = "listing" \/ Pending => LastSeqOf(captured) = lastSeq
    BY <1>1, <1>2, <1>14 DEF HoleInv, AnsweredCommand
  <2>2. /\ paging # -1 => oldest # -1 /\ oldest <= paging /\ paging <= lastSeq
        /\ stream = "listing" => FirstSeqOf(captured) <= Low
        /\ Pending => FirstSeqOf(Head(frames).records) <= lastSeq + 1
        /\ Pending /\ Head(frames).records # {} => FirstSeqOf(captured) <= FirstSeqOf(Head(frames).records)
        /\ Pending /\ Head(frames).records = {} => FirstSeqOf(captured) <= 0
    BY <1>14 DEF HoleInv
  <2>3. LastSeqOf(entries') = LastSeqOf(R)
    BY <1>11, <2>1
  <2>4. Contiguous(entries')
    <3>1. FirstSeqOf(captured) <= LastSeqOf(R) + 1
      BY <1>9, <2>1
    <3> QED BY <1>6, <1>11, <2>1, <3>1
  <2>5. paging # -1 =>
           oldest' # -1 /\ oldest' <= paging /\ paging <= LastSeqOf(R)
    <3> SUFFICES ASSUME paging # -1
                 PROVE  oldest' # -1 /\ oldest' <= paging /\ paging <= LastSeqOf(R)
      OBVIOUS
    <3>1. captured # {} /\ paging <= LastSeqOf(captured)
      BY <2>1, <2>2
    <3>2. paging \in Int
      BY HistoryAssumption DEF EntriesInv, Numbers
    <3>3. oldest' <= paging
      BY <1>13 DEF Whole
    <3>4. R # {}
      BY <1>9, <2>1, <3>1
    <3>5. FirstSeqOf(entries') \in Nat
      BY <1>9, <1>11, <3>1, <3>4
    <3> QED BY <1>2, <1>9, <2>1, <3>1, <3>2, <3>3, <3>5
  <2>6. stream = "listing" => FirstSeqOf(entries') <= Low
    <3>1. R = {} => FirstSeqOf(entries') <= Low
      <4>1. R = {} => captured = {}
        BY <1>9, <2>1
      <4> QED BY <1>4, <1>6, <1>11, <4>1
    <3> QED BY <1>4, <1>6, <1>9, <1>10, <1>12, <3>1
  <2>7. ASSUME Pending
        PROVE  /\ FirstSeqOf(Head(frames).records) <= LastSeqOf(R) + 1
               /\ Head(frames).records # {} => FirstSeqOf(entries') <= FirstSeqOf(Head(frames).records)
               /\ Head(frames).records = {} => FirstSeqOf(entries') <= 0
    <3>1. PICK F : F = Head(frames).records
      OBVIOUS
    <3>2. FirstSeqOf(F) \in Int /\ (F # {} => FirstSeqOf(F) \in Nat)
      BY <2>7, <3>1, HistoryBounds DEF FramesInv, Answered, IsAnswer
    <3>3. FirstSeqOf(F) <= lastSeq + 1 /\ lastSeq = LastSeqOf(captured)
      BY <2>1, <2>2, <2>7, <3>1
    <3>4. FirstSeqOf(F) <= LastSeqOf(R) + 1
      BY <1>9, <2>1, <3>2, <3>3
    <3>5. captured # {} => FirstSeqOf(entries') <= FirstSeqOf(captured)
      BY <1>9, <1>11
    <3>6. captured = {} => FirstSeqOf(entries') <= 0
      <4>1. captured = {} => FirstSeqOf(R) <= 0
        BY <1>9, <2>1
      <4> QED BY <1>11, <4>1
    <3>7. ASSUME F # {} PROVE FirstSeqOf(entries') <= FirstSeqOf(F)
      <4>1. FirstSeqOf(captured) <= FirstSeqOf(F)
        BY <2>2, <2>7, <3>1, <3>7
      <4> QED BY <1>9, <1>10, <3>2, <3>5, <3>6, <3>7, <4>1
    <3>8. ASSUME F = {} PROVE FirstSeqOf(entries') <= 0
      <4>1. FirstSeqOf(captured) <= 0
        BY <2>2, <2>7, <3>1, <3>8
      <4> QED BY <1>9, <1>10, <3>5, <3>6, <4>1
    <3> QED BY <3>1, <3>4, <3>7, <3>8
  <2>8. stream = "listing" => FirstSeqOf({}) <= Low
    BY <1>4, FirstAndLast
  <2>9. ASSUME Pending, Head(frames).records # {} PROVE FirstSeqOf({}) <= FirstSeqOf(Head(frames).records)
    <3>1. FirstSeqOf({}) = -1
      BY FirstAndLast
    <3>2. FirstSeqOf(Head(frames).records) \in Nat
      BY <2>9, HistoryBounds DEF FramesInv, Answered, IsAnswer
    <3> QED BY <3>1, <3>2
  <2>10. FirstSeqOf({}) <= 0
    BY FirstAndLast
  <2> QED BY <1>2, <1>3, <1>5, <1>15, <2>3, <2>4, <2>5, <2>6, <2>7, <2>8, <2>9, <2>10 DEF HoleInv
<1>18. FollowInv'
  <2>1. ASSUME Steady', Following, ~Pending
        PROVE  Delivered - 1 <= LastSeqOf(R) /\ live
    <3>1. live /\ Delivered - 1 <= lastSeq /\ lastSeq <= LastSeqOf(R)
      BY <1>1, <1>2, <1>4, <1>14, <2>1 DEF FollowInv
    <3>2. lastSeq \in Int
      BY HistoryAssumption DEF EntriesInv, Numbers
    <3>3. Delivered \in Int
      BY <1>4, TheLine DEF FramesInv, Delivered
    <3> QED BY <1>9, <3>1, <3>2, <3>3
  <2>2. Steady' /\ "empty" \notin happened' => stream # "ended"
    BY <1>13, <1>14 DEF FollowInv
  <2> QED BY <1>2, <1>3, <1>4, <1>5, <1>15, <2>1, <2>2 DEF FollowInv
<1>19. ShownInv'
  <2> SUFFICES ASSUME Calm' PROVE ShownInv'
    BY DEF ShownInv
  <2>1. Disjoint(entries')
    BY <1>4, <1>8, SinglesAreDisjoint DEF IsHistory
  <2>2. FirstSeqOf(entries') > 0 => hasMore'
    <3>1. ASSUME FirstSeqOf(entries') > 0 PROVE FirstSeqOf(R) > 0
      <4>1. CASE R # {}
        BY <1>9, <1>10, <1>12, <3>1, <4>1
      <4>2. CASE R = {}
        <5>1. captured = {}
          BY <1>1, <1>2, <1>9, <1>14, <4>2 DEF HoleInv
        <5> QED BY <1>9, <1>11, <3>1, <4>2, <5>1
      <4> QED BY <4>1, <4>2
    <3> QED BY <1>2, <1>6, <3>1
  <2> QED BY <1>3, <1>4, <2>1, <2>2 DEF ShownInv
<1> QED BY <1>3, <1>5, <1>16, <1>17, <1>18, <1>19

(* The greater of two numbers.                                             *)
LEMMA MaxOfTwo ==
    ASSUME NEW a \in Int, NEW b \in Int
    PROVE  Max({a, b}) = IF a <= b THEN b ELSE a
<1> DEFINE c == IF a <= b THEN b ELSE a
           m == Max({a, b})
<1>1. c \in {a, b} /\ \A y \in {a, b} : c >= y
  OBVIOUS
<1>2. m \in {a, b} /\ \A y \in {a, b} : m >= y
  <2> HIDE DEF c
  <2> QED BY <1>1 DEF Max
<1> HIDE DEF m
<1>3. m >= a /\ m >= b /\ m \in Int /\ (m = a \/ m = b)
  BY <1>2
<1>4. m = c
  BY <1>3
<1> QED BY <1>4 DEF m

(* The snapshot of the follow is merged into what is shown.                *)
LEMMA DeliverSnapshotInv == IInv /\ DeliverSnapshot => IInv'
<1> SUFFICES ASSUME IInv, DeliverSnapshot PROVE IInv'
  OBVIOUS
<1> USE DEF IInv
<1>1. PICK S : S = Head(frames).records
  OBVIOUS
<1>2. /\ UNCHANGED said /\ UNCHANGED requests
      /\ Pending /\ frames # <<>> /\ frames' = Tail(frames)
      /\ entries' = MergeHistoryEntries(entries, S)
      /\ lastSeq' = Max({lastSeq, LastSeqOf(S)})
      /\ hasMore' = Head(frames).hasMore /\ live' = TRUE
      /\ happened' = happened \cup Happened(AnsweredCommand, "raced")
      /\ oldest' = oldest /\ stream' = stream /\ listed' = listed /\ next' = next /\ texts' = texts
  BY <1>1 DEF DeliverSnapshot, Pending, PendingIn
<1>3. /\ HostInv' /\ Low' = Low /\ Count' = Count /\ host' = host /\ log' = log /\ messages' = messages
  BY <1>2, HostSilent
<1>4. /\ commanding' = commanding /\ captured' = captured /\ selecting' = selecting /\ paging' = paging
      /\ (AnsweredCommand' <=> AnsweredCommand)
  BY <1>2 DEF requests, AnsweredCommand
<1>5. Following /\ Following' /\ stream # "listing" /\ stream # "ended"
  <2>1. Following
    BY <1>2 DEF FramesInv
  <2> QED BY <1>2, <2>1 DEF Following
<1>6. /\ Len(log) \in Nat /\ Low \in Nat /\ Count \in Nat /\ InLine(frames, Len(log))
      /\ host \in {"sequenced", "opencode"}
      /\ EventsIn(frames) \in 0..Len(log) /\ Len(frames) \in Nat /\ Len(frames) > 0
  <2>1. Len(log) \in Nat /\ InLine(frames, Len(log))
    BY TheLog DEF FramesInv
  <2> QED BY <1>2, <2>1, TheLog, TheLine
<1>7. /\ InLine(frames', Len(log)) /\ ~Pending' /\ EventsIn(frames') = EventsIn(frames)
      /\ Len(frames') = Len(frames) - 1
      /\ \A i \in 1..Len(frames') : frames'[i] = frames[i + 1]
  <2>1. /\ InLine(Tail(frames), Len(log)) /\ ~PendingIn(Tail(frames))
        /\ EventsIn(Tail(frames)) = IF PendingIn(frames) THEN EventsIn(frames) ELSE EventsIn(frames) - 1
        /\ Len(Tail(frames)) = Len(frames) - 1
        /\ \A i \in 1..Len(Tail(frames)) : Tail(frames)[i] = frames[i + 1]
    BY <1>2, <1>6, FrameDelivered
  <2> QED BY <1>2, <2>1 DEF Pending
<1>8. Delivered' = Delivered /\ Delivered \in Nat
  BY <1>3, <1>6, <1>7 DEF Delivered
<1>9. /\ IsHistory(S, host, Len(log)) /\ Contiguous(S) /\ Disjoint(S)
      /\ hasMore' = (FirstSeqOf(S) > 0)
      /\ FirstSeqOf(S) <= Low /\ LastSeqOf(S) < Count
      /\ LastSeqOf(S) = (IF host = "sequenced" THEN Delivered ELSE next) - 1
      /\ host = "opencode" => lastSeq < next
  BY <1>1, <1>2 DEF FramesInv, Answered, IsAnswer
<1>10. IsHistory(entries, host, Len(log)) /\ \A e \in entries \cup S : e.seq \in Numbers
  BY <1>9, HistoryBounds DEF EntriesInv
<1>11. /\ FirstSeqOf(S) \in Int /\ LastSeqOf(S) \in Int /\ -1 <= LastSeqOf(S)
       /\ FirstSeqOf(S) <= LastSeqOf(S)
       /\ S = {} => FirstSeqOf(S) = -1 /\ LastSeqOf(S) = -1
       /\ S # {} => FirstSeqOf(S) \in Nat /\ LastSeqOf(S) \in Nat
       /\ {FirstSeqOf(S), LastSeqOf(S)} \subseteq {-1} \cup Numbers
       /\ \A s \in Seqs(S) : s <= LastSeqOf(S)
       /\ FirstSeqOf(entries) \in Int /\ LastSeqOf(entries) \in Int
       /\ entries = {} => FirstSeqOf(entries) = -1 /\ LastSeqOf(entries) = -1
       /\ entries # {} => FirstSeqOf(entries) \in Nat /\ LastSeqOf(entries) \in Nat
       /\ lastSeq \in {-1} \cup Numbers /\ Seqs(entries) \subseteq Nat
       /\ lastSeq \in Int /\ paging \in Int
  <2>1. lastSeq \in {-1} \cup Numbers /\ lastSeq \in Int /\ paging \in Int
    BY HistoryAssumption DEF EntriesInv, Numbers
  <2>2. /\ FirstSeqOf(S) \in Int /\ LastSeqOf(S) \in Int /\ -1 <= LastSeqOf(S)
        /\ FirstSeqOf(S) <= LastSeqOf(S)
        /\ S = {} => FirstSeqOf(S) = -1 /\ LastSeqOf(S) = -1
        /\ S # {} => FirstSeqOf(S) \in Nat /\ LastSeqOf(S) \in Nat
        /\ {FirstSeqOf(S), LastSeqOf(S)} \subseteq {-1} \cup Numbers
        /\ \A s \in Seqs(S) : s <= LastSeqOf(S)
    <3>1. IsHistory(S, host, Len(log))
      BY <1>9
    <3>2. /\ FirstSeqOf(S) \in Int /\ LastSeqOf(S) \in Int
          /\ -1 <= FirstSeqOf(S) /\ FirstSeqOf(S) <= LastSeqOf(S)
          /\ S = {} => FirstSeqOf(S) = -1 /\ LastSeqOf(S) = -1
          /\ S # {} => FirstSeqOf(S) \in Nat /\ LastSeqOf(S) \in Nat
          /\ {FirstSeqOf(S), LastSeqOf(S)} \subseteq {-1} \cup Numbers
          /\ \A s \in Seqs(S) : s <= LastSeqOf(S)
      BY <3>1, HistoryBounds
    <3>3. -1 <= LastSeqOf(S)
      BY <3>2
    <3> QED BY <3>2, <3>3
  <2>3. /\ FirstSeqOf(entries) \in Int /\ LastSeqOf(entries) \in Int
        /\ entries = {} => FirstSeqOf(entries) = -1 /\ LastSeqOf(entries) = -1
        /\ entries # {} => FirstSeqOf(entries) \in Nat /\ LastSeqOf(entries) \in Nat
        /\ Seqs(entries) \subseteq Nat
    BY <1>10, HistoryBounds
  <2> QED BY <2>1, <2>2, <2>3
<1>12. lastSeq' = IF lastSeq <= LastSeqOf(S) THEN LastSeqOf(S) ELSE lastSeq
  BY <1>2, <1>11, MaxOfTwo
<1>13. /\ IsHistory(entries', host, Len(log)) /\ Seqs(entries') = Seqs(entries) \cup Seqs(S)
       /\ Seqs(entries) \subseteq Seqs(S) => entries' = S
  BY <1>2, <1>9, <1>10, Merged
<1>14. /\ LastSeqOf(entries') = IF LastSeqOf(entries) <= LastSeqOf(S) THEN LastSeqOf(S) ELSE LastSeqOf(entries)
       /\ entries = {} => FirstSeqOf(entries') = FirstSeqOf(S)
       /\ S = {} => FirstSeqOf(entries') = FirstSeqOf(entries)
       /\ entries # {} /\ S # {} =>
            FirstSeqOf(entries') = IF FirstSeqOf(entries) <= FirstSeqOf(S) THEN FirstSeqOf(entries) ELSE FirstSeqOf(S)
       /\ (/\ Contiguous(entries) /\ Contiguous(S)
           /\ FirstSeqOf(entries) <= LastSeqOf(S) + 1 \/ S = {}
           /\ FirstSeqOf(S) <= LastSeqOf(entries) + 1 \/ entries = {}) => Contiguous(entries')
  BY <1>2, <1>10, MergedBounds
<1>15. /\ happened \subseteq happened' /\ happened' \subseteq happened \cup {"raced"}
       /\ "raced" \notin happened' => ~AnsweredCommand
  BY <1>2 DEF Happened
<1>16. (Whole' => Whole) /\ (Steady' => Steady /\ ~AnsweredCommand) /\ (Calm' => Calm /\ Steady /\ Whole)
  BY <1>15 DEF Whole, Steady, Calm
<1>17. host = "opencode" => hasMore' = FALSE
  <2>1. host = "opencode" => ~(FirstSeqOf(S) > 0)
    BY <1>9, <1>11 DEF Low
  <2>2. host = "opencode" => (FirstSeqOf(S) > 0) = FALSE
    BY <2>1
  <2>3. hasMore' = (FirstSeqOf(S) > 0)
    BY <1>9
  <2> QED BY <2>2, <2>3, Zenon
<1>18. FramesInv'
  <2>1. ASSUME NEW i \in 1..Len(frames'), frames'[i].type = "delta"
        PROVE  /\ host = "opencode"
               /\ \E k \in 1..(frames'[i].chunk - 1) : log[k] = log[frames'[i].chunk]
    <3>1. i + 1 \in 1..Len(frames) /\ frames'[i] = frames[i + 1]
      BY <1>6, <1>7
    <3> QED BY <2>1, <3>1 DEF FramesInv
  <2>2. stream' = "listed" => host' = "opencode" /\ EventsIn(frames') = 0
    BY <1>2, <1>3, <1>7 DEF FramesInv
  <2>3. stream' \in {"none", "listing", "listed", "open", "ended"}
    BY <1>2 DEF FramesInv
  <2>4. host' = "opencode" /\ Following' =>
          /\ next' \in 0..(MaxMessages + Delivered') /\ texts' \subseteq 1..Delivered'
          /\ listed' \in 0..messages'
    BY <1>2, <1>3, <1>5, <1>8 DEF FramesInv
  <2> QED BY <1>3, <1>5, <1>7, <2>1, <2>2, <2>3, <2>4 DEF FramesInv
<1>19. EntriesInv'
  <2>1. lastSeq' \in {-1} \cup Numbers
    BY <1>11, <1>12
  <2>2. host = "sequenced" => lastSeq' < Len(log)
    <3>1. host = "sequenced" => LastSeqOf(S) < Len(log) /\ lastSeq < Len(log)
      BY <1>9 DEF Count, EntriesInv
    <3> QED BY <1>12, <3>1
  <2>3. host = "opencode" => \A s \in Seqs(entries') : s <= lastSeq'
    <3> SUFFICES ASSUME host = "opencode", NEW s \in Seqs(entries') PROVE s <= lastSeq'
      OBVIOUS
    <3>1. (s \in Nat /\ s <= lastSeq) \/ (s \in Nat /\ s <= LastSeqOf(S))
      <4>1. Seqs(S) \subseteq Nat
        BY <1>9, HistoryBounds
      <4> QED BY <1>11, <1>13, <4>1 DEF EntriesInv
    <3>2. lastSeq <= lastSeq' /\ LastSeqOf(S) <= lastSeq' /\ lastSeq' \in Int
      BY <1>11, <1>12
    <3> QED BY <1>11, <3>1, <3>2
  <2>4. hasMore' \in BOOLEAN
    BY <1>9
  <2> QED BY <1>2, <1>3, <1>4, <1>5, <1>13, <1>15, <1>17, <2>1, <2>2, <2>3, <2>4 DEF EntriesInv, Answered, Events
<1>20. ASSUME Whole
       PROVE  /\ Contiguous(entries') /\ lastSeq' = LastSeqOf(entries')
              /\ oldest # -1 => oldest = FirstSeqOf(entries')
              /\ FirstSeqOf(entries') > 0 => FirstSeqOf(S) > 0
  <2>1. /\ Contiguous(entries) /\ lastSeq = LastSeqOf(entries)
        /\ oldest # -1 => oldest = FirstSeqOf(entries)
        /\ FirstSeqOf(S) <= lastSeq + 1
        /\ S # {} => FirstSeqOf(entries) <= FirstSeqOf(S)
        /\ S = {} => FirstSeqOf(entries) <= 0
    BY <1>1, <1>2, <1>20 DEF HoleInv
  <2>2. lastSeq' = LastSeqOf(entries')
    BY <1>12, <1>14, <2>1
  <2>3. Contiguous(entries')
    <3>1. FirstSeqOf(entries) <= LastSeqOf(S) + 1 \/ S = {}
      BY <1>11, <2>1
    <3> QED BY <1>9, <1>14, <2>1, <3>1
  <2>4. entries # {} => FirstSeqOf(entries') = FirstSeqOf(entries)
    BY <1>11, <1>14, <2>1
  <2>5. oldest # -1 => oldest = FirstSeqOf(entries')
    BY <1>11, <2>1, <2>4
  <2>6. FirstSeqOf(entries') > 0 => FirstSeqOf(S) > 0
    <3>1. CASE entries = {}
      BY <1>14, <3>1
    <3>2. CASE entries # {}
      BY <1>11, <2>1, <2>4, <3>2
    <3> QED BY <3>1, <3>2
  <2> QED BY <2>2, <2>3, <2>5, <2>6
<1>21. HoleInv'
  <2> SUFFICES ASSUME Whole' PROVE HoleInv'
    BY DEF HoleInv
  <2>1. Whole
    BY <1>16
  <2>2. paging # -1 => oldest # -1 /\ oldest <= paging /\ paging <= lastSeq'
    <3>1. paging # -1 => oldest # -1 /\ oldest <= paging /\ paging <= lastSeq
      BY <2>1 DEF HoleInv
    <3> QED BY <1>11, <1>12, <3>1
  <2> QED BY <1>2, <1>4, <1>5, <1>7, <1>20, <2>1, <2>2 DEF HoleInv
<1>22. FollowInv'
  <2> SUFFICES ASSUME Steady' PROVE FollowInv'
    BY DEF FollowInv
  <2>1. host = "sequenced" => Delivered - 1 <= lastSeq'
    BY <1>8, <1>9, <1>11, <1>12
  <2>2. host = "opencode" => lastSeq' = next - 1
    <3>1. host = "opencode" => next \in Int
      BY <1>5, TheLog DEF FramesInv
    <3>2. host = "opencode" => LastSeqOf(S) = next - 1
      BY <1>9
    <3> QED BY <1>9, <1>11, <1>12, <3>1, <3>2
  <2>3. host = "opencode" =>
             /\ \A i \in 1..Delivered : log[i] > listed => i \in texts
             /\ \A i \in (Delivered + 1)..Len(log) : log[i] > listed
    BY <1>5, <1>16 DEF FollowInv
  <2> QED BY <1>2, <1>3, <1>4, <1>5, <1>8, <1>16, <2>1, <2>2, <2>3 DEF FollowInv
<1>23. ShownInv'
  <2> SUFFICES ASSUME Calm' PROVE ShownInv'
    BY DEF ShownInv
  <2>1. ASSUME host = "sequenced" PROVE Disjoint(entries')
    BY <1>6, <1>13, <2>1, SinglesAreDisjoint DEF IsHistory
  <2>2. ASSUME host = "opencode" PROVE entries' = S
    <3>1. Seqs(S) = FirstSeqOf(S)..LastSeqOf(S) \/ S = {}
      BY <1>9, <1>10, Interval
    <3>2. next \in Nat /\ LastSeqOf(S) = next - 1 /\ lastSeq < next
      BY <1>5, <1>9, <2>2, TheLog DEF FramesInv
    <3>3. S # {} => FirstSeqOf(S) = 0
      BY <1>9, <1>11, <2>2 DEF Low
    <3>4. ASSUME NEW s \in Seqs(entries) PROVE s \in Seqs(S)
      <4>1. s \in Nat /\ s <= lastSeq
        BY <1>11, <2>2 DEF EntriesInv
      <4>2. S # {} /\ s \in 0..LastSeqOf(S)
        BY <1>11, <3>2, <4>1
      <4> QED BY <3>1, <3>3, <4>2
    <3> QED BY <1>13, <3>4
  <2>3. Disjoint(entries')
    BY <1>6, <1>9, <2>1, <2>2
  <2>4. host = "opencode" => UNION {e.shows : e \in S} = 1..Delivered
    BY <1>1, <1>2, <1>16 DEF ShownInv
  <2>5. host = "opencode" => Shown' = 1..Delivered
    BY <2>2, <2>4 DEF Shown
  <2>6. FirstSeqOf(entries') > 0 => hasMore'
    BY <1>9, <1>16, <1>20
  <2> QED BY <1>3, <1>7, <1>8, <2>3, <2>5, <2>6 DEF ShownInv
<1> QED BY <1>3, <1>18, <1>19, <1>21, <1>22, <1>23

(* An event in front of the line: the chunk after those the follow is      *)
(* through with.                                                           *)
LEMMA EventInFront ==
    ASSUME IInv, frames # <<>>, Head(frames).type # "snapshot"
    PROVE  /\ stream = "open" /\ ~Pending /\ Len(log) \in Nat
           /\ Head(frames).type \in {"update", "delta"}
           /\ Head(frames).chunk = Delivered + 1 /\ Delivered \in Nat /\ Delivered + 1 <= Len(log)
           /\ InLine(Tail(frames), Len(log)) /\ ~PendingIn(Tail(frames))
           /\ EventsIn(Tail(frames)) = EventsIn(frames) - 1
           /\ Head(frames).type = "delta" =>
                 host = "opencode" /\ \E k \in 1..Delivered : log[k] = log[Delivered + 1]
           /\ \A i \in 1..Len(Tail(frames)) : Tail(frames)[i].type = "delta" =>
                 /\ host = "opencode"
                 /\ \E k \in 1..(Tail(frames)[i].chunk - 1) : log[k] = log[Tail(frames)[i].chunk]
<1> USE DEF IInv
<1>1. Len(log) \in Nat /\ InLine(frames, Len(log)) /\ ~Pending
  BY TheLog DEF FramesInv, Pending, PendingIn
<1>2. /\ Len(frames) \in Nat /\ Len(frames) > 0 /\ Head(frames) = frames[1]
      /\ EventsIn(frames) \in 0..Len(log)
      /\ Head(frames).type \in {"update", "delta"}
      /\ Head(frames).chunk = Len(log) - EventsIn(frames) + 1 /\ Head(frames).chunk \in 1..Len(log)
  BY <1>1, TheLine DEF Pending
<1>3. stream = "open"
  <2>1. Following
    BY DEF FramesInv
  <2>2. EventsIn(frames) # 0
    BY <1>1, <1>2 DEF EventsIn, Pending
  <2> QED BY <2>1, <2>2 DEF FramesInv, Following
<1>4. Head(frames).chunk = Delivered + 1 /\ Delivered \in Nat /\ Delivered + 1 <= Len(log)
  BY <1>1, <1>2 DEF Delivered
<1>5. /\ InLine(Tail(frames), Len(log)) /\ ~PendingIn(Tail(frames))
      /\ EventsIn(Tail(frames)) = IF PendingIn(frames) THEN EventsIn(frames) ELSE EventsIn(frames) - 1
      /\ Len(Tail(frames)) = Len(frames) - 1
      /\ \A i \in 1..Len(Tail(frames)) : Tail(frames)[i] = frames[i + 1]
  BY <1>1, FrameDelivered
<1>6. ASSUME Head(frames).type = "delta"
      PROVE  host = "opencode" /\ \E k \in 1..Delivered : log[k] = log[Delivered + 1]
  <2>1. 1 \in 1..Len(frames)
    BY <1>2
  <2>2. host = "opencode" /\ \E k \in 1..(Head(frames).chunk - 1) : log[k] = log[Head(frames).chunk]
    BY <1>2, <1>6, <2>1 DEF FramesInv
  <2>3. Head(frames).chunk - 1 = Delivered
    BY <1>4
  <2> QED BY <1>4, <2>2, <2>3
<1>7. ASSUME NEW i \in 1..Len(Tail(frames)), Tail(frames)[i].type = "delta"
      PROVE  /\ host = "opencode"
             /\ \E k \in 1..(Tail(frames)[i].chunk - 1) : log[k] = log[Tail(frames)[i].chunk]
  <2>1. i + 1 \in 1..Len(frames) /\ Tail(frames)[i] = frames[i + 1]
    BY <1>2, <1>5
  <2> QED BY <1>7, <2>1 DEF FramesInv
<1>8. EventsIn(Tail(frames)) = EventsIn(frames) - 1
  BY <1>1, <1>5 DEF Pending
<1> QED BY <1>1, <1>2, <1>3, <1>4, <1>5, <1>6, <1>7, <1>8

(* An entry with the number after the last one joins the history, without  *)
(* a hole.                                                                 *)
LEMMA EntryJoins ==
    ASSUME HostInv, EntriesInv, HoleInv, NEW x \in EntriesOf(Len(log)), NEW es,
           es = entries \cup {x}, x.seq > lastSeq, Follows(x.seq),
           host = "sequenced" => x \in Singles(Len(log))
    PROVE  /\ IsHistory(es, host, Len(log)) /\ x.seq \in Numbers
           /\ host = "opencode" => \A s \in Seqs(es) : s <= x.seq
           /\ Whole => /\ Contiguous(es) /\ LastSeqOf(es) = x.seq
                       /\ entries # {} => FirstSeqOf(es) = FirstSeqOf(entries)
                       /\ entries = {} => FirstSeqOf(es) = x.seq /\ lastSeq = -1
<1>1. /\ host \in {"sequenced", "opencode"} /\ Len(log) \in Nat
      /\ IsHistory(entries, host, Len(log)) /\ lastSeq \in Int /\ -1 <= lastSeq
  <2>1. lastSeq \in Int /\ -1 <= lastSeq
    BY HistoryAssumption DEF EntriesInv, Numbers
  <2> QED BY <2>1, TheLog DEF EntriesInv
<1>2. x.seq \in Numbers /\ x.seq \in Nat
  BY HistoryAssumption DEF EntriesOf, Numbers
<1>3. PICK r : r = {x}
  OBVIOUS
<1>4. IsHistory(r, host, Len(log)) /\ r # {}
  BY <1>3 DEF IsHistory
<1>5. FirstSeqOf(r) = x.seq /\ LastSeqOf(r) = x.seq /\ Contiguous(r) /\ Seqs(r) = {x.seq}
  <2>1. PICK q : q = x.seq
    OBVIOUS
  <2>2. Seqs(r) = {q}
    BY <1>3, <2>1 DEF Seqs
  <2>3. q \in Nat /\ q \in Int
    BY <1>2, <2>1
  <2>4. {q} = q..q
    BY <2>3
  <2>5. \A e \in r : e.seq \in Numbers
    BY <1>2, <1>3
  <2>6. Seqs(r) = q..q /\ q <= q
    BY <2>2, <2>3, <2>4
  <2> QED BY <2>1, <2>2, <2>3, <2>5, <2>6, Interval
<1>6. ASSUME NEW e \in entries, e.seq = x.seq PROVE e = x
  <2>1. CASE host = "sequenced"
    <3>1. e \in Singles(Len(log)) /\ x \in Singles(Len(log))
      BY <1>1, <2>1 DEF IsHistory
    <3>2. PICK i \in 1..Len(log) : e = [seq |-> i - 1, shows |-> {i}]
      BY <3>1 DEF Singles
    <3>3. PICK j \in 1..Len(log) : x = [seq |-> j - 1, shows |-> {j}]
      BY <3>1 DEF Singles
    <3>4. i = j
      <4>1. i - 1 = j - 1
        BY <1>6, <3>2, <3>3
      <4> QED BY <4>1
    <3> QED BY <3>2, <3>3, <3>4
  <2>2. CASE host = "opencode"
    <3>1. e.seq \in Seqs(entries)
      BY DEF Seqs
    <3>2. e.seq <= lastSeq
      BY <2>2, <3>1 DEF EntriesInv
    <3> QED BY <1>1, <1>2, <1>6, <3>2
  <2> QED BY <1>1, <2>1, <2>2
<1>7. MergeHistoryEntries(entries, r) = es
  BY <1>3, <1>6 DEF MergeHistoryEntries, Seqs
<1>8. \A e \in entries \cup r : e.seq \in Numbers
  BY <1>1, <1>4, HistoryBounds
<1>9. IsHistory(es, host, Len(log)) /\ Seqs(es) = Seqs(entries) \cup Seqs(r)
  <2>1. PICK m : m = MergeHistoryEntries(entries, r)
    OBVIOUS
  <2>2. IsHistory(m, host, Len(log)) /\ Seqs(m) = Seqs(entries) \cup Seqs(r)
    BY <1>1, <1>4, <1>8, <2>1, Merged
  <2> QED BY <1>7, <2>1, <2>2
<1>10. ASSUME host = "opencode", NEW s \in Seqs(es) PROVE s <= x.seq
  <2>1. s \in Seqs(entries) \/ s = x.seq
    BY <1>5, <1>9
  <2>2. s \in Seqs(entries) => s <= lastSeq /\ s \in Int
    BY <1>1, <1>10, HistoryBounds DEF EntriesInv
  <2> QED BY <1>1, <1>2, <2>1, <2>2
<1>11. ASSUME Whole
       PROVE  /\ Contiguous(es) /\ LastSeqOf(es) = x.seq
              /\ entries # {} => FirstSeqOf(es) = FirstSeqOf(entries)
              /\ entries = {} => FirstSeqOf(es) = x.seq /\ lastSeq = -1
  <2>1. Contiguous(entries) /\ lastSeq = LastSeqOf(entries)
    BY <1>11 DEF HoleInv
  <2>2. /\ LastSeqOf(es) = IF LastSeqOf(entries) <= x.seq THEN x.seq ELSE LastSeqOf(entries)
        /\ entries = {} => FirstSeqOf(es) = x.seq
        /\ entries # {} => FirstSeqOf(es) = IF FirstSeqOf(entries) <= x.seq THEN FirstSeqOf(entries) ELSE x.seq
        /\ (/\ Contiguous(entries)
            /\ FirstSeqOf(entries) <= x.seq + 1
            /\ x.seq <= LastSeqOf(entries) + 1 \/ entries = {}) => Contiguous(es)
    <3>1. /\ LastSeqOf(es) = IF LastSeqOf(entries) <= LastSeqOf(r) THEN LastSeqOf(r) ELSE LastSeqOf(entries)
          /\ entries = {} => FirstSeqOf(es) = FirstSeqOf(r)
          /\ entries # {} /\ r # {} =>
               FirstSeqOf(es) = IF FirstSeqOf(entries) <= FirstSeqOf(r) THEN FirstSeqOf(entries) ELSE FirstSeqOf(r)
          /\ (/\ Contiguous(entries) /\ Contiguous(r)
              /\ FirstSeqOf(entries) <= LastSeqOf(r) + 1 \/ r = {}
              /\ FirstSeqOf(r) <= LastSeqOf(entries) + 1 \/ entries = {}) => Contiguous(es)
      <4>1. PICK m : m = MergeHistoryEntries(entries, r)
        OBVIOUS
      <4>2. /\ LastSeqOf(m) = IF LastSeqOf(entries) <= LastSeqOf(r) THEN LastSeqOf(r) ELSE LastSeqOf(entries)
            /\ entries = {} => FirstSeqOf(m) = FirstSeqOf(r)
            /\ entries # {} /\ r # {} =>
                 FirstSeqOf(m) = IF FirstSeqOf(entries) <= FirstSeqOf(r) THEN FirstSeqOf(entries) ELSE FirstSeqOf(r)
            /\ (/\ Contiguous(entries) /\ Contiguous(r)
                /\ FirstSeqOf(entries) <= LastSeqOf(r) + 1 \/ r = {}
                /\ FirstSeqOf(r) <= LastSeqOf(entries) + 1 \/ entries = {}) => Contiguous(m)
        BY <1>8, <4>1, MergedBounds
      <4>3. m = es
        BY <1>7, <4>1
      <4> QED BY <4>2, <4>3
    <3> QED BY <1>4, <1>5, <3>1
  <2>3. /\ FirstSeqOf(entries) \in Int /\ FirstSeqOf(entries) <= LastSeqOf(entries)
        /\ entries = {} => LastSeqOf(entries) = -1
        /\ entries # {} => LastSeqOf(entries) \in Nat
    BY <1>1, HistoryBounds
  <2>4. LastSeqOf(entries) <= x.seq /\ FirstSeqOf(entries) <= x.seq
    BY <1>1, <1>2, <2>1, <2>3
  <2>5. x.seq <= LastSeqOf(entries) + 1 \/ entries = {}
    BY <1>1, <1>2, <2>1, <2>3 DEF Follows
  <2>6. Contiguous(es)
    BY <1>2, <2>1, <2>2, <2>3, <2>4, <2>5
  <2> QED BY <2>1, <2>2, <2>3, <2>4, <2>6
<1> QED BY <1>2, <1>9, <1>10, <1>11

(* What is kept, and that it has no hole, after an event was applied.      *)
LEMMA EventApplied ==
    ASSUME IInv, NEW x \in EntriesOf(Len(log)), ApplyLiveEvent(x),
           host = "sequenced" => x \in Singles(Len(log)),
           UNCHANGED said, UNCHANGED requests,
           stream = "open", stream' = "open", ~Pending', texts' \subseteq 1..Len(log)
    PROVE  /\ EntriesInv' /\ HoleInv'
           /\ happened \subseteq happened' /\ happened' \subseteq happened \cup {"raced"}
           /\ (Whole' => Whole) /\ (Steady' => Steady) /\ (Calm' => Calm)
           /\ AnsweredCommand' = AnsweredCommand /\ commanding' = commanding
           /\ lastSeq' # lastSeq => (Steady' => ~AnsweredCommand)
<1> USE DEF IInv
<1>1. /\ HostInv' /\ Low' = Low /\ Count' = Count /\ host' = host /\ log' = log /\ messages' = messages
  BY HostSilent
<1>2. /\ commanding' = commanding /\ captured' = captured /\ selecting' = selecting /\ paging' = paging
      /\ AnsweredCommand' = AnsweredCommand
  BY DEF requests, AnsweredCommand
<1>3. /\ hasMore' = hasMore /\ oldest' = oldest /\ live' \in BOOLEAN
      /\ \/ /\ x.seq > lastSeq /\ Follows(x.seq)
            /\ entries' = entries \cup {x} /\ lastSeq' = x.seq
            /\ happened' = happened \cup Happened(AnsweredCommand, "raced")
         \/ entries' = entries /\ lastSeq' = lastSeq /\ happened' = happened
  BY DEF ApplyLiveEvent
<1>4. /\ happened \subseteq happened' /\ happened' \subseteq happened \cup {"raced"}
      /\ lastSeq' # lastSeq => ("raced" \notin happened' => ~AnsweredCommand)
  BY <1>3 DEF Happened
<1>5. (Whole' => Whole) /\ (Steady' => Steady) /\ (Calm' => Calm)
  BY <1>4 DEF Whole, Steady, Calm
<1>6. lastSeq' # lastSeq => (Steady' => ~AnsweredCommand)
  BY <1>4 DEF Steady
<1>7. CASE entries' = entries /\ lastSeq' = lastSeq /\ happened' = happened
  <2>1. EntriesInv'
    BY <1>1, <1>2, <1>3, <1>7 DEF EntriesInv, Answered
  <2>2. HoleInv'
    BY <1>1, <1>2, <1>3, <1>5, <1>7 DEF HoleInv
  <2> QED BY <1>2, <1>4, <1>5, <1>6, <2>1, <2>2
<1>8. CASE /\ x.seq > lastSeq /\ Follows(x.seq)
           /\ entries' = entries \cup {x} /\ lastSeq' = x.seq
  <2>1. PICK es : es = entries \cup {x}
    OBVIOUS
  <2>2. /\ IsHistory(es, host, Len(log)) /\ x.seq \in Numbers
        /\ host = "opencode" => \A s \in Seqs(es) : s <= x.seq
        /\ Whole => /\ Contiguous(es) /\ LastSeqOf(es) = x.seq
                    /\ entries # {} => FirstSeqOf(es) = FirstSeqOf(entries)
    BY <1>8, <2>1, EntryJoins
  <2>3. entries' = es
    BY <1>8, <2>1
  <2>4. host = "sequenced" => x.seq < Len(log)
    <3>1. host = "sequenced" => \E i \in 1..Len(log) : x = [seq |-> i - 1, shows |-> {i}]
      BY DEF Singles
    <3> QED BY <3>1, TheLog
  <2>5. EntriesInv'
    BY <1>1, <1>2, <1>3, <1>4, <1>8, <2>2, <2>3, <2>4 DEF EntriesInv, Answered, Events
  <2>6. HoleInv'
    <3> SUFFICES ASSUME Whole' PROVE HoleInv'
      BY DEF HoleInv
    <3>1. Whole
      BY <1>5
    <3>2. oldest # -1 => oldest = FirstSeqOf(es)
      <4>1. entries = {} => FirstSeqOf(entries) = -1
        BY FirstAndLast
      <4> QED BY <2>2, <3>1, <4>1 DEF HoleInv
    <3>3. paging # -1 => oldest # -1 /\ oldest <= paging /\ paging <= x.seq
      <4>1. paging # -1 => oldest # -1 /\ oldest <= paging /\ paging <= lastSeq
        BY <3>1 DEF HoleInv
      <4>2. lastSeq \in Int /\ paging \in Int /\ x.seq \in Int
        BY <2>2, HistoryAssumption DEF EntriesInv, Numbers
      <4> QED BY <1>8, <4>1, <4>2
    <3> QED BY <1>1, <1>2, <1>3, <1>8, <2>2, <2>3, <3>1, <3>2, <3>3 DEF HoleInv
  <2> QED BY <1>2, <1>4, <1>5, <1>6, <2>5, <2>6
<1> QED BY <1>3, <1>7, <1>8

(* An event of a Host that numbers its events.                             *)
LEMMA SequencedEventInv == ASSUME IInv, DeliverEvent, host = "sequenced" PROVE IInv'
<1> USE DEF IInv
<1>1. /\ frames # <<>> /\ Head(frames).type # "snapshot"
      /\ UNCHANGED said /\ UNCHANGED requests
      /\ frames' = Tail(frames) /\ stream' = stream
      /\ ApplyLiveEvent([seq |-> Head(frames).chunk - 1, shows |-> {Head(frames).chunk}])
  BY DEF DeliverEvent
<1>2. /\ listed' = listed /\ next' = next /\ texts' = texts
  BY DEF DeliverEvent
<1>3. /\ stream = "open" /\ ~Pending /\ Len(log) \in Nat
      /\ Head(frames).chunk = Delivered + 1 /\ Delivered \in Nat /\ Delivered + 1 <= Len(log)
      /\ InLine(Tail(frames), Len(log)) /\ ~PendingIn(Tail(frames))
      /\ EventsIn(Tail(frames)) = EventsIn(frames) - 1
      /\ \A i \in 1..Len(Tail(frames)) : Tail(frames)[i].type # "delta"
  BY <1>1, EventInFront
<1>4. /\ HostInv' /\ Low' = Low /\ Count' = Count /\ host' = host /\ log' = log /\ messages' = messages
  BY <1>1, HostSilent
<1>5. /\ Following /\ Following' /\ ~Pending'
      /\ Delivered' = Delivered + 1
  <2>1. Following /\ Following' /\ ~Pending'
    BY <1>1, <1>3 DEF Following, Pending
  <2>2. EventsIn(frames) \in Int
    BY <1>3, TheLine DEF FramesInv
  <2>3. Delivered' = Len(log) - (EventsIn(frames) - 1) /\ Delivered = Len(log) - EventsIn(frames)
    BY <1>1, <1>3, <1>4 DEF Delivered
  <2> QED BY <1>3, <2>1, <2>2, <2>3
<1>6. PICK x : x = [seq |-> Delivered, shows |-> {Delivered + 1}]
  OBVIOUS
<1>7. ApplyLiveEvent(x)
  <2>1. Head(frames).chunk - 1 = Delivered
    BY <1>3
  <2> QED BY <1>1, <1>3, <1>6, <2>1
<1>8. x \in Singles(Len(log)) /\ x \in EntriesOf(Len(log)) /\ x.seq = Delivered
  <2>1. Delivered + 1 \in 1..Len(log) /\ Delivered = (Delivered + 1) - 1
    BY <1>3
  <2>2. x \in Singles(Len(log))
    BY <1>6, <2>1 DEF Singles
  <2>3. Delivered \in Numbers
    BY <1>3, TheLog DEF Numbers
  <2>4. {Delivered + 1} \in (SUBSET (1..Len(log))) \ {{}}
    BY <2>1
  <2> QED BY <1>6, <2>2, <2>3, <2>4 DEF EntriesOf
<1>9. /\ EntriesInv' /\ HoleInv'
      /\ happened \subseteq happened' /\ happened' \subseteq happened \cup {"raced"}
      /\ (Whole' => Whole) /\ (Steady' => Steady) /\ (Calm' => Calm)
      /\ AnsweredCommand' = AnsweredCommand /\ commanding' = commanding
      /\ lastSeq' # lastSeq => (Steady' => ~AnsweredCommand)
  <2>1. texts' \subseteq 1..Len(log) /\ stream' = "open"
    BY <1>1, <1>2, <1>3 DEF EntriesInv
  <2> QED BY <1>1, <1>3, <1>5, <1>7, <1>8, <2>1, EventApplied
<1>10. FramesInv'
  BY <1>1, <1>3, <1>4, <1>5 DEF FramesInv
<1>11. lastSeq \in Int /\ -1 <= lastSeq
  BY HistoryAssumption DEF EntriesInv, Numbers
<1>12. ASSUME Steady
       PROVE  /\ live' /\ Delivered <= lastSeq'
              /\ lastSeq' = lastSeq \/ (entries' = entries \cup {x} /\ lastSeq' = Delivered)
              /\ live
  <2>1. live /\ Delivered - 1 <= lastSeq
    BY <1>3, <1>5, <1>12 DEF FollowInv
  <2>2. Delivered <= lastSeq \/ (Delivered > lastSeq /\ Follows(Delivered))
    BY <1>3, <1>11, <2>1 DEF Follows
  <2>3. CASE Delivered <= lastSeq
    <3>1. ~(x.seq > lastSeq)
      BY <1>3, <1>8, <1>11, <2>3
    <3> QED BY <1>7, <1>8, <2>1, <2>3, <3>1 DEF ApplyLiveEvent
  <2>4. CASE Delivered > lastSeq /\ Follows(Delivered)
    <3>1. x.seq > lastSeq /\ Follows(x.seq)
      BY <1>8, <2>4
    <3>2. entries' = entries \cup {x} /\ lastSeq' = x.seq
      BY <1>7, <3>1 DEF ApplyLiveEvent
    <3>3. live' = (live /\ (x.seq <= lastSeq \/ Follows(x.seq)))
      BY <1>7 DEF ApplyLiveEvent
    <3>4. live'
      BY <2>1, <3>1, <3>3
    <3> QED BY <1>3, <1>8, <2>1, <3>2, <3>4
  <2> QED BY <2>2, <2>3, <2>4
<1>13. FollowInv'
  <2> SUFFICES ASSUME Steady' PROVE FollowInv'
    BY DEF FollowInv
  <2>1. Steady
    BY <1>9
  <2>2. Delivered' - 1 <= lastSeq'
    BY <1>3, <1>5, <1>12, <2>1
  <2>3. AnsweredCommand => lastSeq' <= LastSeqOf(commanding.records)
    <3>1. AnsweredCommand => lastSeq' = lastSeq
      BY <1>9
    <3> QED BY <1>3, <1>5, <2>1, <3>1 DEF FollowInv
  <2> QED BY <1>1, <1>3, <1>4, <1>5, <1>9, <1>12, <2>1, <2>2, <2>3 DEF FollowInv
<1>14. ShownInv'
  <2> SUFFICES ASSUME Calm' PROVE ShownInv'
    BY DEF ShownInv
  <2>1. Calm /\ Steady /\ Whole
    BY <1>9 DEF Calm, Steady, Whole
  <2>2. Disjoint(entries')
    BY <1>3, <1>4, <1>9, SinglesAreDisjoint DEF EntriesInv, IsHistory
  <2>3. FirstSeqOf(entries') > 0 => hasMore'
    <3>1. hasMore' = hasMore
      BY <1>7 DEF ApplyLiveEvent
    <3>2. CASE entries' = entries
      BY <2>1, <3>1, <3>2 DEF ShownInv
    <3>3. CASE entries' # entries
      <4>1. x.seq > lastSeq /\ Follows(x.seq) /\ entries' = entries \cup {x}
        BY <1>7, <3>3 DEF ApplyLiveEvent
      <4>2. PICK es : es = entries \cup {x}
        OBVIOUS
      <4>3. /\ entries # {} => FirstSeqOf(es) = FirstSeqOf(entries)
            /\ entries = {} => FirstSeqOf(es) = x.seq /\ lastSeq = -1
        BY <1>8, <2>1, <4>1, <4>2, EntryJoins
      <4>4. entries = {} => ~(FirstSeqOf(es) > 0)
        <5>1. Delivered - 1 <= lastSeq
          BY <1>3, <1>5, <2>1 DEF FollowInv
        <5> QED BY <1>3, <1>8, <4>3, <5>1
      <4> QED BY <2>1, <3>1, <4>1, <4>2, <4>3, <4>4 DEF ShownInv
    <3> QED BY <3>2, <3>3
  <2> QED BY <1>4, <1>5, <2>2, <2>3 DEF ShownInv
<1> QED BY <1>4, <1>9, <1>10, <1>13, <1>14

(* What makes the adapter throw, and what it then brings down, is none of  *)
(* the events the follow puts up with.                                     *)
LEMMA ThrowInv ==
    ASSUME IInv, DeliverEvent, host = "opencode", Head(frames).type = "delta",
           texts \cap ChunksOf(log[Head(frames).chunk]) = {}
    PROVE  IInv'
<1> USE DEF IInv
<1>1. /\ frames # <<>> /\ Head(frames).type # "snapshot"
      /\ UNCHANGED said /\ UNCHANGED requests
      /\ stream' = "ended" /\ frames' = <<>> /\ live' = FALSE
      /\ entries' = entries /\ lastSeq' = lastSeq /\ hasMore' = hasMore /\ oldest' = oldest
      /\ listed' = listed /\ next' = next /\ texts' = texts /\ happened' = happened
  BY DEF DeliverEvent
<1>2. /\ HostInv' /\ Low' = Low /\ Count' = Count /\ host' = host /\ log' = log /\ messages' = messages
  BY <1>1, HostSilent
<1>3. /\ commanding' = commanding /\ captured' = captured /\ selecting' = selecting /\ paging' = paging
  BY <1>1 DEF requests
<1>4. ~Pending' /\ ~Following' /\ InLine(frames', Len(log')) /\ Len(frames') = 0
  BY <1>1, <1>2, FirstFrame, TheLog DEF Pending, Following
<1>5. FramesInv'
  BY <1>1, <1>2, <1>4 DEF FramesInv
<1>6. EntriesInv'
  BY <1>1, <1>2, <1>3 DEF EntriesInv, Answered
<1>7. HoleInv'
  BY <1>1, <1>2, <1>3, <1>4 DEF HoleInv, Whole, AnsweredCommand
<1>8. ~Steady
  <2> SUFFICES ASSUME Steady PROVE FALSE
    OBVIOUS
  <2>1. /\ stream = "open" /\ ~Pending /\ Len(log) \in Nat
        /\ Head(frames).chunk = Delivered + 1 /\ Delivered \in Nat /\ Delivered + 1 <= Len(log)
        /\ \E k \in 1..Delivered : log[k] = log[Delivered + 1]
    BY <1>1, EventInFront
  <2>2. PICK k \in 1..Delivered : log[k] = log[Delivered + 1]
    BY <2>1
  <2>3. /\ log[k] > listed => k \in texts
        /\ log[Delivered + 1] > listed
    BY <2>1 DEF FollowInv, Following
  <2>4. k \in texts /\ k \in ChunksOf(log[Delivered + 1])
    BY <2>1, <2>2, <2>3, TheLog DEF ChunksOf
  <2> QED BY <2>1, <2>4
<1>9. FollowInv'
  BY <1>1, <1>8 DEF FollowInv, Steady
<1>10. ShownInv'
  BY <1>1, <1>2, <1>4 DEF ShownInv, Calm
<1> QED BY <1>2, <1>5, <1>6, <1>7, <1>9, <1>10

(* An event of the adapter: it is numbered, and shows what is new.         *)
LEMMA NumberedEventInv ==
    ASSUME IInv, DeliverEvent, host = "opencode",
           ~(Head(frames).type = "delta" /\ texts \cap ChunksOf(log[Head(frames).chunk]) = {})
    PROVE  IInv'
<1> USE DEF IInv
<1>1. /\ frames # <<>> /\ Head(frames).type # "snapshot"
      /\ UNCHANGED said /\ UNCHANGED requests
      /\ frames' = Tail(frames) /\ stream' = stream /\ listed' = listed /\ next' = next + 1
      /\ texts' = texts \cup New(Head(frames))
      /\ ApplyLiveEvent([seq |-> next, shows |-> New(Head(frames))])
  BY DEF DeliverEvent
<1>2. /\ stream = "open" /\ ~Pending /\ Len(log) \in Nat
      /\ Head(frames).type \in {"update", "delta"}
      /\ Head(frames).chunk = Delivered + 1 /\ Delivered \in Nat /\ Delivered + 1 <= Len(log)
      /\ InLine(Tail(frames), Len(log)) /\ ~PendingIn(Tail(frames))
      /\ EventsIn(Tail(frames)) = EventsIn(frames) - 1
      /\ \A i \in 1..Len(Tail(frames)) : Tail(frames)[i].type = "delta" =>
            \E k \in 1..(Tail(frames)[i].chunk - 1) : log[k] = log[Tail(frames)[i].chunk]
  BY <1>1, EventInFront
<1>3. /\ HostInv' /\ Low' = Low /\ Count' = Count /\ host' = host /\ log' = log /\ messages' = messages
  BY <1>1, HostSilent
<1>4. /\ Following /\ Following' /\ ~Pending'
      /\ Delivered' = Delivered + 1
  <2>1. Following /\ Following' /\ ~Pending'
    BY <1>1, <1>2 DEF Following, Pending
  <2>2. EventsIn(frames) \in Int
    BY <1>2, TheLine DEF FramesInv
  <2>3. Delivered' = Len(log) - (EventsIn(frames) - 1) /\ Delivered = Len(log) - EventsIn(frames)
    BY <1>1, <1>2, <1>3 DEF Delivered
  <2> QED BY <1>2, <2>1, <2>2, <2>3
<1>5. /\ next \in Nat /\ next <= MaxMessages + Delivered /\ texts \subseteq 1..Delivered
      /\ listed \in 0..messages /\ MaxMessages \in Nat /\ MaxChunks \in Nat /\ Len(log) <= MaxChunks
  BY <1>2, <1>4, TheLog DEF FramesInv
<1>6. PICK fresh : fresh = New(Head(frames))
  OBVIOUS
\* what is new: the chunk itself, and nothing of what comes after it
<1>7. /\ Delivered + 1 \in fresh /\ fresh \subseteq 1..(Delivered + 1)
      /\ \A i \in fresh : i # Delivered + 1 => i \notin texts /\ i \in 1..Delivered /\ log[i] = log[Delivered + 1]
  <2>1. DOMAIN log = 1..Len(log) /\ Delivered + 1 \in 1..Len(log) /\ Delivered + 1 \notin texts
    BY <1>2, <1>5, TheLog
  <2>2. CASE Head(frames).type = "delta"
    <3>1. fresh = {Delivered + 1}
      BY <1>2, <1>6, <2>2 DEF New
    <3>2. Delivered + 1 \in 1..(Delivered + 1)
      BY <1>2
    <3> QED BY <3>1, <3>2
  <2>3. CASE Head(frames).type # "delta"
    <3>1. fresh = {i \in ChunksOf(log[Delivered + 1]) : i <= Delivered + 1} \ texts
      BY <1>2, <1>6, <2>3 DEF New
    <3>2. ChunksOf(log[Delivered + 1]) = {i \in 1..Len(log) : log[i] = log[Delivered + 1]}
      BY <2>1 DEF ChunksOf
    <3>3. Delivered + 1 \in fresh
      BY <1>2, <2>1, <3>1, <3>2
    <3>4. ASSUME NEW i \in fresh
          PROVE  /\ i \in 1..(Delivered + 1)
                 /\ i # Delivered + 1 => i \notin texts /\ i \in 1..Delivered /\ log[i] = log[Delivered + 1]
      <4>1. i \in 1..Len(log) /\ log[i] = log[Delivered + 1] /\ i <= Delivered + 1 /\ i \notin texts
        BY <3>1, <3>2
      <4> QED BY <1>2, <4>1
    <3> QED BY <3>3, <3>4
  <2> QED BY <2>2, <2>3
<1>8. PICK x : x = [seq |-> next, shows |-> fresh]
  OBVIOUS
<1>9. ApplyLiveEvent(x) /\ texts' = texts \cup fresh
  BY <1>1, <1>6, <1>8
<1>10. x \in EntriesOf(Len(log)) /\ x.seq = next /\ x.shows = fresh
  <2>1. next \in Numbers
    BY <1>2, <1>5 DEF Numbers
  <2>2. 1..(Delivered + 1) \subseteq 1..Len(log)
    BY <1>2
  <2>3. fresh \in (SUBSET (1..Len(log))) \ {{}}
    BY <1>7, <2>2
  <2> QED BY <1>8, <2>1, <2>3 DEF EntriesOf
<1>11. texts' \subseteq 1..Delivered' /\ texts' \subseteq 1..Len(log)
  <2>1. 1..Delivered \subseteq 1..(Delivered + 1) /\ 1..(Delivered + 1) \subseteq 1..Len(log)
    BY <1>2
  <2> QED BY <1>4, <1>5, <1>7, <1>9, <2>1
<1>12. /\ EntriesInv' /\ HoleInv'
       /\ happened \subseteq happened' /\ happened' \subseteq happened \cup {"raced"}
       /\ (Whole' => Whole) /\ (Steady' => Steady) /\ (Calm' => Calm)
       /\ AnsweredCommand' = AnsweredCommand /\ commanding' = commanding
  <2>1. host # "sequenced" /\ stream' = "open"
    BY <1>1, <1>2
  <2> QED BY <1>1, <1>2, <1>4, <1>9, <1>10, <1>11, <2>1, EventApplied
<1>13. FramesInv'
  <2>1. next' \in 0..(MaxMessages + Delivered')
    BY <1>1, <1>2, <1>4, <1>5
  <2> QED BY <1>1, <1>2, <1>3, <1>4, <1>5, <1>11, <2>1 DEF FramesInv
<1>14. ~AnsweredCommand /\ hasMore' = FALSE
  <2>1. commanding = Idle /\ hasMore = FALSE
    BY DEF EntriesInv
  <2>2. hasMore' = hasMore
    BY <1>9 DEF ApplyLiveEvent
  <2> QED BY <2>1, <2>2 DEF AnsweredCommand
<1>15. ASSUME Steady
       PROVE  /\ live' /\ lastSeq = next - 1 /\ lastSeq' = next /\ entries' = entries \cup {x}
              /\ x.seq > lastSeq /\ Follows(x.seq)
              /\ \A i \in 1..Delivered : log[i] > listed => i \in texts
              /\ \A i \in (Delivered + 1)..Len(log) : log[i] > listed
  <2>1. /\ live /\ lastSeq = next - 1
        /\ \A i \in 1..Delivered : log[i] > listed => i \in texts
        /\ \A i \in (Delivered + 1)..Len(log) : log[i] > listed
    BY <1>2, <1>4, <1>15 DEF FollowInv
  <2>2. x.seq > lastSeq /\ Follows(x.seq)
    BY <1>5, <1>10, <2>1 DEF Follows
  <2>3. entries' = entries \cup {x} /\ lastSeq' = x.seq
    BY <1>9, <2>2 DEF ApplyLiveEvent
  <2>4. live' = (live /\ (x.seq <= lastSeq \/ Follows(x.seq)))
    BY <1>9 DEF ApplyLiveEvent
  <2>5. live'
    BY <2>1, <2>2, <2>4
  <2> QED BY <1>10, <2>1, <2>2, <2>3, <2>5
<1>16. FollowInv'
  <2> SUFFICES ASSUME Steady' PROVE FollowInv'
    BY DEF FollowInv
  <2>1. Steady
    BY <1>12
  <2>2. lastSeq' = next' - 1
    BY <1>1, <1>5, <1>15, <2>1
  <2>3. ASSUME NEW i \in 1..(Delivered + 1), log[i] > listed PROVE i \in texts'
    <3>1. i = Delivered + 1 \/ i \in 1..Delivered
      BY <1>2
    <3> QED BY <1>7, <1>9, <1>15, <2>1, <2>3, <3>1
  <2>4. ASSUME NEW i \in (Delivered + 1 + 1)..Len(log) PROVE log[i] > listed
    <3>1. i \in (Delivered + 1)..Len(log)
      BY <1>2
    <3> QED BY <1>15, <2>1, <3>1
  <2> QED BY <1>1, <1>2, <1>3, <1>4, <1>12, <1>14, <1>15, <2>1, <2>2, <2>3, <2>4 DEF FollowInv
<1>17. ShownInv'
  <2> SUFFICES ASSUME Calm' PROVE ShownInv'
    BY DEF ShownInv
  <2>1. Calm /\ Steady /\ Whole
    BY <1>12 DEF Calm, Steady, Whole
  <2>2. fresh = {Delivered + 1}
    <3>1. ASSUME NEW i \in fresh, i # Delivered + 1 PROVE FALSE
      <4>1. i \notin texts /\ i \in 1..Delivered /\ log[i] = log[Delivered + 1]
        BY <1>7, <3>1
      <4>2. Delivered + 1 \in (Delivered + 1)..Len(log)
        BY <1>2
      <4>3. log[Delivered + 1] > listed
        BY <1>15, <2>1, <4>2
      <4> QED BY <1>15, <2>1, <4>1, <4>3
    <3> QED BY <1>7, <3>1
  <2>3. Disjoint(entries) /\ Shown = 1..Delivered
    BY <1>2, <1>4, <2>1 DEF ShownInv
  <2>4. Shown' = Shown \cup fresh
    BY <1>10, <1>15, <2>1 DEF Shown
  <2>5. Shown' = 1..(Delivered + 1)
    <3>1. (1..Delivered) \cup {Delivered + 1} = 1..(Delivered + 1)
      BY <1>2
    <3> QED BY <2>2, <2>3, <2>4, <3>1
  <2>6. Disjoint(entries')
    <3> SUFFICES ASSUME NEW d \in entries', NEW e \in entries', d # e PROVE d.shows \cap e.shows = {}
      BY DEF Disjoint
    <3>1. Delivered + 1 \notin Shown
      BY <1>2, <2>3
    <3>2. \A f \in entries : f.shows \cap x.shows = {}
      BY <1>10, <2>2, <3>1 DEF Shown
    <3>3. (d \in entries \/ d = x) /\ (e \in entries \/ e = x)
      BY <1>15, <2>1
    <3> QED BY <2>3, <3>2, <3>3 DEF Disjoint
  <2>7. ~(FirstSeqOf(entries') > 0)
    <3>1. PICK es : es = entries \cup {x}
      OBVIOUS
    <3>2. /\ entries # {} => FirstSeqOf(es) = FirstSeqOf(entries)
          /\ entries = {} => FirstSeqOf(es) = x.seq /\ lastSeq = -1
      <4>1. host # "sequenced"
        OBVIOUS
      <4> QED BY <1>10, <1>15, <2>1, <3>1, <4>1, EntryJoins
    <3>3. ~(FirstSeqOf(entries) > 0)
      BY <2>1 DEF ShownInv, EntriesInv
    <3>4. entries = {} => x.seq = 0
      BY <1>5, <1>10, <1>15, <2>1, <3>2
    <3>5. ~(FirstSeqOf(es) > 0)
      BY <3>2, <3>3, <3>4
    <3> QED BY <1>15, <2>1, <3>1, <3>5
  <2> QED BY <1>4, <2>5, <2>6, <2>7 DEF ShownInv
<1> QED BY <1>3, <1>12, <1>13, <1>16, <1>17

(* An event is delivered: applied, numbered first, or refused.             *)
LEMMA DeliverEventInv == IInv /\ DeliverEvent => IInv'
<1> SUFFICES ASSUME IInv, DeliverEvent PROVE IInv'
  OBVIOUS
<1>1. host \in {"sequenced", "opencode"}
  BY TheLog DEF IInv
<1>2. CASE host = "sequenced"
  BY <1>2, SequencedEventInv
<1>3. CASE /\ host = "opencode"
           /\ Head(frames).type = "delta" /\ texts \cap ChunksOf(log[Head(frames).chunk]) = {}
  BY <1>3, ThrowInv
<1>4. CASE /\ host = "opencode"
           /\ ~(Head(frames).type = "delta" /\ texts \cap ChunksOf(log[Head(frames).chunk]) = {})
  BY <1>4, NumberedEventInv
<1> QED BY <1>1, <1>2, <1>3, <1>4

(* Nothing happens.                                                        *)
LEMMA StutterInv == IInv /\ UNCHANGED vars => IInv'
<1> SUFFICES ASSUME IInv, UNCHANGED vars PROVE IInv'
  OBVIOUS
<1> USE DEF IInv
<1>1. UNCHANGED said /\ UNCHANGED follow
  BY DEF vars
<1>2. /\ entries' = entries /\ lastSeq' = lastSeq /\ hasMore' = hasMore /\ oldest' = oldest
      /\ live' = live /\ selecting' = selecting /\ commanding' = commanding
      /\ captured' = captured /\ paging' = paging /\ happened' = happened
  BY DEF vars, snapshot, requests
<1>3. /\ HostInv' /\ Low' = Low /\ Count' = Count /\ host' = host /\ log' = log /\ messages' = messages
  BY <1>1, HostSilent
<1>4. /\ Pending' = Pending /\ Following' = Following /\ Delivered' = Delivered
      /\ frames' = frames /\ stream' = stream /\ next' = next /\ texts' = texts
      /\ listed' = listed /\ FramesInv'
  BY <1>1, <1>2, FollowKept
<1>5. EntriesInv'
  BY <1>2, <1>3, <1>4 DEF EntriesInv, Answered
<1>6. AnsweredCommand' = AnsweredCommand
  BY <1>2 DEF AnsweredCommand
<1>7. HoleInv'
  BY <1>2, <1>3, <1>4, <1>6 DEF HoleInv, Whole
<1>8. FollowInv' /\ ShownInv'
  BY <1>2, <1>3, <1>4, <1>6 DEF FollowInv, ShownInv, Steady, Calm, Shown
<1> QED BY <1>3, <1>4, <1>5, <1>7, <1>8

(* The invariant is inductive.                                             *)
LEMMA NextIInv == IInv /\ [Next]_vars => IInv'
<1>1. ASSUME IInv, Say("update") \/ Say("delta") PROVE IInv'
  BY <1>1, SayInv
<1> QED
  BY <1>1, NewMessageInv, SelectInv, AnswerSelectInv, SelectedInv, OpenInv, SubscribeInv,
     DeliverSnapshotInv, DeliverEventInv, LoadOlderInv, PageLoadedInv, CommandInv,
     AnswerCommandInv, CommandedInv, StutterInv DEF Next

(* It holds in every state of every behaviour.                             *)
LEMMA HistoryInv == Spec => []IInv
BY InitIInv, NextIInv, PTL DEF Spec

-----------------------------------------------------------------------------
(* The properties.                                                         *)

(* The snapshot is well formed, and no two of its entries have the same    *)
(* number: what mergeHistoryEntries and applyLiveEvent are there for.      *)
THEOREM HistoryTyped == Spec => []TypeOK
<1>1. IInv => TypeOK
  <2> SUFFICES ASSUME IInv PROVE TypeOK
    OBVIOUS
  <2> USE DEF IInv
  <2>1. DOMAIN log = 1..Len(log)
    BY TheLog
  <2>2. entries \subseteq [seq : 0..MaxChunks + MaxMessages, shows : (SUBSET DOMAIN log) \ {{}}]
    BY <2>1 DEF EntriesInv, IsHistory, EntriesOf, Numbers
  <2>3. Cardinality(Seqs(entries)) = Cardinality(entries)
    BY HistoryNumbers DEF EntriesInv
  <2>4. {lastSeq, oldest, paging} \subseteq -1..(MaxChunks + MaxMessages)
    <3>1. {-1} \cup Numbers \subseteq -1..(MaxChunks + MaxMessages)
      BY HistoryAssumption DEF Numbers
    <3> QED BY <3>1 DEF EntriesInv
  <2>5. host \in Hosts /\ log \in Seq(1..messages) /\ messages \in 0..MaxMessages
    BY DEF HostInv
  <2>6. hasMore \in BOOLEAN /\ live \in BOOLEAN /\ texts \subseteq DOMAIN log /\ happened \subseteq Events
    BY <2>1 DEF EntriesInv
  <2>7. stream \in {"none", "listing", "listed", "open", "ended"}
    BY DEF FramesInv
  <2> QED BY <2>2, <2>3, <2>4, <2>5, <2>6, <2>7 DEF TypeOK
<1> QED BY <1>1, HistoryInv, PTL

(* What is shown has no hole, through selections, pages, commands and live *)
(* events in any order, unless the Session is selected again meanwhile, a  *)
(* command takes a page back under the next one, or more than a page is    *)
(* said between two snapshots (select, loadOlder, command,                 *)
(* applyFollowFrame, applyLiveEvent).                                      *)
THEOREM NoHoleInHistory == Spec => []NoHole
<1>1. IInv => NoHole
  <2> SUFFICES ASSUME IInv, Whole
               PROVE  /\ Seqs(entries) = FirstSeqOf(entries)..lastSeq \/ entries = {}
                      /\ oldest # -1 => oldest = FirstSeqOf(entries)
    BY DEF NoHole, Whole
  <2>1. \A e \in entries : e.seq \in Numbers
    BY HistoryNumbers DEF IInv, EntriesInv
  <2>2. /\ Contiguous(entries) /\ lastSeq = LastSeqOf(entries)
        /\ oldest # -1 => oldest = FirstSeqOf(entries)
    BY DEF IInv, HoleInv
  <2> QED BY <2>1, <2>2, Interval
<1> QED BY <1>1, HistoryInv, PTL

(* A follow goes on, and reports no gap, until one of the listed events    *)
(* comes about (startLive, applyLiveEvent, followAsLegacy).                *)
THEOREM FollowStaysAlive == Spec => []FollowLives
<1>1. IInv => FollowLives
  <2> SUFFICES ASSUME IInv, Steady, "empty" \notin happened
               PROVE  /\ stream # "ended"
                      /\ stream = "open" => live \/ \E f \in Range(frames) : f.type = "snapshot"
    BY DEF FollowLives, Steady
  <2> USE DEF IInv
  <2>1. stream # "ended"
    BY DEF FollowInv
  <2>2. ASSUME stream = "open", ~Pending PROVE live
    BY <2>2 DEF FollowInv, Following
  <2>3. ASSUME Pending PROVE \E f \in Range(frames) : f.type = "snapshot"
    <3>1. /\ frames # <<>> /\ Head(frames).type = "snapshot"
          /\ Len(frames) \in Nat /\ Len(frames) > 0
          /\ Head(frames) = frames[1] /\ DOMAIN frames = 1..Len(frames)
      <4>1. Len(log) \in Nat /\ InLine(frames, Len(log))
        BY TheLog DEF FramesInv
      <4> QED BY <2>3, <4>1, TheLine DEF Pending, PendingIn
    <3>2. frames[1] \in Range(frames)
      BY <3>1 DEF Range
    <3> QED BY <3>1, <3>2
  <2> QED BY <2>1, <2>2, <2>3
<1> QED BY <1>1, HistoryInv, PTL

(* What the Host says is shown once: no chunk by two entries, and, when    *)
(* the follow has delivered what it has, each of them, up to what is still *)
(* to be loaded (followAsLegacy, semanticEventToLegacy, applyLiveEvent).   *)
THEOREM EverythingShownOnce == Spec => []ShownOnce
<1>1. IInv => ShownOnce
  <2> SUFFICES ASSUME IInv, Calm
               PROVE  /\ Disjoint(entries)
                      /\ live /\ stream = "open" /\ frames = <<>> =>
                           \A i \in DOMAIN log : i \in Shown \/ \E j \in Shown : i < j /\ hasMore
    BY DEF ShownOnce, Calm, Disjoint
  <2> USE DEF IInv
  <2>1. Steady /\ Whole
    BY DEF Calm, Steady, Whole
  <2>2. /\ host \in {"sequenced", "opencode"} /\ Len(log) \in Nat /\ DOMAIN log = 1..Len(log)
    BY TheLog
  <2>3. ASSUME stream = "open", frames = <<>>, NEW i \in 1..Len(log)
        PROVE  i \in Shown \/ \E j \in Shown : i < j /\ hasMore
    <3>1. Following /\ ~Pending /\ Delivered = Len(log)
      BY <2>2, <2>3, FirstFrame DEF Following, Pending, Delivered
    <3>2. CASE host = "opencode"
      BY <2>3, <3>1, <3>2 DEF ShownInv
    <3>3. CASE host = "sequenced"
      <4>1. /\ lastSeq = LastSeqOf(entries) /\ Contiguous(entries)
            /\ Len(log) - 1 <= lastSeq /\ lastSeq < Len(log)
        BY <2>1, <3>1, <3>3 DEF HoleInv, FollowInv, EntriesInv
      <4>2. /\ entries \subseteq Singles(Len(log)) /\ \A e \in entries : e.seq \in Numbers
        BY <3>3, HistoryNumbers DEF EntriesInv, IsHistory
      <4>3. entries # {} /\ FirstSeqOf(entries) \in Nat /\ LastSeqOf(entries) = Len(log) - 1
            /\ FirstSeqOf(entries) <= LastSeqOf(entries)
        BY <2>2, <2>3, <4>1, <4>2, FirstAndLast
      <4>4. Seqs(entries) = FirstSeqOf(entries)..(Len(log) - 1)
        BY <4>1, <4>2, <4>3, Interval
      <4>5. \A k \in 1..Len(log) : k - 1 \in Seqs(entries) => k \in Shown
        BY <2>2, <4>2, SinglesAreDisjoint DEF Shown
      <4>6. CASE FirstSeqOf(entries) <= i - 1
        BY <2>2, <2>3, <4>3, <4>4, <4>5, <4>6
      <4>7. CASE i - 1 < FirstSeqOf(entries)
        <5>1. PICK j : j = FirstSeqOf(entries) + 1
          OBVIOUS
        <5>2. j \in 1..Len(log) /\ j - 1 \in Seqs(entries) /\ i < j /\ FirstSeqOf(entries) > 0
          BY <2>2, <2>3, <4>3, <4>4, <4>7, <5>1
        <5>3. hasMore
          BY <5>2 DEF ShownInv
        <5> QED BY <4>5, <5>2, <5>3
      <4> QED BY <2>2, <2>3, <4>3, <4>6, <4>7
    <3> QED BY <2>2, <3>2, <3>3
  <2>4. Disjoint(entries)
    BY DEF ShownInv
  <2> QED BY <2>2, <2>3, <2>4
<1> QED BY <1>1, HistoryInv, PTL
=============================================================================
