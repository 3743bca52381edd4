--------------------- MODULE RoundRobinQueryHandlerProofs --------------------
(***************************************************************************)
(* Proofs about RoundRobinQueryHandler, for any number of peers, queries   *)
(* and uses: getPeersInOrder sorts, and IInv is inductive.  What the fold  *)
(* computes is proved by induction, in the form that every non-empty set   *)
(* of numbers has a least one.                                             *)
(***************************************************************************)
EXTENDS RoundRobinQueryHandler, FiniteSetTheorems, SequenceTheorems, TLAPS

\* A non-empty set of numbers has a least one.  With T the set of the numbers that
\* lack a property this is induction, as used below.
LEMMA Least ==
    ASSUME NEW T \in SUBSET Nat, T # {}
    PROVE  \E n \in T : \A m \in T : n <= m
<1> DEFINE Up == {0..n : n \in T}
<1>1. Up # {} /\ Up \subseteq FiniteSubsetsOf(Nat)
  <2>1. \A n \in T : 0..n \in SUBSET Nat /\ IsFiniteSet(0..n)
    BY FS_Interval
  <2>2. \A n \in T : 0..n \in FiniteSubsetsOf(Nat)
    BY <2>1 DEF FiniteSubsetsOf
  <2> QED
    BY <2>2
<1>2. \E x \in Up : \A y \in Up : <<y, x>> \notin StrictSubsetOrdering(Nat)
  BY <1>1, FS_StrictSubsetOrderingWellFounded, WFMin
<1>3. PICK n \in T : \A m \in T : <<0..m, 0..n>> \notin StrictSubsetOrdering(Nat)
  BY <1>2
<1>4. ASSUME NEW m \in T, m < n PROVE FALSE
  <2>1. 0..m \in SUBSET Nat /\ 0..n \in SUBSET Nat /\ 0..m \subseteq 0..n
    BY <1>4
  <2>2. n \in 0..n /\ n \notin 0..m
    BY <1>4
  <2> QED
    BY <1>1, <1>3, <2>1, <2>2 DEF StrictSubsetOrdering
<1> QED
  BY <1>4

-----------------------------------------------------------------------------
(* The sorting                                                             *)

\* One turn of the recursion by which Folds defines the fold: the list's elements
\* at the places s are folded, the one at the greatest place last.
FoldStep(f, s, list) ==
    IF s = {} THEN <<>> ELSE Insert(f[s \ {Max(s)}], list[Max(s)])

\* The order of the peers is what that recursion computes for all places.
LEMMA FoldUnfolds ==
    ASSUME NEW list
    PROVE  LET iter == CHOOSE f : f = [s \in SUBSET DOMAIN list |-> FoldStep(f, s, list)]
           IN  GetPeersInOrder(list) = iter[DOMAIN list]
BY DEF GetPeersInOrder, FoldLeft, MapThenFoldSet, FoldStep

\* A function that satisfies the recursion exists: by induction on the length.
LEMMA FoldExists ==
    ASSUME NEW list, NEW n \in Nat
    PROVE  \E f : f = [s \in SUBSET (1..n) |-> FoldStep(f, s, list)]
<1> DEFINE Exists(k) == \E f : f = [s \in SUBSET (1..k) |-> FoldStep(f, s, list)]
           T == {k \in Nat : ~Exists(k)}
<1>1. Exists(0)
  <2>1. SUBSET (1..0) = {{}}
    OBVIOUS
  <2> DEFINE f == [s \in SUBSET (1..0) |-> <<>>]
  <2>2. f = [s \in SUBSET (1..0) |-> FoldStep(f, s, list)]
    BY <2>1 DEF FoldStep
  <2> QED
    BY <2>2
<1>2. ASSUME NEW k \in Nat, Exists(k) PROVE Exists(k+1)
  <2>1. PICK f : f = [s \in SUBSET (1..k) |-> FoldStep(f, s, list)]
    BY <1>2
  <2> DEFINE g == [s \in SUBSET (1..(k+1)) |->
                    IF (k+1) \in s THEN Insert(f[s \ {k+1}], list[k+1]) ELSE f[s]]
  <2>2. ASSUME NEW s \in SUBSET (1..(k+1)) PROVE g[s] = FoldStep(g, s, list)
    <3>1. CASE k+1 \in s
      <4>1. Max(s) = k+1
        <5>1. k+1 \in s /\ \A y \in s : y \in Int /\ k+1 >= y
          BY <3>1
        <5>2. \A x \in s : (\A y \in s : x >= y) => x = k+1
          BY <5>1
        <5> QED
          BY <5>1, <5>2 DEF Max
      <4>2. s \ {k+1} \in SUBSET (1..(k+1)) /\ (k+1) \notin s \ {k+1} /\ s # {}
        BY <3>1
      <4>3. g[s \ {k+1}] = f[s \ {k+1}]
        BY <4>2
      <4>4. g[s] = Insert(f[s \ {k+1}], list[k+1])
        BY <3>1
      <4> HIDE DEF g
      <4> QED
        BY <4>1, <4>2, <4>3, <4>4 DEF FoldStep
    <3>2. CASE k+1 \notin s
      <4>1. s \in SUBSET (1..k) /\ g[s] = f[s]
        BY <3>2
      <4>2. f[s] = FoldStep(f, s, list)
        BY <4>1, <2>1
      <4> DEFINE u == s \ {Max(s)}
      <4>3. u \in SUBSET (1..k) /\ u \in SUBSET (1..(k+1)) /\ k+1 \notin u
        <5>1. u \subseteq s
          OBVIOUS
        <5> HIDE DEF u
        <5> QED
          BY <5>1, <4>1
      <4>4. g[s \ {Max(s)}] = f[s \ {Max(s)}]
        BY <4>3
      <4> HIDE DEF g
      <4> QED
        BY <4>1, <4>2, <4>4 DEF FoldStep
    <3> QED
      BY <3>1, <3>2
  <2>3. g = [s \in SUBSET (1..(k+1)) |-> FoldStep(g, s, list)]
    BY <2>2
  <2> QED
    BY <2>3
<1> HIDE DEF Exists
<1>3. T = {}
  <2> SUFFICES ASSUME T # {} PROVE FALSE
    OBVIOUS
  <2>1. PICK k \in T : \A m \in T : k <= m
    BY Least
  <2>2. k \in Nat \ {0} /\ k-1 \in Nat /\ k-1 \notin T
    BY <1>1, <2>1
  <2>3. Exists((k-1) + 1)
    BY <1>2, <2>2
  <2> QED
    BY <2>1, <2>2, <2>3
<1>4. Exists(n)
  BY <1>3
<1> QED
  BY <1>4 DEF Exists

\* From least used to most used.
SortedByUse(order) ==
    \A i, j \in 1..Len(order) : i < j => peerCount[order[i]] <= peerCount[order[j]]

\* order lists the peers S, each once, the least used first.
OrderOf(S, order) ==
    /\ order \in Seq(Peers)
    /\ ToSet(order) = S
    /\ IsInjective(order)
    /\ SortedByUse(order)

\* The place Insert looks for.
FirstUsedMore(order, p) == SelectInSeq(order, LAMBDA r : peerCount[p] < peerCount[r])

\* new is order with p put in at place i.
PutAt(new, order, p, i) ==
    /\ new \in Seq(Peers)
    /\ Len(new) = Len(order) + 1
    /\ \A j \in 1..(Len(order) + 1) :
          new[j] = IF j < i THEN order[j] ELSE IF j = i THEN p ELSE order[j - 1]

\* The peers before the first one used more are used as much or less.
LEMMA UsedLessBefore ==
    ASSUME peerCount \in [Peers -> Nat], NEW order \in Seq(Peers), NEW p \in Peers
    PROVE  \/ /\ FirstUsedMore(order, p) = 0
              /\ \A j \in 1..Len(order) : peerCount[order[j]] <= peerCount[p]
           \/ /\ FirstUsedMore(order, p) \in 1..Len(order)
              /\ peerCount[p] < peerCount[order[FirstUsedMore(order, p)]]
              /\ \A j \in 1..(FirstUsedMore(order, p) - 1) : peerCount[order[j]] <= peerCount[p]
<1> DEFINE I == {j \in 1..Len(order) : peerCount[p] < peerCount[order[j]]}
           i == FirstUsedMore(order, p)
<1>1. i = IF I # {} THEN Min(I) ELSE 0
  BY DEF SelectInSeq, FirstUsedMore
<1>2. /\ Len(order) \in Nat /\ peerCount[p] \in Nat
      /\ \A j \in 1..Len(order) : peerCount[order[j]] \in Nat
  OBVIOUS
<1> HIDE DEF i
<1>3. CASE I = {}
  <2>1. i = 0
    BY <1>1, <1>3
  <2>2. \A j \in 1..Len(order) : peerCount[order[j]] <= peerCount[p]
    BY <1>2, <1>3
  <2> QED
    BY <2>1, <2>2 DEF i
<1>4. CASE I # {}
  <2>1. I \in SUBSET Nat
    BY <1>2
  <2>2. \E n \in I : \A m \in I : n <= m
    BY <1>4, <2>1, Least
  <2>3. Min(I) \in I /\ \A m \in I : Min(I) <= m
    BY <2>2 DEF Min
  <2>4. i \in I /\ \A m \in I : i <= m
    BY <1>1, <1>4, <2>3
  <2>5. i \in 1..Len(order) /\ peerCount[p] < peerCount[order[i]]
    BY <2>4
  <2>6. ASSUME NEW j \in 1..(i-1) PROVE peerCount[order[j]] <= peerCount[p]
    <3>1. j \in 1..Len(order) /\ ~(i <= j)
      BY <2>5, <1>2
    <3>2. j \notin I
      BY <3>1, <2>4
    <3> QED
      BY <1>2, <3>1, <3>2
  <2> QED
    BY <2>5, <2>6 DEF i
<1> QED
  BY <1>3, <1>4

\* What InsertAt does to a sequence.
LEMMA InsertAtPuts ==
    ASSUME NEW S, NEW s \in Seq(S), NEW e \in S, NEW i \in 1..(Len(s) + 1)
    PROVE  /\ InsertAt(s, i, e) \in Seq(S)
           /\ Len(InsertAt(s, i, e)) = Len(s) + 1
           /\ \A j \in 1..(Len(s) + 1) :
                 InsertAt(s, i, e)[j] = IF j < i THEN s[j] ELSE IF j = i THEN e ELSE s[j - 1]
<1> DEFINE n == Len(s)
           a == SubSeq(s, 1, i - 1)
           b == SubSeq(s, i, n)
           t == <<e>>
           c == a \o t
<1>1. n \in Nat /\ i \in 1..(n + 1) /\ \A j \in 1..n : s[j] \in S
  OBVIOUS
<1>2. /\ a \in Seq(S) /\ Len(a) = i - 1
      /\ \A j \in 1..(i - 1) : a[j] = s[j]
  BY <1>1, SubSeqProperties
<1>3. /\ b \in Seq(S) /\ Len(b) = n - i + 1
      /\ \A j \in 1..(n - i + 1) : b[j] = s[i + j - 1]
  BY <1>1, SubSeqProperties
<1>4. t \in Seq(S) /\ Len(t) = 1 /\ t[1] = e
  OBVIOUS
<1> HIDE DEF a, b, n, t
<1>5. /\ c \in Seq(S) /\ Len(c) = i
      /\ \A j \in 1..i : c[j] = IF j < i THEN s[j] ELSE e
  <2>1. /\ c \in Seq(S) /\ Len(c) = (i - 1) + 1
        /\ \A j \in 1..((i - 1) + 1) : c[j] = IF j <= i - 1 THEN a[j] ELSE t[j - (i - 1)]
    <3>1. /\ c \in Seq(S) /\ Len(c) = Len(a) + Len(t)
          /\ \A j \in 1..(Len(a) + Len(t)) : c[j] = IF j <= Len(a) THEN a[j] ELSE t[j - Len(a)]
      BY <1>2, <1>4, ConcatProperties
    <3>2. Len(a) = i - 1 /\ Len(t) = 1
      BY <1>2, <1>4
    <3> HIDE DEF c
    <3> QED
      BY <3>1, <3>2
  <2> HIDE DEF c
  <2> QED
    BY <1>1, <1>2, <1>4, <2>1
<1> HIDE DEF c
<1> DEFINE d == c \o b
<1>6. /\ d \in Seq(S) /\ Len(d) = n + 1
      /\ \A j \in 1..(n + 1) : d[j] = IF j <= i THEN c[j] ELSE b[j - i]
  <2>1. /\ d \in Seq(S) /\ Len(d) = Len(c) + Len(b)
        /\ \A j \in 1..(Len(c) + Len(b)) : d[j] = IF j <= Len(c) THEN c[j] ELSE b[j - Len(c)]
    BY <1>3, <1>5, ConcatProperties
  <2>2. Len(c) = i /\ Len(c) + Len(b) = n + 1
    BY <1>1, <1>3, <1>5
  <2> HIDE DEF d
  <2> QED
    BY <2>1, <2>2
<1>7. InsertAt(s, i, e) = d
  BY DEF InsertAt, a, b, c, n, t
<1> HIDE DEF d
<1>8. ASSUME NEW j \in 1..(n + 1)
      PROVE  d[j] = IF j < i THEN s[j] ELSE IF j = i THEN e ELSE s[j - 1]
  <2>1. CASE j <= i
    BY <1>1, <1>5, <1>6, <2>1
  <2>2. CASE j > i
    <3>1. j - i \in 1..(n - i + 1) /\ i + (j - i) - 1 = j - 1
      BY <1>1, <2>2
    <3>2. b[j - i] = s[j - 1]
      BY <1>3, <3>1
    <3> QED
      BY <1>1, <1>6, <2>2, <3>2
  <2> QED
    BY <1>1, <2>1, <2>2
<1> QED
  BY <1>6, <1>7, <1>8 DEF n

\* Insert puts the peer behind peers used as much or less, and in front of one
\* used more, unless the peer was never used.
LEMMA InsertPlaces ==
    ASSUME peerCount \in [Peers -> Nat], NEW order \in Seq(Peers), NEW p \in Peers
    PROVE  \E i \in 1..(Len(order) + 1) :
              /\ PutAt(Insert(order, p), order, p, i)
              /\ \A j \in 1..(i-1) : peerCount[order[j]] <= peerCount[p]
              /\ i \in 1..Len(order) => peerCount[p] = 0 \/ peerCount[p] < peerCount[order[i]]
<1> DEFINE n == Len(order)
           k == FirstUsedMore(order, p)
<1>1. n \in Nat
  OBVIOUS
<1>2. CASE peerCount[p] = 0
  <2>1. Insert(order, p) = <<p>> \o order
    BY <1>2 DEF Insert
  <2>2. <<p>> \in Seq(Peers) /\ Len(<<p>>) = 1 /\ <<p>>[1] = p
    OBVIOUS
  <2>3. PutAt(Insert(order, p), order, p, 1)
    <3>1. /\ <<p>> \o order \in Seq(Peers) /\ Len(<<p>> \o order) = 1 + n
          /\ \A j \in 1..(1 + n) : (<<p>> \o order)[j] = IF j <= 1 THEN <<p>>[j] ELSE order[j - 1]
      BY <2>2, ConcatProperties
    <3> QED
      BY <1>1, <2>1, <2>2, <3>1 DEF PutAt
  <2> QED
    BY <1>1, <1>2, <2>3
<1>3. CASE peerCount[p] # 0 /\ k = 0
  <2>1. Insert(order, p) = Append(order, p)
    BY <1>3 DEF Insert, FirstUsedMore
  <2>2. PutAt(Insert(order, p), order, p, n + 1)
    BY <1>1, <2>1, AppendProperties DEF PutAt
  <2>3. \A j \in 1..n : peerCount[order[j]] <= peerCount[p]
    BY <1>1, <1>3, UsedLessBefore
  <2>4. (n + 1) - 1 = n /\ n + 1 \in 1..(n + 1) /\ n + 1 \notin 1..n
    BY <1>1
  <2> HIDE DEF n
  <2> QED
    BY <2>2, <2>3, <2>4 DEF n
<1>4. CASE peerCount[p] # 0 /\ k # 0
  <2>1. Insert(order, p) = InsertAt(order, k, p)
    BY <1>4 DEF Insert, FirstUsedMore
  <2>2. /\ k \in 1..n /\ peerCount[p] < peerCount[order[k]]
        /\ \A j \in 1..(k - 1) : peerCount[order[j]] <= peerCount[p]
    BY <1>4, UsedLessBefore
  <2>3. k \in 1..(n + 1)
    BY <1>1, <2>2
  <2> HIDE DEF k
  <2>4. PutAt(InsertAt(order, k, p), order, p, k)
    <3> DEFINE new == InsertAt(order, k, p)
    <3>1. /\ new \in Seq(Peers)
          /\ Len(new) = Len(order) + 1
          /\ \A j \in 1..(Len(order) + 1) :
                new[j] = IF j < k THEN order[j] ELSE IF j = k THEN p ELSE order[j - 1]
      BY <2>3, InsertAtPuts
    <3> HIDE DEF new
    <3>2. PutAt(new, order, p, k)
      BY <3>1 DEF PutAt
    <3> QED
      BY <3>2 DEF new
  <2> QED
    BY <2>1, <2>2, <2>3, <2>4
<1> QED
  BY <1>2, <1>3, <1>4

\* So a sorted order stays sorted, and complete.
LEMMA InsertKeepsOrder ==
    ASSUME peerCount \in [Peers -> Nat], NEW S, NEW order, OrderOf(S, order),
           NEW p \in Peers, p \notin S
    PROVE  OrderOf(S \cup {p}, Insert(order, p))
<1> DEFINE new == Insert(order, p)
           n == Len(order)
<1>1. /\ order \in Seq(Peers) /\ n \in Nat
      /\ DOMAIN order = 1..n
      /\ \A j \in 1..n : order[j] \in S /\ order[j] \in Peers /\ peerCount[order[j]] \in Nat
      /\ peerCount[p] \in Nat
  BY DEF OrderOf, ToSet
<1>2. PICK i \in 1..(n + 1) :
          /\ PutAt(new, order, p, i)
          /\ \A j \in 1..(i-1) : peerCount[order[j]] <= peerCount[p]
          /\ i \in 1..n => peerCount[p] = 0 \/ peerCount[p] < peerCount[order[i]]
  BY <1>1, InsertPlaces
<1> HIDE DEF new, n
<1>3. /\ new \in Seq(Peers) /\ Len(new) = n + 1 /\ DOMAIN new = 1..(n+1)
      /\ \A j \in 1..(n+1) : new[j] = IF j < i THEN order[j] ELSE IF j = i THEN p ELSE order[j-1]
  BY <1>1, <1>2, LenProperties DEF PutAt, n
<1>4. ToSet(new) = S \cup {p}
  <2>1. ASSUME NEW r \in ToSet(new) PROVE r \in S \cup {p}
    <3>1. PICK j \in 1..(n+1) : r = new[j]
      BY <1>3, <2>1 DEF ToSet
    <3>2. /\ j < i => j \in 1..n
          /\ j > i => j-1 \in 1..n
      BY <1>1
    <3> QED
      BY <1>1, <1>3, <3>1, <3>2
  <2>2. ASSUME NEW r \in S PROVE r \in ToSet(new)
    <3>1. PICK j \in 1..n : r = order[j]
      BY <1>1 DEF OrderOf, ToSet
    <3>2. CASE j < i
      <4>1. j \in 1..(n+1) /\ new[j] = r
        BY <1>1, <1>3, <3>1, <3>2
      <4> QED
        BY <1>3, <4>1 DEF ToSet
    <3>3. CASE j >= i
      <4>1. j+1 \in 1..(n+1) /\ (j+1)-1 = j /\ ~(j+1 < i) /\ j+1 # i
        BY <1>1, <3>3
      <4>2. new[j+1] = r
        BY <1>3, <3>1, <4>1
      <4> QED
        BY <1>1, <1>3, <4>1, <4>2 DEF ToSet
    <3> QED
      BY <1>1, <3>2, <3>3
  <2>3. p \in ToSet(new)
    BY <1>3 DEF ToSet
  <2> QED
    BY <2>1, <2>2, <2>3
<1>5. IsInjective(new)
  <2> SUFFICES ASSUME NEW a \in 1..(n+1), NEW b \in 1..(n+1), new[a] = new[b], a < b
               PROVE  FALSE
    BY <1>1, <1>3 DEF IsInjective
  <2>1. \A c, d \in 1..n : order[c] = order[d] => c = d
    BY <1>1 DEF OrderOf, IsInjective
  <2>2. CASE a < i /\ b < i
    BY <1>1, <1>3, <2>1, <2>2
  <2>3. CASE a < i /\ b = i
    BY <1>1, <1>3, <2>3
  <2>4. CASE a < i /\ b > i
    <3>1. a \in 1..n /\ b-1 \in 1..n /\ a # b-1
      BY <1>1, <2>4
    <3> QED
      BY <1>1, <1>3, <2>1, <2>4, <3>1
  <2>5. CASE a = i
    <3>1. b-1 \in 1..n
      BY <1>1, <2>5
    <3> QED
      BY <1>1, <1>3, <2>5, <3>1
  <2>6. CASE a > i
    <3>1. a-1 \in 1..n /\ b-1 \in 1..n /\ a-1 # b-1
      BY <1>1, <2>6
    <3>2. new[a] = order[a-1] /\ new[b] = order[b-1]
      BY <1>1, <1>3, <2>6
    <3> QED
      BY <2>1, <3>1, <3>2
  <2> QED
    BY <1>1, <2>2, <2>3, <2>4, <2>5, <2>6
<1>6. SortedByUse(new)
  <2>0. /\ n \in Nat /\ i \in 1..(n+1)
        /\ \A c \in 1..(n+1) :
              new[c] = IF c < i THEN order[c] ELSE IF c = i THEN p ELSE order[c-1]
    BY <1>1, <1>3
  <2>1. \A c, d \in 1..n : c < d => peerCount[order[c]] <= peerCount[order[d]]
    BY DEF OrderOf, SortedByUse, n
  <2> SUFFICES ASSUME NEW a \in 1..(n+1), NEW b \in 1..(n+1), a < b
               PROVE  peerCount[new[a]] <= peerCount[new[b]]
    BY <1>3 DEF SortedByUse
  <2>2. CASE a < i /\ b < i
    BY <1>1, <1>3, <2>1, <2>2
  <2>3. CASE a < i /\ b = i
    BY <1>1, <1>2, <1>3, <2>3
  <2>4. CASE a < i /\ b > i
    <3>1. a \in 1..n /\ b-1 \in 1..n /\ a < b-1
      BY <1>1, <2>4
    <3>2. new[a] = order[a] /\ new[b] = order[b-1]
      BY <2>0, <2>4
    <3> QED
      BY <2>1, <3>1, <3>2
  <2>5. CASE a = i
    <3>1. b-1 \in 1..n /\ i \in 1..n /\ i <= b-1
      BY <1>1, <2>5
    <3>2. peerCount[p] <= peerCount[order[i]]
      BY <1>1, <1>2, <3>1
    <3>3. peerCount[order[i]] <= peerCount[order[b-1]]
      BY <1>1, <2>1, <3>1
    <3>4. new[a] = p /\ new[b] = order[b-1]
      BY <2>0, <2>5
    <3>5. peerCount[order[i]] \in Nat /\ peerCount[order[b-1]] \in Nat /\ peerCount[p] \in Nat
      BY <1>1, <3>1
    <3> QED
      BY <3>2, <3>3, <3>4, <3>5
  <2>6. CASE a > i
    <3>1. a-1 \in 1..n /\ b-1 \in 1..n /\ a-1 < b-1
      BY <2>0, <2>6
    <3>2. new[a] = order[a-1] /\ new[b] = order[b-1]
      BY <2>0, <2>6
    <3> QED
      BY <2>1, <3>1, <3>2
  <2> QED
    BY <1>1, <2>2, <2>3, <2>4, <2>5, <2>6
<1> QED
  BY <1>3, <1>4, <1>5, <1>6 DEF OrderOf, new

\* The fold is the loop: the order after k peers is that after k - 1 with the k-th
\* inserted.
LEMMA FoldIsLoop ==
    ASSUME NEW n \in Nat, NEW list, DOMAIN list = 1..n
    PROVE  \E f : /\ f[{}] = <<>>
                  /\ \A k \in 1..n : f[1..k] = Insert(f[1..(k-1)], list[k])
                  /\ GetPeersInOrder(list) = f[1..n]
<1> DEFINE iter == CHOOSE f : f = [s \in SUBSET (1..n) |-> FoldStep(f, s, list)]
<1>1. iter = [s \in SUBSET (1..n) |-> FoldStep(iter, s, list)]
  BY FoldExists
<1>2. GetPeersInOrder(list) = iter[1..n]
  BY FoldUnfolds
<1> HIDE DEF iter
<1>3. iter[{}] = <<>>
  BY <1>1 DEF FoldStep
<1>4. ASSUME NEW k \in 1..n PROVE iter[1..k] = Insert(iter[1..(k-1)], list[k])
  <2>1. Max(1..k) = k
    <3>1. k \in 1..k /\ \A y \in 1..k : k >= y
      OBVIOUS
    <3>2. \A x \in 1..k : (\A y \in 1..k : x >= y) => x = k
      BY <3>1
    <3> QED
      BY <3>1, <3>2 DEF Max
  <2>2. 1..k \in SUBSET (1..n) /\ 1..k # {} /\ (1..k) \ {k} = 1..(k-1)
    OBVIOUS
  <2> QED
    BY <1>1, <2>1, <2>2 DEF FoldStep
<1> QED
  BY <1>2, <1>3, <1>4

\* The list of each handler, the peers S in any order, comes out complete, without
\* repetition, and sorted from least used to most used.
THEOREM OrderSorts ==
    ASSUME peerCount \in [Peers -> Nat], IsFiniteSet(Peers),
           NEW S \in SUBSET Peers, NEW list \in SetToSeqs(S)
    PROVE  OrderOf(S, GetPeersInOrder(list)) /\ ToSet(list) = S
<1> DEFINE n == Cardinality(S)
<1>1. n \in Nat /\ IsFiniteSet(S)
  BY FS_CardinalityType, FS_Subset
<1>2. list \in Injection(1..n, S)
  BY DEF SetToSeqs, Injection, IsInjective
<1>3. list \in Surjection(1..n, S)
  BY <1>1, <1>2, FS_Injection, FS_Interval
<1>4. /\ DOMAIN list = 1..n
      /\ \A i \in 1..n : list[i] \in S /\ list[i] \in Peers
      /\ \A i, j \in 1..n : i # j => list[i] # list[j]
      /\ \A p \in S : \E i \in 1..n : list[i] = p
  BY <1>2, <1>3 DEF Injection, Surjection, IsInjective
<1> HIDE DEF n
<1>5. PICK f : /\ f[{}] = <<>>
               /\ \A k \in 1..n : f[1..k] = Insert(f[1..(k-1)], list[k])
               /\ GetPeersInOrder(list) = f[1..n]
  BY <1>1, <1>4, FoldIsLoop
<1> DEFINE Upto(k) == {list[i] : i \in 1..k}
           Good(k) == OrderOf(Upto(k), f[1..k])
           T == {k \in Nat : k <= n /\ ~Good(k)}
<1>6. Good(0)
  <2>1. Upto(0) = {} /\ 1..0 = {}
    OBVIOUS
  <2>2. OrderOf({}, <<>>)
    BY DEF OrderOf, ToSet, IsInjective, SortedByUse
  <2> QED
    BY <1>5, <2>1, <2>2
<1>7. ASSUME NEW k \in 1..n, Good(k-1) PROVE Good(k)
  <2>1. list[k] \in Peers /\ list[k] \notin Upto(k-1)
    BY <1>1, <1>4
  <2>2. Upto(k) = Upto(k-1) \cup {list[k]}
    BY <1>1
  <2>3. f[1..k] = Insert(f[1..(k-1)], list[k])
    BY <1>5
  <2> HIDE DEF Upto
  <2> QED
    BY <1>7, <2>1, <2>2, <2>3, InsertKeepsOrder
<1> HIDE DEF Good
<1>8. T = {}
  <2> SUFFICES ASSUME T # {} PROVE FALSE
    OBVIOUS
  <2>1. PICK k \in T : \A m \in T : k <= m
    BY Least
  <2>2. k \in 1..n /\ k-1 \in Nat /\ k-1 \notin T /\ k-1 <= n
    BY <1>1, <1>6, <2>1
  <2> QED
    BY <1>7, <2>1, <2>2
<1>9. Good(n)
  BY <1>1, <1>8
<1>10. Upto(n) = S /\ ToSet(list) = S
  BY <1>4 DEF ToSet
<1> QED
  BY <1>5, <1>9, <1>10 DEF Good

-----------------------------------------------------------------------------
(* The queries                                                             *)

\* What a query begins with: the peers of its handler, the least used first.
LEMMA QueryBegins ==
    ASSUME TypeOK, NEW list \in Lists
    PROVE  /\ GetPeersInOrder(list) \in Seq(Peers)
           /\ ToSet(list) \in SUBSET Peers
           /\ ToSet(GetPeersInOrder(list)) = ToSet(list)
           /\ IsInjective(GetPeersInOrder(list))
           /\ GetPeersInOrder(list) # <<>> =>
                 /\ Head(GetPeersInOrder(list)) \in ToSet(list)
                 /\ \A r \in ToSet(list) : peerCount[Head(GetPeersInOrder(list))] <= peerCount[r]
<1> DEFINE order == GetPeersInOrder(list)
<1>1. PICK S \in SUBSET Peers : list \in SetToSeqs(S)
  BY DEF Lists
<1>2. OrderOf(S, order) /\ ToSet(list) = S
  BY <1>1, OrderSorts, RoundRobinAssumption DEF TypeOK
<1> HIDE DEF order
<1>3. order \in Seq(Peers) /\ ToSet(order) = S /\ IsInjective(order)
  BY <1>2 DEF OrderOf
<1>4. ASSUME order # <<>>
      PROVE  Head(order) \in S /\ \A r \in S : peerCount[Head(order)] <= peerCount[r]
  <2>1. /\ Len(order) \in Nat \ {0} /\ DOMAIN order = 1..Len(order)
        /\ Head(order) = order[1] /\ order[1] \in Peers
    BY <1>3, <1>4
  <2>2. Head(order) \in S
    BY <1>3, <2>1 DEF ToSet
  <2>3. ASSUME NEW r \in S PROVE peerCount[Head(order)] <= peerCount[r]
    <3>1. PICK j \in 1..Len(order) : order[j] = r
      BY <1>3, <2>1, <2>3 DEF ToSet
    <3>2. j = 1 \/ peerCount[order[1]] <= peerCount[order[j]]
      BY <1>2, <2>1 DEF OrderOf, SortedByUse
    <3>3. peerCount[r] \in Nat
      BY DEF TypeOK
    <3> QED
      BY <2>1, <3>1, <3>2, <3>3
  <2> QED
    BY <2>2, <2>3
<1> QED
  BY <1>2, <1>3, <1>4 DEF order

\* The requests at a peer can be counted.
LEMMA AskingFinite ==
    ASSUME NEW p
    PROVE  /\ IsFiniteSet(Asking(p)) /\ Cardinality(Asking(p)) \in Nat
           /\ Cardinality(Asking(p)) <= Cardinality(Queries)
           /\ Cardinality(Queries) \in Nat
BY RoundRobinAssumption, FS_Subset, FS_CardinalityType DEF Asking

\* A query without a list changes its own result only.
LEMMA QueryUndefinedKeeps ==
    ASSUME IInv, NEW q \in Queries, QueryUndefined(q)
    PROVE  IInv'
<1>1. /\ peerList' = peerList /\ peerCount' = peerCount /\ uncompared' = uncompared
      /\ listed' = [listed EXCEPT ![q] = {}]
      /\ allErrors' = [allErrors EXCEPT ![q] = {}]
      /\ result' = [result EXCEPT ![q] = "typeError"]
      /\ peerList[q] = <<>>
  BY DEF QueryUndefined, InFlight
<1>2. TypeOK'
  BY <1>1 DEF IInv, TypeOK
<1>3. EveryPeerTriedOnce' /\ ErrorsAreListed'
  BY <1>1 DEF IInv, TypeOK, EveryPeerTriedOnce, ErrorsAreListed, InFlight
<1>4. SpreadBounded'
  BY <1>1 DEF IInv, SpreadBounded, Asking, InFlight
<1> QED
  BY <1>2, <1>3, <1>4 DEF IInv

\* The query sent asks a peer used no more than any other its handler lists.
LEMMA QueryChaincodeKeeps ==
    ASSUME IInv, NEW q \in Queries, NEW list \in Lists, QueryChaincode(q, list)
    PROVE  IInv'
<1> DEFINE order == GetPeersInOrder(list)
           S == ToSet(list)
           new == IF order = <<>> THEN {} ELSE {Head(order)} \X (Peers \ S)
<1>1. /\ order \in Seq(Peers) /\ S \in SUBSET Peers
      /\ ToSet(order) = S /\ IsInjective(order)
      /\ order # <<>> => /\ Head(order) \in S
                         /\ \A r \in S : peerCount[Head(order)] <= peerCount[r]
  BY QueryBegins DEF IInv
<1>2. /\ peerList' = [peerList EXCEPT ![q] = order]
      /\ listed' = [listed EXCEPT ![q] = S]
      /\ allErrors' = [allErrors EXCEPT ![q] = {}]
      /\ result' = [result EXCEPT ![q] = IF list = <<>> THEN "noPeers" ELSE "none"]
      /\ peerCount' = peerCount /\ uncompared' = uncompared \cup new
      /\ peerList[q] = <<>>
  BY DEF QueryChaincode, InFlight
<1>n. /\ new \in SUBSET (Peers \X Peers)
      /\ \A p, r \in Peers : order # <<>> /\ p = Head(order) /\ r \notin S => <<p, r>> \in new
  BY <1>1
<1> HIDE DEF order, S, new
<1>3. TypeOK'
  <2>1. uncompared' \in SUBSET (Peers \X Peers)
    BY <1>2, <1>n DEF IInv, TypeOK
  <2> QED
    BY <1>1, <1>2, <2>1 DEF IInv, TypeOK
<1>4. /\ \A r \in Queries : peerList'[r] = IF r = q THEN order ELSE peerList[r]
      /\ \A r \in Queries : listed'[r] = IF r = q THEN S ELSE listed[r]
      /\ \A r \in Queries \ {q} : result'[r] = result[r]
      /\ result'[q] # "noneAvailable"
      /\ \A r \in Queries : allErrors'[r] = IF r = q THEN {} ELSE allErrors[r]
  BY <1>2 DEF IInv, TypeOK
<1>5. EveryPeerTriedOnce'
  BY <1>1, <1>2, <1>4 DEF IInv, EveryPeerTriedOnce, InFlight
<1>6. SpreadBounded'
  <2> SUFFICES ASSUME NEW p \in Peers, NEW r \in Peers,
                      <<p, r>> \notin uncompared, <<p, r>> \notin new
               PROVE  peerCount[p] + Cardinality(Asking(p)') <= peerCount[r] + Cardinality(Queries)
    BY <1>2 DEF SpreadBounded
  <2>1. peerCount[p] \in Nat /\ peerCount[r] \in Nat
    BY DEF IInv, TypeOK
  <2>2. CASE order # <<>> /\ p = Head(order)
    <3>1. Cardinality(Asking(p)') \in Nat /\ Cardinality(Asking(p)') <= Cardinality(Queries)
      <4>1. Asking(p)' \in SUBSET Queries
        BY DEF Asking
      <4> QED
        BY <4>1, RoundRobinAssumption, FS_Subset, FS_CardinalityType
    <3>2. peerCount[p] <= peerCount[r] /\ Cardinality(Queries) \in Nat
      BY <1>1, <1>n, <2>2, AskingFinite
    <3> QED
      BY <2>1, <3>1, <3>2
  <2>3. CASE ~(order # <<>> /\ p = Head(order))
    <3>1. Asking(p)' = Asking(p)
      BY <1>2, <1>4, <2>3 DEF Asking, InFlight
    <3> QED
      BY <3>1 DEF IInv, SpreadBounded
  <2> QED
    BY <2>2, <2>3
<1>7. ErrorsAreListed'
  BY <1>4 DEF IInv, ErrorsAreListed
<1> QED
  BY <1>3, <1>5, <1>6, <1>7 DEF IInv

\* A request that ends with a use leaves the sum of uses and requests alone.
LEMMA PeerAnswersKeeps ==
    ASSUME IInv, NEW q \in Queries, NEW answer \in {"payload", "peerError"},
           PeerAnswers(q, answer)
    PROVE  IInv'
<1> DEFINE h == Head(peerList[q])
<1>1. peerList[q] \in Seq(Peers) /\ peerList[q] # <<>> /\ h \in Peers
  BY DEF IInv, TypeOK, PeerAnswers, InFlight
<1> HIDE DEF h
<1>2. /\ peerCount' = [peerCount EXCEPT ![h] = @ + 1]
      /\ peerList' = [peerList EXCEPT ![q] = <<>>]
      /\ result' = [result EXCEPT ![q] = answer]
      /\ allErrors' = allErrors /\ listed' = listed /\ uncompared' = uncompared
  BY DEF PeerAnswers, h
<1>3. /\ \A p \in Peers : peerCount'[p] = IF p = h THEN peerCount[p] + 1 ELSE peerCount[p]
      /\ \A p \in Peers : peerCount[p] \in Nat
      /\ \A r \in Queries : peerList'[r] = IF r = q THEN <<>> ELSE peerList[r]
      /\ \A r \in Queries : result'[r] = IF r = q THEN answer ELSE result[r]
  BY <1>1, <1>2 DEF IInv, TypeOK
<1>4. TypeOK'
  BY <1>1, <1>2 DEF IInv, TypeOK
<1>5. EveryPeerTriedOnce'
  BY <1>2, <1>3 DEF IInv, EveryPeerTriedOnce, InFlight
<1>6. SpreadBounded'
  <2> SUFFICES ASSUME NEW p \in Peers, NEW r \in Peers, <<p, r>> \notin uncompared
               PROVE  peerCount'[p] + Cardinality(Asking(p)') <= peerCount'[r] + Cardinality(Queries)
    BY <1>2 DEF SpreadBounded
  <2>1. peerCount[p] + Cardinality(Asking(p)) <= peerCount[r] + Cardinality(Queries)
    BY DEF IInv, SpreadBounded
  <2>2. CASE p = h
    <3>1. q \in Asking(p) /\ Asking(p)' = Asking(p) \ {q}
      BY <1>1, <1>3, <2>2 DEF Asking, InFlight, h
    <3>2. Cardinality(Asking(p)') = Cardinality(Asking(p)) - 1
      BY <3>1, AskingFinite, FS_RemoveElement
    <3>3. peerCount'[p] = peerCount[p] + 1 /\ peerCount[p] \in Nat
      BY <1>1, <1>3, <2>2
    <3>4. peerCount[r] \in Nat /\ peerCount'[r] \in Nat /\ peerCount[r] <= peerCount'[r]
      BY <1>1, <1>3
    <3> QED
      BY <2>1, <3>2, <3>3, <3>4, AskingFinite
  <2>3. CASE p # h
    <3>1. Asking(p)' = Asking(p)
      BY <1>1, <1>3, <2>3 DEF Asking, InFlight, h
    <3>2. peerCount'[p] = peerCount[p]
      BY <1>3, <2>3
    <3>3. /\ peerCount[r] \in Nat /\ peerCount'[r] \in Nat /\ peerCount[r] <= peerCount'[r]
          /\ peerCount[p] \in Nat
      BY <1>1, <1>3
    <3> QED
      BY <2>1, <3>1, <3>2, <3>3, AskingFinite
  <2> QED
    BY <2>2, <2>3
<1>7. ErrorsAreListed'
  BY <1>2 DEF IInv, ErrorsAreListed
<1> QED
  BY <1>4, <1>5, <1>6, <1>7 DEF IInv

\* The peer that failed is the one the list loses.
LEMMA PeerFailsKeeps ==
    ASSUME IInv, NEW q \in Queries, PeerFails(q)
    PROVE  IInv'
<1> DEFINE list == peerList[q]
           h == Head(list)
           new == IF Len(list) = 1 THEN {} ELSE {list[2]} \X Peers
<1>1. /\ list \in Seq(Peers) /\ list # <<>> /\ h \in Peers
      /\ Tail(list) \in Seq(Peers)
      /\ ToSet(list) = listed[q] \ allErrors[q] /\ IsInjective(list)
      /\ h \in listed[q]
  <2>1. /\ list \in Seq(Peers) /\ list # <<>> /\ h \in Peers /\ Tail(list) \in Seq(Peers)
        /\ ToSet(list) = listed[q] \ allErrors[q] /\ IsInjective(list)
    BY DEF IInv, TypeOK, PeerFails, InFlight, EveryPeerTriedOnce
  <2>2. 1 \in DOMAIN list /\ h = list[1]
    <3> HIDE DEF list
    <3> QED
      BY <2>1 DEF h
  <2> QED
    BY <2>1, <2>2 DEF ToSet
<1>2. /\ peerList' = [peerList EXCEPT ![q] = Tail(list)]
      /\ allErrors' = [allErrors EXCEPT ![q] = @ \cup {h}]
      /\ result' = [result EXCEPT ![q] = IF Len(list) = 1 THEN "noneAvailable" ELSE "none"]
      /\ peerCount' = peerCount /\ listed' = listed /\ uncompared' = uncompared \cup new
  BY DEF PeerFails
<1>n. /\ new \in SUBSET (Peers \X Peers)
      /\ \A p, r \in Peers : Len(list) > 1 /\ p = list[2] => <<p, r>> \in new
  <2>1. Len(list) \in Nat \ {0} /\ (Len(list) # 1 => list[2] \in Peers)
    <3> HIDE DEF list, new, h
    <3>1. list \in Seq(Peers) /\ list # <<>>
      BY <1>1
    <3>2. Len(list) \in Nat \ {0}
      BY <3>1, EmptySeq
    <3>3. Len(list) # 1 => 2 \in 1..Len(list)
      BY <3>2
    <3> QED
      BY <3>1, <3>2, <3>3, LenProperties
  <2>2. CASE Len(list) = 1
    BY <2>2
  <2>3. CASE Len(list) # 1
    <3> DEFINE s == list[2]
    <3>1. new = {s} \X Peers /\ s \in Peers
      BY <2>1, <2>3
    <3> HIDE DEF s, new, list
    <3>2. \A p, r \in Peers : p = s => <<p, r>> \in new
      BY <3>1
    <3>3. new \in SUBSET (Peers \X Peers)
      BY <3>1
    <3> QED
      BY <3>2, <3>3 DEF s
  <2> QED
    BY <2>2, <2>3
<1>3. /\ ToSet(Tail(list)) = ToSet(list) \ {h} /\ IsInjective(Tail(list))
      /\ Len(list) = 1 <=> Tail(list) = <<>>
      /\ Tail(list) # <<>> => Len(list) > 1 /\ Head(Tail(list)) = list[2]
  <2> HIDE DEF list
  <2> DEFINE n == Len(list)
             t == Tail(list)
  <2>1. /\ n \in Nat \ {0} /\ DOMAIN list = 1..n /\ h = list[1]
        /\ Len(t) = n - 1 /\ DOMAIN t = 1..(n - 1)
        /\ \A i \in 1..(n - 1) : t[i] = list[i + 1]
    BY <1>1, HeadTailProperties, LenProperties
  <2>2. n = 1 <=> t = <<>>
    <3>1. t \in Seq(Peers) /\ Len(t) = n - 1
      BY <1>1, <2>1
    <3> HIDE DEF n, t
    <3> QED
      BY <2>1, <3>1, EmptySeq
  <2>7. t # <<>> => n > 1 /\ Head(t) = list[2]
    <3> HIDE DEF n
    <3>1. t # <<>> => n > 1 /\ 1 \in 1..(n - 1) /\ t[1] = list[2]
      BY <2>1, <2>2
    <3>2. t \in Seq(Peers) => (t # <<>> => Head(t) = t[1])
      <4> HIDE DEF t
      <4> QED
        OBVIOUS
    <3> QED
      BY <1>1, <3>1, <3>2
  <2> HIDE DEF n, t, h
  <2>3. \A i, j \in 1..n : list[i] = list[j] => i = j
    BY <1>1, <2>1 DEF IsInjective
  <2>4. IsInjective(t)
    BY <2>1, <2>3 DEF IsInjective
  <2>5. ASSUME NEW p \in ToSet(t) PROVE p \in ToSet(list) \ {h}
    <3>1. PICK i \in 1..(n - 1) : p = t[i]
      BY <2>1, <2>5 DEF ToSet
    <3>2. i + 1 \in 1..n /\ i + 1 # 1 /\ p = list[i + 1]
      BY <2>1, <3>1
    <3>3. p # h
      BY <2>1, <2>3, <3>2
    <3> QED
      BY <2>1, <3>2, <3>3 DEF ToSet
  <2>6. ASSUME NEW p \in ToSet(list) \ {h} PROVE p \in ToSet(t)
    <3>1. PICK i \in 1..n : p = list[i]
      BY <2>1, <2>6 DEF ToSet
    <3>2. i - 1 \in 1..(n - 1) /\ (i - 1) + 1 = i
      BY <2>1, <2>6, <3>1
    <3> QED
      BY <2>1, <3>1, <3>2 DEF ToSet
  <2> QED
    BY <2>2, <2>4, <2>5, <2>6, <2>7 DEF n, t
<1> HIDE DEF list, h, new
<1>4. TypeOK'
  <2>1. uncompared' \in SUBSET (Peers \X Peers)
    BY <1>2, <1>n DEF IInv, TypeOK
  <2> QED
    BY <1>1, <1>2, <2>1 DEF IInv, TypeOK
<1>5. /\ \A r \in Queries : peerList'[r] = IF r = q THEN Tail(list) ELSE peerList[r]
      /\ \A r \in Queries : allErrors'[r] = IF r = q THEN allErrors[r] \cup {h} ELSE allErrors[r]
      /\ \A r \in Queries : r # q => result'[r] = result[r]
      /\ result'[q] = IF Len(list) = 1 THEN "noneAvailable" ELSE "none"
  BY <1>2 DEF IInv, TypeOK
<1>6. EveryPeerTriedOnce'
  <2>1. ToSet(<<>>) = {}
    BY DEF ToSet
  <2>2. result'[q] = "noneAvailable" => allErrors'[q] = listed[q]
    <3> SUFFICES ASSUME Tail(list) = <<>> PROVE allErrors[q] \cup {h} = listed[q]
      BY <1>3, <1>5
    <3>1. listed[q] \ allErrors[q] \subseteq {h} /\ allErrors[q] \subseteq listed[q]
      BY <1>1, <1>3, <2>1 DEF IInv, ErrorsAreListed
    <3> QED
      BY <1>1, <3>1
  <2>3. ToSet(Tail(list)) = listed[q] \ (allErrors[q] \cup {h})
    BY <1>1, <1>3
  <2> SUFFICES ASSUME NEW r \in Queries
               PROVE  /\ result'[r] = "noneAvailable" => allErrors'[r] = listed[r]
                      /\ peerList'[r] # <<>> => /\ ToSet(peerList'[r]) = listed[r] \ allErrors'[r]
                                               /\ IsInjective(peerList'[r])
    BY <1>2 DEF EveryPeerTriedOnce, InFlight
  <2>4. CASE r = q
    <3>1. peerList'[r] = Tail(list) /\ allErrors'[r] = allErrors[q] \cup {h}
      BY <1>5, <2>4
    <3> QED
      BY <1>3, <2>2, <2>3, <2>4, <3>1
  <2>5. CASE r # q
    BY <1>5, <2>5 DEF IInv, EveryPeerTriedOnce, InFlight
  <2> QED
    BY <2>4, <2>5
<1>7. SpreadBounded'
  <2> SUFFICES ASSUME NEW p \in Peers, NEW r \in Peers,
                      <<p, r>> \notin uncompared, <<p, r>> \notin new
               PROVE  peerCount[p] + Cardinality(Asking(p)') <= peerCount[r] + Cardinality(Queries)
    BY <1>2 DEF SpreadBounded
  <2>1. /\ peerCount[p] \in Nat /\ peerCount[r] \in Nat
        /\ peerCount[p] + Cardinality(Asking(p)) <= peerCount[r] + Cardinality(Queries)
    BY DEF IInv, TypeOK, SpreadBounded
  <2>2. Asking(p)' \in SUBSET Queries
    BY DEF Asking
  <2>3. /\ Cardinality(Asking(p)') \in Nat
        /\ Cardinality(Asking(p)') <= Cardinality(Queries)
    BY <2>2, RoundRobinAssumption, FS_Subset, FS_CardinalityType
  <2>4. CASE p = r
    BY <2>1, <2>3, <2>4, AskingFinite
  <2>5. CASE p # r
    <3>1. Tail(list) # <<>> => Head(Tail(list)) # p
      BY <1>3, <1>n, <2>5
    <3>2. Asking(p)' \subseteq Asking(p)
      BY <1>5, <3>1 DEF Asking, InFlight
    <3>3. Cardinality(Asking(p)') <= Cardinality(Asking(p))
      BY <3>2, AskingFinite, FS_Subset
    <3> QED
      BY <2>1, <2>3, <3>3, AskingFinite
  <2> QED
    BY <2>4, <2>5
<1>8. ErrorsAreListed'
  BY <1>1, <1>2, <1>5 DEF IInv, ErrorsAreListed
<1> QED
  BY <1>4, <1>6, <1>7, <1>8 DEF IInv

LEMMA IInvInit == Init => IInv
<1> SUFFICES ASSUME Init PROVE IInv
  OBVIOUS
<1>1. TypeOK
  <2>1. <<>> \in Seq(Peers)
    OBVIOUS
  <2> QED
    BY <2>1 DEF Init, TypeOK
<1>2. EveryPeerTriedOnce
  BY DEF Init, EveryPeerTriedOnce, InFlight
<1>3. SpreadBounded
  BY AskingFinite DEF Init, SpreadBounded
<1>4. ErrorsAreListed
  BY DEF Init, ErrorsAreListed
<1> QED
  BY <1>1, <1>2, <1>3, <1>4 DEF IInv

\* IInv is an invariant.
THEOREM Invariance == Spec => []IInv
<1>1. IInv /\ [Next]_vars => IInv'
  <2> SUFFICES ASSUME IInv, [Next]_vars PROVE IInv'
    OBVIOUS
  <2>1. CASE UNCHANGED vars
    BY <2>1 DEF vars, IInv, TypeOK, SpreadBounded, Asking, EveryPeerTriedOnce, InFlight,
                ErrorsAreListed
  <2> QED
    BY <2>1, QueryUndefinedKeeps, QueryChaincodeKeeps, PeerAnswersKeeps, PeerFailsKeeps DEF Next, PeerResponds
<1> QED
  BY <1>1, IInvInit, PTL DEF Spec

\* Use counts are numbers, and queries ask peers of their handler.
THEOREM TypeCorrectness == Spec => []TypeOK
BY Invariance, PTL DEF IInv

\* A peer only ever asked first, by handlers that list another too, is not ahead
\* of it by more uses than the number of concurrent queries allows.
THEOREM UseIsSpread == Spec => []SpreadBounded
BY Invariance, PTL DEF IInv

\* No query loses a peer, or asks one twice, by the sorting.
THEOREM TriedOnce == Spec => []EveryPeerTriedOnce
BY Invariance, PTL DEF IInv
=============================================================================
