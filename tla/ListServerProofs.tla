--------------------------- MODULE ListServerProofs ---------------------------
(***************************************************************************)
(* What TLAPS proves of the linked list and of the server that keeps one,  *)
(* for any heap and any values: every operation of the library does to the *)
(* sequence of values what its name says, so does every command of any     *)
(* sequence of commands, and the handler of SIGINT frees the list.         *)
(***************************************************************************)
EXTENDS ListServer, SequenceTheorems, FiniteSetTheorems, WellFoundedInduction,
        TLAPS

-----------------------------------------------------------------------------
(* Numbers and sequences                                                   *)

(* Every non-empty set of natural numbers has a least element.             *)
LEMMA LeastNat ==
  ASSUME NEW T \in SUBSET Nat, T # {}
  PROVE  \E x \in T : \A y \in T : x <= y
<1>1. IsWellFoundedOn(OpToRel(<, Nat), Nat)
  BY NatLessThanWellFounded
<1>2. PICK x \in T : \A y \in T : ~ (<<y, x>> \in OpToRel(<, Nat))
  BY <1>1, WFMin
<1>3. \A y \in T : ~ (y < x)
  BY <1>2 DEF OpToRel
<1>4. \A y \in T : x <= y
  BY <1>3
<1> QED
  BY <1>4

\* A sequence of n elements with e put behind its first j, and without its
\* j-th element.
Put(f, n, j, e) ==
  [k \in 1 .. n + 1 |-> IF k <= j THEN f[k] ELSE IF k = j + 1 THEN e ELSE f[k - 1]]
Cut(f, n, j) == [k \in 1 .. n - 1 |-> IF k < j THEN f[k] ELSE f[k + 1]]

LEMMA SeqOfFunction ==
  ASSUME NEW S, NEW n \in Nat, NEW f \in [1 .. n -> S]
  PROVE  f \in Seq(S) /\ Len(f) = n
OBVIOUS

(* Two sequences with the same elements are equal.                         *)
LEMMA SameSeq ==
  ASSUME NEW S, NEW n \in Nat, NEW f \in [1 .. n -> S], NEW s \in Seq(S),
         Len(s) = n, \A k \in 1 .. n : s[k] = f[k]
  PROVE  s = f
BY SeqOfFunction, SeqEqual

LEMMA PutType ==
  ASSUME NEW S, NEW n \in Nat, NEW f \in [1 .. n -> S], NEW j \in 0 .. n,
         NEW e \in S
  PROVE  Put(f, n, j, e) \in [1 .. n + 1 -> S]
<1>1. ASSUME NEW k \in 1 .. n + 1
      PROVE  Put(f, n, j, e)[k] \in S
  BY DEF Put
<1> QED
  BY <1>1 DEF Put

LEMMA CutType ==
  ASSUME NEW S, NEW n \in Nat, NEW f \in [1 .. n -> S], NEW j \in 1 .. n
  PROVE  Cut(f, n, j) \in [1 .. n - 1 -> S]
<1>1. ASSUME NEW k \in 1 .. n - 1
      PROVE  Cut(f, n, j)[k] \in S
  BY DEF Cut
<1> QED
  BY <1>1 DEF Cut

LEMMA PrefixIs ==
  ASSUME NEW S, NEW n \in Nat, NEW f \in [1 .. n -> S], NEW j \in 0 .. n
  PROVE  /\ SubSeq(f, 1, j) \in Seq(S)
         /\ Len(SubSeq(f, 1, j)) = j
         /\ \A k \in 1 .. j : SubSeq(f, 1, j)[k] = f[k]
<1>1. \A k \in 1 .. j : f[k] \in S
  OBVIOUS
<1>2. /\ SubSeq(f, 1, j) \in Seq(S)
      /\ Len(SubSeq(f, 1, j)) = IF 1 <= j THEN j - 1 + 1 ELSE 0
      /\ \A k \in 1 .. j - 1 + 1 : SubSeq(f, 1, j)[k] = f[1 + k - 1]
  BY <1>1, SubSeqProperties
<1> QED
  BY <1>2

LEMMA SuffixIs ==
  ASSUME NEW S, NEW n \in Nat, NEW f \in [1 .. n -> S], NEW j \in 0 .. n
  PROVE  /\ SubSeq(f, j + 1, n) \in Seq(S)
         /\ Len(SubSeq(f, j + 1, n)) = n - j
         /\ \A k \in 1 .. n - j : SubSeq(f, j + 1, n)[k] = f[j + k]
<1>1. \A k \in j + 1 .. n : f[k] \in S
  OBVIOUS
<1>2. /\ SubSeq(f, j + 1, n) \in Seq(S)
      /\ Len(SubSeq(f, j + 1, n)) = IF j + 1 <= n THEN n - (j + 1) + 1 ELSE 0
      /\ \A k \in 1 .. n - (j + 1) + 1 : SubSeq(f, j + 1, n)[k] = f[(j + 1) + k - 1]
  BY <1>1, SubSeqProperties
<1> QED
  BY <1>2

LEMMA OneIs ==
  ASSUME NEW S, NEW e \in S
  PROVE  <<e>> \in Seq(S) /\ Len(<<e>>) = 1 /\ <<e>>[1] = e
OBVIOUS

LEMMA InsertAtIs ==
  ASSUME NEW S, NEW n \in Nat, NEW f \in [1 .. n -> S], NEW j \in 0 .. n,
         NEW e \in S
  PROVE  InsertAt(f, j + 1, e) = Put(f, n, j, e)
<1> DEFINE a == SubSeq(f, 1, j)
           c == a \o <<e>>
           b == SubSeq(f, j + 1, n)
<1>1. /\ a \in Seq(S) /\ Len(a) = j
      /\ \A k \in 1 .. j : a[k] = f[k]
  BY PrefixIs
<1>2. /\ b \in Seq(S) /\ Len(b) = n - j
      /\ \A k \in 1 .. n - j : b[k] = f[j + k]
  BY SuffixIs
<1>3. Len(f) = n /\ (j + 1) - 1 = j
  BY SeqOfFunction
<1>4. InsertAt(f, j + 1, e) = c \o b
  BY <1>3 DEF InsertAt
<1> HIDE DEF a, b
<1>5. /\ c \in Seq(S) /\ Len(c) = j + 1
      /\ \A k \in 1 .. j + 1 : c[k] = IF k <= j THEN a[k] ELSE <<e>>[k - j]
  BY <1>1, OneIs, ConcatProperties
<1> HIDE DEF c
<1>6. PICK r \in Seq(S) :
        /\ r = c \o b /\ Len(r) = n + 1
        /\ \A k \in 1 .. n + 1 :
             r[k] = IF k <= j + 1 THEN c[k] ELSE b[k - (j + 1)]
  <2>1. /\ c \o b \in Seq(S) /\ Len(c \o b) = Len(c) + Len(b)
        /\ \A k \in 1 .. Len(c) + Len(b) :
             (c \o b)[k] = IF k <= Len(c) THEN c[k] ELSE b[k - Len(c)]
    BY <1>2, <1>5, ConcatProperties
  <2>2. Len(c) + Len(b) = n + 1
    BY <1>2, <1>5
  <2> QED
    BY <1>5, <2>1, <2>2
<1>7. ASSUME NEW k \in 1 .. n + 1
      PROVE  r[k] = Put(f, n, j, e)[k]
  <2>1. CASE k <= j
    BY <1>1, <1>5, <1>6, <2>1 DEF Put
  <2>2. CASE k = j + 1
    <3>1. k - j = 1
      BY <2>2
    <3> QED
      BY <1>5, <1>6, <2>2, <3>1, OneIs DEF Put
  <2>3. CASE k > j + 1
    <3>1. k - (j + 1) \in 1 .. n - j /\ j + (k - (j + 1)) = k - 1
      BY <2>3
    <3>2. r[k] = b[k - (j + 1)]
      <4>1. ~ (k <= j + 1)
        BY <2>3
      <4> QED
        BY <1>6, <4>1
    <3>3. b[k - (j + 1)] = f[j + (k - (j + 1))]
      BY <1>2, <3>1
    <3> QED
      BY <2>3, <3>1, <3>2, <3>3 DEF Put
  <2> QED
    BY <2>1, <2>2, <2>3
<1>8. Put(f, n, j, e) \in [1 .. n + 1 -> S] /\ n + 1 \in Nat
  BY PutType
<1>9. r = Put(f, n, j, e)
  BY <1>6, <1>7, <1>8, SameSeq
<1> QED
  BY <1>4, <1>6, <1>9

LEMMA RemoveAtIs ==
  ASSUME NEW S, NEW n \in Nat, NEW f \in [1 .. n -> S], NEW j \in 1 .. n
  PROVE  RemoveAt(f, j) = Cut(f, n, j)
<1> DEFINE a == SubSeq(f, 1, j - 1)
           b == SubSeq(f, j + 1, n)
<1>1. /\ a \in Seq(S) /\ Len(a) = j - 1
      /\ \A k \in 1 .. j - 1 : a[k] = f[k]
  <2>1. j - 1 \in 0 .. n
    OBVIOUS
  <2> QED
    BY <2>1, PrefixIs
<1>2. /\ b \in Seq(S) /\ Len(b) = n - j
      /\ \A k \in 1 .. n - j : b[k] = f[j + k]
  <2>1. j \in 0 .. n
    OBVIOUS
  <2> QED
    BY <2>1, SuffixIs
<1>3. RemoveAt(f, j) = a \o b
  BY SeqOfFunction DEF RemoveAt
<1> HIDE DEF a, b
<1>4. PICK r \in Seq(S) :
        /\ r = a \o b /\ Len(r) = n - 1
        /\ \A k \in 1 .. n - 1 :
             r[k] = IF k <= j - 1 THEN a[k] ELSE b[k - (j - 1)]
  <2>1. /\ a \o b \in Seq(S) /\ Len(a \o b) = Len(a) + Len(b)
        /\ \A k \in 1 .. Len(a) + Len(b) :
             (a \o b)[k] = IF k <= Len(a) THEN a[k] ELSE b[k - Len(a)]
    BY <1>1, <1>2, ConcatProperties
  <2>2. Len(a) + Len(b) = n - 1
    BY <1>1, <1>2
  <2> QED
    BY <1>1, <2>1, <2>2
<1>5. ASSUME NEW k \in 1 .. n - 1
      PROVE  r[k] = Cut(f, n, j)[k]
  <2>1. CASE k < j
    <3>1. k <= j - 1 /\ k \in 1 .. j - 1
      BY <2>1
    <3>2. r[k] = f[k]
      BY <1>1, <1>4, <3>1
    <3> QED
      BY <2>1, <3>2 DEF Cut
  <2>2. CASE k >= j
    <3>1. k - (j - 1) \in 1 .. n - j /\ j + (k - (j - 1)) = k + 1
      BY <2>2
    <3>2. r[k] = b[k - (j - 1)]
      BY <1>4, <2>2
    <3>3. b[k - (j - 1)] = f[j + (k - (j - 1))]
      BY <1>2, <3>1
    <3> QED
      BY <2>2, <3>1, <3>2, <3>3 DEF Cut
  <2> QED
    BY <2>1, <2>2
<1>6. Cut(f, n, j) \in [1 .. n - 1 -> S]
  BY CutType
<1>7. n - 1 \in Nat
  OBVIOUS
<1>8. r = Cut(f, n, j)
  BY <1>4, <1>5, <1>6, <1>7, SameSeq
<1> QED
  BY <1>3, <1>4, <1>8

LEMMA AppendIs ==
  ASSUME NEW S, NEW n \in Nat, NEW f \in [1 .. n -> S], NEW e \in S
  PROVE  Append(f, e) = Put(f, n, n, e)
<1>1. /\ Append(f, e) \in Seq(S) /\ Len(Append(f, e)) = n + 1
      /\ \A k \in 1 .. n : Append(f, e)[k] = f[k]
      /\ Append(f, e)[n + 1] = e
  BY SeqOfFunction, AppendProperties
<1>2. \A k \in 1 .. n + 1 : Append(f, e)[k] = Put(f, n, n, e)[k]
  BY <1>1 DEF Put
<1>3. Put(f, n, n, e) \in [1 .. n + 1 -> S] /\ n + 1 \in Nat
  BY PutType
<1> QED
  BY <1>1, <1>2, <1>3, SameSeq

LEMMA ConsIs ==
  ASSUME NEW S, NEW n \in Nat, NEW f \in [1 .. n -> S], NEW e \in S
  PROVE  <<e>> \o f = Put(f, n, 0, e)
<1>1. /\ <<e>> \o f \in Seq(S) /\ Len(<<e>> \o f) = n + 1
      /\ \A k \in 1 .. n + 1 :
           (<<e>> \o f)[k] = IF k <= 1 THEN <<e>>[k] ELSE f[k - 1]
  BY SeqOfFunction, OneIs, ConcatProperties
<1>2. \A k \in 1 .. n + 1 : (<<e>> \o f)[k] = Put(f, n, 0, e)[k]
  BY <1>1, OneIs DEF Put
<1>3. Put(f, n, 0, e) \in [1 .. n + 1 -> S] /\ n + 1 \in Nat
  BY PutType
<1> QED
  BY <1>1, <1>2, <1>3, SameSeq

-----------------------------------------------------------------------------
(* The nodes of a list, in their order                                     *)

Heaps == [head : Nodes \cup {NULL}, next : [Nodes -> Nodes \cup {NULL}],
          value : [Nodes -> Int], used : SUBSET Nodes]

\* The k-th of the m nodes l, NULL behind the last.
Link(l, m, k) == IF k \in 1 .. m THEN l[k] ELSE NULL

\* The head and the next pointers lead through the m nodes l, each once.
Chain(h, l, m) ==
  /\ h \in Heaps
  /\ m \in Nat
  /\ l \in [1 .. m -> Nodes]
  /\ \A j, k \in 1 .. m : l[j] = l[k] => j = k
  /\ h.head = Link(l, m, 1)
  /\ \A k \in 1 .. m : h.next[l[k]] = Link(l, m, k + 1)

Holds(l, m) == {l[k] : k \in 1 .. m}

\* A list, and no other node in use.
Tidy(h, l, m) == Chain(h, l, m) /\ h.used = Holds(l, m)

(* A list is no longer than the heap is large.                             *)
LEMMA ChainFits ==
  ASSUME NEW h, NEW l, NEW m, Chain(h, l, m)
  PROVE  Cardinality(Nodes) \in Nat /\ m <= Cardinality(Nodes)
<1>1. l \in Injection(1 .. m, Nodes)
  BY DEF Chain, Injection, IsInjective
<1>2. IsFiniteSet(Nodes) /\ Cardinality(Nodes) \in Nat
  BY HeapAssumption, FS_CardinalityType
<1>3. Cardinality(1 .. m) <= Cardinality(Nodes)
  BY <1>1, <1>2, FS_Injection
<1>4. Cardinality(1 .. m) = IF 1 > m THEN 0 ELSE m - 1 + 1
  BY FS_Interval DEF Chain
<1> QED
  BY <1>2, <1>3, <1>4 DEF Chain

(* Following the pointers visits the nodes of the list.                    *)
LEMMA NodeAtIs ==
  ASSUME NEW h, NEW l, NEW m, Chain(h, l, m)
  PROVE  /\ DOMAIN NodeAt(h) = 0 .. Cardinality(Nodes)
         /\ \A k \in 0 .. Cardinality(Nodes) :
              NodeAt(h)[k] = Link(l, m, k + 1)
<1> DEFINE N == Cardinality(Nodes)
           Follows(at) == at = [k \in 0 .. N |->
                                  IF k = 0 THEN h.head
                                  ELSE IF at[k - 1] = NULL THEN NULL
                                  ELSE h.next[at[k - 1]]]
           g == [k \in 0 .. N |-> Link(l, m, k + 1)]
<1>1. N \in Nat
  BY ChainFits
<1>2. ASSUME NEW k \in 0 .. N
      PROVE  g[k] = IF k = 0 THEN h.head
                    ELSE IF g[k - 1] = NULL THEN NULL ELSE h.next[g[k - 1]]
  <2>1. CASE k = 0
    BY <2>1 DEF Chain
  <2>2. CASE k # 0
    <3>1. k - 1 \in 0 .. N /\ (k - 1) + 1 = k
      BY <1>1, <2>2
    <3>2. g[k - 1] = Link(l, m, k) /\ g[k] = Link(l, m, k + 1)
      BY <3>1
    <3>3. k \in Nat /\ k # 0 /\ m \in Nat
      BY <2>2 DEF Chain
    <3>4. CASE k \in 1 .. m
      <4>1. Link(l, m, k) = l[k] /\ l[k] # NULL
        BY <3>4, HeapAssumption DEF Link, Chain
      <4>2. h.next[l[k]] = Link(l, m, k + 1)
        BY <3>4 DEF Chain
      <4> QED
        BY <2>2, <3>2, <4>1, <4>2
    <3>5. CASE k \notin 1 .. m
      <4>1. k + 1 \notin 1 .. m
        BY <3>3, <3>5
      <4>2. Link(l, m, k) = NULL /\ Link(l, m, k + 1) = NULL
        BY <3>5, <4>1 DEF Link
      <4> QED
        BY <2>2, <3>2, <4>2
    <3> QED
      BY <3>4, <3>5
  <2> QED
    BY <2>1, <2>2
<1>3. Follows(g)
  BY <1>2
<1>4. NodeAt(h) = CHOOSE at : Follows(at)
  BY DEF NodeAt
<1> HIDE DEF Follows, g
<1>5. Follows(NodeAt(h))
  BY <1>3, <1>4
<1>6. PICK at : at = NodeAt(h) /\ Follows(at)
  BY <1>5
<1> DEFINE Wrong == {k \in 0 .. N : at[k] # g[k]}
<1>7. ASSUME Wrong # {}
      PROVE  FALSE
  <2>1. Wrong \in SUBSET Nat
    OBVIOUS
  <2>2. PICK k \in Wrong : \A y \in Wrong : k <= y
    <3> HIDE DEF Wrong
    <3> QED
      BY <1>7, <2>1, LeastNat
  <2>3. at[k] = IF k = 0 THEN h.head
                ELSE IF at[k - 1] = NULL THEN NULL ELSE h.next[at[k - 1]]
    BY <1>6 DEF Follows
  <2>4. g[k] = IF k = 0 THEN h.head
               ELSE IF g[k - 1] = NULL THEN NULL ELSE h.next[g[k - 1]]
    BY <1>2
  <2>5. k # 0 => at[k - 1] = g[k - 1]
    <3>1. k # 0 => k - 1 \in 0 .. N /\ ~ (k <= k - 1)
      BY <1>1
    <3> QED
      BY <2>2, <3>1
  <2> QED
    BY <2>3, <2>4, <2>5
<1>8. \A k \in 0 .. N : at[k] = g[k]
  BY <1>7
<1>9. DOMAIN at = 0 .. N
  BY <1>6 DEF Follows
<1> QED
  BY <1>6, <1>8, <1>9 DEF g

(* So it is as long as it has nodes, and shows their values.               *)
LEMMA LengthIs ==
  ASSUME NEW h, NEW l, NEW m, Chain(h, l, m)
  PROVE  list_length(h) = m
<1>1. Cardinality(Nodes) \in Nat /\ m <= Cardinality(Nodes) /\ m \in Nat
  <2>1. m \in Nat
    BY DEF Chain
  <2> QED
    BY <2>1, ChainFits
<1>2. {k \in DOMAIN NodeAt(h) : NodeAt(h)[k] # NULL} = 0 .. m - 1
  <2>1. ASSUME NEW k \in 0 .. Cardinality(Nodes)
        PROVE  NodeAt(h)[k] # NULL <=> k \in 0 .. m - 1
    <3>1. NodeAt(h)[k] = Link(l, m, k + 1)
      BY NodeAtIs
    <3>2. k \in 0 .. m - 1 <=> k + 1 \in 1 .. m
      BY <1>1
    <3>3. Link(l, m, k + 1) # NULL <=> k + 1 \in 1 .. m
      BY HeapAssumption DEF Link, Chain
    <3> QED
      BY <3>1, <3>2, <3>3
  <2>2. \A k \in 0 .. m - 1 : k \in 0 .. Cardinality(Nodes)
    BY <1>1
  <2> QED
    BY <2>1, <2>2, NodeAtIs
<1>3. Cardinality(0 .. m - 1) = IF 0 > m - 1 THEN 0 ELSE (m - 1) - 0 + 1
  BY <1>1, FS_Interval
<1>4. list_length(h) = Cardinality(0 .. m - 1)
  BY <1>2, Zenon DEF list_length
<1> QED
  BY <1>1, <1>3, <1>4

LEMMA NodeIs ==
  ASSUME NEW h, NEW l, NEW m, Chain(h, l, m), NEW k \in 0 .. m
  PROVE  NodeAt(h)[k] = Link(l, m, k + 1)
<1>1. m \in Nat
  BY DEF Chain
<1>2. Cardinality(Nodes) \in Nat /\ m <= Cardinality(Nodes)
  BY ChainFits
<1>3. k \in 0 .. Cardinality(Nodes)
  BY <1>1, <1>2
<1> QED
  BY <1>3, NodeAtIs

Shows(h, l, m) == [k \in 1 .. m |-> h.value[l[k]]]

LEMMA ElementsIs ==
  ASSUME NEW h, NEW l, NEW m, Chain(h, l, m)
  PROVE  /\ Elements(h) = Shows(h, l, m)
         /\ Elements(h) \in [1 .. m -> Int]
         /\ Elements(h) \in Seq(Int)
         /\ Len(Elements(h)) = m
<1>1. \A k \in 1 .. m : NodeAt(h)[k - 1] = l[k]
  <2>1. ASSUME NEW k \in 1 .. m
        PROVE  NodeAt(h)[k - 1] = l[k]
    <3>1. k - 1 \in 0 .. m /\ (k - 1) + 1 = k
      BY DEF Chain
    <3>2. NodeAt(h)[k - 1] = Link(l, m, k)
      BY <3>1, NodeIs
    <3> QED
      BY <3>2 DEF Link
  <2> QED
    BY <2>1
<1>2. Elements(h) = Shows(h, l, m)
  BY <1>1, LengthIs DEF Elements, Shows
<1>3. Shows(h, l, m) \in [1 .. m -> Int] /\ m \in Nat
  BY DEF Shows, Chain, Heaps
<1> QED
  BY <1>2, <1>3, SeqOfFunction

\* The nodes from the first to the last, without an index.
LEMMA HoldsIs ==
  ASSUME NEW h, NEW l, NEW m, Chain(h, l, m)
  PROVE  {NodeAt(h)[k] : k \in 0 .. m - 1} = Holds(l, m)
<1>1. \A k \in 0 .. m - 1 : NodeAt(h)[k] = l[k + 1] /\ k + 1 \in 1 .. m
  <2>1. ASSUME NEW k \in 0 .. m - 1
        PROVE  NodeAt(h)[k] = l[k + 1] /\ k + 1 \in 1 .. m
    <3>1. k \in 0 .. m /\ k + 1 \in 1 .. m
      BY DEF Chain
    <3>2. NodeAt(h)[k] = Link(l, m, k + 1)
      BY <3>1, NodeIs
    <3> QED
      BY <3>1, <3>2 DEF Link
  <2> QED
    BY <2>1
<1>2. \A k \in 1 .. m : k - 1 \in 0 .. m - 1 /\ (k - 1) + 1 = k
  BY DEF Chain
<1>3. \A k \in 1 .. m : NodeAt(h)[k - 1] = l[k]
  BY <1>1, <1>2
<1> QED
  BY <1>1, <1>2, <1>3 DEF Holds

-----------------------------------------------------------------------------
(* What the writes of an operation do                                      *)

LEMMA MallocIs ==
  ASSUME NEW h \in Heaps, NEW n \in Nodes, NEW v \in Int,
         NEW next \in Nodes \cup {NULL}
  PROVE  LET new == Write(h, getNode(n, v, next))
         IN  /\ new \in Heaps
             /\ new.head = h.head
             /\ new.used = h.used \cup {n}
             /\ \A x \in Nodes :
                  /\ new.next[x] = IF x = n THEN next ELSE h.next[x]
                  /\ new.value[x] = IF x = n THEN v ELSE h.value[x]
BY DEF Heaps, Write, getNode

LEMMA SetHeadIs ==
  ASSUME NEW h \in Heaps, NEW n \in Nodes \cup {NULL}
  PROVE  LET new == Write(h, SetHead(n))
         IN  /\ new \in Heaps
             /\ new.head = n
             /\ new.used = h.used
             /\ new.next = h.next
             /\ new.value = h.value
BY DEF Heaps, Write, SetHead

LEMMA SetNextIs ==
  ASSUME NEW h \in Heaps, NEW n \in Nodes, NEW next \in Nodes \cup {NULL}
  PROVE  LET new == Write(h, SetNext(n, next))
         IN  /\ new \in Heaps
             /\ new.head = h.head
             /\ new.used = h.used
             /\ \A x \in Nodes : new.next[x] = IF x = n THEN next ELSE h.next[x]
             /\ new.value = h.value
BY DEF Heaps, Write, SetNext

LEMMA FreeIs ==
  ASSUME NEW h \in Heaps, NEW n \in Nodes
  PROVE  LET new == Write(h, Free(n))
         IN  /\ new \in Heaps
             /\ new.head = h.head
             /\ new.used = h.used \ {n}
             /\ new.next = h.next
             /\ new.value = h.value
BY DEF Heaps, Write, Free

LEMMA SameHeap ==
  ASSUME NEW g \in Heaps, NEW h \in Heaps, g.head = h.head, g.used = h.used,
         \A x \in Nodes : g.next[x] = h.next[x] /\ g.value[x] = h.value[x]
  PROVE  g = h
<1>1. g.next = h.next /\ g.value = h.value
  BY DEF Heaps
<1> QED
  BY <1>1 DEF Heaps

(* It makes no difference whether a node is freed before the link to it is *)
(* cut or after.                                                           *)
LEMMA FreeCommutes ==
  ASSUME NEW h \in Heaps, NEW n \in Nodes, NEW x \in Nodes \cup {NULL}
  PROVE  /\ Write(Write(h, Free(n)), SetHead(x)) = Write(Write(h, SetHead(x)), Free(n))
         /\ \A y \in Nodes : Write(Write(h, Free(n)), SetNext(y, x))
                               = Write(Write(h, SetNext(y, x)), Free(n))
<1>1. PICK f \in Heaps :
        /\ f = Write(h, Free(n)) /\ f.head = h.head /\ f.used = h.used \ {n}
        /\ f.next = h.next /\ f.value = h.value
  BY FreeIs
<1>2. Write(f, SetHead(x)) = Write(Write(h, SetHead(x)), Free(n))
  <2>1. PICK g \in Heaps :
          /\ g = Write(h, SetHead(x)) /\ g.head = x /\ g.used = h.used
          /\ g.next = h.next /\ g.value = h.value
    BY SetHeadIs
  <2>2. PICK a \in Heaps :
          /\ a = Write(f, SetHead(x)) /\ a.head = x /\ a.used = f.used
          /\ a.next = f.next /\ a.value = f.value
    BY SetHeadIs
  <2>3. PICK b \in Heaps :
          /\ b = Write(g, Free(n)) /\ b.head = g.head /\ b.used = g.used \ {n}
          /\ b.next = g.next /\ b.value = g.value
    BY FreeIs
  <2>4. /\ a.head = b.head /\ a.used = b.used
        /\ \A k \in Nodes : a.next[k] = b.next[k] /\ a.value[k] = b.value[k]
    BY <1>1, <2>1, <2>2, <2>3
  <2>5. a = b
    BY <2>4, SameHeap
  <2> QED
    BY <2>1, <2>2, <2>3, <2>5
<1>3. ASSUME NEW y \in Nodes
      PROVE  Write(f, SetNext(y, x)) = Write(Write(h, SetNext(y, x)), Free(n))
  <2> DEFINE g == Write(h, SetNext(y, x))
             a == Write(f, SetNext(y, x))
             b == Write(g, Free(n))
  <2>1. /\ g \in Heaps /\ g.head = h.head /\ g.used = h.used
        /\ \A k \in Nodes : g.next[k] = IF k = y THEN x ELSE h.next[k]
        /\ g.value = h.value
    BY SetNextIs
  <2>2. /\ a \in Heaps /\ a.head = f.head /\ a.used = f.used
        /\ \A k \in Nodes : a.next[k] = IF k = y THEN x ELSE f.next[k]
        /\ a.value = f.value
    BY SetNextIs
  <2> HIDE DEF g
  <2>3. /\ b \in Heaps /\ b.head = g.head /\ b.used = g.used \ {n}
        /\ b.next = g.next /\ b.value = g.value
    BY <2>1, FreeIs
  <2> HIDE DEF a, b
  <2>4. /\ a.head = b.head /\ a.used = b.used
        /\ \A k \in Nodes : a.next[k] = b.next[k] /\ a.value[k] = b.value[k]
    BY <1>1, <2>1, <2>2, <2>3
  <2>5. a = b
    BY <2>2, <2>3, <2>4, SameHeap
  <2> QED
    BY <2>5 DEF a, b, g
<1> QED
  BY <1>1, <1>2, <1>3

(* The fold over no writes, and over two.                                  *)
LEMMA AfterNone ==
  ASSUME NEW h, NEW ret
  PROVE  After(h, Op(<< >>, ret)) = h
<1>1. PICK op : op = Op(<< >>, ret)
  OBVIOUS
<1>2. op.writes = << >> /\ DOMAIN op.writes = {}
  BY <1>1 DEF Op
<1> DEFINE Is(g) == g = [s \in SUBSET {} |->
                           IF s = {} THEN h
                           ELSE Write(g[s \ {Max(s)}], op.writes[Max(s)])]
<1>3. PICK g : g = [s \in SUBSET {} |-> h]
  OBVIOUS
<1>4. \A s \in SUBSET {} : s = {}
  OBVIOUS
<1>5. Is(g)
  BY <1>3, <1>4
<1>6. After(h, op) = (CHOOSE f : Is(f))[{}]
  BY <1>2 DEF After, FoldLeft, MapThenFoldSet
<1>7. Is(CHOOSE f : Is(f))
  <2> HIDE DEF Is
  <2> QED
    BY <1>5
<1>8. PICK f : f = (CHOOSE k : Is(k)) /\ Is(f)
  BY <1>7
<1>9. f[{}] = h
  BY <1>8
<1> QED
  BY <1>1, <1>6, <1>8, <1>9

LEMMA MaxOf ==
  /\ Max({1}) = 1
  /\ Max({2}) = 2
  /\ Max({1, 2}) = 2
<1>1. \A x \in {1} : (\A y \in {1} : x >= y) <=> x = 1
  OBVIOUS
<1>2. \A x \in {2} : (\A y \in {2} : x >= y) <=> x = 2
  OBVIOUS
<1>3. \A x \in {1, 2} : (\A y \in {1, 2} : x >= y) <=> x = 2
  OBVIOUS
<1> QED
  BY <1>1, <1>2, <1>3 DEF Max

LEMMA AfterTwo ==
  ASSUME NEW h, NEW a, NEW b, NEW ret
  PROVE  After(h, Op(<<a, b>>, ret)) = Write(Write(h, a), b)
<1>1. PICK op : op = Op(<<a, b>>, ret)
  OBVIOUS
<1>2. DOMAIN op.writes = {1, 2} /\ op.writes[1] = a /\ op.writes[2] = b
  BY <1>1 DEF Op
<1> DEFINE Is(g) == g = [s \in SUBSET {1, 2} |->
                           IF s = {} THEN h
                           ELSE Write(g[s \ {Max(s)}], op.writes[Max(s)])]
<1>3. PICK g : g = [s \in SUBSET {1, 2} |->
                      CASE s = {} -> h
                        [] s = {1} -> Write(h, a)
                        [] s = {2} -> Write(h, b)
                        [] s = {1, 2} -> Write(Write(h, a), b)]
  OBVIOUS
<1>4. \A s \in SUBSET {1, 2} : s = {} \/ s = {1} \/ s = {2} \/ s = {1, 2}
  OBVIOUS
<1>5. g[{}] = h /\ g[{1}] = Write(h, a) /\ g[{2}] = Write(h, b)
      /\ g[{1, 2}] = Write(Write(h, a), b)
  BY <1>3
<1>6. {1} \ {1} = {} /\ {2} \ {2} = {} /\ {1, 2} \ {2} = {1}
  OBVIOUS
<1>7. ASSUME NEW s \in SUBSET {1, 2}
      PROVE  g[s] = IF s = {} THEN h ELSE Write(g[s \ {Max(s)}], op.writes[Max(s)])
  <2>1. CASE s = {}
    BY <1>5, <2>1
  <2>2. CASE s = {1}
    BY <1>2, <1>5, <1>6, <2>2, MaxOf
  <2>3. CASE s = {2}
    BY <1>2, <1>5, <1>6, <2>3, MaxOf
  <2>4. CASE s = {1, 2}
    BY <1>2, <1>5, <1>6, <2>4, MaxOf
  <2> QED
    BY <1>4, <2>1, <2>2, <2>3, <2>4
<1>8. Is(g)
  BY <1>3, <1>7
<1>9. After(h, op) = (CHOOSE f : Is(f))[{1, 2}]
  BY <1>2 DEF After, FoldLeft, MapThenFoldSet
<1>10. Is(CHOOSE f : Is(f))
  <2> HIDE DEF Is
  <2> QED
    BY <1>8
<1>11. PICK f : f = (CHOOSE k : Is(k)) /\ Is(f)
  BY <1>10
<1>12. f[{}] = h
  BY <1>11
<1>13. f[{1}] = Write(h, a)
  <2>1. f[{1}] = Write(f[{1} \ {Max({1})}], op.writes[Max({1})])
    BY <1>11
  <2> QED
    BY <1>2, <1>6, <1>12, <2>1, MaxOf
<1>14. f[{1, 2}] = Write(Write(h, a), b)
  <2>1. f[{1, 2}] = Write(f[{1, 2} \ {Max({1, 2})}], op.writes[Max({1, 2})])
    BY <1>11
  <2> QED
    BY <1>2, <1>6, <1>13, <2>1, MaxOf
<1> QED
  BY <1>1, <1>9, <1>11, <1>14

-----------------------------------------------------------------------------
(* Linking a node in and cutting one out                                   *)

LinkIn(l, n, j) == IF j = 0 THEN SetHead(n) ELSE SetNext(l[j], n)
CutOut(l, m, j) == IF j = 1 THEN SetHead(Link(l, m, 2))
                   ELSE SetNext(l[j - 1], Link(l, m, j + 1))

LEMMA PutHolds ==
  ASSUME NEW m \in Nat, NEW l \in [1 .. m -> Nodes], NEW j \in 0 .. m,
         NEW n \in Nodes
  PROVE  Holds(Put(l, m, j, n), m + 1) = Holds(l, m) \cup {n}
<1> DEFINE p == Put(l, m, j, n)
<1>1. \A k \in 1 .. m + 1 :
        p[k] = IF k <= j THEN l[k] ELSE IF k = j + 1 THEN n ELSE l[k - 1]
  BY DEF Put
<1> HIDE DEF p
<1>2. ASSUME NEW k \in 1 .. m + 1
      PROVE  p[k] \in Holds(l, m) \cup {n}
  <2>1. CASE k <= j
    BY <1>1, <2>1 DEF Holds
  <2>2. CASE k = j + 1
    BY <1>1, <2>2
  <2>3. CASE k > j + 1
    <3>1. k - 1 \in 1 .. m /\ p[k] = l[k - 1]
      BY <1>1, <2>3
    <3> QED
      BY <3>1 DEF Holds
  <2> QED
    BY <2>1, <2>2, <2>3
<1>3. ASSUME NEW k \in 1 .. m
      PROVE  l[k] \in Holds(p, m + 1)
  <2>1. CASE k <= j
    <3>1. k \in 1 .. m + 1 /\ p[k] = l[k]
      BY <1>1, <2>1
    <3> QED
      BY <3>1 DEF Holds
  <2>2. CASE k > j
    <3>1. k + 1 \in 1 .. m + 1 /\ p[k + 1] = l[k]
      BY <1>1, <2>2
    <3> QED
      BY <3>1 DEF Holds
  <2> QED
    BY <2>1, <2>2
<1>4. n \in Holds(p, m + 1)
  <2>1. j + 1 \in 1 .. m + 1 /\ p[j + 1] = n
    BY <1>1
  <2> QED
    BY <2>1 DEF Holds
<1>5. Holds(p, m + 1) \subseteq Holds(l, m) \cup {n}
  BY <1>2 DEF Holds
<1>6. Holds(l, m) \subseteq Holds(p, m + 1)
  BY <1>3 DEF Holds
<1>7. Holds(p, m + 1) = Holds(l, m) \cup {n}
  BY <1>4, <1>5, <1>6
<1> QED
  BY <1>7 DEF p

(* Nothing changes for the list until the new node is linked in.           *)
LEMMA FreshNodeIs ==
  ASSUME NEW h, NEW l, NEW m, Tidy(h, l, m), NEW n \in Nodes \ h.used,
         NEW v \in Int, NEW next \in Nodes \cup {NULL},
         NEW new, new = Write(h, getNode(n, v, next))
  PROVE  Chain(new, l, m) /\ new.used = Holds(l, m) \cup {n}
<1>1. /\ new \in Heaps /\ new.head = h.head /\ new.used = h.used \cup {n}
      /\ \A x \in Nodes : new.next[x] = IF x = n THEN next ELSE h.next[x]
  BY MallocIs DEF Tidy, Chain
<1>2. \A k \in 1 .. m : l[k] \in Nodes /\ l[k] # n
  BY DEF Tidy, Chain, Holds
<1> QED
  BY <1>1, <1>2 DEF Tidy, Chain

\* The heap h with n linked in behind the first j nodes.
LinkedIn(new, h, l, m, n, v, j) ==
  /\ new \in Heaps
  /\ new.used = h.used \cup {n}
  /\ new.head = IF j = 0 THEN n ELSE h.head
  /\ \A x \in Nodes :
       /\ new.next[x] = IF x = n THEN Link(l, m, j + 1)
                        ELSE IF j # 0 /\ x = l[j] THEN n ELSE h.next[x]
       /\ new.value[x] = IF x = n THEN v ELSE h.value[x]

LEMMA LinkedInIs ==
  ASSUME NEW h, NEW l, NEW m, Tidy(h, l, m), NEW n \in Nodes \ h.used,
         NEW v \in Int, NEW j \in 0 .. m
  PROVE  LinkedIn(Write(Write(h, getNode(n, v, Link(l, m, j + 1))), LinkIn(l, n, j)),
                  h, l, m, n, v, j)
<1>1. h \in Heaps /\ Link(l, m, j + 1) \in Nodes \cup {NULL} /\ n \in Nodes
  BY DEF Tidy, Chain, Link
<1>2. PICK mid \in Heaps :
        /\ mid = Write(h, getNode(n, v, Link(l, m, j + 1)))
        /\ mid.head = h.head /\ mid.used = h.used \cup {n}
        /\ \A x \in Nodes :
             /\ mid.next[x] = IF x = n THEN Link(l, m, j + 1) ELSE h.next[x]
             /\ mid.value[x] = IF x = n THEN v ELSE h.value[x]
  BY <1>1, MallocIs
<1>3. CASE j = 0
  <2>1. LET new == Write(mid, SetHead(n))
        IN  /\ new \in Heaps /\ new.head = n /\ new.used = mid.used
            /\ new.next = mid.next /\ new.value = mid.value
    BY <1>1, SetHeadIs
  <2> QED
    BY <1>2, <1>3, <2>1 DEF LinkIn, LinkedIn
<1>4. CASE j # 0
  <2>1. PICK y \in Nodes : y = l[j] /\ y # n
    BY <1>4 DEF Tidy, Chain, Holds
  <2>2. LET new == Write(mid, SetNext(y, n))
        IN  /\ new \in Heaps /\ new.head = mid.head /\ new.used = mid.used
            /\ \A x \in Nodes : new.next[x] = IF x = y THEN n ELSE mid.next[x]
            /\ new.value = mid.value
    BY <1>1, SetNextIs
  <2> QED
    BY <1>2, <1>4, <2>1, <2>2 DEF LinkIn, LinkedIn
<1> QED
  BY <1>3, <1>4

(* A new node linked in behind the first j puts its value there.           *)
LEMMA LinkInIs ==
  ASSUME NEW h, NEW l, NEW m, Tidy(h, l, m), NEW n \in Nodes \ h.used,
         NEW v \in Int, NEW j \in 0 .. m,
         NEW new, LinkedIn(new, h, l, m, n, v, j)
  PROVE  /\ Tidy(new, Put(l, m, j, n), m + 1)
         /\ Elements(new) = Put(Elements(h), m, j, v)
<1> DEFINE p == Put(l, m, j, n)
<1>1. /\ h \in Heaps /\ m \in Nat /\ l \in [1 .. m -> Nodes]
      /\ h.head = Link(l, m, 1)
      /\ \A k \in 1 .. m : h.next[l[k]] = Link(l, m, k + 1)
      /\ \A k \in 1 .. m : l[k] # n
      /\ \A i, k \in 1 .. m : l[i] = l[k] => i = k
      /\ n \in Nodes
  BY DEF Tidy, Chain, Holds
<1>2. Link(l, m, j + 1) \in Nodes \cup {NULL}
  BY <1>1 DEF Link
<1>4. /\ new \in Heaps /\ new.used = h.used \cup {n}
      /\ new.head = IF j = 0 THEN n ELSE h.head
      /\ \A x \in Nodes :
           /\ new.next[x] = IF x = n THEN Link(l, m, j + 1)
                            ELSE IF j # 0 /\ x = l[j] THEN n ELSE h.next[x]
           /\ new.value[x] = IF x = n THEN v ELSE h.value[x]
  BY DEF LinkedIn
<1>5. /\ p \in [1 .. m + 1 -> Nodes]
      /\ \A k \in 1 .. m + 1 :
           p[k] = IF k <= j THEN l[k] ELSE IF k = j + 1 THEN n ELSE l[k - 1]
  BY <1>1, PutType DEF Put
<1> HIDE DEF p
<1>6. ASSUME NEW k \in 1 .. m + 1, NEW i \in 1 .. m + 1, p[k] = p[i]
      PROVE  k = i
  <2>1. CASE k = j + 1
    <3>1. p[k] = n
      BY <1>1, <1>5, <2>1
    <3>2. i # j + 1 => \E x \in 1 .. m : p[i] = l[x]
      <4>1. i <= j => i \in 1 .. m /\ p[i] = l[i]
        BY <1>1, <1>5
      <4>2. i > j + 1 => i - 1 \in 1 .. m /\ p[i] = l[i - 1]
        BY <1>1, <1>5
      <4> QED
        BY <1>1, <4>1, <4>2
    <3> QED
      BY <1>1, <1>6, <2>1, <3>1, <3>2
  <2>2. CASE k # j + 1
    <3> DEFINE a(x) == IF x <= j THEN x ELSE x - 1
    <3>1. a(k) \in 1 .. m /\ p[k] = l[a(k)]
      BY <1>1, <1>5, <2>2
    <3>2. CASE i = j + 1
      <4>1. p[i] = n
        BY <1>1, <1>5, <3>2
      <4>2. l[a(k)] # n
        BY <1>1, <3>1
      <4> QED
        BY <1>6, <3>1, <4>1, <4>2
    <3>3. CASE i # j + 1
      <4>1. a(i) \in 1 .. m /\ p[i] = l[a(i)]
        BY <1>1, <1>5, <3>3
      <4>2. a(k) = a(i)
        BY <1>1, <1>6, <3>1, <4>1
      <4> QED
        BY <1>1, <2>2, <3>3, <4>2
    <3> QED
      BY <3>2, <3>3
  <2> QED
    BY <2>1, <2>2
<1>7. new.head = Link(p, m + 1, 1)
  BY <1>1, <1>4, <1>5 DEF Link
<1>8. ASSUME NEW k \in 1 .. m + 1
      PROVE  new.next[p[k]] = Link(p, m + 1, k + 1)
  <2>1. CASE k < j
    <3>1. /\ p[k] = l[k] /\ p[k + 1] = l[k + 1] /\ k \in 1 .. m
          /\ k + 1 \in 1 .. m /\ k + 1 \in 1 .. m + 1
      BY <1>1, <1>5, <2>1
    <3>2. l[k] # n /\ l[k] # l[j] /\ l[k] \in Nodes
      BY <1>1, <2>1, <3>1
    <3>3. new.next[l[k]] = Link(l, m, k + 1)
      BY <1>1, <1>4, <3>1, <3>2
    <3> QED
      BY <3>1, <3>3 DEF Link
  <2>2. CASE k = j
    <3>1. p[k] = l[k] /\ p[k + 1] = n /\ k + 1 \in 1 .. m + 1 /\ l[k] \in Nodes
      BY <1>1, <1>5, <2>2
    <3>2. new.next[l[k]] = n
      BY <1>1, <1>4, <2>2, <3>1
    <3> QED
      BY <3>1, <3>2 DEF Link
  <2>3. CASE k = j + 1
    <3>1. p[k] = n /\ (j # 0 => l[j] # n)
      BY <1>1, <1>5, <2>3
    <3>2. new.next[n] = Link(l, m, j + 1)
      BY <1>1, <1>4, <3>1
    <3>3. CASE j = m
      <4>1. j + 1 \notin 1 .. m /\ k + 1 \notin 1 .. m + 1
        BY <1>1, <2>3, <3>3
      <4> QED
        BY <3>1, <3>2, <4>1 DEF Link
    <3>4. CASE j # m
      <4>1. /\ j + 1 \in 1 .. m /\ k + 1 \in 1 .. m + 1
            /\ p[k + 1] = l[j + 1]
        BY <1>1, <1>5, <2>3, <3>4
      <4> QED
        BY <3>1, <3>2, <4>1 DEF Link
    <3> QED
      BY <3>3, <3>4
  <2>4. CASE k > j + 1
    <3>1. p[k] = l[k - 1] /\ k - 1 \in 1 .. m /\ (k - 1) + 1 = k
      BY <1>1, <1>5, <2>4
    <3>2. l[k - 1] # n /\ (j # 0 => l[k - 1] # l[j]) /\ l[k - 1] \in Nodes
      BY <1>1, <2>4, <3>1
    <3>3. new.next[l[k - 1]] = Link(l, m, k)
      BY <1>1, <1>4, <3>1, <3>2
    <3>4. CASE k = m + 1
      <4>1. k \notin 1 .. m /\ k + 1 \notin 1 .. m + 1
        BY <1>1, <3>4
      <4> QED
        BY <3>1, <3>3, <4>1 DEF Link
    <3>5. CASE k # m + 1
      <4>1. k \in 1 .. m /\ k + 1 \in 1 .. m + 1 /\ p[k + 1] = l[k]
        BY <1>1, <1>5, <2>4, <3>5
      <4> QED
        BY <3>1, <3>3, <4>1 DEF Link
    <3> QED
      BY <3>4, <3>5
  <2> QED
    BY <1>1, <2>1, <2>2, <2>3, <2>4
<1>9. m + 1 \in Nat
  BY <1>1
<1>10. Chain(new, p, m + 1)
  BY <1>4, <1>5, <1>6, <1>7, <1>8, <1>9 DEF Chain
<1>11. new.used = Holds(p, m + 1)
  <2>1. Holds(p, m + 1) = Holds(l, m) \cup {n}
    BY <1>1, PutHolds DEF p
  <2> QED
    BY <1>4, <2>1 DEF Tidy
<1>12. Elements(h) = Shows(h, l, m) /\ Elements(new) = Shows(new, p, m + 1)
  BY <1>10, ElementsIs DEF Tidy
<1>13. ASSUME NEW k \in 1 .. m + 1
       PROVE  new.value[p[k]] = Put(Shows(h, l, m), m, j, v)[k]
  <2>1. CASE k <= j
    <3>1. k \in 1 .. m /\ p[k] = l[k] /\ l[k] \in Nodes /\ l[k] # n
      BY <1>1, <1>5, <2>1
    <3> QED
      BY <1>4, <2>1, <3>1 DEF Put, Shows
  <2>2. CASE k = j + 1
    BY <1>1, <1>4, <1>5, <2>2 DEF Put
  <2>3. CASE k > j + 1
    <3>1. k - 1 \in 1 .. m /\ p[k] = l[k - 1] /\ l[k - 1] \in Nodes /\ l[k - 1] # n
      BY <1>1, <1>5, <2>3
    <3> QED
      BY <1>4, <2>3, <3>1 DEF Put, Shows
  <2> QED
    BY <1>1, <2>1, <2>2, <2>3
<1>14. Shows(new, p, m + 1) = Put(Shows(h, l, m), m, j, v)
  BY <1>13 DEF Shows, Put
<1> QED
  BY <1>10, <1>11, <1>12, <1>14 DEF Tidy, p

LEMMA CutHolds ==
  ASSUME NEW m \in Nat, NEW l \in [1 .. m -> Nodes], NEW j \in 1 .. m,
         \A i, k \in 1 .. m : l[i] = l[k] => i = k
  PROVE  Holds(Cut(l, m, j), m - 1) = Holds(l, m) \ {l[j]}
<1> DEFINE p == Cut(l, m, j)
<1>1. \A k \in 1 .. m - 1 : p[k] = IF k < j THEN l[k] ELSE l[k + 1]
  BY DEF Cut
<1> HIDE DEF p
<1>2. ASSUME NEW k \in 1 .. m - 1
      PROVE  p[k] \in Holds(l, m) \ {l[j]}
  <2>1. CASE k < j
    <3>1. k \in 1 .. m /\ k # j /\ p[k] = l[k]
      BY <1>1, <2>1
    <3> QED
      BY <3>1 DEF Holds
  <2>2. CASE k >= j
    <3>1. k + 1 \in 1 .. m /\ k + 1 # j /\ p[k] = l[k + 1]
      BY <1>1, <2>2
    <3> QED
      BY <3>1 DEF Holds
  <2> QED
    BY <2>1, <2>2
<1>3. ASSUME NEW k \in 1 .. m, k # j
      PROVE  l[k] \in Holds(p, m - 1)
  <2>1. CASE k < j
    <3>1. k \in 1 .. m - 1 /\ p[k] = l[k]
      BY <1>1, <2>1
    <3> QED
      BY <3>1 DEF Holds
  <2>2. CASE k > j
    <3>1. k - 1 \in 1 .. m - 1 /\ ~ (k - 1 < j) /\ (k - 1) + 1 = k
      BY <2>2
    <3>2. p[k - 1] = l[k]
      BY <1>1, <3>1
    <3> QED
      BY <3>1, <3>2 DEF Holds
  <2> QED
    BY <1>3, <2>1, <2>2
<1>4. Holds(p, m - 1) \subseteq Holds(l, m) \ {l[j]}
  BY <1>2 DEF Holds
<1>5. Holds(l, m) \ {l[j]} \subseteq Holds(p, m - 1)
  BY <1>3 DEF Holds
<1> QED
  BY <1>4, <1>5 DEF p

\* The heap h with the j-th node cut out, before it is freed.
CutFrom(new, h, l, m, j) ==
  /\ new \in Heaps
  /\ new.used = h.used
  /\ new.head = IF j = 1 THEN Link(l, m, 2) ELSE h.head
  /\ \A x \in Nodes : new.next[x] = IF j # 1 /\ x = l[j - 1] THEN Link(l, m, j + 1)
                                    ELSE h.next[x]
  /\ new.value = h.value

LEMMA CutFromIs ==
  ASSUME NEW h, NEW l, NEW m, Tidy(h, l, m), NEW j \in 1 .. m
  PROVE  CutFrom(Write(h, CutOut(l, m, j)), h, l, m, j)
<1>1. /\ h \in Heaps /\ Link(l, m, j + 1) \in Nodes \cup {NULL}
      /\ Link(l, m, 2) \in Nodes \cup {NULL}
  BY DEF Tidy, Chain, Link
<1>2. CASE j = 1
  <2>1. LET new == Write(h, SetHead(Link(l, m, 2)))
        IN  /\ new \in Heaps /\ new.head = Link(l, m, 2) /\ new.used = h.used
            /\ new.next = h.next /\ new.value = h.value
    BY <1>1, SetHeadIs
  <2> QED
    BY <1>2, <2>1 DEF CutOut, CutFrom
<1>3. CASE j # 1
  <2>1. PICK y \in Nodes : y = l[j - 1]
    <3>1. j - 1 \in 1 .. m
      BY <1>3 DEF Tidy, Chain
    <3> QED
      BY <3>1 DEF Tidy, Chain
  <2>2. LET new == Write(h, SetNext(y, Link(l, m, j + 1)))
        IN  /\ new \in Heaps /\ new.head = h.head /\ new.used = h.used
            /\ \A x \in Nodes :
                 new.next[x] = IF x = y THEN Link(l, m, j + 1) ELSE h.next[x]
            /\ new.value = h.value
    BY <1>1, SetNextIs
  <2> QED
    BY <1>3, <2>1, <2>2 DEF CutOut, CutFrom
<1> QED
  BY <1>2, <1>3

(* Behind the cut the list has one node less, which is still in use.       *)
LEMMA CutOutIs ==
  ASSUME NEW h, NEW l, NEW m, Tidy(h, l, m), NEW j \in 1 .. m,
         NEW new, CutFrom(new, h, l, m, j)
  PROVE  /\ Chain(new, Cut(l, m, j), m - 1)
         /\ new.used = Holds(Cut(l, m, j), m - 1) \cup {l[j]}
         /\ l[j] \notin Holds(Cut(l, m, j), m - 1)
         /\ Elements(new) = Cut(Elements(h), m, j)
<1> DEFINE p == Cut(l, m, j)
<1>1. /\ h \in Heaps /\ m \in Nat /\ l \in [1 .. m -> Nodes]
      /\ h.head = Link(l, m, 1)
      /\ \A k \in 1 .. m : h.next[l[k]] = Link(l, m, k + 1)
      /\ \A i, k \in 1 .. m : l[i] = l[k] => i = k
      /\ h.used = Holds(l, m)
  BY DEF Tidy, Chain
<1>2. /\ new \in Heaps /\ new.used = h.used /\ new.value = h.value
      /\ new.head = IF j = 1 THEN Link(l, m, 2) ELSE h.head
      /\ \A x \in Nodes : new.next[x] = IF j # 1 /\ x = l[j - 1] THEN Link(l, m, j + 1)
                                        ELSE h.next[x]
  BY DEF CutFrom
<1>3. /\ p \in [1 .. m - 1 -> Nodes] /\ m - 1 \in Nat
      /\ \A k \in 1 .. m - 1 : p[k] = IF k < j THEN l[k] ELSE l[k + 1]
  <2>1. m - 1 \in Nat
    BY <1>1
  <2> QED
    BY <1>1, <2>1, CutType DEF Cut
<1> HIDE DEF p
<1>4. ASSUME NEW k \in 1 .. m - 1, NEW i \in 1 .. m - 1, p[k] = p[i]
      PROVE  k = i
  <2> DEFINE a == IF k < j THEN k ELSE k + 1
             b == IF i < j THEN i ELSE i + 1
  <2>1. a \in 1 .. m /\ b \in 1 .. m /\ p[k] = l[a] /\ p[i] = l[b]
    BY <1>1, <1>3
  <2>2. a = b
    BY <1>1, <1>4, <2>1
  <2> QED
    BY <1>1, <2>2
<1>5. new.head = Link(p, m - 1, 1)
  <2>1. CASE j = 1
    <3>1. 2 \in 1 .. m => 1 \in 1 .. m - 1 /\ p[1] = l[2]
      BY <1>1, <1>3, <2>1
    <3>2. 2 \notin 1 .. m => 1 \notin 1 .. m - 1
      BY <1>1
    <3> QED
      BY <1>2, <2>1, <3>1, <3>2 DEF Link
  <2>2. CASE j # 1
    <3>1. 1 \in 1 .. m /\ 1 \in 1 .. m - 1 /\ p[1] = l[1]
      BY <1>1, <1>3, <2>2
    <3> QED
      BY <1>1, <1>2, <2>2, <3>1 DEF Link
  <2> QED
    BY <2>1, <2>2
<1>6. ASSUME NEW k \in 1 .. m - 1
      PROVE  new.next[p[k]] = Link(p, m - 1, k + 1)
  <2>1. CASE k < j - 1
    <3>1. /\ p[k] = l[k] /\ k \in 1 .. m /\ l[k] \in Nodes /\ l[k] # l[j - 1]
          /\ k + 1 \in 1 .. m /\ k + 1 \in 1 .. m - 1 /\ p[k + 1] = l[k + 1]
      BY <1>1, <1>3, <2>1
    <3>2. new.next[l[k]] = Link(l, m, k + 1)
      BY <1>1, <1>2, <3>1
    <3> QED
      BY <3>1, <3>2 DEF Link
  <2>2. CASE k = j - 1
    <3>1. p[k] = l[k] /\ l[k] \in Nodes /\ j # 1
      BY <1>1, <1>3, <2>2
    <3>2. new.next[l[k]] = Link(l, m, j + 1)
      BY <1>2, <2>2, <3>1
    <3>3. j + 1 \in 1 .. m => k + 1 \in 1 .. m - 1 /\ p[k + 1] = l[j + 1]
      BY <1>1, <1>3, <2>2
    <3>4. j + 1 \notin 1 .. m => k + 1 \notin 1 .. m - 1
      BY <1>1, <2>2
    <3> QED
      BY <3>1, <3>2, <3>3, <3>4 DEF Link
  <2>3. CASE k > j - 1
    <3>1. /\ p[k] = l[k + 1] /\ k + 1 \in 1 .. m /\ l[k + 1] \in Nodes
          /\ j # 1 => l[k + 1] # l[j - 1]
      BY <1>1, <1>3, <2>3
    <3>2. new.next[l[k + 1]] = Link(l, m, (k + 1) + 1)
      BY <1>1, <1>2, <3>1
    <3>3. (k + 1) + 1 \in 1 .. m => k + 1 \in 1 .. m - 1 /\ p[k + 1] = l[(k + 1) + 1]
      BY <1>1, <1>3, <2>3
    <3>4. (k + 1) + 1 \notin 1 .. m => k + 1 \notin 1 .. m - 1
      BY <1>1
    <3> QED
      BY <3>1, <3>2, <3>3, <3>4 DEF Link
  <2> QED
    BY <1>1, <2>1, <2>2, <2>3
<1>7. Chain(new, p, m - 1)
  BY <1>2, <1>3, <1>4, <1>5, <1>6 DEF Chain
<1>8. Holds(p, m - 1) = Holds(l, m) \ {l[j]}
  <2>1. m \in Nat /\ l \in [1 .. m -> Nodes]
    BY <1>1
  <2>2. \A i, k \in 1 .. m : l[i] = l[k] => i = k
    BY <1>1
  <2> QED
    BY <2>1, <2>2, CutHolds DEF p
<1>9. l[j] \in Holds(l, m)
  BY DEF Holds
<1>10. Elements(h) = Shows(h, l, m) /\ Elements(new) = Shows(new, p, m - 1)
  BY <1>7, ElementsIs DEF Tidy
<1>11. ASSUME NEW k \in 1 .. m - 1
       PROVE  new.value[p[k]] = Cut(Shows(h, l, m), m, j)[k]
  <2>1. CASE k < j
    BY <1>1, <1>2, <1>3, <2>1 DEF Cut, Shows
  <2>2. CASE k >= j
    <3>1. k + 1 \in 1 .. m /\ p[k] = l[k + 1]
      BY <1>1, <1>3, <2>2
    <3> QED
      BY <1>2, <2>2, <3>1 DEF Cut, Shows
  <2> QED
    BY <1>1, <2>1, <2>2
<1>12. Shows(new, p, m - 1) = Cut(Shows(h, l, m), m, j)
  BY <1>11 DEF Shows, Cut
<1> QED
  BY <1>1, <1>2, <1>7, <1>8, <1>9, <1>10, <1>12 DEF p

(* Then it is freed.                                                       *)
LEMMA FreedIs ==
  ASSUME NEW h, NEW l, NEW m, Chain(h, l, m), NEW n \in Nodes,
         h.used = Holds(l, m) \cup {n}, n \notin Holds(l, m)
  PROVE  /\ Tidy(Write(h, Free(n)), l, m)
         /\ Elements(Write(h, Free(n))) = Elements(h)
<1>1. h \in Heaps
  BY DEF Chain
<1>2. PICK new \in Heaps :
        /\ new = Write(h, Free(n))
        /\ new.head = h.head /\ new.used = h.used \ {n}
        /\ new.next = h.next /\ new.value = h.value
  BY <1>1, FreeIs
<1>3. Chain(new, l, m)
  BY <1>2 DEF Chain
<1>4. new.used = Holds(l, m)
  BY <1>2
<1>5. Elements(h) = Shows(h, l, m) /\ Elements(new) = Shows(new, l, m)
  BY <1>3, ElementsIs
<1>6. Shows(new, l, m) = Shows(h, l, m)
  BY <1>2 DEF Shows
<1> QED
  BY <1>2, <1>3, <1>4, <1>5, <1>6 DEF Tidy

-----------------------------------------------------------------------------
(* What every operation comes to                                           *)

\* A list, and at most one node that is on its way in or out.
OneAside(h) ==
  \E l, m, x :
    /\ Chain(h, l, m)
    /\ Holds(l, m) \subseteq h.used
    /\ h.used \ Holds(l, m) \subseteq {x}

\* op leaves a list with the values result[1] and returns result[2]; if it
\* frees the node before it cuts the link, then there is no list in between.
Works(h, op, result, early) ==
  /\ \E l, m : Tidy(After(h, op), l, m)
  /\ Elements(After(h, op)) = result[1]
  /\ op.ret = result[2]
  /\ \/ op.writes = << >> /\ After(h, op) = h
     \/ \E a, b :
          /\ op.writes = <<a, b>>
          /\ After(h, op) = Write(Write(h, a), b)
          /\ Write(h, a) \in Heaps
          /\ early \/ OneAside(Write(h, a))

LEMMA WorksDoes ==
  ASSUME NEW h, NEW op, NEW s, NEW ret, NEW early, Works(h, op, <<s, ret>>, early)
  PROVE  Does(h, op, <<s, ret>>)
<1>1. PICK l, m : Tidy(After(h, op), l, m)
  BY DEF Works
<1>2. Elements(After(h, op)) = s /\ op.ret = ret
  BY DEF Works
<1>3. Len(s) = m
  BY <1>1, <1>2, ElementsIs DEF Tidy
<1>4. {NodeAt(After(h, op))[k] : k \in 0 .. m - 1} = Holds(l, m)
  BY <1>1, HoldsIs DEF Tidy
<1>5. After(h, op).used = Holds(l, m)
  BY <1>1 DEF Tidy
<1>6. Len(<<s, ret>>[1]) - 1 = m - 1
  BY <1>3
<1>7. After(h, op).used = {NodeAt(After(h, op))[k] : k \in 0 .. Len(<<s, ret>>[1]) - 1}
  BY <1>4, <1>5, <1>6
<1> QED
  BY <1>2, <1>7 DEF Does

Adds(l, m, op, n, v, j) ==
  op = Op(<<getNode(n, v, Link(l, m, j + 1)), LinkIn(l, n, j)>>, v)

LEMMA AddsWorks ==
  ASSUME NEW h, NEW l, NEW m, Tidy(h, l, m), NEW n \in Nodes \ h.used,
         NEW v \in Int, NEW j \in 0 .. m, NEW op, Adds(l, m, op, n, v, j)
  PROVE  Works(h, op, <<Put(Elements(h), m, j, v), v>>, FALSE)
<1>1. PICK a, b : a = getNode(n, v, Link(l, m, j + 1)) /\ b = LinkIn(l, n, j)
  OBVIOUS
<1>2. op = Op(<<a, b>>, v) /\ op.writes = <<a, b>> /\ op.ret = v
  BY <1>1 DEF Adds, Op
<1>3. After(h, op) = Write(Write(h, a), b)
  BY <1>2, AfterTwo
<1>4. LinkedIn(Write(Write(h, a), b), h, l, m, n, v, j)
  BY <1>1, LinkedInIs
<1>5. /\ Tidy(Write(Write(h, a), b), Put(l, m, j, n), m + 1)
      /\ Elements(Write(Write(h, a), b)) = Put(Elements(h), m, j, v)
  BY <1>4, LinkInIs
<1>6. Link(l, m, j + 1) \in Nodes \cup {NULL}
  BY DEF Link, Tidy, Chain
<1>7. Chain(Write(h, a), l, m) /\ Write(h, a).used = Holds(l, m) \cup {n}
  BY <1>1, <1>6, FreshNodeIs
<1>8. Write(h, a) \in Heaps /\ OneAside(Write(h, a))
  BY <1>7 DEF OneAside, Chain
<1> QED
  BY <1>2, <1>3, <1>5, <1>8 DEF Works

Removes(h, l, m, op, j, early) ==
  op = Op(IF early THEN <<Free(l[j]), CutOut(l, m, j)>>
          ELSE <<CutOut(l, m, j), Free(l[j])>>, h.value[l[j]])

LEMMA RemovesWorks ==
  ASSUME NEW h, NEW l, NEW m, Tidy(h, l, m), NEW j \in 1 .. m,
         NEW early \in BOOLEAN, NEW op, Removes(h, l, m, op, j, early)
  PROVE  Works(h, op, <<Cut(Elements(h), m, j), Elements(h)[j]>>, early)
<1>1. PICK a, b : a = CutOut(l, m, j) /\ b = Free(l[j])
  OBVIOUS
<1>2. /\ op = Op(IF early THEN <<b, a>> ELSE <<a, b>>, h.value[l[j]])
      /\ op.writes = IF early THEN <<b, a>> ELSE <<a, b>>
      /\ op.ret = h.value[l[j]]
  BY <1>1 DEF Removes, Op
<1>3. h \in Heaps /\ l[j] \in Nodes
  BY DEF Tidy, Chain
<1>4. CutFrom(Write(h, a), h, l, m, j)
  BY <1>1, CutFromIs
<1>5. /\ Chain(Write(h, a), Cut(l, m, j), m - 1)
      /\ Write(h, a).used = Holds(Cut(l, m, j), m - 1) \cup {l[j]}
      /\ l[j] \notin Holds(Cut(l, m, j), m - 1)
      /\ Elements(Write(h, a)) = Cut(Elements(h), m, j)
  BY <1>4, CutOutIs
<1>6. /\ Tidy(Write(Write(h, a), b), Cut(l, m, j), m - 1)
      /\ Elements(Write(Write(h, a), b)) = Cut(Elements(h), m, j)
  BY <1>1, <1>3, <1>5, FreedIs
<1>7. op.ret = Elements(h)[j]
  BY <1>2, ElementsIs DEF Tidy, Shows
<1>8. CASE ~early
  <2>1. op.writes = <<a, b>> /\ After(h, op) = Write(Write(h, a), b)
    BY <1>2, <1>8, AfterTwo
  <2>2. Write(h, a) \in Heaps /\ OneAside(Write(h, a))
    BY <1>5 DEF OneAside, Chain
  <2> QED
    BY <1>6, <1>7, <2>1, <2>2 DEF Works
<1>9. CASE early
  <2>1. op.writes = <<b, a>> /\ After(h, op) = Write(Write(h, b), a)
    BY <1>2, <1>9, AfterTwo
  <2>2. Write(h, b) \in Heaps
    BY <1>1, <1>3, FreeIs
  <2>3. Write(Write(h, b), a) = Write(Write(h, a), b)
    <3>1. Link(l, m, 2) \in Nodes \cup {NULL} /\ Link(l, m, j + 1) \in Nodes \cup {NULL}
      BY DEF Link, Tidy, Chain
    <3>2. CASE j = 1
      BY <1>1, <1>3, <3>1, <3>2, FreeCommutes DEF CutOut
    <3>3. CASE j # 1
      <4>1. l[j - 1] \in Nodes
        BY <3>3 DEF Tidy, Chain
      <4> QED
        BY <1>1, <1>3, <3>1, <3>3, <4>1, FreeCommutes DEF CutOut
    <3> QED
      BY <3>2, <3>3
  <2> QED
    BY <1>6, <1>7, <1>9, <2>1, <2>2, <2>3 DEF Works
<1> QED
  BY <1>8, <1>9

(* An operation that writes nothing leaves the list as it is.              *)
LEMMA NothingWorks ==
  ASSUME NEW h, NEW l, NEW m, Tidy(h, l, m), NEW ret
  PROVE  Works(h, Op(<< >>, ret), <<Elements(h), ret>>, FALSE)
<1>1. After(h, Op(<< >>, ret)) = h
  BY AfterNone
<1>2. Op(<< >>, ret).writes = << >> /\ Op(<< >>, ret).ret = ret
  BY DEF Op
<1> QED
  BY <1>1, <1>2 DEF Works

-----------------------------------------------------------------------------
(* The operations                                                          *)

LEMMA TidyIs ==
  ASSUME NEW h, NEW l, NEW m, Tidy(h, l, m)
  PROVE  /\ h \in Heaps /\ m \in Nat /\ l \in [1 .. m -> Nodes]
         /\ h.head = Link(l, m, 1) /\ h.used = Holds(l, m)
         /\ h.head = NULL <=> m = 0
         /\ list_length(h) = m
         /\ Elements(h) \in [1 .. m -> Int]
         /\ Len(Elements(h)) = m
<1>1. /\ h \in Heaps /\ m \in Nat /\ l \in [1 .. m -> Nodes]
      /\ h.head = Link(l, m, 1) /\ h.used = Holds(l, m)
  BY DEF Tidy, Chain
<1>2. h.head = NULL <=> m = 0
  BY <1>1, HeapAssumption DEF Link
<1> QED
  BY <1>1, <1>2, LengthIs, ElementsIs DEF Tidy

LEMMA AddAfterIs ==
  ASSUME NEW h, NEW l, NEW m, Tidy(h, l, m), NEW n, NEW v, NEW j \in 1 .. m
  PROVE  Adds(l, m, AddAfter(h, n, v, l[j]), n, v, j)
<1>1. h.next[l[j]] = Link(l, m, j + 1) /\ j # 0
  BY DEF Tidy, Chain
<1> QED
  BY <1>1 DEF Adds, AddAfter, LinkIn

LEMMA AddToFront ==
  ASSUME NEW h, NEW l, NEW m, Tidy(h, l, m), NEW n \in Nodes \ h.used, NEW v \in Int
  PROVE  /\ Adds(l, m, list_add_to_front(h, n, v), n, v, 0)
         /\ Works(h, list_add_to_front(h, n, v), <<<<v>> \o Elements(h), v>>, FALSE)
<1>1. Adds(l, m, list_add_to_front(h, n, v), n, v, 0)
  <2>1. h.head = Link(l, m, 0 + 1)
    BY TidyIs
  <2> QED
    BY <2>1 DEF list_add_to_front, Adds, LinkIn
<1>2. <<v>> \o Elements(h) = Put(Elements(h), m, 0, v) /\ 0 \in 0 .. m
  <2>1. m \in Nat
    BY TidyIs
  <2>2. PICK s \in [1 .. m -> Int] : s = Elements(h)
    BY TidyIs
  <2>3. <<v>> \o s = Put(s, m, 0, v)
    BY <2>1, ConsIs
  <2> QED
    BY <2>1, <2>2, <2>3
<1> QED
  BY <1>1, <1>2, AddsWorks

LEMMA AddToBack ==
  ASSUME NEW h, NEW l, NEW m, Tidy(h, l, m), NEW n \in Nodes \ h.used, NEW v \in Int
  PROVE  /\ Adds(l, m, list_add_to_back(h, n, v), n, v, m)
         /\ Works(h, list_add_to_back(h, n, v), <<Append(Elements(h), v), v>>, FALSE)
<1>1. Adds(l, m, list_add_to_back(h, n, v), n, v, m)
  <2>1. Link(l, m, m + 1) = NULL
    BY TidyIs DEF Link
  <2>2. m # 0 => NodeAt(h)[list_length(h) - 1] = l[m]
    <3>1. m # 0 => m - 1 \in 0 .. m /\ (m - 1) + 1 = m /\ m \in 1 .. m
      BY TidyIs
    <3>2. m # 0 => NodeAt(h)[m - 1] = Link(l, m, m)
      BY <3>1, NodeIs DEF Tidy
    <3> QED
      BY <3>1, <3>2, TidyIs DEF Link
  <2> QED
    BY <2>1, <2>2, TidyIs DEF list_add_to_back, Adds, LinkIn
<1>2. Append(Elements(h), v) = Put(Elements(h), m, m, v) /\ m \in 0 .. m
  <2>1. m \in Nat
    BY TidyIs
  <2>2. PICK s \in [1 .. m -> Int] : s = Elements(h)
    BY TidyIs
  <2>3. Append(s, v) = Put(s, m, m, v)
    BY <2>1, AppendIs
  <2> QED
    BY <2>1, <2>2, <2>3
<1> QED
  BY <1>1, <1>2, AddsWorks

LEMMA InsertedIs ==
  ASSUME NEW h, NEW l, NEW m, Tidy(h, l, m), NEW v \in Int, NEW index \in Int
  PROVE  /\ Clip(index, 0, m) \in 0 .. m
         /\ Inserted(Elements(h), v, index) = Put(Elements(h), m, Clip(index, 0, m), v)
<1>1. Clip(index, 0, m) \in 0 .. m
  BY TidyIs DEF Clip
<1>2. m \in Nat /\ Elements(h) \in [1 .. m -> Int] /\ Len(Elements(h)) = m
  BY TidyIs
<1>3. InsertAt(Elements(h), Clip(index, 0, m) + 1, v)
        = Put(Elements(h), m, Clip(index, 0, m), v)
  <2>1. PICK s \in [1 .. m -> Int] : s = Elements(h)
    BY <1>2
  <2>2. PICK j \in 0 .. m : j = Clip(index, 0, m)
    BY <1>1
  <2>3. m \in Nat
    BY <1>2
  <2>4. InsertAt(s, j + 1, v) = Put(s, m, j, v)
    BY <2>3, InsertAtIs
  <2> QED
    BY <2>1, <2>2, <2>4
<1> QED
  BY <1>1, <1>2, <1>3 DEF Inserted

LEMMA AddAtIndex ==
  ASSUME NEW h, NEW l, NEW m, Tidy(h, l, m), NEW n \in Nodes \ h.used,
         NEW v \in Int, NEW index \in Int
  PROVE  Works(h, list_add_at_index(h, n, v, index),
               <<Inserted(Elements(h), v, index), v>>, FALSE)
<1> DEFINE op == list_add_at_index(h, n, v, index)
           j == Clip(index, 0, m)
<1>1. Adds(l, m, op, n, v, j)
  <2>1. CASE index <= 0 \/ m = 0
    <3>1. j = 0
      BY <2>1, TidyIs DEF Clip
    <3>2. op = list_add_to_front(h, n, v)
      BY <2>1, TidyIs DEF list_add_at_index
    <3> QED
      BY <3>1, <3>2, AddToFront
  <2>2. CASE ~ (index <= 0 \/ m = 0)
    <3>1. j \in 1 .. m /\ j = Smaller(index, list_length(h)) /\ j - 1 \in 0 .. m
      BY <2>2, TidyIs DEF Clip, Smaller
    <3>2. NodeAt(h)[j - 1] = l[j]
      <4>1. NodeAt(h)[j - 1] = Link(l, m, (j - 1) + 1) /\ (j - 1) + 1 = j
        BY <3>1, NodeIs DEF Tidy
      <4> QED
        BY <3>1, <4>1 DEF Link
    <3>3. op = AddAfter(h, n, v, l[j])
      BY <2>2, <3>1, <3>2, TidyIs DEF list_add_at_index
    <3> QED
      BY <3>1, <3>3, AddAfterIs
  <2> QED
    BY <2>1, <2>2
<1>2. j \in 0 .. m /\ Inserted(Elements(h), v, index) = Put(Elements(h), m, j, v)
  BY InsertedIs
<1> HIDE DEF op, j
<1>3. Works(h, op, <<Put(Elements(h), m, j, v), v>>, FALSE)
  BY <1>1, <1>2, AddsWorks
<1> QED
  BY <1>2, <1>3 DEF op

(* list.c of lab 4 counts its loop differently, with the same result.      *)
LEMMA ServerAddAtIndex ==
  ASSUME NEW h, NEW l, NEW m, Tidy(h, l, m), NEW n \in Nodes \ h.used,
         NEW v \in Int, NEW index \in Int
  PROVE  Works(h, add_at_index(h, n, v, index),
               <<Inserted(Elements(h), v, index), v>>, FALSE)
<1> DEFINE op == add_at_index(h, n, v, index)
           j == Clip(index, 0, m)
           steps == Smaller(index - 1, m)
<1>1. Adds(l, m, op, n, v, j)
  <2>1. CASE index <= 0
    <3>1. j = 0
      BY <2>1, TidyIs DEF Clip
    <3>2. op = list_add_to_front(h, n, v)
      BY <2>1 DEF add_at_index
    <3> QED
      BY <3>1, <3>2, AddToFront
  <2>2. CASE index > m /\ index > 0
    <3>1. j = m /\ steps = m /\ m \in 0 .. m /\ m + 1 \notin 1 .. m
      BY <2>2, TidyIs DEF Clip, Smaller
    <3>2. NodeAt(h)[m] = NULL
      BY <3>1, NodeIs DEF Tidy, Link
    <3>3. op = list_add_to_back(h, n, v)
      BY <2>2, <3>1, <3>2, TidyIs DEF add_at_index
    <3> QED
      BY <3>1, <3>3, AddToBack
  <2>3. CASE index > 0 /\ ~ (index > m)
    <3>1. j = index /\ steps = index - 1 /\ j \in 1 .. m /\ index - 1 \in 0 .. m
      <4>1. m \in Nat
        BY TidyIs
      <4> QED
        BY <2>3, <4>1 DEF Clip, Smaller
    <3>2. NodeAt(h)[index - 1] = l[j] /\ l[j] # NULL
      <4>1. NodeAt(h)[index - 1] = Link(l, m, (index - 1) + 1) /\ (index - 1) + 1 = j
        BY <3>1, NodeIs DEF Tidy
      <4> QED
        BY <3>1, <4>1, TidyIs, HeapAssumption DEF Link
    <3>3. op = AddAfter(h, n, v, l[j])
      BY <2>3, <3>1, <3>2, TidyIs DEF add_at_index
    <3> QED
      BY <3>1, <3>3, AddAfterIs
  <2> QED
    BY <2>1, <2>2, <2>3, TidyIs
<1>2. j \in 0 .. m /\ Inserted(Elements(h), v, index) = Put(Elements(h), m, j, v)
  BY InsertedIs
<1> HIDE DEF op, j
<1>3. Works(h, op, <<Put(Elements(h), m, j, v), v>>, FALSE)
  BY <1>1, <1>2, AddsWorks
<1> QED
  BY <1>2, <1>3 DEF op

(* The element at an index, counted from 0, and the list without it.       *)
LEMMA WithoutIs ==
  ASSUME NEW h, NEW l, NEW m, Tidy(h, l, m), NEW index \in Int
  PROVE  Without(Elements(h), index) =
           IF index \in 0 .. m - 1
           THEN <<Cut(Elements(h), m, index + 1), Elements(h)[index + 1]>>
           ELSE <<Elements(h), -1>>
<1>1. CASE index \in 0 .. m - 1
  <2>1. index + 1 \in 1 .. m
    BY <1>1, TidyIs
  <2>2. RemoveAt(Elements(h), index + 1) = Cut(Elements(h), m, index + 1)
    <3>1. m \in Nat /\ Elements(h) \in [1 .. m -> Int]
      BY TidyIs
    <3> QED
      BY <2>1, <3>1, RemoveAtIs
  <2> QED
    BY <1>1, <2>2, TidyIs DEF Without
<1>2. CASE index \notin 0 .. m - 1
  BY <1>2, TidyIs DEF Without
<1> QED
  BY <1>1, <1>2

LEMMA RemoveFront ==
  ASSUME NEW h, NEW l, NEW m, Tidy(h, l, m)
  PROVE  Works(h, list_remove_from_front(h), Without(Elements(h), 0), FALSE)
<1> DEFINE op == list_remove_from_front(h)
<1>1. CASE m = 0
  <2>1. op = Op(<< >>, -1)
    BY <1>1, TidyIs DEF list_remove_from_front, RemoveNothing
  <2>2. Without(Elements(h), 0) = <<Elements(h), -1>>
    BY <1>1, WithoutIs
  <2> QED
    BY <2>1, <2>2, NothingWorks
<1>2. CASE m # 0
  <2>1. 1 \in 1 .. m /\ 0 \in 0 .. m - 1 /\ 0 + 1 = 1
    BY <1>2, TidyIs
  <2>2. h.head = l[1] /\ h.head # NULL
    BY <1>2, <2>1, TidyIs DEF Link
  <2>3. h.next[l[1]] = Link(l, m, 2)
    BY <2>1 DEF Tidy, Chain
  <2>4. Removes(h, l, m, op, 1, FALSE)
    BY <2>2, <2>3 DEF list_remove_from_front, Removes, CutOut
  <2>5. Without(Elements(h), 0) = <<Cut(Elements(h), m, 1), Elements(h)[1]>>
    BY <2>1, WithoutIs
  <2> QED
    BY <2>1, <2>4, <2>5, RemovesWorks
<1> QED
  BY <1>1, <1>2

LEMMA RemoveBack ==
  ASSUME NEW h, NEW l, NEW m, Tidy(h, l, m)
  PROVE  Works(h, list_remove_from_back(h),
               Without(Elements(h), Len(Elements(h)) - 1), TRUE)
<1> DEFINE op == list_remove_from_back(h)
<1>1. CASE m = 0
  <2>1. op = Op(<< >>, -1)
    BY <1>1, TidyIs DEF list_remove_from_back, RemoveNothing
  <2>2. Without(Elements(h), Len(Elements(h)) - 1) = <<Elements(h), -1>>
    BY <1>1, TidyIs, WithoutIs
  <2>3. Works(h, op, <<Elements(h), -1>>, FALSE)
    BY <2>1, NothingWorks
  <2> QED
    BY <2>2, <2>3 DEF Works
<1>2. CASE m # 0
  <2>1. m \in 1 .. m /\ m - 1 \in 0 .. m - 1 /\ (m - 1) + 1 = m /\ m - 1 \in 0 .. m
    BY <1>2, TidyIs
  <2>2. NodeAt(h)[m - 1] = l[m]
    <3>1. NodeAt(h)[m - 1] = Link(l, m, m)
      BY <2>1, NodeIs DEF Tidy
    <3> QED
      BY <2>1, <3>1 DEF Link
  <2>3. Link(l, m, m + 1) = NULL /\ (m = 1 => Link(l, m, 2) = NULL)
    BY TidyIs DEF Link
  <2>4. Removes(h, l, m, op, m, TRUE)
    <3>1. CASE m = 1
      <4>1. op = Op(<<Free(l[m]), SetHead(NULL)>>, h.value[l[m]])
        BY <2>2, <3>1, TidyIs DEF list_remove_from_back
      <4> QED
        BY <2>3, <3>1, <4>1 DEF Removes, CutOut
    <3>2. CASE m # 1
      <4>1. NodeAt(h)[m - 2] = l[m - 1]
        <5>1. m - 2 \in 0 .. m /\ (m - 2) + 1 = m - 1 /\ m - 1 \in 1 .. m
          BY <1>2, <3>2, TidyIs
        <5>2. NodeAt(h)[m - 2] = Link(l, m, m - 1)
          BY <5>1, NodeIs DEF Tidy
        <5> QED
          BY <5>1, <5>2 DEF Link
      <4>2. op = Op(<<Free(l[m]), SetNext(l[m - 1], NULL)>>, h.value[l[m]])
        BY <1>2, <2>2, <3>2, <4>1, TidyIs DEF list_remove_from_back
      <4> QED
        BY <2>3, <3>2, <4>2 DEF Removes, CutOut
    <3> QED
      BY <3>1, <3>2
  <2>5. Without(Elements(h), Len(Elements(h)) - 1)
          = <<Cut(Elements(h), m, m), Elements(h)[m]>>
    BY <2>1, TidyIs, WithoutIs
  <2> QED
    BY <2>1, <2>4, <2>5, RemovesWorks
<1> QED
  BY <1>1, <1>2

LEMMA RemoveAtIndex ==
  ASSUME NEW h, NEW l, NEW m, Tidy(h, l, m), NEW index \in Int
  PROVE  Works(h, list_remove_at_index(h, index),
               Without(Elements(h), IF index < 0 THEN 0 ELSE index), FALSE)
<1> DEFINE op == list_remove_at_index(h, index)
           i == IF index < 0 THEN 0 ELSE index
<1>1. CASE index <= 0
  <2>1. i = 0
    BY <1>1
  <2>2. op = list_remove_from_front(h)
    BY <1>1 DEF list_remove_at_index, list_remove_from_front
  <2> QED
    BY <2>1, <2>2, RemoveFront
<1>2. CASE ~ (index <= 0) /\ index >= m
  <2>1. op = Op(<< >>, -1)
    <3>1. CASE m = 0
      BY <3>1, TidyIs DEF list_remove_at_index, RemoveNothing
    <3>2. CASE m # 0
      <4>1. Smaller(index, list_length(h)) = m /\ m \in 1 .. m /\ m - 1 \in 0 .. m
            /\ (m - 1) + 1 = m
        BY <1>2, <3>2, TidyIs DEF Smaller
      <4>2. Before(h, index) = l[m]
        <5>1. NodeAt(h)[m - 1] = Link(l, m, m)
          BY <4>1, NodeIs DEF Tidy
        <5> QED
          BY <4>1, <5>1 DEF Before, Link
      <4>3. h.next[l[m]] = NULL
        <5>1. h.next[l[m]] = Link(l, m, m + 1)
          BY <4>1 DEF Tidy, Chain
        <5> QED
          BY <4>1, <5>1 DEF Link
      <4> QED
        BY <1>2, <3>2, <4>2, <4>3, TidyIs DEF list_remove_at_index, RemoveNothing
    <3> QED
      BY <3>1, <3>2
  <2>2. Without(Elements(h), i) = <<Elements(h), -1>>
    BY <1>2, TidyIs, WithoutIs
  <2> QED
    BY <2>1, <2>2, NothingWorks
<1>3. CASE ~ (index <= 0) /\ ~ (index >= m)
  <2>1. /\ Smaller(index, list_length(h)) = index /\ index \in 1 .. m
        /\ index - 1 \in 0 .. m /\ (index - 1) + 1 = index /\ index + 1 \in 1 .. m
        /\ index \in 0 .. m - 1 /\ m # 0 /\ index + 1 # 1 /\ (index + 1) - 1 = index
        /\ i = index
    BY <1>3, TidyIs DEF Smaller
  <2>2. Before(h, index) = l[index]
    <3>1. NodeAt(h)[index - 1] = Link(l, m, index)
      BY <2>1, NodeIs DEF Tidy
    <3> QED
      BY <2>1, <3>1 DEF Before, Link
  <2>3. h.next[l[index]] = l[index + 1] /\ l[index + 1] # NULL
    <3>1. h.next[l[index]] = Link(l, m, index + 1)
      BY <2>1 DEF Tidy, Chain
    <3> QED
      BY <2>1, <3>1, TidyIs, HeapAssumption DEF Link
  <2>4. h.next[l[index + 1]] = Link(l, m, (index + 1) + 1)
    BY <2>1 DEF Tidy, Chain
  <2>5. op = Op(<<SetNext(l[index], Link(l, m, (index + 1) + 1)), Free(l[index + 1])>>,
                h.value[l[index + 1]])
    BY <1>3, <2>1, <2>2, <2>3, <2>4, TidyIs DEF list_remove_at_index
  <2>6. Removes(h, l, m, op, index + 1, FALSE)
    BY <2>1, <2>5 DEF Removes, CutOut
  <2>7. Without(Elements(h), i)
          = <<Cut(Elements(h), m, index + 1), Elements(h)[index + 1]>>
    BY <2>1, WithoutIs
  <2> QED
    BY <2>1, <2>6, <2>7, RemovesWorks
<1> QED
  BY <1>1, <1>2, <1>3

-----------------------------------------------------------------------------
(* The library                                                             *)

LEMMA ValueAt ==
  ASSUME NEW h, NEW l, NEW m, Tidy(h, l, m), NEW k \in 0 .. m - 1
  PROVE  /\ NodeAt(h)[k] # NULL
         /\ h.value[NodeAt(h)[k]] = Elements(h)[k + 1]
<1>1. k \in 0 .. m /\ k + 1 \in 1 .. m
  BY TidyIs
<1>2. NodeAt(h)[k] = l[k + 1]
  BY <1>1, NodeIs DEF Tidy, Link
<1>3. Elements(h) = Shows(h, l, m)
  BY ElementsIs DEF Tidy
<1> QED
  BY <1>1, <1>2, <1>3, TidyIs, HeapAssumption DEF Shows

(* Before the list and behind it there is nothing.                         *)
LEMMA NothingOutside ==
  ASSUME NEW h, NEW l, NEW m, Tidy(h, l, m),
         NEW index \in {-1, Len(Elements(h)) + 1}
  PROVE  list_get_elem_at(h, index) = -1
<1>1. m \in Nat /\ list_length(h) = m /\ Len(Elements(h)) = m
  BY TidyIs
<1>2. index \notin 0 .. m - 1
  BY <1>1
<1> QED
  BY <1>1, <1>2 DEF list_get_elem_at

(* The loop of lab 4 stops at the first node for an index below the list,  *)
(* and behind the last for one beyond its end.                             *)
LEMMA ServerGetElemAt ==
  ASSUME NEW h, NEW l, NEW m, Tidy(h, l, m), NEW index \in Int
  PROVE  get_elem_at(h, index) = Without(Elements(h), Clip(index, 0, m))[2]
<1>1. m \in Nat /\ list_length(h) = m
  BY TidyIs
<1>2. PICK k \in 0 .. m : k = Clip(index, 0, m)
  BY <1>1 DEF Clip
<1>3. CASE k = m
  <2>1. k + 1 \notin 1 .. m /\ k \notin 0 .. m - 1
    BY <1>1, <1>3
  <2>2. NodeAt(h)[k] = NULL
    BY <2>1, NodeIs DEF Tidy, Link
  <2>3. Without(Elements(h), k)[2] = -1
    BY <2>1, WithoutIs
  <2> QED
    BY <1>1, <1>2, <2>2, <2>3 DEF get_elem_at
<1>4. CASE k # m
  <2>1. k \in 0 .. m - 1
    BY <1>1, <1>4
  <2>2. Without(Elements(h), k)[2] = Elements(h)[k + 1]
    BY <2>1, WithoutIs
  <2> QED
    BY <1>1, <1>2, <2>1, <2>2, ValueAt DEF get_elem_at
<1> QED
  BY <1>3, <1>4

LEMMA IsIn ==
  ASSUME NEW h, NEW l, NEW m, Tidy(h, l, m), NEW v
  PROVE  list_is_in(h, v) <=> \E j \in DOMAIN Elements(h) : Elements(h)[j] = v
<1>1. m \in Nat /\ list_length(h) = m /\ DOMAIN Elements(h) = 1 .. m
  BY TidyIs
<1>2. ASSUME NEW k \in 0 .. m - 1, h.value[NodeAt(h)[k]] = v
      PROVE  \E j \in 1 .. m : Elements(h)[j] = v
  <2>1. k + 1 \in 1 .. m
    BY <1>1
  <2> QED
    BY <1>2, <2>1, ValueAt
<1>3. ASSUME NEW j \in 1 .. m, Elements(h)[j] = v
      PROVE  \E k \in 0 .. m - 1 : h.value[NodeAt(h)[k]] = v
  <2>1. j - 1 \in 0 .. m - 1 /\ (j - 1) + 1 = j
    BY <1>1
  <2>2. h.value[NodeAt(h)[j - 1]] = Elements(h)[(j - 1) + 1]
    BY <2>1, ValueAt
  <2> QED
    BY <1>3, <2>1, <2>2
<1> QED
  BY <1>1, <1>2, <1>3 DEF list_is_in

(* The index of a value is that of its first occurrence.                   *)
LEMMA IndexOf ==
  ASSUME NEW h, NEW l, NEW m, Tidy(h, l, m), NEW v, list_is_in(h, v),
         NEW i, i = list_get_index_of(h, v)
  PROVE  /\ list_get_elem_at(h, i) = v
         /\ \A j \in 0 .. i - 1 : list_get_elem_at(h, j) # v
<1>1. m \in Nat /\ list_length(h) = m
  BY TidyIs
<1> DEFINE At(k) == h.value[NodeAt(h)[k]] = v
           Where == {k \in 0 .. m - 1 : At(k)}
<1>2. Where \in SUBSET Nat /\ Where # {}
  BY <1>1 DEF list_is_in
<1>3. PICK k \in Where : \A y \in Where : k <= y
  <2> HIDE DEF Where
  <2> QED
    BY <1>2, LeastNat
<1>4. k \in 0 .. m - 1 /\ At(k)
  OBVIOUS
<1>5. ASSUME NEW j \in 0 .. k - 1
      PROVE  ~ At(j)
  <2>1. j \in 0 .. m - 1 /\ ~ (k <= j)
    BY <1>1, <1>4
  <2> QED
    BY <1>3, <2>1
<1>6. i = CHOOSE x \in 0 .. m - 1 : At(x) /\ \A j \in 0 .. x - 1 : ~ At(j)
  BY <1>1 DEF list_get_index_of
<1> HIDE DEF At
<1>7. i \in 0 .. m - 1 /\ At(i) /\ \A j \in 0 .. i - 1 : ~ At(j)
  BY <1>4, <1>5, <1>6
<1>8. list_get_elem_at(h, i) = v
  BY <1>1, <1>7 DEF list_get_elem_at, At
<1>9. ASSUME NEW j \in 0 .. i - 1
      PROVE  list_get_elem_at(h, j) # v
  <2>1. j \in 0 .. m - 1
    BY <1>1, <1>7
  <2>2. list_get_elem_at(h, j) = h.value[NodeAt(h)[j]]
    BY <1>1, <2>1 DEF list_get_elem_at
  <2> QED
    BY <1>7, <2>2 DEF At
<1> QED
  BY <1>8, <1>9

LEMMA LibraryIsASequence ==
  ASSUME NEW h, NEW l, NEW m, Tidy(h, l, m)
  PROVE  IsASequence(h, Values)
<1> DEFINE s == Elements(h)
           Indices1 == -1 .. Len(s) + 1
<1>1. ASSUME NEW n \in Nodes \ h.used, NEW v \in Values
      PROVE  /\ Does(h, list_add_to_front(h, n, v), <<<<v>> \o s, v>>)
             /\ Does(h, list_add_to_back(h, n, v), <<Append(s, v), v>>)
             /\ \A i \in Indices1 :
                  Does(h, list_add_at_index(h, n, v, i), <<Inserted(s, v, i), v>>)
  <2>1. v \in Int
    BY ListServerAssumption
  <2>2. Does(h, list_add_to_front(h, n, v), <<<<v>> \o s, v>>)
    BY <2>1, AddToFront, WorksDoes
  <2>3. Does(h, list_add_to_back(h, n, v), <<Append(s, v), v>>)
    BY <2>1, AddToBack, WorksDoes
  <2>4. ASSUME NEW i \in Indices1
        PROVE  Does(h, list_add_at_index(h, n, v, i), <<Inserted(s, v, i), v>>)
    <3>1. i \in Int
      BY TidyIs
    <3> QED
      BY <2>1, <3>1, AddAtIndex, WorksDoes
  <2> QED
    BY <2>2, <2>3, <2>4
<1>2. Does(h, list_remove_from_front(h), Without(s, 0))
  <2>1. PICK t, ret : Without(s, 0) = <<t, ret>>
    BY WithoutIs
  <2>2. Works(h, list_remove_from_front(h), <<t, ret>>, FALSE)
    BY <2>1, RemoveFront
  <2> QED
    BY <2>1, <2>2, WorksDoes
<1>3. Does(h, list_remove_from_back(h), Without(s, Len(s) - 1))
  <2>1. Len(s) - 1 \in Int
    BY TidyIs
  <2>2. PICK t, ret : Without(s, Len(s) - 1) = <<t, ret>>
    BY <2>1, WithoutIs
  <2>3. Works(h, list_remove_from_back(h), <<t, ret>>, TRUE)
    BY <2>2, RemoveBack
  <2> QED
    BY <2>2, <2>3, WorksDoes
<1>4. ASSUME NEW i \in Indices1
      PROVE  Does(h, list_remove_at_index(h, i), Without(s, IF i < 0 THEN 0 ELSE i))
  <2>1. i \in Int /\ (IF i < 0 THEN 0 ELSE i) \in Int
    BY TidyIs
  <2>2. PICK t, ret : Without(s, IF i < 0 THEN 0 ELSE i) = <<t, ret>>
    BY <2>1, WithoutIs
  <2>3. Works(h, list_remove_at_index(h, i), <<t, ret>>, FALSE)
    BY <2>1, <2>2, RemoveAtIndex
  <2> QED
    BY <2>2, <2>3, WorksDoes
<1>5. ASSUME NEW v \in Values
      PROVE  /\ list_is_in(h, v) <=> \E j \in DOMAIN s : s[j] = v
             /\ LET i == list_get_index_of(h, v) IN
                IF list_is_in(h, v)
                THEN /\ list_get_elem_at(h, i) = v
                     /\ \A j \in 0 .. i - 1 : list_get_elem_at(h, j) # v
                ELSE i = -1
  <2>1. ~ list_is_in(h, v) => list_get_index_of(h, v) = -1
    BY DEF list_get_index_of
  <2> QED
    BY <2>1, IsIn, IndexOf
<1>6. \A i \in {-1, Len(s) + 1} : list_get_elem_at(h, i) = -1
  BY NothingOutside
<1> QED
  BY <1>1, <1>2, <1>3, <1>4, <1>5, <1>6 DEF IsASequence

-----------------------------------------------------------------------------
(* The server                                                              *)

TypeOK ==
  /\ spc \in {"accept", "recv", "op", "send", "free", "close",
             "exited", "failed", "crashed"}
  /\ mylist \in {"NULL", "allocated", "freed"}
  /\ heap \in Heaps
  /\ current \in Nodes \cup {NULL}

IsTidy(h) == \E l, m : Tidy(h, l, m)

\* What the operation under way still has to write makes the list that its
\* command means.  Until it has begun the list is as it was; then it is
\* whole but for one node, unless the command is remove_back.
Underway ==
  \E s, ret, early :
    /\ Meaning(cmd, before) = <<s, ret>>
    /\ value = ret
    /\ early => cmd = <<"remove_back">>
    /\ \/ /\ IsTidy(heap)
          /\ \E a, b :
               /\ todo = <<a, b>>
               /\ Write(heap, a) \in Heaps
               /\ early \/ OneAside(Write(heap, a))
               /\ IsTidy(Write(Write(heap, a), b))
               /\ Elements(Write(Write(heap, a), b)) = s
       \/ /\ early \/ OneAside(heap)
          /\ \E b :
               /\ todo = <<b>>
               /\ IsTidy(Write(heap, b))
               /\ Elements(Write(heap, b)) = s

Inv ==
  /\ TypeOK
  /\ spc = "accept" => mylist \in {"NULL", "allocated"}
  /\ spc \in {"recv", "op", "send"} => mylist = "allocated"
  /\ spc \in {"accept", "recv", "send"} => IsTidy(heap)
  /\ spc = "op" => Underway
  /\ CommandsOnASequence

LEMMA InitInv == Init => Inv
<1> SUFFICES ASSUME Init PROVE Inv
  OBVIOUS
<1>1. heap \in Heaps
  BY DEF Init, Heaps
<1>2. PICK l : l = [k \in 1 .. 0 |-> NULL]
  OBVIOUS
<1>3. Chain(heap, l, 0)
  <2>1. l \in [1 .. 0 -> Nodes]
    BY <1>2
  <2>2. heap.head = NULL /\ Link(l, 0, 1) = NULL
    BY DEF Init, Link
  <2> QED
    BY <1>1, <2>1, <2>2 DEF Chain
<1>4. Holds(l, 0) = {} /\ heap.used = {}
  BY DEF Init, Holds
<1>5. IsTidy(heap)
  BY <1>3, <1>4 DEF IsTidy, Tidy
<1> QED
  BY <1>1, <1>5 DEF Init, Inv, TypeOK, CommandsOnASequence

(* Every operation that works can be called.                               *)
LEMMA CallKeeps ==
  ASSUME Inv, NEW c, NEW op, Call(c, op), NEW s, NEW ret, NEW early,
         Meaning(c, Elements(heap)) = <<s, ret>>,
         Works(heap, op, <<s, ret>>, early),
         early => c = <<"remove_back">>
  PROVE  Inv'
<1>1. /\ op.ret = ret
      /\ IsTidy(After(heap, op)) /\ Elements(After(heap, op)) = s
  BY DEF Works, IsTidy
<1>2. /\ spc = "recv" /\ cmd' = c /\ before' = Elements(heap) /\ value' = ret
      /\ heap' = heap /\ todo' = op.writes
      /\ UNCHANGED <<mylist, current>>
      /\ spc' = IF op.writes = << >> THEN "send" ELSE "op"
      /\ op.writes = << >> => val' = ret
  BY <1>1 DEF Call
<1>3. IsTidy(heap) /\ mylist = "allocated"
  BY <1>2 DEF Inv
<1>4. (Meaning(cmd, before) = <<s, ret>>)'
  BY <1>2
<1>5. TypeOK'
  BY <1>2 DEF Inv, TypeOK
<1>6. CASE op.writes = << >>
  <2>1. After(heap, op) = heap
    BY <1>6 DEF Works
  <2>2. CommandsOnASequence'
    BY <1>1, <1>2, <1>4, <1>6, <2>1 DEF CommandsOnASequence
  <2> QED
    BY <1>2, <1>3, <1>5, <1>6, <2>2 DEF Inv
<1>7. CASE op.writes # << >>
  <2>1. PICK a, b :
          /\ op.writes = <<a, b>>
          /\ After(heap, op) = Write(Write(heap, a), b)
          /\ Write(heap, a) \in Heaps
          /\ early \/ OneAside(Write(heap, a))
    BY <1>7 DEF Works
  <2>2. spc' = "op" /\ todo' = <<a, b>>
    BY <1>2, <1>7, <2>1
  <2>3. /\ IsTidy(heap)'
        /\ \E x, y :
             /\ todo' = <<x, y>>
             /\ Write(heap', x) \in Heaps
             /\ early \/ OneAside(Write(heap', x))
             /\ IsTidy(Write(Write(heap', x), y))
             /\ Elements(Write(Write(heap', x), y)) = s
    BY <1>1, <1>2, <1>3, <2>1, <2>2
  <2>4. early => cmd' = <<"remove_back">>
    BY <1>2
  <2>5. Underway'
    BY <1>2, <1>4, <2>3, <2>4 DEF Underway
  <2>6. CommandsOnASequence'
    BY <2>2 DEF CommandsOnASequence
  <2> QED
    BY <1>2, <1>3, <1>5, <2>2, <2>5, <2>6 DEF Inv
<1> QED
  BY <1>6, <1>7

LEMMA AddKeeps ==
  ASSUME Inv, NEW n \in Nodes \ heap.used, NEW v \in Values,
         \/ Call(<<"add_front", v>>, add_front(n, v))
         \/ Call(<<"add_back", v>>, add_back(n, v))
         \/ \E x \in Indices :
              Call(<<"add_position", x, v>>, add_at_index(heap, n, v, x))
  PROVE  Inv'
<1>1. v \in Int
  BY ListServerAssumption
<1>2. PICK l, m : Tidy(heap, l, m)
  BY DEF Inv, IsTidy, Call
<1>3. CASE Call(<<"add_front", v>>, add_front(n, v))
  <2>1. Works(heap, add_front(n, v), <<<<v>> \o Elements(heap), v>>, FALSE)
    BY <1>1, <1>2, AddToFront DEF add_front
  <2>2. Meaning(<<"add_front", v>>, Elements(heap)) = <<<<v>> \o Elements(heap), v>>
    BY DEF Meaning
  <2> QED
    BY <1>3, <2>1, <2>2, CallKeeps
<1>4. CASE Call(<<"add_back", v>>, add_back(n, v))
  <2>1. Works(heap, add_back(n, v), <<Append(Elements(heap), v), v>>, FALSE)
    BY <1>1, <1>2, AddToBack DEF add_back
  <2>2. Meaning(<<"add_back", v>>, Elements(heap)) = <<Append(Elements(heap), v), v>>
    BY DEF Meaning
  <2> QED
    BY <1>4, <2>1, <2>2, CallKeeps
<1>5. ASSUME NEW x \in Indices,
             Call(<<"add_position", x, v>>, add_at_index(heap, n, v, x))
      PROVE  Inv'
  <2>1. x \in Int
    BY <1>2, ChainFits DEF Indices, Tidy
  <2>2. Works(heap, add_at_index(heap, n, v, x),
              <<Inserted(Elements(heap), v, x), v>>, FALSE)
    BY <1>1, <1>2, <2>1, ServerAddAtIndex
  <2>3. Meaning(<<"add_position", x, v>>, Elements(heap))
          = <<Inserted(Elements(heap), v, x), v>>
    BY DEF Meaning
  <2> QED
    BY <1>5, <2>2, <2>3, CallKeeps
<1> QED
  BY <1>3, <1>4, <1>5

LEMMA RemoveKeeps ==
  ASSUME Inv,
         \/ Call(<<"remove_front">>, remove_front)
         \/ Call(<<"remove_back">>, remove_back)
         \/ \E x \in Indices : Call(<<"remove_position", x>>, remove_position(x))
  PROVE  Inv'
<1>1. PICK l, m : Tidy(heap, l, m)
  BY DEF Inv, IsTidy, Call
<1>2. Len(Elements(heap)) = m /\ m \in Nat
  BY <1>1, TidyIs
<1>3. CASE Call(<<"remove_front">>, remove_front)
  <2>1. PICK s, ret : Without(Elements(heap), 0) = <<s, ret>>
    BY <1>1, WithoutIs
  <2>2. Works(heap, remove_front, <<s, ret>>, FALSE)
    BY <1>1, <2>1, RemoveFront DEF remove_front
  <2>3. Meaning(<<"remove_front">>, Elements(heap)) = <<s, ret>>
    BY <2>1 DEF Meaning
  <2> QED
    BY <1>3, <2>2, <2>3, CallKeeps
<1>4. CASE Call(<<"remove_back">>, remove_back)
  <2>1. Len(Elements(heap)) - 1 \in Int
    BY <1>2
  <2>2. PICK s, ret : Without(Elements(heap), Len(Elements(heap)) - 1) = <<s, ret>>
    BY <1>1, <2>1, WithoutIs
  <2>3. Works(heap, remove_back, <<s, ret>>, TRUE)
    BY <1>1, <2>2, RemoveBack DEF remove_back
  <2>4. Meaning(<<"remove_back">>, Elements(heap)) = <<s, ret>>
    BY <2>2 DEF Meaning
  <2> QED
    BY <1>4, <2>3, <2>4, CallKeeps
<1>5. ASSUME NEW x \in Indices, Call(<<"remove_position", x>>, remove_position(x))
      PROVE  Inv'
  <2>1. x \in Int
    BY <1>1, ChainFits DEF Indices, Tidy
  <2>2. Without(Elements(heap), IF x < 0 THEN 0 ELSE x)
          = Without(Elements(heap), Clip(x, 0, m))
    <3>1. CASE x <= m
      BY <1>2, <2>1, <3>1 DEF Clip
    <3>2. CASE x > m
      <4>1. Clip(x, 0, m) = m /\ m \notin 0 .. m - 1 /\ x \notin 0 .. m - 1 /\ m \in Int
            /\ (IF x < 0 THEN 0 ELSE x) = x
        BY <1>2, <2>1, <3>2 DEF Clip
      <4> QED
        BY <1>1, <2>1, <4>1, WithoutIs
    <3> QED
      BY <1>2, <2>1, <3>1, <3>2
  <2>3. (IF x < 0 THEN 0 ELSE x) \in Int
    BY <2>1
  <2>4. PICK s, ret : Without(Elements(heap), IF x < 0 THEN 0 ELSE x) = <<s, ret>>
    BY <1>1, <2>3, WithoutIs
  <2>5. Works(heap, remove_position(x), <<s, ret>>, FALSE)
    BY <1>1, <2>1, <2>4, RemoveAtIndex DEF remove_position
  <2>6. Meaning(<<"remove_position", x>>, Elements(heap)) = <<s, ret>>
    BY <1>2, <2>2, <2>4 DEF Meaning
  <2> QED
    BY <1>5, <2>5, <2>6, CallKeeps
<1> QED
  BY <1>3, <1>4, <1>5

LEMMA ReadKeeps ==
  ASSUME Inv,
         \/ Call(<<"print">>, Op(<< >>, listToString))
         \/ Call(<<"get_length">>, Op(<< >>, list_length(heap)))
         \/ \E x \in Indices : Call(<<"get", x>>, Op(<< >>, get_elem_at(heap, x)))
  PROVE  Inv'
<1>1. PICK l, m : Tidy(heap, l, m)
  BY DEF Inv, IsTidy, Call
<1>2. Len(Elements(heap)) = m /\ m \in Nat /\ list_length(heap) = m
  BY <1>1, TidyIs
<1>3. \A ret : Works(heap, Op(<< >>, ret), <<Elements(heap), ret>>, FALSE)
  BY <1>1, NothingWorks
<1>4. CASE Call(<<"print">>, Op(<< >>, listToString))
  <2>1. Meaning(<<"print">>, Elements(heap)) = <<Elements(heap), listToString>>
    BY DEF Meaning, listToString
  <2> QED
    BY <1>3, <1>4, <2>1, CallKeeps
<1>5. CASE Call(<<"get_length">>, Op(<< >>, list_length(heap)))
  <2>1. Meaning(<<"get_length">>, Elements(heap)) = <<Elements(heap), list_length(heap)>>
    BY <1>2 DEF Meaning
  <2> QED
    BY <1>3, <1>5, <2>1, CallKeeps
<1>6. ASSUME NEW x \in Indices, Call(<<"get", x>>, Op(<< >>, get_elem_at(heap, x)))
      PROVE  Inv'
  <2>1. x \in Int
    BY <1>1, ChainFits DEF Indices, Tidy
  <2>2. get_elem_at(heap, x) = Without(Elements(heap), Clip(x, 0, m))[2]
    BY <1>1, <2>1, ServerGetElemAt
  <2>3. Meaning(<<"get", x>>, Elements(heap)) = <<Elements(heap), get_elem_at(heap, x)>>
    BY <1>2, <2>2 DEF Meaning
  <2> QED
    BY <1>3, <1>6, <2>3, CallKeeps
<1> QED
  BY <1>4, <1>5, <1>6

LEMMA StepKeeps ==
  ASSUME Inv, Step
  PROVE  Inv'
<1>1. spc = "op" /\ mylist = "allocated" /\ Underway /\ TypeOK
  BY DEF Inv, Step
<1>2. UNCHANGED <<mylist, value, current, cmd, before>>
  BY DEF Step
<1>3. PICK s, ret, early :
        /\ Meaning(cmd, before) = <<s, ret>>
        /\ value = ret
        /\ early => cmd = <<"remove_back">>
        /\ \/ /\ IsTidy(heap)
              /\ \E a, b :
                   /\ todo = <<a, b>>
                   /\ Write(heap, a) \in Heaps
                   /\ early \/ OneAside(Write(heap, a))
                   /\ IsTidy(Write(Write(heap, a), b))
                   /\ Elements(Write(Write(heap, a), b)) = s
           \/ /\ early \/ OneAside(heap)
              /\ \E b :
                   /\ todo = <<b>>
                   /\ IsTidy(Write(heap, b))
                   /\ Elements(Write(heap, b)) = s
  BY <1>1 DEF Underway
<1>4. /\ (Meaning(cmd, before) = <<s, ret>>)'
      /\ value' = ret
      /\ early => cmd' = <<"remove_back">>
  BY <1>2, <1>3
<1>5. ASSUME NEW a, NEW b, todo = <<a, b>>, Write(heap, a) \in Heaps,
             early \/ OneAside(Write(heap, a)),
             IsTidy(Write(Write(heap, a), b)),
             Elements(Write(Write(heap, a), b)) = s
      PROVE  Inv'
  <2>1. heap' = Write(heap, a) /\ todo' = <<b>> /\ spc' = "op"
    BY <1>1, <1>5 DEF Step
  <2>2. TypeOK'
    BY <1>1, <1>2, <1>5, <2>1 DEF TypeOK
  <2>3. Underway'
    <3>1. early \/ OneAside(heap')
      BY <1>5, <2>1
    <3>2. \E y : todo' = <<y>> /\ IsTidy(Write(heap', y)) /\ Elements(Write(heap', y)) = s
      BY <1>5, <2>1
    <3> QED
      BY <1>4, <3>1, <3>2 DEF Underway
  <2>4. CommandsOnASequence'
    BY <2>1 DEF CommandsOnASequence
  <2> QED
    BY <1>1, <1>2, <2>1, <2>2, <2>3, <2>4 DEF Inv
<1>6. ASSUME NEW b, todo = <<b>>, IsTidy(Write(heap, b)), Elements(Write(heap, b)) = s
      PROVE  Inv'
  <2>1. heap' = Write(heap, b) /\ spc' = "send" /\ val' = ret
    BY <1>3, <1>6 DEF Step
  <2>2. heap' \in Heaps
    BY <1>6, <2>1 DEF IsTidy, Tidy, Chain
  <2>3. TypeOK'
    BY <1>1, <1>2, <2>1, <2>2 DEF TypeOK
  <2>4. CommandsOnASequence'
    BY <1>4, <1>6, <2>1 DEF CommandsOnASequence
  <2> QED
    BY <1>1, <1>2, <1>6, <2>1, <2>3, <2>4 DEF Inv
<1> QED
  BY <1>3, <1>5, <1>6

LEMMA SigintKeeps ==
  ASSUME Inv, Sigint
  PROVE  Inv'
<1>1. heap' \in Heaps /\ mylist' \in {"NULL", "allocated", "freed"} /\ current' = current
      /\ spc' \in {"exited", "crashed"}
  BY DEF Inv, TypeOK, Sigint, Heaps
<1> QED
  BY <1>1 DEF Inv, TypeOK, CommandsOnASequence

LEMMA NextInv ==
  ASSUME Inv, [Next]_vars
  PROVE  Inv'
<1> USE DEF Inv
<1>1. CASE Accept
  BY <1>1 DEF Accept, TypeOK, CommandsOnASequence
<1>2. ASSUME HandleExit, spc \in {"accept", "recv"}
      PROVE  Inv'
  BY <1>2 DEF HandleExit, TypeOK, CommandsOnASequence, Heaps
<1>3. CASE AcceptFails
  <2>1. CASE mylist = "NULL"
    BY <1>3, <2>1 DEF AcceptFails, TypeOK, CommandsOnASequence
  <2>2. CASE mylist # "NULL"
    BY <1>2, <1>3, <2>2 DEF AcceptFails
  <2> QED
    BY <2>1, <2>2
<1>4. CASE Disconnect
  BY <1>4 DEF Disconnect, TypeOK, CommandsOnASequence
<1>5. CASE Command
  BY <1>5, AddKeeps, RemoveKeeps, ReadKeeps DEF Command
<1>6. CASE Step
  BY <1>6, StepKeeps
<1>7. CASE Send
  BY <1>7 DEF Send, TypeOK, CommandsOnASequence
<1>8. CASE Exit
  BY <1>2, <1>8 DEF Exit
<1>9. CASE FreeNext
  <2>1. heap' \in Heaps /\ current' \in Nodes \cup {NULL}
    BY <1>9 DEF FreeNext, TypeOK, Heaps
  <2> QED
    BY <1>9, <2>1 DEF FreeNext, TypeOK, CommandsOnASequence
<1>10. CASE FreeList
  BY <1>10 DEF FreeList, TypeOK, CommandsOnASequence
<1>11. CASE Close
  BY <1>11 DEF Close, TypeOK, CommandsOnASequence
<1>12. CASE Sigint
  BY <1>12, SigintKeeps
<1>13. CASE UNCHANGED vars
  BY <1>13 DEF vars, TypeOK, CommandsOnASequence, Underway
<1> QED
  BY <1>1, <1>3, <1>4, <1>5, <1>6, <1>7, <1>8, <1>9, <1>10, <1>11, <1>12, <1>13
     DEF Next, Ended

(* The server is where its steps lead and its heap is a heap; the list is  *)
(* whole between two commands, and the operation under way completes it.   *)
THEOREM InvHolds == Spec => []Inv
<1>1. Init => Inv
  BY InitInv
<1>2. Inv /\ [Next]_vars => Inv'
  BY NextInv
<1> QED
  BY <1>1, <1>2, PTL DEF Spec

(* The server is where its steps lead, and its heap is a heap.             *)
THEOREM TypeCorrect == Spec => []TypeOK
<1>1. Inv => TypeOK
  BY DEF Inv
<1> QED
  BY <1>1, InvHolds, PTL

(* Over any sequence of commands of any clients, on a heap of any size,    *)
(* each does to the list what it means for a sequence of values and        *)
(* answers accordingly.                                                    *)
THEOREM CommandsDoWhatTheyMean == Spec => []CommandsOnASequence
<1>1. Inv => CommandsOnASequence
  BY DEF Inv
<1> QED
  BY <1>1, InvHolds, PTL

(* Whenever SIGINT comes, handle_exit frees allocated nodes, each once,    *)
(* and leaves at most the one on its way in or out, except in the middle   *)
(* of remove_back and of the clean-up that main began.                     *)
THEOREM TheHandlerFreesTheList == Spec => []HandlerFreesTheList
<1>1. ASSUME NEW l, NEW m, Chain(heap, l, m)
      PROVE  Visited = Holds(l, m)
  BY <1>1, LengthIs, HoldsIs DEF Visited
<1>2. ASSUME IsTidy(heap)
      PROVE  Visited = heap.used
  BY <1>1, <1>2 DEF IsTidy, Tidy
<1>3. ASSUME NEW T, NEW x, T \subseteq {x}
      PROVE  Cardinality(T) <= 1
  <2>1. T = {} \/ T = {x}
    BY <1>3
  <2>2. Cardinality({}) = 0 /\ Cardinality({x}) = 1
    BY FS_EmptySet, FS_Singleton, Zenon
  <2> QED
    BY <2>1, <2>2
<1>4. Cardinality({}) = 0
  BY FS_EmptySet
<1>5. ASSUME Inv
      PROVE  HandlerFreesTheList
  <2> SUFFICES ASSUME Up, mylist # "NULL", spc \notin {"free", "close"}, ~ DanglingLink
               PROVE  /\ Sound
                      /\ Cardinality(heap.used \ Visited) <= IF spc = "op" THEN 1 ELSE 0
    BY DEF HandlerFreesTheList
  <2>1. mylist # "freed" /\ spc \in {"accept", "recv", "op", "send"}
    BY <1>5 DEF Inv, TypeOK, Up
  <2>2. CASE IsTidy(heap)
    <3>1. Visited = heap.used
      BY <1>2, <2>2
    <3>2. heap.used \ Visited = {}
      BY <3>1
    <3> QED
      BY <1>4, <2>1, <3>1, <3>2 DEF Sound
  <2>3. CASE OneAside(heap) /\ spc = "op"
    <3>1. PICK l, m, x : /\ Chain(heap, l, m)
                         /\ Holds(l, m) \subseteq heap.used
                         /\ heap.used \ Holds(l, m) \subseteq {x}
      BY <2>3 DEF OneAside
    <3>2. Visited = Holds(l, m)
      BY <1>1, <3>1
    <3> QED
      BY <1>3, <2>1, <2>3, <3>1, <3>2 DEF Sound
  <2>4. CASE spc = "op"
    <3>1. PICK early : /\ early => cmd = <<"remove_back">>
                       /\ \/ IsTidy(heap)
                          \/ (early \/ OneAside(heap)) /\ \E b : todo = <<b>>
      BY <1>5, <2>4, Zenon DEF Inv, Underway
    <3>2. (\E b : todo = <<b>>) => Len(todo) = 1
      OBVIOUS
    <3> QED
      BY <2>2, <2>3, <2>4, <3>1, <3>2 DEF DanglingLink
  <2> QED
    BY <1>5, <2>1, <2>2, <2>4 DEF Inv
<1> QED
  BY <1>5, InvHolds, PTL

(* The library of lab 1 does what its names say on every list that any     *)
(* sequence of commands can build, on a heap of any size.                  *)
THEOREM TheLibraryIsASequence == Spec => []LibraryOnASequence
<1>1. Inv => LibraryOnASequence
  BY LibraryIsASequence DEF Inv, LibraryOnASequence, IsTidy
<1> QED
  BY <1>1, InvHolds, PTL
=============================================================================
