------------------------------- MODULE MMUProofs -------------------------------
(***************************************************************************)
(* What TLAPS proves of the memory manager, for every partition, set of    *)
(* processes and set of sizes: the two lists tile the partition, the free  *)
(* list is in the order of its policy until the first coalesce request,    *)
(* coalescing leaves no hole in two pieces, and the lists implement the    *)
(* memory map.                                                             *)
(***************************************************************************)
EXTENDS MMU, SequenceTheorems, FiniteSetTheorems, WellFoundedInduction, TLAPS

-----------------------------------------------------------------------------
(* Numbers and folds                                                       *)

(* Every non-empty set of natural numbers has a least element.             *)
LEMMA LeastNat ==
  ASSUME NEW T \in SUBSET Nat, T # {}
  PROVE  Min(T) \in T /\ \A y \in T : Min(T) <= y
<1>1. IsWellFoundedOn(OpToRel(<, Nat), Nat)
  BY NatLessThanWellFounded
<1>2. PICK x \in T : \A y \in T : ~ (<<y, x>> \in OpToRel(<, Nat))
  BY <1>1, WFMin
<1>3. \A y \in T : ~ (y < x)
  BY <1>2 DEF OpToRel
<1>4. \A y \in T : x <= y
  BY <1>3
<1> QED
  BY <1>4 DEF Min

LEMMA MaxIs ==
  ASSUME NEW n \in Nat, NEW s \in SUBSET (1 .. n), n \in s
  PROVE  Max(s) = n
<1>1. \A y \in s : n >= y
  OBVIOUS
<1>2. \A x \in s : (\A y \in s : x >= y) => x = n
  BY <1>1
<1> QED
  BY <1>1, <1>2 DEF Max

(* A non-empty set of numbers up to n has a greatest element.              *)
LEMMA MaxIn ==
  ASSUME NEW n \in Nat, NEW s \in SUBSET (1 .. n), s # {}
  PROVE  Max(s) \in s
<1> DEFINE T == {k \in Nat : n - k \in s}
<1>1. T # {}
  <2>1. PICK x \in s : TRUE
    OBVIOUS
  <2>2. x \in 1 .. n /\ n - x \in Nat /\ n - (n - x) = x
    OBVIOUS
  <2> QED
    BY <2>2
<1>2. PICK k \in T : \A y \in T : k <= y
  <2>1. T \in SUBSET Nat
    OBVIOUS
  <2> HIDE DEF T
  <2> QED
    BY <1>1, <2>1, LeastNat
<1>3. ASSUME NEW y \in s
      PROVE  n - k >= y
  <2>1. y \in 1 .. n /\ n - y \in Nat /\ n - (n - y) = y
    OBVIOUS
  <2>2. n - y \in T
    BY <2>1
  <2>3. k <= n - y
    BY <1>2, <2>2
  <2> QED
    BY <2>1, <2>3
<1>4. n - k \in s
  OBVIOUS
<1> QED
  BY <1>3, <1>4 DEF Max

\* What FoldLeft computes on the subsets of 1 .. n when its operation is F.
Folds(g, D, base, n, F) ==
  /\ g \in [SUBSET (1 .. n) -> D]
  /\ \A s \in SUBSET (1 .. n) :
       g[s] = IF s = {} THEN base ELSE F[<<g[s \ {Max(s)}], Max(s)>>]

(* The recursive function by which FoldLeft is defined exists.             *)
LEMMA FoldExists ==
  ASSUME NEW D, NEW base \in D, NEW n \in Nat, NEW F \in [D \X (1 .. n) -> D]
  PROVE  \E g : Folds(g, D, base, n, F)
<1> DEFINE T == {k \in 0 .. n : ~ \E g : Folds(g, D, base, k, F)}
<1>1. SUFFICES T = {}
  <2>1. n \in 0 .. n
    OBVIOUS
  <2> QED
    BY <2>1
<1>2. SUFFICES ASSUME T # {} PROVE FALSE
  OBVIOUS
<1>3. PICK m \in T : \A k \in T : m <= k
  <2>1. T \in SUBSET Nat
    OBVIOUS
  <2> HIDE DEF T
  <2> QED
    BY <1>2, <2>1, LeastNat
<1>4. m \in 0 .. n /\ ~ \E g : Folds(g, D, base, m, F)
  OBVIOUS
<1>5. CASE m = 0
  <2>1. PICK g : g = [s \in SUBSET (1 .. m) |-> base]
    OBVIOUS
  <2>2. \A s \in SUBSET (1 .. m) : s = {}
    BY <1>5
  <2>3. Folds(g, D, base, m, F)
    BY <2>1, <2>2 DEF Folds
  <2> QED
    BY <1>4, <2>3
<1>6. CASE m # 0
  <2>1. m - 1 \in 0 .. n /\ ~ (m <= m - 1) /\ m \in Nat /\ m \in 1 .. n
    BY <1>4, <1>6
  <2>2. m - 1 \notin T
    BY <1>3, <2>1
  <2>3. PICK g : Folds(g, D, base, m - 1, F)
    BY <2>1, <2>2
  <2> HIDE DEF T
  <2>4. PICK h : h = [s \in SUBSET (1 .. m) |->
                        IF m \in s THEN F[<<g[s \ {m}], m>>] ELSE g[s]]
    OBVIOUS
  <2>5. \A s \in SUBSET (1 .. m) :
          /\ s \ {m} \in SUBSET (1 .. m - 1)
          /\ m \notin s => s \in SUBSET (1 .. m - 1)
    BY <2>1
  <2>6. ASSUME NEW s \in SUBSET (1 .. m)
        PROVE  /\ h[s] \in D
               /\ h[s] = IF s = {} THEN base ELSE F[<<h[s \ {Max(s)}], Max(s)>>]
    <3>1. CASE m \in s
      <4>1. s \ {m} \in SUBSET (1 .. m) /\ s # {} /\ Max(s) = m
        BY <2>1, <3>1, MaxIs
      <4>2. h[s \ {m}] = g[s \ {m}]
        BY <2>4, <4>1
      <4>3. h[s] = F[<<g[s \ {m}], m>>]
        BY <2>4, <3>1
      <4>4. g[s \ {m}] \in D
        BY <2>3, <2>5 DEF Folds
      <4>5. F[<<g[s \ {m}], m>>] \in D
        BY <2>1, <4>4
      <4> QED
        BY <4>1, <4>2, <4>3, <4>5
    <3>2. CASE m \notin s
      <4>1. s \in SUBSET (1 .. m - 1) /\ h[s] = g[s]
        BY <2>4, <2>5, <3>2
      <4>2. /\ g[s] \in D
            /\ g[s] = IF s = {} THEN base ELSE F[<<g[s \ {Max(s)}], Max(s)>>]
        BY <2>3, <4>1 DEF Folds
      <4>3. h[s \ {Max(s)}] = g[s \ {Max(s)}]
        BY <2>4, <3>2
      <4> QED
        BY <4>1, <4>2, <4>3
    <3> QED
      BY <3>1, <3>2
  <2>7. h \in [SUBSET (1 .. m) -> D]
    <3>1. h = [s \in SUBSET (1 .. m) |-> h[s]]
      BY <2>4
    <3>2. \A s \in SUBSET (1 .. m) : h[s] \in D
      BY <2>6
    <3> QED
      BY <3>1, <3>2
  <2>8. Folds(h, D, base, m, F)
    BY <2>6, <2>7 DEF Folds
  <2> QED
    BY <1>4, <2>8
<1> QED
  BY <1>5, <1>6

\* r[j] is what merging, or sorting, makes of the first j blocks of l.
MergeRun(r, l, n) ==
  /\ r[0] = << >>
  /\ \A j \in 1 .. n : r[j] = Merge(r[j - 1], l[j])
  /\ r[n] = list_coalese_nodes(l)
SortRun(r, l, n) ==
  /\ r[0] = << >>
  /\ \A j \in 1 .. n : r[j] = list_add_ascending_by_address(r[j - 1], l[j])
  /\ r[n] = FoldLeft(list_add_ascending_by_address, << >>, l)

(* The steps by which coalescing folds Merge over a list.                  *)
LEMMA MergeSteps ==
  ASSUME NEW D, << >> \in D, NEW n \in Nat, NEW l, DOMAIN l = 1 .. n,
         \A d \in D, j \in 1 .. n : Merge(d, l[j]) \in D
  PROVE  \E r : MergeRun(r, l, n)
<1>1. PICK F : F = [x \in D \X (1 .. n) |-> Merge(x[1], l[x[2]])]
  OBVIOUS
<1>2. F \in [D \X (1 .. n) -> D]
  BY <1>1
<1>3. PICK g : Folds(g, D, << >>, n, F)
  BY <1>2, FoldExists
<1>4. ASSUME NEW s \in SUBSET (1 .. n)
      PROVE  g[s] = IF s = {} THEN << >>
                    ELSE Merge(g[s \ {Max(s)}], l[Max(s)])
  <2>1. CASE s = {}
    BY <1>3, <2>1 DEF Folds
  <2>2. CASE s # {}
    <3>1. Max(s) \in 1 .. n
      BY <2>2, MaxIn
    <3>2. g[s \ {Max(s)}] \in D
      BY <1>3 DEF Folds
    <3>3. F[<<g[s \ {Max(s)}], Max(s)>>] = Merge(g[s \ {Max(s)}], l[Max(s)])
      BY <1>1, <3>1, <3>2
    <3> QED
      BY <1>3, <2>2, <3>3 DEF Folds
  <2> QED
    BY <2>1, <2>2
<1>5. g = [s \in SUBSET (1 .. n) |->
              IF s = {} THEN << >> ELSE Merge(g[s \ {Max(s)}], l[Max(s)])]
  <2>1. g = [s \in SUBSET (1 .. n) |-> g[s]]
    BY <1>3 DEF Folds
  <2> QED
    BY <1>4, <2>1
<1>6. PICK it : it = CHOOSE h : h = [s \in SUBSET (DOMAIN l) |->
                  IF s = {} THEN << >> ELSE Merge(h[s \ {Max(s)}], l[Max(s)])]
  OBVIOUS
<1>7. list_coalese_nodes(l) = it[DOMAIN l]
  BY <1>6 DEF list_coalese_nodes, FoldLeft, MapThenFoldSet
<1>8. it = [s \in SUBSET (DOMAIN l) |->
              IF s = {} THEN << >> ELSE Merge(it[s \ {Max(s)}], l[Max(s)])]
  BY <1>5, <1>6
<1>9. PICK r : r = [j \in 0 .. n |-> it[1 .. j]]
  OBVIOUS
<1>10. r[0] = << >>
  <2>1. r[0] = it[1 .. 0] /\ 1 .. 0 = {} /\ {} \in SUBSET (DOMAIN l)
    BY <1>9
  <2> QED
    BY <1>8, <2>1
<1>11. ASSUME NEW j \in 1 .. n
       PROVE  r[j] = Merge(r[j - 1], l[j])
  <2>1. /\ 1 .. j \in SUBSET (1 .. n)
        /\ (1 .. j) \ {j} = 1 .. j - 1 /\ j - 1 \in 0 .. n /\ j \in 0 .. n
        /\ j \in Nat /\ j \in 1 .. j /\ 1 .. j # {}
    <3>1. j \in Nat /\ j <= n /\ 1 <= j
      OBVIOUS
    <3>2. j - 1 \in 0 .. n /\ j \in 0 .. n /\ j \in 1 .. j
      BY <3>1
    <3>3. 1 .. j \in SUBSET (1 .. n)
      BY <3>1
    <3>4. \A x : x \in 1 .. j - 1 <=> x \in (1 .. j) \ {j}
      BY <3>1
    <3>5. (1 .. j) \ {j} = 1 .. j - 1
      BY <3>4
    <3> QED
      BY <3>1, <3>2, <3>3, <3>5
  <2>2. Max(1 .. j) = j
    BY <2>1, MaxIs
  <2>3. it[1 .. j] = Merge(it[(1 .. j) \ {Max(1 .. j)}], l[Max(1 .. j)])
    BY <1>8, <2>1
  <2> QED
    BY <1>9, <2>1, <2>2, <2>3
<1>12. r[n] = list_coalese_nodes(l)
  BY <1>7, <1>9
<1> QED
  BY <1>10, <1>11, <1>12 DEF MergeRun

(* The steps by which a list is sorted by address.                         *)
LEMMA SortSteps ==
  ASSUME NEW D, << >> \in D, NEW n \in Nat, NEW l, DOMAIN l = 1 .. n,
         \A d \in D, j \in 1 .. n : list_add_ascending_by_address(d, l[j]) \in D
  PROVE  \E r : SortRun(r, l, n)
<1> DEFINE Add(d, b) == list_add_ascending_by_address(d, b)
<1>1. PICK F : F = [x \in D \X (1 .. n) |-> Add(x[1], l[x[2]])]
  OBVIOUS
<1>2. F \in [D \X (1 .. n) -> D]
  BY <1>1
<1>3. PICK g : Folds(g, D, << >>, n, F)
  BY <1>2, FoldExists
<1>4. ASSUME NEW s \in SUBSET (1 .. n)
      PROVE  g[s] = IF s = {} THEN << >>
                    ELSE Add(g[s \ {Max(s)}], l[Max(s)])
  <2>1. CASE s = {}
    BY <1>3, <2>1 DEF Folds
  <2>2. CASE s # {}
    <3>1. Max(s) \in 1 .. n
      BY <2>2, MaxIn
    <3>2. g[s \ {Max(s)}] \in D
      BY <1>3 DEF Folds
    <3>3. F[<<g[s \ {Max(s)}], Max(s)>>] = Add(g[s \ {Max(s)}], l[Max(s)])
      BY <1>1, <3>1, <3>2
    <3> QED
      BY <1>3, <2>2, <3>3 DEF Folds
  <2> QED
    BY <2>1, <2>2
<1>5. g = [s \in SUBSET (1 .. n) |->
              IF s = {} THEN << >> ELSE Add(g[s \ {Max(s)}], l[Max(s)])]
  <2>1. g = [s \in SUBSET (1 .. n) |-> g[s]]
    BY <1>3 DEF Folds
  <2> QED
    BY <1>4, <2>1
<1>6. PICK it : it = CHOOSE h : h = [s \in SUBSET (DOMAIN l) |->
                  IF s = {} THEN << >> ELSE Add(h[s \ {Max(s)}], l[Max(s)])]
  OBVIOUS
<1>7. FoldLeft(list_add_ascending_by_address, << >>, l) = it[DOMAIN l]
  BY <1>6 DEF FoldLeft, MapThenFoldSet
<1>8. it = [s \in SUBSET (DOMAIN l) |->
              IF s = {} THEN << >> ELSE Add(it[s \ {Max(s)}], l[Max(s)])]
  BY <1>5, <1>6
<1>9. PICK r : r = [j \in 0 .. n |-> it[1 .. j]]
  OBVIOUS
<1>10. r[0] = << >>
  <2>1. r[0] = it[1 .. 0] /\ 1 .. 0 = {} /\ {} \in SUBSET (DOMAIN l)
    BY <1>9
  <2> QED
    BY <1>8, <2>1
<1>11. ASSUME NEW j \in 1 .. n
       PROVE  r[j] = Add(r[j - 1], l[j])
  <2>1. /\ 1 .. j \in SUBSET (1 .. n)
        /\ (1 .. j) \ {j} = 1 .. j - 1 /\ j - 1 \in 0 .. n /\ j \in 0 .. n
        /\ j \in Nat /\ j \in 1 .. j /\ 1 .. j # {}
    <3>1. j \in Nat /\ j <= n /\ 1 <= j
      OBVIOUS
    <3>2. j - 1 \in 0 .. n /\ j \in 0 .. n /\ j \in 1 .. j
      BY <3>1
    <3>3. 1 .. j \in SUBSET (1 .. n)
      BY <3>1
    <3>4. \A x : x \in 1 .. j - 1 <=> x \in (1 .. j) \ {j}
      BY <3>1
    <3>5. (1 .. j) \ {j} = 1 .. j - 1
      BY <3>4
    <3> QED
      BY <3>1, <3>2, <3>3, <3>5
  <2>2. Max(1 .. j) = j
    BY <2>1, MaxIs
  <2>3. it[1 .. j] = Add(it[(1 .. j) \ {Max(1 .. j)}], l[Max(1 .. j)])
    BY <1>8, <2>1
  <2> QED
    BY <1>9, <2>1, <2>2, <2>3
<1>12. r[n] = FoldLeft(list_add_ascending_by_address, << >>, l)
  BY <1>7, <1>9
<1> QED
  BY <1>10, <1>11, <1>12 DEF SortRun

-----------------------------------------------------------------------------
(* Lists into which a block is put, and from which one is taken            *)

\* Where the element at j goes when one is put at position p.
Shift(p, j) == IF j < p THEN j ELSE j + 1

\* new is old with b put at position p.
PutAt(old, new, p, b) ==
  /\ p \in DOMAIN new /\ new[p] = b
  /\ \A j \in DOMAIN old :
       Shift(p, j) \in DOMAIN new \ {p} /\ new[Shift(p, j)] = old[j]
  /\ \A i \in DOMAIN new : i # p => \E j \in DOMAIN old : i = Shift(p, j)

(* Removing an element moves those behind it to the front by one.          *)
LEMMA RemoveAtIs ==
  ASSUME NEW S, NEW q \in Seq(S), NEW i \in DOMAIN q
  PROVE  RemoveAt(q, i) \in Seq(S) /\ PutAt(RemoveAt(q, i), q, i, q[i])
<1> DEFINE a == SubSeq(q, 1, i - 1)
           b == SubSeq(q, i + 1, Len(q))
<1>1. Len(q) \in Nat /\ i \in 1 .. Len(q) /\ DOMAIN q = 1 .. Len(q)
  BY LenProperties
<1>2. \A j \in 1 .. i - 1 : q[j] \in S
  BY <1>1
<1>3. /\ a \in Seq(S) /\ Len(a) = i - 1
      /\ \A j \in 1 .. i - 1 : a[j] = q[j]
  <2>1. /\ SubSeq(q, 1, i - 1) \in Seq(S)
        /\ Len(SubSeq(q, 1, i - 1)) = IF 1 <= i - 1 THEN (i - 1) - 1 + 1 ELSE 0
        /\ \A j \in 1 .. (i - 1) - 1 + 1 : SubSeq(q, 1, i - 1)[j] = q[1 + j - 1]
    BY <1>1, <1>2, SubSeqProperties
  <2> QED
    BY <1>1, <2>1
<1>4. \A j \in i + 1 .. Len(q) : q[j] \in S
  BY <1>1
<1>5. /\ b \in Seq(S) /\ Len(b) = Len(q) - i
      /\ \A j \in 1 .. Len(q) - i : b[j] = q[i + j]
  <2>1. /\ SubSeq(q, i + 1, Len(q)) \in Seq(S)
        /\ Len(SubSeq(q, i + 1, Len(q)))
             = IF i + 1 <= Len(q) THEN Len(q) - (i + 1) + 1 ELSE 0
        /\ \A j \in 1 .. Len(q) - (i + 1) + 1 :
             SubSeq(q, i + 1, Len(q))[j] = q[(i + 1) + j - 1]
    BY <1>1, <1>4, SubSeqProperties
  <2> QED
    BY <1>1, <2>1
<1> HIDE DEF a, b
<1>6. /\ a \o b \in Seq(S)
      /\ Len(a \o b) = Len(a) + Len(b)
      /\ \A j \in 1 .. Len(a) + Len(b) :
           (a \o b)[j] = IF j <= Len(a) THEN a[j] ELSE b[j - Len(a)]
  BY <1>3, <1>5, ConcatProperties
<1>7. Len(a) + Len(b) = Len(q) - 1
  BY <1>1, <1>3, <1>5
<1>8. PICK r \in Seq(S) : r = RemoveAt(q, i) /\ r = a \o b
  BY <1>6 DEF RemoveAt, a, b
<1>9. DOMAIN r = 1 .. Len(q) - 1
  BY <1>6, <1>7, <1>8, LenProperties
<1>10. ASSUME NEW j \in DOMAIN r
       PROVE  r[j] = IF j < i THEN q[j] ELSE q[j + 1]
  <2>1. CASE j < i
    <3>1. j \in 1 .. i - 1 /\ j <= Len(a) /\ j \in 1 .. Len(a) + Len(b)
      BY <1>1, <1>3, <1>7, <1>9, <2>1
    <3> QED
      BY <1>3, <1>6, <1>8, <2>1, <3>1
  <2>2. CASE ~(j < i)
    <3>1. j - (i - 1) \in 1 .. Len(q) - i /\ i + (j - (i - 1)) = j + 1
      BY <1>1, <1>9, <2>2
    <3>2. ~(j <= Len(a)) /\ j \in 1 .. Len(a) + Len(b)
      BY <1>1, <1>3, <1>7, <1>9, <2>2
    <3>3. r[j] = b[j - (i - 1)]
      BY <1>3, <1>6, <1>8, <3>2
    <3> QED
      BY <1>5, <2>2, <3>1, <3>3
  <2> QED
    BY <2>1, <2>2
<1>11. ASSUME NEW j \in DOMAIN r
       PROVE  Shift(i, j) \in DOMAIN q \ {i} /\ q[Shift(i, j)] = r[j]
  BY <1>1, <1>9, <1>10 DEF Shift
<1>12. ASSUME NEW k \in DOMAIN q, k # i
       PROVE  \E j \in DOMAIN r : k = Shift(i, j)
  <2>1. CASE k < i
    BY <1>1, <1>9, <2>1 DEF Shift
  <2>2. CASE ~(k < i)
    <3>1. k - 1 \in DOMAIN r /\ ~(k - 1 < i) /\ (k - 1) + 1 = k
      BY <1>1, <1>9, <1>12, <2>2
    <3> QED
      BY <3>1 DEF Shift
  <2> QED
    BY <2>1, <2>2
<1> QED
  BY <1>8, <1>11, <1>12 DEF PutAt

(* Appending puts an element at the end.                                   *)
LEMMA AppendIs ==
  ASSUME NEW S, NEW q \in Seq(S), NEW e \in S
  PROVE  Append(q, e) \in Seq(S) /\ PutAt(q, Append(q, e), Len(q) + 1, e)
<1>1. Len(q) \in Nat /\ DOMAIN q = 1 .. Len(q)
  BY LenProperties
<1>2. PICK r \in Seq(S) : r = Append(q, e)
  BY AppendProperties
<1>3. /\ Len(r) = Len(q) + 1 /\ r[Len(q) + 1] = e
      /\ \A j \in 1 .. Len(q) : r[j] = q[j]
  BY <1>2, AppendProperties
<1>4. DOMAIN r = 1 .. Len(q) + 1
  BY <1>3, LenProperties
<1>5. ASSUME NEW j \in DOMAIN q
      PROVE  /\ Shift(Len(q) + 1, j) \in DOMAIN r \ {Len(q) + 1}
             /\ r[Shift(Len(q) + 1, j)] = q[j]
  BY <1>1, <1>3, <1>4 DEF Shift
<1>6. ASSUME NEW k \in DOMAIN r, k # Len(q) + 1
      PROVE  \E j \in DOMAIN q : k = Shift(Len(q) + 1, j)
  BY <1>1, <1>4, <1>6 DEF Shift
<1>7. Len(q) + 1 \in DOMAIN r
  BY <1>1, <1>4
<1> QED
  BY <1>2, <1>3, <1>5, <1>6, <1>7 DEF PutAt

(* Inserting at position i puts an element there.                          *)
LEMMA InsertAtIs ==
  ASSUME NEW S, NEW q \in Seq(S), NEW i \in DOMAIN q, NEW e \in S
  PROVE  InsertAt(q, i, e) \in Seq(S) /\ PutAt(q, InsertAt(q, i, e), i, e)
<1> DEFINE a == SubSeq(q, 1, i - 1)
           b == SubSeq(q, i, Len(q))
<1>1. Len(q) \in Nat /\ i \in 1 .. Len(q) /\ DOMAIN q = 1 .. Len(q)
  BY LenProperties
<1>2. \A j \in 1 .. i - 1 : q[j] \in S
  BY <1>1
<1>3. /\ a \in Seq(S) /\ Len(a) = i - 1
      /\ \A j \in 1 .. i - 1 : a[j] = q[j]
  <2>1. /\ SubSeq(q, 1, i - 1) \in Seq(S)
        /\ Len(SubSeq(q, 1, i - 1)) = IF 1 <= i - 1 THEN (i - 1) - 1 + 1 ELSE 0
        /\ \A j \in 1 .. (i - 1) - 1 + 1 : SubSeq(q, 1, i - 1)[j] = q[1 + j - 1]
    BY <1>1, <1>2, SubSeqProperties
  <2> QED
    BY <1>1, <2>1
<1>4. \A j \in i .. Len(q) : q[j] \in S
  BY <1>1
<1>5. /\ b \in Seq(S) /\ Len(b) = (Len(q) - i) + 1
      /\ \A j \in 1 .. (Len(q) - i) + 1 : b[j] = q[i + j - 1]
  <2>1. /\ SubSeq(q, i, Len(q)) \in Seq(S)
        /\ Len(SubSeq(q, i, Len(q)))
             = IF i <= Len(q) THEN Len(q) - i + 1 ELSE 0
        /\ \A j \in 1 .. Len(q) - i + 1 : SubSeq(q, i, Len(q))[j] = q[i + j - 1]
    BY <1>1, <1>4, SubSeqProperties
  <2> QED
    BY <1>1, <2>1
<1> HIDE DEF a, b
<1>6. <<e>> \in Seq(S) /\ Len(<<e>>) = 1 /\ <<e>>[1] = e
  <2>1. Len(<<e>>) = 1 /\ <<e>>[1] = e
    OBVIOUS
  <2>2. <<e>> \in Seq(S)
    OBVIOUS
  <2> QED
    BY <2>1, <2>2
<1>7. PICK c \in Seq(S) : c = a \o <<e>>
  BY <1>3, <1>6, ConcatProperties
<1>8. /\ Len(c) = i
      /\ \A j \in 1 .. i :
           c[j] = IF j <= i - 1 THEN a[j] ELSE <<e>>[j - (i - 1)]
  <2>1. /\ Len(a \o <<e>>) = Len(a) + Len(<<e>>)
        /\ \A j \in 1 .. Len(a) + Len(<<e>>) :
             (a \o <<e>>)[j] = IF j <= Len(a) THEN a[j] ELSE <<e>>[j - Len(a)]
    BY <1>3, <1>6, ConcatProperties
  <2>2. Len(a) + Len(<<e>>) = i
    BY <1>1, <1>3, <1>6
  <2> QED
    BY <1>3, <1>7, <2>1, <2>2
<1>9. /\ c[i] = e
      /\ \A j \in 1 .. i - 1 : c[j] = q[j]
  <2>1. i \in 1 .. i /\ ~(i <= i - 1) /\ i - (i - 1) = 1
    BY <1>1
  <2>2. c[i] = e
    BY <1>6, <1>8, <2>1
  <2>3. \A j \in 1 .. i - 1 : j \in 1 .. i /\ j <= i - 1
    BY <1>1
  <2> QED
    BY <1>3, <1>8, <2>2, <2>3
<1>10. /\ c \o b \in Seq(S)
       /\ Len(c \o b) = Len(c) + Len(b)
       /\ \A j \in 1 .. Len(c) + Len(b) :
            (c \o b)[j] = IF j <= Len(c) THEN c[j] ELSE b[j - Len(c)]
  <2>1. c \in Seq(S) /\ b \in Seq(S)
    BY <1>5, <1>7
  <2> QED
    BY <2>1, ConcatProperties
<1>11. PICK r \in Seq(S) : r = InsertAt(q, i, e) /\ r = c \o b
  BY <1>7, <1>10 DEF InsertAt, a, b
<1>12. Len(c) + Len(b) = Len(q) + 1
  BY <1>1, <1>5, <1>8
<1>13. DOMAIN r = 1 .. Len(q) + 1
  BY <1>10, <1>11, <1>12, LenProperties
<1>14. r[i] = e /\ i \in DOMAIN r
  <2>1. i \in 1 .. Len(c) + Len(b) /\ i <= Len(c)
    BY <1>1, <1>8, <1>12
  <2> QED
    BY <1>9, <1>10, <1>11, <1>12, <1>13, <2>1
<1>15. ASSUME NEW j \in DOMAIN q
       PROVE  Shift(i, j) \in DOMAIN r \ {i} /\ r[Shift(i, j)] = q[j]
  <2>1. CASE j < i
    <3>1. j \in 1 .. i - 1 /\ j <= Len(c) /\ j \in 1 .. Len(c) + Len(b)
      BY <1>1, <1>8, <1>12, <2>1
    <3>2. r[j] = q[j]
      BY <1>9, <1>10, <1>11, <3>1
    <3> QED
      BY <1>12, <1>13, <2>1, <3>1, <3>2 DEF Shift
  <2>2. CASE ~(j < i)
    <3>1. /\ j + 1 \in 1 .. Len(c) + Len(b) /\ ~(j + 1 <= Len(c)) /\ j + 1 # i
          /\ (j + 1) - Len(c) \in 1 .. (Len(q) - i) + 1
          /\ (i + ((j + 1) - Len(c))) - 1 = j
      <4>1. /\ Len(c) = i /\ Len(c) + Len(b) = Len(q) + 1
            /\ j \in Nat /\ i <= j /\ j <= Len(q) /\ i \in Nat
        BY <1>1, <1>8, <1>12, <2>2
      <4>2. j + 1 \in 1 .. Len(c) + Len(b) /\ ~(j + 1 <= Len(c)) /\ j + 1 # i
        BY <1>1, <4>1
      <4>3. (j + 1) - Len(c) \in 1 .. (Len(q) - i) + 1
        BY <1>1, <4>1
      <4>4. (i + ((j + 1) - Len(c))) - 1 = j
        BY <4>1
      <4> QED
        BY <4>2, <4>3, <4>4
    <3>2. r[j + 1] = b[(j + 1) - Len(c)]
      BY <1>10, <1>11, <3>1
    <3>3. b[(j + 1) - Len(c)] = q[j]
      <4>1. PICK k : k = (j + 1) - Len(c)
        OBVIOUS
      <4>2. k \in 1 .. (Len(q) - i) + 1 /\ (i + k) - 1 = j
        BY <3>1, <4>1
      <4>3. i + k - 1 = j
        BY <1>1, <1>8, <4>2
      <4>4. b[k] = q[i + k - 1]
        BY <1>5, <4>2
      <4> QED
        BY <4>1, <4>3, <4>4
    <3> QED
      BY <1>12, <1>13, <2>2, <3>1, <3>2, <3>3 DEF Shift
  <2> QED
    BY <2>1, <2>2
<1>16. ASSUME NEW k \in DOMAIN r, k # i
       PROVE  \E j \in DOMAIN q : k = Shift(i, j)
  <2>1. CASE k < i
    BY <1>1, <1>13, <2>1 DEF Shift
  <2>2. CASE ~(k < i)
    <3>1. k - 1 \in DOMAIN q /\ ~(k - 1 < i) /\ (k - 1) + 1 = k
      BY <1>1, <1>13, <1>16, <2>2
    <3> QED
      BY <3>1 DEF Shift
  <2> QED
    BY <2>1, <2>2
<1> QED
  BY <1>11, <1>14, <1>15, <1>16 DEF PutAt

\* e is inserted before the first position of I, or at the back.
Inserted(q, e, I) ==
  IF I = {} THEN Append(q, e) ELSE InsertAt(q, Min(I), e)

\* So it is put at position p.
PutBefore(q, new, p, e, I) ==
  /\ p \in 1 .. Len(q) + 1
  /\ PutAt(q, new, p, e)
  /\ \A j \in 1 .. Len(q) : j < p => j \notin I
  /\ p \in 1 .. Len(q) => p \in I

LEMMA InsertBeforeIs ==
  ASSUME NEW S, NEW q \in Seq(S), NEW e \in S, NEW I \in SUBSET (1 .. Len(q)),
         NEW new, new = Inserted(q, e, I)
  PROVE  /\ new \in Seq(S)
         /\ \E p : PutBefore(q, new, p, e, I)
<1>1. Len(q) \in Nat /\ DOMAIN q = 1 .. Len(q)
  BY LenProperties
<1>2. CASE I = {}
  <2>1. new = Append(q, e)
    BY <1>2 DEF Inserted
  <2>2. new \in Seq(S) /\ PutAt(q, new, Len(q) + 1, e)
    BY <2>1, AppendIs
  <2>3. Len(q) + 1 \in 1 .. Len(q) + 1 /\ Len(q) + 1 \notin 1 .. Len(q)
    BY <1>1
  <2> QED
    BY <1>2, <2>2, <2>3 DEF PutBefore
<1>3. CASE I # {}
  <2>1. PICK i \in I : i = Min(I) /\ \A j \in I : i <= j
    <3>1. I \in SUBSET Nat
      BY <1>1
    <3> QED
      BY <1>3, <3>1, LeastNat
  <2>2. i \in 1 .. Len(q) /\ i # 0 /\ i \in 1 .. Len(q) + 1
    BY <1>1, <2>1
  <2>3. new = InsertAt(q, i, e)
    BY <1>3, <2>1 DEF Inserted
  <2>4. new \in Seq(S) /\ PutAt(q, new, i, e)
    BY <1>1, <2>2, <2>3, InsertAtIs
  <2>5. \A j \in 1 .. Len(q) : j < i => j \notin I
    BY <1>1, <2>1
  <2> QED
    BY <2>1, <2>2, <2>4, <2>5 DEF PutBefore
<1> QED
  BY <1>2, <1>3

(* Where the three sorted insertions insert.                               *)
NotBefore(q, b) == {j \in 1 .. Len(q) : q[j].start >= b.start}
Larger(q, b) == {j \in 1 .. Len(q) : Size(b) < Size(q[j])}
NoLarger(q, b) == {j \in 1 .. Len(q) : Size(b) >= Size(q[j])}

LEMMA AscendingByAddressIs ==
  ASSUME NEW S, NEW q \in Seq(S), NEW b \in S,
         NEW new, new = list_add_ascending_by_address(q, b)
  PROVE  new \in Seq(S) /\ \E p : PutBefore(q, new, p, b, NotBefore(q, b))
<1>1. PICK I : I = NotBefore(q, b)
  OBVIOUS
<1>2. I \in SUBSET (1 .. Len(q))
  BY <1>1 DEF NotBefore
<1>3. new = Inserted(q, b, I)
  <2>1. PICK i : i = IF I # {} THEN Min(I) ELSE 0
    OBVIOUS
  <2>2. new = IF i = 0 THEN Append(q, b) ELSE InsertAt(q, i, b)
    BY <1>1, <2>1
    DEF list_add_ascending_by_address, InsertBefore, SelectInSeq, NotBefore
  <2>3. Len(q) \in Nat
    BY LenProperties
  <2>4. I # {} => Min(I) \in I
    <3>1. I \in SUBSET Nat
      BY <1>2, <2>3
    <3> QED
      BY <3>1, LeastNat
  <2>5. I # {} => i # 0
    BY <1>2, <2>1, <2>3, <2>4
  <2> QED
    BY <2>1, <2>2, <2>5 DEF Inserted
<1>4. new \in Seq(S) /\ \E p : PutBefore(q, new, p, b, I)
  BY <1>2, <1>3, InsertBeforeIs
<1> QED
  BY <1>1, <1>4

LEMMA AscendingBySizeIs ==
  ASSUME NEW S, NEW q \in Seq(S), NEW b \in S,
         NEW new, new = list_add_ascending_by_blocksize(q, b)
  PROVE  new \in Seq(S) /\ \E p : PutBefore(q, new, p, b, Larger(q, b))
<1>1. PICK I : I = Larger(q, b)
  OBVIOUS
<1>2. I \in SUBSET (1 .. Len(q))
  BY <1>1 DEF Larger
<1>3. new = Inserted(q, b, I)
  <2>1. PICK i : i = IF I # {} THEN Min(I) ELSE 0
    OBVIOUS
  <2>2. new = IF i = 0 THEN Append(q, b) ELSE InsertAt(q, i, b)
    BY <1>1, <2>1
    DEF list_add_ascending_by_blocksize, InsertBefore, SelectInSeq, Larger
  <2>3. Len(q) \in Nat
    BY LenProperties
  <2>4. I # {} => Min(I) \in I
    <3>1. I \in SUBSET Nat
      BY <1>2, <2>3
    <3> QED
      BY <3>1, LeastNat
  <2>5. I # {} => i # 0
    BY <1>2, <2>1, <2>3, <2>4
  <2> QED
    BY <2>1, <2>2, <2>5 DEF Inserted
<1>4. new \in Seq(S) /\ \E p : PutBefore(q, new, p, b, I)
  BY <1>2, <1>3, InsertBeforeIs
<1> QED
  BY <1>1, <1>4

LEMMA DescendingBySizeIs ==
  ASSUME NEW S, NEW q \in Seq(S), NEW b \in S,
         NEW new, new = list_add_descending_by_blocksize(q, b)
  PROVE  new \in Seq(S) /\ \E p : PutBefore(q, new, p, b, NoLarger(q, b))
<1>1. PICK I : I = NoLarger(q, b)
  OBVIOUS
<1>2. I \in SUBSET (1 .. Len(q))
  BY <1>1 DEF NoLarger
<1>3. new = Inserted(q, b, I)
  <2>1. PICK i : i = IF I # {} THEN Min(I) ELSE 0
    OBVIOUS
  <2>2. new = IF i = 0 THEN Append(q, b) ELSE InsertAt(q, i, b)
    BY <1>1, <2>1
    DEF list_add_descending_by_blocksize, InsertBefore, SelectInSeq, NoLarger
  <2>3. Len(q) \in Nat
    BY LenProperties
  <2>4. I # {} => Min(I) \in I
    <3>1. I \in SUBSET Nat
      BY <1>2, <2>3
    <3> QED
      BY <3>1, LeastNat
  <2>5. I # {} => i # 0
    BY <1>2, <2>1, <2>3, <2>4
  <2> QED
    BY <2>1, <2>2, <2>5 DEF Inserted
<1>4. new \in Seq(S) /\ \E p : PutBefore(q, new, p, b, I)
  BY <1>2, <1>3, InsertBeforeIs
<1> QED
  BY <1>1, <1>4

-----------------------------------------------------------------------------
(* The cells of a list of blocks                                           *)

\* Some block of the list holds address a.
Held(l, a) == \E i \in DOMAIN l : Holds(l[i], a)

\* No two blocks of the list hold the same address, and none is empty.
Separate(l) ==
  /\ \A i, j \in DOMAIN l, a \in Addresses :
       Holds(l[i], a) /\ Holds(l[j], a) => i = j
  /\ \A i \in DOMAIN l : l[i].start <= l[i].end

\* In the order R, a set of pairs of blocks.
Ordered(l, R) == \A i, j \in DOMAIN l : i < j => <<l[i], l[j]>> \in R

(* With a block put into it, a list holds that block's addresses also.     *)
LEMMA PutHeld ==
  ASSUME NEW old, NEW new, NEW p, NEW b, PutAt(old, new, p, b), NEW a
  PROVE  Held(new, a) <=> Held(old, a) \/ Holds(b, a)
BY DEF PutAt, Held

(* It stays separate if the block is of addresses that it did not hold.    *)
LEMMA PutSeparate ==
  ASSUME NEW old, NEW new, NEW p, NEW b, PutAt(old, new, p, b),
         Separate(old), b.start <= b.end,
         \A a \in Addresses : ~ (Held(old, a) /\ Holds(b, a))
  PROVE  Separate(new)
<1>1. ASSUME NEW i \in DOMAIN new, NEW j \in DOMAIN new, NEW a \in Addresses,
             Holds(new[i], a), Holds(new[j], a)
      PROVE  i = j
  <2>1. CASE i = p /\ j = p
    BY <2>1
  <2>2. CASE i = p /\ j # p
    BY <1>1, <2>2 DEF PutAt, Held
  <2>3. CASE i # p /\ j = p
    BY <1>1, <2>3 DEF PutAt, Held
  <2>4. CASE i # p /\ j # p
    <3>1. PICK k \in DOMAIN old : i = Shift(p, k)
      BY <2>4 DEF PutAt
    <3>2. PICK m \in DOMAIN old : j = Shift(p, m)
      BY <2>4 DEF PutAt
    <3>3. new[i] = old[k] /\ new[j] = old[m]
      BY <3>1, <3>2 DEF PutAt
    <3>4. k = m
      BY <1>1, <3>3 DEF Separate
    <3> QED
      BY <3>1, <3>2, <3>4
  <2> QED
    BY <2>1, <2>2, <2>3, <2>4
<1>2. ASSUME NEW i \in DOMAIN new
      PROVE  new[i].start <= new[i].end
  <2>1. CASE i = p
    BY <2>1 DEF PutAt
  <2>2. CASE i # p
    <3>1. PICK k \in DOMAIN old : i = Shift(p, k)
      BY <2>2 DEF PutAt
    <3> QED
      BY <3>1 DEF PutAt, Separate
  <2> QED
    BY <2>1, <2>2
<1> QED
  BY <1>1, <1>2 DEF Separate

(* Without the block that was put into it, it was separate too, and held   *)
(* nothing of that block.                                                  *)
LEMMA TakenSeparate ==
  ASSUME NEW S, NEW old \in Seq(S), NEW new, NEW p \in Nat, NEW b,
         PutAt(old, new, p, b), Separate(new)
  PROVE  /\ Separate(old)
         /\ b.start <= b.end
         /\ \A a \in Addresses : ~ (Held(old, a) /\ Holds(b, a))
<1>1. DOMAIN old \subseteq Nat
  BY LenProperties
<1>2. ASSUME NEW i \in DOMAIN old, NEW j \in DOMAIN old, NEW a \in Addresses,
             Holds(old[i], a), Holds(old[j], a)
      PROVE  i = j
  <2>1. /\ Shift(p, i) \in DOMAIN new /\ new[Shift(p, i)] = old[i]
        /\ Shift(p, j) \in DOMAIN new /\ new[Shift(p, j)] = old[j]
    BY DEF PutAt
  <2>2. Shift(p, i) = Shift(p, j)
    BY <1>2, <2>1 DEF Separate
  <2>3. i \in Nat /\ j \in Nat
    BY <1>1
  <2> QED
    BY <2>2, <2>3 DEF Shift
<1>3. \A i \in DOMAIN old : old[i].start <= old[i].end
  BY DEF PutAt, Separate
<1>4. ASSUME NEW a \in Addresses, Held(old, a), Holds(b, a)
      PROVE  FALSE
  <2>1. PICK i \in DOMAIN old : Holds(old[i], a)
    BY <1>4 DEF Held
  <2> QED
    BY <1>4, <2>1 DEF PutAt, Separate
<1>5. b.start <= b.end
  BY DEF PutAt, Separate
<1> QED
  BY <1>2, <1>3, <1>4, <1>5 DEF Separate

(* A list stays in order if the block is put where it belongs.             *)
LEMMA PutOrdered ==
  ASSUME NEW S, NEW old \in Seq(S), NEW new, NEW p \in Nat, NEW b,
         PutAt(old, new, p, b), NEW R, Ordered(old, R),
         \A j \in DOMAIN old : j < p => <<old[j], b>> \in R,
         \A j \in DOMAIN old : p <= j => <<b, old[j]>> \in R
  PROVE  Ordered(new, R)
<1>1. DOMAIN old \subseteq Nat
  BY LenProperties
<1> SUFFICES ASSUME NEW i \in DOMAIN new, NEW j \in DOMAIN new, i < j
             PROVE  <<new[i], new[j]>> \in R
  BY DEF Ordered
<1>2. i # p => \E k \in DOMAIN old : i = Shift(p, k) /\ new[i] = old[k]
  BY DEF PutAt
<1>3. j # p => \E k \in DOMAIN old : j = Shift(p, k) /\ new[j] = old[k]
  BY DEF PutAt
<1>4. new[p] = b
  BY DEF PutAt
<1>5. CASE i = p
  <2>1. PICK k \in DOMAIN old : j = Shift(p, k) /\ new[j] = old[k]
    BY <1>3, <1>5
  <2>2. p <= k
    BY <1>1, <1>5, <2>1 DEF Shift
  <2> QED
    BY <1>4, <1>5, <2>1, <2>2
<1>6. CASE j = p
  <2>1. PICK k \in DOMAIN old : i = Shift(p, k) /\ new[i] = old[k]
    BY <1>2, <1>6
  <2>2. k < p
    BY <1>1, <1>6, <2>1 DEF Shift
  <2> QED
    BY <1>4, <1>6, <2>1, <2>2
<1>7. CASE i # p /\ j # p
  <2>1. PICK k \in DOMAIN old : i = Shift(p, k) /\ new[i] = old[k]
    BY <1>2, <1>7
  <2>2. PICK m \in DOMAIN old : j = Shift(p, m) /\ new[j] = old[m]
    BY <1>3, <1>7
  <2>3. k < m
    BY <1>1, <2>1, <2>2 DEF Shift
  <2> QED
    BY <2>1, <2>2, <2>3 DEF Ordered
<1> QED
  BY <1>5, <1>6, <1>7

(* It was in order before.                                                 *)
LEMMA TakenOrdered ==
  ASSUME NEW S, NEW old \in Seq(S), NEW new, NEW p \in Nat, NEW b,
         PutAt(old, new, p, b), NEW R, Ordered(new, R)
  PROVE  Ordered(old, R)
<1>1. DOMAIN old \subseteq Nat
  BY LenProperties
<1> SUFFICES ASSUME NEW i \in DOMAIN old, NEW j \in DOMAIN old, i < j
             PROVE  <<old[i], old[j]>> \in R
  BY DEF Ordered
<1>2. /\ Shift(p, i) \in DOMAIN new /\ new[Shift(p, i)] = old[i]
      /\ Shift(p, j) \in DOMAIN new /\ new[Shift(p, j)] = old[j]
  BY DEF PutAt
<1>3. Shift(p, i) < Shift(p, j)
  BY <1>1 DEF Shift
<1> QED
  BY <1>2, <1>3 DEF Ordered

-----------------------------------------------------------------------------
(* Sorting and merging                                                     *)

FreeBlock == Blocks({0})

ByAddress == {x \in FreeBlock \X FreeBlock : x[1].start <= x[2].start}

\* Between a block and the next there is an address that neither holds.
Gapped(l) == \A i, j \in DOMAIN l : i < j => l[i].end + 1 < l[j].start

LEMMA BlockTypes ==
  ASSUME NEW P, NEW l \in Seq(Blocks(P)), NEW i \in DOMAIN l
  PROVE  /\ l[i] \in Blocks(P) /\ l[i].pid \in P
         /\ l[i].start \in Addresses /\ l[i].end \in Addresses
         /\ l[i].start \in Int /\ l[i].end \in Int
<1>1. l[i] \in Blocks(P)
  BY LenProperties, ElementOfSeq
<1>2. Addresses \subseteq Int
  BY MMUAssumption DEF Addresses
<1> QED
  BY <1>1, <1>2 DEF Blocks

(* Whatever a list of blocks holds is an address.                          *)
LEMMA HeldAddress ==
  ASSUME NEW b, b.start \in Addresses, b.end \in Addresses, NEW a, Holds(b, a)
  PROVE  a \in Addresses
BY MMUAssumption DEF Addresses, Holds

(* A block put into a sorted list by address leaves it sorted.             *)
LEMMA SortStep ==
  ASSUME NEW q \in Seq(FreeBlock), Separate(q), Ordered(q, ByAddress),
         NEW b \in FreeBlock, b.start <= b.end,
         \A a \in Addresses : ~ (Held(q, a) /\ Holds(b, a)),
         NEW new, new = list_add_ascending_by_address(q, b)
  PROVE  /\ new \in Seq(FreeBlock)
         /\ Separate(new)
         /\ Ordered(new, ByAddress)
         /\ \A a : Held(new, a) <=> Held(q, a) \/ Holds(b, a)
<1>0. new \in Seq(FreeBlock) /\ \E p : PutBefore(q, new, p, b, NotBefore(q, b))
  BY AscendingByAddressIs
<1>1. PICK p \in 1 .. Len(q) + 1 :
        /\ PutAt(q, new, p, b)
        /\ \A j \in 1 .. Len(q) : j < p => ~ (q[j].start >= b.start)
        /\ p \in 1 .. Len(q) => q[p].start >= b.start
  BY <1>0 DEF PutBefore, NotBefore
<1>2. /\ Len(q) \in Nat /\ DOMAIN q = 1 .. Len(q) /\ p \in Nat
      /\ new \in Seq(FreeBlock)
  BY <1>0, LenProperties
<1>3. /\ b.start \in Int
      /\ \A j \in DOMAIN q : q[j] \in FreeBlock /\ q[j].start \in Int
  <2>1. Addresses \subseteq Int
    BY MMUAssumption DEF Addresses
  <2> QED
    BY <2>1, BlockTypes DEF FreeBlock, Blocks
<1>4. ASSUME NEW j \in DOMAIN q, j < p
      PROVE  <<q[j], b>> \in ByAddress
  BY <1>1, <1>2, <1>3, <1>4 DEF ByAddress
<1>5. ASSUME NEW j \in DOMAIN q, p <= j
      PROVE  <<b, q[j]>> \in ByAddress
  <2>1. p \in DOMAIN q /\ b.start <= q[p].start
    BY <1>1, <1>2, <1>3, <1>5
  <2>2. q[p].start <= q[j].start
    <3>1. CASE p = j
      BY <1>3, <2>1, <3>1
    <3>2. CASE p # j
      <4>1. <<q[p], q[j]>> \in ByAddress
        BY <1>2, <1>5, <2>1, <3>2 DEF Ordered
      <4> QED
        BY <4>1 DEF ByAddress
    <3> QED
      BY <3>1, <3>2
  <2>3. b.start <= q[j].start
    BY <1>3, <2>1, <2>2
  <2> QED
    BY <1>3, <2>3 DEF ByAddress
<1>6. Ordered(new, ByAddress)
  BY <1>1, <1>2, <1>4, <1>5, PutOrdered
<1>7. Separate(new)
  BY <1>1, PutSeparate
<1> QED
  BY <1>1, <1>2, <1>6, <1>7, PutHeld

(* Blocks with gaps between them are separate.                             *)
LEMMA GappedSeparate ==
  ASSUME NEW l \in Seq(FreeBlock), Gapped(l),
         \A i \in DOMAIN l : l[i].start <= l[i].end
  PROVE  Separate(l)
<1>1. DOMAIN l \subseteq Nat
  BY LenProperties
<1>2. ASSUME NEW i \in DOMAIN l, NEW j \in DOMAIN l, NEW a \in Addresses,
             Holds(l[i], a), Holds(l[j], a), i < j
      PROVE  FALSE
  <2>1. l[i].end \in Int /\ l[j].start \in Int /\ a \in Int
    BY MMUAssumption, BlockTypes DEF FreeBlock, Addresses
  <2>2. a <= l[i].end /\ l[j].start <= a /\ l[i].end + 1 < l[j].start
    BY <1>2 DEF Holds, Gapped
  <2> QED
    BY <2>1, <2>2
<1>3. \A i, j \in DOMAIN l : i = j \/ i < j \/ j < i
  BY <1>1
<1> QED
  BY <1>2, <1>3 DEF Separate

SetEnd(l, i, e) == [l EXCEPT ![i].end = e]

LEMMA SetEndIs ==
  ASSUME NEW l \in Seq(FreeBlock), NEW i \in DOMAIN l, NEW e \in Addresses,
         NEW new, new = SetEnd(l, i, e)
  PROVE  /\ new \in Seq(FreeBlock)
         /\ DOMAIN new = DOMAIN l
         /\ new[i].start = l[i].start /\ new[i].end = e
         /\ \A j \in DOMAIN l : j # i => new[j] = l[j]
<1>1. DOMAIN l = 1 .. Len(l)
  BY LenProperties
<1>2. l[i] \in FreeBlock
  BY BlockTypes DEF FreeBlock
<1>3. PICK b \in FreeBlock : b = [l[i] EXCEPT !.end = e]
  BY <1>2 DEF FreeBlock, Blocks
<1>4. new = [l EXCEPT ![i] = b]
  BY <1>3 DEF SetEnd
<1>5. /\ new \in Seq(FreeBlock)
      /\ Len(new) = Len(l)
      /\ \A j \in 1 .. Len(l) : new[j] = IF j = i THEN b ELSE l[j]
  <2>1. i \in 1 .. Len(l)
    BY <1>1
  <2>2. /\ [l EXCEPT ![i] = b] \in Seq(FreeBlock)
        /\ Len([l EXCEPT ![i] = b]) = Len(l)
        /\ \A j \in 1 .. Len(l) :
             [l EXCEPT ![i] = b][j] = IF j = i THEN b ELSE l[j]
    BY <2>1, ExceptSeq
  <2> QED
    BY <1>4, <2>2
<1>6. DOMAIN new = DOMAIN l
  BY <1>1, <1>5, LenProperties
<1>7. b.start = l[i].start /\ b.end = e
  BY <1>2, <1>3 DEF FreeBlock, Blocks
<1> QED
  BY <1>1, <1>5, <1>6, <1>7

LEMMA MergeCases ==
  ASSUME NEW q \in Seq(FreeBlock), NEW b \in FreeBlock,
         NEW new, new = Merge(q, b)
  PROVE  \/ new = Append(q, b) /\ (q = << >> \/ q[Len(q)].end + 1 # b.start)
         \/ /\ Len(q) \in DOMAIN q /\ q[Len(q)].end + 1 = b.start
            /\ new = SetEnd(q, Len(q), b.end)
<1>1. q # << >> => Len(q) \in DOMAIN q
  BY EmptySeq, LenProperties
<1> QED
  BY <1>1 DEF Merge, SetEnd, Last

(* Merging the next block into a list with gaps leaves gaps, and loses no  *)
(* address.                                                                *)
LEMMA MergeStep ==
  ASSUME NEW q \in Seq(FreeBlock), Separate(q), Gapped(q),
         NEW b \in FreeBlock, b.start <= b.end,
         \A a : Held(q, a) => a < b.start,
         NEW new, new = Merge(q, b)
  PROVE  /\ new \in Seq(FreeBlock)
         /\ Separate(new)
         /\ Gapped(new)
         /\ \A a : Held(new, a) <=> Held(q, a) \/ Holds(b, a)
<1>1. Len(q) \in Nat /\ DOMAIN q = 1 .. Len(q)
  BY LenProperties
<1>2. /\ b.start \in Int /\ b.end \in Int /\ b.end \in Addresses
      /\ \A i \in DOMAIN q : q[i].start \in Int /\ q[i].end \in Int
  <2>1. Addresses \subseteq Int
    BY MMUAssumption DEF Addresses
  <2> QED
    BY <2>1, BlockTypes DEF FreeBlock, Blocks
<1>3. \A i \in DOMAIN q : q[i].start <= q[i].end
  BY DEF Separate
<1>4. ASSUME NEW i \in DOMAIN q
      PROVE  q[i].end < b.start
  <2>1. Holds(q[i], q[i].end)
    BY <1>2, <1>3 DEF Holds
  <2> QED
    BY <2>1 DEF Held
<1>5. CASE new = Append(q, b) /\ (q = << >> \/ q[Len(q)].end + 1 # b.start)
  <2>1. new \in Seq(FreeBlock) /\ PutAt(q, new, Len(q) + 1, b)
    BY <1>5, AppendIs
  <2>2. \A a \in Addresses : ~ (Held(q, a) /\ Holds(b, a))
    <3> SUFFICES ASSUME NEW a \in Addresses, Held(q, a), Holds(b, a)
                 PROVE  FALSE
      OBVIOUS
    <3>1. a \in Int /\ a < b.start /\ b.start <= a
      BY MMUAssumption DEF Holds, Addresses
    <3> QED
      BY <1>2, <3>1
  <2>3. Separate(new)
    BY <2>1, <2>2, PutSeparate
  <2>4. ASSUME NEW i \in DOMAIN q
        PROVE  q[i].end + 1 < b.start
    <3>1. Len(q) \in DOMAIN q /\ q[Len(q)].end + 1 < b.start
      <4>1. Len(q) \in DOMAIN q /\ q # << >>
        BY <1>1, EmptySeq
      <4>2. q[Len(q)].end < b.start /\ q[Len(q)].end + 1 # b.start
        BY <1>4, <1>5, <4>1
      <4> QED
        BY <1>2, <4>1, <4>2
    <3>2. CASE i = Len(q)
      BY <3>1, <3>2
    <3>3. CASE i # Len(q)
      <4>1. i < Len(q)
        BY <1>1, <3>3
      <4>2. q[i].end + 1 < q[Len(q)].start
        BY <3>1, <4>1 DEF Gapped
      <4>3. q[Len(q)].start <= q[Len(q)].end
        BY <1>3, <3>1
      <4> QED
        BY <1>2, <3>1, <4>2, <4>3
    <3> QED
      BY <3>2, <3>3
  <2>5. ASSUME NEW i \in DOMAIN new, NEW j \in DOMAIN new, i < j
        PROVE  new[i].end + 1 < new[j].start
    <3>1. DOMAIN new \subseteq Nat
      BY <2>1, LenProperties
    <3>2. ASSUME NEW k \in DOMAIN new, k # Len(q) + 1
          PROVE  k \in DOMAIN q /\ new[k] = q[k]
      <4>1. PICK m \in DOMAIN q : k = Shift(Len(q) + 1, m)
        BY <2>1, <3>2 DEF PutAt
      <4>2. m < Len(q) + 1
        BY <1>1
      <4> QED
        BY <2>1, <4>1, <4>2 DEF PutAt, Shift
    <3>3. CASE j = Len(q) + 1
      <4>1. i # Len(q) + 1 /\ new[j] = b
        BY <1>1, <2>1, <2>5, <3>1, <3>3 DEF PutAt
      <4> QED
        BY <2>4, <3>2, <4>1
    <3>4. CASE j # Len(q) + 1
      <4>1. j \in DOMAIN q /\ new[j] = q[j]
        BY <3>2, <3>4
      <4>2. i # Len(q) + 1
        BY <1>1, <2>5, <3>1, <4>1
      <4>3. i \in DOMAIN q /\ new[i] = q[i]
        BY <3>2, <4>2
      <4> QED
        BY <2>5, <4>1, <4>3 DEF Gapped
    <3> QED
      BY <3>3, <3>4
  <2>6. \A a : Held(new, a) <=> Held(q, a) \/ Holds(b, a)
    BY <2>1, PutHeld
  <2> QED
    BY <2>1, <2>3, <2>5, <2>6 DEF Gapped
<1>6. CASE /\ Len(q) \in DOMAIN q /\ q[Len(q)].end + 1 = b.start
           /\ new = SetEnd(q, Len(q), b.end)
  <2>1. PICK z \in DOMAIN q : z = Len(q)
    BY <1>6
  <2>2. /\ new \in Seq(FreeBlock) /\ DOMAIN new = DOMAIN q
        /\ new[z].start = q[z].start /\ new[z].end = b.end
        /\ \A j \in DOMAIN q : j # z => new[j] = q[j]
    BY <1>2, <1>6, <2>1, SetEndIs
  <2>3. q[z].end + 1 = b.start /\ q[z].start <= q[z].end
    BY <1>3, <1>6, <2>1
  <2>4. \A i \in DOMAIN new : new[i].start <= new[i].end
    BY <1>2, <1>3, <2>2, <2>3
  <2>5. ASSUME NEW i \in DOMAIN new, NEW j \in DOMAIN new, i < j
        PROVE  new[i].end + 1 < new[j].start
    <3>1. i # z
      BY <1>1, <2>1, <2>2, <2>5
    <3>2. new[i] = q[i] /\ new[j].start = q[j].start
      BY <2>2, <3>1
    <3> QED
      BY <2>2, <2>5, <3>2 DEF Gapped
  <2>6. Gapped(new)
    BY <2>5 DEF Gapped
  <2>7. Separate(new)
    BY <2>2, <2>4, <2>6, GappedSeparate
  <2>8. ASSUME NEW a
        PROVE  Holds(new[z], a) <=> Holds(q[z], a) \/ Holds(b, a)
    <3>1. a \in Int => (a <= q[z].end \/ b.start <= a)
      BY <1>2, <2>3
    <3> QED
      BY <1>2, <2>2, <2>3, <3>1 DEF Holds
  <2>9. \A a : Held(new, a) <=> Held(q, a) \/ Holds(b, a)
    BY <2>2, <2>8 DEF Held
  <2> QED
    BY <2>2, <2>6, <2>7, <2>9
<1> QED
  BY <1>5, <1>6, MergeCases

-----------------------------------------------------------------------------
(* What coalescing makes of the free list                                  *)

\* After n elements of l: what sorting has reached, and what merging has.
SortedSoFar(s, l, n) ==
  /\ s \in Seq(FreeBlock) /\ Separate(s) /\ Ordered(s, ByAddress)
  /\ \A a : Held(s, a) <=> \E i \in 1 .. n : Holds(l[i], a)
MergedSoFar(s, l, n) ==
  /\ s \in Seq(FreeBlock) /\ Separate(s) /\ Gapped(s)
  /\ \A a : Held(s, a) <=> \E i \in 1 .. n : Holds(l[i], a)

LEMMA SortIs ==
  ASSUME NEW l \in Seq(FreeBlock), Separate(l),
         NEW new, new = FoldLeft(list_add_ascending_by_address, << >>, l)
  PROVE  SortedSoFar(new, l, Len(l))
<1>1. PICK n \in Nat : n = Len(l) /\ DOMAIN l = 1 .. n
  BY LenProperties
<1>2. \A i \in 1 .. n : l[i] \in FreeBlock
  BY <1>1, BlockTypes DEF FreeBlock
<1>3. PICK r : /\ r[0] = << >>
               /\ \A j \in 1 .. n :
                    r[j] = list_add_ascending_by_address(r[j - 1], l[j])
               /\ r[n] = new
  <2>1. << >> \in Seq(FreeBlock)
    BY EmptySeq
  <2>2. ASSUME NEW d \in Seq(FreeBlock), NEW j \in 1 .. n
        PROVE  list_add_ascending_by_address(d, l[j]) \in Seq(FreeBlock)
    BY <1>2, AscendingByAddressIs
  <2>3. \A d \in Seq(FreeBlock), j \in 1 .. n :
          list_add_ascending_by_address(d, l[j]) \in Seq(FreeBlock)
    BY <2>2
  <2>4. PICK D : D = Seq(FreeBlock)
    OBVIOUS
  <2>5. /\ << >> \in D
        /\ \A d \in D, j \in 1 .. n :
             list_add_ascending_by_address(d, l[j]) \in D
    BY <2>1, <2>3, <2>4
  <2>6. \E r : SortRun(r, l, n)
    BY <1>1, <2>5, SortSteps
  <2> QED
    BY <2>6 DEF SortRun
<1>4. SortedSoFar(r[0], l, 0)
  <2>1. DOMAIN << >> = {} /\ 1 .. 0 = {}
    OBVIOUS
  <2> QED
    BY <1>3, <2>1, EmptySeq DEF SortedSoFar, Separate, Ordered, Held
<1>5. ASSUME NEW j \in 1 .. n, SortedSoFar(r[j - 1], l, j - 1)
      PROVE  SortedSoFar(r[j], l, j)
  <2>1. PICK q, b : q = r[j - 1] /\ b = l[j]
    OBVIOUS
  <2>2. /\ q \in Seq(FreeBlock) /\ Separate(q) /\ Ordered(q, ByAddress)
        /\ \A a : Held(q, a) <=> \E i \in 1 .. j - 1 : Holds(l[i], a)
    BY <1>5, <2>1 DEF SortedSoFar
  <2>3. b \in FreeBlock /\ b.start <= b.end
    BY <1>1, <1>2, <2>1 DEF Separate
  <2>4. ASSUME NEW a \in Addresses, Held(q, a), Holds(b, a)
        PROVE  FALSE
    <3>1. PICK i \in 1 .. j - 1 : Holds(l[i], a)
      BY <2>2, <2>4
    <3>2. i \in DOMAIN l /\ j \in DOMAIN l /\ i # j
      BY <1>1
    <3> QED
      BY <2>1, <2>4, <3>1, <3>2 DEF Separate
  <2>5. PICK x : x = list_add_ascending_by_address(q, b)
    OBVIOUS
  <2>6. /\ x \in Seq(FreeBlock) /\ Separate(x) /\ Ordered(x, ByAddress)
        /\ \A a : Held(x, a) <=> Held(q, a) \/ Holds(b, a)
    BY <2>2, <2>3, <2>4, <2>5, SortStep
  <2>7. x = r[j]
    BY <1>3, <2>1, <2>5
  <2>8. ASSUME NEW a
        PROVE  (\E i \in 1 .. j : Holds(l[i], a))
                 <=> (\E i \in 1 .. j - 1 : Holds(l[i], a)) \/ Holds(l[j], a)
    <3>1. \A i : i \in 1 .. j <=> i \in 1 .. j - 1 \/ i = j
      BY <1>1
    <3> QED
      BY <3>1
  <2> QED
    BY <2>1, <2>2, <2>6, <2>7, <2>8 DEF SortedSoFar
<1> DEFINE T == {j \in 0 .. n : ~ SortedSoFar(r[j], l, j)}
<1>6. ASSUME T # {}
      PROVE  FALSE
  <2>1. PICK m \in T : \A k \in T : m <= k
    <3>1. T \in SUBSET Nat
      OBVIOUS
    <3> HIDE DEF T
    <3> QED
      BY <1>6, <3>1, LeastNat
  <2>2. m \in 1 .. n /\ m - 1 \in 0 .. n /\ ~ (m <= m - 1)
    BY <1>4
  <2>3. SortedSoFar(r[m - 1], l, m - 1)
    BY <2>1, <2>2
  <2> QED
    BY <1>5, <2>2, <2>3
<1>7. SortedSoFar(r[n], l, n)
  <2>1. n \in 0 .. n
    OBVIOUS
  <2> QED
    BY <1>6, <2>1
<1> QED
  BY <1>1, <1>3, <1>7

LEMMA MergeTypes ==
  ASSUME NEW q \in Seq(FreeBlock), NEW b \in FreeBlock
  PROVE  Merge(q, b) \in Seq(FreeBlock)
<1>1. PICK new : new = Merge(q, b)
  OBVIOUS
<1>2. CASE new = Append(q, b)
  BY <1>1, <1>2, AppendIs
<1>3. CASE Len(q) \in DOMAIN q /\ new = SetEnd(q, Len(q), b.end)
  <2>1. b.end \in Addresses
    BY DEF FreeBlock, Blocks
  <2> QED
    BY <1>1, <1>3, <2>1, SetEndIs
<1> QED
  BY <1>1, <1>2, <1>3, MergeCases

LEMMA MergeIs ==
  ASSUME NEW l \in Seq(FreeBlock), Separate(l), Ordered(l, ByAddress),
         NEW new, new = list_coalese_nodes(l)
  PROVE  MergedSoFar(new, l, Len(l))
<1>1. PICK n \in Nat : n = Len(l) /\ DOMAIN l = 1 .. n
  BY LenProperties
<1>2. \A i \in 1 .. n : l[i] \in FreeBlock
  BY <1>1, BlockTypes DEF FreeBlock
<1>3. PICK r : /\ r[0] = << >>
               /\ \A j \in 1 .. n : r[j] = Merge(r[j - 1], l[j])
               /\ r[n] = new
  <2>1. << >> \in Seq(FreeBlock)
    BY EmptySeq
  <2>2. ASSUME NEW d \in Seq(FreeBlock), NEW j \in 1 .. n
        PROVE  Merge(d, l[j]) \in Seq(FreeBlock)
    BY <1>2, MergeTypes
  <2>3. \A d \in Seq(FreeBlock), j \in 1 .. n :
          Merge(d, l[j]) \in Seq(FreeBlock)
    BY <2>2
  <2>4. PICK D : D = Seq(FreeBlock)
    OBVIOUS
  <2>5. << >> \in D /\ \A d \in D, j \in 1 .. n : Merge(d, l[j]) \in D
    BY <2>1, <2>3, <2>4
  <2>6. \E r : MergeRun(r, l, n)
    BY <1>1, <2>5, MergeSteps
  <2> QED
    BY <2>6 DEF MergeRun
<1>4. MergedSoFar(r[0], l, 0)
  <2>1. DOMAIN << >> = {} /\ 1 .. 0 = {}
    OBVIOUS
  <2> QED
    BY <1>3, <2>1, EmptySeq DEF MergedSoFar, Separate, Gapped, Held
<1>5. ASSUME NEW j \in 1 .. n, MergedSoFar(r[j - 1], l, j - 1)
      PROVE  MergedSoFar(r[j], l, j)
  <2>1. PICK q, b : q = r[j - 1] /\ b = l[j]
    OBVIOUS
  <2>2. /\ q \in Seq(FreeBlock) /\ Separate(q) /\ Gapped(q)
        /\ \A a : Held(q, a) <=> \E i \in 1 .. j - 1 : Holds(l[i], a)
    BY <1>5, <2>1 DEF MergedSoFar
  <2>3. b \in FreeBlock /\ b.start <= b.end
    BY <1>1, <1>2, <2>1 DEF Separate
  <2>4. ASSUME NEW a, Held(q, a)
        PROVE  a < b.start
    <3>1. PICK i \in 1 .. j - 1 : Holds(l[i], a)
      BY <2>2, <2>4
    <3>2. i \in DOMAIN l /\ j \in DOMAIN l /\ i < j
      BY <1>1
    <3>3. /\ l[i].start \in Int /\ l[i].end \in Int
          /\ l[j].start \in Int /\ l[j].end \in Int
          /\ l[j].start \in Addresses
      BY <3>2, BlockTypes DEF FreeBlock
    <3>4. l[i].start <= l[j].start /\ l[j].start <= l[j].end
      BY <3>2 DEF Ordered, ByAddress, Separate
    <3>5. Holds(l[j], l[j].start) /\ ~ Holds(l[i], l[j].start)
      BY <3>2, <3>3, <3>4 DEF Separate, Holds
    <3> QED
      BY <2>1, <3>1, <3>3, <3>4, <3>5 DEF Holds
  <2>5. PICK x : x = Merge(q, b)
    OBVIOUS
  <2>6. /\ x \in Seq(FreeBlock) /\ Separate(x) /\ Gapped(x)
        /\ \A a : Held(x, a) <=> Held(q, a) \/ Holds(b, a)
    BY <2>2, <2>3, <2>4, <2>5, MergeStep
  <2>7. x = r[j]
    BY <1>3, <2>1, <2>5
  <2>8. ASSUME NEW a
        PROVE  (\E i \in 1 .. j : Holds(l[i], a))
                 <=> (\E i \in 1 .. j - 1 : Holds(l[i], a)) \/ Holds(l[j], a)
    <3>1. \A i : i \in 1 .. j <=> i \in 1 .. j - 1 \/ i = j
      BY <1>1
    <3> QED
      BY <3>1
  <2> QED
    BY <2>1, <2>2, <2>6, <2>7, <2>8 DEF MergedSoFar
<1> DEFINE T == {j \in 0 .. n : ~ MergedSoFar(r[j], l, j)}
<1>6. ASSUME T # {}
      PROVE  FALSE
  <2>1. PICK m \in T : \A k \in T : m <= k
    <3>1. T \in SUBSET Nat
      OBVIOUS
    <3> HIDE DEF T
    <3> QED
      BY <1>6, <3>1, LeastNat
  <2>2. m \in 1 .. n /\ m - 1 \in 0 .. n /\ ~ (m <= m - 1)
    BY <1>4
  <2>3. MergedSoFar(r[m - 1], l, m - 1)
    BY <2>1, <2>2
  <2> QED
    BY <1>5, <2>2, <2>3
<1>7. MergedSoFar(r[n], l, n)
  <2>1. n \in 0 .. n
    OBVIOUS
  <2> QED
    BY <1>6, <2>1
<1> QED
  BY <1>1, <1>3, <1>7

(* Coalescing leaves gaps between the blocks and loses no address.         *)
LEMMA CoalesceIs ==
  ASSUME NEW l \in Seq(FreeBlock), Separate(l),
         NEW new, new = list_coalese_nodes(
                          FoldLeft(list_add_ascending_by_address, << >>, l))
  PROVE  /\ new \in Seq(FreeBlock) /\ Separate(new) /\ Gapped(new)
         /\ \A a : Held(new, a) <=> Held(l, a)
<1>1. PICK s : s = FoldLeft(list_add_ascending_by_address, << >>, l)
  OBVIOUS
<1>2. SortedSoFar(s, l, Len(l))
  BY <1>1, SortIs
<1>3. MergedSoFar(new, s, Len(s))
  BY <1>1, <1>2, MergeIs DEF SortedSoFar
<1>4. DOMAIN l = 1 .. Len(l) /\ DOMAIN s = 1 .. Len(s)
  BY <1>2, LenProperties DEF SortedSoFar
<1>5. \A a : Held(s, a) <=> Held(l, a)
  BY <1>2, <1>4 DEF SortedSoFar, Held
<1>6. \A a : Held(new, a) <=> Held(s, a)
  BY <1>3, <1>4 DEF MergedSoFar, Held
<1> QED
  BY <1>3, <1>5, <1>6 DEF MergedSoFar

-----------------------------------------------------------------------------
(* The inductive invariant                                                 *)

SmallerFirst == {x \in FreeBlock \X FreeBlock : Size(x[1]) <= Size(x[2])}
LargerFirst == {x \in FreeBlock \X FreeBlock : Size(x[2]) <= Size(x[1])}

\* The order in which the policy keeps the free list.
FreeInOrder(l) ==
  /\ policy = BESTFIT => Ordered(l, SmallerFirst)
  /\ policy = WORSTFIT => Ordered(l, LargerFirst)

Inv ==
  /\ TypeOK
  /\ Separate(FREE_LIST) /\ Separate(ALLOC_LIST)
  /\ \A a \in Addresses : Held(FREE_LIST, a) <=> ~ Held(ALLOC_LIST, a)
  /\ ~ coalesced => FreeInOrder(FREE_LIST)

(* The first block that is large enough, if there is one.                  *)
LEMMA IndexBySize ==
  ASSUME NEW S, NEW l \in Seq(S), NEW size,
         NEW i, i = list_get_index_of_by_Size(l, size)
  PROVE  /\ i = 0 => \A j \in DOMAIN l : ~ (size <= Size(l[j]))
         /\ i # 0 => /\ i \in DOMAIN l /\ size <= Size(l[i])
                     /\ \A j \in DOMAIN l : j < i => ~ (size <= Size(l[j]))
<1>1. DOMAIN l = 1 .. Len(l) /\ Len(l) \in Nat
  BY LenProperties
<1>2. PICK I : I = {j \in 1 .. Len(l) : size <= Size(l[j])}
  OBVIOUS
<1>3. i = IF I # {} THEN Min(I) ELSE 0
  BY <1>2 DEF list_get_index_of_by_Size, SelectInSeq
<1>4. I \in SUBSET Nat /\ 0 \notin I
  BY <1>1, <1>2
<1>5. I # {} => Min(I) \in I /\ \A y \in I : Min(I) <= y
  BY <1>4, LeastNat
<1>6. CASE I = {}
  BY <1>1, <1>2, <1>3, <1>6
<1>7. CASE I # {}
  <2>1. i \in I /\ i # 0 /\ \A y \in I : i <= y
    BY <1>3, <1>4, <1>5, <1>7
  <2>2. \A j \in DOMAIN l : j < i => j \notin I
    BY <1>1, <1>4, <2>1
  <2> QED
    BY <1>1, <1>2, <2>1, <2>2
<1> QED
  BY <1>6, <1>7

(* The first block of a process, if it has one.                            *)
LEMMA IndexByPid ==
  ASSUME NEW S, NEW l \in Seq(S), NEW pid,
         list_get_index_of_by_Pid(l, pid) # 0
  PROVE  list_get_index_of_by_Pid(l, pid) \in DOMAIN l
<1>1. DOMAIN l = 1 .. Len(l) /\ Len(l) \in Nat
  BY LenProperties
<1>2. PICK I : I = {j \in 1 .. Len(l) : l[j].pid = pid}
  OBVIOUS
<1>3. list_get_index_of_by_Pid(l, pid) = IF I # {} THEN Min(I) ELSE 0
  BY <1>2 DEF list_get_index_of_by_Pid, SelectInSeq
<1>4. I \in SUBSET Nat
  BY <1>1, <1>2
<1> QED
  BY <1>1, <1>2, <1>3, <1>4, LeastNat

LEMMA SizeInt ==
  ASSUME NEW P, NEW b \in Blocks(P)
  PROVE  Size(b) \in Int /\ b.start \in Int /\ b.end \in Int
<1>1. Addresses \subseteq Int
  BY MMUAssumption DEF Addresses
<1>2. b.start \in Int /\ b.end \in Int
  BY <1>1 DEF Blocks
<1> QED
  BY <1>2 DEF Size

(* A free block is put into the free list where the policy wants it.       *)
LEMMA AddFreeIs ==
  ASSUME policy \in {FIFO, BESTFIT, WORSTFIT},
         NEW q \in Seq(FreeBlock), NEW b \in FreeBlock,
         NEW new, new = AddFree(q, b)
  PROVE  /\ new \in Seq(FreeBlock)
         /\ \E p \in Nat : PutAt(q, new, p, b)
         /\ FreeInOrder(q) => FreeInOrder(new)
<1>1. Len(q) \in Nat /\ DOMAIN q = 1 .. Len(q)
  BY LenProperties
<1>2. /\ Size(b) \in Int
      /\ \A j \in DOMAIN q : q[j] \in FreeBlock /\ Size(q[j]) \in Int
  BY BlockTypes, SizeInt DEF FreeBlock
<1>3. CASE policy = FIFO
  <2>1. new = Append(q, b)
    BY <1>3 DEF AddFree, FIFO, BESTFIT, WORSTFIT
  <2>2. new \in Seq(FreeBlock) /\ PutAt(q, new, Len(q) + 1, b)
    BY <2>1, AppendIs
  <2>3. Len(q) + 1 \in Nat
    BY <1>1
  <2> QED
    BY <1>3, <2>2, <2>3 DEF FreeInOrder, FIFO, BESTFIT, WORSTFIT
<1>4. CASE policy = BESTFIT
  <2>1. new = list_add_ascending_by_blocksize(q, b)
    BY <1>4 DEF AddFree, FIFO, BESTFIT, WORSTFIT
  <2>2. /\ new \in Seq(FreeBlock)
        /\ \E p : PutBefore(q, new, p, b, Larger(q, b))
    BY <2>1, AscendingBySizeIs
  <2>3. PICK p : PutBefore(q, new, p, b, Larger(q, b))
    BY <2>2
  <2>4. /\ p \in Nat /\ PutAt(q, new, p, b)
        /\ \A j \in DOMAIN q : j < p => Size(q[j]) <= Size(b)
        /\ p \in DOMAIN q => Size(b) <= Size(q[p])
        /\ \A j \in DOMAIN q : p <= j => p \in DOMAIN q
    <3>1. p \in Nat /\ PutAt(q, new, p, b) /\ 1 <= p
      BY <1>1, <2>3 DEF PutBefore
    <3>2. \A j \in DOMAIN q : j < p => ~ (Size(b) < Size(q[j]))
      BY <1>1, <2>3 DEF PutBefore, Larger
    <3>3. p \in DOMAIN q => Size(b) < Size(q[p])
      BY <1>1, <2>3 DEF PutBefore, Larger
    <3>4. \A j \in DOMAIN q : p <= j => p \in DOMAIN q
      BY <1>1, <3>1
    <3> QED
      BY <1>2, <3>1, <3>2, <3>3, <3>4
  <2>5. ASSUME Ordered(q, SmallerFirst)
        PROVE  Ordered(new, SmallerFirst)
    <3>1. \A j \in DOMAIN q : j < p => <<q[j], b>> \in SmallerFirst
      BY <1>2, <2>4 DEF SmallerFirst
    <3>2. ASSUME NEW j \in DOMAIN q, p <= j
          PROVE  <<b, q[j]>> \in SmallerFirst
      <4>1. p \in DOMAIN q /\ Size(b) <= Size(q[p])
        BY <2>4, <3>2
      <4>2. Size(q[p]) <= Size(q[j])
        <5>1. CASE p = j
          BY <1>2, <5>1
        <5>2. CASE p # j
          <6>1. p < j
            BY <1>1, <2>4, <3>2, <5>2
          <6>2. <<q[p], q[j]>> \in SmallerFirst
            BY <2>5, <4>1, <6>1 DEF Ordered
          <6> QED
            BY <6>2 DEF SmallerFirst
        <5> QED
          BY <5>1, <5>2
      <4>3. Size(b) <= Size(q[j])
        BY <1>2, <4>1, <4>2
      <4> QED
        BY <1>2, <4>3 DEF SmallerFirst
    <3> QED
      BY <2>4, <2>5, <3>1, <3>2, PutOrdered
  <2> QED
    BY <1>4, <2>2, <2>4, <2>5 DEF FreeInOrder, BESTFIT, WORSTFIT
<1>5. CASE policy = WORSTFIT
  <2>1. new = list_add_descending_by_blocksize(q, b)
    BY <1>5 DEF AddFree, FIFO, BESTFIT, WORSTFIT
  <2>2. /\ new \in Seq(FreeBlock)
        /\ \E p : PutBefore(q, new, p, b, NoLarger(q, b))
    BY <2>1, DescendingBySizeIs
  <2>3. PICK p : PutBefore(q, new, p, b, NoLarger(q, b))
    BY <2>2
  <2>4. /\ p \in Nat /\ PutAt(q, new, p, b)
        /\ \A j \in DOMAIN q : j < p => Size(b) <= Size(q[j])
        /\ p \in DOMAIN q => Size(q[p]) <= Size(b)
        /\ \A j \in DOMAIN q : p <= j => p \in DOMAIN q
    <3>1. p \in Nat /\ PutAt(q, new, p, b) /\ 1 <= p
      BY <1>1, <2>3 DEF PutBefore
    <3>2. \A j \in DOMAIN q : j < p => ~ (Size(b) >= Size(q[j]))
      BY <1>1, <2>3 DEF PutBefore, NoLarger
    <3>3. p \in DOMAIN q => Size(b) >= Size(q[p])
      BY <1>1, <2>3 DEF PutBefore, NoLarger
    <3>4. \A j \in DOMAIN q : p <= j => p \in DOMAIN q
      BY <1>1, <3>1
    <3> QED
      BY <1>2, <3>1, <3>2, <3>3, <3>4
  <2>5. ASSUME Ordered(q, LargerFirst)
        PROVE  Ordered(new, LargerFirst)
    <3>1. \A j \in DOMAIN q : j < p => <<q[j], b>> \in LargerFirst
      BY <1>2, <2>4 DEF LargerFirst
    <3>2. ASSUME NEW j \in DOMAIN q, p <= j
          PROVE  <<b, q[j]>> \in LargerFirst
      <4>1. p \in DOMAIN q /\ Size(q[p]) <= Size(b)
        BY <2>4, <3>2
      <4>2. Size(q[j]) <= Size(q[p])
        <5>1. CASE p = j
          BY <1>2, <5>1
        <5>2. CASE p # j
          <6>1. p < j
            BY <1>1, <2>4, <3>2, <5>2
          <6>2. <<q[p], q[j]>> \in LargerFirst
            BY <2>5, <4>1, <6>1 DEF Ordered
          <6> QED
            BY <6>2 DEF LargerFirst
        <5> QED
          BY <5>1, <5>2
      <4>3. Size(q[j]) <= Size(b)
        BY <1>2, <4>1, <4>2
      <4> QED
        BY <1>2, <4>3 DEF LargerFirst
    <3> QED
      BY <2>4, <2>5, <3>1, <3>2, PutOrdered
  <2> QED
    BY <1>5, <2>2, <2>4, <2>5 DEF FreeInOrder, BESTFIT, WORSTFIT
<1> QED
  BY <1>3, <1>4, <1>5

LEMMA InitInv == Init => Inv
<1> SUFFICES ASSUME Init PROVE Inv
  OBVIOUS
<1>1. PICK b : b = [pid |-> 0, start |-> 0, end |-> PARTITION_SIZE - 1]
  OBVIOUS
<1>2. FREE_LIST = <<b>> /\ ALLOC_LIST = << >>
  BY <1>1 DEF Init
<1>3. b \in FreeBlock /\ b.start = 0 /\ b.end = PARTITION_SIZE - 1
  BY <1>1, MMUAssumption DEF FreeBlock, Blocks, Addresses
<1>4. /\ FREE_LIST \in Seq(FreeBlock) /\ DOMAIN FREE_LIST = {1}
      /\ FREE_LIST[1] = b
  <2>1. <<b>> \in Seq(FreeBlock) /\ Len(<<b>>) = 1 /\ <<b>>[1] = b
    BY <1>3
  <2>2. DOMAIN <<b>> = 1 .. 1
    BY <2>1, LenProperties
  <2> QED
    BY <1>2, <2>1, <2>2
<1>5. ALLOC_LIST \in Seq(Blocks(Pids)) /\ DOMAIN ALLOC_LIST = {}
  BY <1>2, EmptySeq
<1>6. TypeOK
  BY <1>4, <1>5 DEF TypeOK, Init, FreeBlock
<1>7. Separate(FREE_LIST) /\ Separate(ALLOC_LIST)
  BY <1>3, <1>4, <1>5, MMUAssumption DEF Separate
<1>8. \A a \in Addresses : Held(FREE_LIST, a) /\ ~ Held(ALLOC_LIST, a)
  BY <1>3, <1>4, <1>5, MMUAssumption DEF Held, Holds, Addresses
<1>9. FreeInOrder(FREE_LIST)
  BY <1>4 DEF FreeInOrder, Ordered
<1> QED
  BY <1>6, <1>7, <1>8, <1>9 DEF Inv

-----------------------------------------------------------------------------
(* One lemma per action                                                    *)

\* The blocks of a list as a set: what the memory map sees of it.
OwnedBy(l) == {l[i] : i \in DOMAIN l}

LEMMA PutOwned ==
  ASSUME NEW old, NEW new, NEW p, NEW b, PutAt(old, new, p, b)
  PROVE  OwnedBy(new) = OwnedBy(old) \cup {b}
<1>1. ASSUME NEW i \in DOMAIN new
      PROVE  new[i] \in OwnedBy(old) \cup {b}
  <2>1. CASE i = p
    BY <2>1 DEF PutAt
  <2>2. CASE i # p
    <3>1. PICK j \in DOMAIN old : i = Shift(p, j)
      BY <2>2 DEF PutAt
    <3> QED
      BY <3>1 DEF PutAt, OwnedBy
  <2> QED
    BY <2>1, <2>2
<1>2. \A j \in DOMAIN old : old[j] \in OwnedBy(new)
  BY DEF PutAt, OwnedBy
<1>3. b \in OwnedBy(new)
  BY DEF PutAt, OwnedBy
<1> QED
  BY <1>1, <1>2, <1>3 DEF OwnedBy

(* The block that is cut and what is left of it share the cells of the     *)
(* free block between them.                                                *)
LEMMA CutIs ==
  ASSUME NEW b \in FreeBlock, NEW pid \in Pids, NEW size \in Sizes,
         size <= Size(b),
         NEW c, c = Cut(b, pid, size), NEW f, f = Fragment(b, size)
  PROVE  /\ c \in Blocks(Pids) /\ c.start <= c.end /\ c.end <= b.end
         /\ c.end \in Int
         /\ c.end < b.end =>
              /\ f \in FreeBlock /\ f.start <= f.end
              /\ \A a : Holds(f, a) <=> Holds(b, a) /\ ~ Holds(c, a)
         /\ ~ (c.end < b.end) => \A a : Holds(c, a) <=> Holds(b, a)
         /\ \A a : Holds(c, a) => Holds(b, a)
<1>1. /\ b.start \in Int /\ b.end \in Int
      /\ 0 <= b.start /\ b.end <= PARTITION_SIZE - 1
      /\ PARTITION_SIZE \in Int
  BY MMUAssumption DEF FreeBlock, Blocks, Addresses
<1>2. size \in Int /\ 1 <= size
  BY MMUAssumption
<1>3. /\ c.pid = pid /\ c.start = b.start /\ c.end = (b.start + size) - 1
      /\ c = [pid |-> pid, start |-> b.start, end |-> (b.start + size) - 1]
  BY <1>1, <1>2 DEF Cut
<1>4. c.end <= b.end /\ c.start <= c.end /\ c.end \in Int
  <2>1. size <= (b.end - b.start) + 1
    BY <1>1 DEF Size
  <2> QED
    BY <1>1, <1>2, <1>3, <2>1
<1>5. c \in Blocks(Pids)
  <2>1. c.start \in Addresses /\ c.end \in Addresses
    BY <1>1, <1>3, <1>4 DEF Addresses
  <2> QED
    BY <1>3, <2>1 DEF Blocks
<1>6. f.pid = 0 /\ f.start = b.start + size /\ f.end = b.end
      /\ f = [pid |-> 0, start |-> b.start + size, end |-> b.end]
  BY DEF Fragment
<1>7. ASSUME c.end < b.end
      PROVE  f \in FreeBlock /\ f.start <= f.end
  <2>1. f.start <= f.end /\ f.start \in Int /\ 0 <= f.start
    BY <1>1, <1>2, <1>3, <1>6, <1>7
  <2>2. f.start \in Addresses /\ f.end \in Addresses
    BY <1>1, <1>6, <2>1 DEF Addresses
  <2> QED
    BY <1>6, <2>1, <2>2 DEF FreeBlock, Blocks
<1>8. \A a : Holds(b, a) <=> a \in Int /\ b.start <= a /\ a <= b.end
  BY <1>1 DEF Holds
<1>9. \A a : Holds(c, a) <=>
               a \in Int /\ b.start <= a /\ a <= (b.start + size) - 1
  BY <1>1, <1>2, <1>3 DEF Holds
<1>10. \A a : Holds(f, a) <=> a \in Int /\ b.start + size <= a /\ a <= b.end
  BY <1>1, <1>2, <1>6 DEF Holds
<1>11. \A a : Holds(c, a) => Holds(b, a)
  BY <1>1, <1>2, <1>3, <1>4, <1>8, <1>9
<1>12. ASSUME c.end < b.end, NEW a
       PROVE  Holds(f, a) <=> Holds(b, a) /\ ~ Holds(c, a)
  BY <1>1, <1>2, <1>3, <1>8, <1>9, <1>10
<1>13. ASSUME ~ (c.end < b.end), NEW a
       PROVE  Holds(c, a) <=> Holds(b, a)
  BY <1>1, <1>2, <1>3, <1>4, <1>8, <1>9, <1>13
<1> QED
  BY <1>4, <1>5, <1>7, <1>11, <1>12, <1>13

(* The two lists keep what the invariant says of them.                     *)
LEMMA InvFrom ==
  ASSUME policy \in {FIFO, BESTFIT, WORSTFIT}, coalesced \in BOOLEAN,
         policy' = policy, coalesced' = coalesced,
         FREE_LIST' \in Seq(FreeBlock), ALLOC_LIST' \in Seq(Blocks(Pids)),
         Separate(FREE_LIST'), Separate(ALLOC_LIST'),
         \A a \in Addresses : Held(FREE_LIST', a) <=> ~ Held(ALLOC_LIST', a),
         ~ coalesced => FreeInOrder(FREE_LIST')
  PROVE  Inv'
<1>1. TypeOK'
  BY DEF TypeOK, FreeBlock
<1>2. (~ coalesced => FreeInOrder(FREE_LIST))'
  BY DEF FreeInOrder
<1>3. (Separate(FREE_LIST) /\ Separate(ALLOC_LIST))'
  BY DEF Separate
<1>4. (\A a \in Addresses : Held(FREE_LIST, a) <=> ~ Held(ALLOC_LIST, a))'
  BY DEF Held, Addresses
<1> QED
  BY <1>1, <1>2, <1>3, <1>4 DEF Inv

(* Allocating cuts a free block, and gives out memory nobody has.          *)
LEMMA Allocate ==
  ASSUME Inv, NEW pid \in Pids, NEW size \in Sizes, allocate_memory(pid, size)
  PROVE  Inv' /\ Map!Next
<1>1. PICK free, alloc, newfree, newalloc :
        /\ free = FREE_LIST /\ newfree = FREE_LIST'
        /\ alloc = ALLOC_LIST /\ newalloc = ALLOC_LIST'
  OBVIOUS
<1>2. /\ policy' = policy /\ coalesced' = coalesced
      /\ policy \in {FIFO, BESTFIT, WORSTFIT} /\ coalesced \in BOOLEAN
  BY DEF allocate_memory, Inv, TypeOK
<1>3. /\ free \in Seq(FreeBlock) /\ alloc \in Seq(Blocks(Pids))
      /\ Separate(free) /\ Separate(alloc)
      /\ \A a \in Addresses : Held(free, a) <=> ~ Held(alloc, a)
      /\ ~ coalesced => FreeInOrder(free)
  BY <1>1 DEF Inv, TypeOK, FreeBlock
<1>4. PICK i : i = list_get_index_of_by_Size(free, size)
  OBVIOUS
<1>5. i \in DOMAIN free /\ size <= Size(free[i])
  <2>1. i # 0
    BY <1>1, <1>4 DEF allocate_memory
  <2> QED
    BY <1>3, <1>4, <2>1, IndexBySize
<1>6. PICK b \in FreeBlock : b = free[i]
  BY <1>3, <1>5, BlockTypes DEF FreeBlock
<1>7. PICK c, f, rest :
        /\ c = Cut(b, pid, size) /\ f = Fragment(b, size)
        /\ rest = RemoveAt(free, i)
  OBVIOUS
<1>8. /\ newalloc = list_add_ascending_by_address(alloc, c)
      /\ newfree = IF c.end < b.end THEN AddFree(rest, f) ELSE rest
  BY <1>1, <1>4, <1>6, <1>7 DEF allocate_memory
<1>9. /\ c \in Blocks(Pids) /\ c.start <= c.end /\ c.end <= b.end
      /\ c.end \in Int
      /\ c.end < b.end =>
           /\ f \in FreeBlock /\ f.start <= f.end
           /\ \A a : Holds(f, a) <=> Holds(b, a) /\ ~ Holds(c, a)
      /\ ~ (c.end < b.end) => \A a : Holds(c, a) <=> Holds(b, a)
      /\ \A a : Holds(c, a) => Holds(b, a)
  BY <1>5, <1>6, <1>7, CutIs
<1>10. /\ rest \in Seq(FreeBlock) /\ PutAt(rest, free, i, b)
       /\ i \in Nat
  <2>1. DOMAIN free \subseteq Nat
    BY <1>3, LenProperties
  <2> QED
    BY <1>3, <1>5, <1>6, <1>7, <2>1, RemoveAtIs
<1>11. /\ Separate(rest)
       /\ \A a \in Addresses : ~ (Held(rest, a) /\ Holds(b, a))
  BY <1>3, <1>10, TakenSeparate
<1>12. \A a : Held(free, a) <=> Held(rest, a) \/ Holds(b, a)
  BY <1>10, PutHeld
<1>13. FreeInOrder(free) => FreeInOrder(rest)
  BY <1>10, TakenOrdered DEF FreeInOrder
<1>14. newalloc \in Seq(Blocks(Pids)) /\ \E p : PutAt(alloc, newalloc, p, c)
  <2>1. /\ newalloc \in Seq(Blocks(Pids))
        /\ \E p : PutBefore(alloc, newalloc, p, c, NotBefore(alloc, c))
    BY <1>3, <1>8, <1>9, AscendingByAddressIs
  <2> QED
    BY <2>1 DEF PutBefore
<1>15. PICK p : PutAt(alloc, newalloc, p, c)
  BY <1>14
<1>16. \A a \in Addresses : ~ (Held(alloc, a) /\ Holds(c, a))
  BY <1>3, <1>9, <1>12
<1>17. Separate(newalloc)
  BY <1>3, <1>9, <1>15, <1>16, PutSeparate
<1>18. \A a : Held(newalloc, a) <=> Held(alloc, a) \/ Holds(c, a)
  BY <1>15, PutHeld
<1>19. /\ newfree \in Seq(FreeBlock) /\ Separate(newfree)
       /\ FreeInOrder(rest) => FreeInOrder(newfree)
       /\ \A a : Held(newfree, a) <=>
                   Held(rest, a) \/ (Holds(b, a) /\ ~ Holds(c, a))
  <2>1. CASE c.end < b.end
    <3>1. newfree = AddFree(rest, f) /\ f \in FreeBlock /\ f.start <= f.end
      BY <1>8, <1>9, <2>1
    <3>2. /\ newfree \in Seq(FreeBlock)
          /\ \E q \in Nat : PutAt(rest, newfree, q, f)
          /\ FreeInOrder(rest) => FreeInOrder(newfree)
      BY <1>2, <1>10, <3>1, AddFreeIs
    <3>3. PICK q \in Nat : PutAt(rest, newfree, q, f)
      BY <3>2
    <3>4. \A a : Holds(f, a) <=> Holds(b, a) /\ ~ Holds(c, a)
      BY <1>9, <2>1
    <3>5. \A a \in Addresses : ~ (Held(rest, a) /\ Holds(f, a))
      BY <1>11, <3>4
    <3>6. Separate(newfree)
      BY <1>11, <3>1, <3>3, <3>5, PutSeparate
    <3>7. \A a : Held(newfree, a) <=> Held(rest, a) \/ Holds(f, a)
      BY <3>3, PutHeld
    <3> QED
      BY <3>2, <3>4, <3>6, <3>7
  <2>2. CASE ~ (c.end < b.end)
    BY <1>8, <1>9, <1>10, <1>11, <2>2
  <2> QED
    BY <2>1, <2>2
<1>20. \A a \in Addresses : Held(newfree, a) <=> ~ Held(newalloc, a)
  BY <1>3, <1>9, <1>11, <1>12, <1>18, <1>19
<1>21. Inv'
  BY <1>1, <1>2, <1>3, <1>13, <1>14, <1>17, <1>19, <1>20, InvFrom
<1>22. Map!Give(c)
  <2>1. \A d \in OwnedBy(alloc) : (c.start .. c.end) \cap (d.start .. d.end) = {}
    <3> SUFFICES ASSUME NEW j \in DOMAIN alloc, NEW a,
                        Holds(c, a), Holds(alloc[j], a)
                 PROVE  FALSE
      BY DEF OwnedBy, Holds
    <3>1. c.start \in Addresses /\ c.end \in Addresses
      BY <1>9 DEF Blocks
    <3>2. a \in Addresses
      BY <3>1, HeldAddress
    <3> QED
      BY <1>16, <3>2 DEF Held
  <2>2. OwnedBy(newalloc) = OwnedBy(alloc) \cup {c}
    BY <1>15, PutOwned
  <2> QED
    BY <1>1, <1>9, <2>1, <2>2 DEF Map!Give, Map!Cells, OwnedBy
<1>23. c \in Map!Block
  BY <1>9 DEF Map!Block, Blocks
<1> QED
  BY <1>21, <1>22, <1>23 DEF Map!Next

(* Deallocating gives back the memory of one block.                        *)
LEMMA Deallocate ==
  ASSUME Inv, NEW pid \in Pids, deallocate_memory(pid)
  PROVE  Inv' /\ Map!Next
<1>1. PICK free, alloc, newfree, newalloc :
        /\ free = FREE_LIST /\ newfree = FREE_LIST'
        /\ alloc = ALLOC_LIST /\ newalloc = ALLOC_LIST'
  OBVIOUS
<1>2. /\ policy' = policy /\ coalesced' = coalesced
      /\ policy \in {FIFO, BESTFIT, WORSTFIT} /\ coalesced \in BOOLEAN
  BY DEF deallocate_memory, Inv, TypeOK
<1>3. /\ free \in Seq(FreeBlock) /\ alloc \in Seq(Blocks(Pids))
      /\ Separate(free) /\ Separate(alloc)
      /\ \A a \in Addresses : Held(free, a) <=> ~ Held(alloc, a)
      /\ ~ coalesced => FreeInOrder(free)
  BY <1>1 DEF Inv, TypeOK, FreeBlock
<1>4. PICK i : i = list_get_index_of_by_Pid(alloc, pid)
  OBVIOUS
<1>5. i \in DOMAIN alloc
  <2>1. i # 0
    BY <1>1, <1>4 DEF deallocate_memory
  <2> QED
    BY <1>3, <1>4, <2>1, IndexByPid
<1>6. PICK c \in Blocks(Pids) : c = alloc[i]
  BY <1>3, <1>5, BlockTypes
<1>7. PICK b \in FreeBlock : /\ b = Freed(c)
                             /\ b.start = c.start /\ b.end = c.end
  <2>1. PICK d : d = [pid |-> 0, start |-> c.start, end |-> c.end]
    OBVIOUS
  <2>2. c = [pid |-> c.pid, start |-> c.start, end |-> c.end]
    BY <1>6 DEF Blocks
  <2>3. d = Freed(c)
    BY <2>1, <2>2 DEF Freed
  <2>4. d \in FreeBlock
    BY <1>6, <2>1 DEF FreeBlock, Blocks
  <2> QED
    BY <2>1, <2>3, <2>4
<1>8. newfree = AddFree(free, b) /\ newalloc = RemoveAt(alloc, i)
  BY <1>1, <1>4, <1>6, <1>7 DEF deallocate_memory
<1>9. /\ newalloc \in Seq(Blocks(Pids)) /\ PutAt(newalloc, alloc, i, c)
      /\ i \in Nat
  <2>1. DOMAIN alloc \subseteq Nat
    BY <1>3, LenProperties
  <2> QED
    BY <1>3, <1>5, <1>6, <1>8, <2>1, RemoveAtIs
<1>10. /\ Separate(newalloc) /\ c.start <= c.end
       /\ \A a \in Addresses : ~ (Held(newalloc, a) /\ Holds(c, a))
  BY <1>3, <1>9, TakenSeparate
<1>11. \A a : Held(alloc, a) <=> Held(newalloc, a) \/ Holds(c, a)
  BY <1>9, PutHeld
<1>12. \A a : Holds(b, a) <=> Holds(c, a)
  BY <1>7 DEF Holds
<1>13. /\ newfree \in Seq(FreeBlock)
       /\ \E q \in Nat : PutAt(free, newfree, q, b)
       /\ FreeInOrder(free) => FreeInOrder(newfree)
  BY <1>2, <1>3, <1>8, AddFreeIs
<1>14. PICK q \in Nat : PutAt(free, newfree, q, b)
  BY <1>13
<1>15. \A a \in Addresses : ~ (Held(free, a) /\ Holds(b, a))
  BY <1>3, <1>11, <1>12
<1>16. Separate(newfree)
  BY <1>3, <1>7, <1>10, <1>14, <1>15, PutSeparate
<1>17. \A a : Held(newfree, a) <=> Held(free, a) \/ Holds(b, a)
  BY <1>14, PutHeld
<1>18. \A a \in Addresses : Held(newfree, a) <=> ~ Held(newalloc, a)
  BY <1>3, <1>10, <1>11, <1>12, <1>17
<1>19. Inv'
  BY <1>1, <1>2, <1>3, <1>9, <1>10, <1>13, <1>16, <1>18, InvFrom
<1>20. Map!TakeBack(c)
  <2>1. OwnedBy(alloc) = OwnedBy(newalloc) \cup {c}
    BY <1>9, PutOwned
  <2>2. c \notin OwnedBy(newalloc)
    <3> SUFFICES ASSUME NEW j \in DOMAIN newalloc, newalloc[j] = c
                 PROVE  FALSE
      BY DEF OwnedBy
    <3>1. c.start \in Addresses /\ c.start \in Int /\ c.end \in Int
      BY <1>6, SizeInt DEF Blocks
    <3>2. Holds(c, c.start)
      BY <1>10, <3>1 DEF Holds
    <3> QED
      BY <1>10, <3>1, <3>2 DEF Held
  <2> QED
    BY <1>1, <2>1, <2>2 DEF Map!TakeBack, OwnedBy
<1>21. c \in Map!Block
  BY <1>6 DEF Map!Block, Blocks
<1> QED
  BY <1>19, <1>20, <1>21 DEF Map!Next

(* Coalescing keeps the free cells.                                        *)
LEMMA Coalesce ==
  ASSUME Inv, coalese_memory
  PROVE  Inv' /\ Gapped(FREE_LIST')
<1>1. PICK free, newfree : free = FREE_LIST /\ newfree = FREE_LIST'
  OBVIOUS
<1>2. /\ policy' = policy /\ coalesced' = TRUE /\ ALLOC_LIST' = ALLOC_LIST
      /\ newfree = list_coalese_nodes(
                     FoldLeft(list_add_ascending_by_address, << >>, free))
  BY <1>1 DEF coalese_memory
<1>3. free \in Seq(FreeBlock) /\ Separate(free)
  BY <1>1 DEF Inv, TypeOK, FreeBlock
<1>4. /\ newfree \in Seq(FreeBlock) /\ Separate(newfree) /\ Gapped(newfree)
      /\ \A a : Held(newfree, a) <=> Held(free, a)
  BY <1>2, <1>3, CoalesceIs
<1>5. /\ FREE_LIST' \in Seq(FreeBlock) /\ Separate(FREE_LIST')
      /\ Gapped(FREE_LIST')
      /\ \A a : Held(FREE_LIST', a) <=> Held(FREE_LIST, a)
  BY <1>1, <1>4
<1>6. TypeOK'
  BY <1>2, <1>5 DEF Inv, TypeOK, FreeBlock
<1>7. (Separate(FREE_LIST) /\ Separate(ALLOC_LIST))'
  BY <1>2, <1>5 DEF Inv, Separate
<1>8. (\A a \in Addresses : Held(FREE_LIST, a) <=> ~ Held(ALLOC_LIST, a))'
  BY <1>2, <1>5 DEF Inv, Held, Addresses
<1> QED
  BY <1>2, <1>5, <1>6, <1>7, <1>8 DEF Inv

-----------------------------------------------------------------------------
(* The theorems                                                            *)

LEMMA NextInv ==
  ASSUME Inv, [Next]_vars
  PROVE  Inv'
<1>1. CASE UNCHANGED vars
  <2>1. TypeOK'
    BY <1>1 DEF vars, Inv, TypeOK
  <2>2. (Separate(FREE_LIST) /\ Separate(ALLOC_LIST))'
    BY <1>1 DEF vars, Inv, Separate
  <2>3. (\A a \in Addresses : Held(FREE_LIST, a) <=> ~ Held(ALLOC_LIST, a))'
    BY <1>1 DEF vars, Inv, Held, Addresses
  <2>4. (~ coalesced => FreeInOrder(FREE_LIST))'
    BY <1>1 DEF vars, Inv, FreeInOrder
  <2> QED
    BY <2>1, <2>2, <2>3, <2>4 DEF Inv
<1>2. ASSUME NEW pid \in Pids, NEW size \in Sizes, allocate_memory(pid, size)
      PROVE  Inv'
  BY <1>2, Allocate
<1>3. ASSUME NEW pid \in Pids, deallocate_memory(pid)
      PROVE  Inv'
  BY <1>3, Deallocate
<1>4. CASE coalese_memory
  BY <1>4, Coalesce
<1> QED
  BY <1>1, <1>2, <1>3, <1>4 DEF Next, allocate_fails, deallocate_fails

(* Every run keeps the invariant.                                          *)
THEOREM InvHolds == Spec => []Inv
<1>1. Inv /\ [Next]_vars => Inv'
  BY NextInv
<1> QED
  BY <1>1, InitInv, PTL DEF Spec

(* Both lists are lists of blocks inside the partition, the free ones      *)
(* without a process.                                                      *)
THEOREM TypeCorrect == Spec => []TypeOK
<1>1. Inv => TypeOK
  BY DEF Inv
<1> QED
  BY <1>1, InvHolds, PTL

(* In a separate list an address has one holder, or none.                  *)
LEMMA HoldersIs ==
  ASSUME NEW l, Separate(l), NEW a \in Addresses
  PROVE  Holders(l, a) = IF Held(l, a) THEN 1 ELSE 0
<1>1. PICK X : X = {i \in DOMAIN l : Holds(l[i], a)}
  OBVIOUS
<1>2. Holders(l, a) = Cardinality(X)
  BY <1>1 DEF Holders
<1>3. CASE Held(l, a)
  <2>1. PICK i \in DOMAIN l : Holds(l[i], a)
    BY <1>3 DEF Held
  <2>2. X = {i}
    BY <1>1, <2>1 DEF Separate
  <2>3. Cardinality({i}) = 1
    BY FS_Singleton
  <2> QED
    BY <1>2, <1>3, <2>2, <2>3
<1>4. CASE ~ Held(l, a)
  <2>1. X = {}
    BY <1>1, <1>4 DEF Held
  <2>2. Cardinality({}) = 0
    BY FS_EmptySet
  <2> QED
    BY <1>2, <1>4, <2>1, <2>2
<1> QED
  BY <1>3, <1>4

(* The two lists tile the partition: whatever is allocated, freed and      *)
(* coalesced in whatever order, every address is in exactly one block.     *)
THEOREM ListsTileThePartition == Spec => []Tiling
<1>1. ASSUME Inv
      PROVE  Tiling
  <2> SUFFICES ASSUME NEW a \in Addresses
               PROVE  Holders(FREE_LIST, a) + Holders(ALLOC_LIST, a) = 1
    BY DEF Tiling
  <2>1. Held(FREE_LIST, a) <=> ~ Held(ALLOC_LIST, a)
    BY <1>1 DEF Inv
  <2>2. Holders(FREE_LIST, a) = IF Held(FREE_LIST, a) THEN 1 ELSE 0
    BY <1>1, HoldersIs DEF Inv
  <2>3. Holders(ALLOC_LIST, a) = IF Held(ALLOC_LIST, a) THEN 1 ELSE 0
    BY <1>1, HoldersIs DEF Inv
  <2>4. CASE Held(ALLOC_LIST, a)
    BY <2>1, <2>2, <2>3, <2>4
  <2>5. CASE ~ Held(ALLOC_LIST, a)
    BY <2>1, <2>2, <2>3, <2>5
  <2> QED
    BY <2>4, <2>5
<1> QED
  BY <1>1, InvHolds, PTL

(* Until the first coalesce request the first block that is large enough   *)
(* is the smallest such block under best fit, and the largest block under  *)
(* worst fit: the free list is in the policy's order.                      *)
THEOREM ServesByPolicy == Spec => []PolicyBeforeCoalesce
<1>1. ASSUME Inv
      PROVE  PolicyBeforeCoalesce
  <2> SUFFICES ASSUME ~ coalesced, NEW size \in Sizes
               PROVE  FollowsPolicy(size)
    BY DEF PolicyBeforeCoalesce
  <2>1. PICK free : free = FREE_LIST
    OBVIOUS
  <2>2. free \in Seq(FreeBlock) /\ FreeInOrder(free)
    BY <1>1, <2>1 DEF Inv, TypeOK, FreeBlock
  <2>3. PICK i : i = list_get_index_of_by_Size(free, size)
    OBVIOUS
  <2>4. CASE i = 0
    BY <2>1, <2>3, <2>4 DEF FollowsPolicy
  <2>5. CASE i # 0
    <3>1. /\ i \in DOMAIN free /\ size <= Size(free[i])
          /\ \A j \in DOMAIN free : j < i => ~ (size <= Size(free[j]))
      BY <2>2, <2>3, <2>5, IndexBySize
    <3>2. /\ DOMAIN free \subseteq Nat /\ size \in Int
          /\ \A j \in DOMAIN free : Size(free[j]) \in Int
      <4>1. DOMAIN free \subseteq Nat
        BY <2>2, LenProperties
      <4>2. \A j \in DOMAIN free : Size(free[j]) \in Int
        BY <2>2, BlockTypes, SizeInt DEF FreeBlock
      <4> QED
        BY <4>1, <4>2, MMUAssumption
    <3>3. ASSUME policy = BESTFIT
          PROVE  FitsBest(i, size)
      <4> SUFFICES ASSUME NEW j \in DOMAIN free, size <= Size(free[j])
                   PROVE  Size(free[i]) <= Size(free[j])
        BY <2>1 DEF FitsBest
      <4>1. CASE i = j
        BY <3>2, <4>1
      <4>2. CASE i # j
        <5>1. i < j
          BY <3>1, <3>2, <4>2
        <5>2. <<free[i], free[j]>> \in SmallerFirst
          BY <2>2, <3>1, <3>3, <5>1 DEF FreeInOrder, Ordered
        <5> QED
          BY <5>2 DEF SmallerFirst
      <4> QED
        BY <4>1, <4>2
    <3>4. ASSUME policy = WORSTFIT
          PROVE  FitsWorst(i, size)
      <4> SUFFICES ASSUME NEW j \in DOMAIN free
                   PROVE  Size(free[j]) <= Size(free[i])
        BY <2>1 DEF FitsWorst
      <4>1. CASE i = j
        BY <3>2, <4>1
      <4>2. CASE i < j
        <5>1. <<free[i], free[j]>> \in LargerFirst
          BY <2>2, <3>1, <3>4, <4>2 DEF FreeInOrder, Ordered
        <5> QED
          BY <5>1 DEF LargerFirst
      <4>3. CASE j < i
        <5>1. ~ (size <= Size(free[j])) /\ size <= Size(free[i])
          BY <3>1, <4>3
        <5> QED
          BY <3>1, <3>2, <5>1
      <4> QED
        BY <3>1, <3>2, <4>1, <4>2, <4>3
    <3> QED
      BY <2>1, <2>3, <3>3, <3>4 DEF FollowsPolicy
  <2> QED
    BY <2>4, <2>5
<1> QED
  BY <1>1, InvHolds, PTL

(* In a list with gaps between its blocks, addresses that follow each      *)
(* other and are all held are in one block.                                *)
LEMMA OneBlock ==
  ASSUME NEW l \in Seq(FreeBlock), Gapped(l), Separate(l),
         NEW a \in Int, NEW n \in Nat \ {0},
         \A x \in a .. a + n - 1 : Held(l, x)
  PROVE  \E k \in DOMAIN l : n <= Size(l[k])
<1>1. DOMAIN l \subseteq Nat
  BY LenProperties
<1>2. \A k \in DOMAIN l : /\ l[k].start \in Int /\ l[k].end \in Int
                          /\ Size(l[k]) = (l[k].end - l[k].start) + 1
  BY BlockTypes DEF FreeBlock, Size
<1>3. a \in a .. a + n - 1
  OBVIOUS
<1>4. PICK k \in DOMAIN l : Holds(l[k], a)
  BY <1>3 DEF Held
<1>5. l[k].start <= a /\ a <= l[k].end
  BY <1>2, <1>4 DEF Holds
<1>6. ASSUME l[k].end < a + n - 1
      PROVE  FALSE
  <2>1. PICK x : x = l[k].end + 1
    OBVIOUS
  <2>2. x \in a .. a + n - 1 /\ x \in Int
    BY <1>2, <1>5, <1>6, <2>1
  <2>3. PICK m \in DOMAIN l : Holds(l[m], x)
    BY <2>2 DEF Held
  <2>4. l[m].start <= x /\ x <= l[m].end
    BY <1>2, <2>3 DEF Holds
  <2>5. CASE m = k
    BY <1>2, <2>1, <2>4, <2>5
  <2>6. CASE k < m
    <3>1. l[k].end + 1 < l[m].start
      BY <2>6 DEF Gapped
    <3> QED
      BY <1>2, <2>1, <2>4, <3>1
  <2>7. CASE m < k
    <3>1. l[m].end + 1 < l[k].start
      BY <2>7 DEF Gapped
    <3> QED
      BY <1>2, <1>5, <2>1, <2>4, <3>1
  <2> QED
    BY <1>1, <2>5, <2>6, <2>7
<1> QED
  BY <1>2, <1>5, <1>6

(* After coalescing a request is granted whenever enough contiguous memory *)
(* is free.                                                                *)
THEOREM CoalescingServesAll == Spec => CoalesceServesAll
<1>1. ASSUME Inv, coalese_memory, NEW a \in Addresses,
             NEW n \in 1 .. PARTITION_SIZE,
             \A x \in a .. a + n - 1 : x \in Addresses /\ FreeAt(x)
      PROVE  list_get_index_of_by_Size(FREE_LIST', n) # 0
  <2>1. PICK free : free = FREE_LIST'
    OBVIOUS
  <2>2. Inv' /\ Gapped(free) /\ ALLOC_LIST' = ALLOC_LIST
    BY <1>1, <2>1, Coalesce DEF coalese_memory
  <2>3. free \in Seq(FreeBlock) /\ Separate(free)
    BY <2>1, <2>2 DEF Inv, TypeOK, FreeBlock, Separate
  <2>4. \A x \in Addresses : Held(free, x) <=> ~ Held(ALLOC_LIST, x)
    BY <2>1, <2>2 DEF Inv, Held, Addresses
  <2>5. ASSUME NEW x \in a .. a + n - 1
        PROVE  Held(free, x)
    <3>1. x \in Addresses /\ Holders(ALLOC_LIST, x) = 0
      BY <1>1 DEF FreeAt
    <3>2. Holders(ALLOC_LIST, x) = IF Held(ALLOC_LIST, x) THEN 1 ELSE 0
      BY <1>1, <3>1, HoldersIs DEF Inv
    <3> QED
      BY <2>4, <3>1, <3>2
  <2>6. a \in Int /\ n \in Nat \ {0}
    BY MMUAssumption DEF Addresses
  <2>7. PICK k \in DOMAIN free : n <= Size(free[k])
    BY <2>2, <2>3, <2>5, <2>6, OneBlock
  <2> QED
    BY <2>1, <2>3, <2>7, IndexBySize
<1>2. Inv => [coalese_memory =>
                \A a \in Addresses, n \in 1 .. PARTITION_SIZE :
                  (\A x \in a .. a + n - 1 : x \in Addresses /\ FreeAt(x))
                    => list_get_index_of_by_Size(FREE_LIST', n) # 0]_vars
  BY <1>1
<1> QED
  BY <1>2, InvHolds, PTL DEF CoalesceServesAll

(* Every run of the lists is a run of the memory map: memory that is given *)
(* out is nobody's, stays where it is, and is taken back as it was given.  *)
THEOREM ImplementsTheMap == Spec => ImplementsMap
<1>1. Init => Map!Init
  BY DEF Init, Map!Init
<1>2. ASSUME Inv, [Next]_vars
      PROVE  [Map!Next]_({ALLOC_LIST[i] : i \in DOMAIN ALLOC_LIST})
  <2>1. ASSUME NEW pid \in Pids, NEW size \in Sizes, allocate_memory(pid, size)
        PROVE  Map!Next
    BY <1>2, <2>1, Allocate
  <2>2. ASSUME NEW pid \in Pids, deallocate_memory(pid)
        PROVE  Map!Next
    BY <1>2, <2>2, Deallocate
  <2>3. ASSUME ALLOC_LIST' = ALLOC_LIST
        PROVE  UNCHANGED {ALLOC_LIST[i] : i \in DOMAIN ALLOC_LIST}
    BY <2>3
  <2> QED
    BY <1>2, <2>1, <2>2, <2>3
    DEF Next, vars, allocate_fails, deallocate_fails, coalese_memory
<1> QED
  BY <1>1, <1>2, InvHolds, PTL DEF Spec, ImplementsMap, Map!Spec
================================================================================
