--------------------------- MODULE ChatServerProofs ---------------------------
(***************************************************************************)
(* What TLAPS proves of the chat server's lists, for any number of         *)
(* descriptors, rooms and names and for clients that may do everything:    *)
(* an open connection keeps its node until it leaves, nothing but two      *)
(* steps that go by a guest's name brings the lists out of order, and      *)
(* while they are in order each command does what the directory says.      *)
(***************************************************************************)
EXTENDS ChatServer, SequenceTheorems, FiniteSetTheorems, WellFoundedInduction,
        TLAPS

Node == [socket : Sockets, username : Names, dm : Seq(Sockets)]

Open == {s \in Sockets : conn[s] = "open"}

-----------------------------------------------------------------------------
(* The invariants                                                          *)

\* A user list: one node for each of its sockets, and mutual direct
\* connections.
WellFormed(list) ==
  /\ list \in Seq(Node)
  /\ \A i, j \in DOMAIN list : list[i].socket = list[j].socket => i = j
  /\ \A i, j \in DOMAIN list :
       list[j].socket \in Range(list[i].dm)
         => list[i].socket \in Range(list[j].dm)
  /\ \A i \in DOMAIN list : Tidy(list[i].dm, list[i].socket)

\* The list knows the sockets of S, and no others.
Knows(list, S) ==
  /\ \A i \in DOMAIN list : list[i].socket \in S /\ Range(list[i].dm) \subseteq S
  /\ \A s \in S : \E i \in DOMAIN list : list[i].socket = s

RoomsOf(rooms, S) == \A r \in DOMAIN rooms : rooms[r] \subseteq S

\* What is always true of the lists, in order or not.
ListTypes ==
  /\ conn \in [Sockets -> {"closed", "accepted", "open"}]
  /\ head \in Seq(Node)
  /\ DOMAIN room_head \subseteq Rooms
  /\ Lobby \in DOMAIN room_head
  /\ RoomsOf(room_head, Sockets)
  /\ up \in BOOLEAN

Types ==
  /\ ListTypes
  /\ heard \in [from : Sockets \cup {Lobby}, to : SUBSET Sockets]

\* What InOrder says of them, with their types.
ListsInv ==
  /\ conn \in [Sockets -> {"closed", "accepted", "open"}]
  /\ DOMAIN room_head \subseteq Rooms
  /\ Lobby \in DOMAIN room_head
  /\ up = TRUE
  /\ WellFormed(head)
  /\ Knows(head, Open)
  /\ RoomsOf(room_head, Open)

-----------------------------------------------------------------------------
(* Sequences                                                               *)

(* Every non-empty set of natural numbers has a least element.             *)
LEMMA LeastNat ==
  ASSUME NEW T \in SUBSET Nat, T # {}
  PROVE  Min(T) \in T /\ \A y \in T : Min(T) <= y
<1>1. IsWellFoundedOn(OpToRel(<, Nat), Nat)
  BY NatLessThanWellFounded
<1>2. PICK x \in T : \A y \in T : ~ (<<y, x>> \in OpToRel(<, Nat))
  BY <1>1, WFMin
<1>3. \A y \in T : ~ (y < x)
  BY <1>2 DEF OpToRel
<1>4. \A y \in T : x <= y
  BY <1>3
<1> QED
  BY <1>4 DEF Min

(* Removing an element moves those behind it to the front by one.          *)
LEMMA RemoveAtIs ==
  ASSUME NEW S, NEW q \in Seq(S), NEW i \in DOMAIN q
  PROVE  /\ RemoveAt(q, i) \in Seq(S)
         /\ Len(RemoveAt(q, i)) = Len(q) - 1
         /\ DOMAIN RemoveAt(q, i) = 1 .. Len(q) - 1
         /\ \A j \in 1 .. Len(q) - 1 :
              RemoveAt(q, i)[j] = IF j < i THEN q[j] ELSE q[j + 1]
<1> DEFINE a == SubSeq(q, 1, i - 1)
           b == SubSeq(q, i + 1, Len(q))
<1>1. Len(q) \in Nat /\ i \in 1 .. Len(q)
  BY LenProperties
<1>2. \A j \in 1 .. i - 1 : q[j] \in S
  BY <1>1
<1>3. /\ a \in Seq(S) /\ Len(a) = i - 1
      /\ \A j \in 1 .. i - 1 : a[j] = q[j]
  <2>1. /\ SubSeq(q, 1, i - 1) \in Seq(S)
        /\ Len(SubSeq(q, 1, i - 1)) = IF 1 <= i - 1 THEN (i - 1) - 1 + 1 ELSE 0
        /\ \A j \in 1 .. (i - 1) - 1 + 1 : SubSeq(q, 1, i - 1)[j] = q[1 + j - 1]
    BY <1>1, <1>2, SubSeqProperties
  <2> QED
    BY <1>1, <2>1
<1>4. \A j \in i + 1 .. Len(q) : q[j] \in S
  BY <1>1
<1>5. /\ b \in Seq(S) /\ Len(b) = Len(q) - i
      /\ \A j \in 1 .. Len(q) - i : b[j] = q[i + j]
  <2>1. /\ SubSeq(q, i + 1, Len(q)) \in Seq(S)
        /\ Len(SubSeq(q, i + 1, Len(q)))
             = IF i + 1 <= Len(q) THEN Len(q) - (i + 1) + 1 ELSE 0
        /\ \A j \in 1 .. Len(q) - (i + 1) + 1 :
             SubSeq(q, i + 1, Len(q))[j] = q[(i + 1) + j - 1]
    BY <1>1, <1>4, SubSeqProperties
  <2> QED
    BY <1>1, <2>1
<1> HIDE DEF a, b
<1>6. /\ a \o b \in Seq(S)
      /\ Len(a \o b) = Len(a) + Len(b)
      /\ \A j \in 1 .. Len(a) + Len(b) :
           (a \o b)[j] = IF j <= Len(a) THEN a[j] ELSE b[j - Len(a)]
  BY <1>3, <1>5, ConcatProperties
<1>7. Len(a) + Len(b) = Len(q) - 1
  <2>1. Len(a) = i - 1 /\ Len(b) = Len(q) - i
    BY <1>3, <1>5
  <2> QED
    BY <1>1, <2>1
<1>8. \A j \in 1 .. Len(q) - 1 : (a \o b)[j] = IF j < i THEN q[j] ELSE q[j + 1]
  <2> TAKE j \in 1 .. Len(q) - 1
  <2>1. CASE j < i
    BY <1>1, <1>3, <1>6, <1>7, <2>1
  <2>2. CASE ~(j < i)
    <3>1. j - (i - 1) \in 1 .. Len(q) - i /\ i + (j - (i - 1)) = j + 1
      BY <1>1, <2>2
    <3>2. Len(a) = i - 1 /\ ~(j <= i - 1)
      BY <1>1, <1>3, <2>2
    <3>3. (a \o b)[j] = b[j - (i - 1)]
      BY <1>6, <1>7, <3>2
    <3> QED
      BY <1>5, <2>2, <3>1, <3>3
  <2> QED
    BY <2>1, <2>2
<1>9. RemoveAt(q, i) = a \o b
  BY DEF RemoveAt, a, b
<1> QED
  BY <1>6, <1>7, <1>8, <1>9, LenProperties


(* Removing the first entry for an element leaves the others as they were. *)
LEMMA RemoveFirstIs ==
  ASSUME NEW S, NEW q \in Seq(S), NEW e
  PROVE  \/ /\ e \notin Range(q)
            /\ RemoveFirst(q, e) = q
         \/ \E i \in DOMAIN q : q[i] = e /\ RemoveFirst(q, e) = RemoveAt(q, i)
<1> DEFINE I == {i \in 1 .. Len(q) : q[i] = e}
<1>1. DOMAIN q = 1 .. Len(q) /\ Len(q) \in Nat
  BY LenProperties
<1>2. CASE I = {}
  BY <1>1, <1>2 DEF RemoveFirst, Range
<1>3. CASE I # {}
  <2>1. Min(I) \in I
    <3>1. I \in SUBSET Nat
      BY <1>1
    <3> HIDE DEF I
    <3> QED
      BY <1>3, <3>1, LeastNat
  <2>2. SelectInSeq(q, LAMBDA v : v = e) = Min(I)
    BY <1>3 DEF SelectInSeq
  <2>3. RemoveFirst(q, e) = RemoveAt(q, Min(I))
    BY <1>3, <2>2 DEF RemoveFirst
  <2> QED
    BY <1>1, <2>1, <2>3
<1> QED
  BY <1>2, <1>3

LEMMA RemoveFirstTyped ==
  ASSUME NEW S, NEW q \in Seq(S), NEW e
  PROVE  RemoveFirst(q, e) \in Seq(S)
BY RemoveFirstIs, RemoveAtIs

(* The same for a list of direct connections.                              *)
LEMMA RemoveFirstKeeps ==
  ASSUME NEW q \in Seq(Sockets), NEW o, NEW e, Tidy(q, o)
  PROVE  /\ RemoveFirst(q, e) \in Seq(Sockets)
         /\ Tidy(RemoveFirst(q, e), o)
         /\ Range(RemoveFirst(q, e)) \subseteq Range(q)
         /\ Range(q) \ {e} \subseteq Range(RemoveFirst(q, e))
         /\ e # o => e \notin Range(RemoveFirst(q, e))
<1>1. CASE e \notin Range(q) /\ RemoveFirst(q, e) = q
  BY <1>1
<1>2. ASSUME NEW i \in DOMAIN q, q[i] = e, RemoveFirst(q, e) = RemoveAt(q, i)
      PROVE  /\ RemoveFirst(q, e) \in Seq(Sockets)
             /\ Tidy(RemoveFirst(q, e), o)
             /\ Range(RemoveFirst(q, e)) \subseteq Range(q)
             /\ Range(q) \ {e} \subseteq Range(RemoveFirst(q, e))
             /\ e # o => e \notin Range(RemoveFirst(q, e))
  <2>1. PICK r \in Seq(Sockets) : r = RemoveFirst(q, e)
    BY <1>2, RemoveAtIs
  <2>2. /\ DOMAIN r = 1 .. Len(q) - 1
        /\ \A j \in 1 .. Len(q) - 1 :
             r[j] = IF j < i THEN q[j] ELSE q[j + 1]
    BY <1>2, <2>1, RemoveAtIs
  <2>3. DOMAIN q = 1 .. Len(q) /\ Len(q) \in Nat
    BY LenProperties
  <2> DEFINE Old(j) == IF j < i THEN j ELSE j + 1
  <2>4. \A j \in DOMAIN r : Old(j) \in DOMAIN q /\ Old(j) # i /\ r[j] = q[Old(j)]
    BY <2>2, <2>3
  <2>5. \A j, k \in DOMAIN r : Old(j) = Old(k) => j = k
    BY <2>2, <2>3
  <2>6. \A k \in DOMAIN q \ {i} : \E j \in DOMAIN r : Old(j) = k
    <3> TAKE k \in DOMAIN q \ {i}
    <3>1. CASE k < i
      BY <2>2, <2>3, <3>1
    <3>2. CASE ~(k < i)
      <4>1. k - 1 \in DOMAIN r /\ Old(k - 1) = k
        BY <2>2, <2>3, <3>2
      <4> QED
        BY <4>1
    <3> QED
      BY <3>1, <3>2
  <2> HIDE DEF Old
  <2>7. Tidy(r, o)
    <3>1. ASSUME NEW k \in DOMAIN r, NEW l \in DOMAIN r, r[k] = r[l]
          PROVE  k = l \/ r[k] = o
      BY <2>4, <2>5, <3>1 DEF Tidy
    <3>2. ASSUME NEW k \in DOMAIN r, NEW l \in DOMAIN r, NEW m \in DOMAIN r,
                 r[k] = o, r[l] = o, r[m] = o
          PROVE  k = l \/ l = m \/ k = m
      BY <2>4, <2>5, <3>2 DEF Tidy
    <3> QED
      BY <3>1, <3>2 DEF Tidy
  <2>8. Range(r) \subseteq Range(q)
    BY <2>4 DEF Range
  <2>9. Range(q) \ {e} \subseteq Range(r)
    <3> SUFFICES ASSUME NEW k \in DOMAIN q, q[k] # e
                 PROVE  q[k] \in Range(r)
      BY DEF Range
    <3>1. PICK j \in DOMAIN r : Old(j) = k
      BY <1>2, <2>6
    <3> QED
      BY <2>4, <3>1 DEF Range
  <2>10. e # o => e \notin Range(r)
    BY <1>2, <2>4 DEF Range, Tidy
  <2> QED
    BY <2>1, <2>7, <2>8, <2>9, <2>10
<1> QED
  BY <1>1, <1>2, RemoveFirstIs

(* Two removals take the owner itself out of its list.                     *)
LEMMA RemoveOwner ==
  ASSUME NEW q \in Seq(Sockets), NEW o, Tidy(q, o)
  PROVE  o \notin Range(RemoveFirst(RemoveFirst(q, o), o))
<1>1. PICK r \in Seq(Sockets) : r = RemoveFirst(q, o)
  BY RemoveFirstKeeps
<1>2. CASE o \notin Range(r)
  BY <1>1, <1>2, RemoveFirstIs DEF Range
<1>3. CASE o \in Range(r)
  <2>1. PICK i \in DOMAIN q : q[i] = o /\ r = RemoveAt(q, i)
    BY <1>1, <1>3, RemoveFirstIs
  <2>2. PICK k \in DOMAIN r : r[k] = o /\ RemoveFirst(r, o) = RemoveAt(r, k)
    BY <1>3, RemoveFirstIs
  <2>3. /\ DOMAIN q = 1 .. Len(q) /\ Len(q) \in Nat
        /\ DOMAIN r = 1 .. Len(q) - 1 /\ Len(r) = Len(q) - 1
        /\ \A j \in DOMAIN r : r[j] = IF j < i THEN q[j] ELSE q[j + 1]
    BY <2>1, LenProperties, RemoveAtIs
  <2>4. PICK u \in Seq(Sockets) : u = RemoveAt(r, k)
    BY RemoveAtIs
  <2>5. /\ DOMAIN u = 1 .. Len(r) - 1
        /\ \A j \in DOMAIN u : u[j] = IF j < k THEN r[j] ELSE r[j + 1]
    BY <2>4, RemoveAtIs
  <2>6. ASSUME NEW j \in DOMAIN u, u[j] = o
        PROVE  FALSE
    <3>1. PICK l \in DOMAIN r : l # k /\ r[l] = o
      <4>1. PICK l : l = IF j < k THEN j ELSE j + 1
        OBVIOUS
      <4>2. l \in DOMAIN r /\ l # k
        BY <2>3, <2>5, <4>1
      <4>3. r[l] = o
        BY <2>5, <2>6, <4>1
      <4> QED
        BY <4>2, <4>3
    <3>2. PICK x \in DOMAIN q : /\ x # i /\ q[x] = o
                                /\ x = IF k < i THEN k ELSE k + 1
      BY <2>2, <2>3
    <3>3. PICK y \in DOMAIN q : /\ y # i /\ q[y] = o
                                /\ y = IF l < i THEN l ELSE l + 1
      BY <2>3, <3>1
    <3>4. x # y
      BY <2>3, <3>1, <3>2, <3>3
    <3> QED
      BY <2>1, <3>2, <3>3, <3>4 DEF Tidy
  <2> QED
    BY <1>1, <2>2, <2>4, <2>6 DEF Range
<1> QED
  BY <1>2, <1>3

(* Adding somebody new, or the owner from both sides, keeps a list tidy.   *)
LEMMA ConsKeeps ==
  ASSUME NEW q \in Seq(Sockets), NEW e \in Sockets
  PROVE  /\ <<e>> \o q \in Seq(Sockets)
         /\ DOMAIN (<<e>> \o q) = 1 .. Len(q) + 1
         /\ \A j \in 1 .. Len(q) + 1 :
              (<<e>> \o q)[j] = IF j = 1 THEN e ELSE q[j - 1]
         /\ Range(<<e>> \o q) = Range(q) \cup {e}
<1>1. <<e>> \in Seq(Sockets) /\ Len(<<e>>) = 1 /\ <<e>>[1] = e
  OBVIOUS
<1>2. Len(q) \in Nat /\ DOMAIN q = 1 .. Len(q)
  BY LenProperties
<1>3. /\ <<e>> \o q \in Seq(Sockets)
      /\ Len(<<e>> \o q) = Len(<<e>>) + Len(q)
      /\ \A j \in 1 .. Len(<<e>>) + Len(q) :
           (<<e>> \o q)[j] = IF j <= Len(<<e>>) THEN <<e>>[j]
                             ELSE q[j - Len(<<e>>)]
  BY <1>1, ConcatProperties
<1>4. \A j \in 1 .. Len(q) + 1 :
        (<<e>> \o q)[j] = IF j = 1 THEN e ELSE q[j - 1]
  BY <1>1, <1>2, <1>3
<1>5. DOMAIN (<<e>> \o q) = 1 .. Len(q) + 1
  BY <1>1, <1>2, <1>3, LenProperties
<1>6. Range(<<e>> \o q) = Range(q) \cup {e}
  <2>1. PICK r : r = <<e>> \o q
    OBVIOUS
  <2>2. \A x \in Range(r) : x \in Range(q) \cup {e}
    BY <1>2, <1>4, <1>5, <2>1 DEF Range
  <2>3. e \in Range(r)
    BY <1>2, <1>4, <1>5, <2>1 DEF Range
  <2>4. ASSUME NEW i \in DOMAIN q
        PROVE  q[i] \in Range(r)
    <3>1. i + 1 \in DOMAIN r /\ r[i + 1] = q[i]
      BY <1>2, <1>4, <1>5, <2>1
    <3> QED
      BY <3>1 DEF Range
  <2> QED
    BY <2>1, <2>2, <2>3, <2>4 DEF Range
<1> QED
  BY <1>3, <1>4, <1>5, <1>6

LEMMA ConsTidy ==
  ASSUME NEW q \in Seq(Sockets), NEW e \in Sockets, NEW o \in Sockets,
         Tidy(q, o), e \notin Range(q)
  PROVE  Tidy(<<e>> \o q, o)
<1>1. PICK r \in Seq(Sockets) : r = <<e>> \o q
  BY ConsKeeps
<1>2. /\ DOMAIN r = 1 .. Len(q) + 1
      /\ \A j \in DOMAIN r : r[j] = IF j = 1 THEN e ELSE q[j - 1]
  BY <1>1, ConsKeeps
<1>3. Len(q) \in Nat /\ DOMAIN q = 1 .. Len(q)
  BY LenProperties
<1>4. \A j \in DOMAIN r : j # 1 => j - 1 \in DOMAIN q /\ r[j] = q[j - 1]
  BY <1>2, <1>3
<1>5. \A j \in DOMAIN r : r[j] = e => j = 1
  BY <1>4 DEF Range
<1>6. ASSUME NEW k \in DOMAIN r, NEW l \in DOMAIN r, r[k] = r[l]
      PROVE  k = l \/ r[k] = o
  BY <1>2, <1>3, <1>4, <1>5, <1>6 DEF Tidy
<1>7. ASSUME NEW k \in DOMAIN r, NEW l \in DOMAIN r, NEW m \in DOMAIN r,
             r[k] = o, r[l] = o, r[m] = o
      PROVE  k = l \/ l = m \/ k = m
  <2>1. CASE e = o
    BY <1>5, <1>7, <2>1
  <2>2. CASE e # o
    <3>1. k # 1 /\ l # 1 /\ m # 1
      BY <1>2, <1>7, <2>2
    <3>2. /\ k - 1 \in DOMAIN q /\ l - 1 \in DOMAIN q /\ m - 1 \in DOMAIN q
          /\ q[k - 1] = o /\ q[l - 1] = o /\ q[m - 1] = o
      BY <1>4, <1>7, <3>1
    <3>3. k - 1 = l - 1 \/ l - 1 = m - 1 \/ k - 1 = m - 1
      BY <3>2 DEF Tidy
    <3> QED
      BY <1>2, <1>3, <3>3
  <2> QED
    BY <2>1, <2>2
<1> QED
  BY <1>1, <1>6, <1>7 DEF Tidy

LEMMA OwnerTwiceTidy ==
  ASSUME NEW q \in Seq(Sockets), NEW o \in Sockets, Tidy(q, o),
         o \notin Range(q)
  PROVE  Tidy(<<o>> \o (<<o>> \o q), o)
<1>1. PICK r \in Seq(Sockets) : r = <<o>> \o q
  BY ConsKeeps
<1>2. /\ DOMAIN r = 1 .. Len(q) + 1
      /\ \A j \in DOMAIN r : r[j] = IF j = 1 THEN o ELSE q[j - 1]
  BY <1>1, ConsKeeps
<1>3. /\ Len(q) \in Nat /\ DOMAIN q = 1 .. Len(q) /\ Len(r) = Len(q) + 1
  BY <1>2, LenProperties
<1>4. PICK u \in Seq(Sockets) : u = <<o>> \o r
  BY ConsKeeps
<1>5. /\ DOMAIN u = 1 .. Len(r) + 1
      /\ \A j \in DOMAIN u : u[j] = IF j = 1 THEN o ELSE r[j - 1]
  BY <1>4, ConsKeeps
<1>6. ASSUME NEW j \in DOMAIN u \ {1, 2}
      PROVE  j - 2 \in DOMAIN q /\ u[j] = q[j - 2]
  <2>1. /\ j \in Nat /\ 3 <= j /\ j <= Len(q) + 2
        /\ j - 1 \in DOMAIN r /\ j - 1 # 1 /\ j - 2 \in DOMAIN q
    BY <1>2, <1>3, <1>5
  <2>2. u[j] = r[j - 1]
    BY <1>5, <2>1
  <2>3. r[j - 1] = q[(j - 1) - 1]
    BY <1>2, <2>1
  <2>4. (j - 1) - 1 = j - 2
    BY <2>1
  <2> QED
    BY <2>1, <2>2, <2>3, <2>4
<1>7. \A j \in DOMAIN u : u[j] = o => j \in {1, 2}
  BY <1>6 DEF Range
<1>8. ASSUME NEW k \in DOMAIN u, NEW l \in DOMAIN u, u[k] = u[l], u[k] # o
      PROVE  k = l
  <2>1. k \notin {1, 2} /\ l \notin {1, 2}
    BY <1>2, <1>3, <1>5, <1>8
  <2>2. /\ k - 2 \in DOMAIN q /\ l - 2 \in DOMAIN q
        /\ q[k - 2] = q[l - 2] /\ q[k - 2] # o
    BY <1>6, <1>8, <2>1
  <2>3. k - 2 = l - 2
    BY <2>2 DEF Tidy
  <2> QED
    BY <1>3, <1>5, <2>3
<1>9. ASSUME NEW k \in DOMAIN u, NEW l \in DOMAIN u, NEW m \in DOMAIN u,
             u[k] = o, u[l] = o, u[m] = o
      PROVE  k = l \/ l = m \/ k = m
  BY <1>7, <1>9
<1> QED
  BY <1>1, <1>4, <1>8, <1>9 DEF Tidy


-----------------------------------------------------------------------------
(* The user list                                                           *)

(* What is found by socket is a node with that socket, if there is one.    *)
LEMMA FindSocket ==
  ASSUME NEW list \in Seq(Node), NEW s
  PROVE  \/ /\ findSocketNode(list, s) = 0
            /\ \A i \in DOMAIN list : list[i].socket # s
         \/ /\ findSocketNode(list, s) \in DOMAIN list
            /\ findSocketNode(list, s) # 0
            /\ list[findSocketNode(list, s)].socket = s
<1> DEFINE I == {i \in 1 .. Len(list) : list[i].socket = s}
<1>1. DOMAIN list = 1 .. Len(list) /\ Len(list) \in Nat
  BY LenProperties
<1>2. findSocketNode(list, s) = IF I # {} THEN Min(I) ELSE 0
  BY DEF findSocketNode, SelectInSeq
<1>3. I \in SUBSET (Nat \ {0})
  BY <1>1
<1>4. I # {} => Min(I) \in I
  <2>1. I \in SUBSET Nat
    BY <1>3
  <2> HIDE DEF I
  <2> QED
    BY <2>1, LeastNat
<1> QED
  BY <1>1, <1>2, <1>3, <1>4

(* The same for what is found by name.                                     *)
LEMMA FindName ==
  ASSUME NEW list \in Seq(Node), NEW n
  PROVE  \/ /\ findU(list, n) = 0
            /\ \A i \in DOMAIN list : list[i].username # n
         \/ /\ findU(list, n) \in DOMAIN list
            /\ findU(list, n) # 0
            /\ list[findU(list, n)].username = n
<1> DEFINE I == {i \in 1 .. Len(list) : list[i].username = n}
<1>1. DOMAIN list = 1 .. Len(list) /\ Len(list) \in Nat
  BY LenProperties
<1>2. findU(list, n) = IF I # {} THEN Min(I) ELSE 0
  BY DEF findU, SelectInSeq
<1>3. I \in SUBSET (Nat \ {0})
  BY <1>1
<1>4. I # {} => Min(I) \in I
  <2>1. I \in SUBSET Nat
    BY <1>3
  <2> HIDE DEF I
  <2> QED
    BY <2>1, LeastNat
<1> QED
  BY <1>1, <1>2, <1>3, <1>4

(* In a well-formed list a socket finds its one node.                      *)
LEMMA TheNode ==
  ASSUME NEW list, WellFormed(list), NEW i \in DOMAIN list
  PROVE  findSocketNode(list, list[i].socket) = i
<1>1. list \in Seq(Node)
  BY DEF WellFormed
<1>2. PICK s : s = list[i].socket
  OBVIOUS
<1>3. /\ findSocketNode(list, s) \in DOMAIN list
      /\ list[findSocketNode(list, s)].socket = s
  BY <1>1, <1>2, FindSocket
<1> QED
  BY <1>2, <1>3 DEF WellFormed

LEMMA NodeTypes ==
  ASSUME NEW list, WellFormed(list), NEW i \in DOMAIN list
  PROVE  /\ list[i] \in Node
         /\ list[i].socket \in Sockets
         /\ list[i].username \in Names
         /\ list[i].dm \in Seq(Sockets)
<1>1. list \in Seq(Node)
  BY DEF WellFormed
<1>2. list[i] \in Node
  BY <1>1, LenProperties, ElementOfSeq
<1> QED
  BY <1>2 DEF Node

\* new has the nodes of old, in their order and with their names.
SameNodes(old, new) ==
  /\ new \in Seq(Node)
  /\ DOMAIN new = DOMAIN old
  /\ \A j \in DOMAIN old : /\ new[j].socket = old[j].socket
                           /\ new[j].username = old[j].username

SetDm(list, i, q) == [list EXCEPT ![i].dm = q]

(* Changing the direct connections of one node changes nothing else.       *)
LEMMA NodeDm ==
  ASSUME NEW list \in Seq(Node), NEW i \in DOMAIN list, NEW q \in Seq(Sockets)
  PROVE  /\ SameNodes(list, SetDm(list, i, q))
         /\ \A j \in DOMAIN list :
              SetDm(list, i, q)[j].dm = IF j = i THEN q ELSE list[j].dm
<1>0. PICK new : new = [list EXCEPT ![i].dm = q]
  OBVIOUS
<1>1. DOMAIN list = 1 .. Len(list)
  BY LenProperties
<1>2. list[i] \in Node
  BY <1>1, ElementOfSeq
<1>3. PICK e \in Node : e = [list[i] EXCEPT !.dm = q]
  BY <1>2 DEF Node
<1>4. new = [list EXCEPT ![i] = e]
  BY <1>0, <1>3
<1>5. /\ new \in Seq(Node)
      /\ Len(new) = Len(list)
      /\ \A j \in 1 .. Len(list) : new[j] = IF j = i THEN e ELSE list[j]
  <2>1. i \in 1 .. Len(list)
    BY <1>1
  <2>2. /\ [list EXCEPT ![i] = e] \in Seq(Node)
        /\ Len([list EXCEPT ![i] = e]) = Len(list)
        /\ \A j \in 1 .. Len(list) :
             [list EXCEPT ![i] = e][j] = IF j = i THEN e ELSE list[j]
    BY <2>1, ExceptSeq
  <2> QED
    BY <1>4, <2>2
<1>6. DOMAIN new = DOMAIN list
  BY <1>1, <1>5, LenProperties
<1>7. e.socket = list[i].socket /\ e.username = list[i].username /\ e.dm = q
  BY <1>2, <1>3 DEF Node
<1> QED
  BY <1>0, <1>1, <1>5, <1>6, <1>7 DEF SameNodes, SetDm

LEMMA AddDmIs ==
  ASSUME NEW list \in Seq(Node), NEW i \in DOMAIN list, NEW s \in Sockets
  PROVE  /\ SameNodes(list, AddDm(list, i, s))
         /\ \A j \in DOMAIN list :
              AddDm(list, i, s)[j].dm =
                IF j = i THEN <<s>> \o list[j].dm ELSE list[j].dm
<1>1. list[i].dm \in Seq(Sockets)
  <2>1. list[i] \in Node
    BY LenProperties, ElementOfSeq
  <2> QED
    BY <2>1 DEF Node
<1>2. PICK q \in Seq(Sockets) : q = <<s>> \o list[i].dm
  BY <1>1, ConsKeeps
<1>3. AddDm(list, i, s) = SetDm(list, i, q)
  BY <1>2 DEF AddDm, SetDm
<1>4. /\ SameNodes(list, SetDm(list, i, q))
      /\ \A j \in DOMAIN list :
           SetDm(list, i, q)[j].dm = IF j = i THEN q ELSE list[j].dm
  BY NodeDm
<1> QED
  BY <1>2, <1>3, <1>4

LEMMA RemoveDmIs ==
  ASSUME NEW list \in Seq(Node), NEW i \in DOMAIN list, NEW s
  PROVE  /\ SameNodes(list, RemoveDm(list, i, s))
         /\ \A j \in DOMAIN list :
              RemoveDm(list, i, s)[j].dm =
                IF j = i THEN RemoveFirst(list[j].dm, s) ELSE list[j].dm
<1>1. list[i].dm \in Seq(Sockets)
  <2>1. list[i] \in Node
    BY LenProperties, ElementOfSeq
  <2> QED
    BY <2>1 DEF Node
<1>2. PICK q \in Seq(Sockets) : q = RemoveFirst(list[i].dm, s)
  BY <1>1, RemoveFirstTyped
<1>3. RemoveDm(list, i, s) = SetDm(list, i, q)
  BY <1>2 DEF RemoveDm, SetDm
<1> QED
  BY <1>2, <1>3, NodeDm


-----------------------------------------------------------------------------
(* One lemma for each change of the user list                              *)

\* Whom node i of a list has a direct connection to.
DmOf(list, i) == Range(list[i].dm)

\* At node i, d is added for p and s for q, or they are taken away.
Adds(old, new, i, p, d, q, s) ==
  \A x : x \in DmOf(new, i) <=>
           x \in DmOf(old, i) \/ (i = p /\ x = d) \/ (i = q /\ x = s)

Drops(old, new, i, p, d, q, s) ==
  \A x : x \in DmOf(new, i) <=>
           x \in DmOf(old, i) /\ ~(i = p /\ x = d) /\ ~(i = q /\ x = s)

LEMMA SameNodesKeep ==
  ASSUME NEW old, WellFormed(old), NEW new, SameNodes(old, new),
         NEW S \in SUBSET Sockets, Knows(old, S),
         \A i \in DOMAIN old : Tidy(new[i].dm, old[i].socket),
         \A i, j \in DOMAIN old :
           old[j].socket \in DmOf(new, i) => old[i].socket \in DmOf(new, j),
         \A i \in DOMAIN old : DmOf(new, i) \subseteq S
  PROVE  WellFormed(new) /\ Knows(new, S)
BY DEF WellFormed, SameNodes, Knows, DmOf, Guest

(* Connecting two nodes puts each into the other's list.                   *)
LEMMA ConnectIs ==
  ASSUME NEW list, WellFormed(list), NEW S \in SUBSET Sockets, Knows(list, S),
         NEW p \in DOMAIN list, NEW q \in DOMAIN list,
         NEW s, s = list[p].socket, NEW d, d = list[q].socket,
         NEW new, new = add_dm_connection_socket(list, s, d)
  PROVE  /\ SameNodes(list, new)
         /\ \A i \in DOMAIN list :
              /\ Tidy(new[i].dm, list[i].socket)
              /\ Adds(list, new, i, p, d, q, s)
<1>1. /\ list \in Seq(Node)
      /\ s \in Sockets /\ d \in Sockets
      /\ findSocketNode(list, s) = p
      /\ findSocketNode(list, d) = q
      /\ \A i \in DOMAIN list : list[i].dm \in Seq(Sockets)
      /\ \A i \in DOMAIN list : Tidy(list[i].dm, list[i].socket)
  BY NodeTypes, TheNode DEF WellFormed
<1>2. CASE d \in DmOf(list, p)
  <2>1. new = list
    BY <1>1, <1>2 DEF add_dm_connection_socket, DmOf
  <2>2. s \in DmOf(list, q)
    BY <1>2 DEF WellFormed, DmOf
  <2> QED
    BY <1>1, <1>2, <2>1, <2>2 DEF SameNodes, Adds, DmOf
<1>3. CASE d \notin DmOf(list, p)
  <2>1. PICK mid : mid = AddDm(list, p, d)
    OBVIOUS
  <2>2. new = AddDm(mid, q, s)
    BY <1>1, <1>3, <2>1 DEF add_dm_connection_socket, DmOf
  <2>3. /\ SameNodes(list, mid)
        /\ \A i \in DOMAIN list :
             mid[i].dm = IF i = p THEN <<d>> \o list[i].dm ELSE list[i].dm
    BY <1>1, <2>1, AddDmIs
  <2>4. /\ mid \in Seq(Node) /\ DOMAIN mid = DOMAIN list
    BY <2>3 DEF SameNodes
  <2>5. /\ SameNodes(mid, new)
        /\ \A i \in DOMAIN list :
             new[i].dm = IF i = q THEN <<s>> \o mid[i].dm ELSE mid[i].dm
    BY <1>1, <2>2, <2>4, AddDmIs
  <2>6. SameNodes(list, new)
    BY <2>3, <2>5 DEF SameNodes
  <2>7. ASSUME NEW i \in DOMAIN list
        PROVE  mid[i].dm \in Seq(Sockets)
    <3>1. list[i].dm \in Seq(Sockets) /\ <<d>> \o list[i].dm \in Seq(Sockets)
      BY <1>1, ConsKeeps
    <3> QED
      BY <2>3, <3>1
  <2>8. \A i \in DOMAIN list :
          DmOf(mid, i) = DmOf(list, i) \cup (IF i = p THEN {d} ELSE {})
    BY <1>1, <2>3, ConsKeeps DEF DmOf
  <2>9. \A i \in DOMAIN list :
          DmOf(new, i) = DmOf(mid, i) \cup (IF i = q THEN {s} ELSE {})
    BY <1>1, <2>5, <2>7, ConsKeeps DEF DmOf
  <2>10. s \notin DmOf(list, q)
    BY <1>3 DEF WellFormed, DmOf
  <2>11. ASSUME NEW i \in DOMAIN list
         PROVE  Tidy(new[i].dm, list[i].socket)
    <3>0. list[i].dm \in Seq(Sockets) /\ list[i].socket \in Sockets
      BY NodeTypes
    <3>1. CASE p = q
      <4>1. d = s /\ s \notin Range(list[p].dm)
        BY <1>3, <3>1 DEF DmOf
      <4>2. CASE i = p
        <5>1. new[i].dm = <<s>> \o (<<s>> \o list[i].dm)
          BY <2>3, <2>5, <3>1, <4>1, <4>2
        <5> QED
          BY <1>1, <3>0, <4>1, <4>2, <5>1, OwnerTwiceTidy
      <4>3. CASE i # p
        BY <1>1, <2>3, <2>5, <3>1, <4>3
      <4> QED
        BY <4>2, <4>3
    <3>2. CASE p # q
      <4>1. CASE i = p
        <5>1. new[i].dm = <<d>> \o list[i].dm
          BY <2>3, <2>5, <3>2, <4>1
        <5> QED
          BY <1>1, <1>3, <3>0, <4>1, <5>1, ConsTidy DEF DmOf
      <4>2. CASE i = q
        <5>1. new[i].dm = <<s>> \o list[i].dm
          BY <2>3, <2>5, <3>2, <4>2
        <5> QED
          BY <1>1, <2>10, <3>0, <4>2, <5>1, ConsTidy DEF DmOf
      <4>3. CASE i # p /\ i # q
        BY <1>1, <2>3, <2>5, <4>3
      <4> QED
        BY <4>1, <4>2, <4>3
    <3> QED
      BY <3>1, <3>2
  <2> QED
    BY <2>6, <2>8, <2>9, <2>11 DEF Adds
<1> QED
  BY <1>2, <1>3

(* Disconnecting two nodes takes each out of the other's list.             *)
LEMMA DisconnectIs ==
  ASSUME NEW list, WellFormed(list), NEW S \in SUBSET Sockets, Knows(list, S),
         NEW p \in DOMAIN list, NEW q \in DOMAIN list,
         NEW s, s = list[p].socket, NEW d, d = list[q].socket,
         NEW new, new = remove_dm_connection_socket(list, s, d)
  PROVE  /\ SameNodes(list, new)
         /\ \A i \in DOMAIN list :
              /\ Tidy(new[i].dm, list[i].socket)
              /\ Drops(list, new, i, p, d, q, s)
<1>1. /\ list \in Seq(Node)
      /\ s \in Sockets /\ d \in Sockets
      /\ findSocketNode(list, s) = p
      /\ findSocketNode(list, d) = q
      /\ \A i \in DOMAIN list : list[i].dm \in Seq(Sockets)
      /\ \A i \in DOMAIN list : Tidy(list[i].dm, list[i].socket)
  BY NodeTypes, TheNode DEF WellFormed
<1>2. PICK mid : mid = RemoveDm(list, p, d)
  OBVIOUS
<1>3. new = RemoveDm(mid, q, s)
  BY <1>1, <1>2 DEF remove_dm_connection_socket
<1>4. /\ SameNodes(list, mid)
      /\ \A i \in DOMAIN list :
           mid[i].dm = IF i = p THEN RemoveFirst(list[i].dm, d) ELSE list[i].dm
  BY <1>1, <1>2, RemoveDmIs
<1>5. /\ mid \in Seq(Node) /\ DOMAIN mid = DOMAIN list
      /\ mid[q].socket = list[q].socket
  BY <1>4 DEF SameNodes
<1>6. ASSUME NEW i \in DOMAIN list
      PROVE  mid[i].dm \in Seq(Sockets) /\ Tidy(mid[i].dm, list[i].socket)
  <2>1. list[i].dm \in Seq(Sockets) /\ Tidy(list[i].dm, list[i].socket)
    BY <1>1
  <2>2. /\ RemoveFirst(list[i].dm, d) \in Seq(Sockets)
        /\ Tidy(RemoveFirst(list[i].dm, d), list[i].socket)
    BY <2>1, RemoveFirstKeeps
  <2> QED
    BY <1>4, <2>1, <2>2
<1>7. /\ SameNodes(mid, new)
      /\ \A i \in DOMAIN list :
           new[i].dm = IF i = q THEN RemoveFirst(mid[i].dm, s) ELSE mid[i].dm
  BY <1>1, <1>3, <1>5, <1>6, RemoveDmIs
<1>8. SameNodes(list, new)
  BY <1>4, <1>7 DEF SameNodes
<1>9. \A i \in DOMAIN list : Tidy(new[i].dm, list[i].socket)
  BY <1>6, <1>7, RemoveFirstKeeps
<1>10. ASSUME NEW i \in DOMAIN list
       PROVE  Drops(list, new, i, p, d, q, s)
  <2>1. CASE p = q
    <3>1. CASE i = p
      <4>1. new[i].dm = RemoveFirst(RemoveFirst(list[i].dm, s), s)
        BY <1>4, <1>7, <2>1, <3>1
      <4>2. s \notin DmOf(new, i)
        BY <1>1, <3>1, <4>1, RemoveOwner DEF DmOf
      <4>3. mid[i].dm = RemoveFirst(list[i].dm, s)
        BY <1>4, <2>1, <3>1
      <4>4. /\ Range(mid[i].dm) \subseteq Range(list[i].dm)
            /\ Range(list[i].dm) \ {s} \subseteq Range(mid[i].dm)
        BY <1>1, <4>3, RemoveFirstKeeps
      <4>5. /\ Range(new[i].dm) \subseteq Range(mid[i].dm)
            /\ Range(mid[i].dm) \ {s} \subseteq Range(new[i].dm)
        <5>1. mid[i].dm \in Seq(Sockets) /\ Tidy(mid[i].dm, list[i].socket)
          BY <1>6
        <5>2. new[i].dm = RemoveFirst(mid[i].dm, s)
          BY <1>7, <2>1, <3>1
        <5>3. /\ Range(RemoveFirst(mid[i].dm, s)) \subseteq Range(mid[i].dm)
              /\ Range(mid[i].dm) \ {s}
                   \subseteq Range(RemoveFirst(mid[i].dm, s))
          BY <5>1, RemoveFirstKeeps
        <5> QED
          BY <5>2, <5>3
      <4> QED
        BY <2>1, <3>1, <4>2, <4>4, <4>5 DEF DmOf, Drops
    <3>2. CASE i # p
      BY <1>4, <1>7, <2>1, <3>2 DEF DmOf, Drops
    <3> QED
      BY <3>1, <3>2
  <2>2. CASE p # q
    <3>1. s # d
      BY <2>2 DEF WellFormed
    <3>2. CASE i = p
      <4>1. new[i].dm = RemoveFirst(list[i].dm, d)
        BY <1>4, <1>7, <2>2, <3>2
      <4>2. /\ Range(new[i].dm) \subseteq Range(list[i].dm)
            /\ Range(list[i].dm) \ {d} \subseteq Range(new[i].dm)
            /\ d \notin Range(new[i].dm)
        <5>1. /\ list[i].dm \in Seq(Sockets)
              /\ Tidy(list[i].dm, list[i].socket) /\ d # list[i].socket
          BY <1>1, <3>1, <3>2
        <5>2. /\ Range(RemoveFirst(list[i].dm, d)) \subseteq Range(list[i].dm)
              /\ Range(list[i].dm) \ {d}
                   \subseteq Range(RemoveFirst(list[i].dm, d))
              /\ d \notin Range(RemoveFirst(list[i].dm, d))
          BY <5>1, RemoveFirstKeeps
        <5> QED
          BY <4>1, <5>2
      <4> QED
        BY <2>2, <3>2, <4>2 DEF DmOf, Drops
    <3>3. CASE i = q
      <4>1. new[i].dm = RemoveFirst(list[i].dm, s)
        BY <1>4, <1>7, <2>2, <3>3
      <4>2. /\ Range(new[i].dm) \subseteq Range(list[i].dm)
            /\ Range(list[i].dm) \ {s} \subseteq Range(new[i].dm)
            /\ s \notin Range(new[i].dm)
        <5>1. /\ list[i].dm \in Seq(Sockets)
              /\ Tidy(list[i].dm, list[i].socket) /\ s # list[i].socket
          BY <1>1, <3>1, <3>3
        <5>2. /\ Range(RemoveFirst(list[i].dm, s)) \subseteq Range(list[i].dm)
              /\ Range(list[i].dm) \ {s}
                   \subseteq Range(RemoveFirst(list[i].dm, s))
              /\ s \notin Range(RemoveFirst(list[i].dm, s))
          BY <5>1, RemoveFirstKeeps
        <5> QED
          BY <4>1, <5>2
      <4> QED
        BY <2>2, <3>3, <4>2 DEF DmOf, Drops
    <3>4. CASE i # p /\ i # q
      BY <1>4, <1>7, <3>4 DEF DmOf, Drops
    <3> QED
      BY <3>2, <3>3, <3>4
  <2> QED
    BY <2>1, <2>2
<1> QED
  BY <1>8, <1>9, <1>10


(* A guest's node goes to the front of the list.                           *)
LEMMA InsertIs ==
  ASSUME NEW list \in Seq(Node), NEW s \in Sockets, findU(list, Guest(s)) = 0,
         NEW new, new = insertFirstU(list, s, Guest(s))
  PROVE  /\ new \in Seq(Node)
         /\ DOMAIN new = 1 .. Len(list) + 1
         /\ new[1] = [socket |-> s, username |-> Guest(s), dm |-> << >>]
         /\ \A j \in DOMAIN list : j + 1 \in DOMAIN new /\ new[j + 1] = list[j]
<1>1. Len(list) \in Nat /\ DOMAIN list = 1 .. Len(list)
  BY LenProperties
<1>2. findU(list, s) = 0
  BY DEF Guest
<1>3. PICK n \in Node :
        n = [socket |-> s, username |-> Guest(s), dm |-> << >>]
  BY EmptySeq DEF Node, Guest, Names
<1>4. new = <<n>> \o list
  BY <1>2, <1>3 DEF insertFirstU, Guest
<1>5. <<n>> \in Seq(Node) /\ Len(<<n>>) = 1 /\ <<n>>[1] = n
  BY <1>3
<1>6. /\ <<n>> \o list \in Seq(Node)
      /\ Len(<<n>> \o list) = Len(<<n>>) + Len(list)
      /\ \A j \in 1 .. Len(<<n>>) + Len(list) :
           (<<n>> \o list)[j] = IF j <= Len(<<n>>) THEN <<n>>[j]
                                ELSE list[j - Len(<<n>>)]
  BY <1>1, <1>5, ConcatProperties
<1>7. \A j \in 1 .. Len(list) + 1 :
        new[j] = IF j = 1 THEN n ELSE list[j - 1]
  BY <1>1, <1>4, <1>5, <1>6
<1>8. new \in Seq(Node) /\ Len(new) = Len(list) + 1
  BY <1>1, <1>4, <1>5, <1>6
<1>9. DOMAIN new = 1 .. Len(list) + 1
  BY <1>8, LenProperties
<1>10. ASSUME NEW j \in DOMAIN list
       PROVE  j + 1 \in DOMAIN new /\ new[j + 1] = list[j]
  <2>1. j + 1 \in 1 .. Len(list) + 1 /\ j + 1 # 1 /\ (j + 1) - 1 = j
    BY <1>1
  <2> QED
    BY <1>7, <1>9, <2>1
<1>11. new[1] = n
  BY <1>1, <1>7
<1> QED
  BY <1>3, <1>8, <1>9, <1>10, <1>11

LEMMA InsertKeeps ==
  ASSUME NEW list, WellFormed(list), NEW S \in SUBSET Sockets, Knows(list, S),
         NEW s \in Sockets \ S, findU(list, Guest(s)) = 0,
         NEW new, new = insertFirstU(list, s, Guest(s))
  PROVE  WellFormed(new) /\ Knows(new, S \cup {s})
<1>1. /\ new \in Seq(Node)
      /\ DOMAIN new = 1 .. Len(list) + 1
      /\ new[1] = [socket |-> s, username |-> Guest(s), dm |-> << >>]
      /\ \A j \in DOMAIN list : j + 1 \in DOMAIN new /\ new[j + 1] = list[j]
  BY InsertIs DEF WellFormed
<1>2. list \in Seq(Node) /\ Len(list) \in Nat /\ DOMAIN list = 1 .. Len(list)
  BY LenProperties DEF WellFormed
<1>3. \A i \in DOMAIN new : i # 1 => i - 1 \in DOMAIN list /\ new[i] = list[i - 1]
  <2> SUFFICES ASSUME NEW i \in DOMAIN new, i # 1
               PROVE  i - 1 \in DOMAIN list /\ new[i] = list[i - 1]
    OBVIOUS
  <2>1. i - 1 \in DOMAIN list /\ (i - 1) + 1 = i
    BY <1>1, <1>2
  <2> QED
    BY <1>1, <2>1
<1>4. new[1].socket = s /\ new[1].username = Guest(s) /\ DmOf(new, 1) = {}
  <2>1. Range(<< >>) = {}
    BY DEF Range
  <2> QED
    BY <1>1, <2>1 DEF DmOf
<1>5. \A i \in DOMAIN list : list[i].socket \in S /\ Range(list[i].dm) \subseteq S
  BY DEF Knows
<1>6. \A i \in DOMAIN new : i # 1 =>
        new[i].socket \in S /\ DmOf(new, i) \subseteq S
  BY <1>3, <1>5 DEF DmOf
<1>7. \A i, j \in DOMAIN new : new[i].socket = new[j].socket => i = j
  <2> SUFFICES ASSUME NEW i \in DOMAIN new, NEW j \in DOMAIN new,
                      new[i].socket = new[j].socket
               PROVE  i = j
    OBVIOUS
  <2>1. CASE i = 1 \/ j = 1
    BY <1>4, <1>6, <2>1
  <2>2. CASE i # 1 /\ j # 1
    <3>1. i - 1 = j - 1
      BY <1>3, <2>2 DEF WellFormed
    <3> QED
      BY <1>1, <1>2, <3>1
  <2> QED
    BY <2>1, <2>2
<1>8. ASSUME NEW i \in DOMAIN new, NEW j \in DOMAIN new,
             new[j].socket \in DmOf(new, i)
      PROVE  new[i].socket \in DmOf(new, j)
  <2>1. i # 1 /\ j # 1
    BY <1>4, <1>6, <1>8
  <2> QED
    BY <1>3, <1>8, <2>1 DEF WellFormed, DmOf
<1>9. \A i \in DOMAIN new : Tidy(new[i].dm, new[i].socket)
  <2> TAKE i \in DOMAIN new
  <2>1. CASE i = 1
    <3>1. new[i].dm = << >>
      BY <1>1, <2>1
    <3> QED
      BY <3>1 DEF Tidy
  <2>2. CASE i # 1
    BY <1>3, <2>2 DEF WellFormed
  <2> QED
    BY <2>1, <2>2
<1>10. WellFormed(new)
  BY <1>1, <1>7, <1>8, <1>9 DEF WellFormed, DmOf
<1>11. ASSUME NEW t \in S \cup {s}
       PROVE  \E i \in DOMAIN new : new[i].socket = t
  <2>1. CASE t = s
    <3>1. 1 \in DOMAIN new
      BY <1>1, <1>2
    <3> QED
      BY <1>4, <2>1, <3>1
  <2>2. CASE t # s
    <3>1. PICK j \in DOMAIN list : list[j].socket = t
      BY <2>2, <1>11 DEF Knows
    <3> QED
      BY <1>1, <3>1
  <2> QED
    BY <2>1, <2>2
<1>12. Knows(new, S \cup {s})
  BY <1>4, <1>6, <1>11 DEF Knows, DmOf
<1> QED
  BY <1>10, <1>12

SetName(list, i, n) == [list EXCEPT ![i].username = n]

(* Logging in changes the name of one node.                                *)
LEMMA SetNameIs ==
  ASSUME NEW list \in Seq(Node), NEW i \in DOMAIN list, NEW n \in Names,
         NEW new, new = SetName(list, i, n)
  PROVE  /\ new \in Seq(Node)
         /\ DOMAIN new = DOMAIN list
         /\ \A j \in DOMAIN list :
              /\ new[j].socket = list[j].socket
              /\ new[j].dm = list[j].dm
              /\ new[j].username = IF j = i THEN n ELSE list[j].username
<1>1. DOMAIN list = 1 .. Len(list)
  BY LenProperties
<1>2. list[i] \in Node
  BY <1>1, ElementOfSeq
<1>3. PICK e \in Node : e = [list[i] EXCEPT !.username = n]
  BY <1>2 DEF Node
<1>4. new = [list EXCEPT ![i] = e]
  BY <1>3 DEF SetName
<1>5. /\ new \in Seq(Node)
      /\ Len(new) = Len(list)
      /\ \A j \in 1 .. Len(list) : new[j] = IF j = i THEN e ELSE list[j]
  <2>1. i \in 1 .. Len(list)
    BY <1>1
  <2>2. /\ [list EXCEPT ![i] = e] \in Seq(Node)
        /\ Len([list EXCEPT ![i] = e]) = Len(list)
        /\ \A j \in 1 .. Len(list) :
             [list EXCEPT ![i] = e][j] = IF j = i THEN e ELSE list[j]
    BY <1>1, <1>3, <2>1, ExceptSeq
  <2> QED
    BY <1>4, <2>2
<1>6. DOMAIN new = DOMAIN list
  BY <1>1, <1>5, LenProperties
<1>7. e.socket = list[i].socket /\ e.username = n /\ e.dm = list[i].dm
  BY <1>2, <1>3 DEF Node
<1> QED
  BY <1>1, <1>5, <1>6, <1>7

LEMMA LoginKeeps ==
  ASSUME NEW list, WellFormed(list), NEW S \in SUBSET Sockets, Knows(list, S),
         NEW i \in DOMAIN list, NEW n \in Names,
         NEW new, new = SetName(list, i, n)
  PROVE  WellFormed(new) /\ Knows(new, S)
<1>1. /\ new \in Seq(Node)
      /\ DOMAIN new = DOMAIN list
      /\ \A j \in DOMAIN list :
           /\ new[j].socket = list[j].socket
           /\ new[j].dm = list[j].dm
  BY SetNameIs DEF WellFormed
<1> QED
  BY <1>1 DEF WellFormed, Knows

\* Where the node at j of a list was before the one at p was removed.
Before(p, j) == IF j < p THEN j ELSE j + 1

(* Forgetting a client takes it out of everybody's list and removes its    *)
(* node.                                                                   *)
LEMMA ForgetIs ==
  ASSUME NEW list, WellFormed(list), NEW p \in DOMAIN list,
         NEW s, s = list[p].socket,
         NEW new, new = removeUserBySocket(remove_all_dms_for_user(list, s), s)
  PROVE  /\ new \in Seq(Node)
         /\ \A j \in DOMAIN new :
              /\ Before(p, j) \in DOMAIN list \ {p}
              /\ new[j].socket = list[Before(p, j)].socket
              /\ new[j].username = list[Before(p, j)].username
              /\ DmOf(new, j) = DmOf(list, Before(p, j)) \ {s}
              /\ Tidy(new[j].dm, list[Before(p, j)].socket)
         /\ \A i \in DOMAIN list \ {p} : \E j \in DOMAIN new : Before(p, j) = i
         /\ \A j, k \in DOMAIN new : Before(p, j) = Before(p, k) => j = k
<1>1. /\ list \in Seq(Node) /\ Len(list) \in Nat /\ DOMAIN list = 1 .. Len(list)
      /\ s \in Sockets
  BY LenProperties, NodeTypes DEF WellFormed
<1>2. PICK mid : mid = remove_all_dms_for_user(list, s)
  OBVIOUS
<1>3. ASSUME NEW i \in DOMAIN list
      PROVE  /\ mid[i] \in Node
             /\ mid[i].socket = list[i].socket
             /\ mid[i].username = list[i].username
             /\ mid[i].dm = RemoveFirst(list[i].dm, s)
             /\ Tidy(mid[i].dm, list[i].socket)
             /\ i # p => DmOf(mid, i) = DmOf(list, i) \ {s}
  <2>1. /\ list[i] \in Node /\ list[i].dm \in Seq(Sockets)
        /\ Tidy(list[i].dm, list[i].socket)
    BY NodeTypes DEF WellFormed
  <2>2. mid[i] = [list[i] EXCEPT !.dm = RemoveFirst(list[i].dm, s)]
    BY <1>2 DEF remove_all_dms_for_user
  <2>3. /\ RemoveFirst(list[i].dm, s) \in Seq(Sockets)
        /\ Tidy(RemoveFirst(list[i].dm, s), list[i].socket)
        /\ Range(RemoveFirst(list[i].dm, s)) \subseteq Range(list[i].dm)
        /\ Range(list[i].dm) \ {s} \subseteq Range(RemoveFirst(list[i].dm, s))
        /\ s # list[i].socket => s \notin Range(RemoveFirst(list[i].dm, s))
    BY <2>1, RemoveFirstKeeps
  <2>4. PICK r \in Seq(Sockets) : r = RemoveFirst(list[i].dm, s)
    BY <2>3
  <2>5. mid[i] = [list[i] EXCEPT !.dm = r]
    BY <2>2, <2>4
  <2>6. /\ mid[i] \in Node
        /\ mid[i].socket = list[i].socket
        /\ mid[i].username = list[i].username
        /\ mid[i].dm = r
    BY <2>1, <2>4, <2>5 DEF Node
  <2>7. i # p => s # list[i].socket
    BY DEF WellFormed
  <2> QED
    BY <2>3, <2>4, <2>6, <2>7 DEF DmOf
<1>4. mid \in Seq(Node) /\ DOMAIN mid = DOMAIN list
  <2>1. mid = [i \in 1 .. Len(list) |-> mid[i]]
    BY <1>1, <1>2 DEF remove_all_dms_for_user
  <2>2. mid \in [1 .. Len(list) -> Node]
    BY <1>1, <1>3, <2>1
  <2> QED
    BY <1>1, <2>2, SeqDef
<1>5. Len(mid) = Len(list) /\ p \in 1 .. Len(mid)
  BY <1>1, <1>4, LenProperties
<1>6. new = RemoveAt(mid, p)
  <2> DEFINE I == {i \in 1 .. Len(mid) : mid[i].socket = s}
  <2>1. I = {p}
    BY <1>1, <1>3, <1>5 DEF WellFormed
  <2>2. Min({p}) = p
    BY <1>1 DEF Min
  <2>3. SelectInSeq(mid, LAMBDA u : u.socket = s) = p
    BY <2>1, <2>2 DEF SelectInSeq
  <2>4. \E i \in 1 .. Len(mid) : mid[i].socket = s
    BY <2>1
  <2> QED
    BY <1>2, <2>3, <2>4 DEF removeUserBySocket, RemoveFirstMatch
<1>7. /\ new \in Seq(Node)
      /\ DOMAIN new = 1 .. Len(list) - 1
      /\ \A j \in 1 .. Len(list) - 1 :
           new[j] = IF j < p THEN mid[j] ELSE mid[j + 1]
  BY <1>4, <1>5, <1>6, RemoveAtIs
<1>8. \A j \in DOMAIN new :
        Before(p, j) \in DOMAIN list \ {p} /\ new[j] = mid[Before(p, j)]
  BY <1>1, <1>7 DEF Before
<1>9. \A i \in DOMAIN list \ {p} : \E j \in DOMAIN new : Before(p, j) = i
  <2> TAKE i \in DOMAIN list \ {p}
  <2>1. CASE i < p
    BY <1>1, <1>7, <2>1 DEF Before
  <2>2. CASE ~(i < p)
    <3>1. i - 1 \in DOMAIN new /\ Before(p, i - 1) = i
      BY <1>1, <1>7, <2>2 DEF Before
    <3> QED
      BY <3>1
  <2> QED
    BY <2>1, <2>2
<1>10. \A j, k \in DOMAIN new : Before(p, j) = Before(p, k) => j = k
  BY <1>1, <1>7 DEF Before
<1>11. ASSUME NEW j \in DOMAIN new
       PROVE  /\ Before(p, j) \in DOMAIN list \ {p}
              /\ new[j].socket = list[Before(p, j)].socket
              /\ new[j].username = list[Before(p, j)].username
              /\ DmOf(new, j) = DmOf(list, Before(p, j)) \ {s}
              /\ Tidy(new[j].dm, list[Before(p, j)].socket)
  <2>1. PICK i \in DOMAIN list \ {p} : i = Before(p, j) /\ new[j] = mid[i]
    BY <1>8
  <2>2. DmOf(new, j) = DmOf(mid, i)
    BY <2>1 DEF DmOf
  <2> QED
    BY <1>3, <2>1, <2>2
<1> QED
  BY <1>7, <1>9, <1>10, <1>11

LEMMA ForgetKeeps ==
  ASSUME NEW list, WellFormed(list), NEW S \in SUBSET Sockets, Knows(list, S),
         NEW p \in DOMAIN list, NEW s, s = list[p].socket,
         NEW new, new = removeUserBySocket(remove_all_dms_for_user(list, s), s)
  PROVE  WellFormed(new) /\ Knows(new, S \ {s})
<1>1. /\ new \in Seq(Node)
      /\ \A j \in DOMAIN new :
           /\ Before(p, j) \in DOMAIN list \ {p}
           /\ new[j].socket = list[Before(p, j)].socket
           /\ new[j].username = list[Before(p, j)].username
           /\ DmOf(new, j) = DmOf(list, Before(p, j)) \ {s}
           /\ Tidy(new[j].dm, list[Before(p, j)].socket)
      /\ \A i \in DOMAIN list \ {p} : \E j \in DOMAIN new : Before(p, j) = i
      /\ \A j, k \in DOMAIN new : Before(p, j) = Before(p, k) => j = k
  BY ForgetIs
<1>2. \A j \in DOMAIN new : new[j].socket # s
  BY <1>1 DEF WellFormed
<1>3. \A i, j \in DOMAIN new : new[i].socket = new[j].socket => i = j
  BY <1>1 DEF WellFormed
<1>4. ASSUME NEW i \in DOMAIN new, NEW j \in DOMAIN new,
             new[j].socket \in DmOf(new, i)
      PROVE  new[i].socket \in DmOf(new, j)
  <2>1. PICK b \in DOMAIN list : b = Before(p, i)
    BY <1>1
  <2>2. PICK c \in DOMAIN list : c = Before(p, j)
    BY <1>1
  <2>3. /\ new[i].socket = list[b].socket /\ new[j].socket = list[c].socket
        /\ DmOf(new, i) = DmOf(list, b) \ {s}
        /\ DmOf(new, j) = DmOf(list, c) \ {s}
    BY <1>1, <2>1, <2>2
  <2>4. list[b].socket \in DmOf(list, c)
    BY <1>4, <2>3 DEF WellFormed, DmOf
  <2> QED
    BY <1>2, <2>3, <2>4
<1>5. WellFormed(new)
  BY <1>1, <1>3, <1>4 DEF WellFormed, DmOf
<1>6. \A j \in DOMAIN new :
        new[j].socket \in S \ {s} /\ DmOf(new, j) \subseteq S \ {s}
  <2> SUFFICES ASSUME NEW j \in DOMAIN new
               PROVE  new[j].socket \in S \ {s} /\ DmOf(new, j) \subseteq S \ {s}
    OBVIOUS
  <2>1. PICK i \in DOMAIN list : i = Before(p, j)
    BY <1>1
  <2>2. new[j].socket = list[i].socket /\ DmOf(new, j) = DmOf(list, i) \ {s}
    BY <1>1, <2>1
  <2>3. list[i].socket \in S /\ DmOf(list, i) \subseteq S
    BY DEF Knows, DmOf
  <2> QED
    BY <1>2, <2>2, <2>3
<1>7. ASSUME NEW t \in S \ {s}
      PROVE  \E j \in DOMAIN new : new[j].socket = t
  <2>1. PICK i \in DOMAIN list : list[i].socket = t
    BY DEF Knows
  <2> QED
    BY <1>1, <2>1
<1> QED
  BY <1>5, <1>6, <1>7 DEF Knows, DmOf

(* Removing a client takes its first node out of the list, if it has one.  *)
LEMMA RemoveUserIs ==
  ASSUME NEW list \in Seq(Node), NEW s, NEW new,
         new = removeUserBySocket(list, s)
  PROVE  \/ new = list
         \/ \E p \in DOMAIN list : list[p].socket = s /\ new = RemoveAt(list, p)
<1>1. DOMAIN list = 1 .. Len(list)
  BY LenProperties
<1>2. CASE \E p \in 1 .. Len(list) : list[p].socket = s
  <2>1. new = RemoveAt(list, findSocketNode(list, s))
    BY <1>2 DEF removeUserBySocket, RemoveFirstMatch, findSocketNode
  <2> QED
    BY <1>1, <1>2, <2>1, FindSocket
<1>3. CASE ~(\E p \in 1 .. Len(list) : list[p].socket = s)
  BY <1>3 DEF removeUserBySocket, RemoveFirstMatch
<1> QED
  BY <1>2, <1>3

(* Whatever list it is, whoever is taken out of the lists of direct        *)
(* connections, removing a client leaves the others their nodes.           *)
LEMMA OthersStay ==
  ASSUME NEW list \in Seq(Node), NEW u, NEW s,
         NEW new, new = removeUserBySocket(remove_all_dms_for_user(list, u), s)
  PROVE  /\ new \in Seq(Node)
         /\ \A t : t # s /\ HasNode(list, t) => HasNode(new, t)
<1>1. Len(list) \in Nat /\ DOMAIN list = 1 .. Len(list)
  BY LenProperties
<1>2. PICK mid : mid = remove_all_dms_for_user(list, u)
  OBVIOUS
<1>3. ASSUME NEW i \in DOMAIN list
      PROVE  mid[i] \in Node /\ mid[i].socket = list[i].socket
  <2>1. list[i] \in Node
    BY <1>1, ElementOfSeq
  <2>2. PICK q : q = RemoveFirst(list[i].dm, u)
    OBVIOUS
  <2>3. q \in Seq(Sockets)
    BY <2>1, <2>2, RemoveFirstTyped DEF Node
  <2>4. mid[i] = [list[i] EXCEPT !.dm = q]
    BY <1>2, <2>2 DEF remove_all_dms_for_user
  <2> QED
    BY <2>1, <2>3, <2>4 DEF Node
<1>4. mid \in Seq(Node) /\ DOMAIN mid = DOMAIN list
  <2>1. mid = [i \in 1 .. Len(list) |-> mid[i]]
    BY <1>1, <1>2 DEF remove_all_dms_for_user
  <2>2. mid \in [1 .. Len(list) -> Node]
    BY <1>1, <1>3, <2>1
  <2> QED
    BY <1>1, <2>2, SeqDef
<1>5. new = removeUserBySocket(mid, s)
  BY <1>2
<1>6. CASE new = mid
  BY <1>3, <1>4, <1>6 DEF HasNode
<1>7. ASSUME NEW p \in DOMAIN mid, mid[p].socket = s, new = RemoveAt(mid, p)
      PROVE  /\ new \in Seq(Node)
             /\ \A t : t # s /\ HasNode(list, t) => HasNode(new, t)
  <2>1. Len(mid) = Len(list)
    BY <1>1, <1>4, LenProperties
  <2>2. /\ new \in Seq(Node)
        /\ DOMAIN new = 1 .. Len(list) - 1
        /\ \A j \in 1 .. Len(list) - 1 :
             new[j] = IF j < p THEN mid[j] ELSE mid[j + 1]
    <3>1. /\ RemoveAt(mid, p) \in Seq(Node)
          /\ DOMAIN RemoveAt(mid, p) = 1 .. Len(mid) - 1
          /\ \A j \in 1 .. Len(mid) - 1 :
               RemoveAt(mid, p)[j] = IF j < p THEN mid[j] ELSE mid[j + 1]
      BY <1>4, RemoveAtIs
    <3> QED
      BY <1>7, <2>1, <3>1
  <2>3. ASSUME NEW t, t # s, NEW i \in DOMAIN list, list[i].socket = t
        PROVE  \E j \in DOMAIN new : new[j].socket = t
    <3>1. i # p /\ mid[i].socket = t
      BY <1>3, <1>7, <2>3
    <3>2. CASE i < p
      <4>1. i \in DOMAIN new /\ new[i] = mid[i]
        BY <1>1, <1>4, <1>7, <2>2, <3>2
      <4> QED
        BY <3>1, <4>1
    <3>3. CASE ~(i < p)
      <4>1. i - 1 \in DOMAIN new /\ ~(i - 1 < p) /\ (i - 1) + 1 = i
        BY <1>1, <1>4, <1>7, <2>2, <3>1, <3>3
      <4>2. new[i - 1] = mid[i]
        BY <2>2, <4>1
      <4> QED
        BY <3>1, <4>1, <4>2
    <3> QED
      BY <3>2, <3>3
  <2> QED
    BY <2>2, <2>3 DEF HasNode
<1> QED
  BY <1>4, <1>5, <1>6, <1>7, RemoveUserIs


-----------------------------------------------------------------------------
(* The rooms                                                               *)

\* Who is in room r, nobody if it does not exist.
In(rooms, r) == IF r \in DOMAIN rooms THEN rooms[r] ELSE {}

LEMMA CreateRoomDomain ==
  ASSUME NEW rooms, NEW r
  PROVE  DOMAIN create_room(rooms, r) = DOMAIN rooms \cup {r}
BY DEF create_room

LEMMA CreateRoomIn ==
  ASSUME NEW rooms, NEW r, NEW q
  PROVE  In(create_room(rooms, r), q) = In(rooms, q)
BY DEF create_room, In

LEMMA AddUserDomain ==
  ASSUME NEW rooms, NEW s, NEW r
  PROVE  DOMAIN add_user_to_room(rooms, s, r) = DOMAIN rooms \cup {r}
BY CreateRoomDomain DEF add_user_to_room

LEMMA AddUserInOther ==
  ASSUME NEW rooms, NEW s, NEW r, NEW q, q # r
  PROVE  In(add_user_to_room(rooms, s, r), q) = In(rooms, q)
BY CreateRoomDomain, CreateRoomIn DEF add_user_to_room, In

LEMMA AddUserInIt ==
  ASSUME NEW rooms, NEW s, NEW r
  PROVE  In(add_user_to_room(rooms, s, r), r) = In(rooms, r) \cup {s}
<1>1. PICK mid : mid = create_room(rooms, r)
  OBVIOUS
<1>2. r \in DOMAIN mid
  BY <1>1, CreateRoomDomain
<1>3. mid[r] = In(rooms, r)
  <2>1. In(mid, r) = In(rooms, r)
    BY <1>1, CreateRoomIn
  <2> QED
    BY <1>2, <2>1 DEF In
<1>4. PICK new : new = [mid EXCEPT ![r] = mid[r] \cup {s}]
  OBVIOUS
<1>5. new = add_user_to_room(rooms, s, r)
  BY <1>1, <1>4 DEF add_user_to_room
<1>6. r \in DOMAIN new /\ new[r] = mid[r] \cup {s}
  BY <1>2, <1>4
<1> QED
  BY <1>3, <1>5, <1>6 DEF In

LEMMA RemoveUserDomain ==
  ASSUME NEW rooms, NEW s, NEW r
  PROVE  DOMAIN remove_user_from_room(rooms, s, r) = DOMAIN rooms
BY DEF remove_user_from_room

LEMMA RemoveUserInOther ==
  ASSUME NEW rooms, NEW s, NEW r, NEW q, q # r
  PROVE  In(remove_user_from_room(rooms, s, r), q) = In(rooms, q)
BY DEF remove_user_from_room, In

LEMMA RemoveUserInIt ==
  ASSUME NEW rooms, NEW s, NEW r
  PROVE  In(remove_user_from_room(rooms, s, r), r) = In(rooms, r) \ {s}
<1>1. CASE r \in DOMAIN rooms
  <2>1. PICK new : new = [rooms EXCEPT ![r] = rooms[r] \ {s}]
    OBVIOUS
  <2>2. r \in DOMAIN new /\ new[r] = rooms[r] \ {s}
    BY <1>1, <2>1
  <2>3. new = remove_user_from_room(rooms, s, r)
    BY <1>1, <2>1 DEF remove_user_from_room
  <2> QED
    BY <1>1, <2>2, <2>3 DEF In
<1>2. CASE r \notin DOMAIN rooms
  BY <1>2 DEF remove_user_from_room, In
<1> QED
  BY <1>1, <1>2

LEMMA RemoveFromAllDomain ==
  ASSUME NEW rooms, NEW s
  PROVE  DOMAIN remove_user_from_all_rooms(rooms, s) = DOMAIN rooms
BY DEF remove_user_from_all_rooms

LEMMA RemoveFromAllIn ==
  ASSUME NEW rooms, NEW s, NEW q
  PROVE  In(remove_user_from_all_rooms(rooms, s), q) = In(rooms, q) \ {s}
BY DEF remove_user_from_all_rooms, In

LEMMA RoomsOfIn ==
  ASSUME NEW rooms, NEW S
  PROVE  RoomsOf(rooms, S) <=> \A q : In(rooms, q) \subseteq S
BY DEF RoomsOf, In

-----------------------------------------------------------------------------
(* What is true of every step, whatever the clients did before: types, and *)
(* that an open connection keeps its node                                  *)

\* What KeepsItsNode says of a step.
KeepsNodes ==
  /\ \A s \in Sockets : conn'[s] = "open" /\ ~HasNode(head', s) =>
       \/ conn[s] = "open" /\ ~HasNode(head, s)
       \/ /\ conn[s] = "accepted"
          /\ \E i \in DOMAIN head : /\ head[i].username = Guest(s)
                                   /\ head[i].socket # s
  /\ ~up' => \E s \in Sockets : conn[s] = "open" /\ ~HasNode(head, s)

LEMMA InitTypes == Init => Types
<1> SUFFICES ASSUME Init PROVE Types
  OBVIOUS
<1>1. conn = [s \in Sockets |-> "closed"] /\ head = << >> /\ up = TRUE
      /\ room_head = create_room(<< >>, Lobby) /\ heard = Nobody
  BY DEF Init
<1>2. DOMAIN room_head = {Lobby} /\ RoomsOf(room_head, Sockets)
  BY <1>1 DEF create_room, RoomsOf
<1>3. head \in Seq(Node)
  BY <1>1, EmptySeq
<1> QED
  BY <1>1, <1>2, <1>3, ChatServerAssumption DEF Types, ListTypes, Nobody

LEMMA AcceptAlways ==
  ASSUME ListTypes, NEW s \in Sockets, Accept(s)
  PROVE  ListTypes' /\ (up => KeepsNodes)
BY DEF Accept, ListTypes, KeepsNodes

LEMMA EnterAlways ==
  ASSUME ListTypes, NEW s \in Sockets, Enter(s)
  PROVE  ListTypes' /\ (up => KeepsNodes)
<1>1. /\ conn[s] = "accepted"
      /\ conn' = [conn EXCEPT ![s] = "open"]
      /\ head' = insertFirstU(head, s, Guest(s))
      /\ room_head' = add_user_to_room(create_room(room_head, Lobby), s, Lobby)
      /\ up' = up
      /\ conn' \in [Sockets -> {"closed", "accepted", "open"}]
  BY DEF Enter, ListTypes
<1>2. PICK old, new : old = head /\ new = head'
  OBVIOUS
<1>3. old \in Seq(Node) /\ new = insertFirstU(old, s, Guest(s))
  BY <1>1, <1>2 DEF ListTypes
<1>4. ASSUME findU(old, Guest(s)) = 0
      PROVE  /\ new \in Seq(Node) /\ HasNode(new, s)
             /\ \A t : HasNode(old, t) => HasNode(new, t)
  <2>1. /\ new \in Seq(Node)
        /\ DOMAIN new = 1 .. Len(old) + 1
        /\ new[1] = [socket |-> s, username |-> Guest(s), dm |-> << >>]
        /\ \A j \in DOMAIN old : j + 1 \in DOMAIN new /\ new[j + 1] = old[j]
    BY <1>3, <1>4, InsertIs
  <2>2. \A t : HasNode(old, t) => HasNode(new, t)
    BY <2>1 DEF HasNode
  <2>3. HasNode(new, s)
    <3>1. 1 \in DOMAIN new
      BY <1>3, <2>1, LenProperties
    <3>2. new[1].socket = s
      BY <2>1
    <3> QED
      BY <3>1, <3>2 DEF HasNode
  <2> QED
    BY <2>1, <2>2, <2>3
<1>5. ASSUME findU(old, Guest(s)) # 0
      PROVE  /\ new = old
             /\ \E i \in DOMAIN old : old[i].username = Guest(s)
  <2>1. new = old
    BY <1>3, <1>5 DEF insertFirstU
  <2>2. \E i \in DOMAIN old : old[i].username = Guest(s)
    BY <1>3, <1>5, FindName
  <2> QED
    BY <2>1, <2>2
<1>6. /\ new \in Seq(Node)
      /\ \A t : HasNode(old, t) => HasNode(new, t)
      /\ ~HasNode(new, s) =>
           \E i \in DOMAIN old : old[i].username = Guest(s) /\ old[i].socket # s
  <2>1. CASE findU(old, Guest(s)) = 0
    BY <1>4, <2>1
  <2>2. CASE findU(old, Guest(s)) # 0
    BY <1>3, <1>5, <2>2 DEF HasNode
  <2> QED
    BY <2>1, <2>2
<1>7. up => KeepsNodes
  BY <1>1, <1>2, <1>6 DEF KeepsNodes, ListTypes
<1>8. DOMAIN room_head' = DOMAIN room_head \cup {Lobby}
      /\ RoomsOf(room_head', Sockets)
  <2>1. PICK rooms, mid, end :
          /\ rooms = room_head /\ mid = create_room(rooms, Lobby)
          /\ end = add_user_to_room(mid, s, Lobby) /\ end = room_head'
    BY <1>1
  <2>2. DOMAIN end = DOMAIN rooms \cup {Lobby}
    <3>1. DOMAIN create_room(rooms, Lobby) = DOMAIN rooms \cup {Lobby}
      BY CreateRoomDomain
    <3>2. DOMAIN add_user_to_room(mid, s, Lobby) = DOMAIN mid \cup {Lobby}
      BY AddUserDomain
    <3> QED
      BY <2>1, <3>1, <3>2
  <2>3. ASSUME NEW q
        PROVE  In(end, q) \subseteq In(rooms, q) \cup {s}
    <3>1. In(mid, q) = In(rooms, q)
      BY <2>1, CreateRoomIn
    <3>2. In(end, q) \subseteq In(mid, q) \cup {s}
      <4>1. In(add_user_to_room(mid, s, Lobby), Lobby) = In(mid, Lobby) \cup {s}
        BY AddUserInIt
      <4>2. CASE q # Lobby
        <5>1. In(add_user_to_room(mid, s, Lobby), q) = In(mid, q)
          BY <4>2, AddUserInOther
        <5> QED
          BY <2>1, <5>1
      <4> QED
        BY <2>1, <4>1, <4>2
    <3> QED
      BY <3>1, <3>2
  <2>4. \A q : In(rooms, q) \subseteq Sockets
    BY <2>1, RoomsOfIn DEF ListTypes
  <2>5. \A q : In(end, q) \subseteq Sockets
    BY <2>3, <2>4
  <2> QED
    BY <2>1, <2>2, <2>5, RoomsOfIn
<1>9. ListTypes'
  BY <1>1, <1>2, <1>6, <1>8, ChatServerAssumption DEF ListTypes
<1> QED
  BY <1>7, <1>9

LEMMA RoomCommandAlways ==
  ASSUME ListTypes, NEW s \in Sockets, NEW r \in Rooms,
         Create(s, r) \/ Join(s, r) \/ Leave(s, r)
  PROVE  ListTypes' /\ (up => KeepsNodes)
<1>1. UNCHANGED <<conn, head, up>>
  BY DEF Create, Join, Leave
<1>2. PICK old, new : old = room_head /\ new = room_head'
  OBVIOUS
<1>3. \/ new = create_room(old, r)
      \/ new = add_user_to_room(old, s, r)
      \/ new = remove_user_from_room(old, s, r)
  BY <1>2 DEF Create, Join, Leave
<1>4. DOMAIN new \subseteq DOMAIN old \cup {r} /\ DOMAIN old \subseteq DOMAIN new
  <2>1. DOMAIN create_room(old, r) = DOMAIN old \cup {r}
    BY CreateRoomDomain
  <2>2. DOMAIN add_user_to_room(old, s, r) = DOMAIN old \cup {r}
    BY AddUserDomain
  <2>3. DOMAIN remove_user_from_room(old, s, r) = DOMAIN old
    BY RemoveUserDomain
  <2> QED
    BY <1>3, <2>1, <2>2, <2>3
<1>5. ASSUME NEW q
      PROVE  In(new, q) \subseteq In(old, q) \cup {s}
  <2>1. CASE q = r
    BY <1>3, <2>1, CreateRoomIn, AddUserInIt, RemoveUserInIt
  <2>2. CASE q # r
    BY <1>3, <2>2, CreateRoomIn, AddUserInOther, RemoveUserInOther
  <2> QED
    BY <2>1, <2>2
<1>6. RoomsOf(new, Sockets)
  <2>1. \A q : In(old, q) \subseteq Sockets
    BY <1>2, RoomsOfIn DEF ListTypes
  <2>2. \A q : In(new, q) \subseteq Sockets
    BY <1>5, <2>1
  <2> QED
    BY <2>2, RoomsOfIn
<1>7. ListTypes'
  BY <1>1, <1>2, <1>4, <1>6 DEF ListTypes
<1>8. up => KeepsNodes
  BY <1>1 DEF KeepsNodes
<1> QED
  BY <1>7, <1>8

(* Connecting and disconnecting two nodes changes no node's socket.        *)
LEMMA DmTyped ==
  ASSUME NEW list \in Seq(Node), NEW s \in Sockets, NEW d \in Sockets,
         findSocketNode(list, s) # 0, findSocketNode(list, d) # 0,
         NEW new, \/ new = add_dm_connection_socket(list, s, d)
                  \/ new = remove_dm_connection_socket(list, s, d)
  PROVE  SameNodes(list, new)
<1>1. PICK p \in DOMAIN list : p = findSocketNode(list, s)
  BY FindSocket
<1>2. PICK q \in DOMAIN list : q = findSocketNode(list, d)
  BY FindSocket
<1>3. CASE new = list
  BY <1>3 DEF SameNodes
<1>4. CASE new = AddDm(AddDm(list, p, d), q, s)
  <2>1. PICK mid : mid = AddDm(list, p, d)
    OBVIOUS
  <2>2. SameNodes(list, mid)
    BY <2>1, AddDmIs
  <2>3. mid \in Seq(Node) /\ q \in DOMAIN mid
    BY <2>2 DEF SameNodes
  <2>4. SameNodes(mid, new)
    BY <1>4, <2>1, <2>3, AddDmIs
  <2> QED
    BY <2>2, <2>4 DEF SameNodes
<1>5. CASE new = RemoveDm(RemoveDm(list, p, d), q, s)
  <2>1. PICK mid : mid = RemoveDm(list, p, d)
    OBVIOUS
  <2>2. SameNodes(list, mid)
    BY <2>1, RemoveDmIs
  <2>3. mid \in Seq(Node) /\ q \in DOMAIN mid
    BY <2>2 DEF SameNodes
  <2>4. SameNodes(mid, new)
    BY <1>5, <2>1, <2>3, RemoveDmIs
  <2> QED
    BY <2>2, <2>4 DEF SameNodes
<1>6. new = list \/ new = AddDm(AddDm(list, p, d), q, s)
      \/ new = RemoveDm(RemoveDm(list, p, d), q, s)
  BY <1>1, <1>2 DEF add_dm_connection_socket, remove_dm_connection_socket
<1> QED
  BY <1>3, <1>4, <1>5, <1>6

LEMMA DmCommandAlways ==
  ASSUME ListTypes, NEW s \in Sockets, NEW n \in Names,
         Connect(s, n) \/ Disconnect(s, n)
  PROVE  ListTypes' /\ (up => KeepsNodes)
<1>1. conn[s] = "open" /\ UNCHANGED <<conn, room_head>>
  BY DEF Connect, Disconnect, WithUser
<1>2. PICK old, new : old = head /\ new = head'
  OBVIOUS
<1>3. old \in Seq(Node)
  BY <1>2 DEF ListTypes
<1>4. up' \in BOOLEAN
  BY DEF Connect, Disconnect, WithUser
<1>5. ~up' => ~HasNode(old, s)
  <2>1. ~up' => findSocketNode(old, s) = 0
    BY <1>2 DEF Connect, Disconnect, WithUser
  <2> QED
    BY <1>3, <2>1, FindSocket DEF HasNode
<1>6. SameNodes(old, new)
  <2>1. CASE findU(old, n) = 0 \/ findSocketNode(old, s) = 0
    <3>1. new = old
      BY <1>2, <2>1 DEF Connect, Disconnect, WithUser
    <3> QED
      BY <1>3, <3>1 DEF SameNodes
  <2>2. CASE findU(old, n) # 0 /\ findSocketNode(old, s) # 0
    <3>1. PICK q \in DOMAIN old : q = findU(old, n)
      BY <1>3, <2>2, FindName
    <3>2. PICK d : d = old[q].socket
      OBVIOUS
    <3>3. \/ new = add_dm_connection_socket(old, s, d)
          \/ new = remove_dm_connection_socket(old, s, d)
      BY <1>2, <2>2, <3>1, <3>2 DEF Connect, Disconnect, WithUser
    <3>4. d \in Sockets
      <4>1. old[q] \in Node
        BY <1>3, LenProperties, ElementOfSeq
      <4> QED
        BY <3>2, <4>1 DEF Node
    <3>5. findSocketNode(old, d) # 0
      BY <1>3, <3>2, FindSocket
    <3> QED
      BY <1>3, <2>2, <3>3, <3>4, <3>5, DmTyped
  <2> QED
    BY <2>1, <2>2
<1>7. \A t : HasNode(old, t) => HasNode(new, t)
  BY <1>6 DEF SameNodes, HasNode
<1>8. ListTypes'
  BY <1>1, <1>2, <1>4, <1>6 DEF ListTypes, SameNodes
<1>9. KeepsNodes
  BY <1>1, <1>2, <1>5, <1>7 DEF KeepsNodes
<1> QED
  BY <1>8, <1>9

LEMMA LoginAlways ==
  ASSUME ListTypes, NEW s \in Sockets, NEW n \in Names, Login(s, n)
  PROVE  ListTypes' /\ (up => KeepsNodes)
<1>1. UNCHANGED <<conn, room_head, up>>
  BY DEF Login
<1>2. PICK old, new : old = head /\ new = head'
  OBVIOUS
<1>3. old \in Seq(Node)
  BY <1>2 DEF ListTypes
<1>4. new \in Seq(Node) /\ \A t : HasNode(old, t) => HasNode(new, t)
  <2>1. CASE findSocketNode(old, s) = 0
    <3>1. new = old
      BY <1>2, <2>1 DEF Login
    <3> QED
      BY <1>3, <3>1
  <2>2. CASE findSocketNode(old, s) # 0
    <3>1. PICK i \in DOMAIN old : i = findSocketNode(old, s)
      BY <1>3, <2>2, FindSocket
    <3>2. new = SetName(old, i, n)
      BY <1>2, <2>2, <3>1 DEF Login, SetName
    <3>3. /\ new \in Seq(Node) /\ DOMAIN new = DOMAIN old
          /\ \A j \in DOMAIN old : new[j].socket = old[j].socket
      BY <1>3, <3>2, SetNameIs
    <3> QED
      BY <3>3 DEF HasNode
  <2> QED
    BY <2>1, <2>2
<1>5. ListTypes'
  BY <1>1, <1>2, <1>4 DEF ListTypes
<1>6. up => KeepsNodes
  BY <1>1, <1>2, <1>4 DEF KeepsNodes
<1> QED
  BY <1>5, <1>6

LEMMA DepartAlways ==
  ASSUME ListTypes, NEW s \in Sockets, Exit(s) \/ Drop(s)
  PROVE  ListTypes' /\ (up => KeepsNodes)
<1>1. /\ conn' = [conn EXCEPT ![s] = "closed"] /\ up' = up
      /\ conn' \in [Sockets -> {"closed", "accepted", "open"}]
  BY DEF Exit, Drop, ListTypes
<1>2. PICK old, new, rooms, end :
        old = head /\ new = head' /\ rooms = room_head /\ end = room_head'
  OBVIOUS
<1>3. old \in Seq(Node)
  BY <1>2 DEF ListTypes
<1>4. \/ new = old /\ end = rooms
      \/ \E u : /\ end = remove_user_from_all_rooms(rooms, u)
                /\ new = removeUserBySocket(remove_all_dms_for_user(old, u), s)
  BY <1>2 DEF Exit, Forget, Drop
<1>5. new \in Seq(Node) /\ \A t : t # s /\ HasNode(old, t) => HasNode(new, t)
  BY <1>3, <1>4, OthersStay
<1>6. DOMAIN end = DOMAIN rooms
  BY <1>4, RemoveFromAllDomain
<1>7. RoomsOf(end, Sockets)
  <2>1. \A q : In(end, q) \subseteq In(rooms, q)
    BY <1>4, RemoveFromAllIn
  <2>2. \A q : In(rooms, q) \subseteq Sockets
    BY <1>2, RoomsOfIn DEF ListTypes
  <2> QED
    BY <2>1, <2>2, RoomsOfIn
<1>8. ListTypes'
  BY <1>1, <1>2, <1>5, <1>6, <1>7 DEF ListTypes
<1>9. up => KeepsNodes
  BY <1>1, <1>2, <1>5 DEF KeepsNodes, ListTypes
<1> QED
  BY <1>8, <1>9

LEMMA SayAlways ==
  ASSUME ListTypes, NEW s \in Sockets, Say(s)
  PROVE  Types' /\ (up => KeepsNodes)
<1>1. UNCHANGED <<conn, head, room_head, up>>
      /\ heard' = [from |-> s, to |-> Recipients(s)]
  BY DEF Say
<1>2. \A i \in DOMAIN head : head[i].socket \in Sockets
  <2> SUFFICES ASSUME NEW i \in DOMAIN head PROVE head[i].socket \in Sockets
    OBVIOUS
  <2>1. head[i] \in Node
    BY LenProperties, ElementOfSeq DEF ListTypes
  <2> QED
    BY <2>1 DEF Node
<1>3. Recipients(s) \in SUBSET Sockets
  BY <1>2 DEF Recipients
<1>4. Types'
  BY <1>1, <1>3 DEF Types, ListTypes
<1>5. up => KeepsNodes
  BY <1>1 DEF KeepsNodes
<1> QED
  BY <1>4, <1>5

LEMMA NextAlways ==
  ASSUME Types, [Next]_vars
  PROVE  Types' /\ [KeepsNodes]_vars
<1>1. CASE UNCHANGED vars
  BY <1>1 DEF vars, Types, ListTypes
<1>2. ASSUME NEW s \in Sockets, Say(s), up
      PROVE  Types' /\ KeepsNodes
  BY <1>2, SayAlways DEF Types
<1>3. ASSUME NEW s \in Sockets, heard' = Nobody, up,
             Accept(s) \/ Enter(s) \/ Command(s) \/ Drop(s)
      PROVE  Types' /\ KeepsNodes
  <2>1. heard' \in [from : Sockets \cup {Lobby}, to : SUBSET Sockets]
    BY <1>3 DEF Nobody
  <2>2. ListTypes
    BY DEF Types
  <2>3. CASE Accept(s)
    BY <1>3, <2>2, <2>3, AcceptAlways, <2>1 DEF Types
  <2>4. CASE Enter(s)
    BY <1>3, <2>2, <2>4, EnterAlways, <2>1 DEF Types
  <2>5. ASSUME NEW r \in Rooms, Create(s, r) \/ Join(s, r) \/ Leave(s, r)
        PROVE  Types' /\ KeepsNodes
    BY <1>3, <2>2, <2>5, RoomCommandAlways, <2>1 DEF Types
  <2>6. ASSUME NEW n \in Names, Connect(s, n) \/ Disconnect(s, n)
        PROVE  Types' /\ KeepsNodes
    BY <1>3, <2>2, <2>6, DmCommandAlways, <2>1 DEF Types
  <2>7. ASSUME NEW n \in Names, Login(s, n)
        PROVE  Types' /\ KeepsNodes
    BY <1>3, <2>2, <2>7, LoginAlways, <2>1 DEF Types
  <2>8. CASE Exit(s) \/ Drop(s)
    BY <1>3, <2>2, <2>8, DepartAlways, <2>1 DEF Types
  <2> QED
    BY <1>3, <2>3, <2>4, <2>5, <2>6, <2>7, <2>8 DEF Command
<1> QED
  BY <1>1, <1>2, <1>3 DEF Next

LEMMA TypesHold == Spec => []Types
<1>1. Types /\ [Next]_vars => Types'
  BY NextAlways
<1> QED
  BY <1>1, InitTypes, PTL DEF Spec

(* Every variable of the lists keeps its type, whatever the clients do.    *)
THEOREM TypeCorrect == Spec => []TypeOK
<1>1. Types => TypeOK
  BY DEF Types, ListTypes, TypeOK, Node, RoomsOf
<1> QED
  BY <1>1, TypesHold, PTL

(* An open connection keeps its node until it leaves, whatever names the   *)
(* others take and whoever drops; only a client whose guest name was       *)
(* another's when it arrived is without one, and only its connect or       *)
(* disconnect follows a null pointer.                                      *)
THEOREM NobodyLosesItsNode == Spec => KeepsItsNode
<1>1. Types /\ [Next]_vars => [KeepsNodes]_vars
  BY NextAlways
<1> QED
  BY <1>1, TypesHold, PTL DEF Spec, KeepsItsNode, KeepsNodes

-----------------------------------------------------------------------------
(* What keeps the lists in order                                           *)

LEMMA InOrderIs ==
  ASSUME Types, InOrder
  PROVE  ListsInv
<1> USE DEF InOrder
<1>1. head \in Seq(Node) /\ \A i \in DOMAIN head : head[i].socket \in Sockets
  <2>1. head \in Seq(Node)
    BY DEF Types, ListTypes
  <2>2. ASSUME NEW i \in DOMAIN head PROVE head[i].socket \in Sockets
    <3>1. head[i] \in Node
      BY <2>1, LenProperties, ElementOfSeq
    <3> QED
      BY <3>1 DEF Node
  <2> QED
    BY <2>1, <2>2
<1>2. \A i \in DOMAIN head : Range(head[i].dm) \subseteq Sockets
  <2> SUFFICES ASSUME NEW i \in DOMAIN head, NEW k \in DOMAIN head[i].dm
               PROVE  head[i].dm[k] \in Sockets
    BY DEF Range
  <2>1. head[i] \in Node
    BY <1>1, LenProperties, ElementOfSeq
  <2>2. head[i].dm \in Seq(Sockets)
    BY <2>1 DEF Node
  <2> QED
    BY <2>2, LenProperties, ElementOfSeq
<1>3. \A i \in DOMAIN head :
        head[i].socket \in Open /\ Range(head[i].dm) \subseteq Open
  BY <1>1, <1>2 DEF ClosedLeavesNothing, Open
<1>4. \A i, j \in DOMAIN head : head[i].socket = head[j].socket => i = j
  <2> SUFFICES ASSUME NEW i \in DOMAIN head, NEW j \in DOMAIN head,
                      head[i].socket = head[j].socket
               PROVE  i = j
    OBVIOUS
  <2>1. PICK k \in DOMAIN head :
          \A l \in DOMAIN head : head[l].socket = head[i].socket <=> l = k
    BY <1>3 DEF OneNodeEach, Open
  <2> QED
    BY <2>1
<1>5. WellFormed(head)
  BY <1>1, <1>4 DEF WellFormed, DmMutual
<1>6. Knows(head, Open)
  BY <1>3 DEF Knows, OneNodeEach, Open
<1>7. RoomsOf(room_head, Open)
  BY DEF RoomsOf, Types, ListTypes, ClosedLeavesNothing, Open
<1> QED
  BY <1>5, <1>6, <1>7 DEF ListsInv, Types, ListTypes

LEMMA IsInOrder ==
  ASSUME ListsInv
  PROVE  InOrder
<1> USE DEF ListsInv
<1>1. OneNodeEach
  <2> SUFFICES ASSUME NEW s \in Sockets, conn[s] = "open"
               PROVE  \E i \in DOMAIN head :
                        \A j \in DOMAIN head : head[j].socket = s <=> j = i
    BY DEF OneNodeEach
  <2>1. PICK i \in DOMAIN head : head[i].socket = s
    BY DEF Knows, Open
  <2>2. \A j \in DOMAIN head : head[j].socket = s <=> j = i
    BY <2>1 DEF WellFormed
  <2> QED
    BY <2>2
<1>2. DmMutual
  BY DEF DmMutual, WellFormed
<1>3. ClosedLeavesNothing
  BY DEF ClosedLeavesNothing, Knows, RoomsOf, Open
<1> QED
  BY <1>1, <1>2, <1>3 DEF InOrder, WellFormed

LEMMA InitLists == Init => ListsInv
<1> SUFFICES ASSUME Init PROVE ListsInv
  OBVIOUS
<1>1. conn = [s \in Sockets |-> "closed"] /\ head = << >> /\ up = TRUE
      /\ room_head = create_room(<< >>, Lobby)
  BY DEF Init
<1>2. DOMAIN room_head = {Lobby} /\ RoomsOf(room_head, Open)
  BY <1>1 DEF create_room, RoomsOf
<1>3. WellFormed(head) /\ Knows(head, Open)
  BY <1>1, EmptySeq DEF WellFormed, Knows, Open
<1> QED
  BY <1>1, <1>2, <1>3, ChatServerAssumption DEF ListsInv

LEMMA AcceptKeepsLists ==
  ASSUME ListsInv, NEW s \in Sockets, Accept(s)
  PROVE  ListsInv'
<1>1. /\ conn' \in [Sockets -> {"closed", "accepted", "open"}]
      /\ UNCHANGED <<head, room_head, up>>
      /\ Open' = Open
  BY DEF Accept, ListsInv, Open
<1> QED
  BY <1>1 DEF ListsInv

LEMMA EnterKeepsLists ==
  ASSUME ListsInv, NEW s \in Sockets, Enter(s), findU(head, Guest(s)) = 0
  PROVE  ListsInv'
<1>1. /\ conn[s] = "accepted"
      /\ conn' = [conn EXCEPT ![s] = "open"]
      /\ head' = insertFirstU(head, s, Guest(s))
      /\ room_head' = add_user_to_room(create_room(room_head, Lobby), s, Lobby)
      /\ up' = up
  BY DEF Enter
<1>2. /\ conn' \in [Sockets -> {"closed", "accepted", "open"}]
      /\ Open' = Open \cup {s} /\ s \notin Open /\ Open \subseteq Sockets
  BY <1>1 DEF ListsInv, Open
<1>3. PICK old, S, new : old = head /\ S = Open /\ new = head'
  OBVIOUS
<1>4. WellFormed(old) /\ Knows(old, S) /\ S \subseteq Sockets /\ s \notin S
      /\ new = insertFirstU(old, s, Guest(s)) /\ findU(old, Guest(s)) = 0
  BY <1>1, <1>2, <1>3 DEF ListsInv
<1>5. WellFormed(new) /\ Knows(new, S \cup {s})
  BY <1>4, InsertKeeps
<1>6. PICK mid, rooms :
        /\ mid = create_room(room_head, Lobby)
        /\ rooms = add_user_to_room(mid, s, Lobby) /\ rooms = room_head'
  BY <1>1
<1>7. DOMAIN rooms = DOMAIN room_head \cup {Lobby}
  <2>1. DOMAIN create_room(room_head, Lobby) = DOMAIN room_head \cup {Lobby}
    BY CreateRoomDomain
  <2>2. DOMAIN add_user_to_room(mid, s, Lobby) = DOMAIN mid \cup {Lobby}
    BY AddUserDomain
  <2> QED
    BY <1>6, <2>1, <2>2
<1>8. ASSUME NEW q
      PROVE  In(rooms, q) \subseteq In(room_head, q) \cup {s}
  <2>1. In(mid, q) = In(room_head, q)
    BY <1>6, CreateRoomIn
  <2>2. CASE q = Lobby
    <3>1. In(add_user_to_room(mid, s, Lobby), Lobby) = In(mid, Lobby) \cup {s}
      BY AddUserInIt
    <3> QED
      BY <1>6, <2>1, <2>2, <3>1
  <2>3. CASE q # Lobby
    <3>1. In(add_user_to_room(mid, s, Lobby), q) = In(mid, q)
      BY <2>3, AddUserInOther
    <3> QED
      BY <1>6, <2>1, <3>1
  <2> QED
    BY <2>2, <2>3
<1>9. RoomsOf(rooms, Open \cup {s})
  <2>1. \A q : In(room_head, q) \subseteq Open
    BY RoomsOfIn DEF ListsInv
  <2>2. \A q : In(rooms, q) \subseteq Open \cup {s}
    BY <1>8, <2>1
  <2> QED
    BY <2>2, RoomsOfIn
<1> QED
  BY <1>1, <1>2, <1>3, <1>5, <1>6, <1>7, <1>9, ChatServerAssumption DEF ListsInv

LEMMA RoomCommandKeepsLists ==
  ASSUME ListsInv, NEW s \in Sockets, NEW r \in Rooms,
         Create(s, r) \/ Join(s, r) \/ Leave(s, r)
  PROVE  ListsInv'
<1>1. /\ conn[s] = "open" /\ UNCHANGED <<conn, head, up>>
      /\ s \in Open /\ Open' = Open
  BY DEF Create, Join, Leave, Open
<1>2. PICK old, new : old = room_head /\ new = room_head'
  OBVIOUS
<1>3. \/ new = create_room(old, r)
      \/ new = add_user_to_room(old, s, r)
      \/ new = remove_user_from_room(old, s, r)
  BY <1>2 DEF Create, Join, Leave
<1>4. DOMAIN new \subseteq DOMAIN old \cup {r} /\ DOMAIN old \subseteq DOMAIN new
  <2>1. DOMAIN create_room(old, r) = DOMAIN old \cup {r}
    BY CreateRoomDomain
  <2>2. DOMAIN add_user_to_room(old, s, r) = DOMAIN old \cup {r}
    BY AddUserDomain
  <2>3. DOMAIN remove_user_from_room(old, s, r) = DOMAIN old
    BY RemoveUserDomain
  <2> QED
    BY <1>3, <2>1, <2>2, <2>3
<1>5. ASSUME NEW q
      PROVE  In(new, q) \subseteq In(old, q) \cup {s}
  <2>1. CASE q = r
    BY <1>3, <2>1, CreateRoomIn, AddUserInIt, RemoveUserInIt
  <2>2. CASE q # r
    BY <1>3, <2>2, CreateRoomIn, AddUserInOther, RemoveUserInOther
  <2> QED
    BY <2>1, <2>2
<1>6. RoomsOf(new, Open)
  <2>1. \A q : In(old, q) \subseteq Open
    BY <1>2, RoomsOfIn DEF ListsInv
  <2>2. \A q : In(new, q) \subseteq Open
    BY <1>1, <1>5, <2>1
  <2> QED
    BY <2>2, RoomsOfIn
<1> QED
  BY <1>1, <1>2, <1>4, <1>6 DEF ListsInv

(* connect and disconnect find the sender's node, and somebody of the name *)
(* if anybody has it.                                                      *)
LEMMA DmCommandIs ==
  ASSUME ListsInv, NEW s \in Sockets, NEW n \in Names,
         Connect(s, n) \/ Disconnect(s, n)
  PROVE  /\ UNCHANGED <<conn, room_head, up>>
         /\ \E p \in DOMAIN head : head[p].socket = s
         /\ \/ /\ head' = head
               /\ \A i \in DOMAIN head : head[i].username # n
            \/ \E q \in DOMAIN head :
                 /\ head[q].username = n
                 /\ Connect(s, n) =>
                      head' = add_dm_connection_socket(head, s, head[q].socket)
                 /\ Disconnect(s, n) =>
                      head' = remove_dm_connection_socket(head, s,
                                                          head[q].socket)
<1>1. conn[s] = "open" /\ UNCHANGED <<conn, room_head>>
  BY DEF Connect, Disconnect, WithUser
<1>2. head \in Seq(Node) /\ \E i \in DOMAIN head : head[i].socket = s
  BY <1>1 DEF ListsInv, WellFormed, Knows, Open
<1>3. PICK p \in DOMAIN head : /\ p = findSocketNode(head, s) /\ p # 0
                               /\ head[p].socket = s
  BY <1>2, FindSocket
<1>4. up' = up
  BY <1>3 DEF Connect, Disconnect, WithUser, ListsInv
<1>5. CASE findU(head, n) = 0
  <2>1. \A i \in DOMAIN head : head[i].username # n
    BY <1>2, <1>5, FindName
  <2> QED
    BY <1>1, <1>3, <1>4, <1>5, <2>1 DEF Connect, Disconnect, WithUser
<1>6. CASE findU(head, n) # 0
  <2>1. PICK q \in DOMAIN head : q = findU(head, n) /\ head[q].username = n
    BY <1>2, <1>6, FindName
  <2>2. Connect(s, n) =>
          head' = add_dm_connection_socket(head, s, head[q].socket)
    BY <1>3, <1>6, <2>1 DEF Connect, WithUser
  <2>3. Disconnect(s, n) =>
          head' = remove_dm_connection_socket(head, s, head[q].socket)
    BY <1>3, <1>6, <2>1 DEF Disconnect, WithUser
  <2> QED
    BY <1>1, <1>3, <1>4, <2>1, <2>2, <2>3
<1> QED
  BY <1>5, <1>6

(* Connecting keeps the lists in order.                                    *)
LEMMA AddDmKeeps ==
  ASSUME NEW list, WellFormed(list), NEW S \in SUBSET Sockets, Knows(list, S),
         NEW p \in DOMAIN list, NEW q \in DOMAIN list,
         NEW s, s = list[p].socket, NEW d, d = list[q].socket,
         NEW new, new = add_dm_connection_socket(list, s, d)
  PROVE  WellFormed(new) /\ Knows(new, S)
<1>1. s \in S /\ d \in S
  BY DEF Knows
<1>2. \A i \in DOMAIN list : DmOf(list, i) \subseteq S
  BY DEF Knows, DmOf
<1>3. \A i, j \in DOMAIN list : list[i].socket = list[j].socket => i = j
  BY DEF WellFormed
<1>4. \A i, j \in DOMAIN list :
        list[j].socket \in DmOf(list, i) => list[i].socket \in DmOf(list, j)
  BY DEF WellFormed, DmOf
<1>5. /\ SameNodes(list, new)
      /\ \A i \in DOMAIN list :
           /\ Tidy(new[i].dm, list[i].socket)
           /\ Adds(list, new, i, p, d, q, s)
  BY ConnectIs
<1>6. \A i \in DOMAIN list : DmOf(new, i) \subseteq S
  BY <1>1, <1>2, <1>5 DEF Adds
<1>7. ASSUME NEW i \in DOMAIN list, NEW j \in DOMAIN list,
             list[j].socket \in DmOf(new, i)
      PROVE  list[i].socket \in DmOf(new, j)
  BY <1>3, <1>4, <1>5, <1>7 DEF Adds
<1> QED
  BY <1>5, <1>6, <1>7, SameNodesKeep

(* So does disconnecting.                                                  *)
LEMMA RemoveDmKeeps ==
  ASSUME NEW list, WellFormed(list), NEW S \in SUBSET Sockets, Knows(list, S),
         NEW p \in DOMAIN list, NEW q \in DOMAIN list,
         NEW s, s = list[p].socket, NEW d, d = list[q].socket,
         NEW new, new = remove_dm_connection_socket(list, s, d)
  PROVE  WellFormed(new) /\ Knows(new, S)
<1>1. \A i \in DOMAIN list : DmOf(list, i) \subseteq S
  BY DEF Knows, DmOf
<1>2. \A i, j \in DOMAIN list : list[i].socket = list[j].socket => i = j
  BY DEF WellFormed
<1>3. \A i, j \in DOMAIN list :
        list[j].socket \in DmOf(list, i) => list[i].socket \in DmOf(list, j)
  BY DEF WellFormed, DmOf
<1>4. /\ SameNodes(list, new)
      /\ \A i \in DOMAIN list :
           /\ Tidy(new[i].dm, list[i].socket)
           /\ Drops(list, new, i, p, d, q, s)
  BY DisconnectIs
<1>5. \A i \in DOMAIN list : DmOf(new, i) \subseteq S
  BY <1>1, <1>4 DEF Drops
<1>6. ASSUME NEW i \in DOMAIN list, NEW j \in DOMAIN list,
             list[j].socket \in DmOf(new, i)
      PROVE  list[i].socket \in DmOf(new, j)
  BY <1>2, <1>3, <1>4, <1>6 DEF Drops
<1> QED
  BY <1>4, <1>5, <1>6, SameNodesKeep

LEMMA DmCommandKeepsLists ==
  ASSUME ListsInv, NEW s \in Sockets, NEW n \in Names,
         Connect(s, n) \/ Disconnect(s, n)
  PROVE  ListsInv'
<1>1. UNCHANGED <<conn, room_head, up>> /\ Open' = Open
  BY DmCommandIs DEF Open
<1>2. PICK old, S, new : old = head /\ S = Open /\ new = head'
  OBVIOUS
<1>3. WellFormed(old) /\ Knows(old, S) /\ S \in SUBSET Sockets
  BY <1>2 DEF ListsInv, Open
<1>4. CASE new = old
  BY <1>1, <1>2, <1>4 DEF ListsInv
<1>5. CASE new # old
  <2>1. PICK p \in DOMAIN old : s = old[p].socket
    BY <1>2, DmCommandIs
  <2>2. PICK q, d :
          /\ q \in DOMAIN old /\ d = old[q].socket
          /\ \/ new = add_dm_connection_socket(old, s, d)
             \/ new = remove_dm_connection_socket(old, s, d)
    BY <1>2, <1>5, DmCommandIs
  <2>3. CASE new = add_dm_connection_socket(old, s, d)
    <3>1. WellFormed(new) /\ Knows(new, S)
      BY <1>3, <2>1, <2>2, <2>3, AddDmKeeps
    <3> QED
      BY <1>1, <1>2, <3>1 DEF ListsInv
  <2>4. CASE new = remove_dm_connection_socket(old, s, d)
    <3>1. WellFormed(new) /\ Knows(new, S)
      BY <1>3, <2>1, <2>2, <2>4, RemoveDmKeeps
    <3> QED
      BY <1>1, <1>2, <3>1 DEF ListsInv
  <2> QED
    BY <2>2, <2>3, <2>4
<1> QED
  BY <1>4, <1>5

LEMMA LoginKeepsLists ==
  ASSUME ListsInv, NEW s \in Sockets, NEW n \in Names, Login(s, n)
  PROVE  ListsInv'
<1>1. UNCHANGED <<conn, room_head, up>> /\ Open' = Open
  BY DEF Login, Open
<1>2. PICK old, S, new : old = head /\ S = Open /\ new = head'
  OBVIOUS
<1>3. WellFormed(old) /\ Knows(old, S) /\ S \in SUBSET Sockets
      /\ old \in Seq(Node)
  BY <1>2 DEF ListsInv, Open, WellFormed
<1>4. CASE findSocketNode(old, s) = 0
  <2>1. new = old
    BY <1>2, <1>4 DEF Login
  <2> QED
    BY <1>1, <1>2, <2>1 DEF ListsInv
<1>5. CASE findSocketNode(old, s) # 0
  <2>1. PICK i \in DOMAIN old : i = findSocketNode(old, s)
    BY <1>3, <1>5, FindSocket
  <2>2. new = SetName(old, i, n)
    BY <1>2, <1>5, <2>1 DEF Login, SetName
  <2>3. WellFormed(new) /\ Knows(new, S)
    BY <1>3, <2>1, <2>2, LoginKeeps
  <2> QED
    BY <1>1, <1>2, <2>3 DEF ListsInv
<1> QED
  BY <1>4, <1>5

(* Whoever leaves takes its node, its rooms and its connections with it,   *)
(* if a dropped client is found under its guest name.                      *)
LEMMA DepartIs ==
  ASSUME ListsInv, NEW s \in Sockets, Exit(s) \/ (Drop(s) /\ OwnName(s))
  PROVE  /\ conn[s] = "open" /\ conn' = [conn EXCEPT ![s] = "closed"]
         /\ up' = up
         /\ room_head' = remove_user_from_all_rooms(room_head, s)
         /\ head' = removeUserBySocket(remove_all_dms_for_user(head, s), s)
         /\ \E p \in DOMAIN head : head[p].socket = s
<1>1. conn[s] = "open" /\ conn' = [conn EXCEPT ![s] = "closed"] /\ up' = up
  BY DEF Exit, Drop
<1>2. head \in Seq(Node) /\ \E i \in DOMAIN head : head[i].socket = s
  BY <1>1 DEF ListsInv, WellFormed, Knows, Open
<1>3. CASE Exit(s)
  <2>1. findSocketNode(head, s) # 0
    BY <1>2, FindSocket
  <2> QED
    BY <1>1, <1>2, <1>3, <2>1 DEF Exit, Forget
<1>4. CASE Drop(s) /\ OwnName(s)
  <2>1. findU(head, Guest(s)) # 0 /\ head[findU(head, Guest(s))].socket = s
    BY <1>4 DEF OwnName
  <2> QED
    BY <1>1, <1>2, <1>4, <2>1 DEF Drop
<1> QED
  BY <1>3, <1>4

LEMMA DepartKeepsLists ==
  ASSUME ListsInv, NEW s \in Sockets, Exit(s) \/ (Drop(s) /\ OwnName(s))
  PROVE  ListsInv'
<1>1. /\ conn[s] = "open" /\ conn' = [conn EXCEPT ![s] = "closed"]
      /\ up' = up
      /\ room_head' = remove_user_from_all_rooms(room_head, s)
      /\ head' = removeUserBySocket(remove_all_dms_for_user(head, s), s)
      /\ \E p \in DOMAIN head : head[p].socket = s
  BY DepartIs
<1>2. /\ conn' \in [Sockets -> {"closed", "accepted", "open"}]
      /\ Open' = Open \ {s} /\ Open \subseteq Sockets
  BY <1>1 DEF ListsInv, Open
<1>3. PICK old, S, new : old = head /\ S = Open /\ new = head'
  OBVIOUS
<1>4. WellFormed(old) /\ Knows(old, S) /\ S \in SUBSET Sockets
  BY <1>2, <1>3 DEF ListsInv
<1>5. PICK p \in DOMAIN old : s = old[p].socket
  BY <1>1, <1>3
<1>6. new = removeUserBySocket(remove_all_dms_for_user(old, s), s)
  BY <1>1, <1>3
<1>7. WellFormed(new) /\ Knows(new, S \ {s})
  BY <1>4, <1>5, <1>6, ForgetKeeps
<1>8. DOMAIN room_head' = DOMAIN room_head
  BY <1>1, RemoveFromAllDomain
<1>9. RoomsOf(room_head', Open \ {s})
  <2>1. \A q : In(room_head, q) \subseteq Open
    BY RoomsOfIn DEF ListsInv
  <2>2. \A q : In(room_head', q) \subseteq Open \ {s}
    BY <1>1, <2>1, RemoveFromAllIn
  <2> QED
    BY <2>2, RoomsOfIn
<1> QED
  BY <1>1, <1>2, <1>3, <1>7, <1>8, <1>9 DEF ListsInv

\* What OnlyNamesSpoil says of a step.
StaysInOrder == InOrder /\ ~(\E s \in Sockets : ByName(s)) => InOrder'

LEMMA NextKeepsLists ==
  ASSUME Types, Next, InOrder, ~(\E s \in Sockets : ByName(s))
  PROVE  ListsInv'
<1>1. ListsInv
  BY InOrderIs
<1>2. ASSUME NEW s \in Sockets
      PROVE  /\ Enter(s) => findU(head, Guest(s)) = 0
             /\ Drop(s) => OwnName(s)
  BY DEF ByName
<1>3. PICK s \in Sockets :
        Say(s) \/ Accept(s) \/ Enter(s) \/ Command(s) \/ Drop(s)
  BY DEF Next
<1>4. CASE Say(s)
  BY <1>1, <1>4 DEF Say, ListsInv, Open
<1>5. CASE Accept(s)
  BY <1>1, <1>5, AcceptKeepsLists
<1>6. CASE Enter(s)
  BY <1>1, <1>2, <1>6, EnterKeepsLists
<1>7. ASSUME NEW r \in Rooms, Create(s, r) \/ Join(s, r) \/ Leave(s, r)
      PROVE  ListsInv'
  BY <1>1, <1>7, RoomCommandKeepsLists
<1>8. ASSUME NEW n \in Names, Connect(s, n) \/ Disconnect(s, n)
      PROVE  ListsInv'
  BY <1>1, <1>8, DmCommandKeepsLists
<1>9. ASSUME NEW n \in Names, Login(s, n)
      PROVE  ListsInv'
  BY <1>1, <1>9, LoginKeepsLists
<1>10. CASE Exit(s) \/ Drop(s)
  BY <1>1, <1>2, <1>10, DepartKeepsLists
<1> QED
  BY <1>3, <1>4, <1>5, <1>6, <1>7, <1>8, <1>9, <1>10 DEF Command

(* Nothing but an arrival under a guest's name that somebody else has, and *)
(* a drop of a client that is not found under its guest name, brings the   *)
(* lists out of order.                                                     *)
THEOREM OnlyNamesBringDisorder == Spec => OnlyNamesSpoil
<1>1. Init => InOrder
  BY InitLists, IsInOrder
<1>2. ListsInv => InOrder
  BY IsInOrder
<1>3. ListsInv' => InOrder'
  BY <1>2, PTL
<1>4. Types /\ [Next]_vars => [StaysInOrder]_vars
  BY <1>3, NextKeepsLists DEF StaysInOrder
<1> QED
  BY <1>1, <1>4, TypesHold, PTL DEF Spec, OnlyNamesSpoil, StaysInOrder

-----------------------------------------------------------------------------
(* The directory that the lists implement                                  *)

\* What the lists say of who is online, under which name, and connected to
\* whom, and of who is in which room.
OnlineOf(list) == {list[i].socket : i \in DOMAIN list}
NamesOf(list) ==
  [s \in OnlineOf(list) |-> list[findSocketNode(list, s)].username]
FriendsOf(list) ==
  UNION {{<<list[i].socket, d>> : d \in Range(list[i].dm)} : i \in DOMAIN list}
MembersOf(rooms) == [r \in Rooms |-> In(rooms, r)]

(* Friends are exactly the entries of the nodes' lists.                    *)
LEMMA FriendsAre ==
  ASSUME NEW list, NEW f
  PROVE  f \in FriendsOf(list) <=>
           \E i \in DOMAIN list : \E d \in DmOf(list, i) :
             f = <<list[i].socket, d>>
BY DEF FriendsOf, DmOf

(* In a well-formed list a name is that of the one node of the socket.     *)
LEMMA NamesAre ==
  ASSUME NEW list, WellFormed(list), NEW i \in DOMAIN list
  PROVE  NamesOf(list)[list[i].socket] = list[i].username
<1>1. findSocketNode(list, list[i].socket) = i
  BY TheNode
<1>2. list[i].socket \in OnlineOf(list)
  BY DEF OnlineOf
<1> QED
  BY <1>1, <1>2 DEF NamesOf

(* A list under whose sockets the names are the same says the same names.  *)
LEMMA NamesAgree ==
  ASSUME NEW list, WellFormed(list), NEW F, F = [s \in OnlineOf(list) |-> F[s]],
         \A i \in DOMAIN list : F[list[i].socket] = list[i].username
  PROVE  NamesOf(list) = F
<1>1. ASSUME NEW s \in OnlineOf(list)
      PROVE  NamesOf(list)[s] = F[s]
  <2>1. PICK i \in DOMAIN list : s = list[i].socket
    BY DEF OnlineOf
  <2> QED
    BY <2>1, NamesAre
<1>2. NamesOf(list) = [s \in OnlineOf(list) |-> NamesOf(list)[s]]
  BY DEF NamesOf
<1> QED
  BY <1>1, <1>2

LEMMA SameNodesView ==
  ASSUME NEW old, WellFormed(old), NEW new, WellFormed(new), SameNodes(old, new)
  PROVE  OnlineOf(new) = OnlineOf(old) /\ NamesOf(new) = NamesOf(old)
<1>1. OnlineOf(new) = OnlineOf(old)
  BY DEF OnlineOf, SameNodes
<1>2. PICK F : F = NamesOf(old)
  OBVIOUS
<1>3. F = [s \in OnlineOf(new) |-> F[s]]
  BY <1>1, <1>2 DEF NamesOf
<1>4. \A i \in DOMAIN new : F[new[i].socket] = new[i].username
  BY <1>2, NamesAre DEF SameNodes
<1>5. NamesOf(new) = F
  BY <1>3, <1>4, NamesAgree
<1> QED
  BY <1>1, <1>2, <1>5

LEMMA ConnectView ==
  ASSUME NEW old, NEW new, SameNodes(old, new),
         NEW p \in DOMAIN old, NEW q \in DOMAIN old,
         NEW s, s = old[p].socket, NEW d, d = old[q].socket,
         \A i \in DOMAIN old : Adds(old, new, i, p, d, q, s)
  PROVE  FriendsOf(new) = FriendsOf(old) \cup {<<s, d>>, <<d, s>>}
<1>1. DOMAIN new = DOMAIN old
      /\ \A i \in DOMAIN old : new[i].socket = old[i].socket
  BY DEF SameNodes
<1>2. ASSUME NEW f \in FriendsOf(new)
      PROVE  f \in FriendsOf(old) \cup {<<s, d>>, <<d, s>>}
  <2>1. PICK i \in DOMAIN old : \E x \in DmOf(new, i) : f = <<old[i].socket, x>>
    BY <1>1, FriendsAre
  <2>2. PICK x \in DmOf(new, i) : f = <<old[i].socket, x>>
    BY <2>1
  <2>3. x \in DmOf(old, i) \/ (i = p /\ x = d) \/ (i = q /\ x = s)
    BY <2>2 DEF Adds
  <2> QED
    BY <2>2, <2>3, FriendsAre
<1>3. ASSUME NEW f \in FriendsOf(old)
      PROVE  f \in FriendsOf(new)
  <2>1. PICK i \in DOMAIN old : \E x \in DmOf(old, i) : f = <<old[i].socket, x>>
    BY FriendsAre
  <2>2. PICK x \in DmOf(old, i) : f = <<new[i].socket, x>>
    BY <1>1, <2>1
  <2>3. x \in DmOf(new, i)
    BY <2>2 DEF Adds
  <2> QED
    BY <1>1, <2>2, <2>3, FriendsAre
<1>4. d \in DmOf(new, p) /\ s \in DmOf(new, q)
  BY DEF Adds
<1>5. <<s, d>> \in FriendsOf(new) /\ <<d, s>> \in FriendsOf(new)
  BY <1>1, <1>4, FriendsAre
<1> QED
  BY <1>2, <1>3, <1>5

LEMMA DisconnectView ==
  ASSUME NEW old, WellFormed(old), NEW new, SameNodes(old, new),
         NEW p \in DOMAIN old, NEW q \in DOMAIN old,
         NEW s, s = old[p].socket, NEW d, d = old[q].socket,
         \A i \in DOMAIN old : Drops(old, new, i, p, d, q, s)
  PROVE  FriendsOf(new) = FriendsOf(old) \ {<<s, d>>, <<d, s>>}
<1>1. DOMAIN new = DOMAIN old
      /\ \A i \in DOMAIN old : new[i].socket = old[i].socket
  BY DEF SameNodes
<1>2. \A i, j \in DOMAIN old : old[i].socket = old[j].socket => i = j
  BY DEF WellFormed
<1>3. ASSUME NEW f \in FriendsOf(new)
      PROVE  f \in FriendsOf(old) \ {<<s, d>>, <<d, s>>}
  <2>1. PICK i \in DOMAIN old : \E x \in DmOf(new, i) : f = <<old[i].socket, x>>
    BY <1>1, FriendsAre
  <2>2. PICK x \in DmOf(new, i) : f = <<old[i].socket, x>>
    BY <2>1
  <2>3. x \in DmOf(old, i) /\ ~(i = p /\ x = d) /\ ~(i = q /\ x = s)
    BY <2>2 DEF Drops
  <2>4. f \in FriendsOf(old)
    BY <2>2, <2>3, FriendsAre
  <2>5. f # <<s, d>> /\ f # <<d, s>>
    BY <1>2, <2>2, <2>3
  <2> QED
    BY <2>4, <2>5
<1>4. ASSUME NEW f \in FriendsOf(old), f # <<s, d>>, f # <<d, s>>
      PROVE  f \in FriendsOf(new)
  <2>1. PICK i \in DOMAIN old : \E x \in DmOf(old, i) : f = <<old[i].socket, x>>
    BY FriendsAre
  <2>2. PICK x \in DmOf(old, i) : f = <<old[i].socket, x>>
    BY <2>1
  <2>3. x \in DmOf(new, i)
    BY <1>4, <2>2 DEF Drops
  <2> QED
    BY <1>1, <2>2, <2>3, FriendsAre
<1> QED
  BY <1>3, <1>4

LEMMA InsertView ==
  ASSUME NEW list, WellFormed(list), NEW S \in SUBSET Sockets, Knows(list, S),
         NEW s \in Sockets \ S, findU(list, Guest(s)) = 0,
         NEW new, new = insertFirstU(list, s, Guest(s))
  PROVE  /\ OnlineOf(new) = OnlineOf(list) \cup {s}
         /\ NamesOf(new) = [t \in OnlineOf(new) |->
                              IF t = s THEN Guest(s) ELSE NamesOf(list)[t]]
         /\ FriendsOf(new) = FriendsOf(list)
<1>1. /\ new \in Seq(Node)
      /\ DOMAIN new = 1 .. Len(list) + 1
      /\ new[1] = [socket |-> s, username |-> Guest(s), dm |-> << >>]
      /\ \A j \in DOMAIN list : j + 1 \in DOMAIN new /\ new[j + 1] = list[j]
  BY InsertIs DEF WellFormed
<1>2. Len(list) \in Nat /\ DOMAIN list = 1 .. Len(list)
  BY LenProperties DEF WellFormed
<1>3. ASSUME NEW i \in DOMAIN new, i # 1
      PROVE  i - 1 \in DOMAIN list /\ new[i] = list[i - 1]
  <2>1. i - 1 \in DOMAIN list /\ (i - 1) + 1 = i
    BY <1>1, <1>2, <1>3
  <2> QED
    BY <1>1, <2>1
<1>4. 1 \in DOMAIN new /\ new[1].socket = s /\ new[1].username = Guest(s)
      /\ DmOf(new, 1) = {}
  <2>1. Range(<< >>) = {}
    BY DEF Range
  <2> QED
    BY <1>1, <1>2, <2>1 DEF DmOf
<1>5. OnlineOf(new) = OnlineOf(list) \cup {s}
  <2>1. ASSUME NEW i \in DOMAIN new
        PROVE  new[i].socket \in OnlineOf(list) \cup {s}
    BY <1>3, <1>4 DEF OnlineOf
  <2>2. ASSUME NEW j \in DOMAIN list
        PROVE  list[j].socket \in OnlineOf(new)
    BY <1>1 DEF OnlineOf
  <2>3. s \in OnlineOf(new)
    BY <1>4 DEF OnlineOf
  <2> QED
    BY <2>1, <2>2, <2>3 DEF OnlineOf
<1>6. WellFormed(new)
  BY InsertKeeps
<1>7. PICK F : F = [t \in OnlineOf(new) |->
                      IF t = s THEN Guest(s) ELSE NamesOf(list)[t]]
  OBVIOUS
<1>8. ASSUME NEW i \in DOMAIN new
      PROVE  F[new[i].socket] = new[i].username
  <2>1. new[i].socket \in OnlineOf(new)
    BY DEF OnlineOf
  <2>2. CASE i = 1
    BY <1>4, <1>7, <2>1, <2>2
  <2>3. CASE i # 1
    <3>1. PICK j \in DOMAIN list : new[i] = list[j]
      BY <1>3, <2>3
    <3>2. list[j].socket # s
      BY DEF Knows
    <3>3. F[new[i].socket] = NamesOf(list)[list[j].socket]
      BY <1>7, <2>1, <3>1, <3>2
    <3> QED
      BY <3>1, <3>3, NamesAre
  <2> QED
    BY <2>2, <2>3
<1>9. NamesOf(new) = F
  <2>1. F = [t \in OnlineOf(new) |-> F[t]]
    BY <1>7
  <2> QED
    BY <1>6, <1>8, <2>1, NamesAgree
<1>10. ASSUME NEW f \in FriendsOf(new)
       PROVE  f \in FriendsOf(list)
  <2>1. PICK i \in DOMAIN new : \E x \in DmOf(new, i) : f = <<new[i].socket, x>>
    BY FriendsAre
  <2>2. PICK x \in DmOf(new, i) : f = <<new[i].socket, x>>
    BY <2>1
  <2>3. i # 1
    BY <1>4, <2>2
  <2>4. PICK j \in DOMAIN list : new[i] = list[j]
    BY <1>3, <2>3
  <2>5. x \in DmOf(list, j) /\ f = <<list[j].socket, x>>
    BY <2>2, <2>4 DEF DmOf
  <2> QED
    BY <2>5, FriendsAre
<1>11. ASSUME NEW f \in FriendsOf(list)
       PROVE  f \in FriendsOf(new)
  <2>1. PICK j \in DOMAIN list : \E x \in DmOf(list, j) : f = <<list[j].socket, x>>
    BY FriendsAre
  <2>2. PICK x \in DmOf(list, j) : f = <<list[j].socket, x>>
    BY <2>1
  <2>3. PICK i \in DOMAIN new : new[i] = list[j]
    BY <1>1
  <2>4. x \in DmOf(new, i) /\ f = <<new[i].socket, x>>
    BY <2>2, <2>3 DEF DmOf
  <2> QED
    BY <2>4, FriendsAre
<1> QED
  BY <1>5, <1>7, <1>9, <1>10, <1>11

LEMMA LoginView ==
  ASSUME NEW list, WellFormed(list), NEW S \in SUBSET Sockets, Knows(list, S),
         NEW i \in DOMAIN list, NEW n \in Names,
         NEW new, new = SetName(list, i, n)
  PROVE  /\ OnlineOf(new) = OnlineOf(list)
         /\ NamesOf(new) = [NamesOf(list) EXCEPT ![list[i].socket] = n]
         /\ FriendsOf(new) = FriendsOf(list)
<1>1. /\ WellFormed(new) /\ Knows(new, S)
      /\ DOMAIN new = DOMAIN list
      /\ \A j \in DOMAIN list :
           /\ new[j].socket = list[j].socket
           /\ new[j].dm = list[j].dm
           /\ new[j].username = IF j = i THEN n ELSE list[j].username
  <2>1. WellFormed(new) /\ Knows(new, S)
    BY LoginKeeps
  <2>2. list \in Seq(Node)
    BY DEF WellFormed
  <2>3. /\ DOMAIN new = DOMAIN list
        /\ \A j \in DOMAIN list :
             /\ new[j].socket = list[j].socket
             /\ new[j].dm = list[j].dm
             /\ new[j].username = IF j = i THEN n ELSE list[j].username
    BY <2>2, SetNameIs
  <2> QED
    BY <2>1, <2>3
<1>2. OnlineOf(new) = OnlineOf(list)
  BY <1>1 DEF OnlineOf
<1>3. PICK F : F = [NamesOf(list) EXCEPT ![list[i].socket] = n]
  OBVIOUS
<1>4. PICK G : G = NamesOf(list)
  OBVIOUS
<1>5. G = [t \in OnlineOf(list) |-> G[t]] /\ list[i].socket \in OnlineOf(list)
  BY <1>4 DEF NamesOf, OnlineOf
<1>6. F = [t \in OnlineOf(new) |-> F[t]]
      /\ \A t \in OnlineOf(list) : F[t] = IF t = list[i].socket THEN n ELSE G[t]
  BY <1>2, <1>3, <1>4, <1>5
<1>7. ASSUME NEW j \in DOMAIN new
      PROVE  F[new[j].socket] = new[j].username
  <2>1. list[j].socket \in OnlineOf(list) /\ G[list[j].socket] = list[j].username
    BY <1>1, <1>4, NamesAre DEF OnlineOf
  <2>2. j \in DOMAIN list /\ new[j].socket = list[j].socket
    BY <1>1
  <2>3. CASE j = i
    <3>1. F[list[j].socket] = n
      BY <1>6, <2>1, <2>3
    <3> QED
      BY <1>1, <2>2, <2>3, <3>1
  <2>4. CASE j # i
    <3>1. list[j].socket # list[i].socket
      BY <2>2, <2>4 DEF WellFormed
    <3>2. F[list[j].socket] = G[list[j].socket]
      BY <1>6, <2>1, <3>1
    <3> QED
      BY <1>1, <2>1, <2>2, <2>4, <3>2
  <2> QED
    BY <2>3, <2>4
<1>8. NamesOf(new) = F
  <2>1. WellFormed(new) /\ F = [t \in OnlineOf(new) |-> F[t]]
    BY <1>1, <1>6
  <2> QED
    BY <1>7, <2>1, NamesAgree
<1>9. FriendsOf(new) = FriendsOf(list)
  BY <1>1 DEF FriendsOf
<1> QED
  BY <1>2, <1>3, <1>8, <1>9

LEMMA ForgetView ==
  ASSUME NEW list, WellFormed(list), NEW S \in SUBSET Sockets, Knows(list, S),
         NEW p \in DOMAIN list, NEW s, s = list[p].socket,
         NEW new, new = removeUserBySocket(remove_all_dms_for_user(list, s), s)
  PROVE  /\ OnlineOf(new) = OnlineOf(list) \ {s}
         /\ NamesOf(new) = [t \in OnlineOf(new) |-> NamesOf(list)[t]]
         /\ FriendsOf(new) = {f \in FriendsOf(list) : f[1] # s /\ f[2] # s}
<1>1. /\ new \in Seq(Node)
      /\ \A j \in DOMAIN new :
           /\ Before(p, j) \in DOMAIN list \ {p}
           /\ new[j].socket = list[Before(p, j)].socket
           /\ new[j].username = list[Before(p, j)].username
           /\ DmOf(new, j) = DmOf(list, Before(p, j)) \ {s}
           /\ Tidy(new[j].dm, list[Before(p, j)].socket)
      /\ \A i \in DOMAIN list \ {p} : \E j \in DOMAIN new : Before(p, j) = i
      /\ \A j, k \in DOMAIN new : Before(p, j) = Before(p, k) => j = k
  BY ForgetIs
<1>2. \A i \in DOMAIN list \ {p} : list[i].socket # s
  BY DEF WellFormed
<1>3. WellFormed(new)
  BY ForgetKeeps
<1>4. OnlineOf(new) = OnlineOf(list) \ {s}
  <2>1. ASSUME NEW j \in DOMAIN new
        PROVE  new[j].socket \in OnlineOf(list) \ {s}
    BY <1>1, <1>2 DEF OnlineOf
  <2>2. ASSUME NEW i \in DOMAIN list, list[i].socket # s
        PROVE  list[i].socket \in OnlineOf(new)
    <3>1. PICK j \in DOMAIN new : Before(p, j) = i
      BY <1>1, <2>2
    <3> QED
      BY <1>1, <3>1 DEF OnlineOf
  <2> QED
    BY <2>1, <2>2 DEF OnlineOf
<1>5. PICK F : F = [t \in OnlineOf(new) |-> NamesOf(list)[t]]
  OBVIOUS
<1>6. ASSUME NEW j \in DOMAIN new
      PROVE  F[new[j].socket] = new[j].username
  <2>1. PICK i \in DOMAIN list : i = Before(p, j)
    BY <1>1
  <2>2. new[j].socket = list[i].socket /\ new[j].username = list[i].username
    BY <1>1, <2>1
  <2>3. new[j].socket \in OnlineOf(new)
    BY DEF OnlineOf
  <2> QED
    BY <1>5, <2>2, <2>3, NamesAre
<1>7. NamesOf(new) = F
  <2>1. F = [t \in OnlineOf(new) |-> F[t]]
    BY <1>5
  <2> QED
    BY <1>3, <1>6, <2>1, NamesAgree
<1>8. ASSUME NEW f \in FriendsOf(new)
      PROVE  f \in FriendsOf(list) /\ f[1] # s /\ f[2] # s
  <2>1. PICK j \in DOMAIN new : \E x \in DmOf(new, j) : f = <<new[j].socket, x>>
    BY FriendsAre
  <2>2. PICK x \in DmOf(new, j) : f = <<new[j].socket, x>>
    BY <2>1
  <2>3. PICK i \in DOMAIN list \ {p} : i = Before(p, j)
    BY <1>1
  <2>4. x \in DmOf(list, i) /\ x # s /\ f = <<list[i].socket, x>>
    BY <1>1, <2>2, <2>3
  <2> QED
    BY <1>2, <2>3, <2>4, FriendsAre
<1>9. ASSUME NEW f \in FriendsOf(list), f[1] # s, f[2] # s
      PROVE  f \in FriendsOf(new)
  <2>1. PICK i \in DOMAIN list : \E x \in DmOf(list, i) : f = <<list[i].socket, x>>
    BY FriendsAre
  <2>2. PICK x \in DmOf(list, i) : f = <<list[i].socket, x>>
    BY <2>1
  <2>3. i # p /\ x # s
    BY <1>9, <2>2
  <2>4. PICK j \in DOMAIN new : Before(p, j) = i
    BY <1>1, <2>3
  <2>5. x \in DmOf(new, j) /\ f = <<new[j].socket, x>>
    BY <1>1, <2>2, <2>3, <2>4
  <2> QED
    BY <2>5, FriendsAre
<1> QED
  BY <1>4, <1>5, <1>7, <1>8, <1>9


-----------------------------------------------------------------------------
(* The same for the rooms                                                  *)

LEMMA CreateView ==
  ASSUME NEW rooms, NEW r
  PROVE  MembersOf(create_room(rooms, r)) = MembersOf(rooms)
<1>1. \A q : In(create_room(rooms, r), q) = In(rooms, q)
  BY CreateRoomIn
<1> QED
  BY <1>1 DEF MembersOf

LEMMA JoinView ==
  ASSUME NEW rooms, NEW s, NEW r \in Rooms
  PROVE  MembersOf(add_user_to_room(rooms, s, r)) =
           [MembersOf(rooms) EXCEPT ![r] = MembersOf(rooms)[r] \cup {s}]
<1>1. In(add_user_to_room(rooms, s, r), r) = In(rooms, r) \cup {s}
  BY AddUserInIt
<1>2. \A q : q # r => In(add_user_to_room(rooms, s, r), q) = In(rooms, q)
  BY AddUserInOther
<1>3. PICK M, new : /\ M = MembersOf(rooms)
                    /\ new = MembersOf(add_user_to_room(rooms, s, r))
  OBVIOUS
<1>4. M = [q \in Rooms |-> M[q]] /\ new = [q \in Rooms |-> new[q]]
  BY <1>3 DEF MembersOf
<1>5. \A q \in Rooms : new[q] = IF q = r THEN M[r] \cup {s} ELSE M[q]
  BY <1>1, <1>2, <1>3 DEF MembersOf
<1>6. new = [M EXCEPT ![r] = M[r] \cup {s}]
  BY <1>4, <1>5
<1> QED
  BY <1>3, <1>6

LEMMA LeaveView ==
  ASSUME NEW rooms, NEW s, NEW r \in Rooms
  PROVE  MembersOf(remove_user_from_room(rooms, s, r)) =
           [MembersOf(rooms) EXCEPT ![r] = MembersOf(rooms)[r] \ {s}]
<1>1. In(remove_user_from_room(rooms, s, r), r) = In(rooms, r) \ {s}
  BY RemoveUserInIt
<1>2. \A q : q # r => In(remove_user_from_room(rooms, s, r), q) = In(rooms, q)
  BY RemoveUserInOther
<1>3. PICK M, new : /\ M = MembersOf(rooms)
                    /\ new = MembersOf(remove_user_from_room(rooms, s, r))
  OBVIOUS
<1>4. M = [q \in Rooms |-> M[q]] /\ new = [q \in Rooms |-> new[q]]
  BY <1>3 DEF MembersOf
<1>5. \A q \in Rooms : new[q] = IF q = r THEN M[r] \ {s} ELSE M[q]
  BY <1>1, <1>2, <1>3 DEF MembersOf
<1>6. new = [M EXCEPT ![r] = M[r] \ {s}]
  BY <1>4, <1>5
<1> QED
  BY <1>3, <1>6

LEMMA DepartView ==
  ASSUME NEW rooms, NEW s
  PROVE  MembersOf(remove_user_from_all_rooms(rooms, s)) =
           [r \in Rooms |-> MembersOf(rooms)[r] \ {s}]
<1>1. \A q : In(remove_user_from_all_rooms(rooms, s), q) = In(rooms, q) \ {s}
  BY RemoveFromAllIn
<1> QED
  BY <1>1 DEF MembersOf

-----------------------------------------------------------------------------
(* While the lists are in order every command is one of the directory      *)

LEMMA EnterArrives ==
  ASSUME ListsInv, NEW s \in Sockets, Enter(s), findU(head, Guest(s)) = 0
  PROVE  Directory!Arrive(s)
<1>1. /\ conn[s] = "accepted"
      /\ head' = insertFirstU(head, s, Guest(s))
      /\ room_head' = add_user_to_room(create_room(room_head, Lobby), s, Lobby)
  BY DEF Enter
<1>2. s \notin Open /\ Open \in SUBSET Sockets
  BY <1>1 DEF Open
<1>3. PICK old, S, new : old = head /\ S = Open /\ new = head'
  OBVIOUS
<1>4. /\ WellFormed(old) /\ Knows(old, S)
      /\ S \in SUBSET Sockets /\ s \in Sockets \ S
      /\ new = insertFirstU(old, s, Guest(s)) /\ findU(old, Guest(s)) = 0
  BY <1>1, <1>2, <1>3 DEF ListsInv
<1>5. /\ OnlineOf(new) = OnlineOf(old) \cup {s}
      /\ NamesOf(new) = [t \in OnlineOf(new) |->
                           IF t = s THEN Guest(s) ELSE NamesOf(old)[t]]
      /\ FriendsOf(new) = FriendsOf(old)
  BY <1>4, InsertView
<1>6. s \notin OnlineOf(old)
  BY <1>4 DEF OnlineOf, Knows
<1>7. PICK rooms, mid, end :
        /\ rooms = room_head /\ mid = create_room(rooms, Lobby)
        /\ end = add_user_to_room(mid, s, Lobby) /\ end = room_head'
  BY <1>1
<1>8. DOMAIN end = DOMAIN rooms
  <2>1. DOMAIN create_room(rooms, Lobby) = DOMAIN rooms \cup {Lobby}
    BY CreateRoomDomain
  <2>2. DOMAIN add_user_to_room(mid, s, Lobby) = DOMAIN mid \cup {Lobby}
    BY AddUserDomain
  <2>3. Lobby \in DOMAIN rooms
    BY <1>7 DEF ListsInv
  <2> QED
    BY <1>7, <2>1, <2>2, <2>3
<1>9. MembersOf(end) =
        [MembersOf(rooms) EXCEPT ![Lobby] = MembersOf(rooms)[Lobby] \cup {s}]
  <2>1. MembersOf(mid) = MembersOf(rooms)
    BY <1>7, CreateView
  <2>2. MembersOf(add_user_to_room(mid, s, Lobby)) =
          [MembersOf(mid) EXCEPT ![Lobby] = MembersOf(mid)[Lobby] \cup {s}]
    BY JoinView, ChatServerAssumption
  <2> QED
    BY <1>7, <2>1, <2>2
<1>10. /\ s \notin OnlineOf(head)
       /\ OnlineOf(head') = OnlineOf(head) \cup {s}
       /\ NamesOf(head') = [t \in OnlineOf(head') |->
                              IF t = s THEN Guest(s) ELSE NamesOf(head)[t]]
       /\ FriendsOf(head') = FriendsOf(head)
  BY <1>3, <1>5, <1>6
<1>11. /\ DOMAIN room_head' = DOMAIN room_head
       /\ MembersOf(room_head') =
            [MembersOf(room_head) EXCEPT ![Lobby] =
               MembersOf(room_head)[Lobby] \cup {s}]
  BY <1>7, <1>8, <1>9
<1> QED
  BY <1>10, <1>11
  DEF Directory!Arrive, Online, OnlineOf, NamesOf, FriendsOf, MembersOf, In


LEMMA AcceptPauses ==
  ASSUME NEW s \in Sockets, Accept(s)
  PROVE  Directory!Pause
<1>1. head' = head /\ room_head' = room_head
  BY DEF Accept
<1> QED
  BY <1>1 DEF Directory!Pause, Online

LEMMA RoomCommandRefines ==
  ASSUME ListsInv, NEW s \in Sockets, NEW r \in Rooms,
         Create(s, r) \/ Join(s, r) \/ Leave(s, r)
  PROVE  /\ Create(s, r) => Directory!Create(r)
         /\ Join(s, r) => Directory!Join(s, r)
         /\ Leave(s, r) => Directory!Leave(s, r)
<1>1. head' = head /\ s \in OnlineOf(head)
  BY DEF Create, Join, Leave, ListsInv, Knows, Open, OnlineOf
<1>2. PICK old, new : old = room_head /\ new = room_head'
  OBVIOUS
<1>3. ASSUME Create(s, r)
      PROVE  Directory!Create(r)
  <2>1. new = create_room(old, r)
    BY <1>2, <1>3 DEF Create
  <2>2. DOMAIN new = DOMAIN old \cup {r} /\ MembersOf(new) = MembersOf(old)
    BY <2>1, CreateRoomDomain, CreateView
  <2>3. /\ DOMAIN room_head' = DOMAIN room_head \cup {r}
        /\ MembersOf(room_head') = MembersOf(room_head)
    BY <1>2, <2>2
  <2> QED
    BY <1>1, <2>3 DEF Directory!Create, Online, MembersOf, In
<1>4. ASSUME Join(s, r)
      PROVE  Directory!Join(s, r)
  <2>1. new = add_user_to_room(old, s, r)
    BY <1>2, <1>4 DEF Join
  <2>2. /\ DOMAIN new = DOMAIN old \cup {r}
        /\ MembersOf(new) =
             [MembersOf(old) EXCEPT ![r] = MembersOf(old)[r] \cup {s}]
    BY <2>1, AddUserDomain, JoinView
  <2>3. /\ DOMAIN room_head' = DOMAIN room_head \cup {r}
        /\ MembersOf(room_head') =
             [MembersOf(room_head) EXCEPT ![r] =
                MembersOf(room_head)[r] \cup {s}]
    BY <1>2, <2>2
  <2> QED
    BY <1>1, <2>3 DEF Directory!Join, Online, OnlineOf, MembersOf, In
<1>5. ASSUME Leave(s, r)
      PROVE  Directory!Leave(s, r)
  <2>1. new = remove_user_from_room(old, s, r)
    BY <1>2, <1>5 DEF Leave
  <2>2. /\ DOMAIN new = DOMAIN old
        /\ MembersOf(new) =
             [MembersOf(old) EXCEPT ![r] = MembersOf(old)[r] \ {s}]
    BY <2>1, RemoveUserDomain, LeaveView
  <2>3. /\ DOMAIN room_head' = DOMAIN room_head
        /\ MembersOf(room_head') =
             [MembersOf(room_head) EXCEPT ![r] = MembersOf(room_head)[r] \ {s}]
    BY <1>2, <2>2
  <2> QED
    BY <1>1, <2>3 DEF Directory!Leave, Online, MembersOf, In
<1> QED
  BY <1>3, <1>4, <1>5

(* Whom the directory finds under a name has a node with that name.        *)
LEMMA CalledIs ==
  ASSUME NEW list, WellFormed(list), NEW n, NEW t,
         t \in OnlineOf(list), NamesOf(list)[t] = n
  PROVE  \E i \in DOMAIN list : list[i].username = n /\ t = list[i].socket
<1>1. PICK i \in DOMAIN list : t = list[i].socket
  BY DEF OnlineOf
<1>2. NamesOf(list)[t] = list[i].username
  BY <1>1, NamesAre
<1> QED
  BY <1>1, <1>2

LEMMA DmCommandRefines ==
  ASSUME ListsInv, NEW s \in Sockets, NEW n \in Names,
         Connect(s, n) \/ Disconnect(s, n)
  PROVE  /\ Connect(s, n) => Directory!Connect(s, n)
         /\ Disconnect(s, n) => Directory!Disconnect(s, n)
<1>1. UNCHANGED <<conn, room_head, up>>
  BY DmCommandIs
<1>2. PICK old, S, new : old = head /\ S = Open /\ new = head'
  OBVIOUS
<1>3. WellFormed(old) /\ Knows(old, S) /\ S \in SUBSET Sockets
  BY <1>2 DEF ListsInv, Open
<1>4. PICK p \in DOMAIN old : s = old[p].socket
  BY <1>2, DmCommandIs
<1>5. s \in OnlineOf(head)
  BY <1>2, <1>4 DEF OnlineOf
<1>6. WellFormed(new)
  BY <1>2, DmCommandKeepsLists DEF ListsInv
<1> DEFINE Called == {t \in OnlineOf(old) : NamesOf(old)[t] = n}
<1>7. ASSUME NEW t
      PROVE  t \in Called <=>
               \E i \in DOMAIN old : old[i].username = n /\ t = old[i].socket
  <2>1. ASSUME t \in Called
        PROVE  \E i \in DOMAIN old : old[i].username = n /\ t = old[i].socket
    <3>1. t \in OnlineOf(old) /\ NamesOf(old)[t] = n
      BY <2>1
    <3> QED
      BY <1>3, <3>1, CalledIs
  <2>2. ASSUME NEW i \in DOMAIN old, old[i].username = n, t = old[i].socket
        PROVE  t \in Called
    <3>1. old[i].socket \in OnlineOf(old)
      BY DEF OnlineOf
    <3>2. NamesOf(old)[old[i].socket] = old[i].username
      BY <1>3, NamesAre
    <3> QED
      BY <2>2, <3>1, <3>2
  <2> QED
    BY <2>1, <2>2
<1> HIDE DEF Called
<1>8. CASE new = old /\ \A i \in DOMAIN old : old[i].username # n
  <2>1. Called = {}
    BY <1>7, <1>8
  <2>2. head' = head
    BY <1>2, <1>8
  <2> QED
    BY <1>1, <1>2, <1>5, <2>1, <2>2
    DEF Directory!Connect, Directory!Disconnect, Directory!Called, Called,
        Online, OnlineOf, NamesOf
<1>9. ASSUME NEW q \in DOMAIN old, old[q].username = n,
             Connect(s, n) =>
               new = add_dm_connection_socket(old, s, old[q].socket),
             Disconnect(s, n) =>
               new = remove_dm_connection_socket(old, s, old[q].socket)
      PROVE  /\ Connect(s, n) => Directory!Connect(s, n)
             /\ Disconnect(s, n) => Directory!Disconnect(s, n)
  <2>1. PICK d \in Called : d = old[q].socket
    BY <1>7, <1>9
  <2>2. ASSUME Connect(s, n)
        PROVE  Directory!Connect(s, n)
    <3>1. new = add_dm_connection_socket(old, s, d)
      BY <1>9, <2>1, <2>2
    <3>2. /\ SameNodes(old, new)
          /\ \A i \in DOMAIN old : Adds(old, new, i, p, d, q, s)
      BY <1>3, <1>4, <2>1, <3>1, ConnectIs
    <3>3. FriendsOf(new) = FriendsOf(old) \cup {<<s, d>>, <<d, s>>}
      BY <1>4, <2>1, <3>2, ConnectView
    <3>4. OnlineOf(new) = OnlineOf(old) /\ NamesOf(new) = NamesOf(old)
      BY <1>3, <1>6, <3>2, SameNodesView
    <3>5. /\ FriendsOf(head') = FriendsOf(head) \cup {<<s, d>>, <<d, s>>}
          /\ OnlineOf(head') = OnlineOf(head) /\ NamesOf(head') = NamesOf(head)
      BY <1>2, <3>3, <3>4
    <3> QED
      BY <1>1, <1>2, <1>5, <2>1, <3>5
      DEF Directory!Connect, Directory!Called, Called,
          Online, OnlineOf, NamesOf, FriendsOf
  <2>3. ASSUME Disconnect(s, n)
        PROVE  Directory!Disconnect(s, n)
    <3>1. new = remove_dm_connection_socket(old, s, d)
      BY <1>9, <2>1, <2>3
    <3>2. /\ SameNodes(old, new)
          /\ \A i \in DOMAIN old : Drops(old, new, i, p, d, q, s)
      BY <1>3, <1>4, <2>1, <3>1, DisconnectIs
    <3>3. FriendsOf(new) = FriendsOf(old) \ {<<s, d>>, <<d, s>>}
      BY <1>3, <1>4, <2>1, <3>2, DisconnectView
    <3>4. OnlineOf(new) = OnlineOf(old) /\ NamesOf(new) = NamesOf(old)
      BY <1>3, <1>6, <3>2, SameNodesView
    <3>5. /\ FriendsOf(head') = FriendsOf(head) \ {<<s, d>>, <<d, s>>}
          /\ OnlineOf(head') = OnlineOf(head) /\ NamesOf(head') = NamesOf(head)
      BY <1>2, <3>3, <3>4
    <3> QED
      BY <1>1, <1>2, <1>5, <2>1, <3>5
      DEF Directory!Disconnect, Directory!Called, Called,
          Online, OnlineOf, NamesOf, FriendsOf
  <2> QED
    BY <2>2, <2>3
<1> QED
  BY <1>2, <1>8, <1>9, DmCommandIs

LEMMA LoginRefines ==
  ASSUME ListsInv, NEW s \in Sockets, NEW n \in Names, Login(s, n)
  PROVE  Directory!Login(s, n)
<1>1. room_head' = room_head /\ conn[s] = "open"
  BY DEF Login
<1>2. PICK old, S, new : old = head /\ S = Open /\ new = head'
  OBVIOUS
<1>3. /\ WellFormed(old) /\ Knows(old, S) /\ S \in SUBSET Sockets
      /\ old \in Seq(Node) /\ s \in S
  BY <1>1, <1>2 DEF ListsInv, Open, WellFormed
<1>4. PICK i \in DOMAIN old : /\ i = findSocketNode(old, s) /\ i # 0
                              /\ old[i].socket = s
  <2>1. \E j \in DOMAIN old : old[j].socket = s
    BY <1>3 DEF Knows
  <2> QED
    BY <1>3, <2>1, FindSocket
<1>5. new = SetName(old, i, n)
  BY <1>2, <1>4 DEF Login, SetName
<1>6. /\ OnlineOf(new) = OnlineOf(old)
      /\ NamesOf(new) = [NamesOf(old) EXCEPT ![old[i].socket] = n]
      /\ FriendsOf(new) = FriendsOf(old)
  BY <1>3, <1>5, LoginView
<1>7. s \in OnlineOf(old)
  BY <1>4 DEF OnlineOf
<1>8. /\ OnlineOf(head') = OnlineOf(head) /\ s \in OnlineOf(head)
      /\ NamesOf(head') = [NamesOf(head) EXCEPT ![s] = n]
      /\ FriendsOf(head') = FriendsOf(head)
  BY <1>2, <1>4, <1>6, <1>7
<1> QED
  BY <1>1, <1>8 DEF Directory!Login, Online, OnlineOf, NamesOf, FriendsOf

LEMMA DepartRefines ==
  ASSUME ListsInv, NEW s \in Sockets, Exit(s) \/ (Drop(s) /\ OwnName(s))
  PROVE  Directory!Depart(s)
<1>1. /\ conn[s] = "open" /\ conn' = [conn EXCEPT ![s] = "closed"]
      /\ up' = up
      /\ room_head' = remove_user_from_all_rooms(room_head, s)
      /\ head' = removeUserBySocket(remove_all_dms_for_user(head, s), s)
      /\ \E p \in DOMAIN head : head[p].socket = s
  BY DepartIs
<1>2. PICK old, S, new : old = head /\ S = Open /\ new = head'
  OBVIOUS
<1>3. WellFormed(old) /\ Knows(old, S) /\ S \in SUBSET Sockets
  BY <1>2 DEF ListsInv, Open
<1>4. PICK p \in DOMAIN old : s = old[p].socket
  BY <1>1, <1>2
<1>5. new = removeUserBySocket(remove_all_dms_for_user(old, s), s)
  BY <1>1, <1>2
<1>6. /\ OnlineOf(new) = OnlineOf(old) \ {s}
      /\ NamesOf(new) = [t \in OnlineOf(new) |-> NamesOf(old)[t]]
      /\ FriendsOf(new) = {f \in FriendsOf(old) : f[1] # s /\ f[2] # s}
  BY <1>3, <1>4, <1>5, ForgetView
<1>7. s \in OnlineOf(old)
  BY <1>4 DEF OnlineOf
<1>8. /\ OnlineOf(head') = OnlineOf(head) \ {s} /\ s \in OnlineOf(head)
      /\ NamesOf(head') = [t \in OnlineOf(head') |-> NamesOf(head)[t]]
      /\ FriendsOf(head') = {f \in FriendsOf(head) : f[1] # s /\ f[2] # s}
  BY <1>2, <1>6, <1>7
<1>9. /\ DOMAIN room_head' = DOMAIN room_head
      /\ MembersOf(room_head') =
           [r \in Rooms |-> MembersOf(room_head)[r] \ {s}]
  BY <1>1, RemoveFromAllDomain, DepartView
<1> QED
  BY <1>8, <1>9
  DEF Directory!Depart, Online, OnlineOf, NamesOf, FriendsOf, MembersOf, In

(* A message reaches whom the directory says.                              *)
LEMMA SayRefines ==
  ASSUME ListsInv, NEW s \in Sockets, Say(s)
  PROVE  Directory!Say(s)
<1>1. /\ head' = head /\ room_head' = room_head /\ conn[s] = "open"
      /\ heard' = [from |-> s, to |-> Recipients(s)]
  BY DEF Say
<1>2. WellFormed(head) /\ head \in Seq(Node) /\ Knows(head, Open)
  BY DEF ListsInv, WellFormed
<1>3. PICK i \in DOMAIN head : /\ i = findSocketNode(head, s) /\ i # 0
                               /\ head[i].socket = s
  <2>1. \E j \in DOMAIN head : head[j].socket = s
    BY <1>1, <1>2 DEF Knows, Open
  <2> QED
    BY <1>2, <2>1, FindSocket
<1>4. ASSUME NEW t
      PROVE  is_dm_connected_socket(s, t) <=> <<s, t>> \in FriendsOf(head)
  <2>1. is_dm_connected_socket(s, t) <=> t \in DmOf(head, i)
    BY <1>3 DEF is_dm_connected_socket, DmOf
  <2>2. ASSUME t \in DmOf(head, i)
        PROVE  <<s, t>> \in FriendsOf(head)
    BY <1>3, <2>2, FriendsAre
  <2>3. ASSUME <<s, t>> \in FriendsOf(head)
        PROVE  t \in DmOf(head, i)
    <3>1. PICK j \in DOMAIN head : \E d \in DmOf(head, j) :
                                     <<s, t>> = <<head[j].socket, d>>
      BY <2>3, FriendsAre
    <3>2. head[j].socket = s /\ t \in DmOf(head, j)
      BY <3>1
    <3> QED
      BY <1>2, <1>3, <3>2 DEF WellFormed
  <2> QED
    BY <2>1, <2>2, <2>3
<1>5. ASSUME NEW t
      PROVE  share_room_users(s, t) <=>
               \E r \in DOMAIN room_head : {s, t} \subseteq MembersOf(room_head)[r]
  BY DEF share_room_users, MembersOf, In, ListsInv
<1>6. Recipients(s) =
        {t \in OnlineOf(head) \ {s} :
           \/ <<s, t>> \in FriendsOf(head)
           \/ \E r \in DOMAIN room_head :
                {s, t} \subseteq MembersOf(room_head)[r]}
  BY <1>3, <1>4, <1>5 DEF Recipients, OnlineOf
<1> QED
  BY <1>1, <1>6
  DEF Directory!Say, Online, OnlineOf, FriendsOf, MembersOf, In

-----------------------------------------------------------------------------

LEMMA InitRefines == Init => Directory!Init
<1> SUFFICES ASSUME Init PROVE Directory!Init
  OBVIOUS
<1>1. head = << >> /\ room_head = create_room(<< >>, Lobby) /\ heard = Nobody
  BY DEF Init
<1>2. OnlineOf(head) = {} /\ FriendsOf(head) = {}
  BY <1>1 DEF OnlineOf, FriendsOf
<1>3. NamesOf(head) = [s \in {} |-> s]
  BY <1>2 DEF NamesOf
<1>4. DOMAIN room_head = {Lobby} /\ MembersOf(room_head) = [r \in Rooms |-> {}]
  BY <1>1 DEF create_room, MembersOf, In
<1> QED
  BY <1>1, <1>2, <1>3, <1>4
  DEF Directory!Init, Directory!Nobody, Nobody, Online, OnlineOf, NamesOf,
      FriendsOf, MembersOf, In

(* While the lists are in order, each command of a client that is not      *)
(* confused with another one's name does to them what the directory says.  *)
LEMMA CommandsRefine ==
  ASSUME Types, InOrder, NEW s \in Sockets, ~ByName(s)
  PROVE  /\ Accept(s) => Directory!Pause
         /\ Enter(s) => Directory!Arrive(s)
         /\ \A r \in Rooms :
              /\ Create(s, r) => Directory!Create(r)
              /\ Join(s, r) => Directory!Join(s, r)
              /\ Leave(s, r) => Directory!Leave(s, r)
         /\ \A n \in Names :
              /\ Connect(s, n) => Directory!Connect(s, n)
              /\ Disconnect(s, n) => Directory!Disconnect(s, n)
              /\ Login(s, n) => Directory!Login(s, n)
         /\ Say(s) => Directory!Say(s)
         /\ Exit(s) \/ Drop(s) => Directory!Depart(s)
<1>1. ListsInv
  BY InOrderIs
<1>2. /\ Enter(s) => findU(head, Guest(s)) = 0
      /\ Drop(s) => OwnName(s)
  BY DEF ByName
<1>3. Accept(s) => Directory!Pause
  BY AcceptPauses
<1>4. Enter(s) => Directory!Arrive(s)
  BY <1>1, <1>2, EnterArrives
<1>5. ASSUME NEW r \in Rooms
      PROVE  /\ Create(s, r) => Directory!Create(r)
             /\ Join(s, r) => Directory!Join(s, r)
             /\ Leave(s, r) => Directory!Leave(s, r)
  BY <1>1, RoomCommandRefines
<1>6. ASSUME NEW n \in Names
      PROVE  /\ Connect(s, n) => Directory!Connect(s, n)
             /\ Disconnect(s, n) => Directory!Disconnect(s, n)
             /\ Login(s, n) => Directory!Login(s, n)
  BY <1>1, DmCommandRefines, LoginRefines
<1>7. Say(s) => Directory!Say(s)
  BY <1>1, SayRefines
<1>8. Exit(s) \/ Drop(s) => Directory!Depart(s)
  BY <1>1, <1>2, DepartRefines
<1> QED
  BY <1>3, <1>4, <1>5, <1>6, <1>7, <1>8

(* While the lists are in order the server keeps its promise of every      *)
(* command: who is online and under which name, who is in which room and   *)
(* connected to whom change as the directory says, a name finds somebody   *)
(* who has it, and every message goes to whom the directory says.          *)
THEOREM ImplementsTheDirectory == Spec => ImplementsDirectory
<1> DEFINE Obeys ==
      InOrder => \A s \in Sockets : ~ByName(s) =>
        /\ Accept(s) => Directory!Pause
        /\ Enter(s) => Directory!Arrive(s)
        /\ \A r \in Rooms :
             /\ Create(s, r) => Directory!Create(r)
             /\ Join(s, r) => Directory!Join(s, r)
             /\ Leave(s, r) => Directory!Leave(s, r)
        /\ \A n \in Names :
             /\ Connect(s, n) => Directory!Connect(s, n)
             /\ Disconnect(s, n) => Directory!Disconnect(s, n)
             /\ Login(s, n) => Directory!Login(s, n)
        /\ Say(s) => Directory!Say(s)
        /\ Exit(s) \/ Drop(s) => Directory!Depart(s)
<1>1. Types => Obeys
  BY CommandsRefine
<1> HIDE DEF Obeys
<1>2. Spec => [][Obeys]_vars
  BY <1>1, TypesHold, PTL DEF Spec
<1> QED
  BY <1>2, InitRefines, PTL DEF Spec, ImplementsDirectory, Obeys

=============================================================================
