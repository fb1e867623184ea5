------------------------- MODULE BensChilliBowlProofs -------------------------
(***************************************************************************)
(* What TLAPS proves of the restaurant, for any number of customers,       *)
(* cooks, orders and places: types, the bounded buffer, the numbering and  *)
(* the ownership of orders from a first invariant; that the counters       *)
(* agree, that closing is quiet and that no wakeup is lost from a second   *)
(* one on top of it; and from both that the monitor implements OrderBook.  *)
(***************************************************************************)
EXTENDS BensChilliBowl, FiniteSetTheorems, TLAPS

AllSteps == CustomerSteps \cup CookSteps \cup MainSteps

\* Each thread runs its own code, and is in its loop while it counts.
Roles ==
  /\ \A c \in Customers : pc[c] \in CustomerSteps
  /\ \A k \in Cooks : pc[k] \in CookSteps
  /\ pc[Main] \in MainSteps
  /\ \A c \in Customers : pc[c] # "done" => nth[c] <= OrdersPerCustomer

\* The customer has put the order in the queue: an earlier iteration, or this
\* one, past AddOrder's critical section.
Placed(o) ==
  \/ o[2] < nth[o[1]]
  \/ o[2] = nth[o[1]] /\ pc[o[1]] = "addReturn"

\* Only placed orders are anywhere.
OnlyPlaced ==
  /\ \A i \in 1 .. Len(orders) : Placed(orders[i])
  /\ \A k \in Cooks : holding[k] # None => Placed(holding[k])
  /\ \A o \in freed : Placed(o)

Inv ==
  /\ TypeOK
  /\ Roles
  /\ BoundedBuffer
  /\ OnlyPlaced
  /\ NumberedInOrder
  /\ OneOwner

-----------------------------------------------------------------------------
(* What the steps that touch no order have in common.                      *)

\* The change of the program counters keeps each thread in its role, in its
\* loop, on the same side of placing its order, and with its order in hand.
QuietPc ==
  /\ pc' \in [Threads -> AllSteps]
  /\ \A c \in Customers :
       /\ pc'[c] \in CustomerSteps
       /\ pc[c] = "addReturn" => pc'[c] = "addReturn"
       /\ pc[c] = "done" => pc'[c] = "done"
  /\ \A k \in Cooks : pc'[k] \in CookSteps /\ (Active(k)' <=> Active(k))
  /\ pc'[Main] \in MainSteps

LEMMA ThreadsAreDistinct ==
  /\ Customers \subseteq Threads
  /\ Cooks \subseteq Threads
  /\ Main \in Threads
  /\ \A c \in Customers : c \notin Cooks /\ c # Main
  /\ \A k \in Cooks : k \notin Customers /\ k # Main
BY ThreadsAssumption DEF Threads

(* A step of one thread that stays in its role, with the threads it wakes, *)
(* is quiet.                                                               *)
LEMMA WakingIsQuiet ==
  ASSUME TypeOK, Roles,
         NEW t \in Threads, NEW s,
         NEW woken \in SUBSET (can_add_orders \cup can_get_orders),
         t \in Customers =>
           s \in CustomerSteps /\ pc[t] \notin {"addReturn", "done"},
         t \in Cooks =>
           s \in CookSteps
           /\ (Active(t) <=> s \in {"getSignal", "fulfil", "countBody",
                                    "report"}),
         t = Main => s \in MainSteps,
         GoAndWake(t, s, woken)
  PROVE  QuietPc
<1>1. pc' = [u \in Threads |-> IF u = t THEN s
                               ELSE IF u \in woken THEN Reacquire(u)
                               ELSE pc[u]]
  BY DEF GoAndWake
<1>2. \A u \in Threads : pc[u] \in AllSteps
  BY DEF TypeOK, AllSteps
<1>3. \A u \in woken : /\ u \in Customers => pc[u] = "addWait"
                       /\ u \in Cooks => pc[u] = "getWait"
  BY ThreadsAreDistinct DEF can_add_orders, can_get_orders
<1>4. ASSUME NEW c \in Customers
      PROVE  /\ pc'[c] \in CustomerSteps
             /\ pc[c] = "addReturn" => pc'[c] = "addReturn"
             /\ pc[c] = "done" => pc'[c] = "done"
  BY <1>1, <1>3, ThreadsAreDistinct DEF Roles, Reacquire, CustomerSteps
<1>5. ASSUME NEW k \in Cooks
      PROVE  pc'[k] \in CookSteps /\ (Active(k)' <=> Active(k))
  BY <1>1, <1>3, ThreadsAreDistinct DEF Roles, Reacquire, CookSteps, Active
<1>6. pc'[Main] \in MainSteps
  BY <1>1, ThreadsAreDistinct DEF Roles, Reacquire, MainSteps
<1>7. \A u \in Threads : pc'[u] \in AllSteps
  BY <1>4, <1>5, <1>6 DEF Threads, AllSteps
<1> QED
  BY <1>1, <1>4, <1>5, <1>6, <1>7 DEF QuietPc

(* The same for a step that wakes nobody.                                  *)
LEMMA GoingIsQuiet ==
  ASSUME TypeOK, Roles,
         NEW t \in Threads, NEW s,
         t \in Customers =>
           s \in CustomerSteps /\ pc[t] \notin {"addReturn", "done"},
         t \in Cooks =>
           s \in CookSteps
           /\ (Active(t) <=> s \in {"getSignal", "fulfil", "countBody",
                                    "report"}),
         t = Main => s \in MainSteps,
         Go(t, s)
  PROVE  QuietPc
<1>1. GoAndWake(t, s, {})
  BY DEF Go, GoAndWake, TypeOK
<1> QED
  BY <1>1, WakingIsQuiet

(* A quiet change of the program counters keeps the invariant when the     *)
(* orders stay where they are.                                             *)
LEMMA QuietKeepsInv ==
  ASSUME Inv, QuietPc,
         orders_handled' \in Nat,
         mutex' \in Threads \cup {None},
         UNCHANGED <<queueVars, nth, holding, order_number, freed, order_num,
                     mallocsFailed>>
  PROVE  Inv'
<1> USE DEF Inv, queueVars
<1>1. TypeOK'
  BY DEF TypeOK, QuietPc, AllSteps
<1>2. Roles'
  BY DEF Roles, QuietPc
<1>3. BoundedBuffer' /\ NumberedInOrder'
  BY DEF BoundedBuffer, NumberedInOrder
<1>4. ASSUME NEW o \in Orders, Placed(o)
      PROVE  Placed(o)'
  BY <1>4 DEF Placed, QuietPc, Orders
<1>5. OnlyPlaced'
  <2>1. \A i \in 1 .. Len(orders) : orders[i] \in Orders
    BY DEF TypeOK
  <2> QED
    BY <1>4, <2>1 DEF OnlyPlaced, TypeOK
<1>6. OneOwner'
  BY DEF OneOwner, QuietPc, InQueue
<1> QED
  BY <1>1, <1>2, <1>3, <1>5, <1>6

-----------------------------------------------------------------------------
(* The steps that move an order or the loop counter, one lemma each.       *)

LEMMA NextIterationKeepsPlaced ==
  ASSUME TypeOK, NEW c \in Customers, NextIteration(c),
         NEW o \in Orders, Placed(o)
  PROVE  Placed(o)'
<1>1. o[1] \in Customers /\ o[2] \in Nat /\ nth[o[1]] \in Nat
  BY SizesAssumption DEF Orders, TypeOK
<1>2. CASE o[1] = c
  BY <1>1, <1>2 DEF Placed, NextIteration, TypeOK
<1>3. CASE o[1] # c
  BY <1>1, <1>3, ThreadsAreDistinct DEF Placed, NextIteration, Go, TypeOK
<1> QED
  BY <1>2, <1>3

LEMMA NextIterationTypes ==
  ASSUME TypeOK, Roles, NEW c \in Customers, NextIteration(c),
         pc[c] # "done"
  PROVE  /\ pc' \in [Threads -> AllSteps]
         /\ nth' \in [Customers -> 1 .. OrdersPerCustomer + 1]
         /\ Roles'
         /\ \A k \in Cooks : Active(k)' <=> Active(k)
<1> USE ThreadsAreDistinct, SizesAssumption
<1>1. nth[c] \in 1 .. OrdersPerCustomer /\ nth'[c] = nth[c] + 1
  BY DEF TypeOK, Roles, NextIteration
<1>2. pc' = [pc EXCEPT ![c] = IF nth[c] < OrdersPerCustomer
                              THEN "alloc" ELSE "done"]
  BY DEF NextIteration, Go
<1>3. pc' \in [Threads -> AllSteps]
  BY <1>2 DEF TypeOK, AllSteps, CustomerSteps
<1>4. nth' \in [Customers -> 1 .. OrdersPerCustomer + 1]
  BY <1>1 DEF NextIteration, TypeOK
<1>5. Roles'
  <2>1. \A d \in Customers : pc'[d] \in CustomerSteps
    BY <1>2 DEF Roles, TypeOK, CustomerSteps
  <2>2. \A k \in Cooks : pc'[k] = pc[k]
    BY <1>2 DEF TypeOK
  <2>3. pc'[Main] = pc[Main]
    BY <1>2 DEF TypeOK
  <2>4. ASSUME NEW d \in Customers, pc'[d] # "done"
        PROVE  nth'[d] <= OrdersPerCustomer
    <3>1. CASE d = c
      BY <1>1, <1>2, <2>4, <3>1 DEF TypeOK
    <3>2. CASE d # c
      BY <1>2, <2>4, <3>2 DEF TypeOK, Roles, NextIteration
    <3> QED
      BY <3>1, <3>2
  <2> QED
    BY <2>1, <2>2, <2>3, <2>4 DEF Roles
<1>6. \A k \in Cooks : Active(k)' <=> Active(k)
  BY <1>2 DEF Active, TypeOK
<1> QED
  BY <1>3, <1>4, <1>5, <1>6

(* A step to the next iteration keeps the invariant when the orders stay   *)
(* where they are: a failed malloc, and the return of AddOrder.            *)
LEMMA NextIterationKeepsInv ==
  ASSUME Inv, NEW c \in Customers, NextIteration(c), pc[c] # "done",
         order_num' \in [Customers -> Nat \cup {Junk}],
         mallocsFailed' \in 0 .. MallocFailures,
         UNCHANGED <<queueVars, orders_handled, mutex, holding, order_number,
                     freed>>
  PROVE  Inv'
<1> USE DEF Inv, queueVars
<1>1. TypeOK' /\ Roles'
  BY NextIterationTypes DEF TypeOK, AllSteps
<1>2. BoundedBuffer' /\ NumberedInOrder'
  BY DEF BoundedBuffer, NumberedInOrder
<1>3. OnlyPlaced'
  <2>1. \A i \in 1 .. Len(orders) : orders[i] \in Orders
    BY DEF TypeOK
  <2> QED
    BY <2>1, NextIterationKeepsPlaced DEF OnlyPlaced, TypeOK
<1>4. OneOwner'
  BY NextIterationTypes DEF OneOwner, InQueue
<1> QED
  BY <1>1, <1>2, <1>3, <1>4

LEMMA AddOrderKeepsInv ==
  ASSUME Inv, NEW c \in Customers, AddOrder(c)
  PROVE  Inv'
<1> DEFINE o == TheOrder(c)
<1> USE DEF Inv
<1> USE ThreadsAreDistinct, SizesAssumption
<1>1. nth[c] \in 1 .. OrdersPerCustomer
  BY DEF AddOrder, Roles, TypeOK
<1>2. o \in Orders /\ o # None /\ ~Placed(o) /\ o[1] = c /\ o[2] = nth[c]
  BY <1>1, NoneIsNoOrder DEF TheOrder, Orders, Placed, AddOrder
<1>3. /\ orders' = Append(orders, o)
      /\ Len(orders') = Len(orders) + 1
      /\ \A i \in 1 .. Len(orders) : orders'[i] = orders[i]
      /\ orders'[Len(orders) + 1] = o
      /\ Len(orders) \in Nat
      /\ orders' \in Seq(Orders)
  BY <1>2 DEF AddOrder, AddOrderToBack, TypeOK
<1>4. \A i \in 1 .. Len(orders) : orders[i] # o /\ orders[i] \in Orders
  BY <1>2 DEF OnlyPlaced, TypeOK
<1>5. PICK woken \in Signal(can_get_orders) : GoAndWake(c, "addReturn", woken)
  BY DEF AddOrder
<1>6. woken \in SUBSET can_get_orders
  BY <1>5 DEF Signal
<1>7. /\ QuietPc
      /\ pc'[c] = "addReturn"
  <2>1. can_get_orders \subseteq can_add_orders \cup can_get_orders
    OBVIOUS
  <2>2. pc[c] = "addBody"
    BY DEF AddOrder
  <2> QED
    BY <1>5, <1>6, <2>1, <2>2, WakingIsQuiet DEF CustomerSteps, GoAndWake
<1>8. ASSUME NEW p \in Orders, Placed(p)
      PROVE  Placed(p)'
  BY <1>7, <1>8 DEF Placed, QuietPc, Orders, AddOrder
<1>9. o[2] = nth'[o[1]] /\ pc'[o[1]] = "addReturn"
  BY <1>2, <1>7 DEF AddOrder
<1>10. TypeOK'
  BY <1>2, <1>3, <1>7
     DEF TypeOK, AddOrder, QuietPc, AllSteps
<1>11. Roles'
  BY <1>7 DEF Roles, QuietPc, AddOrder
<1>12. BoundedBuffer'
  BY <1>3 DEF BoundedBuffer, AddOrder, IsFull, TypeOK
<1>13. OnlyPlaced'
  <2>1. ASSUME NEW i \in 1 .. Len(orders')
        PROVE  Placed(orders[i])'
    <3>1. CASE i = Len(orders) + 1
      BY <1>3, <1>9, <3>1 DEF Placed
    <3>2. CASE i # Len(orders) + 1
      <4>1. i \in 1 .. Len(orders)
        BY <1>3, <3>2
      <4>2. Placed(orders[i]) /\ orders[i] \in Orders /\ orders'[i] = orders[i]
        BY <1>3, <1>4, <4>1 DEF OnlyPlaced
      <4>3. \A p \in Orders : Placed(p) => Placed(p)'
        BY <1>8
      <4> QED
        BY <4>2, <4>3 DEF Placed
    <3> QED
      BY <3>1, <3>2
  <2>2. \A k \in Cooks : (holding[k] # None => Placed(holding[k]))'
    BY <1>8 DEF OnlyPlaced, TypeOK, AddOrder
  <2>3. \A p \in freed' : Placed(p)'
    BY <1>8 DEF OnlyPlaced, TypeOK, AddOrder
  <2> QED
    BY <2>1, <2>2, <2>3 DEF OnlyPlaced
<1>14. NumberedInOrder'
  <2>1. \A p \in Orders : order_number'[p] =
          IF p = o THEN next_order_number ELSE order_number[p]
    BY <1>2 DEF AddOrder, TypeOK
  <2>2. ASSUME NEW i \in 1 .. Len(orders)
        PROVE  order_number'[orders'[i]] + Len(orders') + 1
                 = next_order_number' + i
    <3>1. order_number'[orders'[i]] = order_number[orders[i]]
      BY <1>3, <1>4, <2>1
    <3>2. order_number[orders[i]] \in Nat
      BY <1>4 DEF TypeOK
    <3>3. next_order_number' = next_order_number + 1
      BY DEF AddOrder
    <3>4. order_number[orders[i]] + Len(orders) + 1 = next_order_number + i
      BY DEF NumberedInOrder
    <3> QED
      BY <1>3, <3>1, <3>2, <3>3, <3>4 DEF TypeOK
  <2>3. order_number'[orders'[Len(orders')]] + Len(orders') + 1
          = next_order_number' + Len(orders')
    BY <1>2, <1>3, <2>1 DEF AddOrder, TypeOK
  <2> QED
    <3>1. \A i \in 1 .. Len(orders') : i \in 1 .. Len(orders) \/ i = Len(orders')
      BY <1>3
    <3> QED
      BY <2>2, <2>3, <3>1 DEF NumberedInOrder
<1>15. OneOwner'
  <2>1. holding' = holding /\ freed' = freed
    BY DEF AddOrder
  <2>2. InQueue' = InQueue \cup {o}
    BY <1>3 DEF InQueue
  <2>3. o \notin freed /\ \A k \in Cooks : holding[k] # o
    BY <1>2 DEF OnlyPlaced
  <2>4. \A i, j \in 1 .. Len(orders') : orders'[i] = orders'[j] => i = j
    <3>1. \A i \in 1 .. Len(orders') : i \in 1 .. Len(orders) \/ i = Len(orders) + 1
      BY <1>3
    <3> QED
      BY <1>3, <1>4, <3>1 DEF OneOwner
  <2> QED
    BY <1>7, <2>1, <2>2, <2>3, <2>4 DEF OneOwner, QuietPc
<1> QED
  BY <1>10, <1>11, <1>12, <1>13, <1>14, <1>15

LEMMA GetOrderKeepsInv ==
  ASSUME Inv, NEW k \in Cooks, GetOrder(k)
  PROVE  Inv'
<1> DEFINE o == Head(orders)
<1> USE DEF Inv
<1> USE ThreadsAreDistinct
<1>1. /\ orders # << >>
      /\ orders' = Tail(orders)
      /\ Len(orders) \in Nat \ {0}
      /\ Len(orders') = Len(orders) - 1
      /\ o = orders[1]
      /\ \A i \in 1 .. Len(orders') : orders'[i] = orders[i + 1]
      /\ orders' \in Seq(Orders)
      /\ \A i \in 1 .. Len(orders) : orders[i] \in Orders
  BY DEF GetOrder, IsEmpty, RemoveFirst, TypeOK
<1>2. /\ o \in Orders /\ o # None /\ Placed(o)
      /\ holding' = [holding EXCEPT ![k] = o]
  BY <1>1, NoneIsNoOrder DEF GetOrder, OnlyPlaced
<1>3. Go(k, "getSignal") /\ pc[k] = "getBody"
  BY DEF GetOrder
<1>4. /\ pc' \in [Threads -> AllSteps]
      /\ \A c \in Customers : pc'[c] = pc[c]
      /\ pc'[Main] = pc[Main]
      /\ pc'[k] = "getSignal"
      /\ \A l \in Cooks : l # k => pc'[l] = pc[l]
  BY <1>3 DEF Go, TypeOK, AllSteps, CookSteps
<1>5. /\ nth' = nth
      /\ order_number' = order_number
      /\ freed' = freed
      /\ next_order_number' = next_order_number
  BY DEF GetOrder
<1>6. ASSUME NEW p \in Orders, Placed(p)
      PROVE  Placed(p)'
  BY <1>4, <1>5, <1>6 DEF Placed, Orders
<1>7. TypeOK'
  <2>1. current_size' = Len(orders')
    BY <1>1 DEF GetOrder, BoundedBuffer
  <2>2. holding' \in [Cooks -> Orders \cup {None}]
    BY <1>2 DEF TypeOK
  <2> QED
    BY <1>1, <1>4, <2>1, <2>2 DEF TypeOK, GetOrder, AllSteps
<1>8. Roles'
  BY <1>4, <1>5 DEF Roles, CookSteps
<1>9. BoundedBuffer'
  BY <1>1, SizesAssumption DEF BoundedBuffer, GetOrder
<1>10. OnlyPlaced'
  <2>1. ASSUME NEW i \in 1 .. Len(orders')
        PROVE  Placed(orders[i])'
    <3>1. i + 1 \in 1 .. Len(orders)
      BY <1>1
    <3>2. Placed(orders[i + 1]) /\ orders[i + 1] \in Orders
          /\ orders'[i] = orders[i + 1]
      BY <1>1, <3>1 DEF OnlyPlaced
    <3>3. \A p \in Orders : Placed(p) => Placed(p)'
      BY <1>6
    <3> QED
      BY <3>2, <3>3 DEF Placed
  <2>2. ASSUME NEW l \in Cooks, holding'[l] # None
        PROVE  Placed(holding[l])'
    <3>1. Placed(holding'[l]) /\ holding'[l] \in Orders
      BY <1>2, <2>2 DEF OnlyPlaced, TypeOK
    <3>2. \A p \in Orders : Placed(p) => Placed(p)'
      BY <1>6
    <3> QED
      BY <3>1, <3>2 DEF Placed
  <2>3. \A p \in freed' : Placed(p)'
    BY <1>5, <1>6 DEF OnlyPlaced, TypeOK
  <2> QED
    BY <2>1, <2>2, <2>3 DEF OnlyPlaced
<1>11. NumberedInOrder'
  <2>1. ASSUME NEW i \in 1 .. Len(orders')
        PROVE  order_number'[orders'[i]] + Len(orders') + 1
                 = next_order_number' + i
    <3>1. i + 1 \in 1 .. Len(orders) /\ orders'[i] = orders[i + 1]
      BY <1>1
    <3>2. order_number[orders[i + 1]] \in Nat
      BY <1>1, <3>1 DEF TypeOK
    <3>3. order_number[orders[i + 1]] + Len(orders) + 1
            = next_order_number + (i + 1)
      BY <3>1 DEF NumberedInOrder
    <3>4. order_number'[orders'[i]] = order_number[orders[i + 1]]
      BY <1>5, <3>1
    <3>5. /\ next_order_number' = next_order_number
          /\ next_order_number \in Nat
          /\ Len(orders') + 1 = Len(orders)
          /\ i \in Nat
      BY <1>1, <1>5 DEF TypeOK
    <3>6. \A n, l, m, x \in Nat :
            l + 1 = m /\ n + m + 1 = x + (i + 1) => n + l + 1 = x + i
      BY <3>5
    <3>7. Len(orders') \in Nat /\ Len(orders) \in Nat
      BY <1>1
    <3> QED
      BY ONLY <3>2, <3>3, <3>4, <3>5, <3>6, <3>7
  <2> QED
    BY <2>1 DEF NumberedInOrder
<1>12. OneOwner'
  <2>1. \A i, j \in 1 .. Len(orders') : orders'[i] = orders'[j] => i = j
    <3>1. \A i \in 1 .. Len(orders') : i + 1 \in 1 .. Len(orders)
      BY <1>1
    <3>2. ASSUME NEW i \in 1 .. Len(orders'), NEW j \in 1 .. Len(orders'),
                 orders'[i] = orders'[j]
          PROVE  i = j
      <4>1. i + 1 = j + 1
        BY <1>1, <3>1, <3>2 DEF OneOwner
      <4> QED
        BY <1>1, <4>1
    <3> QED
      BY <3>2
  <2>2. InQueue' \subseteq InQueue /\ o \in InQueue /\ o \notin InQueue'
    <3>1. \A i \in 1 .. Len(orders') : orders'[i] \in InQueue
      <4>1. \A i \in 1 .. Len(orders') : i + 1 \in 1 .. Len(orders)
        BY <1>1
      <4> QED
        BY <1>1, <4>1 DEF InQueue
    <3>2. ASSUME NEW i \in 1 .. Len(orders'), orders'[i] = o
          PROVE  FALSE
      <4>1. i + 1 \in 1 .. Len(orders) /\ 1 \in 1 .. Len(orders)
        BY <1>1
      <4>2. i + 1 = 1
        BY <1>1, <3>2, <4>1 DEF OneOwner
      <4> QED
        BY <4>2
    <3>3. o \in InQueue
      BY <1>1 DEF InQueue
    <3> QED
      BY <3>1, <3>2, <3>3 DEF InQueue
  <2>3. \A l \in Cooks : Active(l)' <=> holding'[l] # None
    BY <1>2, <1>3, <1>4 DEF OneOwner, Active, TypeOK
  <2>4. \A l \in Cooks : holding'[l] \notin InQueue' \cup freed'
    BY <1>2, <1>5, <2>2 DEF OneOwner, TypeOK
  <2>5. \A l, m \in Cooks :
          holding'[l] = holding'[m] /\ holding'[l] # None => l = m
    BY <1>2, <2>2 DEF OneOwner, TypeOK
  <2>6. InQueue' \cap freed' = {}
    BY <1>5, <2>2 DEF OneOwner
  <2> QED
    BY <2>1, <2>3, <2>4, <2>5, <2>6 DEF OneOwner
<1> QED
  BY <1>7, <1>8, <1>9, <1>10, <1>11, <1>12

LEMMA FreeOrderKeepsInv ==
  ASSUME Inv, NEW k \in Cooks, FreeOrder(k)
  PROVE  Inv'
<1> USE DEF Inv
<1> USE ThreadsAreDistinct
<1>1. /\ pc' = [pc EXCEPT ![k] = "getLock"]
      /\ pc[k] = "report"
      /\ holding' = [holding EXCEPT ![k] = None]
      /\ freed' = freed \cup {holding[k]}
      /\ UNCHANGED <<queueVars, nth, order_number>>
  BY DEF FreeOrder, Go
<1>2. holding[k] \in Orders /\ holding[k] # None
  BY <1>1 DEF OneOwner, Active, TypeOK
<1>3. /\ pc' \in [Threads -> AllSteps]
      /\ \A c \in Customers : pc'[c] = pc[c]
      /\ pc'[Main] = pc[Main]
      /\ pc'[k] = "getLock"
      /\ \A l \in Cooks : l # k => pc'[l] = pc[l]
  BY <1>1 DEF TypeOK, AllSteps, CookSteps
<1>4. TypeOK'
  BY <1>1, <1>2, <1>3 DEF TypeOK, FreeOrder, AllSteps, queueVars
<1>5. Roles'
  BY <1>1, <1>3 DEF Roles, CookSteps
<1>6. BoundedBuffer' /\ NumberedInOrder'
  BY <1>1 DEF BoundedBuffer, NumberedInOrder, queueVars
<1>7. \A p \in Orders : Placed(p) => Placed(p)'
  BY <1>1, <1>3 DEF Placed, Orders
<1>8. OnlyPlaced'
  <2>1. \A i \in 1 .. Len(orders) : orders[i] \in Orders
    BY DEF TypeOK
  <2>2. \A i \in 1 .. Len(orders') : Placed(orders[i])'
    BY <1>1, <1>7, <2>1 DEF OnlyPlaced, queueVars, Placed
  <2>3. ASSUME NEW l \in Cooks, holding'[l] # None
        PROVE  Placed(holding[l])'
    <3>1. holding'[l] = holding[l] /\ holding[l] \in Orders /\ Placed(holding[l])
      BY <1>1, <2>3 DEF OnlyPlaced, TypeOK
    <3> QED
      BY <1>7, <3>1 DEF Placed
  <2>4. \A p \in freed' : Placed(p)'
    BY <1>1, <1>2, <1>7 DEF OnlyPlaced, TypeOK
  <2> QED
    BY <2>2, <2>3, <2>4 DEF OnlyPlaced
<1>9. OneOwner'
  <2>1. \A l \in Cooks : Active(l)' <=> holding'[l] # None
    BY <1>1, <1>3 DEF OneOwner, Active, TypeOK
  <2>2. \A l \in Cooks : holding'[l] \notin InQueue' \cup freed'
    <3>1. None \notin InQueue /\ None \notin freed
      BY NoneIsNoOrder DEF InQueue, TypeOK
    <3> QED
      BY <1>1, <1>2, <3>1 DEF OneOwner, TypeOK, InQueue, queueVars
  <2>3. InQueue' = InQueue /\ orders' = orders
    BY <1>1 DEF InQueue, queueVars
  <2>4. \A l, m \in Cooks :
          holding'[l] = holding'[m] /\ holding'[l] # None => l = m
    BY <1>1 DEF OneOwner, TypeOK
  <2>5. InQueue' \cap freed' = {}
    BY <1>1, <2>3 DEF OneOwner
  <2> QED
    BY <2>1, <2>2, <2>3, <2>4, <2>5 DEF OneOwner
<1> QED
  BY <1>4, <1>5, <1>6, <1>8, <1>9

LEMMA CloseKeepsInv ==
  ASSUME Inv, CloseRestaurant
  PROVE  Inv'
<1> USE DEF Inv
<1> USE ThreadsAreDistinct
<1>1. ASSUME Go(Main, "closeWait"), UNCHANGED <<orders, current_size, freed>>
      PROVE  Inv'
  <2>1. QuietPc
    BY <1>1, GoingIsQuiet DEF MainSteps
  <2> QED
    BY <1>1, <2>1, QuietKeepsInv DEF CloseRestaurant, queueVars, TypeOK
<1>2. ASSUME Go(Main, "finished"), freed' = freed \cup InQueue,
             orders' = << >>, current_size' = 0
      PROVE  Inv'
  <2>1. QuietPc
    BY <1>2, GoingIsQuiet DEF MainSteps
  <2>2. InQueue \subseteq Orders
    BY DEF InQueue, TypeOK
  <2>3. UNCHANGED <<next_order_number, orders_handled, nth, holding,
                    order_number, order_num, mallocsFailed>>
        /\ mutex' = None
    BY DEF CloseRestaurant
  <2>4. TypeOK'
    BY <1>2, <2>1, <2>2, <2>3 DEF TypeOK, QuietPc, AllSteps
  <2>5. Roles'
    BY <2>1, <2>3 DEF Roles, QuietPc
  <2>6. Len(orders') = 0 /\ InQueue' = {}
    BY <1>2 DEF InQueue
  <2>7. BoundedBuffer' /\ NumberedInOrder'
    BY <1>2, <2>6, SizesAssumption DEF BoundedBuffer, NumberedInOrder
  <2>8. \A p \in Orders : Placed(p) => Placed(p)'
    BY <2>1, <2>3 DEF Placed, QuietPc, Orders
  <2>9. OnlyPlaced'
    <3>1. \A p \in freed' : Placed(p)'
      BY <1>2, <2>2, <2>8 DEF OnlyPlaced, InQueue, TypeOK
    <3>2. \A k \in Cooks : (holding[k] # None => Placed(holding[k]))'
      BY <2>3, <2>8 DEF OnlyPlaced, TypeOK
    <3> QED
      BY <2>6, <3>1, <3>2 DEF OnlyPlaced
  <2>10. OneOwner'
    BY <1>2, <2>1, <2>3, <2>6 DEF OneOwner, QuietPc
  <2> QED
    BY <2>4, <2>5, <2>7, <2>9, <2>10
<1> QED
  BY <1>1, <1>2 DEF CloseRestaurant, InQueue

-----------------------------------------------------------------------------
(* The invariant.                                                          *)

LEMMA InitInv == Init => Inv
<1> SUFFICES ASSUME Init PROVE Inv
  OBVIOUS
<1> USE ThreadsAreDistinct, SizesAssumption DEF Init
<1>1. TypeOK
  BY DEF TypeOK, CustomerSteps, MainSteps
<1>2. Roles
  BY DEF Roles, CustomerSteps, CookSteps, MainSteps
<1>3. BoundedBuffer /\ NumberedInOrder
  BY DEF BoundedBuffer, NumberedInOrder
<1>4. OnlyPlaced
  BY DEF OnlyPlaced
<1>5. OneOwner
  BY NoneIsNoOrder DEF OneOwner, InQueue, Active
<1> QED
  BY <1>1, <1>2, <1>3, <1>4, <1>5 DEF Inv

(* Taking the mutex: the step of a thread to its critical section.         *)
LEMMA LockKeepsInv ==
  ASSUME Inv, NEW t \in Threads, NEW at, NEW body,
         Lock(t, at, body),
         t \in Customers => at = "addLock" /\ body = "addBody",
         t \in Cooks => \/ at = "getLock" /\ body = "getBody"
                        \/ at = "fulfil" /\ body = "countBody",
         t = Main => body = "closeBody"
  PROVE  Inv'
<1>1. QuietPc
  BY GoingIsQuiet
     DEF Lock, Inv, CustomerSteps, CookSteps, MainSteps, Active
<1> QED
  BY <1>1, QuietKeepsInv DEF Lock, Inv, TypeOK

LEMMA CustomerKeepsInv ==
  ASSUME Inv, NEW c \in Customers, Customer(c)
  PROVE  Inv'
<1> USE ThreadsAreDistinct
<1>1. CASE MallocOrder(c)
  <2>1. QuietPc
    BY <1>1, GoingIsQuiet DEF MallocOrder, Inv, CustomerSteps
  <2> QED
    BY <1>1, <2>1, QuietKeepsInv DEF MallocOrder, Inv, TypeOK
<1>2. CASE MallocFails(c)
  <2>1. mallocsFailed' \in 0 .. MallocFailures
    BY <1>2, SizesAssumption DEF MallocFails, Inv, TypeOK
  <2> QED
    BY <1>2, <2>1, NextIterationKeepsInv DEF MallocFails, Inv, TypeOK
<1>3. CASE Lock(c, "addLock", "addBody")
  BY <1>3, LockKeepsInv
<1>4. CASE AddOrderWait(c)
  <2>1. QuietPc
    BY <1>4, GoingIsQuiet DEF AddOrderWait, Inv, CustomerSteps
  <2> QED
    BY <1>4, <2>1, QuietKeepsInv DEF AddOrderWait, Inv, TypeOK
<1>5. CASE AddOrder(c)
  BY <1>5, AddOrderKeepsInv
<1>6. CASE AddOrderReturn(c)
  <2>1. TheOrder(c) \in Orders
    BY <1>6 DEF AddOrderReturn, Inv, Roles, TheOrder, Orders, TypeOK
  <2>2. order_num' \in [Customers -> Nat \cup {Junk}]
    BY <1>6, <2>1 DEF AddOrderReturn, ReadOrderNumber, Inv, TypeOK
  <2> QED
    BY <1>6, <2>2, NextIterationKeepsInv DEF AddOrderReturn, Inv, TypeOK
<1> QED
  BY <1>1, <1>2, <1>3, <1>4, <1>5, <1>6 DEF Customer

LEMMA CookKeepsInv ==
  ASSUME Inv, NEW k \in Cooks, Cook(k)
  PROVE  Inv'
<1> USE ThreadsAreDistinct
<1>1. CASE Lock(k, "getLock", "getBody") \/ Lock(k, "fulfil", "countBody")
  BY <1>1, LockKeepsInv
<1>2. CASE GetOrderNull(k)
  <2>1. PICK woken \in Broadcast(can_get_orders) : GoAndWake(k, "done", woken)
    BY <1>2 DEF GetOrderNull
  <2>2. woken \in SUBSET (can_add_orders \cup can_get_orders)
    BY <2>1 DEF Broadcast
  <2>3. QuietPc
    BY <1>2, <2>1, <2>2, WakingIsQuiet DEF GetOrderNull, Inv, CookSteps, Active
  <2> QED
    BY <1>2, <2>3, QuietKeepsInv DEF GetOrderNull, Inv, TypeOK
<1>3. CASE GetOrderWait(k)
  <2>1. QuietPc
    BY <1>3, GoingIsQuiet DEF GetOrderWait, Inv, CookSteps, Active
  <2> QED
    BY <1>3, <2>1, QuietKeepsInv DEF GetOrderWait, Inv, TypeOK
<1>4. CASE GetOrder(k)
  BY <1>4, GetOrderKeepsInv
<1>5. CASE GetOrderSignal(k)
  <2>1. PICK woken \in Signal(can_add_orders) : GoAndWake(k, "fulfil", woken)
    BY <1>5 DEF GetOrderSignal
  <2>2. woken \in SUBSET (can_add_orders \cup can_get_orders)
    BY <2>1 DEF Signal
  <2>3. QuietPc
    BY <1>5, <2>1, <2>2, WakingIsQuiet
       DEF GetOrderSignal, Inv, CookSteps, Active
  <2> QED
    BY <1>5, <2>3, QuietKeepsInv DEF GetOrderSignal, Inv, TypeOK
<1>6. CASE CountHandled(k)
  <2>1. PICK woken \in WokenByCount(orders_handled') :
          GoAndWake(k, "report", woken)
    BY <1>6 DEF CountHandled
  <2>2. woken \in SUBSET (can_add_orders \cup can_get_orders)
    BY <2>1 DEF WokenByCount, Signal, Broadcast
  <2>3. QuietPc
    BY <1>6, <2>1, <2>2, WakingIsQuiet DEF CountHandled, Inv, CookSteps, Active
  <2> QED
    BY <1>6, <2>3, QuietKeepsInv DEF CountHandled, Inv, TypeOK
<1>7. CASE FreeOrder(k)
  BY <1>7, FreeOrderKeepsInv
<1> QED
  BY <1>1, <1>2, <1>3, <1>4, <1>5, <1>6, <1>7 DEF Cook

\* A step of main that only moves program counters.
LEMMA MainGoKeepsInv ==
  ASSUME Inv, NEW t \in Threads, NEW s, Go(t, s),
         UNCHANGED <<mainUnchanged, mutex, freed>>,
         t \in Customers => s \in {"alloc", "addLock"} /\
                            pc[t] \notin {"addReturn", "done"},
         t \in Cooks => s = "getLock" /\ ~Active(t),
         t = Main => s \in MainSteps
  PROVE  Inv'
<1>1. QuietPc
  BY GoingIsQuiet, ThreadsAreDistinct DEF Inv, CustomerSteps, CookSteps
<1> QED
  BY <1>1, QuietKeepsInv DEF mainUnchanged, Inv, TypeOK

LEMMA MainKeepsInv ==
  ASSUME Inv, MainThread
  PROVE  Inv'
<1> USE ThreadsAreDistinct
<1>1. CASE OpenRestaurant
  BY <1>1, MainGoKeepsInv DEF OpenRestaurant, MainSteps
<1>2. CASE CreateCooks
  <2>1. CASE Go(Main, "createCustomers")
    BY <1>2, <2>1, MainGoKeepsInv DEF CreateCooks, Create, MainSteps
  <2>2. CASE \E k \in Cooks : pc[k] = "unborn" /\ Go(k, "getLock")
    BY <1>2, <2>2, MainGoKeepsInv DEF CreateCooks, Create, Active
  <2> QED
    BY <1>2, <2>1, <2>2 DEF CreateCooks, Create
<1>3. CASE CreateCustomers
  <2>1. CASE Go(Main, "joinCustomers")
    BY <1>3, <2>1, MainGoKeepsInv DEF CreateCustomers, Create, MainSteps
  <2>2. CASE \E c \in Customers : pc[c] = "unborn" /\ Go(c, "alloc")
    BY <1>3, <2>2, MainGoKeepsInv DEF CreateCustomers, Create
  <2> QED
    BY <1>3, <2>1, <2>2 DEF CreateCustomers, Create
<1>4. CASE JoinCustomers \/ JoinCooks
  BY <1>4, MainGoKeepsInv DEF JoinCustomers, JoinCooks, Join, MainSteps
<1>5. CASE Lock(Main, "closeLock", "closeBody")
  BY <1>5, LockKeepsInv
<1>6. CASE CloseRestaurant
  BY <1>6, CloseKeepsInv
<1> QED
  BY <1>1, <1>2, <1>3, <1>4, <1>5, <1>6 DEF MainThread

LEMMA NextInv == Inv /\ [Next]_vars => Inv'
<1> SUFFICES ASSUME Inv, [Next]_vars PROVE Inv'
  OBVIOUS
<1> USE ThreadsAreDistinct
<1>1. CASE \E c \in Customers : Customer(c)
  BY <1>1, CustomerKeepsInv
<1>2. CASE \E k \in Cooks : Cook(k)
  BY <1>2, CookKeepsInv
<1>3. CASE MainThread
  BY <1>3, MainKeepsInv
<1>4. CASE SetupFails
  BY <1>4, MainGoKeepsInv DEF SetupFails, MainSteps
<1>5. CASE SpuriousWakeup
  <2>1. PICK t \in can_add_orders \cup can_get_orders : Go(t, Reacquire(t))
    BY <1>5 DEF SpuriousWakeup
  <2> QED
    BY <1>5, <2>1, MainGoKeepsInv
       DEF SpuriousWakeup, can_add_orders, can_get_orders, Reacquire, Active,
           MainSteps
<1>6. CASE Ended \/ UNCHANGED vars
  <2>1. UNCHANGED vars
    BY <1>6 DEF Ended
  <2> QED
    BY <2>1 DEF vars, Inv, TypeOK, Roles, BoundedBuffer, OnlyPlaced, Placed,
                NumberedInOrder, OneOwner, Active, InQueue
<1> QED
  BY <1>1, <1>2, <1>3, <1>4, <1>5, <1>6 DEF Next

(* The inductive invariant holds of every restaurant.                      *)
THEOREM InvHolds == Spec => []Inv
  BY InitInv, NextInv, PTL DEF Spec

(* Every variable keeps its type, whatever the number of threads.          *)
THEOREM TypeCorrect == Spec => []TypeOK
  BY InvHolds, PTL DEF Inv

(* The restaurant never holds more than max_size orders, and current_size  *)
(* is the length of the list.                                              *)
THEOREM BufferBounded == Spec => []BoundedBuffer
  BY InvHolds, PTL DEF Inv

(* The queue is in the order of the numbers AddOrder gives.                *)
THEOREM OrdersNumberedInOrder == Spec => []NumberedInOrder
  BY InvHolds, PTL DEF Inv

(* An order is in the queue once, or with one cook, or freed, never two of *)
(* them.                                                                   *)
THEOREM OrdersHaveOneOwner == Spec => []OneOwner
  BY InvHolds, PTL DEF Inv

-----------------------------------------------------------------------------
(* The second invariant: the mutex, the numbers, the joins and the wakeups *)

BodySteps == {"addBody", "getBody", "countBody", "closeBody"}
KitchenSteps == {"getSignal", "fulfil", "countBody"}

\* A thread is in a critical section just while it owns the mutex.
MutexHeld == \A t \in Threads : mutex = t <=> pc[t] \in BodySteps

\* The orders that have been numbered are those in the queue, with a cook, or
\* freed, and next_order_number counts them.
Numbered == {o \in Orders : order_number[o] # 0}
InHands == {holding[k] : k \in {l \in Cooks : holding[l] # None}}
NumberedSomewhere == Numbered = InQueue \cup InHands \cup freed
NumberedCounted == Cardinality(Numbered) = next_order_number - 1

\* A cook goes home only when nothing is left to do.
CooksLeaveLast == (\E k \in Cooks : pc[k] = "done") => IsEmpty /\ AllReceived

\* Past a join, the threads joined have returned; main never sleeps.
Joined ==
  /\ pc[Main] \in {"joinCooks", "closeLock", "closeBody", "finished"} =>
       \A c \in Customers : pc[c] = "done"
  /\ pc[Main] \in {"closeLock", "closeBody", "finished"} =>
       \A k \in Cooks : pc[k] = "done"
  /\ pc[Main] # "closeWait"

AwakeForOrders ==
  orders # << >> => \E k \in Cooks : pc[k] \notin {"getWait", "done"}

\* While a customer sleeps, every free place of the restaurant is known to a
\* cook who is still to signal or to a customer who is about to look.
OnTheWay == {c \in Customers : pc[c] \in {"addLock", "addBody"}}
RoomIsSignalled ==
  can_add_orders # {} =>
    MaxSize <= current_size + Cardinality(InKitchen) + Cardinality(OnTheWay)

Inv2 ==
  /\ MutexHeld
  /\ NumberedSomewhere
  /\ NumberedCounted
  /\ CooksLeaveLast
  /\ Joined
  /\ AwakeForOrders
  /\ RoomIsSignalled
  /\ OrdersAccountedFor

(* The sets of threads are finite, and so are those the invariant counts.  *)
LEMMA CountsAreNat ==
  /\ IsFiniteSet(InKitchen) /\ Cardinality(InKitchen) \in Nat
  /\ IsFiniteSet(OnTheWay) /\ Cardinality(OnTheWay) \in Nat
  /\ IsFiniteSet(InKitchen)' /\ Cardinality(InKitchen)' \in Nat
  /\ IsFiniteSet(OnTheWay)' /\ Cardinality(OnTheWay)' \in Nat
<1>1. \A S : S \subseteq Cooks => IsFiniteSet(S) /\ Cardinality(S) \in Nat
  BY FS_Subset, FS_CardinalityType, ThreadsAssumption
<1>2. \A S : S \subseteq Customers => IsFiniteSet(S) /\ Cardinality(S) \in Nat
  BY FS_Subset, FS_CardinalityType, ThreadsAssumption
<1> QED
  BY <1>1, <1>2 DEF InKitchen, OnTheWay

(* There are as many orders as main expects.                               *)
LEMMA OrdersAreExpected ==
  /\ IsFiniteSet(Orders)
  /\ Cardinality(Orders) = expected_num_orders
  /\ expected_num_orders \in Nat
<1>1. /\ IsFiniteSet(1 .. OrdersPerCustomer)
      /\ Cardinality(1 .. OrdersPerCustomer) = OrdersPerCustomer
  BY FS_Interval, SizesAssumption
<1>2. Cardinality(Customers) \in Nat
  BY FS_CardinalityType, ThreadsAssumption
<1>3. expected_num_orders \in Nat
  BY <1>2, SizesAssumption DEF expected_num_orders
<1> QED
  BY <1>1, <1>3, FS_Product, ThreadsAssumption DEF Orders, expected_num_orders

(* Numbered orders are orders, so they are finitely many.                  *)
LEMMA NumberedIsFinite ==
  /\ IsFiniteSet(Numbered)
  /\ Cardinality(Numbered) \in Nat
  /\ Cardinality(Numbered) <= expected_num_orders
  /\ Cardinality(Numbered) = expected_num_orders => Numbered = Orders
<1>1. Numbered \subseteq Orders
  BY DEF Numbered
<1> QED
  BY <1>1, OrdersAreExpected, FS_Subset, FS_CardinalityType

(* Once main has counted the orders, all of them are numbered.             *)
LEMMA AllReceivedIsAll ==
  ASSUME TypeOK, NumberedCounted, AllReceived
  PROVE  Numbered = Orders /\ next_order_number - 1 = expected_num_orders
BY NumberedIsFinite, OrdersAreExpected
   DEF NumberedCounted, AllReceived, orders_received, TypeOK

-----------------------------------------------------------------------------
(* Who moves in a step                                                     *)

(* A thread that moves takes along those it wakes, and nobody else.        *)
LEMMA WhoMoves ==
  ASSUME TypeOK, NEW t \in Threads, NEW s,
         NEW woken \in SUBSET (can_add_orders \cup can_get_orders),
         GoAndWake(t, s, woken)
  PROVE  /\ pc'[t] = s
         /\ \A c \in Customers \ {t} :
              IF c \in woken THEN pc[c] = "addWait" /\ pc'[c] = "addLock"
              ELSE pc'[c] = pc[c]
         /\ \A k \in Cooks \ {t} :
              IF k \in woken THEN pc[k] = "getWait" /\ pc'[k] = "getLock"
              ELSE pc'[k] = pc[k]
         /\ Main # t /\ pc[Main] # "closeWait" => pc'[Main] = pc[Main]
<1>1. \A u \in Threads : pc'[u] = IF u = t THEN s
                                  ELSE IF u \in woken THEN Reacquire(u)
                                  ELSE pc[u]
  BY DEF GoAndWake
<1>2. \A u \in woken : /\ u \in Customers => pc[u] = "addWait"
                       /\ u \in Cooks => pc[u] = "getWait"
                       /\ u = Main => pc[u] = "closeWait"
  BY ThreadsAreDistinct DEF can_add_orders, can_get_orders
<1> QED
  BY <1>1, <1>2, ThreadsAreDistinct DEF Reacquire

\* A step that wakes nobody.
LEMMA GoIsGoAndWake ==
  ASSUME TypeOK, NEW t \in Threads, NEW s, Go(t, s)
  PROVE  GoAndWake(t, s, {})
BY DEF Go, GoAndWake, TypeOK

(* The mutex is taken on the way into a critical section, released on the  *)
(* way out, and left alone by every other step.                            *)
LEMMA MutexKept ==
  ASSUME TypeOK, MutexHeld, pc[Main] # "closeWait", NEW t \in Threads, NEW s,
         NEW woken \in SUBSET (can_add_orders \cup can_get_orders),
         GoAndWake(t, s, woken),
         \/ mutex = None /\ mutex' = t /\ s \in BodySteps
         \/ mutex' = None /\ pc[t] \in BodySteps /\ s \notin BodySteps
         \/ mutex' = mutex /\ pc[t] \notin BodySteps /\ s \notin BodySteps
  PROVE  MutexHeld'
<1>1. None \notin Threads
  BY ThreadsAssumption DEF Threads
<1>2. /\ pc'[t] = s
      /\ \A u \in Threads \ {t} : pc'[u] \in BodySteps <=> pc[u] \in BodySteps
  BY WhoMoves, ThreadsAreDistinct DEF Threads, BodySteps
<1>3. \A u \in Threads : mutex = u <=> pc[u] \in BodySteps
  BY DEF MutexHeld
<1> QED
  BY <1>1, <1>2, <1>3 DEF MutexHeld

(* What a customer's step does to the sets the invariant speaks of.        *)
LEMMA CustomerMoves ==
  ASSUME TypeOK, Joined, NEW c \in Customers, NEW s, pc[c] # "done",
         NEW woken \in SUBSET can_get_orders,
         GoAndWake(c, s, woken)
  PROVE  /\ pc'[c] = s
         /\ InKitchen' = InKitchen
         /\ \A k \in Cooks :
              /\ pc'[k] = "done" <=> pc[k] = "done"
              /\ pc[k] \notin {"getWait", "done"} =>
                   pc'[k] \notin {"getWait", "done"}
         /\ \A d \in Customers \ {c} : pc'[d] = pc[d]
         /\ woken \cap Cooks # {} => \E k \in Cooks : pc'[k] = "getLock"
         /\ Joined'
<1> USE ThreadsAreDistinct
<1>1. woken \in SUBSET (can_add_orders \cup can_get_orders)
  OBVIOUS
<1>2. /\ pc'[c] = s
      /\ \A d \in Customers \ {c} :
           IF d \in woken THEN pc[d] = "addWait" /\ pc'[d] = "addLock"
           ELSE pc'[d] = pc[d]
      /\ \A k \in Cooks :
           IF k \in woken THEN pc[k] = "getWait" /\ pc'[k] = "getLock"
           ELSE pc'[k] = pc[k]
      /\ pc'[Main] = pc[Main]
  BY <1>1, WhoMoves DEF Joined
<1>3. \A d \in Customers : d \notin woken
  BY DEF can_get_orders
<1>4. InKitchen' = InKitchen
  BY <1>2 DEF InKitchen
<1>5. Joined'
  BY <1>2 DEF Joined
<1> QED
  BY <1>2, <1>3, <1>4, <1>5

(* The same for a cook's step.                                             *)
LEMMA CookMoves ==
  ASSUME TypeOK, Joined, NEW k \in Cooks, NEW s, pc[k] # "done",
         NEW woken \in SUBSET (can_add_orders \cup can_get_orders),
         GoAndWake(k, s, woken)
  PROVE  /\ pc'[k] = s
         /\ InKitchen' = IF s \in KitchenSteps THEN InKitchen \cup {k}
                         ELSE InKitchen \ {k}
         /\ \A l \in Cooks \ {k} :
              /\ pc'[l] = "done" <=> pc[l] = "done"
              /\ pc[l] \notin {"getWait", "done"} =>
                   pc'[l] \notin {"getWait", "done"}
         /\ can_add_orders' = can_add_orders \ woken
         /\ OnTheWay' = OnTheWay \cup (woken \cap Customers)
         /\ Joined'
<1> USE ThreadsAreDistinct
<1>1. /\ pc'[k] = s
      /\ \A c \in Customers :
           IF c \in woken THEN pc[c] = "addWait" /\ pc'[c] = "addLock"
           ELSE pc'[c] = pc[c]
      /\ \A l \in Cooks \ {k} :
           IF l \in woken THEN pc[l] = "getWait" /\ pc'[l] = "getLock"
           ELSE pc'[l] = pc[l]
      /\ pc'[Main] = pc[Main]
  BY WhoMoves DEF Joined
<1>2. InKitchen' = IF s \in KitchenSteps THEN InKitchen \cup {k}
                   ELSE InKitchen \ {k}
  BY <1>1 DEF InKitchen, KitchenSteps
<1>3. can_add_orders' = can_add_orders \ woken
  BY <1>1 DEF can_add_orders
<1>4. OnTheWay' = OnTheWay \cup (woken \cap Customers)
  BY <1>1 DEF OnTheWay
<1>5. Joined'
  BY <1>1 DEF Joined
<1> QED
  BY <1>1, <1>2, <1>3, <1>4, <1>5

-----------------------------------------------------------------------------
(* Steps that touch no order                                               *)

sameOrders == <<queueVars, orders_handled, holding, order_number, freed>>

(* What is said of the orders alone is kept.                               *)
LEMMA SameNumbers ==
  ASSUME NumberedSomewhere, NumberedCounted,
         UNCHANGED <<orders, next_order_number, holding, order_number, freed>>
  PROVE  NumberedSomewhere' /\ NumberedCounted'
<1>1. Numbered' = Numbered /\ InQueue' = InQueue /\ InHands' = InHands
  BY DEF Numbered, InQueue, InHands
<1> QED
  BY <1>1 DEF NumberedSomewhere, NumberedCounted

(* A customer goes on: its way to the mutex is only left for a full        *)
(* restaurant.                                                             *)
LEMMA CustomerGoes ==
  ASSUME Inv, Inv2, NEW c \in Customers, NEW s, Go(c, s), pc[c] # "done",
         MutexHeld', UNCHANGED sameOrders,
         \/ s = "addWait" /\ IsFull
         \/ s # "addWait" /\ c \notin OnTheWay
         \/ s \in {"addLock", "addBody"}
  PROVE  Inv2'
<1> USE ThreadsAreDistinct DEF Inv, Inv2, sameOrders, queueVars
<1>1. GoAndWake(c, s, {})
  BY GoIsGoAndWake
<1>2. /\ pc'[c] = s
      /\ InKitchen' = InKitchen
      /\ \A k \in Cooks :
           /\ pc'[k] = "done" <=> pc[k] = "done"
           /\ pc[k] \notin {"getWait", "done"} =>
                pc'[k] \notin {"getWait", "done"}
      /\ \A d \in Customers \ {c} : pc'[d] = pc[d]
      /\ Joined'
  BY <1>1, CustomerMoves
<1>3. NumberedSomewhere' /\ NumberedCounted'
  BY SameNumbers
<1>4. CooksLeaveLast'
  BY <1>2 DEF CooksLeaveLast, IsEmpty, AllReceived, orders_received
<1>5. AwakeForOrders'
  BY <1>2 DEF AwakeForOrders
<1>6. OrdersAccountedFor'
  BY <1>2 DEF OrdersAccountedFor
<1>7. RoomIsSignalled'
  <2>1. CASE s = "addWait" /\ IsFull
    BY <2>1, CountsAreNat, SizesAssumption
       DEF RoomIsSignalled, IsFull, TypeOK
  <2>2. CASE s # "addWait"
    <3>1. can_add_orders' \subseteq can_add_orders
      BY <1>2, <2>2 DEF can_add_orders
    <3>2. OnTheWay \subseteq OnTheWay'
      BY <1>2, <2>2 DEF OnTheWay
    <3>3. Cardinality(OnTheWay) <= Cardinality(OnTheWay')
      BY <3>2, CountsAreNat, FS_Subset
    <3> QED
      BY <1>2, <3>1, <3>3, CountsAreNat, SizesAssumption
         DEF RoomIsSignalled, TypeOK
  <2> QED
    BY <2>1, <2>2
<1> QED
  BY <1>2, <1>3, <1>4, <1>5, <1>6, <1>7

(* A cook goes on, in or out of the kitchen as before, and rests only when *)
(* the queue is empty.                                                     *)
LEMMA CookGoes ==
  ASSUME Inv, Inv2, NEW k \in Cooks, NEW s,
         NEW woken \in SUBSET (can_add_orders \cup can_get_orders),
         GoAndWake(k, s, woken), pc[k] # "done",
         MutexHeld', UNCHANGED sameOrders,
         pc[k] \in KitchenSteps <=> s \in KitchenSteps,
         s = "getWait" => IsEmpty,
         s = "done" => IsEmpty /\ AllReceived
  PROVE  Inv2'
<1> USE ThreadsAreDistinct DEF Inv, Inv2, sameOrders, queueVars
<1>1. /\ pc'[k] = s
      /\ InKitchen' = IF s \in KitchenSteps THEN InKitchen \cup {k}
                      ELSE InKitchen \ {k}
      /\ \A l \in Cooks \ {k} :
           /\ pc'[l] = "done" <=> pc[l] = "done"
           /\ pc[l] \notin {"getWait", "done"} =>
                pc'[l] \notin {"getWait", "done"}
      /\ can_add_orders' = can_add_orders \ woken
      /\ OnTheWay' = OnTheWay \cup (woken \cap Customers)
      /\ Joined'
  BY CookMoves
<1>2. NumberedSomewhere' /\ NumberedCounted'
  BY SameNumbers
<1>3. CooksLeaveLast'
  BY <1>1 DEF CooksLeaveLast, IsEmpty, AllReceived, orders_received
<1>4. AwakeForOrders'
  BY <1>1 DEF AwakeForOrders, IsEmpty
<1>5. InKitchen' = InKitchen
  BY <1>1 DEF InKitchen, KitchenSteps
<1>6. OrdersAccountedFor'
  BY <1>5 DEF OrdersAccountedFor
<1>7. RoomIsSignalled'
  <2>1. OnTheWay \subseteq OnTheWay' /\ can_add_orders' \subseteq can_add_orders
    BY <1>1
  <2>2. Cardinality(OnTheWay) <= Cardinality(OnTheWay')
    BY <2>1, CountsAreNat, FS_Subset
  <2>3. Cardinality(InKitchen') = Cardinality(InKitchen)
    BY <1>5
  <2> QED
    BY <2>1, <2>2, <2>3, CountsAreNat, SizesAssumption
       DEF RoomIsSignalled, TypeOK
<1> QED
  BY <1>1, <1>2, <1>3, <1>4, <1>6, <1>7

(* main goes on, past a join when the threads it joins have returned.      *)
LEMMA MainGoes ==
  ASSUME Inv, Inv2, NEW s, Go(Main, s),
         MutexHeld', UNCHANGED sameOrders,
         s \in {"joinCooks", "closeLock", "closeBody", "finished"} =>
           \A c \in Customers : pc[c] = "done",
         s \in {"closeLock", "closeBody", "finished"} =>
           \A k \in Cooks : pc[k] = "done",
         s # "closeWait"
  PROVE  Inv2'
<1> USE ThreadsAreDistinct DEF Inv, Inv2, sameOrders, queueVars
<1>1. /\ pc'[Main] = s
      /\ \A c \in Customers : pc'[c] = pc[c]
      /\ \A k \in Cooks : pc'[k] = pc[k]
  BY DEF Go, TypeOK
<1>2. NumberedSomewhere' /\ NumberedCounted'
  BY SameNumbers
<1>3. CooksLeaveLast'
  BY <1>1 DEF CooksLeaveLast, IsEmpty, AllReceived, orders_received
<1>4. AwakeForOrders'
  BY <1>1 DEF AwakeForOrders
<1>5. InKitchen' = InKitchen /\ OnTheWay' = OnTheWay
      /\ can_add_orders' = can_add_orders
  BY <1>1 DEF InKitchen, OnTheWay, can_add_orders
<1>6. OrdersAccountedFor' /\ RoomIsSignalled'
  BY <1>5 DEF OrdersAccountedFor, RoomIsSignalled
<1>7. Joined'
  BY <1>1 DEF Joined
<1> QED
  BY <1>2, <1>3, <1>4, <1>6, <1>7

-----------------------------------------------------------------------------
(* Steps that move an order                                                *)

(* The order about to be placed is new, so main has not counted them all.  *)
LEMMA PlacedOrderIsNew ==
  ASSUME Inv, Inv2, NEW c \in Customers, AddOrder(c)
  PROVE  /\ TheOrder(c) \in Orders
         /\ TheOrder(c) \notin InQueue \cup InHands \cup freed
         /\ TheOrder(c) \notin Numbered
         /\ ~AllReceived
<1>1. TheOrder(c) \in Orders /\ ~Placed(TheOrder(c))
  BY SizesAssumption
     DEF AddOrder, Inv, Roles, TypeOK, TheOrder, Orders, Placed
<1>2. TheOrder(c) \notin InQueue \cup InHands \cup freed
  BY <1>1 DEF Inv, OnlyPlaced, InQueue, InHands
<1>3. TheOrder(c) \notin Numbered
  BY <1>2 DEF Inv2, NumberedSomewhere
<1>4. ~AllReceived
  BY <1>1, <1>3, AllReceivedIsAll DEF Inv, Inv2
<1> QED
  BY <1>1, <1>2, <1>3, <1>4

LEMMA AddOrderKeepsInv2 ==
  ASSUME Inv, Inv2, NEW c \in Customers, AddOrder(c)
  PROVE  Inv2'
<1> DEFINE o == TheOrder(c)
<1> USE ThreadsAreDistinct DEF Inv, Inv2
<1>1. /\ o \in Orders
      /\ o \notin InQueue \cup InHands \cup freed
      /\ o \notin Numbered
      /\ ~AllReceived
  BY PlacedOrderIsNew
<1>2. PICK woken \in Signal(can_get_orders) : GoAndWake(c, "addReturn", woken)
  BY DEF AddOrder
<1>3. woken \in SUBSET can_get_orders
  BY <1>2 DEF Signal
<1>4. /\ pc[c] = "addBody" /\ mutex' = None
      /\ orders' = Append(orders, o)
      /\ current_size' = current_size + 1
      /\ next_order_number' = next_order_number + 1
      /\ order_number' = [order_number EXCEPT ![o] = next_order_number]
      /\ UNCHANGED <<orders_handled, holding, freed>>
  BY DEF AddOrder, AddOrderToBack
<1>5. /\ pc'[c] = "addReturn"
      /\ InKitchen' = InKitchen
      /\ \A k \in Cooks :
           /\ pc'[k] = "done" <=> pc[k] = "done"
           /\ pc[k] \notin {"getWait", "done"} =>
                pc'[k] \notin {"getWait", "done"}
      /\ \A d \in Customers \ {c} : pc'[d] = pc[d]
      /\ woken \cap Cooks # {} => \E k \in Cooks : pc'[k] = "getLock"
      /\ Joined'
  BY <1>2, <1>3, <1>4, CustomerMoves
<1>6. MutexHeld'
  <2>1. woken \in SUBSET (can_add_orders \cup can_get_orders)
    BY <1>3
  <2> QED
    BY <1>2, <1>4, <2>1, MutexKept DEF BodySteps, Joined
<1>7. Numbered' = Numbered \cup {o}
  BY <1>1, <1>4 DEF Numbered, TypeOK
<1>8. NumberedSomewhere'
  <2>1. /\ Len(orders') = Len(orders) + 1
        /\ Len(orders) \in Nat
        /\ \A i \in 1 .. Len(orders) : orders'[i] = orders[i]
        /\ orders'[Len(orders) + 1] = o
    BY <1>1, <1>4 DEF TypeOK
  <2>2. InQueue' = InQueue \cup {o}
    BY <2>1 DEF InQueue
  <2>3. InHands' = InHands
    BY <1>4 DEF InHands
  <2> QED
    BY <1>4, <1>7, <2>2, <2>3 DEF NumberedSomewhere
<1>9. NumberedCounted'
  <2>1. Cardinality(Numbered \cup {o}) = Cardinality(Numbered) + 1
    BY <1>1, NumberedIsFinite, FS_AddElement
  <2> QED
    BY <1>4, <1>7, <2>1 DEF NumberedCounted, TypeOK
<1>10. CooksLeaveLast'
  BY <1>1, <1>5 DEF CooksLeaveLast
<1>11. AwakeForOrders'
  <2>1. \A k \in Cooks : pc[k] # "done"
    BY <1>1 DEF CooksLeaveLast
  <2>2. CASE \E k \in Cooks : pc[k] # "getWait"
    BY <1>5, <2>1, <2>2 DEF AwakeForOrders
  <2>3. CASE \A k \in Cooks : pc[k] = "getWait"
    <3>1. PICK k \in Cooks : pc[k] = "getWait"
      BY <2>3, ThreadsAssumption
    <3>2. can_get_orders # {} /\ can_get_orders \subseteq Cooks
      BY <3>1 DEF can_get_orders, Joined
    <3>3. woken \cap Cooks # {}
      BY <1>2, <3>2 DEF Signal
    <3> QED
      BY <1>5, <3>3 DEF AwakeForOrders
  <2> QED
    BY <2>2, <2>3
<1>12. OrdersAccountedFor'
  <2>1. Len(orders') = Len(orders) + 1
    BY <1>1, <1>4 DEF TypeOK
  <2>2. Cardinality(InKitchen)' = Cardinality(InKitchen)
    BY <1>5
  <2>3. /\ Len(orders) \in Nat
        /\ next_order_number \in Nat
        /\ orders_handled \in Nat
    BY DEF TypeOK
  <2>4. /\ next_order_number' = next_order_number + 1
        /\ orders_handled' = orders_handled
    BY <1>4
  <2>5. next_order_number - 1
          = orders_handled + Cardinality(InKitchen) + Len(orders)
    BY DEF OrdersAccountedFor
  <2>6. next_order_number' - 1
          = orders_handled' + Cardinality(InKitchen)' + Len(orders')
    BY ONLY <2>1, <2>2, <2>3, <2>4, <2>5, CountsAreNat
  <2> QED
    BY <2>6 DEF OrdersAccountedFor
<1>13. RoomIsSignalled'
  <2>1. can_add_orders' = can_add_orders
    BY <1>4, <1>5 DEF can_add_orders
  <2>2. OnTheWay' = OnTheWay \ {c} /\ c \in OnTheWay
    BY <1>4, <1>5 DEF OnTheWay
  <2>3. Cardinality(OnTheWay') = Cardinality(OnTheWay) - 1
    BY <2>2, FS_RemoveElement, CountsAreNat
  <2>4. Cardinality(InKitchen)' = Cardinality(InKitchen)
    BY <1>5
  <2> QED
    BY <1>4, <2>1, <2>3, <2>4, CountsAreNat, SizesAssumption
       DEF RoomIsSignalled, TypeOK
<1> QED
  BY <1>5, <1>6, <1>8, <1>9, <1>10, <1>11, <1>12, <1>13

LEMMA GetOrderKeepsInv2 ==
  ASSUME Inv, Inv2, NEW k \in Cooks, GetOrder(k)
  PROVE  Inv2'
<1> DEFINE o == Head(orders)
<1> USE ThreadsAreDistinct DEF Inv, Inv2
<1>1. /\ pc[k] = "getBody" /\ mutex' = None
      /\ orders # << >>
      /\ orders' = Tail(orders)
      /\ current_size' = current_size - 1
      /\ holding' = [holding EXCEPT ![k] = o]
      /\ GoAndWake(k, "getSignal", {})
      /\ UNCHANGED <<next_order_number, orders_handled, order_number, freed>>
  BY GoIsGoAndWake DEF GetOrder, RemoveFirst, IsEmpty
<1>2. /\ Len(orders) \in Nat \ {0}
      /\ Len(orders') = Len(orders) - 1
      /\ \A i \in 1 .. Len(orders') : orders'[i] = orders[i + 1]
      /\ o = orders[1]
      /\ o \in Orders
  BY <1>1 DEF TypeOK
<1>3. /\ pc'[k] = "getSignal"
      /\ InKitchen' = InKitchen \cup {k}
      /\ \A l \in Cooks \ {k} :
           /\ pc'[l] = "done" <=> pc[l] = "done"
           /\ pc[l] \notin {"getWait", "done"} =>
                pc'[l] \notin {"getWait", "done"}
      /\ can_add_orders' = can_add_orders
      /\ OnTheWay' = OnTheWay
      /\ Joined'
  <2>1. /\ {} \in SUBSET (can_add_orders \cup can_get_orders)
        /\ pc[k] # "done"
    BY <1>1
  <2>2. /\ can_add_orders \ {} = can_add_orders
        /\ OnTheWay \cup ({} \cap Customers) = OnTheWay
    OBVIOUS
  <2> QED
    BY <1>1, <2>1, <2>2, CookMoves DEF KitchenSteps
<1>4. MutexHeld'
  BY <1>1, MutexKept DEF BodySteps, Joined
<1>5. holding[k] = None
  BY <1>1 DEF OneOwner, Active
<1>6. Numbered' = Numbered
  BY <1>1 DEF Numbered
<1>7. NumberedSomewhere'
  <2>1. InQueue = InQueue' \cup {o}
    <3>1. ASSUME NEW i \in 1 .. Len(orders)
          PROVE  orders[i] \in InQueue' \cup {o}
      <4>1. CASE i = 1
        BY <1>2, <4>1
      <4>2. CASE i # 1
        <5>1. i - 1 \in 1 .. Len(orders') /\ (i - 1) + 1 = i
          BY <1>2, <4>2
        <5>2. orders'[i - 1] = orders[i]
          BY <1>2, <5>1
        <5> QED
          BY <5>1, <5>2 DEF InQueue
      <4> QED
        BY <4>1, <4>2
    <3>2. ASSUME NEW i \in 1 .. Len(orders')
          PROVE  orders'[i] \in InQueue
      <4>1. i + 1 \in 1 .. Len(orders)
        BY <1>2
      <4> QED
        BY <1>2, <4>1 DEF InQueue
    <3>3. o \in InQueue
      BY <1>2 DEF InQueue
    <3> QED
      BY <3>1, <3>2, <3>3 DEF InQueue
  <2>2. InHands' = InHands \cup {o}
    BY <1>1, <1>2, <1>5, NoneIsNoOrder DEF InHands, TypeOK
  <2> QED
    BY <1>1, <1>6, <2>1, <2>2 DEF NumberedSomewhere
<1>8. NumberedCounted'
  BY <1>1, <1>6 DEF NumberedCounted
<1>9. CooksLeaveLast'
  BY <1>1, <1>3 DEF CooksLeaveLast, IsEmpty
<1>10. AwakeForOrders'
  BY <1>3 DEF AwakeForOrders
<1>11. Cardinality(InKitchen)' = Cardinality(InKitchen) + 1
  BY <1>1, <1>3, CountsAreNat, FS_AddElement DEF InKitchen
<1>12. OrdersAccountedFor'
  BY <1>1, <1>2, <1>11, CountsAreNat DEF OrdersAccountedFor, TypeOK
<1>13. RoomIsSignalled'
  <2>1. current_size \in Nat \ {0}
    BY <1>2 DEF BoundedBuffer
  <2>2. Cardinality(OnTheWay)' = Cardinality(OnTheWay)
    BY <1>3
  <2> QED
    BY <1>1, <1>3, <1>11, <2>1, <2>2, CountsAreNat, SizesAssumption
       DEF RoomIsSignalled
<1> QED
  BY <1>3, <1>4, <1>7, <1>8, <1>9, <1>10, <1>12, <1>13

LEMMA CountHandledKeepsInv2 ==
  ASSUME Inv, Inv2, NEW k \in Cooks, CountHandled(k)
  PROVE  Inv2'
<1> USE ThreadsAreDistinct DEF Inv, Inv2, queueVars
<1>1. PICK woken \in WokenByCount(orders_handled') :
        GoAndWake(k, "report", woken)
  BY DEF CountHandled
<1>2. /\ woken \in SUBSET (can_add_orders \cup can_get_orders)
      /\ can_add_orders # {} => woken \cap can_add_orders # {}
      /\ \/ can_add_orders \subseteq woken
         \/ \E c \in Customers : woken = {c}
  BY <1>1 DEF WokenByCount, Signal, Broadcast, can_add_orders
<1>3. /\ pc[k] = "countBody" /\ mutex' = None
      /\ orders_handled' = orders_handled + 1
      /\ UNCHANGED <<orders, current_size, next_order_number, holding,
                     order_number, freed>>
  BY DEF CountHandled
<1>4. /\ pc'[k] = "report"
      /\ InKitchen' = InKitchen \ {k}
      /\ \A l \in Cooks \ {k} :
           /\ pc'[l] = "done" <=> pc[l] = "done"
           /\ pc[l] \notin {"getWait", "done"} =>
                pc'[l] \notin {"getWait", "done"}
      /\ can_add_orders' = can_add_orders \ woken
      /\ OnTheWay' = OnTheWay \cup (woken \cap Customers)
      /\ Joined'
  BY <1>1, <1>2, <1>3, CookMoves DEF KitchenSteps
<1>5. MutexHeld'
  BY <1>1, <1>2, <1>3, MutexKept DEF BodySteps, Joined
<1>6. NumberedSomewhere' /\ NumberedCounted'
  BY <1>3, SameNumbers
<1>7. CooksLeaveLast'
  BY <1>3, <1>4 DEF CooksLeaveLast, IsEmpty, AllReceived, orders_received
<1>8. AwakeForOrders'
  BY <1>3, <1>4 DEF AwakeForOrders
<1>9. /\ Cardinality(InKitchen)' = Cardinality(InKitchen) - 1
      /\ Cardinality(InKitchen) \in Nat \ {0}
  <2>1. k \in InKitchen
    BY <1>3 DEF InKitchen
  <2>2. Cardinality(InKitchen)' = Cardinality(InKitchen) - 1
    BY <1>4, <2>1, CountsAreNat, FS_RemoveElement
  <2> QED
    BY <2>2, CountsAreNat
<1>10. OrdersAccountedFor'
  <2>1. Len(orders) \in Nat
    BY DEF TypeOK
  <2> QED
    BY <1>3, <1>9, <2>1 DEF OrdersAccountedFor, TypeOK
<1>11. RoomIsSignalled'
  <2>1. CASE can_add_orders \subseteq woken
    BY <1>4, <2>1 DEF RoomIsSignalled
  <2>2. CASE can_add_orders # {} /\ \E c \in Customers : woken = {c}
    <3>1. PICK c \in Customers : woken = {c}
      BY <2>2
    <3>2. c \in can_add_orders /\ c \notin OnTheWay
      BY <1>2, <2>2, <3>1 DEF can_add_orders, OnTheWay
    <3>3. Cardinality(OnTheWay)' = Cardinality(OnTheWay) + 1
      <4>1. OnTheWay' = OnTheWay \cup {c}
        BY <1>4, <3>1
      <4> QED
        BY <3>2, <4>1, CountsAreNat, FS_AddElement
    <3>4. MaxSize <= current_size + Cardinality(InKitchen) + Cardinality(OnTheWay)
      BY <2>2 DEF RoomIsSignalled
    <3>5. current_size \in Nat /\ current_size' = current_size
      BY <1>3 DEF TypeOK
    <3>6. MaxSize <= current_size' + Cardinality(InKitchen)'
                                  + Cardinality(OnTheWay)'
      BY <1>9, <3>3, <3>4, <3>5, CountsAreNat, SizesAssumption
    <3> QED
      BY <3>6 DEF RoomIsSignalled
  <2> QED
    BY <1>2, <2>1, <2>2
<1> QED
  BY <1>4, <1>5, <1>6, <1>7, <1>8, <1>10, <1>11

LEMMA FreeOrderKeepsInv2 ==
  ASSUME Inv, Inv2, NEW k \in Cooks, FreeOrder(k)
  PROVE  Inv2'
<1> USE ThreadsAreDistinct DEF Inv, Inv2, queueVars
<1>1. /\ pc[k] = "report" /\ mutex' = mutex
      /\ holding' = [holding EXCEPT ![k] = None]
      /\ freed' = freed \cup {holding[k]}
      /\ GoAndWake(k, "getLock", {})
      /\ UNCHANGED <<orders, current_size, next_order_number, orders_handled,
                     order_number>>
  BY GoIsGoAndWake DEF FreeOrder
<1>2. /\ pc'[k] = "getLock"
      /\ InKitchen' = InKitchen \ {k}
      /\ \A l \in Cooks \ {k} :
           /\ pc'[l] = "done" <=> pc[l] = "done"
           /\ pc[l] \notin {"getWait", "done"} =>
                pc'[l] \notin {"getWait", "done"}
      /\ can_add_orders' = can_add_orders
      /\ OnTheWay' = OnTheWay
      /\ Joined'
  <2>1. /\ {} \in SUBSET (can_add_orders \cup can_get_orders)
        /\ pc[k] # "done"
    BY <1>1
  <2>2. /\ can_add_orders \ {} = can_add_orders
        /\ OnTheWay \cup ({} \cap Customers) = OnTheWay
    OBVIOUS
  <2> QED
    BY <1>1, <2>1, <2>2, CookMoves DEF KitchenSteps
<1>3. MutexHeld'
  BY <1>1, MutexKept DEF BodySteps, Joined
<1>4. InKitchen' = InKitchen
  BY <1>1, <1>2 DEF InKitchen
<1>5. Numbered' = Numbered /\ InQueue' = InQueue
  BY <1>1 DEF Numbered, InQueue
<1>6. NumberedSomewhere'
  <2>1. holding[k] # None
    BY <1>1 DEF OneOwner, Active
  <2>2. InHands = InHands' \cup {holding[k]}
    BY <1>1, <2>1 DEF InHands, TypeOK
  <2> QED
    BY <1>1, <1>5, <2>2 DEF NumberedSomewhere
<1>7. NumberedCounted'
  BY <1>1, <1>5 DEF NumberedCounted
<1>8. CooksLeaveLast'
  BY <1>1, <1>2 DEF CooksLeaveLast, IsEmpty, AllReceived, orders_received
<1>9. AwakeForOrders'
  BY <1>2 DEF AwakeForOrders
<1>10. OrdersAccountedFor' /\ RoomIsSignalled'
  BY <1>1, <1>2, <1>4 DEF OrdersAccountedFor, RoomIsSignalled
<1> QED
  BY <1>2, <1>3, <1>6, <1>7, <1>8, <1>9, <1>10

(* The signal of GetOrder: a place is passed from the kitchen to a         *)
(* customer, if one sleeps.                                                *)
LEMMA GetOrderSignalKeepsInv2 ==
  ASSUME Inv, Inv2, NEW k \in Cooks, GetOrderSignal(k)
  PROVE  Inv2'
<1> USE ThreadsAreDistinct
<1>1. PICK woken \in Signal(can_add_orders) : GoAndWake(k, "fulfil", woken)
  BY DEF GetOrderSignal
<1>2. woken \in SUBSET (can_add_orders \cup can_get_orders)
  BY <1>1 DEF Signal
<1>3. MutexHeld'
  BY <1>1, <1>2, MutexKept DEF GetOrderSignal, BodySteps, Inv, Inv2, Joined
<1> QED
  BY <1>1, <1>2, <1>3, CookGoes DEF GetOrderSignal, sameOrders, KitchenSteps

-----------------------------------------------------------------------------
(* The end of the day                                                      *)

(* When main closes, both joins have returned: every order was numbered,   *)
(* handled and freed, and no other thread holds the mutex.                 *)
LEMMA ClosingIsQuiet ==
  ASSUME Inv, Inv2, pc[Main] \in {"closeLock", "closeBody", "finished"}
  PROVE  /\ orders = << >>
         /\ orders_handled = expected_num_orders
         /\ freed = Orders
         /\ mutex \in {None, Main}
<1> USE ThreadsAreDistinct DEF Inv, Inv2
<1>1. /\ \A c \in Customers : pc[c] = "done"
      /\ \A k \in Cooks : pc[k] = "done"
  BY DEF Joined
<1>2. orders = << >> /\ AllReceived
  BY <1>1, ThreadsAssumption DEF CooksLeaveLast, IsEmpty
<1>3. Numbered = Orders /\ next_order_number - 1 = expected_num_orders
  BY <1>2, AllReceivedIsAll
<1>4. Cardinality(InKitchen) = 0 /\ Len(orders) = 0
  <2>1. InKitchen = {}
    BY <1>1 DEF InKitchen
  <2> QED
    BY <1>2, <2>1, FS_EmptySet
<1>5. orders_handled = expected_num_orders
  BY <1>3, <1>4 DEF OrdersAccountedFor, TypeOK
<1>6. freed = Orders
  <2>1. InQueue = {}
    BY <1>4 DEF InQueue
  <2>2. InHands = {}
    BY <1>1 DEF InHands, OneOwner, Active
  <2> QED
    BY <1>3, <2>1, <2>2 DEF NumberedSomewhere
<1>7. mutex \in {None, Main}
  BY <1>1 DEF MutexHeld, TypeOK, Threads, BodySteps
<1> QED
  BY <1>2, <1>5, <1>6, <1>7

LEMMA CloseKeepsInv2 ==
  ASSUME Inv, Inv2, CloseRestaurant
  PROVE  Inv2'
<1> USE ThreadsAreDistinct
<1>1. pc[Main] = "closeBody"
  BY DEF CloseRestaurant
<1>2. /\ orders = << >>
      /\ orders_handled = expected_num_orders
  BY <1>1, ClosingIsQuiet
<1>3. ~(orders_handled < expected_num_orders)
  BY <1>2, OrdersAreExpected
<1>4. /\ Go(Main, "finished") /\ mutex' = None
      /\ freed' = freed \cup InQueue
      /\ orders' = << >>
      /\ current_size' = 0
      /\ UNCHANGED <<next_order_number, orders_handled, holding, order_number>>
  BY <1>3 DEF CloseRestaurant, InQueue
<1>5. InQueue = {} /\ current_size = 0
  <2>1. Len(orders) = 0
    BY <1>2
  <2> QED
    BY <2>1 DEF InQueue, Inv, BoundedBuffer
<1>6. UNCHANGED sameOrders
  BY <1>2, <1>4, <1>5 DEF sameOrders, queueVars
<1>7. MutexHeld'
  <2>1. GoAndWake(Main, "finished", {})
    BY <1>4, GoIsGoAndWake DEF Inv
  <2> QED
    BY <1>1, <1>4, <2>1, MutexKept DEF BodySteps, Inv, Inv2, Joined
<1> QED
  BY <1>1, <1>4, <1>6, <1>7, MainGoes DEF Inv2, Joined

-----------------------------------------------------------------------------
(* The second invariant holds.                                             *)

LEMMA InitInv2 == Init => Inv2
<1> SUFFICES ASSUME Init PROVE Inv2
  OBVIOUS
<1> USE ThreadsAreDistinct DEF Init
<1>1. MutexHeld
  BY ThreadsAssumption DEF MutexHeld, BodySteps, Threads
<1>2. Numbered = {} /\ InQueue = {} /\ InHands = {}
  BY DEF Numbered, InQueue, InHands
<1>3. NumberedSomewhere /\ NumberedCounted
  BY <1>2, FS_EmptySet DEF NumberedSomewhere, NumberedCounted
<1>4. CooksLeaveLast /\ Joined /\ AwakeForOrders
  BY DEF CooksLeaveLast, Joined, AwakeForOrders
<1>5. RoomIsSignalled
  BY DEF RoomIsSignalled, can_add_orders
<1>6. OrdersAccountedFor
  <2>1. InKitchen = {}
    BY DEF InKitchen
  <2> QED
    BY <2>1, FS_EmptySet DEF OrdersAccountedFor
<1> QED
  BY <1>1, <1>3, <1>4, <1>5, <1>6 DEF Inv2

\* Taking the mutex keeps MutexHeld.
LEMMA LockKeepsMutexHeld ==
  ASSUME Inv, Inv2, NEW t \in Threads, NEW at, NEW body \in BodySteps,
         Lock(t, at, body)
  PROVE  MutexHeld'
<1>1. GoAndWake(t, body, {}) /\ mutex = None /\ mutex' = t
  BY GoIsGoAndWake DEF Lock, Inv
<1> QED
  BY <1>1, MutexKept DEF Inv, Inv2, Joined

\* A step outside every critical section keeps MutexHeld.
LEMMA OutsideKeepsMutexHeld ==
  ASSUME Inv, Inv2, NEW t \in Threads, NEW s, Go(t, s),
         s \notin BodySteps, pc[t] \notin BodySteps, mutex' = mutex
  PROVE  MutexHeld'
<1>1. GoAndWake(t, s, {})
  BY GoIsGoAndWake DEF Inv
<1> QED
  BY <1>1, MutexKept DEF Inv, Inv2, Joined

LEMMA CustomerKeepsInv2 ==
  ASSUME Inv, Inv2, NEW c \in Customers, Customer(c)
  PROVE  Inv2'
<1> USE ThreadsAreDistinct
<1>1. CASE MallocOrder(c)
  <2>1. MutexHeld'
    BY <1>1, OutsideKeepsMutexHeld DEF MallocOrder, BodySteps
  <2> QED
    BY <1>1, <2>1, CustomerGoes DEF MallocOrder, sameOrders
<1>2. CASE MallocFails(c) \/ AddOrderReturn(c)
  <2>1. PICK s \in {"alloc", "done"} : Go(c, s)
    BY <1>2 DEF MallocFails, AddOrderReturn, NextIteration
  <2>2. pc[c] \in {"alloc", "addReturn"} /\ mutex' = mutex
    BY <1>2 DEF MallocFails, AddOrderReturn
  <2>3. MutexHeld'
    BY <2>1, <2>2, OutsideKeepsMutexHeld DEF BodySteps
  <2>4. UNCHANGED sameOrders
    BY <1>2 DEF MallocFails, AddOrderReturn, sameOrders
  <2>5. c \notin OnTheWay
    BY <2>2 DEF OnTheWay
  <2> QED
    BY <2>1, <2>2, <2>3, <2>4, <2>5, CustomerGoes
<1>3. CASE Lock(c, "addLock", "addBody")
  <2>1. MutexHeld'
    BY <1>3, LockKeepsMutexHeld DEF BodySteps
  <2> QED
    BY <1>3, <2>1, CustomerGoes DEF Lock, sameOrders
<1>4. CASE AddOrderWait(c)
  <2>1. GoAndWake(c, "addWait", {}) /\ pc[c] = "addBody" /\ mutex' = None
    BY <1>4, GoIsGoAndWake DEF AddOrderWait, Inv
  <2>2. MutexHeld'
    BY <2>1, MutexKept DEF BodySteps, Inv, Inv2, Joined
  <2> QED
    BY <1>4, <2>2, CustomerGoes DEF AddOrderWait, sameOrders
<1>5. CASE AddOrder(c)
  BY <1>5, AddOrderKeepsInv2
<1> QED
  BY <1>1, <1>2, <1>3, <1>4, <1>5 DEF Customer

LEMMA CookKeepsInv2 ==
  ASSUME Inv, Inv2, NEW k \in Cooks, Cook(k)
  PROVE  Inv2'
<1> USE ThreadsAreDistinct
<1>1. CASE \/ Lock(k, "getLock", "getBody")
           \/ Lock(k, "fulfil", "countBody")
  <2>1. PICK s \in {"getBody", "countBody"} :
          /\ Go(k, s) /\ pc[k] # "done"
          /\ pc[k] \in KitchenSteps <=> s \in KitchenSteps
    BY <1>1 DEF Lock, KitchenSteps
  <2>2. GoAndWake(k, s, {})
    BY <2>1, GoIsGoAndWake DEF Inv
  <2>3. MutexHeld'
    BY <1>1, LockKeepsMutexHeld DEF BodySteps
  <2>4. UNCHANGED sameOrders
    BY <1>1 DEF Lock, sameOrders
  <2> QED
    BY <2>1, <2>2, <2>3, <2>4, CookGoes
<1>2. CASE GetOrderNull(k)
  <2>1. PICK woken \in Broadcast(can_get_orders) : GoAndWake(k, "done", woken)
    BY <1>2 DEF GetOrderNull
  <2>2. woken \in SUBSET (can_add_orders \cup can_get_orders)
    BY <2>1 DEF Broadcast
  <2>3. MutexHeld'
    BY <1>2, <2>1, <2>2, MutexKept
       DEF GetOrderNull, BodySteps, Inv, Inv2, Joined
  <2> QED
    BY <1>2, <2>1, <2>2, <2>3, CookGoes
       DEF GetOrderNull, sameOrders, KitchenSteps
<1>3. CASE GetOrderWait(k)
  <2>1. GoAndWake(k, "getWait", {})
    BY <1>3, GoIsGoAndWake DEF GetOrderWait, Inv
  <2>2. MutexHeld'
    BY <1>3, <2>1, MutexKept DEF GetOrderWait, BodySteps, Inv, Inv2, Joined
  <2> QED
    BY <1>3, <2>1, <2>2, CookGoes DEF GetOrderWait, sameOrders, KitchenSteps
<1>4. CASE GetOrder(k)
  BY <1>4, GetOrderKeepsInv2
<1>5. CASE GetOrderSignal(k)
  BY <1>5, GetOrderSignalKeepsInv2
<1>6. CASE CountHandled(k)
  BY <1>6, CountHandledKeepsInv2
<1>7. CASE FreeOrder(k)
  BY <1>7, FreeOrderKeepsInv2
<1> QED
  BY <1>1, <1>2, <1>3, <1>4, <1>5, <1>6, <1>7 DEF Cook

LEMMA MainKeepsInv2 ==
  ASSUME Inv, Inv2, MainThread \/ SetupFails
  PROVE  Inv2'
<1> USE ThreadsAreDistinct
<1>1. ASSUME NEW s, Go(Main, s), UNCHANGED <<mainUnchanged, mutex, freed>>,
             pc[Main] \notin BodySteps,
             s \notin BodySteps \cup {"closeWait", "finished"},
             s \in {"joinCooks", "closeLock"} =>
               \A c \in Customers : pc[c] = "done",
             s = "closeLock" => \A k \in Cooks : pc[k] = "done"
      PROVE  Inv2'
  <2>1. MutexHeld'
    BY <1>1, OutsideKeepsMutexHeld
  <2>2. UNCHANGED sameOrders
    BY <1>1 DEF mainUnchanged, sameOrders
  <2> QED
    BY <1>1, <2>1, <2>2, MainGoes DEF BodySteps
<1>2. CASE OpenRestaurant
  BY <1>1, <1>2 DEF OpenRestaurant, BodySteps
<1>3. CASE CreateCooks
  <2>1. CASE Go(Main, "createCustomers")
    BY <1>1, <1>3, <2>1 DEF CreateCooks, Create, BodySteps
  <2>2. CASE \E k \in Cooks : pc[k] = "unborn" /\ Go(k, "getLock")
    <3>1. PICK k \in Cooks : pc[k] = "unborn" /\ Go(k, "getLock")
      BY <2>2
    <3>2. UNCHANGED <<mainUnchanged, mutex, freed>>
      BY <1>3 DEF CreateCooks, Create
    <3>3. MutexHeld' /\ GoAndWake(k, "getLock", {})
      BY <3>1, <3>2, OutsideKeepsMutexHeld, GoIsGoAndWake DEF BodySteps, Inv
    <3> QED
      BY <3>1, <3>2, <3>3, CookGoes
         DEF mainUnchanged, sameOrders, KitchenSteps
  <2> QED
    BY <1>3, <2>1, <2>2 DEF CreateCooks, Create
<1>4. CASE CreateCustomers
  <2>1. CASE Go(Main, "joinCustomers")
    BY <1>1, <1>4, <2>1 DEF CreateCustomers, Create, BodySteps
  <2>2. CASE \E c \in Customers : pc[c] = "unborn" /\ Go(c, "alloc")
    <3>1. PICK c \in Customers : pc[c] = "unborn" /\ Go(c, "alloc")
      BY <2>2
    <3>2. UNCHANGED <<mainUnchanged, mutex, freed>>
      BY <1>4 DEF CreateCustomers, Create
    <3>3. MutexHeld' /\ c \notin OnTheWay
      BY <3>1, <3>2, OutsideKeepsMutexHeld DEF BodySteps, OnTheWay
    <3> QED
      BY <3>1, <3>2, <3>3, CustomerGoes DEF mainUnchanged, sameOrders
  <2> QED
    BY <1>4, <2>1, <2>2 DEF CreateCustomers, Create
<1>5. CASE JoinCustomers
  BY <1>1, <1>5 DEF JoinCustomers, Join, BodySteps
<1>6. CASE JoinCooks
  BY <1>1, <1>6 DEF JoinCooks, Join, BodySteps, Inv2, Joined
<1>7. CASE Lock(Main, "closeLock", "closeBody")
  <2>1. MutexHeld'
    BY <1>7, LockKeepsMutexHeld DEF BodySteps
  <2> QED
    BY <1>7, <2>1, MainGoes DEF Lock, sameOrders, Inv2, Joined
<1>8. CASE CloseRestaurant
  BY <1>8, CloseKeepsInv2
<1>9. CASE SetupFails
  BY <1>1, <1>9 DEF SetupFails, BodySteps
<1> QED
  BY <1>2, <1>3, <1>4, <1>5, <1>6, <1>7, <1>8, <1>9 DEF MainThread

LEMMA NextInv2 == Inv /\ Inv2 /\ [Next]_vars => Inv2'
<1> SUFFICES ASSUME Inv, Inv2, [Next]_vars PROVE Inv2'
  OBVIOUS
<1> USE ThreadsAreDistinct
<1>1. CASE \E c \in Customers : Customer(c)
  BY <1>1, CustomerKeepsInv2
<1>2. CASE \E k \in Cooks : Cook(k)
  BY <1>2, CookKeepsInv2
<1>3. CASE MainThread \/ SetupFails
  BY <1>3, MainKeepsInv2
<1>4. CASE SpuriousWakeup
  <2>1. PICK t \in can_add_orders \cup can_get_orders : Go(t, Reacquire(t))
    BY <1>4 DEF SpuriousWakeup
  <2>2. UNCHANGED <<mainUnchanged, mutex, freed>>
    BY <1>4 DEF SpuriousWakeup
  <2>3. UNCHANGED sameOrders
    BY <2>2 DEF mainUnchanged, sameOrders
  <2>4. CASE t \in Customers
    <3>1. pc[t] = "addWait" /\ Go(t, "addLock")
      BY <2>1, <2>4 DEF can_add_orders, can_get_orders, Reacquire
    <3>2. MutexHeld'
      BY <2>2, <2>4, <3>1, OutsideKeepsMutexHeld DEF BodySteps
    <3> QED
      BY <2>3, <2>4, <3>1, <3>2, CustomerGoes
  <2>5. CASE t \in Cooks
    <3>1. pc[t] = "getWait" /\ Go(t, "getLock") /\ GoAndWake(t, "getLock", {})
      BY <2>1, <2>5, GoIsGoAndWake
         DEF can_add_orders, can_get_orders, Reacquire, Inv
    <3>2. MutexHeld'
      BY <2>2, <2>5, <3>1, OutsideKeepsMutexHeld DEF BodySteps
    <3> QED
      BY <2>3, <2>5, <3>1, <3>2, CookGoes DEF KitchenSteps
  <2>6. t \in Customers \cup Cooks
    BY DEF can_add_orders, can_get_orders, Inv2, Joined
  <2> QED
    BY <2>4, <2>5, <2>6
<1>5. CASE Ended \/ UNCHANGED vars
  <2>1. UNCHANGED vars
    BY <1>5 DEF Ended
  <2>2. /\ NumberedSomewhere' /\ NumberedCounted'
        /\ InKitchen' = InKitchen /\ OnTheWay' = OnTheWay
        /\ can_add_orders' = can_add_orders
    BY <2>1, SameNumbers DEF vars, InKitchen, OnTheWay, can_add_orders, Inv2
  <2> QED
    BY <2>1, <2>2
       DEF vars, Inv2, MutexHeld, CooksLeaveLast, IsEmpty, AllReceived,
           orders_received, Joined, AwakeForOrders, RoomIsSignalled,
           OrdersAccountedFor
<1> QED
  BY <1>1, <1>2, <1>3, <1>4, <1>5 DEF Next

(* The second invariant holds of every restaurant.                         *)
THEOREM Inv2Holds == Spec => []Inv2
  BY InitInv2, NextInv2, InvHolds, PTL DEF Spec

(* The two counters account for every order, whatever the interleaving:    *)
(* the numbered are the handled, those in the kitchen and those queued.    *)
THEOREM CountersAgree == Spec => []OrdersAccountedFor
  BY Inv2Holds, PTL DEF Inv2

(* CloseRestaurant finds every order handled and freed and never sleeps on *)
(* a condition that no thread is left to signal.                           *)
THEOREM ClosesQuietly == Spec => []CloseIsQuiet
<1>1. Inv /\ Inv2 => CloseIsQuiet
  BY ClosingIsQuiet DEF CloseIsQuiet, Inv2, Joined
<1> QED
  BY <1>1, InvHolds, Inv2Holds, PTL

(* No wakeup is lost: one signal per order, some of them sent outside the  *)
(* mutex, keep a cook awake while orders wait, and let a sleeping customer *)
(* know of every free place.                                               *)
THEOREM WakeupsAreNotLost == Spec => []NoLostWakeup
<1>1. Inv /\ Inv2 => NoLostWakeup
  <2> SUFFICES ASSUME Inv, Inv2 PROVE NoLostWakeup
    OBVIOUS
  <2>1. orders # << >> => \E k \in Cooks : pc[k] \notin {"getWait", "done"}
    BY DEF Inv2, AwakeForOrders
  <2>2. ASSUME can_add_orders # {}, ~IsFull
        PROVE  \/ InKitchen # {}
               \/ \E c \in Customers : pc[c] \in {"addLock", "addBody"}
    <3>1. MaxSize <= current_size + Cardinality(InKitchen) + Cardinality(OnTheWay)
      BY <2>2 DEF Inv2, RoomIsSignalled
    <3>2. Cardinality(InKitchen) # 0 \/ Cardinality(OnTheWay) # 0
      BY <2>2, <3>1, CountsAreNat, SizesAssumption DEF IsFull, Inv, TypeOK
    <3>3. InKitchen # {} \/ OnTheWay # {}
      BY <3>2, FS_EmptySet
    <3> QED
      BY <3>3 DEF OnTheWay
  <2> QED
    BY <2>1, <2>2 DEF NoLostWakeup
<1> QED
  BY <1>1, InvHolds, Inv2Holds, PTL

-----------------------------------------------------------------------------
(* The threads implement the order book                                    *)

Reporting == {l \in Cooks : pc[l] = "report"}
Cooking == {holding[k] : k \in InKitchen}
Served == freed \cup {holding[k] : k \in Reporting}

SameBook == UNCHANGED <<orders, Cooking, Served>>

(* A step that moves no order and keeps every cook on its side of the      *)
(* kitchen and of the report is none for the book.                         *)
LEMMA MovesNoOrder ==
  ASSUME TypeOK, NEW t \in Threads, NEW s,
         NEW woken \in SUBSET (can_add_orders \cup can_get_orders),
         GoAndWake(t, s, woken),
         t \in Cooks => /\ pc[t] \in KitchenSteps <=> s \in KitchenSteps
                        /\ pc[t] = "report" <=> s = "report",
         UNCHANGED <<orders, holding, freed>>
  PROVE  SameBook
<1>1. InKitchen' = InKitchen
  BY WhoMoves DEF InKitchen, KitchenSteps
<1>2. Reporting' = Reporting
  BY WhoMoves DEF Reporting
<1> QED
  BY <1>1, <1>2 DEF SameBook, Cooking, Served

\* The same for a step that wakes nobody.
LEMMA GoesWithoutOrder ==
  ASSUME TypeOK, NEW t \in Threads, NEW s, Go(t, s),
         t \in Cooks => /\ pc[t] \in KitchenSteps <=> s \in KitchenSteps
                        /\ pc[t] = "report" <=> s = "report",
         UNCHANGED <<orders, holding, freed>>
  PROVE  SameBook
BY GoIsGoAndWake, MovesNoOrder

(* AddOrder places the order, which is new to the book, when there is room.*)
LEMMA AddOrderPlaces ==
  ASSUME Inv, Inv2, NEW c \in Customers, AddOrder(c)
  PROVE  Book!Place(TheOrder(c))
<1> USE ThreadsAreDistinct DEF Inv, Inv2
<1>1. PICK woken \in Signal(can_get_orders) : GoAndWake(c, "addReturn", woken)
  BY DEF AddOrder
<1>2. woken \in SUBSET (can_add_orders \cup can_get_orders)
  BY <1>1 DEF Signal
<1>3. InKitchen' = InKitchen /\ Reporting' = Reporting
  BY <1>1, <1>2, WhoMoves DEF InKitchen, Reporting
<1>4. Cooking' = Cooking /\ Served' = Served
  BY <1>3 DEF AddOrder, Cooking, Served
<1>5. Cooking \cup Served \subseteq InHands \cup freed
  BY DEF Cooking, Served, InHands, InKitchen, Reporting, OneOwner, Active
<1>6. TheOrder(c) \notin InQueue \cup Cooking \cup Served
  BY <1>5, PlacedOrderIsNew
<1>7. Len(orders) < MaxSize
  BY SizesAssumption DEF AddOrder, IsFull, BoundedBuffer, TypeOK
<1> QED
  BY <1>4, <1>6, <1>7
     DEF AddOrder, AddOrderToBack, Book!Place, Book!InBook, InQueue, Cooking,
         Served, Reporting

(* GetOrder takes the oldest order.                                        *)
LEMMA GetOrderTakes ==
  ASSUME Inv, NEW k \in Cooks, GetOrder(k)
  PROVE  Book!Take
<1> USE ThreadsAreDistinct DEF Inv
<1>1. /\ pc[k] = "getBody"
      /\ orders # << >>
      /\ orders' = Tail(orders)
      /\ holding' = [holding EXCEPT ![k] = Head(orders)]
      /\ freed' = freed
      /\ GoAndWake(k, "getSignal", {})
  BY GoIsGoAndWake DEF GetOrder, RemoveFirst, IsEmpty
<1>2. pc'[k] = "getSignal" /\ \A l \in Cooks \ {k} : pc'[l] = pc[l]
  BY <1>1, WhoMoves
<1>3. /\ InKitchen' = InKitchen \cup {k}
      /\ Reporting' = Reporting
      /\ k \notin InKitchen \cup Reporting
      /\ InKitchen \subseteq Cooks
      /\ Reporting \subseteq Cooks
  BY <1>1, <1>2 DEF InKitchen, Reporting
<1>4. /\ \A l \in InKitchen \cup Reporting : holding'[l] = holding[l]
      /\ holding'[k] = Head(orders)
  BY <1>1, <1>3 DEF TypeOK
<1>5. Cooking' = Cooking \cup {Head(orders)}
  BY <1>3, <1>4 DEF Cooking
<1>6. Served' = Served
  BY <1>1, <1>3, <1>4 DEF Served
<1> QED
  BY <1>1, <1>5, <1>6 DEF Book!Take, Cooking, Served, Reporting

(* The count serves the order: it leaves the kitchen for good.             *)
LEMMA CountHandledServes ==
  ASSUME Inv, Inv2, NEW k \in Cooks, CountHandled(k)
  PROVE  \E o \in Orders : o = holding[k] /\ Book!Serve(o)
<1> USE ThreadsAreDistinct DEF Inv
<1>1. PICK woken \in WokenByCount(orders_handled') :
        GoAndWake(k, "report", woken)
  BY DEF CountHandled
<1>2. woken \in SUBSET (can_add_orders \cup can_get_orders)
  BY <1>1 DEF WokenByCount, Signal, Broadcast
<1>3. /\ pc[k] = "countBody"
      /\ UNCHANGED <<orders, holding, freed>>
  BY DEF CountHandled, queueVars
<1>4. /\ InKitchen' = InKitchen \ {k}
      /\ Reporting' = Reporting \cup {k}
      /\ k \in InKitchen
      /\ InKitchen \subseteq Cooks
  BY <1>1, <1>2, <1>3, WhoMoves DEF InKitchen, Reporting
<1>5. /\ holding[k] \in Orders
      /\ \A l \in InKitchen \ {k} : holding[l] # holding[k]
  <2>1. holding[k] # None
    BY <1>3 DEF OneOwner, Active
  <2> QED
    BY <1>4, <2>1 DEF OneOwner, TypeOK
<1>6. Cooking' = Cooking \ {holding[k]} /\ holding[k] \in Cooking
  BY <1>3, <1>4, <1>5 DEF Cooking
<1>7. Served' = Served \cup {holding[k]}
  BY <1>3, <1>4 DEF Served
<1> QED
  BY <1>3, <1>5, <1>6, <1>7 DEF Book!Serve, Cooking, Served, Reporting

(* free is none of the book's steps: the order was served when it was      *)
(* counted.                                                                *)
LEMMA FreeOrderMovesNone ==
  ASSUME Inv, NEW k \in Cooks, FreeOrder(k)
  PROVE  SameBook
<1> USE ThreadsAreDistinct DEF Inv
<1>1. /\ pc[k] = "report" /\ orders' = orders
      /\ holding' = [holding EXCEPT ![k] = None]
      /\ freed' = freed \cup {holding[k]}
      /\ GoAndWake(k, "getLock", {})
  BY GoIsGoAndWake DEF FreeOrder, queueVars
<1>2. /\ InKitchen' = InKitchen
      /\ Reporting' = Reporting \ {k}
      /\ k \in Reporting
      /\ k \notin InKitchen
      /\ InKitchen \subseteq Cooks
      /\ Reporting \subseteq Cooks
  BY <1>1, WhoMoves DEF InKitchen, Reporting
<1>3. \A l \in (InKitchen \cup Reporting) \ {k} : holding'[l] = holding[l]
  BY <1>1, <1>2 DEF TypeOK
<1>4. Cooking' = Cooking
  BY <1>2, <1>3 DEF Cooking
<1>5. Served' = Served
  BY <1>1, <1>2, <1>3 DEF Served
<1> QED
  BY <1>1, <1>4, <1>5 DEF SameBook

BookNext == Book!Next \/ SameBook

LEMMA CustomerKeepsBook ==
  ASSUME Inv, Inv2, NEW c \in Customers, Customer(c)
  PROVE  BookNext
<1> USE ThreadsAreDistinct DEF Inv
<1>1. CASE AddOrder(c)
  <2>1. TheOrder(c) \in Orders /\ Book!Place(TheOrder(c))
    BY <1>1, AddOrderPlaces, PlacedOrderIsNew
  <2> QED
    BY <2>1 DEF BookNext, Book!Next
<1>2. CASE ~AddOrder(c)
  <2>1. \E s : Go(c, s)
    BY <1>2 DEF Customer, MallocOrder, MallocFails, NextIteration, Lock,
                AddOrderWait, AddOrderReturn
  <2>2. UNCHANGED <<orders, holding, freed>>
    BY <1>2 DEF Customer, MallocOrder, MallocFails, Lock, AddOrderWait,
                AddOrderReturn, queueVars
  <2> QED
    BY <2>1, <2>2, GoesWithoutOrder DEF BookNext
<1> QED
  BY <1>1, <1>2

LEMMA CookKeepsBook ==
  ASSUME Inv, Inv2, NEW k \in Cooks, Cook(k)
  PROVE  BookNext
<1> USE ThreadsAreDistinct DEF Inv
<1>1. CASE GetOrder(k)
  BY <1>1, GetOrderTakes DEF BookNext, Book!Next
<1>2. CASE CountHandled(k)
  BY <1>2, CountHandledServes DEF BookNext, Book!Next
<1>3. CASE FreeOrder(k)
  BY <1>3, FreeOrderMovesNone DEF BookNext
<1>4. CASE \/ Lock(k, "getLock", "getBody")
           \/ Lock(k, "fulfil", "countBody")
           \/ GetOrderWait(k)
  <2>1. PICK s \in {"getBody", "countBody", "getWait"} :
          /\ Go(k, s)
          /\ pc[k] \in KitchenSteps <=> s \in KitchenSteps
          /\ pc[k] = "report" <=> s = "report"
    BY <1>4 DEF Lock, GetOrderWait, KitchenSteps
  <2>2. UNCHANGED <<orders, holding, freed>>
    BY <1>4 DEF Lock, GetOrderWait, queueVars
  <2> QED
    BY <2>1, <2>2, GoesWithoutOrder DEF BookNext
<1>5. CASE GetOrderNull(k) \/ GetOrderSignal(k)
  <2>1. PICK s \in {"done", "fulfil"},
             woken \in SUBSET (can_add_orders \cup can_get_orders) :
          /\ GoAndWake(k, s, woken)
          /\ pc[k] \in KitchenSteps <=> s \in KitchenSteps
          /\ pc[k] = "report" <=> s = "report"
    BY <1>5 DEF GetOrderNull, GetOrderSignal, Broadcast, Signal, KitchenSteps
  <2>2. UNCHANGED <<orders, holding, freed>>
    BY <1>5 DEF GetOrderNull, GetOrderSignal, queueVars
  <2> QED
    BY <2>1, <2>2, MovesNoOrder DEF BookNext
<1> QED
  BY <1>1, <1>2, <1>3, <1>4, <1>5 DEF Cook

LEMMA MainKeepsBook ==
  ASSUME Inv, Inv2, MainThread \/ SetupFails \/ SpuriousWakeup
  PROVE  BookNext
<1> USE ThreadsAreDistinct DEF Inv
<1>1. CASE CloseRestaurant
  <2>1. orders = << >> /\ ~(orders_handled < expected_num_orders)
    <3>1. orders = << >> /\ orders_handled = expected_num_orders
      BY <1>1, ClosingIsQuiet DEF CloseRestaurant
    <3> QED
      BY <3>1, OrdersAreExpected
  <2>2. InQueue = {}
    BY <2>1 DEF InQueue
  <2>3. /\ Go(Main, "finished") /\ holding' = holding
        /\ orders' = << >>
        /\ freed' = freed \cup InQueue
    BY <1>1, <2>1 DEF CloseRestaurant, InQueue
  <2>4. UNCHANGED <<orders, holding, freed>>
    BY <2>1, <2>2, <2>3
  <2> QED
    BY <2>3, <2>4, GoesWithoutOrder DEF BookNext
<1>2. ASSUME NEW t \in Threads, NEW s, Go(t, s),
             t \in Cooks => pc[t] \in {"unborn", "getWait"} /\ s = "getLock",
             UNCHANGED <<mainUnchanged, freed>>
      PROVE  BookNext
  <2>1. UNCHANGED <<orders, holding, freed>>
    BY <1>2 DEF mainUnchanged, queueVars
  <2> QED
    BY <1>2, <2>1, GoesWithoutOrder DEF BookNext, KitchenSteps
<1>3. CASE Lock(Main, "closeLock", "closeBody")
  <2>1. Go(Main, "closeBody") /\ UNCHANGED <<orders, holding, freed>>
    BY <1>3 DEF Lock, queueVars
  <2> QED
    BY <2>1, GoesWithoutOrder DEF BookNext
<1>4. CASE CreateCooks \/ CreateCustomers
  BY <1>2, <1>4 DEF CreateCooks, CreateCustomers, Create
<1>5. CASE OpenRestaurant \/ JoinCustomers \/ JoinCooks \/ SetupFails
  BY <1>2, <1>5
     DEF OpenRestaurant, JoinCustomers, JoinCooks, Join, SetupFails
<1>6. CASE SpuriousWakeup
  <2>1. PICK t \in can_add_orders \cup can_get_orders : Go(t, Reacquire(t))
    BY <1>6 DEF SpuriousWakeup
  <2>2. t \in Threads
        /\ (t \in Cooks => pc[t] = "getWait" /\ Reacquire(t) = "getLock")
    BY DEF can_add_orders, can_get_orders, Reacquire
  <2> QED
    BY <1>2, <1>6, <2>1, <2>2 DEF SpuriousWakeup
<1> QED
  BY <1>1, <1>3, <1>4, <1>5, <1>6 DEF MainThread

(* The threads, mutex and condition variables implement the order book: a  *)
(* bounded first-in first-out book in which every order is placed at most  *)
(* once, taken from the front and served once.                             *)
THEOREM ImplementsOrderBook == Spec => ImplementsBook
<1>1. Init => Book!Init
  BY ThreadsAreDistinct DEF Init, Book!Init, InKitchen
<1>2. Inv /\ Inv2 /\ [Next]_vars => [Book!Next]_(Book!vars)
  <2> SUFFICES ASSUME Inv, Inv2, [Next]_vars
               PROVE  Book!Next \/ SameBook
    BY DEF Book!vars, SameBook, Cooking, Served, Reporting
  <2>1. CASE \E c \in Customers : Customer(c)
    BY <2>1, CustomerKeepsBook DEF BookNext
  <2>2. CASE \E k \in Cooks : Cook(k)
    BY <2>2, CookKeepsBook DEF BookNext
  <2>3. CASE MainThread \/ SetupFails \/ SpuriousWakeup
    BY <2>3, MainKeepsBook DEF BookNext
  <2>4. CASE Ended \/ UNCHANGED vars
    BY <2>4 DEF Ended, vars, SameBook, Cooking, Served, Reporting, InKitchen
  <2> QED
    BY <2>1, <2>2, <2>3, <2>4 DEF Next
<1> QED
  BY <1>1, <1>2, InvHolds, Inv2Holds, PTL DEF Spec, Book!Spec, ImplementsBook

=============================================================================
