---------------------------- MODULE BensChilliBowl ----------------------------
(***************************************************************************)
(* The restaurant of project-2 part 2: customer threads place orders in a  *)
(* bounded queue, cook threads take and fulfil them, main creates both,    *)
(* joins both and closes.  The queue is a monitor: one mutex and two       *)
(* condition variables.                                                    *)
(*                                                                         *)
(* A thread's program counter names the next step it takes.  A critical    *)
(* section is two steps: taking the mutex (xxxLock -> xxxBody) and the     *)
(* body, which ends by unlocking or by pthread_cond_wait (xxxWait).  What  *)
(* the code does outside the mutex - the read of order->order_number in    *)
(* AddOrder, the signal at the end of GetOrder, the free in the cook - is  *)
(* a step of its own.                                                      *)
(***************************************************************************)
EXTENDS Naturals, Sequences, FiniteSets

CONSTANTS
  Customers,          \* customer threads
  Cooks,              \* cook threads
  Main,               \* the main thread
  None,               \* no thread, no order (NULL)
  Junk,               \* what a read of freed memory may return
  OrdersPerCustomer,  \* ORDERS_PER_CUSTOMER
  MaxSize,            \* BENSCHILLIBOWL_SIZE
  MallocFailures,     \* bound: how many malloc(sizeof(Order)) fail
  SetupMayFail,       \* may OpenRestaurant or pthread_create fail?
  SpuriousWakeups     \* may pthread_cond_wait return without a signal?

ASSUME ThreadsAssumption ==
  /\ Customers \cap Cooks = {}
  /\ Main \notin Customers \cup Cooks
  /\ None \notin Customers \cup Cooks \cup {Main}
  /\ IsFiniteSet(Customers)
  /\ IsFiniteSet(Cooks)
  /\ Cooks # {}  \* NUM_COOKS

ASSUME SizesAssumption ==
  /\ OrdersPerCustomer \in Nat \ {0}
  /\ MaxSize \in Nat \ {0}
  /\ MallocFailures \in Nat
  /\ SetupMayFail \in BOOLEAN
  /\ SpuriousWakeups \in BOOLEAN

\* The i-th order a customer allocates.
Orders == Customers \X (1 .. OrdersPerCustomer)

ASSUME NoneIsNoOrder == None \notin Orders

ASSUME JunkIsNoNumber == Junk \notin Nat

Threads == Customers \cup Cooks \cup {Main}

expected_num_orders == Cardinality(Customers) * OrdersPerCustomer

VARIABLES
  orders,             \* bcb->orders, front first
  current_size,       \* bcb->current_size
  next_order_number,  \* bcb->next_order_number
  orders_handled,     \* bcb->orders_handled
  mutex,              \* the owner of bcb->mutex, or None
  pc,                 \* the next step of each thread
  nth,                \* the customer's loop counter, from 1
  holding,            \* the order a cook works on
  order_number,       \* order->order_number of each order
  freed,              \* the orders whose memory was freed
  order_num,          \* the last value AddOrder returned to a customer
  mallocsFailed       \* how many mallocs have failed

queueVars == <<orders, current_size, next_order_number>>
vars == <<orders, current_size, next_order_number, orders_handled, mutex, pc,
          nth, holding, order_number, freed, order_num, mallocsFailed>>

CustomerSteps == {"unborn", "alloc", "addLock", "addBody", "addWait",
                  "addReturn", "done"}
CookSteps == {"unborn", "getLock", "getBody", "getWait", "getSignal",
              "fulfil", "countBody", "report", "done"}
MainSteps == {"open", "createCooks", "createCustomers", "joinCustomers",
              "joinCooks", "closeLock", "closeBody", "closeWait",
              "finished", "failed"}

-----------------------------------------------------------------------------
(* The monitor's condition variables                                       *)

\* The threads blocked in pthread_cond_wait on each condition variable.
can_add_orders == {c \in Customers : pc[c] = "addWait"}
can_get_orders == {k \in Cooks : pc[k] = "getWait"}
                    \cup {t \in {Main} : pc[t] = "closeWait"}

\* Where a thread goes when its wait ends: back to taking the mutex.
Reacquire(t) ==
  IF t \in Customers THEN "addLock"
  ELSE IF t \in Cooks THEN "getLock"
  ELSE "closeLock"

\* The sets of threads that pthread_cond_signal, pthread_cond_broadcast and
\* neither of them may wake.
SignalForgotten(waiters) == {{}}
Signal(waiters) == IF waiters = {} THEN {{}} ELSE {{t} : t \in waiters}
BroadcastForgotten(waiters) == {{}}
Broadcast(waiters) == {waiters}

\* Thread t goes to step s while the threads of woken leave their wait.
GoAndWake(t, s, woken) ==
  pc' = [u \in Threads |-> IF u = t THEN s
                           ELSE IF u \in woken THEN Reacquire(u)
                           ELSE pc[u]]

Go(t, s) == pc' = [pc EXCEPT ![t] = s]

\* main returning ends the process and every thread in it.
Running == pc[Main] \notin {"finished", "failed"}

Lock(t, at, body) ==
  /\ pc[t] = at
  /\ mutex = None
  /\ mutex' = t
  /\ Go(t, body)
  /\ UNCHANGED <<queueVars, orders_handled, nth, holding, order_number,
                 freed, order_num, mallocsFailed>>

-----------------------------------------------------------------------------
(* The order queue                                                         *)

IsEmpty == orders = << >>
IsFullOffByOne == current_size > MaxSize
IsFull == current_size >= MaxSize
orders_received == next_order_number - 1
AllReceived == orders_received >= expected_num_orders
AddOrderToFront(o) == orders' = <<o>> \o orders
AddOrderToBack(o) == orders' = Append(orders, o)
RemoveFirstForgotten == UNCHANGED orders
RemoveFirst == orders' = Tail(orders)

Init ==
  /\ orders = << >>
  /\ current_size = 0
  /\ next_order_number = 1
  /\ orders_handled = 0
  /\ mutex = None
  /\ pc = [t \in Threads |-> IF t = Main THEN "open" ELSE "unborn"]
  /\ nth = [c \in Customers |-> 1]
  /\ holding = [k \in Cooks |-> None]
  /\ order_number = [o \in Orders |-> 0]
  /\ freed = {}
  /\ order_num = [c \in Customers |-> 0]
  /\ mallocsFailed = 0

-----------------------------------------------------------------------------
(* The customer                                                            *)

TheOrder(c) == <<c, nth[c]>>

\* The end of the loop body: the next iteration, or the end of the thread.
NextIteration(c) ==
  /\ nth' = [nth EXCEPT ![c] = @ + 1]
  /\ Go(c, IF nth[c] < OrdersPerCustomer THEN "alloc" ELSE "done")

MallocOrder(c) ==
  /\ pc[c] = "alloc"
  /\ Go(c, "addLock")
  /\ UNCHANGED <<queueVars, orders_handled, mutex, nth, holding, order_number,
                 freed, order_num, mallocsFailed>>

MallocFails(c) ==
  /\ pc[c] = "alloc"
  /\ mallocsFailed < MallocFailures
  /\ mallocsFailed' = mallocsFailed + 1
  /\ NextIteration(c)
  /\ UNCHANGED <<queueVars, orders_handled, mutex, holding, order_number,
                 freed, order_num>>

\* AddOrder, the mutex held: sleep while full, or put the order at the back.
AddOrderNumbersBeforeWait(c) ==
  /\ pc[c] = "addBody"
  /\ IsFull
  /\ next_order_number' = next_order_number + 1
  /\ mutex' = None
  /\ Go(c, "addWait")
  /\ UNCHANGED <<orders, current_size, orders_handled, nth, holding,
                 order_number, freed, order_num, mallocsFailed>>

AddOrderWait(c) ==
  /\ pc[c] = "addBody"
  /\ IsFull
  /\ mutex' = None
  /\ Go(c, "addWait")
  /\ UNCHANGED <<queueVars, orders_handled, nth, holding, order_number, freed,
                 order_num, mallocsFailed>>

AddOrder(c) ==
  /\ pc[c] = "addBody"
  /\ ~IsFull
  /\ order_number' = [order_number EXCEPT ![TheOrder(c)] = next_order_number]
  /\ next_order_number' = next_order_number + 1
  /\ AddOrderToBack(TheOrder(c))
  /\ current_size' = current_size + 1
  /\ \E woken \in Signal(can_get_orders) : GoAndWake(c, "addReturn", woken)
  /\ mutex' = None
  /\ UNCHANGED <<orders_handled, nth, holding, freed, order_num,
                 mallocsFailed>>

\* return order->order_number, read after the mutex is released: by then a
\* cook may have freed the order, and the memory may hold anything.
ReadOrderNumber(o) ==
  IF o \in freed THEN {order_number[o], Junk} ELSE {order_number[o]}

AddOrderReturn(c) ==
  /\ pc[c] = "addReturn"
  /\ \E n \in ReadOrderNumber(TheOrder(c)) :
       order_num' = [order_num EXCEPT ![c] = n]
  /\ NextIteration(c)
  /\ UNCHANGED <<queueVars, orders_handled, mutex, holding, order_number,
                 freed, mallocsFailed>>

Customer(c) ==
  Running /\
  (\/ MallocOrder(c)
   \/ MallocFails(c)
   \/ Lock(c, "addLock", "addBody")
   \/ AddOrderWait(c)
   \/ AddOrder(c)
   \/ AddOrderReturn(c))

-----------------------------------------------------------------------------
(* The cook                                                                *)

\* GetOrder, the mutex held and no order there: no more will come, or wait.
GetOrderNull(k) ==
  /\ pc[k] = "getBody"
  /\ IsEmpty
  /\ AllReceived
  /\ \E woken \in Broadcast(can_get_orders) : GoAndWake(k, "done", woken)
  /\ mutex' = None
  /\ UNCHANGED <<queueVars, orders_handled, nth, holding, order_number, freed,
                 order_num, mallocsFailed>>

GetOrderWait(k) ==
  /\ pc[k] = "getBody"
  /\ IsEmpty
  /\ ~AllReceived
  /\ mutex' = None
  /\ Go(k, "getWait")
  /\ UNCHANGED <<queueVars, orders_handled, nth, holding, order_number, freed,
                 order_num, mallocsFailed>>

GetOrder(k) ==
  /\ pc[k] = "getBody"
  /\ ~IsEmpty
  /\ holding' = [holding EXCEPT ![k] = Head(orders)]
  /\ RemoveFirst
  /\ current_size' = current_size - 1
  /\ mutex' = None
  /\ Go(k, "getSignal")
  /\ UNCHANGED <<next_order_number, orders_handled, nth, order_number, freed,
                 order_num, mallocsFailed>>

\* The signal that there is space, sent after the mutex is released.
GetOrderSignal(k) ==
  /\ pc[k] = "getSignal"
  /\ \E woken \in Signal(can_add_orders) : GoAndWake(k, "fulfil", woken)
  /\ UNCHANGED <<queueVars, orders_handled, mutex, nth, holding, order_number,
                 freed, order_num, mallocsFailed>>

\* The handled count, the mutex held, and whom the cook wakes.
WokenByCount(handled) ==
  IF handled >= expected_num_orders
  THEN Broadcast(can_get_orders \cup can_add_orders)
  ELSE Signal(can_add_orders)

CountHandled(k) ==
  /\ pc[k] = "countBody"
  /\ orders_handled' = orders_handled + 1
  /\ \E woken \in WokenByCount(orders_handled') :
       GoAndWake(k, "report", woken)
  /\ mutex' = None
  /\ UNCHANGED <<queueVars, nth, holding, order_number, freed, order_num,
                 mallocsFailed>>

\* printf and free(order), outside the mutex.
FreeOrder(k) ==
  /\ pc[k] = "report"
  /\ freed' = freed \cup {holding[k]}
  /\ holding' = [holding EXCEPT ![k] = None]
  /\ Go(k, "getLock")
  /\ UNCHANGED <<queueVars, orders_handled, mutex, nth, order_number,
                 order_num, mallocsFailed>>

Cook(k) ==
  Running /\
  (\/ Lock(k, "getLock", "getBody")
   \/ GetOrderNull(k)
   \/ GetOrderWait(k)
   \/ GetOrder(k)
   \/ GetOrderSignal(k)
   \/ Lock(k, "fulfil", "countBody")
   \/ CountHandled(k)
   \/ FreeOrder(k))

-----------------------------------------------------------------------------
(* main                                                                    *)

mainUnchanged == <<queueVars, orders_handled, nth, holding, order_number,
                   order_num, mallocsFailed>>

OpenRestaurant ==
  /\ pc[Main] = "open"
  /\ Go(Main, "createCooks")
  /\ UNCHANGED <<mainUnchanged, mutex, freed>>

\* pthread_create of one thread of a loop, the last of which ends the loop.
Create(at, pool, first, after) ==
  /\ pc[Main] = at
  /\ IF \A t \in pool : pc[t] # "unborn"
     THEN Go(Main, after)
     ELSE \E t \in pool : pc[t] = "unborn" /\ Go(t, first)
  /\ UNCHANGED <<mainUnchanged, mutex, freed>>

CreateCooks == Create("createCooks", Cooks, "getLock", "createCustomers")
CreateCustomers == Create("createCustomers", Customers, "alloc", "joinCustomers")

\* OpenRestaurant returns NULL or pthread_create fails: main returns 1.
SetupFails ==
  /\ SetupMayFail
  /\ \/ pc[Main] = "open"
     \/ pc[Main] = "createCooks" /\ \E k \in Cooks : pc[k] = "unborn"
     \/ pc[Main] = "createCustomers" /\ \E c \in Customers : pc[c] = "unborn"
  /\ Go(Main, "failed")
  /\ UNCHANGED <<mainUnchanged, mutex, freed>>

\* The pthread_join loops: every thread of the pool has returned.
Join(at, pool, after) ==
  /\ pc[Main] = at
  /\ \A t \in pool : pc[t] = "done"
  /\ Go(Main, after)
  /\ UNCHANGED <<mainUnchanged, mutex, freed>>

JoinCustomers == Join("joinCustomers", Customers, "joinCooks")
JoinCooksForgotten == Join("joinCooks", {}, "closeLock")
JoinCooks == Join("joinCooks", Cooks, "closeLock")

\* CloseRestaurant, the mutex held: wait for the last order to be handled,
\* then free what is left of the queue, and the restaurant with it.
CloseRestaurant ==
  /\ pc[Main] = "closeBody"
  /\ mutex' = None
  /\ IF orders_handled < expected_num_orders
     THEN Go(Main, "closeWait") /\ UNCHANGED <<orders, current_size, freed>>
     ELSE /\ Go(Main, "finished")
          /\ freed' = freed \cup {orders[i] : i \in 1 .. Len(orders)}
          /\ orders' = << >>
          /\ current_size' = 0
  /\ UNCHANGED <<next_order_number, orders_handled, nth, holding, order_number,
                 order_num, mallocsFailed>>

MainThread ==
  \/ OpenRestaurant
  \/ CreateCooks
  \/ CreateCustomers
  \/ JoinCustomers
  \/ JoinCooks
  \/ Lock(Main, "closeLock", "closeBody")
  \/ CloseRestaurant

-----------------------------------------------------------------------------

\* pthread_cond_wait may return on its own.
SpuriousWakeup ==
  /\ SpuriousWakeups
  /\ Running
  /\ \E t \in can_add_orders \cup can_get_orders : Go(t, Reacquire(t))
  /\ UNCHANGED <<mainUnchanged, mutex, freed>>

\* The process has ended.
Ended == ~Running /\ UNCHANGED vars

Next ==
  \/ \E c \in Customers : Customer(c)
  \/ \E k \in Cooks : Cook(k)
  \/ MainThread
  \/ SetupFails
  \/ SpuriousWakeup
  \/ Ended

Spec == Init /\ [][Next]_vars

\* The scheduler runs every runnable thread, and a mutex that is released
\* again and again - by threads that wake up spuriously, test and sleep - goes
\* to every thread that waits for it in the end.
Fairness ==
  /\ \A c \in Customers : SF_vars(Customer(c))
  /\ \A k \in Cooks : SF_vars(Cook(k))
  /\ WF_vars(MainThread)

FairSpec == Spec /\ Fairness

-----------------------------------------------------------------------------
(* Properties                                                              *)

InQueue == {orders[i] : i \in 1 .. Len(orders)}
InKitchen == {k \in Cooks : pc[k] \in {"getSignal", "fulfil", "countBody"}}
Active(k) == pc[k] \in {"getSignal", "fulfil", "countBody", "report"}

TypeOK ==
  /\ orders \in Seq(Orders)
  /\ current_size \in Nat
  /\ next_order_number \in Nat \ {0}
  /\ orders_handled \in Nat
  /\ mutex \in Threads \cup {None}
  /\ pc \in [Threads -> CustomerSteps \cup CookSteps \cup MainSteps]
  /\ nth \in [Customers -> 1 .. OrdersPerCustomer + 1]
  /\ holding \in [Cooks -> Orders \cup {None}]
  /\ order_number \in [Orders -> Nat]
  /\ freed \in SUBSET Orders
  /\ order_num \in [Customers -> Nat \cup {Junk}]
  /\ mallocsFailed \in 0 .. MallocFailures

(* The counter the waits test and the list the orders are in agree, and    *)
(* the restaurant never holds more than max_size orders, although the      *)
(* signals are shared between threads, arrive late and may wake a thread   *)
(* that finds the restaurant full again.                                   *)
BoundedBuffer ==
  /\ current_size = Len(orders)
  /\ Len(orders) <= MaxSize

(* Orders leave in the order they were numbered: the queue always holds    *)
(* the consecutive numbers that end just before next_order_number.         *)
NumberedInOrder ==
  \A i \in 1 .. Len(orders) :
    order_number[orders[i]] + Len(orders) + 1 = next_order_number + i

(* An order is in one place at a time: once in the queue, or in the hands  *)
(* of one cook, or freed.  No cook fulfils an order twice, frees one that  *)
(* is still in the list, or works on one that another cook has freed.      *)
OneOwner ==
  /\ \A i, j \in 1 .. Len(orders) : orders[i] = orders[j] => i = j
  /\ \A k \in Cooks : Active(k) <=> holding[k] # None
  /\ \A k \in Cooks : holding[k] \notin InQueue \cup freed
  /\ \A k, l \in Cooks :
       holding[k] = holding[l] /\ holding[k] # None => k = l
  /\ InQueue \cap freed = {}

(* The two counters account for every order: those numbered are those      *)
(* handled, those in the kitchen and those in the queue.  GetOrder ends    *)
(* the cooks by the first counter and CloseRestaurant waits for the other. *)
OrdersAccountedFor ==
  next_order_number - 1 = orders_handled + Cardinality(InKitchen) + Len(orders)

(* CloseRestaurant, called after both joins, has nothing to wait for and   *)
(* nothing to free ("Free any remaining orders (shouldn't be any)"): its   *)
(* wait would be on a condition no thread is left to signal.               *)
CloseIsQuiet ==
  pc[Main] \in {"closeLock", "closeBody", "closeWait", "finished"} =>
    /\ pc[Main] # "closeWait"
    /\ orders = << >>
    /\ orders_handled = expected_num_orders
    /\ freed = Orders
    /\ mutex \in {None, Main}

(* No wakeup is lost.  While an order waits in the queue some cook is      *)
(* awake or still to be created; while a customer sleeps although there is *)
(* room, some cook is still to signal, or a customer that was woken is on  *)
(* its way.  One signal per order, part of them sent outside the mutex,    *)
(* has to guarantee this.                                                  *)
NoLostWakeup ==
  Running =>
    /\ orders # << >> =>
         \E k \in Cooks : pc[k] \notin {"getWait", "done"}
    /\ can_add_orders # {} /\ ~IsFull =>
         \/ InKitchen # {}
         \/ \E c \in Customers : pc[c] \in {"addLock", "addBody"}

(* The number AddOrder returns is the number the order was given           *)
(* (BENSCHILLIBOWL.h: "return the order number").                          *)
ReturnsTheOrderNumber ==
  [][\A c \in Customers :
       AddOrderReturn(c) => order_num'[c] = order_number[TheOrder(c)]]_vars

(* The restaurant closes: unless an allocation fails or set-up does, every *)
(* customer places its orders, every cook goes home, and main returns.     *)
RestaurantCloses ==
  [](mallocsFailed = 0 /\ pc[Main] # "failed") => <>(pc[Main] = "finished")

(* The threads implement the order book.  An order is cooking until it is  *)
(* counted and served from then on.                                        *)
Book == INSTANCE OrderBook WITH
  queue <- orders,
  cooking <- {holding[k] : k \in InKitchen},
  served <- freed \cup {holding[k] : k \in {l \in Cooks : pc[l] = "report"}}

ImplementsBook == Book!Spec
=============================================================================
