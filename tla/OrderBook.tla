------------------------------ MODULE OrderBook ------------------------------
(***************************************************************************)
(* What the BENSCHILLIBOWL restaurant promises, without threads, locks or  *)
(* condition variables: a bounded first-in first-out book of orders, each  *)
(* of which is placed at most once, taken from the front by a cook and     *)
(* served exactly once.  BensChilliBowl.tla is shown to implement it.      *)
(***************************************************************************)
EXTENDS Naturals, Sequences

CONSTANTS Orders,    \* every order some customer may place
          MaxSize    \* how many orders the book holds

VARIABLES queue,     \* placed and not yet taken, oldest first
          cooking,   \* taken and not yet served
          served     \* served

vars == <<queue, cooking, served>>

InBook == { queue[i] : i \in 1 .. Len(queue) }

Init ==
  /\ queue = << >>
  /\ cooking = {}
  /\ served = {}

Place(o) ==
  /\ o \notin InBook \cup cooking \cup served
  /\ Len(queue) < MaxSize
  /\ queue' = Append(queue, o)
  /\ UNCHANGED <<cooking, served>>

Take ==
  /\ queue # << >>
  /\ cooking' = cooking \cup {Head(queue)}
  /\ queue' = Tail(queue)
  /\ UNCHANGED served

Serve(o) ==
  /\ o \in cooking
  /\ cooking' = cooking \ {o}
  /\ served' = served \cup {o}
  /\ UNCHANGED queue

Next ==
  \/ \E o \in Orders : Place(o)
  \/ Take
  \/ \E o \in Orders : Serve(o)

Spec == Init /\ [][Next]_vars
=============================================================================
