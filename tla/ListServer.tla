----------------------------- MODULE ListServer -----------------------------
(***************************************************************************)
(* Lab 4: a server that keeps one list for one client at a time.  SIGINT   *)
(* runs handle_exit wherever main is, also between two writes of a list    *)
(* operation; it frees the list and exits.  main calls handle_exit too.    *)
(*                                                                         *)
(* list.c is that of lab 1 with two other loops; sockets and the wording   *)
(* of the answers are left out.                                            *)
(***************************************************************************)
EXTENDS LinkedList

CONSTANT Values  \* the values clients send

ASSUME ListServerAssumption == Values \subseteq Int

\* The indices they send: below the list, in it and beyond its end.
Indices == -1 .. Cardinality(Nodes) + 1

VARIABLES
  spc,      \* the next step of main
  mylist,   \* "NULL", "allocated" or "freed"
  heap,     \* the head of *mylist, and the nodes
  todo,     \* the writes the operation under way still has to make
  value,    \* what that operation will return
  val,      \* what the last operation has returned
  current,  \* the loop variable of list_free
  cmd,      \* history: the command under way, with its arguments
  before    \* history: the list when it came

vars == <<spc, mylist, heap, todo, value, val, current, cmd, before>>
operation == <<todo, value, val, cmd, before>>

Up == spc \notin {"exited", "failed", "crashed"}

Init ==
  /\ spc = "accept"
  /\ mylist = "NULL"
  /\ heap = [head |-> NULL,
             next |-> [n \in Nodes |-> NULL],
             value |-> [n \in Nodes |-> 0],
             used |-> {}]
  /\ todo = << >>
  /\ value = 0
  /\ val = 0
  /\ current = NULL
  /\ cmd = << >>
  /\ before = << >>

-----------------------------------------------------------------------------
(* list.c, where it differs                                                *)

add_at_index(h, n, v, index) ==
  LET steps == Smaller(index - 1, list_length(h)) IN
  IF index <= 0 THEN list_add_to_front(h, n, v)
  ELSE IF NodeAt(h)[steps] = NULL THEN list_add_to_back(h, n, v)
  ELSE AddAfter(h, n, v, NodeAt(h)[steps])

get_elem_at(h, index) ==
  LET n == NodeAt(h)[Clip(index, 0, list_length(h))] IN
  IF n = NULL THEN -1 ELSE h.value[n]

listToString == Elements(heap)
add_front(n, v) == list_add_to_front(heap, n, v)
add_back(n, v) == list_add_to_back(heap, n, v)
remove_front_use_after_free == \* a mutant: the node is freed first
  Op(Reverse(list_remove_from_front(heap).writes),
     list_remove_from_front(heap).ret)
remove_front == list_remove_from_front(heap)
remove_back == list_remove_from_back(heap)
remove_position(index) == list_remove_at_index(heap, index)

-----------------------------------------------------------------------------
(* main                                                                    *)

\* The first client, for whom the list is made, or the next one.
Accept ==
  /\ spc = "accept"
  /\ spc' = "recv"
  /\ mylist' = "allocated"
  /\ UNCHANGED <<heap, operation, current>>

\* list_free starts at the head.
HandleExit ==
  /\ spc' = "free"
  /\ current' = heap.head
  /\ UNCHANGED <<mylist, heap, operation>>

AcceptFails ==
  /\ spc = "accept"
  /\ IF mylist = "NULL"
     THEN spc' = "failed" /\ UNCHANGED <<mylist, heap, operation, current>>
     ELSE HandleExit

\* recv returns 0 or less: the next client finds the same list.
Disconnect ==
  /\ spc = "recv"
  /\ spc' = "accept"
  /\ UNCHANGED <<mylist, heap, operation, current>>

\* main calls a function of list.c.
Call(c, op) ==
  /\ spc = "recv"
  /\ spc' = IF op.writes = << >> THEN "send" ELSE "op"
  /\ todo' = op.writes
  /\ value' = op.ret
  /\ val' = IF op.writes = << >> THEN op.ret ELSE val
  /\ cmd' = c
  /\ before' = Elements(heap)
  /\ UNCHANGED <<mylist, heap, current>>

Command ==
  \/ \E n \in Nodes \ heap.used, v \in Values :
       \/ Call(<<"add_front", v>>, add_front(n, v))
       \/ Call(<<"add_back", v>>, add_back(n, v))
       \/ \E x \in Indices :
            Call(<<"add_position", x, v>>, add_at_index(heap, n, v, x))
  \/ Call(<<"print">>, Op(<< >>, listToString))
  \/ Call(<<"get_length">>, Op(<< >>, list_length(heap)))
  \/ Call(<<"remove_front">>, remove_front)
  \/ Call(<<"remove_back">>, remove_back)
  \/ \E x \in Indices :
       \/ Call(<<"remove_position", x>>, remove_position(x))
       \/ Call(<<"get", x>>, Op(<< >>, get_elem_at(heap, x)))

\* The next write; after the last one the function returns.
Step ==
  /\ spc = "op"
  /\ heap' = Write(heap, Head(todo))
  /\ todo' = Tail(todo)
  /\ IF Len(todo) = 1
     THEN spc' = "send" /\ val' = value
     ELSE UNCHANGED <<spc, val>>
  /\ UNCHANGED <<mylist, value, current, cmd, before>>

Send ==
  /\ spc = "send"
  /\ spc' = "recv"
  /\ UNCHANGED <<mylist, heap, operation, current>>

Exit == spc = "recv" /\ HandleExit

\* One turn of the loop of list_free; then the list itself; then exit.
FreeNext ==
  /\ spc = "free"
  /\ current # NULL
  /\ current' = heap.next[current]
  /\ heap' = [heap EXCEPT !.used = @ \ {current}]
  /\ UNCHANGED <<spc, mylist, operation>>

FreeList ==
  /\ spc = "free"
  /\ current = NULL
  /\ mylist' = "freed"
  /\ spc' = "close"
  /\ UNCHANGED <<heap, operation, current>>

Close ==
  /\ spc = "close"
  /\ spc' = "exited"
  /\ UNCHANGED <<mylist, heap, operation, current>>

-----------------------------------------------------------------------------
(* SIGINT, which is blocked while its own handler runs                     *)

\* The nodes list_free visits, whether or not they have been freed.
Visited == {NodeAt(heap)[k] : k \in 0 .. list_length(heap) - 1}
Sound == mylist # "freed" /\ Visited \subseteq heap.used

\* Freeing freed memory may crash or go unnoticed.
Sigint ==
  /\ Up
  /\ spc' \in IF mylist = "NULL" \/ Sound THEN {"exited"}
              ELSE {"exited", "crashed"}
  /\ IF mylist = "NULL"
     THEN UNCHANGED <<mylist, heap>>
     ELSE /\ mylist' = "freed"
          /\ heap' = [heap EXCEPT !.used = @ \ Visited]
  /\ UNCHANGED <<operation, current>>

Ended == ~Up /\ UNCHANGED vars

Next ==
  \/ Accept
  \/ AcceptFails
  \/ Disconnect
  \/ Command
  \/ Step
  \/ Send
  \/ Exit
  \/ FreeNext
  \/ FreeList
  \/ Close
  \/ Sigint
  \/ Ended

Spec == Init /\ [][Next]_vars

-----------------------------------------------------------------------------
(* Properties                                                              *)

\* What a command means: the list it leaves and the value it answers.
Meaning(c, s) ==
  CASE c[1] = "add_front" -> <<<<c[2]>> \o s, c[2]>>
    [] c[1] = "add_back" -> <<Append(s, c[2]), c[2]>>
    [] c[1] = "add_position" -> <<Inserted(s, c[3], c[2]), c[3]>>
    [] c[1] = "print" -> <<s, s>>
    [] c[1] = "get_length" -> <<s, Len(s)>>
    [] c[1] = "remove_front" -> Without(s, 0)
    [] c[1] = "remove_back" -> Without(s, Len(s) - 1)
    [] c[1] = "remove_position" -> Without(s, Clip(c[2], 0, Len(s)))
    [] c[1] = "get" -> <<s, Without(s, Clip(c[2], 0, Len(s)))[2]>>

(* Over any sequence of commands of any clients, each does to the list     *)
(* what it means for a sequence of values and answers accordingly: no      *)
(* index, however far out, loses a node or a link.                         *)
CommandsOnASequence ==
  spc = "send" => <<Elements(heap), val>> = Meaning(cmd, before)

\* remove_back frees the last node before it cuts the link to it.
DanglingLink == spc = "op" /\ cmd = <<"remove_back">> /\ Len(todo) = 1

(* Whenever SIGINT comes, also between two writes, handle_exit frees nodes *)
(* that are allocated, each once, and leaves at most the one that is on    *)
(* its way in or out - except in the middle of remove_back and of the      *)
(* clean-up that main itself began, which frees the same nodes.            *)
HandlerFreesTheList ==
  Up /\ mylist # "NULL" /\ spc \notin {"free", "close"} /\ ~DanglingLink =>
    /\ Sound
    /\ Cardinality(heap.used \ Visited) <= IF spc = "op" THEN 1 ELSE 0

(* The library of lab 1 on every list the commands can build.              *)
LibraryOnASequence == spc = "recv" => IsASequence(heap, Values)
=============================================================================
