----------------------------- MODULE SharedLists -----------------------------
(***************************************************************************)
(* What the chat server's readers-writer lock promises its users: any      *)
(* number of threads may read the user and room lists together, a thread   *)
(* that writes them is alone with them.  ChatLock.tla is shown to          *)
(* implement it.                                                           *)
(***************************************************************************)
CONSTANT Users       \* whoever reads or writes the lists

VARIABLES readers,   \* those reading
          writers    \* those writing

vars == <<readers, writers>>

Init == readers = {} /\ writers = {}

StartRead(u) ==
  /\ u \notin readers /\ writers = {}
  /\ readers' = readers \cup {u}
  /\ UNCHANGED writers

EndRead(u) ==
  /\ u \in readers
  /\ readers' = readers \ {u}
  /\ UNCHANGED writers

StartWrite(u) ==
  /\ readers = {} /\ writers = {}
  /\ writers' = {u}
  /\ UNCHANGED readers

EndWrite(u) ==
  /\ u \in writers
  /\ writers' = {}
  /\ UNCHANGED readers

Next == \E u \in Users : StartRead(u) \/ EndRead(u) \/ StartWrite(u)
                           \/ EndWrite(u)

Spec == Init /\ [][Next]_vars
=============================================================================
