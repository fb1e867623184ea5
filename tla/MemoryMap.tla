------------------------------ MODULE MemoryMap ------------------------------
(***************************************************************************)
(* What a contiguous memory allocator promises: the blocks given out lie   *)
(* in the partition and never overlap; a block stays where it is until it  *)
(* is given back.  MMU.tla is shown to implement it.                       *)
(***************************************************************************)
EXTENDS Integers

CONSTANTS Addresses,  \* the addresses of the partition
          Pids        \* the processes

VARIABLE owned        \* the blocks given out: pid, start, end

Block == [pid : Pids, start : Addresses, end : Addresses]
Cells(b) == b.start .. b.end

Init == owned = {}

Give(b) ==
  /\ b.start <= b.end
  /\ \A c \in owned : Cells(b) \cap Cells(c) = {}
  /\ owned' = owned \cup {b}

TakeBack(b) ==
  /\ b \in owned
  /\ owned' = owned \ {b}

Next == \E b \in Block : Give(b) \/ TakeBack(b)

Spec == Init /\ [][Next]_owned
=============================================================================
