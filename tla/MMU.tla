--------------------------------- MODULE MMU ---------------------------------
(***************************************************************************)
(* The memory manager of lab 8: a list of free blocks and a list of        *)
(* allocated blocks, and the three requests of its input file - allocate,  *)
(* deallocate, coalesce - under the policy given on the command line.      *)
(* Lists are sequences of blocks.                                          *)
(***************************************************************************)
EXTENDS Integers, Sequences, FiniteSets, SequencesExt

CONSTANTS
  PARTITION_SIZE,  \* the first line of the input file
  Pids,            \* the processes of the input file
  Sizes            \* the sizes it asks for

ASSUME MMUAssumption ==
  /\ PARTITION_SIZE \in Nat \ {0}
  /\ Pids \subseteq Nat \ {0}
  /\ Sizes \subseteq Nat \ {0}

FIFO == 1
BESTFIT == 2
WORSTFIT == 3

Addresses == 0 .. PARTITION_SIZE - 1

VARIABLES
  FREE_LIST,   \* the free blocks; their pid is 0
  ALLOC_LIST,  \* the allocated blocks
  policy,      \* Memory_Mgt_Policy
  coalesced    \* history: has there been a coalesce request?

vars == <<FREE_LIST, ALLOC_LIST, policy, coalesced>>

-----------------------------------------------------------------------------
(* list.c                                                                  *)

Size(b) == b.end - b.start + 1

\* Insert b before the first element that satisfies Stop, or at the back.
InsertBefore(l, b, Stop(_)) ==
  LET i == SelectInSeq(l, Stop)
  IN  IF i = 0 THEN Append(l, b) ELSE InsertAt(l, i, b)

list_add_ascending_by_address(l, b) ==
  InsertBefore(l, b, LAMBDA c : c.start >= b.start)

list_add_ascending_by_blocksize(l, b) ==
  InsertBefore(l, b, LAMBDA c : Size(b) < Size(c))

list_add_descending_by_blocksize(l, b) ==
  InsertBefore(l, b, LAMBDA c : Size(b) >= Size(c))

\* 0 stands for -1: no such block.
list_get_index_of_by_any(l, size) == IF l = << >> THEN 0 ELSE 1 \* a mutant
list_get_index_of_by_Size(l, size) ==
  SelectInSeq(l, LAMBDA b : size <= Size(b))
list_get_index_of_by_Pid(l, pid) == SelectInSeq(l, LAMBDA b : b.pid = pid)

\* Walk the list with the block merged so far at the back of the result.
MergeNever(l, b) == Append(l, b) \* a mutant: the comparison is never true
Merge(l, b) ==
  IF l # << >> /\ Last(l).end + 1 = b.start
  THEN [l EXCEPT ![Len(l)].end = b.end]
  ELSE Append(l, b)

list_coalese_nodes(l) == FoldLeft(Merge, << >>, l)

-----------------------------------------------------------------------------
(* mmu.c                                                                   *)

AddFreeToBack(l, b) == Append(l, b) \* a mutant: the policy is ignored
AddFree(l, b) ==
  CASE policy = FIFO -> Append(l, b)
    [] policy = BESTFIT -> list_add_ascending_by_blocksize(l, b)
    [] policy = WORSTFIT -> list_add_descending_by_blocksize(l, b)

Init ==
  /\ FREE_LIST = <<[pid |-> 0, start |-> 0, end |-> PARTITION_SIZE - 1]>>
  /\ ALLOC_LIST = << >>
  /\ policy \in {FIFO, BESTFIT, WORSTFIT}
  /\ coalesced = FALSE

\* The block the request gets, the first that is large enough, is cut: its
\* front is allocated, and what is left is a free block again.
Cut(b, pid, size) == [pid |-> pid, start |-> b.start, end |-> b.start + size - 1]
FragmentOverlaps(b, size) == \* a mutant: off by one
  [pid |-> 0, start |-> b.start + size - 1, end |-> b.end]
Fragment(b, size) == [pid |-> 0, start |-> b.start + size, end |-> b.end]

allocate_memory(pid, size) ==
  LET i == list_get_index_of_by_Size(FREE_LIST, size)
      b == FREE_LIST[i]
      rest == RemoveAt(FREE_LIST, i)
  IN  /\ i # 0
      /\ ALLOC_LIST' =
           list_add_ascending_by_address(ALLOC_LIST, Cut(b, pid, size))
      /\ FREE_LIST' = IF Cut(b, pid, size).end < b.end
                      THEN AddFree(rest, Fragment(b, size))
                      ELSE rest
      /\ UNCHANGED <<policy, coalesced>>

\* "Error: Not Enough Memory": neither list changes.
allocate_fails(pid, size) ==
  /\ list_get_index_of_by_Size(FREE_LIST, size) = 0
  /\ UNCHANGED vars

Freed(b) == [b EXCEPT !.pid = 0]

\* Of a process that has several blocks, the first by address is freed.
deallocate_memory(pid) ==
  LET i == list_get_index_of_by_Pid(ALLOC_LIST, pid)
  IN  /\ i # 0
      /\ FREE_LIST' = AddFree(FREE_LIST, Freed(ALLOC_LIST[i]))
      /\ ALLOC_LIST' = RemoveAt(ALLOC_LIST, i)
      /\ UNCHANGED <<policy, coalesced>>

deallocate_fails(pid) ==
  /\ list_get_index_of_by_Pid(ALLOC_LIST, pid) = 0
  /\ UNCHANGED vars

coalese_memory ==
  /\ FREE_LIST' = list_coalese_nodes(
                    FoldLeft(list_add_ascending_by_address, << >>, FREE_LIST))
  /\ coalesced' = TRUE
  /\ UNCHANGED <<ALLOC_LIST, policy>>

Next ==
  \/ \E pid \in Pids, size \in Sizes :
       allocate_memory(pid, size) \/ allocate_fails(pid, size)
  \/ \E pid \in Pids : deallocate_memory(pid) \/ deallocate_fails(pid)
  \/ coalese_memory

Spec == Init /\ [][Next]_vars

-----------------------------------------------------------------------------
(* Properties                                                              *)

Blocks(pids) == [pid : pids, start : Addresses, end : Addresses]

TypeOK ==
  /\ FREE_LIST \in Seq(Blocks({0}))
  /\ ALLOC_LIST \in Seq(Blocks(Pids))
  /\ policy \in {FIFO, BESTFIT, WORSTFIT}
  /\ coalesced \in BOOLEAN

Holds(b, a) == a \in b.start .. b.end

\* How many blocks of a list hold address a.
Holders(l, a) == Cardinality({i \in DOMAIN l : Holds(l[i], a)})

(* The two lists tile the partition: every address is in exactly one block *)
(* of one of them, so no memory is lost or owned twice, however requests,  *)
(* fragments and merges follow each other.                                 *)
Tiling ==
  \A a \in Addresses : Holders(FREE_LIST, a) + Holders(ALLOC_LIST, a) = 1

FreeAt(a) == Holders(ALLOC_LIST, a) = 0

(* Coalescing leaves no hole in two pieces: afterwards a request is        *)
(* granted whenever enough contiguous memory is free.                      *)
CoalesceServesAll ==
  [][coalese_memory =>
       \A a \in Addresses, n \in 1 .. PARTITION_SIZE :
         (\A x \in a .. a + n - 1 : x \in Addresses /\ FreeAt(x))
           => list_get_index_of_by_Size(FREE_LIST', n) # 0]_vars

\* Block i of the free list is the smallest, or the largest, that is enough.
FitsBest(i, size) ==
  \A j \in DOMAIN FREE_LIST :
    size <= Size(FREE_LIST[j]) => Size(FREE_LIST[i]) <= Size(FREE_LIST[j])
FitsWorst(i, size) ==
  \A j \in DOMAIN FREE_LIST : Size(FREE_LIST[j]) <= Size(FREE_LIST[i])

FollowsPolicy(size) ==
  LET i == list_get_index_of_by_Size(FREE_LIST, size)
  IN  i # 0 => /\ policy = BESTFIT => FitsBest(i, size)
               /\ policy = WORSTFIT => FitsWorst(i, size)

(* Until the first coalesce request, best fit takes the smallest block     *)
(* that is large enough and worst fit the largest one.                     *)
PolicyBeforeCoalesce == ~coalesced => \A size \in Sizes : FollowsPolicy(size)

(* The two lists implement the memory map.                                 *)
Map == INSTANCE MemoryMap WITH
  owned <- {ALLOC_LIST[i] : i \in DOMAIN ALLOC_LIST}

ImplementsMap == Map!Spec
=============================================================================
