----------------------------- MODULE MCChatServer -----------------------------
(* A few descriptors, rooms and names for TLC.                             *)
EXTENDS ChatServer, TLC

\* Descriptors are interchangeable; a guest's name goes with its descriptor.
Symmetry == Permutations(Sockets)

\* What clients have done to the lists since they arrived.
Renamed == {i \in DOMAIN head : head[i].username # Guest(head[i].socket)}
DmEntries == FoldSeq(LAMBDA u, n : n + Len(u.dm), 0, head)
Moves ==
  {<<s, r>> \in Sockets \X DOMAIN room_head :
     s \in room_head[r] <=> (r # Lobby \/ conn[s] # "open")}

\* Bound: changes by clients that are in the lists at the same time, a login
\* counting for two.  Two direct connections, two logins, one of each, or a
\* room for two outside the default one.
MaxChanges == 4
FewChanges == 2 * Cardinality(Renamed) + DmEntries + Cardinality(Moves) <= MaxChanges

\* What was just sent decides nothing later.
Lists == <<conn, head, room_head, up>>
=============================================================================
