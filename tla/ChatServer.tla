------------------------------ MODULE ChatServer ------------------------------
(***************************************************************************)
(* The chat server's lists (list.c of project-3) and what a client thread  *)
(* does with them for each command it receives (client_receive).  Every    *)
(* command holds the readers-writer lock while it uses the lists; that     *)
(* ChatLock.tla makes such sections atomic is why one action is one        *)
(* command here.                                                           *)
(*                                                                         *)
(* A socket is a file descriptor: it is closed when its client leaves, and *)
(* the kernel gives it to a later client.  The name "guest<fd>" of socket  *)
(* s is represented by s itself.                                           *)
(***************************************************************************)
EXTENDS Naturals, Sequences, FiniteSets, SequencesExt

CONSTANTS
  Sockets,     \* file descriptors of clients
  Rooms,       \* room names the clients use
  Lobby,       \* DEFAULT_ROOM
  LoginNames   \* names that no guest has

ASSUME ChatServerAssumption == Lobby \in Rooms

Guest(s) == s
Names == Sockets \cup LoginNames

VARIABLES
  conn,      \* each socket: "closed", "accepted" or "open"
  head,      \* the user list, newest first: socket, username, dm
  room_head, \* the rooms that exist, with their members' sockets
  up,        \* the server runs
  heard      \* what was just sent: by whom, and to which sockets

vars == <<conn, head, room_head, up, heard>>

\* Nothing was sent.
Nobody == [from |-> Lobby, to |-> {}]

-----------------------------------------------------------------------------
(* The user list                                                           *)

\* The position of the first node with that name or socket, or 0.
findU(list, n) == SelectInSeq(list, LAMBDA u : u.username = n)
findSocketNode(list, s) == SelectInSeq(list, LAMBDA u : u.socket = s)

insertFirstU(list, s, n) ==
  IF findU(list, n) = 0
  THEN <<[socket |-> s, username |-> n, dm |-> << >>]>> \o list
  ELSE list

removeUserAndNewer(list, s) ==
  SubSeq(list, findSocketNode(list, s) + 1, Len(list))
removeUserBySocket(list, s) == RemoveFirstMatch(list, LAMBDA u : u.socket = s)

-----------------------------------------------------------------------------
(* Rooms                                                                   *)

create_room(rooms, r) ==
  IF r \in DOMAIN rooms THEN rooms
  ELSE [q \in DOMAIN rooms \cup {r} |-> IF q = r THEN {} ELSE rooms[q]]

add_user_to_room(rooms, s, r) ==
  [create_room(rooms, r) EXCEPT ![r] = @ \cup {s}]

remove_user_from_room(rooms, s, r) ==
  IF r \in DOMAIN rooms THEN [rooms EXCEPT ![r] = @ \ {s}] ELSE rooms

remove_user_from_all_rooms(rooms, s) == [r \in DOMAIN rooms |-> rooms[r] \ {s}]

share_room_users(s, t) == \E r \in DOMAIN room_head : {s, t} \subseteq room_head[r]

-----------------------------------------------------------------------------
(* Direct messages: each node lists the sockets it is connected to, and    *)
(* removing a socket from a list removes its first entry                   *)

AddDm(list, i, s) == [list EXCEPT ![i].dm = <<s>> \o @]
RemoveDm(list, i, s) == [list EXCEPT ![i].dm = RemoveFirst(@, s)]

\* Nothing is added when the sender's node lists the other already; the
\* reverse entry is added without looking.
add_dm_connection_socket(list, from, to) ==
  LET i == findSocketNode(list, from)
      j == findSocketNode(list, to)
  IN  IF to \in Range(list[i].dm) THEN list
      ELSE AddDm(AddDm(list, i, to), j, from)

remove_dm_one_way(list, from, to) ==
  RemoveDm(list, findSocketNode(list, from), to)

remove_dm_connection_socket(list, from, to) ==
  LET i == findSocketNode(list, from)
      j == findSocketNode(list, to)
  IN  RemoveDm(RemoveDm(list, i, to), j, from)

is_dm_connected_socket(from, to) ==
  LET i == findSocketNode(head, from)
  IN  i # 0 /\ to \in Range(head[i].dm)

remove_all_dms_for_user(list, s) ==
  [i \in DOMAIN list |->
     [list[i] EXCEPT !.dm = RemoveFirst(@, s)]]

-----------------------------------------------------------------------------

Init ==
  /\ conn = [s \in Sockets |-> "closed"]
  /\ head = << >>
  /\ room_head = create_room(<< >>, Lobby)
  /\ up = TRUE
  /\ heard = Nobody

\* accept returns an unused descriptor and main starts its thread.
Accept(s) ==
  /\ conn[s] = "closed"
  /\ conn' = [conn EXCEPT ![s] = "accepted"]
  /\ UNCHANGED <<head, room_head, up>>

\* The thread's first critical section: a guest in the default room.
Enter(s) ==
  /\ conn[s] = "accepted"
  /\ conn' = [conn EXCEPT ![s] = "open"]
  /\ head' = insertFirstU(head, s, Guest(s))
  /\ room_head' = add_user_to_room(create_room(room_head, Lobby), s, Lobby)
  /\ UNCHANGED up

Create(s, r) ==
  /\ conn[s] = "open"
  /\ room_head' = create_room(room_head, r)
  /\ UNCHANGED <<conn, head, up>>

Join(s, r) ==
  /\ conn[s] = "open"
  /\ room_head' = add_user_to_room(room_head, s, r)
  /\ UNCHANGED <<conn, head, up>>

Leave(s, r) ==
  /\ conn[s] = "open"
  /\ room_head' = remove_user_from_room(room_head, s, r)
  /\ UNCHANGED <<conn, head, up>>

\* connect and disconnect: the other user is found by name, the sender by
\* socket.  A sender without a node is a null pointer: the server dies.
WithUser(s, n, Change(_, _, _)) ==
  LET to == findU(head, n)
      from == findSocketNode(head, s)
  IN  /\ conn[s] = "open"
      /\ head' = IF to = 0 \/ from = 0 THEN head
                 ELSE Change(head, s, head[to].socket)
      /\ up' = (to = 0 \/ from # 0)
      /\ UNCHANGED <<conn, room_head>>

Connect(s, n) == WithUser(s, n, add_dm_connection_socket)
Disconnect(s, n) == WithUser(s, n, remove_dm_connection_socket)

\* A client may log in under any name, that of a guest or of another client
\* included.
Login(s, n) ==
  /\ conn[s] = "open"
  /\ LET i == findSocketNode(head, s)
     IN  head' = IF i = 0 THEN head ELSE [head EXCEPT ![i].username = n]
  /\ UNCHANGED <<conn, room_head, up>>

\* Anything that is no command is sent to every node of the list that shares
\* a room or a direct connection with the sender.
RecipientsAndSelf(s) ==
  {t \in {head[i].socket : i \in DOMAIN head} :
     \/ is_dm_connected_socket(s, t)
     \/ findSocketNode(head, s) # 0 /\ share_room_users(s, t)}

Recipients(s) ==
  {t \in {head[i].socket : i \in DOMAIN head} \ {s} :
     \/ is_dm_connected_socket(s, t)
     \/ findSocketNode(head, s) # 0 /\ share_room_users(s, t)}

Say(s) ==
  /\ conn[s] = "open"
  /\ heard' = [from |-> s, to |-> Recipients(s)]
  /\ UNCHANGED <<conn, head, room_head, up>>

\* Rooms, then direct messages, then the node.
Forget(s) ==
  /\ room_head' = remove_user_from_all_rooms(room_head, s)
  /\ head' = removeUserBySocket(remove_all_dms_for_user(head, s), s)

Exit(s) ==
  /\ conn[s] = "open"
  /\ IF findSocketNode(head, s) # 0 THEN Forget(s)
     ELSE UNCHANGED <<head, room_head>>
  /\ conn' = [conn EXCEPT ![s] = "closed"]
  /\ UNCHANGED up

\* recv returns 0 or less.  The node is looked for under the name the client
\* had at first, and the rooms and direct messages that go are those of the
\* node found under that name.
Drop(s) ==
  LET i == findU(head, Guest(s))
      u == head[i].socket
  IN  /\ conn[s] = "open"
      /\ IF i = 0 THEN UNCHANGED <<head, room_head>>
         ELSE /\ room_head' = remove_user_from_all_rooms(room_head, u)
              /\ head' = removeUserBySocket(remove_all_dms_for_user(head, u), s)
      /\ conn' = [conn EXCEPT ![s] = "closed"]
      /\ UNCHANGED up

Command(s) ==
  \/ \E r \in Rooms : Create(s, r)
  \/ \E r \in Rooms : Join(s, r)
  \/ \E r \in Rooms : Leave(s, r)
  \/ \E n \in Names : Connect(s, n)
  \/ \E n \in Names : Disconnect(s, n)
  \/ \E n \in Names : Login(s, n)
  \/ Exit(s)

Next ==
  up /\ \E s \in Sockets :
    \/ Say(s)
    \/ /\ \/ Accept(s)
          \/ Enter(s)
          \/ Command(s)
          \/ Drop(s)
       /\ heard' = Nobody

Spec == Init /\ [][Next]_vars

-----------------------------------------------------------------------------
(* Properties                                                              *)

TypeOK ==
  /\ conn \in [Sockets -> {"closed", "accepted", "open"}]
  /\ head \in Seq([socket : Sockets, username : Names, dm : Seq(Sockets)])
  /\ DOMAIN room_head \subseteq Rooms
  /\ \A r \in DOMAIN room_head : room_head[r] \subseteq Sockets
  /\ up \in BOOLEAN
  /\ heard \in [from : Sockets \cup {Lobby}, to : SUBSET Sockets]

HasNode(list, s) == \E i \in DOMAIN list : list[i].socket = s

(* An open connection keeps its node until it leaves, whatever the others  *)
(* do.  It is without one only if its guest name was another client's when *)
(* it arrived (insertFirstU inserts no second node of a name), and the     *)
(* null pointer of such a client's connect or disconnect is the only thing *)
(* that ends the server.                                                   *)
KeepsItsNode ==
  [][/\ \A s \in Sockets : conn'[s] = "open" /\ ~HasNode(head', s) =>
          \/ conn[s] = "open" /\ ~HasNode(head, s)
          \/ /\ conn[s] = "accepted"
             /\ \E i \in DOMAIN head : /\ head[i].username = Guest(s)
                                      /\ head[i].socket # s
     /\ ~up' => \E s \in Sockets : conn[s] = "open" /\ ~HasNode(head, s)
    ]_vars

(* A closed connection has left nothing behind: no node in the user list,  *)
(* no membership, nobody's direct connection.  The next client to get its  *)
(* descriptor would inherit them ("client disconnected - cleanup").        *)
ClosedLeavesNothing ==
  \A s \in Sockets : conn[s] # "open" =>
    /\ \A i \in DOMAIN head : head[i].socket # s /\ s \notin Range(head[i].dm)
    /\ \A r \in DOMAIN room_head : s \notin room_head[r]

\* Every open connection has one node.
OneNodeEach ==
  \A s \in Sockets : conn[s] = "open" =>
    \E i \in DOMAIN head : \A j \in DOMAIN head : head[j].socket = s <=> j = i

\* Direct connections are mutual ("Add reverse", "remove reverse").
DmMutual ==
  \A i, j \in DOMAIN head :
    head[j].socket \in Range(head[i].dm) => head[i].socket \in Range(head[j].dm)

\* Socket o's list of direct connections: everybody once, and o itself, which
\* is added from both sides, at most twice.
Tidy(q, o) ==
  /\ \A k, l \in DOMAIN q : q[k] = q[l] => k = l \/ q[k] = o
  /\ \A k, l, m \in DOMAIN q :
       q[k] = o /\ q[l] = o /\ q[m] = o => k = l \/ l = m \/ k = m

InOrder ==
  /\ up = TRUE
  /\ OneNodeEach
  /\ DmMutual
  /\ ClosedLeavesNothing
  /\ \A i \in DOMAIN head : Tidy(head[i].dm, head[i].socket)

\* The two steps that go by a guest's name where a login has made it another
\* client's or nobody's: to arrive while somebody has the name, and to drop a
\* connection whose node is not the one found under it.
OwnName(s) ==
  LET i == findU(head, Guest(s)) IN i # 0 /\ head[i].socket = s

ByName(s) ==
  \/ Enter(s) /\ findU(head, Guest(s)) # 0
  \/ Drop(s) /\ ~OwnName(s)

(* Nothing but those two steps brings the lists out of order: no sequence  *)
(* of connections, logins, rooms and departures, with descriptors used     *)
(* again, takes somebody's node, doubles it, makes a direct connection     *)
(* one-sided, or leaves something of a closed connection behind.           *)
OnlyNamesSpoil ==
  /\ InOrder
  /\ [][InOrder /\ ~(\E s \in Sockets : ByName(s)) => InOrder']_vars

Online == {head[i].socket : i \in DOMAIN head}

Directory == INSTANCE ChatDirectory WITH
  online <- Online,
  name <- [s \in Online |-> head[findSocketNode(head, s)].username],
  rooms <- DOMAIN room_head,
  member <- [r \in Rooms |->
               IF r \in DOMAIN room_head THEN room_head[r] ELSE {}],
  friends <- UNION {{<<head[i].socket, d>> : d \in Range(head[i].dm)}
                      : i \in DOMAIN head}

(* While the lists are in order each command does to them what it does to  *)
(* the directory, and what is no command reaches whom the directory says.  *)
ImplementsDirectory ==
  /\ Directory!Init
  /\ [][InOrder => \A s \in Sockets : ~ByName(s) =>
          /\ Accept(s) => Directory!Pause
          /\ Enter(s) => Directory!Arrive(s)
          /\ \A r \in Rooms :
               /\ Create(s, r) => Directory!Create(r)
               /\ Join(s, r) => Directory!Join(s, r)
               /\ Leave(s, r) => Directory!Leave(s, r)
          /\ \A n \in Names :
               /\ Connect(s, n) => Directory!Connect(s, n)
               /\ Disconnect(s, n) => Directory!Disconnect(s, n)
               /\ Login(s, n) => Directory!Login(s, n)
          /\ Say(s) => Directory!Say(s)
          /\ Exit(s) \/ Drop(s) => Directory!Depart(s)]_vars
=============================================================================
