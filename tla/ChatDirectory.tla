---------------------------- MODULE ChatDirectory ----------------------------
(***************************************************************************)
(* What the chat service promises of each command, as its help text and    *)
(* comments state it: who is online and under which name, who is in which  *)
(* room, who is connected to whom for direct messages, and who hears whom. *)
(* Somebody who leaves leaves nothing behind.  ChatServer says when the    *)
(* lists keep these promises.                                              *)
(***************************************************************************)
CONSTANTS Sockets,   \* the connections there may be
          Rooms,     \* the rooms there may be
          Lobby,     \* the room everybody starts in
          Names,     \* the names users may have
          Guest(_)   \* the name a connection starts with

VARIABLES online,    \* the connections that are open
          name,      \* the user name of each
          rooms,     \* the rooms that exist
          member,    \* the connections in each room
          friends,   \* pairs of connections with a direct connection
          heard      \* who hears the message sent now, and whose it is

Nobody == [from |-> Lobby, to |-> {}]

Init ==
  /\ online = {}
  /\ name = [s \in {} |-> s]
  /\ rooms = {Lobby}
  /\ member = [r \in Rooms |-> {}]
  /\ friends = {}
  /\ heard = Nobody

Arrive(s) ==
  /\ s \notin online
  /\ online' = online \cup {s}
  /\ name' = [t \in online' |-> IF t = s THEN Guest(s) ELSE name[t]]
  /\ member' = [member EXCEPT ![Lobby] = @ \cup {s}]
  /\ UNCHANGED <<rooms, friends>>

Create(r) ==
  /\ rooms' = rooms \cup {r}
  /\ UNCHANGED <<online, name, member, friends>>

Join(s, r) ==
  /\ s \in online
  /\ rooms' = rooms \cup {r}
  /\ member' = [member EXCEPT ![r] = @ \cup {s}]
  /\ UNCHANGED <<online, name, friends>>

Leave(s, r) ==
  /\ member' = [member EXCEPT ![r] = @ \ {s}]
  /\ UNCHANGED <<online, name, rooms, friends>>

\* Somebody of the name that is called, or nobody has it.
Called(n) == {t \in online : name[t] = n}

Connect(s, n) ==
  /\ s \in online
  /\ \/ Called(n) = {} /\ friends' = friends
     \/ \E t \in Called(n) : friends' = friends \cup {<<s, t>>, <<t, s>>}
  /\ UNCHANGED <<online, name, rooms, member>>

Disconnect(s, n) ==
  /\ s \in online
  /\ \/ Called(n) = {} /\ friends' = friends
     \/ \E t \in Called(n) : friends' = friends \ {<<s, t>>, <<t, s>>}
  /\ UNCHANGED <<online, name, rooms, member>>

Login(s, n) ==
  /\ s \in online
  /\ name' = [name EXCEPT ![s] = n]
  /\ UNCHANGED <<online, rooms, member, friends>>

Say(s) ==
  /\ heard' = [from |-> s,
               to |-> {t \in online \ {s} :
                         \/ <<s, t>> \in friends
                         \/ \E r \in rooms : {s, t} \subseteq member[r]}]
  /\ UNCHANGED <<online, name, rooms, member, friends>>

Depart(s) ==
  /\ s \in online
  /\ online' = online \ {s}
  /\ name' = [t \in online' |-> name[t]]
  /\ member' = [r \in Rooms |-> member[r] \ {s}]
  /\ friends' = {p \in friends : p[1] # s /\ p[2] # s}
  /\ UNCHANGED rooms

\* Nothing the directory knows of changes.
Pause == UNCHANGED <<online, name, rooms, member, friends>>
=============================================================================
