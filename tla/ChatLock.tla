------------------------------- MODULE ChatLock -------------------------------
(***************************************************************************)
(* The locking of the chat server (project-3): start_read, end_read,       *)
(* start_write and end_write of server_client.c over two mutexes and a     *)
(* reader count, the client threads that use them, main's use of rw_lock   *)
(* at start-up, and sigintHandler, which runs on whichever thread the      *)
(* signal interrupts and locks rw_lock itself.                             *)
(*                                                                         *)
(* What a client does with the lists is in ChatServer.tla; here a client   *)
(* only asks, again and again, to read or to write them.                   *)
(***************************************************************************)
EXTENDS Naturals, FiniteSets

CONSTANTS
  Clients,    \* client threads (client_receive)
  Main,       \* the thread that accepts connections
  None,       \* no thread
  Interrupts  \* may SIGINT arrive?

ASSUME ChatLockAssumption ==
  /\ IsFiniteSet(Clients)
  /\ Main \notin Clients
  /\ None \notin Clients \cup {Main}
  /\ Interrupts \in BOOLEAN

Threads == Clients \cup {Main}

VARIABLES
  numReaders,  \* numReaders
  mutex,       \* is mutex locked?
  rw_lock,     \* is rw_lock locked?
  pc,          \* the next step of each thread
  handler,     \* the thread sigintHandler runs on, or None
  hpc          \* the next step of sigintHandler

locks == <<numReaders, mutex, rw_lock>>
vars == <<numReaders, mutex, rw_lock, pc, handler, hpc>>

ClientSteps == {"idle", "rMutex", "rCount", "rLock", "reading", "eMutex",
                "eCount", "wLock", "writing"}
MainSteps == {"init", "initBody", "accept"}
HandlerSteps == {"none", "lock", "free", "exit", "exited"}

Init ==
  /\ numReaders = 0
  /\ mutex = FALSE
  /\ rw_lock = FALSE
  /\ pc = [t \in Threads |-> IF t = Main THEN "init" ELSE "idle"]
  /\ handler = None
  /\ hpc = "none"

\* A thread runs until a handler interrupts it or the process exits.
MayRun(t) == handler # t /\ hpc # "exited"

At(t, s) == MayRun(t) /\ pc[t] = s
Go(t, s) == pc' = [pc EXCEPT ![t] = s] /\ UNCHANGED <<handler, hpc>>

\* pthread_mutex_lock and _unlock.  A default mutex does not record its owner:
\* whoever calls unlock releases it.
LockMutexForgotten == mutex' = TRUE
LockMutex == ~mutex /\ mutex' = TRUE
UnlockMutexForgotten == UNCHANGED mutex
UnlockMutex == mutex' = FALSE
LockRw == ~rw_lock /\ rw_lock' = TRUE
UnlockRw == rw_lock' = FALSE

\* The two halves of the count.
ReaderIn == numReaders + 1
ReaderOut == numReaders - 1
FirstReader(n) == n = 1
NoReaderAlways(n) == TRUE
NoReaderNever(n) == FALSE
NoReader(n) == n = 0

-----------------------------------------------------------------------------
(* A client                                                                *)

\* A command arrives that reads the lists, or one that writes them.
WantRead(c) == At(c, "idle") /\ Go(c, "rMutex") /\ UNCHANGED locks
WantWrite(c) == At(c, "idle") /\ Go(c, "wLock") /\ UNCHANGED locks

StartReadMutex(c) ==
  /\ At(c, "rMutex")
  /\ LockMutex
  /\ Go(c, "rCount")
  /\ UNCHANGED <<numReaders, rw_lock>>

StartReadCount(c) ==
  /\ At(c, "rCount")
  /\ numReaders' = ReaderIn
  /\ IF FirstReader(numReaders')
     THEN Go(c, "rLock") /\ UNCHANGED mutex
     ELSE Go(c, "reading") /\ UnlockMutex
  /\ UNCHANGED rw_lock

\* The first reader waits for rw_lock with the mutex locked.
StartReadLock(c) ==
  /\ At(c, "rLock")
  /\ LockRw
  /\ UnlockMutex
  /\ Go(c, "reading")
  /\ UNCHANGED numReaders

DoneReading(c) == At(c, "reading") /\ Go(c, "eMutex") /\ UNCHANGED locks

EndReadMutex(c) ==
  /\ At(c, "eMutex")
  /\ LockMutex
  /\ Go(c, "eCount")
  /\ UNCHANGED <<numReaders, rw_lock>>

EndReadCount(c) ==
  /\ At(c, "eCount")
  /\ numReaders' = ReaderOut
  /\ IF NoReader(numReaders') THEN UnlockRw ELSE UNCHANGED rw_lock
  /\ UnlockMutex
  /\ Go(c, "idle")

StartWrite(c) ==
  /\ At(c, "wLock")
  /\ LockRw
  /\ Go(c, "writing")
  /\ UNCHANGED <<numReaders, mutex>>

EndWrite(c) ==
  /\ At(c, "writing")
  /\ UnlockRw
  /\ Go(c, "idle")
  /\ UNCHANGED <<numReaders, mutex>>

Client(c) ==
  /\ pc[Main] = "accept"
  /\ \/ WantRead(c)
     \/ WantWrite(c)
     \/ StartReadMutex(c)
     \/ StartReadCount(c)
     \/ StartReadLock(c)
     \/ DoneReading(c)
     \/ EndReadMutex(c)
     \/ EndReadCount(c)
     \/ StartWrite(c)
     \/ EndWrite(c)

-----------------------------------------------------------------------------
(* main: init_default_room, then accept for ever                           *)

InitLock ==
  /\ At(Main, "init")
  /\ LockRw
  /\ Go(Main, "initBody")
  /\ UNCHANGED <<numReaders, mutex>>

InitUnlock ==
  /\ At(Main, "initBody")
  /\ UnlockRw
  /\ Go(Main, "accept")
  /\ UNCHANGED <<numReaders, mutex>>

-----------------------------------------------------------------------------
(* sigintHandler, installed before anything else                           *)

Sigint ==
  /\ Interrupts
  /\ hpc = "none"
  /\ \E t \in Threads :
       /\ t \in Clients => pc[Main] = "accept"
       /\ handler' = t
  /\ hpc' = "lock"
  /\ UNCHANGED <<locks, pc>>

HandlerLock ==
  /\ hpc = "lock"
  /\ LockRw
  /\ hpc' = "free"
  /\ UNCHANGED <<numReaders, mutex, pc, handler>>

\* Close the sockets, free both lists and unlock; other threads may still run
\* until exit, with the lists empty.
HandlerFree ==
  /\ hpc = "free"
  /\ UnlockRw
  /\ hpc' = "exit"
  /\ UNCHANGED <<numReaders, mutex, pc, handler>>

HandlerExit ==
  /\ hpc = "exit"
  /\ hpc' = "exited"
  /\ UNCHANGED <<locks, pc, handler>>

Exited == hpc = "exited" /\ UNCHANGED vars

Next ==
  \/ \E c \in Clients : Client(c)
  \/ InitLock
  \/ InitUnlock
  \/ Sigint
  \/ HandlerLock
  \/ HandlerFree
  \/ HandlerExit
  \/ Exited

Spec == Init /\ [][Next]_vars

\* Commands end, and a thread that asks for a lock that is released again and
\* again gets it in the end.  Nobody has to send a command.
Fairness ==
  /\ \A c \in Clients :
       /\ WF_vars(Client(c) /\ pc[c] # "idle")
       /\ SF_vars(StartReadMutex(c))
       /\ SF_vars(EndReadMutex(c))
       /\ SF_vars(StartReadLock(c))
  /\ WF_vars(InitLock \/ InitUnlock)
  /\ WF_vars(HandlerFree \/ HandlerExit)
  /\ SF_vars(HandlerLock)

FairSpec == Spec /\ Fairness

-----------------------------------------------------------------------------
(* Properties                                                              *)

TypeOK ==
  /\ numReaders \in Nat
  /\ mutex \in BOOLEAN
  /\ rw_lock \in BOOLEAN
  /\ pc \in [Threads -> ClientSteps \cup MainSteps]
  /\ handler \in Threads \cup {None}
  /\ hpc \in HandlerSteps

\* Who may be looking at the lists, from the return of the start_ function
\* until end_ gives them up, and who may be changing them.
Readers == {c \in Clients : pc[c] \in {"reading", "eMutex", "eCount"}}
Writers == {c \in Clients : pc[c] = "writing"}
             \cup {t \in {Main} : pc[t] = "initBody"}
HandlerInside == hpc = "free"

\* Those start_read has counted: the readers, and a first reader that waits.
Counted == Readers \cup {c \in Clients : pc[c] = "rLock"}

(* Readers never overlap a writer, writers never overlap each other, and   *)
(* the handler frees the lists only while no thread is in one of them:     *)
(* not even the thread it interrupts.                                      *)
Exclusion ==
  /\ Readers # {} => Writers = {} /\ ~HandlerInside
  /\ \A v, w \in Writers : v = w
  /\ Writers # {} => ~HandlerInside

(* The count is the number of threads between their start_read and their   *)
(* end_read, so it is 0 exactly when rw_lock can be given up.              *)
CountIsReaders ==
  numReaders = Cardinality(Counted)

(* rw_lock is locked exactly while somebody is in: no thread, the handler  *)
(* apart, leaves it locked behind.                                         *)
LockedIffInside ==
  rw_lock <=> Readers # {} \/ Writers # {} \/ HandlerInside

(* The two mutexes and the count implement the readers-writer lock;        *)
(* sigintHandler is one more writer.                                       *)
Lists == INSTANCE SharedLists WITH
  Users <- Threads \cup {"handler"},
  readers <- Readers,
  writers <- Writers \cup {h \in {"handler"} : HandlerInside}

ImplementsSharedLists == Lists!Spec

(* A client that wants to read gets to read, however many others come and  *)
(* go, as long as no signal arrives.                                       *)
ReadersGetIn ==
  [](handler = None) =>
    \A c \in Clients : (pc[c] = "rMutex") ~> (pc[c] = "reading")

\* The steps in which a thread has neither rw_lock nor the readers' mutex.
Outside == {"idle", "rMutex", "wLock", "init", "accept"}

(* SIGINT shuts the server down ("Handle SIGINT (CTRL+C) - graceful        *)
(* shutdown") unless it interrupts a thread that has one of the locks, for *)
(* which the handler then waits on that very thread, or new readers keep   *)
(* overtaking it for ever.                                                 *)
SigintShutsDown ==
  \/ <>(handler # None /\ pc[handler] \notin Outside)
  \/ []<><<\E c \in Clients : WantRead(c)>>_vars
  \/ (handler # None) ~> (hpc = "exited")
=============================================================================
