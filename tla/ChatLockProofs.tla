---------------------------- MODULE ChatLockProofs ----------------------------
(***************************************************************************)
(* Readers, writers and the signal handler exclude each other in the chat  *)
(* server for any number of clients, and the two mutexes with the count    *)
(* implement the readers-writer lock SharedLists.                          *)
(***************************************************************************)
EXTENDS ChatLock, FiniteSetTheorems, TLAPS

\* Each thread runs its own code.
Roles ==
  /\ \A c \in Clients : pc[c] \in ClientSteps
  /\ pc[Main] \in MainSteps

\* The threads between the lock and the unlock of mutex.
InMutex == {c \in Clients : pc[c] \in {"rCount", "rLock", "eCount"}}

MutexInv ==
  /\ \A c, d \in InMutex : c = d
  /\ InMutex # {} => mutex

\* A first reader that waits for rw_lock keeps every other reader out.
FirstReaderAlone == \A c \in Clients : pc[c] = "rLock" => Counted = {c}

Inv ==
  /\ TypeOK
  /\ Roles
  /\ MutexInv
  /\ FirstReaderAlone
  /\ CountIsReaders
  /\ LockedIffInside
  /\ Exclusion

LEMMA ClientsAreThreads == Clients \subseteq Threads /\ Main \in Threads
                           /\ \A c \in Clients : c # Main
  BY ChatLockAssumption DEF Threads

LEMMA CountedIsFinite == IsFiniteSet(Counted) /\ IsFiniteSet(Readers)
<1>1. Counted \subseteq Clients /\ Readers \subseteq Clients
  BY DEF Counted, Readers
<1> QED
  BY <1>1, FS_Subset, ChatLockAssumption

(* Who is in which set depends on the program counters alone: a step from  *)
(* f to s of client c moves c and nobody else.                             *)
LEMMA GoEffect ==
  ASSUME TypeOK, NEW t \in Threads, NEW s, Go(t, s)
  PROVE  /\ pc' = [pc EXCEPT ![t] = s]
         /\ pc'[t] = s
         /\ \A u \in Threads : u # t => pc'[u] = pc[u]
         /\ handler' = handler
         /\ hpc' = hpc
  BY DEF Go, TypeOK

(* A client's step keeps types and roles.                                  *)
LEMMA GoTypes ==
  ASSUME TypeOK, Roles, NEW c \in Clients, NEW s \in ClientSteps, Go(c, s)
  PROVE  /\ pc' \in [Threads -> ClientSteps \cup MainSteps]
         /\ Roles'
         /\ HandlerInside' <=> HandlerInside
  BY GoEffect, ClientsAreThreads DEF TypeOK, Roles, HandlerInside

-----------------------------------------------------------------------------
LEMMA InitInv == Init => Inv
<1> SUFFICES ASSUME Init PROVE Inv
  OBVIOUS
<1> USE ClientsAreThreads DEF Init
<1>1. TypeOK /\ Roles
  BY DEF TypeOK, Roles, ClientSteps, MainSteps, HandlerSteps
<1>2. Counted = {} /\ Readers = {} /\ Writers = {} /\ InMutex = {}
  BY DEF Counted, Readers, Writers, InMutex
<1>3. CountIsReaders
  BY <1>2, FS_EmptySet DEF CountIsReaders
<1> QED
  BY <1>1, <1>2, <1>3
     DEF Inv, MutexInv, FirstReaderAlone, LockedIffInside, Exclusion,
         HandlerInside

\* Steps of a client that change no set and no lock.
LEMMA IdleStep ==
  ASSUME Inv, NEW c \in Clients,
         WantRead(c) \/ WantWrite(c) \/ DoneReading(c)
  PROVE  Inv'
<1> USE ClientsAreThreads DEF Inv
<1>1. \/ pc[c] = "idle" /\ Go(c, "rMutex")
      \/ pc[c] = "idle" /\ Go(c, "wLock")
      \/ pc[c] = "reading" /\ Go(c, "eMutex")
  BY DEF WantRead, WantWrite, DoneReading, At
<1>2. UNCHANGED locks
  BY DEF WantRead, WantWrite, DoneReading
<1>3. TypeOK' /\ Roles' /\ (HandlerInside' <=> HandlerInside)
  BY <1>1, <1>2, GoTypes DEF TypeOK, locks, ClientSteps, Go
<1>4. /\ Readers' = Readers
      /\ Writers' = Writers
      /\ Counted' = Counted
      /\ InMutex' = InMutex
      /\ {d \in Clients : pc[d] = "rLock"}' = {d \in Clients : pc[d] = "rLock"}
  <2>1. \A d \in Clients : pc'[d] # pc[d] =>
          d = c /\ pc[c] \in {"idle", "reading"}
          /\ (pc[c] = "idle" => pc'[c] \in {"rMutex", "wLock"})
          /\ (pc[c] = "reading" => pc'[c] = "eMutex")
    BY <1>1, GoEffect
  <2>2. pc'[Main] = pc[Main]
    BY <1>1, GoEffect
  <2>3. Readers' = Readers
    BY <2>1 DEF Readers
  <2>4. {d \in Clients : pc[d] = "rLock"}' = {d \in Clients : pc[d] = "rLock"}
    BY <2>1
  <2>5. Writers' = Writers
    BY <2>1, <2>2 DEF Writers
  <2>6. InMutex' = InMutex
    BY <2>1 DEF InMutex
  <2> QED
    BY <2>3, <2>4, <2>5, <2>6 DEF Counted
<1> QED
  BY <1>2, <1>3, <1>4
     DEF locks, MutexInv, FirstReaderAlone, CountIsReaders, LockedIffInside,
         Exclusion

(* Locking mutex, in start_read and in end_read.                           *)
LEMMA MutexStep ==
  ASSUME Inv, NEW c \in Clients, StartReadMutex(c) \/ EndReadMutex(c)
  PROVE  Inv'
<1> USE ClientsAreThreads DEF Inv
<1>1. /\ \/ pc[c] = "rMutex" /\ Go(c, "rCount")
         \/ pc[c] = "eMutex" /\ Go(c, "eCount")
      /\ ~mutex /\ mutex' = TRUE
      /\ UNCHANGED <<numReaders, rw_lock>>
  BY DEF StartReadMutex, EndReadMutex, At, LockMutex
<1>2. TypeOK' /\ Roles' /\ (HandlerInside' <=> HandlerInside)
  BY <1>1, GoTypes DEF TypeOK, ClientSteps, Go
<1>3. InMutex = {}
  BY <1>1 DEF MutexInv
<1>4. \A d \in Clients : d # c => pc'[d] = pc[d]
  BY <1>1, GoEffect
<1>5. \/ pc[c] = "rMutex" /\ pc'[c] = "rCount"
      \/ pc[c] = "eMutex" /\ pc'[c] = "eCount"
  BY <1>1, GoEffect
<1>6. InMutex' = {c}
  BY <1>3, <1>4, <1>5 DEF InMutex
<1>7. Readers' = Readers
  BY <1>4, <1>5 DEF Readers
<1>8. Writers' = Writers
  <2>1. pc'[Main] = pc[Main]
    BY <1>1, GoEffect
  <2> QED
    BY <1>4, <1>5, <2>1 DEF Writers
<1>9. \A d \in Clients : pc'[d] = "rLock" <=> pc[d] = "rLock"
  BY <1>4, <1>5
<1>10. Counted' = Counted
  BY <1>7, <1>9 DEF Counted
<1> QED
  BY <1>1, <1>2, <1>6, <1>7, <1>8, <1>9, <1>10
     DEF MutexInv, FirstReaderAlone, CountIsReaders, LockedIffInside, Exclusion

(* The count in start_read: the first reader goes on to rw_lock, a later   *)
(* one finds it locked by the readers.                                     *)
LEMMA StartReadCountStep ==
  ASSUME Inv, NEW c \in Clients, StartReadCount(c)
  PROVE  Inv'
<1> USE ClientsAreThreads DEF Inv
<1>1. /\ pc[c] = "rCount"
      /\ numReaders' = numReaders + 1
      /\ rw_lock' = rw_lock
  BY DEF StartReadCount, At, ReaderIn
<1>2. c \in InMutex /\ c \notin Counted /\ InMutex = {c}
  BY <1>1 DEF InMutex, Counted, Readers, MutexInv
<1>3. \A d \in Clients : pc[d] # "rLock"
  BY <1>1, <1>2 DEF InMutex
<1>4. Counted = Readers
  BY <1>3 DEF Counted
<1>5. Cardinality(Counted \cup {c}) = Cardinality(Counted) + 1
  BY <1>2, CountedIsFinite, FS_AddElement
<1>0. numReaders' \in Nat
  BY <1>1 DEF TypeOK
<1>6. CASE numReaders' = 1
  <2>1. Go(c, "rLock") /\ mutex' = mutex
    BY <1>6 DEF StartReadCount, FirstReader
  <2>2. Readers = {}
    <3>1. Cardinality(Counted) = 0
      BY <1>1, <1>6, CountedIsFinite, FS_CardinalityType
         DEF CountIsReaders, TypeOK
    <3> QED
      BY <1>4, <3>1, CountedIsFinite, FS_EmptySet
  <2>3. TypeOK' /\ Roles' /\ (HandlerInside' <=> HandlerInside)
    BY <1>0, <1>1, <2>1, GoTypes DEF TypeOK, ClientSteps, Go
  <2>4. pc'[c] = "rLock" /\ (\A d \in Clients : d # c => pc'[d] = pc[d])
        /\ pc'[Main] = pc[Main]
    BY <2>1, GoEffect
  <2>5. Readers' = Readers /\ Writers' = Writers /\ InMutex' = InMutex
    BY <1>1, <2>4 DEF Readers, Writers, InMutex
  <2>6. Counted' = {c}
    BY <1>3, <2>2, <2>4, <2>5 DEF Counted
  <2>7. CountIsReaders'
    BY <1>6, <2>6, FS_Singleton DEF CountIsReaders
  <2>8. FirstReaderAlone'
    BY <1>3, <2>4, <2>6 DEF FirstReaderAlone
  <2> QED
    BY <1>1, <2>1, <2>3, <2>5, <2>7, <2>8
       DEF MutexInv, LockedIffInside, Exclusion
<1>7. CASE numReaders' # 1
  <2>1. Go(c, "reading") /\ mutex' = FALSE
    BY <1>7 DEF StartReadCount, FirstReader, UnlockMutex
  <2>2. Readers # {}
    <3>1. Cardinality(Counted) # 0
      BY <1>1, <1>7 DEF CountIsReaders, TypeOK
    <3> QED
      BY <1>4, <3>1, FS_EmptySet
  <2>3. TypeOK' /\ Roles' /\ (HandlerInside' <=> HandlerInside)
    BY <1>0, <1>1, <2>1, GoTypes DEF TypeOK, ClientSteps, Go
  <2>4. pc'[c] = "reading" /\ (\A d \in Clients : d # c => pc'[d] = pc[d])
        /\ pc'[Main] = pc[Main]
    BY <2>1, GoEffect
  <2>5. Readers' = Readers \cup {c} /\ Writers' = Writers /\ InMutex' = {}
    <3>1. Readers' = Readers \cup {c}
      BY <1>1, <2>4 DEF Readers
    <3>2. Writers' = Writers
      BY <1>1, <2>4 DEF Writers
    <3>3. InMutex' = {}
      BY <1>2, <2>4 DEF InMutex
    <3> QED
      BY <3>1, <3>2, <3>3
  <2>6. \A d \in Clients : pc'[d] # "rLock"
    BY <1>3, <2>4
  <2>7. Counted' = Counted \cup {c}
    BY <1>4, <2>5, <2>6 DEF Counted
  <2>8. CountIsReaders'
    BY <1>1, <1>5, <2>7 DEF CountIsReaders
  <2> QED
    BY <1>1, <2>1, <2>2, <2>3, <2>5, <2>6, <2>8
       DEF MutexInv, FirstReaderAlone, LockedIffInside, Exclusion
<1> QED
  BY <1>6, <1>7

(* The first reader gets rw_lock: nobody is in, so nobody is disturbed.    *)
LEMMA StartReadLockStep ==
  ASSUME Inv, NEW c \in Clients, StartReadLock(c)
  PROVE  Inv'
<1> USE ClientsAreThreads DEF Inv
<1>1. /\ pc[c] = "rLock" /\ Go(c, "reading")
      /\ ~rw_lock /\ rw_lock' = TRUE
      /\ mutex' = FALSE
      /\ numReaders' = numReaders
  BY DEF StartReadLock, At, LockRw, UnlockMutex
<1>2. Readers = {} /\ Writers = {} /\ ~HandlerInside
  BY <1>1 DEF LockedIffInside
<1>3. InMutex = {c}
  BY <1>1 DEF InMutex, MutexInv
<1>4. TypeOK' /\ Roles' /\ (HandlerInside' <=> HandlerInside)
  BY <1>1, GoTypes DEF TypeOK, ClientSteps, Go
<1>5. pc'[c] = "reading" /\ (\A d \in Clients : d # c => pc'[d] = pc[d])
      /\ pc'[Main] = pc[Main]
  BY <1>1, GoEffect
<1>6. Readers' = {c}
  BY <1>2, <1>5 DEF Readers
<1>7. Writers' = {}
  BY <1>1, <1>2, <1>5 DEF Writers
<1>8. InMutex' = {}
  BY <1>3, <1>5 DEF InMutex
<1>9. \A d \in Clients : pc'[d] # "rLock"
  BY <1>3, <1>5 DEF InMutex
<1>10. Counted = {c} /\ Counted' = {c}
  BY <1>1, <1>6, <1>9 DEF FirstReaderAlone, Counted
<1> QED
  BY <1>1, <1>2, <1>4, <1>6, <1>7, <1>8, <1>9, <1>10
     DEF MutexInv, FirstReaderAlone, CountIsReaders, LockedIffInside, Exclusion

(* The count in end_read: rw_lock is given up by the last reader only.     *)
LEMMA EndReadCountStep ==
  ASSUME Inv, NEW c \in Clients, EndReadCount(c)
  PROVE  Inv'
<1> USE ClientsAreThreads DEF Inv
<1>1. /\ pc[c] = "eCount" /\ Go(c, "idle")
      /\ numReaders' = numReaders - 1
      /\ mutex' = FALSE
      /\ IF numReaders' = 0 THEN rw_lock' = FALSE ELSE rw_lock' = rw_lock
  BY DEF EndReadCount, At, NoReader, ReaderOut, UnlockMutex, UnlockRw
<1>2. c \in Readers /\ c \in Counted /\ InMutex = {c}
  BY <1>1 DEF InMutex, Readers, Counted, MutexInv
<1>3. \A d \in Clients : pc[d] # "rLock"
  BY <1>1, <1>2 DEF InMutex
<1>4. Counted = Readers
  BY <1>3 DEF Counted
<1>5. /\ Cardinality(Readers \ {c}) = numReaders - 1
      /\ Cardinality(Readers \ {c}) \in Nat
  BY <1>2, <1>4, CountedIsFinite, FS_RemoveElement, FS_CardinalityType
     DEF CountIsReaders
<1>6. pc'[c] = "idle" /\ (\A d \in Clients : d # c => pc'[d] = pc[d])
      /\ pc'[Main] = pc[Main]
  BY <1>1, GoEffect
<1>7. Readers' = Readers \ {c}
  BY <1>6 DEF Readers
<1>8. Writers' = Writers
  BY <1>1, <1>6 DEF Writers
<1>9. InMutex' = {}
  BY <1>2, <1>6 DEF InMutex
<1>10. \A d \in Clients : pc'[d] # "rLock"
  BY <1>3, <1>6
<1>11. Counted' = Readers \ {c}
  BY <1>7, <1>10 DEF Counted
<1>12. numReaders' = 0 <=> Readers' = {}
  BY <1>1, <1>5, <1>7, FS_EmptySet, FS_RemoveElement, CountedIsFinite
<1>13. TypeOK' /\ Roles' /\ (HandlerInside' <=> HandlerInside)
  BY <1>1, <1>5, GoTypes DEF TypeOK, ClientSteps, Go
<1>14. Writers = {} /\ ~HandlerInside /\ rw_lock
  BY <1>2 DEF Exclusion, LockedIffInside
<1> QED
  BY <1>1, <1>5, <1>7, <1>8, <1>9, <1>10, <1>11, <1>12, <1>13, <1>14
     DEF MutexInv, FirstReaderAlone, CountIsReaders, LockedIffInside, Exclusion

(* Taking rw_lock for writing: a client, or main at start-up.              *)
LEMMA WriteStep ==
  ASSUME Inv, NEW t \in Threads, NEW s,
         LockRw, Go(t, s), UNCHANGED <<numReaders, mutex>>,
         \/ t \in Clients /\ pc[t] = "wLock" /\ s = "writing"
         \/ t = Main /\ pc[t] = "init" /\ s = "initBody"
  PROVE  Inv'
<1> USE ClientsAreThreads DEF Inv
<1>1. ~rw_lock /\ rw_lock' = TRUE
  BY DEF LockRw
<1>2. Readers = {} /\ Writers = {} /\ ~HandlerInside
  BY <1>1 DEF LockedIffInside
<1>3. pc'[t] = s /\ (\A u \in Threads : u # t => pc'[u] = pc[u])
      /\ (HandlerInside' <=> HandlerInside)
  BY GoEffect DEF HandlerInside
<1>4. TypeOK' /\ Roles'
  BY <1>1, <1>3 DEF TypeOK, Roles, Go, ClientSteps, MainSteps
<1>5. \A d \in Clients : \/ pc'[d] = pc[d]
                         \/ pc[d] = "wLock" /\ pc'[d] = "writing"
  BY <1>3
<1>6. Readers' = Readers /\ InMutex' = InMutex
  BY <1>5 DEF Readers, InMutex
<1>7. \A d \in Clients : pc'[d] = "rLock" <=> pc[d] = "rLock"
  BY <1>5
<1>8. Counted' = Counted
  BY <1>6, <1>7 DEF Counted
<1>9. Writers' = {t}
  BY <1>2, <1>3 DEF Writers
<1> QED
  BY <1>1, <1>2, <1>3, <1>4, <1>6, <1>7, <1>8, <1>9
     DEF MutexInv, FirstReaderAlone, CountIsReaders, LockedIffInside, Exclusion

(* Giving rw_lock up after writing.                                        *)
LEMMA EndWriteStep ==
  ASSUME Inv, NEW t \in Threads, NEW s,
         UnlockRw, Go(t, s), UNCHANGED <<numReaders, mutex>>,
         \/ t \in Clients /\ pc[t] = "writing" /\ s = "idle"
         \/ t = Main /\ pc[t] = "initBody" /\ s = "accept"
  PROVE  Inv'
<1> USE ClientsAreThreads DEF Inv
<1>1. rw_lock' = FALSE
  BY DEF UnlockRw
<1>2. Writers = {t} /\ Readers = {} /\ ~HandlerInside
  BY DEF Writers, Exclusion
<1>3. pc'[t] = s /\ (\A u \in Threads : u # t => pc'[u] = pc[u])
      /\ (HandlerInside' <=> HandlerInside)
  BY GoEffect DEF HandlerInside
<1>4. TypeOK' /\ Roles'
  BY <1>1, <1>3 DEF TypeOK, Roles, Go, ClientSteps, MainSteps
<1>5. \A d \in Clients : \/ pc'[d] = pc[d]
                         \/ pc[d] = "writing" /\ pc'[d] = "idle"
  BY <1>3
<1>6. Readers' = Readers /\ InMutex' = InMutex
  BY <1>5 DEF Readers, InMutex
<1>7. \A d \in Clients : pc'[d] = "rLock" <=> pc[d] = "rLock"
  BY <1>5
<1>8. Counted' = Counted
  BY <1>6, <1>7 DEF Counted
<1>9. Writers' = {}
  BY <1>2, <1>3 DEF Writers
<1> QED
  BY <1>1, <1>2, <1>3, <1>4, <1>6, <1>7, <1>8, <1>9
     DEF MutexInv, FirstReaderAlone, CountIsReaders, LockedIffInside, Exclusion

(* The handler's steps move no thread.                                     *)
LEMMA HandlerStep ==
  ASSUME Inv, Sigint \/ HandlerLock \/ HandlerFree \/ HandlerExit
  PROVE  Inv'
<1> USE DEF Inv
<1>1. pc' = pc /\ numReaders' = numReaders /\ mutex' = mutex
  BY DEF Sigint, HandlerLock, HandlerFree, HandlerExit, locks
<1>2. TypeOK' /\ Roles'
  BY <1>1 DEF TypeOK, Roles, Sigint, HandlerLock, HandlerFree, HandlerExit,
              locks, LockRw, UnlockRw, HandlerSteps
<1>3. Readers' = Readers /\ Writers' = Writers /\ Counted' = Counted
      /\ InMutex' = InMutex
  BY <1>1 DEF Readers, Writers, Counted, InMutex
<1>4. \/ rw_lock' = rw_lock /\ ~HandlerInside' /\ ~HandlerInside
      \/ ~rw_lock /\ rw_lock' = TRUE /\ HandlerInside'
      \/ HandlerInside /\ rw_lock' = FALSE /\ ~HandlerInside'
  <2>1. CASE Sigint
    BY <2>1 DEF Sigint, locks, HandlerInside
  <2>2. CASE HandlerLock
    BY <2>2 DEF HandlerLock, LockRw, HandlerInside
  <2>3. CASE HandlerFree
    BY <2>3 DEF HandlerFree, UnlockRw, HandlerInside
  <2>4. CASE HandlerExit
    BY <2>4 DEF HandlerExit, locks, HandlerInside
  <2> QED
    BY <2>1, <2>2, <2>3, <2>4
<1> QED
  BY <1>1, <1>2, <1>3, <1>4
     DEF MutexInv, FirstReaderAlone, CountIsReaders, LockedIffInside, Exclusion

LEMMA NextInv == Inv /\ [Next]_vars => Inv'
<1> SUFFICES ASSUME Inv, [Next]_vars PROVE Inv'
  OBVIOUS
<1> USE ClientsAreThreads
<1>1. ASSUME NEW c \in Clients, Client(c)
      PROVE  Inv'
  <2>1. CASE WantRead(c) \/ WantWrite(c) \/ DoneReading(c)
    BY <2>1, IdleStep
  <2>2. CASE StartReadMutex(c) \/ EndReadMutex(c)
    BY <2>2, MutexStep
  <2>3. CASE StartReadCount(c)
    BY <2>3, StartReadCountStep
  <2>4. CASE StartReadLock(c)
    BY <2>4, StartReadLockStep
  <2>5. CASE EndReadCount(c)
    BY <2>5, EndReadCountStep
  <2>6. CASE StartWrite(c)
    BY <2>6, WriteStep DEF StartWrite, At
  <2>7. CASE EndWrite(c)
    BY <2>7, EndWriteStep DEF EndWrite, At
  <2> QED
    BY <1>1, <2>1, <2>2, <2>3, <2>4, <2>5, <2>6, <2>7 DEF Client
<1>2. CASE InitLock
  BY <1>2, WriteStep DEF InitLock, At
<1>3. CASE InitUnlock
  BY <1>3, EndWriteStep DEF InitUnlock, At
<1>4. CASE Sigint \/ HandlerLock \/ HandlerFree \/ HandlerExit
  BY <1>4, HandlerStep
<1>5. CASE Exited \/ UNCHANGED vars
  <2>1. UNCHANGED vars
    BY <1>5 DEF Exited
  <2> QED
    BY <2>1 DEF vars, Inv, TypeOK, Roles, MutexInv, InMutex, FirstReaderAlone,
                CountIsReaders, Counted, LockedIffInside, Exclusion, Readers,
                Writers, HandlerInside
<1> QED
  BY <1>1, <1>2, <1>3, <1>4, <1>5 DEF Next

(* The inductive invariant of the lock.                                    *)
THEOREM InvHolds == Spec => []Inv
  BY InitInv, NextInv, PTL DEF Spec

(* Every variable keeps its type, for any number of clients.               *)
THEOREM TypeCorrect == Spec => []TypeOK
  BY InvHolds, PTL DEF Inv

(* Readers, writers and the signal handler exclude each other.             *)
THEOREM ExclusionHolds == Spec => []Exclusion
  BY InvHolds, PTL DEF Inv

(* numReaders counts the readers.                                          *)
THEOREM CountHolds == Spec => []CountIsReaders
  BY InvHolds, PTL DEF Inv

(* rw_lock is locked exactly while somebody is in.                         *)
THEOREM LockedIffInsideHolds == Spec => []LockedIffInside
  BY InvHolds, PTL DEF Inv

-----------------------------------------------------------------------------
(* The refinement.                                                         *)

AllWriters == Writers \cup {h \in {"handler"} : HandlerInside}

LEMMA InitRefines == Init => Lists!Init
  BY ClientsAreThreads
     DEF Init, Lists!Init, Readers, Writers, HandlerInside

\* A step of one thread between program counters neither of which is inside.
LEMMA OutsideStutters ==
  ASSUME Inv, NEW t \in Threads, NEW s, Go(t, s),
         t \in Clients =>
           /\ s # "writing" /\ pc[t] # "writing"
           /\ s \in {"reading", "eMutex", "eCount"}
                <=> pc[t] \in {"reading", "eMutex", "eCount"},
         t # Main
  PROVE  Readers' = Readers /\ AllWriters' = AllWriters
<1>1. /\ pc'[t] = s
      /\ \A u \in Threads : u # t => pc'[u] = pc[u]
      /\ hpc' = hpc
  BY GoEffect DEF Inv
<1>2. Readers' = Readers
  BY <1>1, ClientsAreThreads DEF Readers
<1>3. Writers' = Writers
  BY <1>1, ClientsAreThreads DEF Writers
<1> QED
  BY <1>1, <1>2, <1>3 DEF AllWriters, HandlerInside

\* A reader enters while no writer is in.
LEMMA EnterReading ==
  ASSUME Inv, NEW c \in Clients, Go(c, "reading"),
         pc[c] \in {"rCount", "rLock"}, Writers = {}, ~HandlerInside
  PROVE  Lists!StartRead(c)
<1>1. /\ pc'[c] = "reading"
      /\ \A u \in Threads : u # c => pc'[u] = pc[u]
      /\ hpc' = hpc
  BY GoEffect, ClientsAreThreads DEF Inv
<1>2. Readers' = Readers \cup {c} /\ c \notin Readers
  BY <1>1, ClientsAreThreads DEF Readers
<1>3. AllWriters' = {} /\ AllWriters = {}
  BY <1>1, ClientsAreThreads DEF AllWriters, Writers, HandlerInside
<1> QED
  BY <1>2, <1>3 DEF Lists!StartRead, AllWriters

\* A writer enters while nobody is in.
LEMMA EnterWriting ==
  ASSUME Inv, NEW t \in Threads, NEW s, LockRw, Go(t, s),
         \/ t \in Clients /\ pc[t] = "wLock" /\ s = "writing"
         \/ t = Main /\ pc[t] = "init" /\ s = "initBody"
  PROVE  Lists!StartWrite(t)
<1>1. /\ pc'[t] = s
      /\ \A u \in Threads : u # t => pc'[u] = pc[u]
      /\ hpc' = hpc
  BY GoEffect DEF Inv
<1>2. Readers = {} /\ Writers = {} /\ ~HandlerInside
  BY DEF LockRw, Inv, LockedIffInside
<1>3. Readers' = {}
  BY <1>1, <1>2, ClientsAreThreads DEF Readers
<1>4. Writers' = {t}
  BY <1>1, <1>2, ClientsAreThreads DEF Writers
<1> QED
  BY <1>1, <1>2, <1>3, <1>4 DEF Lists!StartWrite, HandlerInside

\* A writer leaves.
LEMMA LeaveWriting ==
  ASSUME Inv, NEW t \in Threads, NEW s, Go(t, s),
         \/ t \in Clients /\ pc[t] = "writing" /\ s = "idle"
         \/ t = Main /\ pc[t] = "initBody" /\ s = "accept"
  PROVE  Lists!EndWrite(t)
<1>1. /\ pc'[t] = s
      /\ \A u \in Threads : u # t => pc'[u] = pc[u]
      /\ hpc' = hpc
  BY GoEffect DEF Inv
<1>2. Writers = {t} /\ Readers = {} /\ ~HandlerInside
  BY DEF Writers, Inv, Exclusion
<1>3. Readers' = {}
  BY <1>1, <1>2, ClientsAreThreads DEF Readers
<1>4. Writers' = {}
  BY <1>1, <1>2, ClientsAreThreads DEF Writers
<1> QED
  BY <1>1, <1>2, <1>3, <1>4 DEF Lists!EndWrite, HandlerInside

LEMMA ClientRefines ==
  ASSUME Inv, NEW c \in Clients, Client(c)
  PROVE  Lists!Next \/ (Readers' = Readers /\ AllWriters' = AllWriters)
<1> USE ClientsAreThreads
<1>0. c \in Threads \cup {"handler"}
  OBVIOUS
<1>1. CASE WantRead(c) \/ WantWrite(c) \/ DoneReading(c)
           \/ StartReadMutex(c) \/ EndReadMutex(c)
  BY <1>1, OutsideStutters
     DEF WantRead, WantWrite, DoneReading, StartReadMutex, EndReadMutex, At
<1>2. CASE StartReadCount(c)
  <2>1. CASE FirstReader(numReaders')
    BY <1>2, <2>1, OutsideStutters DEF StartReadCount, At
  <2>2. CASE ~FirstReader(numReaders')
    <3>1. c \in InMutex /\ pc[c] = "rCount"
      BY <1>2 DEF InMutex, StartReadCount, At
    <3>2. Readers # {}
      <4>1. \A d \in Clients : pc[d] # "rLock"
        BY <3>1 DEF Inv, MutexInv, InMutex
      <4>2. Counted = Readers
        BY <4>1 DEF Counted
      <4>3. Cardinality(Counted) # 0
        BY <1>2, <2>2
           DEF StartReadCount, FirstReader, ReaderIn, Inv, CountIsReaders, TypeOK
      <4> QED
        BY <4>2, <4>3, FS_EmptySet
    <3>3. Lists!StartRead(c)
      BY <1>2, <2>2, <3>1, <3>2, EnterReading
         DEF StartReadCount, Inv, Exclusion
    <3> QED
      BY <1>0, <3>3 DEF Lists!Next
  <2> QED
    BY <2>1, <2>2
<1>3. CASE StartReadLock(c)
  <2>1. Lists!StartRead(c)
    BY <1>3, EnterReading
       DEF StartReadLock, At, LockRw, Inv, LockedIffInside
  <2> QED
    BY <1>0, <2>1 DEF Lists!Next
<1>4. CASE EndReadCount(c)
  <2>1. pc[c] = "eCount" /\ Go(c, "idle")
    BY <1>4 DEF EndReadCount, At
  <2>2. /\ pc'[c] = "idle"
        /\ \A u \in Threads : u # c => pc'[u] = pc[u]
        /\ hpc' = hpc
    BY <2>1, GoEffect DEF Inv
  <2>3. c \in Readers /\ Readers' = Readers \ {c}
    BY <2>1, <2>2 DEF Readers
  <2>4. AllWriters' = AllWriters
    BY <2>1, <2>2 DEF AllWriters, Writers, HandlerInside
  <2>5. Lists!EndRead(c)
    BY <2>3, <2>4 DEF Lists!EndRead, AllWriters
  <2> QED
    BY <1>0, <2>5 DEF Lists!Next
<1>5. CASE StartWrite(c)
  <2>1. Lists!StartWrite(c)
    BY <1>5, EnterWriting DEF StartWrite, At
  <2> QED
    BY <1>0, <2>1 DEF Lists!Next
<1>6. CASE EndWrite(c)
  <2>1. Lists!EndWrite(c)
    BY <1>6, LeaveWriting DEF EndWrite, At
  <2> QED
    BY <1>0, <2>1 DEF Lists!Next
<1> QED
  BY <1>1, <1>2, <1>3, <1>4, <1>5, <1>6 DEF Client

LEMMA HandlerRefines ==
  ASSUME Inv, Sigint \/ HandlerLock \/ HandlerFree \/ HandlerExit
  PROVE  Lists!Next \/ (Readers' = Readers /\ AllWriters' = AllWriters)
<1>1. Readers' = Readers /\ Writers' = Writers
  BY DEF Sigint, HandlerLock, HandlerFree, HandlerExit, Readers, Writers
<1>2. CASE Sigint \/ HandlerExit
  BY <1>1, <1>2 DEF Sigint, HandlerExit, AllWriters, HandlerInside
<1>3. CASE HandlerLock
  <2>1. Readers = {} /\ Writers = {} /\ ~HandlerInside
    BY <1>3 DEF HandlerLock, LockRw, Inv, LockedIffInside
  <2>2. Lists!StartWrite("handler")
    BY <1>1, <1>3, <2>1 DEF Lists!StartWrite, HandlerLock, HandlerInside
  <2> QED
    BY <2>2 DEF Lists!Next
<1>4. CASE HandlerFree
  <2>1. Readers = {} /\ Writers = {} /\ HandlerInside
    BY <1>4 DEF HandlerFree, HandlerInside, Inv, Exclusion
  <2>2. Lists!EndWrite("handler")
    BY <1>1, <1>4, <2>1 DEF Lists!EndWrite, HandlerFree, HandlerInside
  <2> QED
    BY <2>2 DEF Lists!Next
<1> QED
  BY <1>2, <1>3, <1>4

LEMMA NextRefines == Inv /\ [Next]_vars => [Lists!Next]_(Lists!vars)
<1> SUFFICES ASSUME Inv, [Next]_vars
             PROVE  Lists!Next \/ (Readers' = Readers /\ AllWriters' = AllWriters)
  BY DEF Lists!vars, AllWriters
<1> USE ClientsAreThreads
<1>1. CASE \E c \in Clients : Client(c)
  BY <1>1, ClientRefines
<1>2. CASE InitLock
  <2>1. Lists!StartWrite(Main)
    BY <1>2, EnterWriting DEF InitLock, At
  <2> QED
    BY <2>1 DEF Lists!Next
<1>3. CASE InitUnlock
  <2>1. Lists!EndWrite(Main)
    BY <1>3, LeaveWriting DEF InitUnlock, At
  <2> QED
    BY <2>1 DEF Lists!Next
<1>4. CASE Sigint \/ HandlerLock \/ HandlerFree \/ HandlerExit
  BY <1>4, HandlerRefines
<1>5. CASE Exited \/ UNCHANGED vars
  BY <1>5 DEF Exited, vars, Readers, Writers, AllWriters, HandlerInside
<1> QED
  BY <1>1, <1>2, <1>3, <1>4, <1>5 DEF Next

(* The two mutexes and the reader count implement the readers-writer lock. *)
THEOREM LockImplementsSharedLists == Spec => ImplementsSharedLists
<1>1. Init => Lists!Init
  BY InitRefines
<1>2. Inv /\ [Next]_vars => [Lists!Next]_(Lists!vars)
  BY NextRefines
<1> QED
  BY <1>1, <1>2, InvHolds, PTL DEF Spec, Lists!Spec, ImplementsSharedLists

=============================================================================
