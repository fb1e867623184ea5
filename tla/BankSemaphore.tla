---------------------------- MODULE BankSemaphore ----------------------------
(***************************************************************************)
(* Project 2 part 1: a master process forks Dad, perhaps Mom, and students *)
(* who share a bank account in POSIX shared memory, guarded by the named   *)
(* semaphore "mutex".  SIGINT runs cleanup_and_exit, which kills the       *)
(* children it knows of and removes the semaphore and the memory; the      *)
(* children inherit that handler.                                          *)
(*                                                                         *)
(* Children are numbered in the order they are forked: 1 is Dad, 2 is Mom  *)
(* when there are two parents, the others are students.                    *)
(***************************************************************************)
EXTENDS Naturals, FiniteSets

CONSTANTS
  NumParents,   \* argv[1]
  NumStudents,  \* argv[2]
  DadAmounts,   \* what rand() % 100 may return to Dad
  MomAmounts,   \* what rand() % 125 may return to Mom
  Needs,        \* what rand() % 50 may return to a student
  SigintTo,     \* whom a SIGINT may reach: "master", "group", either or none
  SetupMayFail  \* may calloc or fork fail?

ASSUME BankAssumption ==
  /\ NumParents \in {1, 2}
  /\ NumStudents \in Nat \ {0}
  /\ DadAmounts \subseteq 0 .. 99
  /\ MomAmounts \subseteq 0 .. 124
  /\ Needs \subseteq 0 .. 49
  /\ SigintTo \subseteq {"master", "group"}
  /\ SetupMayFail \in BOOLEAN

total_children == NumParents + NumStudents
Kids == 1 .. total_children
Role(k) == IF k = 1 THEN "dad"
           ELSE IF k <= NumParents THEN "mom" ELSE "student"

VARIABLES
  BankAccount,   \* *BankAccount
  mutex,         \* the value of the semaphore
  linked,        \* do the semaphore and the memory still have their names?
  pc,            \* the next step of each child
  localBalance,  \* each child's copy of the balance
  mpc,           \* the next step of the master
  idx,           \* how many pids the master has stored in child_pids
  pending        \* the processes SIGINT is pending for

vars == <<BankAccount, mutex, linked, pc, localBalance, mpc, idx, pending>>
bank == <<BankAccount, mutex, localBalance>>

Master == 0

KidSteps == {"unborn", "sleep", "read", "update", "post", "unlink", "dead"}
MasterSteps == {"calloc", "fork", "store", "pause", "kill", "unlink",
                "exited", "crashed"}

Init ==
  /\ BankAccount = 0
  /\ mutex = 1
  /\ linked = TRUE
  /\ pc = [k \in Kids |-> "unborn"]
  /\ localBalance = [k \in Kids |-> 0]
  /\ mpc = "calloc"
  /\ idx = 0
  /\ pending = {}

Go(k, s) == pc' = [pc EXCEPT ![k] = s]

-----------------------------------------------------------------------------
(* A child: sem_wait, read, decide and write, sem_post                     *)

CanWaitAlways == TRUE \* a mutant: no semaphore
CanWait == mutex > 0

SemWait(k) ==
  /\ pc[k] = "sleep"
  /\ CanWait
  /\ mutex' = mutex - 1
  /\ Go(k, "read")
  /\ UNCHANGED <<BankAccount, localBalance>>

Read(k) ==
  /\ pc[k] = "read"
  /\ localBalance' = [localBalance EXCEPT ![k] = BankAccount]
  /\ Go(k, "update")
  /\ UNCHANGED <<BankAccount, mutex>>

\* What each may leave in the account, having read b; to leave it alone is
\* always possible: Dad and the student may just check, Mom may give 0.
DadLeaves(b) == {b} \cup {b + a : a \in {x \in DadAmounts : b < 100 /\ x % 2 = 0}}
MomAlwaysGives(b) == {b + a : a \in MomAmounts} \* a mutant: the check is dropped
MomLeaves(b) == IF b <= 100 THEN {b + a : a \in MomAmounts} ELSE {b}
StudentLeaves(b) == {b} \cup {b - n : n \in {x \in Needs : x <= b}}

Leaves(k, b) == CASE Role(k) = "dad" -> DadLeaves(b)
                  [] Role(k) = "mom" -> MomLeaves(b)
                  [] Role(k) = "student" -> StudentLeaves(b)

Update(k) ==
  /\ pc[k] = "update"
  /\ BankAccount' \in Leaves(k, localBalance[k])
  /\ localBalance' = [localBalance EXCEPT ![k] = BankAccount']
  /\ Go(k, "post")
  /\ UNCHANGED mutex

SemPostForgotten(k) == \* a mutant: the semaphore stays taken
  /\ pc[k] = "post"
  /\ localBalance' = [localBalance EXCEPT ![k] = 0]
  /\ Go(k, "sleep")
  /\ UNCHANGED <<BankAccount, mutex>>

\* The local goes out of scope; 0 stands for no value.
SemPost(k) ==
  /\ pc[k] = "post"
  /\ mutex' = mutex + 1
  /\ localBalance' = [localBalance EXCEPT ![k] = 0]
  /\ Go(k, "sleep")
  /\ UNCHANGED BankAccount

Kid(k) ==
  /\ k \notin pending
  /\ \/ SemWait(k)
     \/ Read(k)
     \/ Update(k)
     \/ SemPost(k)
  /\ UNCHANGED <<linked, mpc, idx, pending>>

-----------------------------------------------------------------------------
(* The master: fork and store the pid, child by child, then pause          *)

Calloc ==
  /\ mpc = "calloc"
  /\ mpc' = "fork"
  /\ UNCHANGED <<pc, idx, linked>>

\* cleanup_and_exit with child_pids == NULL and children to kill: the master
\* dies with the names still there.
CallocFails ==
  /\ mpc = "calloc"
  /\ SetupMayFail
  /\ mpc' = "crashed"
  /\ UNCHANGED <<pc, idx, linked>>

Fork ==
  /\ mpc = "fork"
  /\ IF idx < total_children
     THEN Go(idx + 1, "sleep") /\ mpc' = "store"
     ELSE UNCHANGED pc /\ mpc' = "pause"
  /\ UNCHANGED <<idx, linked>>

ForkFails ==
  /\ mpc = "fork"
  /\ idx < total_children
  /\ SetupMayFail
  /\ mpc' = "kill"
  /\ UNCHANGED <<pc, idx, linked>>

Store ==
  /\ mpc = "store"
  /\ idx' = idx + 1
  /\ mpc' = "fork"
  /\ UNCHANGED <<pc, linked>>

\* cleanup_and_exit in the master: kill and wait for the children stored,
\* then remove the names and exit.
KillSetShort(n) == 1 .. n - 1 \* a mutant: the loop ends one early
KillSet(n) == 1 .. n

Killed(n) == [k \in Kids |-> IF k \in KillSet(n) /\ pc[k] # "unborn"
                             THEN "dead" ELSE pc[k]]

MasterKill ==
  /\ mpc = "kill"
  /\ pc' = Killed(idx)
  /\ mpc' = "unlink"
  /\ UNCHANGED <<idx, linked>>

MasterUnlinkForgotten == \* a mutant: the names stay
  /\ mpc = "unlink"
  /\ mpc' = "exited"
  /\ UNCHANGED <<pc, idx, linked>>

MasterUnlink ==
  /\ mpc = "unlink"
  /\ linked' = FALSE
  /\ mpc' = "exited"
  /\ UNCHANGED <<pc, idx>>

MasterStep ==
  /\ Master \notin pending
  /\ \/ Calloc
     \/ CallocFails
     \/ Fork
     \/ ForkFails
     \/ Store
     \/ MasterKill
     \/ MasterUnlink
  /\ UNCHANGED <<bank, pending>>

-----------------------------------------------------------------------------
(* SIGINT                                                                  *)

Alive(k) == pc[k] \notin {"unborn", "dead"}
MasterAlive == mpc \notin {"exited", "crashed"}

Reached(to) ==
  {Master} \cup {k \in Kids : to = "group" /\ Alive(k)}

\* One SIGINT, to the master alone (kill -INT) or, by Ctrl-C, to every process there is,
\* at any time after set-up.
Sigint ==
  /\ mpc \in {"fork", "store", "pause"}
  /\ pending = {}
  /\ \E to \in SigintTo : pending' = Reached(to)
  /\ UNCHANGED <<bank, linked, pc, mpc, idx>>

\* The handler takes over.
MasterHandler ==
  /\ Master \in pending
  /\ pending' = pending \ {Master}
  /\ mpc' = "kill"
  /\ UNCHANGED <<bank, linked, pc, idx>>

\* A child's handler, wherever the child is: its copy of child_pids holds the
\* siblings forked before it, which it kills and cannot wait for.
KidHandler(k) ==
  /\ k \in pending
  /\ Alive(k)
  /\ pending' = pending \ {k}
  /\ pc' = [Killed(k - 1) EXCEPT ![k] = "unlink"]
  /\ UNCHANGED <<bank, linked, mpc, idx>>

KidUnlink(k) ==
  /\ pc[k] = "unlink"
  /\ linked' = FALSE
  /\ Go(k, "dead")
  /\ UNCHANGED <<bank, mpc, idx, pending>>

Gone == ~MasterAlive /\ \A k \in Kids : ~Alive(k)

\* The program is over; a child the master missed may hang in sem_wait, when
\* the one that was killed had the semaphore.
Ended == ~MasterAlive /\ UNCHANGED vars

Next ==
  \/ \E k \in Kids : Kid(k)
  \/ MasterStep
  \/ Sigint
  \/ MasterHandler
  \/ \E k \in Kids : KidHandler(k)
  \/ \E k \in Kids : KidUnlink(k)
  \/ Ended

Spec == Init /\ [][Next]_vars

\* The kernel runs every process and delivers signals; a process that waits
\* for a semaphore that is posted again and again gets it in the end.
Fairness ==
  /\ \A k \in Kids : /\ WF_vars(Kid(k))
                     /\ SF_vars(Kid(k) /\ SemWait(k))
                     /\ WF_vars(KidHandler(k))
                     /\ WF_vars(KidUnlink(k))
  /\ WF_vars(MasterStep)
  /\ WF_vars(MasterHandler)

FairSpec == Spec /\ Fairness

-----------------------------------------------------------------------------
(* Properties                                                              *)

TypeOK ==
  /\ BankAccount \in Nat
  /\ mutex \in Nat
  /\ linked \in BOOLEAN
  /\ pc \in [Kids -> KidSteps]
  /\ localBalance \in [Kids -> Nat]
  /\ mpc \in MasterSteps
  /\ idx \in 0 .. total_children
  /\ pending \subseteq Kids \cup {Master}

Inside == {k \in Kids : pc[k] \in {"read", "update", "post"}}

(* The semaphore keeps the children out of each other's way, also when a   *)
(* signal stops one of them half-way: at most one is inside, the semaphore *)
(* is 0 meanwhile, and it is never above 1.                                *)
MutualExclusion ==
  /\ mutex \in {0, 1}
  /\ \A j, k \in Inside : j = k
  /\ Inside # {} => mutex = 0

(* No update is lost: a child that is about to write the account has read  *)
(* what is still in it.                                                    *)
NoLostUpdate ==
  \A k \in Kids : pc[k] \in {"update", "post"} => localBalance[k] = BankAccount

(* The balance is never negative and never above 224, whoever deposits and *)
(* withdraws: 100 and Mom's largest gift.                                  *)
BalanceInRange == BankAccount \in 0 .. 224

(* While nothing goes wrong at set-up and no signal arrives every child    *)
(* gets to the account again and again.                                    *)
EverybodyBanks ==
  [](pending = {} /\ mpc \in {"calloc", "fork", "store", "pause"}) =>
    \A k \in Kids : []<>(pc[k] = "read")

\* The child between fork and the assignment of its pid, if there is one.
Unstored == {k \in Kids : mpc = "store" /\ k = idx + 1}

(* "kill all children": once the master has killed and waited, no child    *)
(* whose pid it had stored is alive, whoever was interrupted where.  The   *)
(* child it had forked and not yet stored is the only one it can miss.     *)
NoStoredChildSurvives ==
  mpc \in {"unlink", "exited"} => \A k \in 1 .. idx : ~Alive(k)

(* A signal ends the whole program, even when it stops a child that holds  *)
(* the semaphore, and leaves no name behind for the next run; unless it    *)
(* reaches the master alone just before it stores a pid.                   *)
CtrlCEndsAll ==
  (pending # {} /\ Unstored \subseteq pending) ~> (Gone /\ ~linked)
=============================================================================
