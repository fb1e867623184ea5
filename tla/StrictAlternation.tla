-------------------------- MODULE StrictAlternation --------------------------
(***************************************************************************)
(* Lab 3 part 2: a parent that deposits and a child that withdraws take    *)
(* turns over two integers in shared memory, SharedMem[0] (the account)    *)
(* and SharedMem[1] (whose turn it is).  In each round a process copies    *)
(* the account, then spins until it is its turn, then computes with the    *)
(* copy, writes it back and passes the turn.                               *)
(***************************************************************************)
EXTENDS Integers, FiniteSets

CONSTANTS
  Rounds,    \* rounds of each process (25)
  Deposits,  \* what rand() % 100 may return
  Needs      \* what rand() % 50 may return

ASSUME StrictAlternationAssumption ==
  /\ Rounds \in Nat
  /\ Deposits \subseteq 0 .. 99
  /\ Needs \subseteq 0 .. 49

Parent == 0
Child == 1
Procs == {Parent, Child}
OtherForgotten(p) == p
Other(p) == 1 - p

VARIABLES
  BankAccount,  \* SharedMem[0]
  Turn,         \* SharedMem[1]
  account,      \* each process's local copy
  i,            \* each process's loop counter
  pc            \* the next step of each process

vars == <<BankAccount, Turn, account, i, pc>>

Steps == {"unborn", "read", "spin", "compute", "write", "pass", "wait", "done"}

\* Where a process goes at the top of its loop: the child exits after the
\* last round, the parent waits for it.
LoopOr(p, n) == IF n < Rounds THEN "read"
                ELSE IF p = Parent THEN "wait" ELSE "done"

Init ==
  /\ BankAccount = 0
  /\ Turn = 0
  /\ account = [p \in Procs |-> 0]
  /\ i = [p \in Procs |-> 0]
  /\ pc = [p \in Procs |-> "unborn"]

At(p, s) == pc[p] = s
Go(p, s) == pc' = [pc EXCEPT ![p] = s]

\* fork: both processes enter their loop; or it fails and the program exits.
Fork ==
  /\ \A p \in Procs : At(p, "unborn")
  /\ pc' = [p \in Procs |-> LoopOr(p, 0)]
  /\ UNCHANGED <<BankAccount, Turn, account, i>>

ForkFails ==
  /\ \A p \in Procs : At(p, "unborn")
  /\ pc' = [p \in Procs |-> "done"]
  /\ UNCHANGED <<BankAccount, Turn, account, i>>

\* The copy is taken before the turn is waited for.
Read(p) ==
  /\ At(p, "read")
  /\ account' = [account EXCEPT ![p] = BankAccount]
  /\ Go(p, "spin")
  /\ UNCHANGED <<BankAccount, Turn, i>>

\* while (SharedMem[1] != me) usleep(100): the step that leaves the loop.
MyTurn(p) == Turn = p

SpinPassesTurn(p) == \* a mutant: the turn is passed before the account is written
  /\ At(p, "spin")
  /\ MyTurn(p)
  /\ Turn' = Other(p)
  /\ Go(p, "compute")
  /\ UNCHANGED <<BankAccount, account, i>>

Spin(p) ==
  /\ At(p, "spin")
  /\ MyTurn(p)
  /\ Go(p, "compute")
  /\ UNCHANGED <<BankAccount, Turn, account, i>>

DepositOffByOne(a, amount) ==
  IF a <= 101 /\ amount % 2 = 0 THEN a + amount ELSE a

Deposit(a, amount) ==
  IF a <= 100 /\ amount % 2 = 0 THEN a + amount ELSE a

Withdraw(a, need) ==
  IF need <= a THEN a - need ELSE a

Compute(p) ==
  /\ At(p, "compute")
  /\ \/ /\ p = Parent
        /\ \E amount \in Deposits :
             account' = [account EXCEPT ![p] = Deposit(@, amount)]
     \/ /\ p = Child
        /\ \E need \in Needs :
             account' = [account EXCEPT ![p] = Withdraw(@, need)]
  /\ Go(p, "write")
  /\ UNCHANGED <<BankAccount, Turn, i>>

Write(p) ==
  /\ At(p, "write")
  /\ BankAccount' = account[p]
  /\ Go(p, "pass")
  /\ UNCHANGED <<Turn, account, i>>

Pass(p) ==
  /\ At(p, "pass")
  /\ Turn' = Other(p)
  /\ i' = [i EXCEPT ![p] = @ + 1]
  /\ Go(p, LoopOr(p, i'[p]))
  /\ UNCHANGED <<BankAccount, account>>

\* wait(&status), then the memory is detached and removed.
Wait ==
  /\ At(Parent, "wait")
  /\ At(Child, "done")
  /\ Go(Parent, "done")
  /\ UNCHANGED <<BankAccount, Turn, account, i>>

Ended == (\A p \in Procs : At(p, "done")) /\ UNCHANGED vars

Process(p) == Read(p) \/ Spin(p) \/ Compute(p) \/ Write(p) \/ Pass(p)

Next ==
  \/ Fork
  \/ ForkFails
  \/ \E p \in Procs : Process(p)
  \/ Wait
  \/ Ended

Spec == Init /\ [][Next]_vars

\* The kernel runs both processes.
FairSpec == /\ Spec
            /\ WF_vars(Fork \/ ForkFails)
            /\ \A p \in Procs : WF_vars(Process(p))
            /\ WF_vars(Wait)

-----------------------------------------------------------------------------
(* Properties                                                              *)

InTurn(p) == pc[p] \in {"compute", "write", "pass"}

TypeOK ==
  /\ BankAccount \in Int
  /\ Turn \in Procs
  /\ account \in [Procs -> Int]
  /\ i \in [Procs -> 0 .. Rounds]
  /\ pc \in [Procs -> Steps]

(* Only the process whose turn it is is past its spin loop, so the two are *)
(* never between it and the hand-over together.                            *)
MutualExclusion == \A p \in Procs : InTurn(p) => Turn = p

(* The turns alternate: the parent is at most one round ahead, and whose   *)
(* turn it is follows from the rounds done.                                *)
RoundsAlternate == i[Parent] - i[Child] = Turn

(* Strict alternation: the account is computed and written by the process  *)
(* whose turn it is, before it hands the turn over, and the two do so in   *)
(* turn, round by round.                                                   *)
StrictlyAlternates == MutualExclusion /\ RoundsAlternate

(* Whatever the two processes overwrite of each other's, no balance is     *)
(* ever negative or above 198: the largest even deposit on top of 100.     *)
BalanceInRange ==
  /\ BankAccount \in 0 .. 198
  /\ \A p \in Procs : account[p] \in 0 .. 198

(* Both processes do all their rounds and end, or the fork fails.          *)
BothFinish == <>(\A p \in Procs : pc[p] = "done")
=============================================================================
