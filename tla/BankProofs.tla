----------------------------- MODULE BankProofs -----------------------------
(***************************************************************************)
(* The account shared by processes, guarded in two ways.  With the         *)
(* semaphore of project 2, for any number of children and any amounts: the *)
(* semaphore excludes, no update is lost and the balance keeps its range,  *)
(* signals included.  With the turns of lab 3, for any number of rounds    *)
(* and any amounts: mutual exclusion, alternation and the range of the     *)
(* balance.                                                                *)
(***************************************************************************)
EXTENDS BankSemaphore, TLAPS

\* The pid about to be stored has a place in child_pids.
StoreFits == mpc = "store" => idx < total_children

Inv == TypeOK /\ MutualExclusion /\ NoLostUpdate /\ BalanceInRange /\ StoreFits

\* Nobody enters: each child is where it was, or on its way out.
Retreat == \A k \in Kids : pc'[k] = pc[k] \/ pc'[k] \notin {"read", "update", "post"}

(* The master, idx and the children's numbers are integers.                *)
LEMMA KidsAreNumbers ==
  total_children \in Nat /\ Kids \subseteq Nat
BY BankAssumption DEF total_children, Kids

(* What a child may leave keeps the range when what it read was in it.     *)
LEMMA LeavesInRange ==
  ASSUME NEW k \in Kids, NEW b \in 0 .. 224, NEW n \in Leaves(k, b)
  PROVE  n \in 0 .. 224
<1>1. CASE Role(k) = "dad"
  <2>1. n \in DadLeaves(b)
    BY <1>1 DEF Leaves
  <2>2. n = b \/ \E a \in DadAmounts : n = b + a /\ b < 100
    BY <2>1 DEF DadLeaves
  <2> QED
    BY <2>2, BankAssumption
<1>2. CASE Role(k) = "mom"
  <2>1. n \in MomLeaves(b)
    BY <1>2 DEF Leaves
  <2>2. n = b \/ \E a \in MomAmounts : n = b + a /\ b <= 100
    BY <2>1 DEF MomLeaves
  <2> QED
    BY <2>2, BankAssumption
<1>3. CASE Role(k) = "student"
  <2>1. n \in StudentLeaves(b)
    BY <1>3 DEF Leaves
  <2>2. n = b \/ \E x \in Needs : n = b - x /\ x <= b
    BY <2>1 DEF StudentLeaves
  <2> QED
    BY <2>2, BankAssumption
<1> QED
  BY <1>1, <1>2, <1>3 DEF Role

(* Steps that leave the account and the semaphore alone and let nobody in  *)
(* keep every part of the invariant but the types.                         *)
LEMMA RetreatKeeps ==
  ASSUME Inv, Retreat, UNCHANGED bank
  PROVE  MutualExclusion' /\ NoLostUpdate' /\ BalanceInRange'
<1>1. Inside' \subseteq Inside
  BY DEF Inside, Retreat
<1>2. MutualExclusion'
  BY <1>1 DEF Inv, MutualExclusion, bank
<1>3. NoLostUpdate'
  BY DEF Inv, NoLostUpdate, Retreat, bank
<1>4. BalanceInRange'
  BY DEF Inv, BalanceInRange, bank
<1> QED
  BY <1>2, <1>3, <1>4

(* One step of a child.                                                    *)
LEMMA KidStep ==
  ASSUME Inv, NEW k \in Kids, Kid(k)
  PROVE  Inv'
<1> USE DEF Inv, bank
<1>0. /\ TypeOK /\ MutualExclusion /\ NoLostUpdate /\ BalanceInRange
      /\ UNCHANGED <<linked, mpc, idx, pending>> /\ StoreFits'
  BY DEF Kid, StoreFits
<1>1. CASE SemWait(k)
  <2>1. Inside = {} /\ mutex = 1 /\ mutex' = 0
    BY <1>0, <1>1 DEF SemWait, CanWait, MutualExclusion
  <2>2. pc' = [pc EXCEPT ![k] = "read"] /\ UNCHANGED <<BankAccount, localBalance>>
    BY <1>1 DEF SemWait, Go
  <2>3. TypeOK'
    BY <1>0, <2>1, <2>2 DEF TypeOK, KidSteps
  <2>4. MutualExclusion'
    <3>1. \A j \in Kids : j # k => pc'[j] = pc[j]
      BY <1>0, <2>2 DEF TypeOK
    <3>2. Inside' \subseteq {k}
      BY <2>1, <3>1 DEF Inside
    <3> QED
      BY <2>1, <3>2 DEF MutualExclusion
  <2>5. NoLostUpdate'
    BY <1>0, <2>2 DEF NoLostUpdate, TypeOK
  <2>6. BalanceInRange'
    BY <1>0, <2>2 DEF BalanceInRange
  <2> QED
    BY <1>0, <2>3, <2>4, <2>5, <2>6
<1>2. CASE Read(k)
  <2>1. /\ pc[k] = "read"
        /\ localBalance' = [localBalance EXCEPT ![k] = BankAccount]
        /\ pc' = [pc EXCEPT ![k] = "update"]
        /\ UNCHANGED <<BankAccount, mutex>>
    BY <1>2 DEF Read, Go
  <2>2. TypeOK'
    BY <1>0, <2>1 DEF TypeOK, KidSteps
  <2>3. Inside' = Inside
    BY <1>0, <2>1 DEF Inside, TypeOK
  <2>4. MutualExclusion'
    BY <1>0, <2>1, <2>3 DEF MutualExclusion
  <2>5. NoLostUpdate'
    BY <1>0, <2>1 DEF NoLostUpdate, TypeOK
  <2>6. BalanceInRange'
    BY <1>0, <2>1 DEF BalanceInRange
  <2> QED
    BY <1>0, <2>2, <2>4, <2>5, <2>6
<1>3. CASE Update(k)
  <2>1. /\ pc[k] = "update"
        /\ BankAccount' \in Leaves(k, localBalance[k])
        /\ localBalance' = [localBalance EXCEPT ![k] = BankAccount']
        /\ pc' = [pc EXCEPT ![k] = "post"]
        /\ mutex' = mutex
    BY <1>3 DEF Update, Go
  <2>2. localBalance[k] = BankAccount /\ BankAccount \in 0 .. 224
    BY <1>0, <2>1 DEF NoLostUpdate, BalanceInRange
  <2>3. BalanceInRange'
    BY <2>1, <2>2, LeavesInRange DEF BalanceInRange
  <2>4. BankAccount' \in Nat
    BY <2>3 DEF BalanceInRange
  <2>5. TypeOK'
    BY <1>0, <2>1, <2>4 DEF TypeOK, KidSteps
  <2>6. Inside' = Inside /\ k \in Inside
    BY <1>0, <2>1 DEF Inside, TypeOK
  <2>7. MutualExclusion'
    BY <1>0, <2>1, <2>6 DEF MutualExclusion
  <2>8. NoLostUpdate'
    <3>1. \A j \in Kids : pc[j] \in {"read", "update", "post"} => j = k
      BY <1>0, <2>6 DEF MutualExclusion, Inside
    <3>2. \A j \in Kids : j # k => pc'[j] = pc[j]
      BY <1>0, <2>1 DEF TypeOK
    <3>3. localBalance'[k] = BankAccount'
      BY <1>0, <2>1 DEF TypeOK
    <3> QED
      BY <3>1, <3>2, <3>3 DEF NoLostUpdate
  <2> QED
    BY <1>0, <2>3, <2>5, <2>7, <2>8
<1>4. CASE SemPost(k)
  <2>1. /\ pc[k] = "post"
        /\ mutex' = mutex + 1
        /\ localBalance' = [localBalance EXCEPT ![k] = 0]
        /\ pc' = [pc EXCEPT ![k] = "sleep"]
        /\ BankAccount' = BankAccount
    BY <1>4 DEF SemPost, Go
  <2>2. k \in Inside
    BY <2>1 DEF Inside
  <2>3. mutex = 0 /\ mutex' = 1
    BY <1>0, <2>1, <2>2 DEF MutualExclusion
  <2>4. TypeOK'
    BY <1>0, <2>1, <2>3 DEF TypeOK, KidSteps
  <2>5. Inside' = {}
    BY <1>0, <2>1, <2>2 DEF MutualExclusion, Inside, TypeOK
  <2>6. MutualExclusion'
    BY <2>3, <2>5 DEF MutualExclusion
  <2>7. NoLostUpdate'
    BY <2>5 DEF NoLostUpdate, Inside
  <2>8. BalanceInRange'
    BY <1>0, <2>1 DEF BalanceInRange
  <2> QED
    BY <1>0, <2>4, <2>6, <2>7, <2>8
<1> QED
  BY <1>1, <1>2, <1>3, <1>4 DEF Kid

(* One step of the master.                                                 *)
LEMMA MasterStepKeeps ==
  ASSUME Inv, MasterStep
  PROVE  Inv'
<1>0. TypeOK /\ StoreFits /\ UNCHANGED bank /\ UNCHANGED pending
  BY DEF Inv, MasterStep, bank
<1>1. ASSUME Retreat, pc' \in [Kids -> KidSteps], idx' \in 0 .. total_children,
             linked' \in BOOLEAN, mpc' \in MasterSteps, StoreFits'
      PROVE  Inv'
  <2>1. TypeOK'
    BY <1>0, <1>1 DEF TypeOK, bank
  <2> QED
    BY <1>0, <1>1, <2>1, RetreatKeeps DEF Inv
<1>2. ASSUME Calloc \/ CallocFails \/ ForkFails \/ MasterUnlink
      PROVE  Inv'
  BY <1>0, <1>1, <1>2
  DEF Calloc, CallocFails, ForkFails, MasterUnlink, TypeOK, MasterSteps,
      Retreat, StoreFits
<1>3. CASE Fork
  <2>1. CASE idx < total_children
    <3>1. /\ pc' = [pc EXCEPT ![idx + 1] = "sleep"]
          /\ mpc' = "store" /\ UNCHANGED <<idx, linked>>
      BY <1>3, <2>1 DEF Fork, Go
    <3>2. Retreat /\ pc' \in [Kids -> KidSteps]
      BY <1>0, <3>1 DEF TypeOK, Retreat, KidSteps
    <3>3. StoreFits' /\ mpc' \in MasterSteps
      BY <2>1, <3>1 DEF StoreFits, MasterSteps
    <3> QED
      BY <1>0, <1>1, <3>1, <3>2, <3>3 DEF TypeOK
  <2>2. CASE ~(idx < total_children)
    BY <1>0, <1>1, <1>3, <2>2 DEF Fork, TypeOK, MasterSteps, Retreat, StoreFits
  <2> QED
    BY <2>1, <2>2
<1>4. CASE Store
  <2>1. idx + 1 \in 0 .. total_children
    BY <1>0, <1>4, KidsAreNumbers DEF Store, StoreFits, TypeOK
  <2> QED
    BY <1>0, <1>1, <1>4, <2>1 DEF Store, TypeOK, MasterSteps, Retreat, StoreFits
<1>5. CASE MasterKill
  <2>1. pc' = Killed(idx) /\ mpc' = "unlink" /\ UNCHANGED <<idx, linked>>
    BY <1>5 DEF MasterKill
  <2>2. Retreat /\ pc' \in [Kids -> KidSteps]
    BY <1>0, <2>1 DEF Killed, Retreat, TypeOK, KidSteps
  <2> QED
    BY <1>0, <1>1, <2>1, <2>2 DEF TypeOK, MasterSteps, StoreFits
<1> QED
  BY <1>2, <1>3, <1>4, <1>5 DEF MasterStep

(* SIGINT and the handlers only send children out.                         *)
LEMMA SignalsKeep ==
  ASSUME Inv,
         \/ Sigint
         \/ MasterHandler
         \/ \E k \in Kids : KidHandler(k)
         \/ \E k \in Kids : KidUnlink(k)
  PROVE  Inv'
<1>0. TypeOK /\ StoreFits
  BY DEF Inv
<1>1. ASSUME Retreat, TypeOK', UNCHANGED bank, StoreFits'
      PROVE  Inv'
  BY <1>1, RetreatKeeps DEF Inv
<1>2. CASE Sigint \/ MasterHandler
  BY <1>0, <1>1, <1>2
  DEF Sigint, Reached, MasterHandler, TypeOK, MasterSteps, Retreat, bank,
      StoreFits
<1>3. ASSUME NEW k \in Kids, KidHandler(k)
      PROVE  Inv'
  <2>1. /\ pending' = pending \ {k}
        /\ pc' = [Killed(k - 1) EXCEPT ![k] = "unlink"]
        /\ UNCHANGED <<bank, linked, mpc, idx>>
    BY <1>3 DEF KidHandler
  <2>2. Retreat /\ pc' \in [Kids -> KidSteps]
    BY <1>0, <2>1 DEF Killed, Retreat, TypeOK, KidSteps
  <2>3. TypeOK'
    BY <1>0, <2>1, <2>2 DEF TypeOK, bank
  <2> QED
    BY <1>0, <1>1, <2>1, <2>2, <2>3 DEF StoreFits
<1>4. ASSUME NEW k \in Kids, KidUnlink(k)
      PROVE  Inv'
  <2>1. /\ linked' = FALSE
        /\ pc' = [pc EXCEPT ![k] = "dead"]
        /\ UNCHANGED <<bank, mpc, idx, pending>>
    BY <1>4 DEF KidUnlink, Go
  <2>2. Retreat /\ pc' \in [Kids -> KidSteps]
    BY <1>0, <2>1 DEF Retreat, TypeOK, KidSteps
  <2>3. TypeOK'
    BY <1>0, <2>1, <2>2 DEF TypeOK, bank
  <2> QED
    BY <1>0, <1>1, <2>1, <2>2, <2>3 DEF StoreFits
<1> QED
  BY <1>2, <1>3, <1>4

(* The invariant is inductive.                                             *)
THEOREM InvHolds == Spec => []Inv
<1>1. Init => Inv
  <2>1. ASSUME Init PROVE Inside = {}
    BY <2>1 DEF Init, Inside
  <2> QED
    BY <2>1, KidsAreNumbers
    DEF Init, Inv, TypeOK, MutualExclusion, NoLostUpdate, BalanceInRange,
        StoreFits, KidSteps, MasterSteps
<1>2. Inv /\ [Next]_vars => Inv'
  <2> SUFFICES ASSUME Inv, [Next]_vars
               PROVE  Inv'
    OBVIOUS
  <2>1. CASE \E k \in Kids : Kid(k)
    BY <2>1, KidStep
  <2>2. CASE MasterStep
    BY <2>2, MasterStepKeeps
  <2>3. CASE \/ Sigint
             \/ MasterHandler
             \/ \E k \in Kids : KidHandler(k)
             \/ \E k \in Kids : KidUnlink(k)
    BY <2>3, SignalsKeep
  <2>4. CASE UNCHANGED vars
    BY <2>4
    DEF vars, Inv, TypeOK, MutualExclusion, NoLostUpdate, BalanceInRange,
        StoreFits, Inside
  <2> QED
    BY <2>1, <2>2, <2>3, <2>4 DEF Next, Ended
<1> QED
  BY <1>1, <1>2, PTL DEF Spec

(* Every variable keeps its type: no balance is negative.                  *)
THEOREM TypeCorrect == Spec => []TypeOK
<1>1. Inv => TypeOK
  BY DEF Inv
<1> QED
  BY <1>1, InvHolds, PTL

(* The semaphore excludes, for any number of children and whatever SIGINT  *)
(* interrupts.                                                             *)
THEOREM ExclusionHolds == Spec => []MutualExclusion
<1>1. Inv => MutualExclusion
  BY DEF Inv
<1> QED
  BY <1>1, InvHolds, PTL

(* No child overwrites an update of another.                               *)
THEOREM NoUpdateIsLost == Spec => []NoLostUpdate
<1>1. Inv => NoLostUpdate
  BY DEF Inv
<1> QED
  BY <1>1, InvHolds, PTL

(* The balance stays in 0 .. 224 for any amounts the code can draw.        *)
THEOREM BalanceStaysInRange == Spec => []BalanceInRange
<1>1. Inv => BalanceInRange
  BY DEF Inv
<1> QED
  BY <1>1, InvHolds, PTL

(* No step revives a child, and the master stores none once it has killed  *)
(* those it had stored.                                                    *)
LEMMA StoredStayDead ==
  ASSUME TypeOK, NoStoredChildSurvives, [Next]_vars
  PROVE  NoStoredChildSurvives'
<1>0. 1 .. idx \subseteq Kids
  BY KidsAreNumbers DEF TypeOK, Kids
<1>1. ASSUME NEW k \in Kids, Kid(k)
      PROVE  NoStoredChildSurvives'
  <2>1. /\ Alive(k)
        /\ \A j \in Kids : j # k => pc'[j] = pc[j]
        /\ UNCHANGED <<mpc, idx>>
    BY <1>1 DEF Kid, SemWait, Read, Update, SemPost, Go, Alive, TypeOK
  <2> QED
    BY <1>0, <2>1 DEF NoStoredChildSurvives, Alive
<1>2. CASE MasterStep
  <2>1. CASE MasterKill
    <3>1. pc' = Killed(idx) /\ idx' = idx
      BY <2>1 DEF MasterKill
    <3>2. \A k \in 1 .. idx : pc'[k] \in {"unborn", "dead"}
      BY <1>0, <3>1 DEF Killed, KillSet
    <3> QED
      BY <3>1, <3>2 DEF NoStoredChildSurvives, Alive
  <2>2. CASE Calloc \/ CallocFails \/ Fork \/ ForkFails \/ Store
    BY <2>2 DEF Calloc, CallocFails, Fork, ForkFails, Store, NoStoredChildSurvives
  <2>3. CASE MasterUnlink
    BY <2>3 DEF MasterUnlink, NoStoredChildSurvives, Alive
  <2> QED
    BY <1>2, <2>1, <2>2, <2>3 DEF MasterStep
<1>3. CASE Sigint \/ MasterHandler
  BY <1>3 DEF Sigint, MasterHandler, NoStoredChildSurvives, Alive
<1>4. ASSUME NEW k \in Kids, KidHandler(k)
      PROVE  NoStoredChildSurvives'
  <2>1. /\ Alive(k)
        /\ pc' = [Killed(k - 1) EXCEPT ![k] = "unlink"]
        /\ UNCHANGED <<mpc, idx>>
    BY <1>4 DEF KidHandler
  <2>2. \A j \in Kids : j # k => pc'[j] \in {pc[j], "dead"}
    BY <2>1 DEF Killed
  <2> QED
    BY <1>0, <2>1, <2>2 DEF NoStoredChildSurvives, Alive
<1>5. ASSUME NEW k \in Kids, KidUnlink(k)
      PROVE  NoStoredChildSurvives'
  <2>1. /\ \A j \in Kids : pc'[j] \in {pc[j], "dead"}
        /\ UNCHANGED <<mpc, idx>>
    BY <1>5 DEF KidUnlink, Go, TypeOK
  <2> QED
    BY <1>0, <2>1 DEF NoStoredChildSurvives, Alive
<1>6. CASE UNCHANGED vars
  BY <1>6 DEF vars, NoStoredChildSurvives, Alive
<1> QED
  BY <1>1, <1>2, <1>3, <1>4, <1>5, <1>6 DEF Next, Ended

(* "kill all children": once the master has killed, no child whose pid it  *)
(* had stored is alive, for any number of children and any signals.        *)
THEOREM StoredChildrenDie == Spec => []NoStoredChildSurvives
<1>1. Init => NoStoredChildSurvives
  BY DEF Init, NoStoredChildSurvives
<1> QED
  BY <1>1, TypeCorrect, StoredStayDead, PTL DEF Spec

-----------------------------------------------------------------------------
(* Strict alternation: the account, the steps and what is needed have the  *)
(* same names in both programs                                             *)

CONSTANTS Rounds, Deposits

VARIABLES Turn, account, i

Turns == INSTANCE StrictAlternation

\* A process is in its loop only while it has rounds to do, and before the
\* fork nothing has happened.
InLoop ==
  /\ \A p \in Turns!Procs :
       pc[p] \in {"read", "spin", "compute", "write", "pass"} => i[p] < Rounds
  /\ \A p \in Turns!Procs : pc[p] = "unborn" =>
       /\ \A q \in Turns!Procs : pc[q] = "unborn"
       /\ i[Turns!Parent] = 0 /\ i[Turns!Child] = 0 /\ Turn = 0

TurnsInv ==
  /\ Turns!TypeOK
  /\ InLoop
  /\ Turns!MutualExclusion
  /\ Turns!RoundsAlternate
  /\ Turns!BalanceInRange

\* What a process computes with its copy stays in range.
LEMMA ComputesInRange ==
  ASSUME Turns!StrictAlternationAssumption, NEW p \in Turns!Procs,
         account[p] \in 0 .. 198, Turns!Compute(p)
  PROVE  \E a \in 0 .. 198 : account' = [account EXCEPT ![p] = a]
<1>1. PICK a \in Nat : account[p] = a /\ a <= 198
  OBVIOUS
<1>2. CASE p = Turns!Parent
  <2>1. PICK amount \in Deposits :
          account' = [account EXCEPT ![p] = Turns!Deposit(a, amount)]
    BY <1>1, <1>2 DEF Turns!Compute, Turns!Parent, Turns!Child, Turns!Deposit
  <2>2. amount \in Nat /\ amount <= 99
    BY DEF Turns!StrictAlternationAssumption
  <2>3. amount % 2 = 0 => amount <= 98
    BY <2>2
  <2>4. PICK b \in Nat : b = Turns!Deposit(a, amount) /\ b <= 198
    BY <1>1, <2>2, <2>3 DEF Turns!Deposit
  <2>5. b \in 0 .. 198
    BY <2>4
  <2> QED
    BY <2>1, <2>4, <2>5
<1>3. CASE p = Turns!Child
  <2>1. PICK need \in Needs :
          account' = [account EXCEPT ![p] = Turns!Withdraw(a, need)]
    BY <1>1, <1>3 DEF Turns!Compute, Turns!Parent, Turns!Child, Turns!Withdraw
  <2>2. need \in Nat
    BY DEF Turns!StrictAlternationAssumption
  <2>3. PICK b \in Nat : b = Turns!Withdraw(a, need) /\ b <= 198
    BY <1>1, <2>2 DEF Turns!Withdraw
  <2>4. b \in 0 .. 198
    BY <2>3
  <2> QED
    BY <2>1, <2>3, <2>4
<1> QED
  BY <1>2, <1>3 DEF Turns!Procs

LEMMA TurnsInitInv ==
  ASSUME Turns!StrictAlternationAssumption, Turns!Init
  PROVE  TurnsInv
  BY DEF Turns!StrictAlternationAssumption, Turns!Init, TurnsInv,
         Turns!TypeOK, InLoop, Turns!MutualExclusion, Turns!RoundsAlternate,
         Turns!BalanceInRange, Turns!InTurn, Turns!Procs, Turns!Parent,
         Turns!Child, Turns!Steps

LEMMA TurnsNextInv ==
  ASSUME Turns!StrictAlternationAssumption, TurnsInv, [Turns!Next]_(Turns!vars)
  PROVE  TurnsInv'
<1>0. Rounds \in Nat
  BY DEF Turns!StrictAlternationAssumption
<1> USE <1>0 DEF TurnsInv, Turns!Procs, Turns!Parent, Turns!Child, Turns!At,
                 Turns!Go
<1>1. CASE Turns!Fork \/ Turns!ForkFails
  <2>1. /\ pc' \in [Turns!Procs -> {"read", "wait", "done"}]
        /\ \A p \in Turns!Procs : pc'[p] = "read" => Rounds > 0
        /\ UNCHANGED <<BankAccount, Turn, account, i>>
        /\ i[0] = 0 /\ i[1] = 0
    BY <1>1 DEF Turns!Fork, Turns!ForkFails, Turns!LoopOr, InLoop,
           Turns!TypeOK
  <2> QED
    BY <2>1 DEF Turns!TypeOK, InLoop, Turns!MutualExclusion,
           Turns!RoundsAlternate, Turns!BalanceInRange, Turns!InTurn,
           Turns!Steps
<1>2. ASSUME NEW p \in Turns!Procs, Turns!Read(p)
      PROVE  TurnsInv'
  BY <1>2 DEF Turns!Read, Turns!TypeOK, InLoop, Turns!MutualExclusion,
         Turns!RoundsAlternate, Turns!BalanceInRange, Turns!InTurn,
         Turns!Steps
<1>3. ASSUME NEW p \in Turns!Procs, Turns!Spin(p)
      PROVE  TurnsInv'
  BY <1>3 DEF Turns!Spin, Turns!MyTurn, Turns!TypeOK, InLoop,
         Turns!MutualExclusion, Turns!RoundsAlternate, Turns!BalanceInRange,
         Turns!InTurn, Turns!Steps
<1>4. ASSUME NEW p \in Turns!Procs, Turns!Compute(p)
      PROVE  TurnsInv'
  <2>1. account[p] \in 0 .. 198
    BY DEF Turns!BalanceInRange
  <2>2. PICK a \in 0 .. 198 : account' = [account EXCEPT ![p] = a]
    BY <1>4, <2>1, ComputesInRange, Zenon
  <2>3. /\ pc[p] = "compute" /\ pc' = [pc EXCEPT ![p] = "write"]
        /\ UNCHANGED <<BankAccount, Turn, i>>
    BY <1>4 DEF Turns!Compute
  <2> QED
    BY <2>2, <2>3 DEF Turns!TypeOK, InLoop, Turns!MutualExclusion,
           Turns!RoundsAlternate, Turns!BalanceInRange, Turns!InTurn,
           Turns!Steps
<1>5. ASSUME NEW p \in Turns!Procs, Turns!Write(p)
      PROVE  TurnsInv'
  BY <1>5 DEF Turns!Write, Turns!TypeOK, InLoop, Turns!MutualExclusion,
         Turns!RoundsAlternate, Turns!BalanceInRange, Turns!InTurn,
         Turns!Steps
<1>6. ASSUME NEW p \in Turns!Procs, Turns!Pass(p)
      PROVE  TurnsInv'
  <2>1. /\ pc[p] = "pass" /\ Turn = p /\ Turn' = 1 - p
        /\ i[p] < Rounds
        /\ i' = [i EXCEPT ![p] = @ + 1]
        /\ pc' = [pc EXCEPT ![p] = Turns!LoopOr(p, i'[p])]
        /\ UNCHANGED <<BankAccount, account>>
    BY <1>6 DEF Turns!Pass, Turns!Other, InLoop, Turns!MutualExclusion,
           Turns!InTurn
  <2>2. i[0] \in 0 .. Rounds /\ i[1] \in 0 .. Rounds
    BY DEF Turns!TypeOK
  <2>3. \A q \in Turns!Procs : i'[q] = IF q = p THEN i[q] + 1 ELSE i[q]
    BY <2>1 DEF Turns!TypeOK
  <2>4. Turns!TypeOK'
    BY <2>1, <2>2, <2>3 DEF Turns!TypeOK, Turns!LoopOr, Turns!Steps
  <2>5. InLoop'
    BY <2>1, <2>2, <2>3 DEF InLoop, Turns!TypeOK, Turns!LoopOr
  <2>6. Turns!MutualExclusion'
    BY <2>1 DEF Turns!MutualExclusion, Turns!InTurn, Turns!TypeOK,
           Turns!LoopOr
  <2>7. Turns!RoundsAlternate'
    BY <2>1, <2>2, <2>3 DEF Turns!RoundsAlternate
  <2>8. Turns!BalanceInRange'
    BY <2>1 DEF Turns!BalanceInRange
  <2> QED
    BY <2>4, <2>5, <2>6, <2>7, <2>8
<1>7. CASE Turns!Wait
  BY <1>7 DEF Turns!Wait, Turns!TypeOK, InLoop, Turns!MutualExclusion,
         Turns!RoundsAlternate, Turns!BalanceInRange, Turns!InTurn,
         Turns!Steps
<1>8. CASE Turns!Ended \/ UNCHANGED Turns!vars
  BY <1>8 DEF Turns!Ended, Turns!vars, Turns!TypeOK, InLoop,
         Turns!MutualExclusion, Turns!RoundsAlternate, Turns!BalanceInRange,
         Turns!InTurn
<1> QED
  BY <1>1, <1>2, <1>3, <1>4, <1>5, <1>6, <1>7, <1>8 DEF Turns!Next,
         Turns!Process

(* The inductive invariant of the two processes.                           *)
THEOREM TurnsInvHolds ==
  ASSUME Turns!StrictAlternationAssumption
  PROVE  Turns!Spec => []TurnsInv
<1>1. Turns!Init => TurnsInv
  BY TurnsInitInv
<1>2. TurnsInv /\ [Turns!Next]_(Turns!vars) => TurnsInv'
  BY TurnsNextInv
<1> QED
  BY <1>1, <1>2, PTL DEF Turns!Spec

(* Every variable keeps its type: the counters stay within the rounds.     *)
THEOREM TurnsTypeCorrect ==
  ASSUME Turns!StrictAlternationAssumption
  PROVE  Turns!Spec => []Turns!TypeOK
<1>1. TurnsInv => Turns!TypeOK
  BY DEF TurnsInv
<1> QED
  BY <1>1, TurnsInvHolds, PTL

(* The two processes are never between spin and hand-over together.        *)
THEOREM TurnsExclude ==
  ASSUME Turns!StrictAlternationAssumption
  PROVE  Turns!Spec => []Turns!MutualExclusion
<1>1. TurnsInv => Turns!MutualExclusion
  BY DEF TurnsInv
<1> QED
  BY <1>1, TurnsInvHolds, PTL

(* The account is written in the writer's turn and the rounds alternate,   *)
(* whatever their number.                                                  *)
THEOREM TurnsAlternate ==
  ASSUME Turns!StrictAlternationAssumption
  PROVE  Turns!Spec => []Turns!StrictlyAlternates
<1>1. TurnsInv => Turns!StrictlyAlternates
  BY DEF TurnsInv, Turns!StrictlyAlternates
<1> QED
  BY <1>1, TurnsInvHolds, PTL

(* The balance stays between 0 and 198.                                    *)
THEOREM TurnsBalanceInRange ==
  ASSUME Turns!StrictAlternationAssumption
  PROVE  Turns!Spec => []Turns!BalanceInRange
<1>1. TurnsInv => Turns!BalanceInRange
  BY DEF TurnsInv
<1> QED
  BY <1>1, TurnsInvHolds, PTL
=============================================================================
