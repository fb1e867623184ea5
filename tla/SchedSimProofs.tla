---------------------------- MODULE SchedSimProofs ----------------------------
(***************************************************************************)
(* What TLAPS proves of the scheduling simulator, for any number of        *)
(* processes, bursts and arrivals and any quantum: each simulation is a    *)
(* schedule of one processor, the waiting time computed for a process is   *)
(* the time it waited, round robin keeps nobody waiting too long, and the  *)
(* processes wait least in total when the shortest runs first.             *)
(***************************************************************************)
EXTENDS SchedSim, SequenceTheorems, FiniteSetTheorems, WellFoundedInduction,
        TLAPS

Algs == {"FCFS", "SJF", "Priority", "RR"}

\* Every process is in the array once.
Permutes(l) ==
  /\ l \in [Procs -> Procs]
  /\ \A j, k \in Procs : l[j] = l[k] => j = k

TypeOK ==
  /\ file \in [Procs -> [bt : Bursts, art : Arrivals, pri : Priorities]]
  /\ todo \in Seq(Algs)
  /\ step \in {"read", "loop", "metrics"}
  /\ step # "read" => todo # << >> /\ Permutes(plist)
  /\ wt \in [Procs -> Int]
  /\ t \in Nat
  /\ i \in 1 .. N + 1
  /\ rem_bt \in [Procs -> Nat]
  /\ complete \in Nat
  /\ done \in BOOLEAN
  /\ ran \in [Procs -> SUBSET Nat]

\* Nobody has run before its arrival, beside another, or in the future.
Scheduled ==
  \A p \in Procs :
    /\ ran[p] \subseteq art(p) .. t - 1
    /\ \A q \in Procs \ {p} : ran[p] \cap ran[q] = {}

\* e is the last unit of time in which p ran.
EndsAt(p, e) == e \in ran[p] /\ \A u \in ran[p] : u <= e

\* p has run for its burst, and its waiting time was computed at its end.
Finished(p) ==
  /\ Cardinality(ran[p]) = bt(p)
  /\ \E e \in Nat : EndsAt(p, e) /\ wt[p] = WaitAt(p, e + 1)

\* First come first served and Priority run the array from front to back.
InTurn ==
  \A p \in Procs :
    /\ (\E j \in 1 .. i - 1 : plist[j] = p) => Finished(p)
    /\ (\A j \in 1 .. i - 1 : plist[j] # p) => ran[p] = {}

\* The others take what a process has run from what remains of its burst.
InParts ==
  \A p \in Procs :
    /\ rem_bt[p] + Cardinality(ran[p]) = bt(p)
    /\ rem_bt[p] = 0 => Finished(p)

Completed == {p \in Procs : rem_bt[p] = 0}

Inv ==
  /\ TypeOK
  /\ step # "read" => Scheduled
  /\ step # "read" /\ alg \in {"FCFS", "Priority"} => InTurn
  /\ step # "read" /\ alg \in {"SJF", "RR"} => InParts
  /\ step # "read" /\ alg = "SJF" => complete = Cardinality(Completed)
  /\ step = "metrics" => \A p \in Procs : Finished(p)

-----------------------------------------------------------------------------
(* Numbers and finite sets                                                 *)

(* Every non-empty set of natural numbers has a least element.             *)
LEMMA LeastNat ==
  ASSUME NEW T \in SUBSET Nat, T # {}
  PROVE  \E x \in T : \A y \in T : x <= y
<1>1. IsWellFoundedOn(OpToRel(<, Nat), Nat)
  BY NatLessThanWellFounded
<1>2. PICK x \in T : \A y \in T : ~ (<<y, x>> \in OpToRel(<, Nat))
  BY <1>1, WFMin
<1>3. \A y \in T : ~ (y < x)
  BY <1>2 DEF OpToRel
<1> QED
  BY <1>3

LEMMA ProcsAreFinite == IsFiniteSet(Procs) /\ Cardinality(Procs) = N
BY FS_Interval, SchedAssumption DEF Procs

LEMMA FileTypes ==
  ASSUME TypeOK, NEW p \in Procs
  PROVE  bt(p) \in Nat \ {0} /\ art(p) \in Nat
BY SchedAssumption DEF TypeOK, bt, art

(* An array of all processes has every process in it.                      *)
LEMMA PermutesOnto ==
  ASSUME NEW l, Permutes(l), NEW p \in Procs
  PROVE  \E j \in Procs : l[j] = p
<1>1. l \in Injection(Procs, Procs)
  BY DEF Permutes, Injection, IsInjective
<1>2. l \in Surjection(Procs, Procs)
  BY <1>1, ProcsAreFinite, FS_Injection
<1> QED
  BY <1>2 DEF Surjection

(* What ran is finite.                                                     *)
LEMMA RanIsFinite ==
  ASSUME TypeOK, Scheduled, NEW p \in Procs
  PROVE  IsFiniteSet(ran[p]) /\ Cardinality(ran[p]) \in Nat
<1>1. IsFiniteSet(art(p) .. t - 1)
  <2>1. art(p) \in Int /\ t - 1 \in Int
    BY FileTypes DEF TypeOK
  <2> QED
    BY <2>1, FS_Interval
<1> QED
  BY <1>1, FS_Subset, FS_CardinalityType DEF Scheduled

-----------------------------------------------------------------------------
(* One slice of the processor                                              *)

(* A slice from now or later extends the schedule and adds its length.     *)
LEMMA SliceRuns ==
  ASSUME TypeOK, Scheduled, NEW p \in Procs, NEW s \in Nat, NEW e \in Nat,
         t <= s, s < e, art(p) <= s,
         Runs(p, s, e), t' = e, file' = file
  PROVE  /\ Scheduled'
         /\ ran' \in [Procs -> SUBSET Nat]
         /\ \A q \in Procs \ {p} : ran'[q] = ran[q]
         /\ Cardinality(ran'[p]) = Cardinality(ran[p]) + e - s
         /\ EndsAt(p, e - 1)'
         /\ ran'[p] = ran[p] \cup s .. e - 1
<1>1. /\ ran' \in [Procs -> SUBSET Nat]
      /\ \A q \in Procs \ {p} : ran'[q] = ran[q]
      /\ ran'[p] = ran[p] \cup s .. e - 1
  <2>1. s .. e - 1 \subseteq Nat
    OBVIOUS
  <2> QED
    BY <2>1 DEF Runs, TypeOK
<1>2. \A q \in Procs : \A u \in ran[q] : u \in Nat /\ art(q) <= u /\ u < t
  BY FileTypes DEF Scheduled, TypeOK
<1>3. \A q \in Procs : art(q)' = art(q) /\ art(q) \in Nat
  BY FileTypes DEF art
<1>4. Scheduled'
  <2>1. ASSUME NEW q \in Procs
        PROVE  ran'[q] \subseteq art(q) .. t' - 1
    <3>1. CASE q = p
      BY <1>1, <1>2, <1>3, <3>1 DEF TypeOK
    <3>2. CASE q # p
      BY <1>1, <1>2, <1>3, <3>2 DEF TypeOK
    <3> QED
      BY <3>1, <3>2
  <2>2. \A q \in Procs : ran[q] \cap (s .. e - 1) = {}
    BY <1>2 DEF TypeOK
  <2>3. \A q \in Procs : \A r \in Procs \ {q} : ran'[q] \cap ran'[r] = {}
    BY <1>1, <2>2 DEF Scheduled
  <2> QED
    BY <1>3, <2>1, <2>3 DEF Scheduled
<1>5. Cardinality(ran'[p]) = Cardinality(ran[p]) + e - s
  <2>1. IsFiniteSet(s .. e - 1) /\ Cardinality(s .. e - 1) = e - s
    <3>1. s \in Int /\ e - 1 \in Int /\ ~(s > e - 1)
      OBVIOUS
    <3>2. /\ IsFiniteSet(s .. e - 1)
          /\ Cardinality(s .. e - 1) = (e - 1) - s + 1
      BY <3>1, FS_Interval
    <3> QED
      BY <3>2
  <2>2. ran[p] \cap (s .. e - 1) = {}
    BY <1>2 DEF TypeOK
  <2>3. Cardinality(ran[p] \cap (s .. e - 1)) = 0
    BY <2>2, FS_EmptySet
  <2>4. IsFiniteSet(ran[p]) /\ Cardinality(ran[p]) \in Nat
    BY RanIsFinite
  <2>5. Cardinality(ran[p] \cup s .. e - 1)
          = Cardinality(ran[p]) + (e - s) - 0
    <3>1. Cardinality(ran[p] \cup s .. e - 1)
            = Cardinality(ran[p]) + Cardinality(s .. e - 1)
                - Cardinality(ran[p] \cap (s .. e - 1))
      BY <2>1, <2>4, FS_Union
    <3> QED
      BY <2>1, <2>3, <3>1
  <2> QED
    BY <1>1, <2>4, <2>5
<1>6. EndsAt(p, e - 1)'
  BY <1>1, <1>2 DEF EndsAt, TypeOK
<1> QED
  BY <1>1, <1>4, <1>5, <1>6

(* Time goes by.                                                           *)
LEMMA IdleRuns ==
  ASSUME TypeOK, Scheduled, NEW e \in Nat, t <= e, t' = e,
         ran' = ran, file' = file
  PROVE  Scheduled'
<1>1. \A q \in Procs : art(q)' = art(q) /\ art(q) \in Nat
  BY FileTypes DEF art
<1>2. \A q \in Procs : art(q) .. t - 1 \subseteq art(q) .. e - 1
  BY <1>1 DEF TypeOK
<1> QED
  BY <1>1, <1>2 DEF Scheduled

(* A process that has run for its burst is finished once its waiting time  *)
(* is computed at the end of its last unit.                                *)
LEMMA FinishesAt ==
  ASSUME NEW p \in Procs, NEW e \in Nat, EndsAt(p, e)',
         Cardinality(ran'[p]) = bt(p)',
         wt'[p] = (e + 1) - bt(p)' - art(p)'
  PROVE  Finished(p)'
BY DEF Finished, EndsAt, WaitAt, bt, art

(* Whoever the step leaves alone stays finished.                           *)
LEMMA FinishedStays ==
  ASSUME NEW p \in Procs, ran'[p] = ran[p], wt'[p] = wt[p], file' = file
  PROVE  Finished(p)' <=> Finished(p)
BY DEF Finished, EndsAt, WaitAt, bt, art

-----------------------------------------------------------------------------
(* One lemma per action                                                    *)

LEMMA InitInv == Init => Inv
<1> SUFFICES ASSUME Init PROVE Inv
  OBVIOUS
<1> USE SchedAssumption DEF Init
<1>1. todo \in Seq(Algs)
  BY DEF Algorithms, Algs
<1>2. TypeOK
  BY <1>1 DEF TypeOK
<1> QED
  BY <1>2 DEF Inv

LEMMA ReadKeepsInv ==
  ASSUME Inv, initProc
  PROVE  Inv'
<1> USE DEF Inv
<1>1. /\ step' = "loop" /\ todo # << >> /\ t' = 0 /\ i' = 1 /\ complete' = 0
      /\ ran' = [p \in Procs |-> {}]
      /\ rem_bt' = [p \in Procs |-> bt(p)]
      /\ wt' = [p \in Procs |-> 0]
      /\ done' = TRUE
      /\ UNCHANGED <<file, todo>>
  BY DEF initProc
<1>2. Permutes(plist')
  <2>1. CASE alg = "Priority"
    <3>1. /\ plist' \in [Procs -> Procs]
          /\ \A j, k \in DOMAIN plist' : j < k => plist'[j] # plist'[k]
      BY <2>1 DEF initProc, Sorted
    <3>2. \A j, k \in Procs : j # k => j < k \/ k < j
      BY DEF Procs
    <3> QED
      BY <3>1, <3>2 DEF Permutes
  <2>2. CASE alg # "Priority"
    BY <2>2 DEF initProc, Permutes
  <2> QED
    BY <2>1, <2>2
<1>3. \A p \in Procs : bt(p) \in Nat \ {0} /\ bt(p)' = bt(p)
  BY <1>1, FileTypes DEF bt
<1>4. TypeOK'
  <2>1. 1 \in 1 .. N + 1
    BY SchedAssumption
  <2> QED
    BY <1>1, <1>2, <1>3, <2>1 DEF TypeOK
<1>5. Scheduled'
  BY <1>1 DEF Scheduled
<1>6. InTurn'
  BY <1>1 DEF InTurn
<1>7. InParts'
  BY <1>1, <1>3, FS_EmptySet DEF InParts
<1>8. complete' = Cardinality(Completed')
  <2>1. Completed' = {}
    BY <1>1, <1>3 DEF Completed
  <2> QED
    BY <1>1, <2>1, FS_EmptySet
<1> QED
  BY <1>1, <1>4, <1>5, <1>6, <1>7, <1>8

(* A turn of the loop of FCFS and Priority runs the next process to its    *)
(* end.                                                                    *)
LEMMA TurnKeepsInv ==
  ASSUME Inv, findWaitingTime
  PROVE  Inv'
<1> USE DEF Inv
<1>1. /\ step = "loop" /\ alg \in {"FCFS", "Priority"} /\ todo # << >>
      /\ UNCHANGED <<file, todo, plist, rem_bt, complete, done>>
      /\ alg' = alg
  BY DEF findWaitingTime, Loop, alg
<1>2. Scheduled /\ InTurn /\ Permutes(plist)
  BY <1>1 DEF TypeOK
<1>3. CASE i <= N
  <2>1. PICK p \in Procs : p = plist[i]
    BY <1>2, <1>3 DEF TypeOK, Permutes, Procs
  <2>2. bt(p) \in Nat \ {0} /\ art(p) \in Nat
    BY <2>1, FileTypes
  <2>3. PICK s \in Nat : s = Start(p)
    BY <2>2 DEF Start, TypeOK
  <2>4. PICK e \in Nat : e = s + bt(p)
    BY <2>2
  <2>5. t <= s /\ s < e /\ art(p) <= s
    BY <2>2, <2>3, <2>4 DEF Start, TypeOK
  <2>6. /\ wt' = [wt EXCEPT ![p] = s - art(p)]
        /\ t' = e
        /\ Runs(p, s, e)
        /\ i' = i + 1
        /\ step' = step
    BY <1>3, <2>1, <2>3, <2>4 DEF findWaitingTime
  <2>7. /\ Scheduled'
        /\ ran' \in [Procs -> SUBSET Nat]
        /\ \A q \in Procs \ {p} : ran'[q] = ran[q]
        /\ Cardinality(ran'[p]) = Cardinality(ran[p]) + e - s
        /\ EndsAt(p, e - 1)'
    BY <1>1, <1>2, <2>5, <2>6, SliceRuns
  <2>8. \A j \in 1 .. i - 1 : plist[j] # p
    <3>1. \A j \in 1 .. i - 1 : j \in Procs /\ j # i
      BY <1>3, SchedAssumption DEF TypeOK, Procs
    <3>2. i \in Procs
      BY <1>3 DEF TypeOK, Procs
    <3> QED
      BY <1>2, <2>1, <3>1, <3>2 DEF Permutes
  <2>9. Finished(p)'
    <3>1. ran[p] = {}
      BY <1>2, <2>8 DEF InTurn
    <3>2. Cardinality(ran'[p]) = bt(p)
      BY <2>2, <2>4, <2>7, <3>1, FS_EmptySet
    <3>3. wt'[p] = s - art(p)
      BY <2>6 DEF TypeOK
    <3>4. ((e - 1) + 1) - bt(p) - art(p) = s - art(p) /\ e - 1 \in Nat
      BY <2>2, <2>4
    <3>5. bt(p)' = bt(p) /\ art(p)' = art(p)
      BY <1>1 DEF bt, art
    <3> QED
      BY <2>7, <3>2, <3>3, <3>4, <3>5, FinishesAt
  <2>10. ASSUME NEW q \in Procs \ {p}
         PROVE  Finished(q)' <=> Finished(q)
    BY <1>1, <2>6, <2>7, FinishedStays DEF TypeOK
  <2>11. InTurn'
    <3>1. ASSUME NEW q \in Procs, NEW j \in 1 .. i' - 1, plist[j] = q
          PROVE  Finished(q)'
      <4>1. CASE j = i
        BY <2>1, <2>9, <3>1, <4>1
      <4>2. CASE j # i
        <5>1. j \in 1 .. i - 1
          BY <2>6, <4>2 DEF TypeOK
        <5> QED
          BY <1>2, <2>8, <2>10, <3>1, <5>1 DEF InTurn
      <4> QED
        BY <4>1, <4>2
    <3>2. ASSUME NEW q \in Procs, \A j \in 1 .. i' - 1 : plist[j] # q
          PROVE  ran'[q] = {}
      <4>1. q # p /\ \A j \in 1 .. i - 1 : plist[j] # q
        BY <2>1, <2>6, <3>2 DEF TypeOK
      <4> QED
        BY <1>2, <2>7, <4>1 DEF InTurn
    <3> QED
      BY <1>1, <3>1, <3>2 DEF InTurn
  <2>12. TypeOK'
    <3>1. wt' \in [Procs -> Int]
      BY <2>2, <2>6 DEF TypeOK
    <3>2. i' \in 1 .. N + 1
      BY <1>3, <2>6, SchedAssumption DEF TypeOK
    <3> QED
      BY <1>1, <2>6, <2>7, <3>1, <3>2 DEF TypeOK
  <2> QED
    BY <1>1, <2>6, <2>7, <2>11, <2>12
<1>4. CASE ~(i <= N)
  <2>1. step' = "metrics" /\ UNCHANGED <<wt, t, ran, i>>
    BY <1>4 DEF findWaitingTime
  <2>2. i - 1 = N
    BY <1>4, SchedAssumption DEF TypeOK
  <2>3. \A p \in Procs : Finished(p)
    <3>1. ASSUME NEW p \in Procs
          PROVE  \E j \in 1 .. i - 1 : plist[j] = p
      BY <1>2, <2>2, PermutesOnto DEF Procs
    <3> QED
      BY <1>2, <3>1 DEF InTurn
  <2>4. \A p \in Procs : Finished(p)'
    BY <1>1, <2>1, <2>3, FinishedStays
  <2>5. Scheduled'
    BY <1>1, <1>2, <2>1, IdleRuns DEF TypeOK
  <2>6. InTurn'
    BY <1>1, <1>2, <2>1, <2>4 DEF InTurn
  <2> QED
    BY <1>1, <2>1, <2>4, <2>5, <2>6 DEF TypeOK
<1> QED
  BY <1>3, <1>4

(* If anybody is ready, the process SJF chooses is, and has the least left. *)
LEMMA ShortestIsReady ==
  ASSUME TypeOK, \E p \in Procs : Ready(p)
  PROVE  /\ min_index \in Procs /\ Ready(min_index)
         /\ \A q \in Procs : Ready(q) => rem_bt[min_index] <= rem_bt[q]
<1> DEFINE R == {p \in Procs : Ready(p)}
           T == {rem_bt[p] : p \in R}
<1>1. T \in SUBSET Nat /\ T # {}
  BY DEF TypeOK
<1>2. PICK m \in T : \A n \in T : m <= n
  BY <1>1, LeastNat
<1> DEFINE U == {p \in R : rem_bt[p] = m}
<1>3. U \in SUBSET Nat /\ U # {}
  BY <1>2 DEF Procs
<1>4. PICK x \in U : \A y \in U : x <= y
  BY <1>3, LeastNat
<1>5. x \in Procs /\ Ready(x) /\ rem_bt[x] = m /\ m \in Nat
  BY <1>1, <1>2, <1>4
<1>6. ASSUME NEW q \in Procs, Ready(q)
      PROVE  Shorter(x, q) /\ (Shorter(q, x) => x <= q)
  <2>1. m <= rem_bt[q] /\ rem_bt[q] \in Nat
    BY <1>2, <1>6 DEF TypeOK
  <2>2. rem_bt[q] <= m => q \in U
    BY <1>5, <1>6, <2>1
  <2> QED
    BY <1>4, <1>5, <2>1, <2>2 DEF Shorter
<1>7. \E p \in Procs : Ready(p) /\ \A q \in Procs :
        Ready(q) => Shorter(p, q) /\ (Shorter(q, p) => p <= q)
  BY <1>5, <1>6
<1> QED
  BY <1>7 DEF min_index, Shorter

(* A slice of p, the same for SJF and round robin: n units, taken from     *)
(* what remains, and the waiting time at the end.                          *)
LEMMA SliceKeepsParts ==
  ASSUME TypeOK, Scheduled, InParts, NEW p \in Procs, NEW n \in Nat \ {0},
         Ready(p), n <= rem_bt[p],
         rem_bt' = [rem_bt EXCEPT ![p] = rem_bt[p] - n],
         t' = t + n, Runs(p, t, t'), file' = file,
         wt' = IF rem_bt'[p] = 0 THEN [wt EXCEPT ![p] = WaitAt(p, t')] ELSE wt
  PROVE  /\ Scheduled' /\ InParts'
         /\ t' \in Nat
         /\ rem_bt' \in [Procs -> Nat]
         /\ wt' \in [Procs -> Int]
         /\ ran' \in [Procs -> SUBSET Nat]
<1>1. /\ bt(p) \in Nat \ {0} /\ art(p) \in Nat /\ art(p) <= t
      /\ t \in Nat /\ rem_bt[p] \in Nat
  BY FileTypes DEF Ready, TypeOK
<1>2. \A q \in Procs : bt(q)' = bt(q) /\ art(q)' = art(q)
  BY DEF bt, art
<1>3. PICK s \in Nat : s = t
  BY <1>1
<1>4. PICK e \in Nat : e = s + n
  OBVIOUS
<1>5. t <= s /\ s < e /\ art(p) <= s /\ Runs(p, s, e) /\ t' = e
  BY <1>1, <1>3, <1>4
<1>6. /\ Scheduled'
      /\ ran' \in [Procs -> SUBSET Nat]
      /\ \A q \in Procs \ {p} : ran'[q] = ran[q]
      /\ Cardinality(ran'[p]) = Cardinality(ran[p]) + e - s
      /\ EndsAt(p, e - 1)'
  BY <1>5, SliceRuns
<1>7. /\ rem_bt' \in [Procs -> Nat]
      /\ rem_bt'[p] = rem_bt[p] - n
      /\ \A q \in Procs \ {p} : rem_bt'[q] = rem_bt[q]
  BY <1>1 DEF TypeOK
<1>8. wt' \in [Procs -> Int] /\ \A q \in Procs \ {p} : wt'[q] = wt[q]
  <2>1. WaitAt(p, t') \in Int
    BY <1>1, <1>5 DEF WaitAt
  <2> QED
    BY <2>1 DEF TypeOK
<1>9. rem_bt'[p] + Cardinality(ran'[p]) = bt(p)
  <2>1. Cardinality(ran[p]) \in Nat
    BY RanIsFinite
  <2>2. rem_bt[p] + Cardinality(ran[p]) = bt(p)
    BY DEF InParts
  <2> QED
    BY <1>1, <1>4, <1>6, <1>7, <2>1, <2>2
<1>10. ASSUME rem_bt'[p] = 0
       PROVE  Finished(p)'
  <2>1. wt'[p] = e - bt(p) - art(p)
    BY <1>5, <1>10 DEF WaitAt, TypeOK
  <2>2. e - 1 \in Nat /\ (e - 1) + 1 = e
    BY <1>4
  <2>3. Cardinality(ran'[p]) = bt(p)
    <3>1. Cardinality(ran[p]) \in Nat
      BY RanIsFinite
    <3> QED
      BY <1>6, <1>9, <1>10, <3>1, <1>4
  <2> QED
    BY <1>2, <1>6, <2>1, <2>2, <2>3, FinishesAt
<1>11. InParts'
  <2>1. ASSUME NEW q \in Procs \ {p}
        PROVE  /\ rem_bt'[q] + Cardinality(ran'[q]) = bt(q)
               /\ rem_bt'[q] = 0 => Finished(q)'
    BY <1>6, <1>7, <1>8, FinishedStays DEF InParts
  <2> QED
    BY <1>2, <1>9, <1>10, <2>1 DEF InParts
<1> QED
  BY <1>5, <1>6, <1>7, <1>8, <1>11

(* A turn without a slice.                                                 *)
LEMMA NoSliceKeepsParts ==
  ASSUME TypeOK, Scheduled, InParts, t' \in Nat, t <= t',
         UNCHANGED <<file, rem_bt, wt, ran>>
  PROVE  Scheduled' /\ InParts' /\ \A p \in Procs : Finished(p)' <=> Finished(p)
<1>1. Scheduled'
  BY IdleRuns
<1>2. \A p \in Procs : Finished(p)' <=> Finished(p)
  BY FinishedStays
<1>3. InParts'
  BY <1>2 DEF InParts, bt
<1> QED
  BY <1>1, <1>2, <1>3

LEMMA SjfKeepsInv ==
  ASSUME Inv, findWaitingTimeSJF
  PROVE  Inv'
<1> USE DEF Inv
<1>1. /\ step = "loop" /\ alg = "SJF" /\ todo # << >>
      /\ UNCHANGED <<file, todo, plist, i, done>>
      /\ alg' = alg
  BY DEF findWaitingTimeSJF, Loop, alg
<1>2. Scheduled /\ InParts /\ complete = Cardinality(Completed)
  BY <1>1
<1>3. IsFiniteSet(Completed)
  BY ProcsAreFinite, FS_Subset DEF Completed
<1>4. CASE complete < N /\ \E p \in Procs : Ready(p)
  <2>1. PICK p \in Procs : p = min_index /\ Ready(p)
    BY <1>4, ShortestIsReady
  <2>2. /\ step' = step
        /\ rem_bt' = [rem_bt EXCEPT ![p] = @ - 1]
        /\ t' = t + 1
        /\ Runs(p, t, t')
        /\ IF rem_bt'[p] = 0
           THEN /\ wt' = [wt EXCEPT ![p] = WaitAt(p, t')]
                /\ complete' = complete + 1
           ELSE UNCHANGED <<wt, complete>>
    BY <1>4, <2>1 DEF findWaitingTimeSJF
  <2>3. rem_bt[p] \in Nat \ {0}
    BY <2>1 DEF Ready, TypeOK
  <2>4. /\ Scheduled' /\ InParts'
        /\ t' \in Nat
        /\ rem_bt' \in [Procs -> Nat]
        /\ wt' \in [Procs -> Int]
        /\ ran' \in [Procs -> SUBSET Nat]
    <3>1. PICK n \in Nat \ {0} : n = 1
      OBVIOUS
    <3>2. rem_bt' = [rem_bt EXCEPT ![p] = rem_bt[p] - n] /\ t' = t + n
      BY <2>2, <3>1
    <3>3. n <= rem_bt[p]
      BY <2>3, <3>1
    <3>4. wt' = IF rem_bt'[p] = 0 THEN [wt EXCEPT ![p] = WaitAt(p, t')] ELSE wt
      BY <2>2
    <3> QED
      BY <1>1, <1>2, <2>1, <2>2, <3>2, <3>3, <3>4, SliceKeepsParts
  <2>5. complete' = Cardinality(Completed')
    <3>1. Completed' = IF rem_bt'[p] = 0 THEN Completed \cup {p} ELSE Completed
      BY <2>2, <2>3 DEF Completed, TypeOK
    <3>2. p \notin Completed
      BY <2>3 DEF Completed
    <3> QED
      BY <1>2, <1>3, <2>2, <3>1, <3>2, FS_AddElement
  <2> QED
    BY <1>1, <2>2, <2>4, <2>5 DEF TypeOK
<1>5. CASE ~(complete < N /\ \E p \in Procs : Ready(p))
  <2>1. /\ t' \in Nat /\ t <= t'
        /\ UNCHANGED <<rem_bt, wt, complete, ran>>
        /\ step' \in {"loop", "metrics"}
        /\ step' = "metrics" => ~(complete < N)
    BY <1>1, <1>5 DEF findWaitingTimeSJF, Idle, TypeOK
  <2>2. Scheduled' /\ InParts' /\ \A p \in Procs : Finished(p)' <=> Finished(p)
    BY <1>1, <1>2, <2>1, NoSliceKeepsParts
  <2>3. complete' = Cardinality(Completed')
    BY <1>2, <2>1 DEF Completed
  <2>4. ASSUME step' = "metrics"
        PROVE  \A p \in Procs : Finished(p)
    <3>1. Completed \subseteq Procs
      BY DEF Completed
    <3>2. Cardinality(Completed) <= N /\ Cardinality(Completed) \in Nat
      BY <3>1, ProcsAreFinite, FS_Subset, FS_CardinalityType
    <3>3. complete = Cardinality(Completed) /\ ~ (complete < N)
      BY <1>1, <1>2, <1>3, <2>1, <2>4
    <3>4. Cardinality(Completed) = N
      BY <3>2, <3>3, SchedAssumption
    <3>5. Completed = Procs
      BY <3>1, <3>4, ProcsAreFinite, FS_Subset
    <3> QED
      BY <1>2, <3>5 DEF InParts, Completed
  <2> QED
    BY <1>1, <2>1, <2>2, <2>3, <2>4 DEF TypeOK
<1> QED
  BY <1>4, <1>5

LEMMA RoundRobinKeepsInv ==
  ASSUME Inv, findWaitingTimeRR
  PROVE  Inv'
<1> USE DEF Inv
<1>1. /\ step = "loop" /\ alg = "RR" /\ todo # << >>
      /\ UNCHANGED <<file, todo, plist, complete>>
      /\ alg' = alg
  BY DEF findWaitingTimeRR, Loop, alg
<1>2. Scheduled /\ InParts
  BY <1>1
<1>3. CASE i <= N /\ Ready(plist[i])
  <2>1. PICK p \in Procs : p = plist[i] /\ Ready(p)
    BY <1>1, <1>3 DEF TypeOK, Permutes, Procs
  <2>2. /\ step' = step
        /\ done' = FALSE
        /\ rem_bt' = [rem_bt EXCEPT ![p] = IF @ > quantum THEN @ - quantum
                                           ELSE 0]
        /\ t' = t + rem_bt[p] - rem_bt'[p]
        /\ wt' = IF rem_bt'[p] = 0 THEN [wt EXCEPT ![p] = WaitAt(p, t')]
                 ELSE wt
        /\ Runs(p, t, t')
        /\ i' = i + 1
    BY <1>3, <2>1 DEF findWaitingTimeRR, Visit, AfterSlice
  <2>3. rem_bt[p] \in Nat \ {0} /\ t \in Nat
    BY <2>1 DEF Ready, TypeOK
  <2>4. PICK n \in Nat \ {0} :
          /\ n = IF rem_bt[p] > quantum THEN quantum ELSE rem_bt[p]
          /\ n <= rem_bt[p]
    BY <2>3, SchedAssumption
  <2>5. /\ rem_bt' = [rem_bt EXCEPT ![p] = rem_bt[p] - n]
        /\ t' = t + n
    <3>1. rem_bt'[p] = rem_bt[p] - n
      BY <2>2, <2>3, <2>4, SchedAssumption DEF TypeOK
    <3>2. rem_bt' = [rem_bt EXCEPT ![p] = rem_bt[p] - n]
      BY <2>2, <3>1 DEF TypeOK
    <3>3. t + rem_bt[p] - (rem_bt[p] - n) = t + n
      BY <2>3, <2>4
    <3> QED
      BY <2>2, <3>1, <3>2, <3>3
  <2>6. /\ Scheduled' /\ InParts'
        /\ t' \in Nat
        /\ rem_bt' \in [Procs -> Nat]
        /\ wt' \in [Procs -> Int]
        /\ ran' \in [Procs -> SUBSET Nat]
    BY <1>1, <1>2, <2>1, <2>2, <2>4, <2>5, SliceKeepsParts
  <2>7. i' \in 1 .. N + 1
    BY <1>3, <2>2, SchedAssumption DEF TypeOK
  <2> QED
    BY <1>1, <2>2, <2>6, <2>7 DEF TypeOK
<1>4. CASE ~(i <= N /\ Ready(plist[i]))
  <2>1. /\ t' \in Nat /\ t <= t'
        /\ UNCHANGED <<rem_bt, wt, ran>>
        /\ step' \in {"loop", "metrics"}
        /\ step' = "metrics" => End
        /\ i' \in 1 .. N + 1
        /\ done' \in BOOLEAN
    <3>1. CASE i <= N
      BY <1>1, <1>4, <3>1, SchedAssumption
         DEF findWaitingTimeRR, Visit, TypeOK
    <3>2. CASE ~(i <= N)
      BY <1>1, <3>2, SchedAssumption
         DEF findWaitingTimeRR, EndOfPass, Idle, TypeOK
    <3> QED
      BY <3>1, <3>2
  <2>2. Scheduled' /\ InParts' /\ \A p \in Procs : Finished(p)' <=> Finished(p)
    BY <1>1, <1>2, <2>1, NoSliceKeepsParts
  <2>3. End => \A p \in Procs : Finished(p)
    BY <1>2 DEF End, InParts
  <2> QED
    BY <1>1, <2>1, <2>2, <2>3 DEF TypeOK
<1> QED
  BY <1>3, <1>4

LEMMA MetricsKeepsInv ==
  ASSUME Inv, printMetrics
  PROVE  Inv'
<1>1. /\ step' = "read" /\ todo' = Tail(todo) /\ todo # << >>
      /\ UNCHANGED <<file, plist, wt, t, i, rem_bt, complete, done, ran>>
  BY DEF printMetrics, Inv, TypeOK
<1>2. todo' \in Seq(Algs)
  BY <1>1 DEF Inv, TypeOK
<1> QED
  BY <1>1, <1>2 DEF Inv, TypeOK

LEMMA NextInv == Inv /\ [Next]_vars => Inv'
<1> SUFFICES ASSUME Inv, [Next]_vars PROVE Inv'
  OBVIOUS
<1>1. CASE initProc
  BY <1>1, ReadKeepsInv
<1>2. CASE findWaitingTime
  BY <1>2, TurnKeepsInv
<1>3. CASE findWaitingTimeSJF
  BY <1>3, SjfKeepsInv
<1>4. CASE findWaitingTimeRR
  BY <1>4, RoundRobinKeepsInv
<1>5. CASE printMetrics
  BY <1>5, MetricsKeepsInv
<1>6. CASE Ended \/ UNCHANGED vars
  <2>1. UNCHANGED vars
    BY <1>6 DEF Ended
  <2>2. TypeOK'
    BY <2>1 DEF vars, Inv, TypeOK, Permutes
  <2>3. /\ step' = step /\ alg' = alg /\ complete' = complete
        /\ Completed' = Completed
        /\ Scheduled' <=> Scheduled
    BY <2>1 DEF vars, alg, Completed, Scheduled, art
  <2>4. \A p \in Procs : Finished(p)' <=> Finished(p)
    BY <2>1 DEF vars, Finished, EndsAt, WaitAt, bt, art
  <2>5. (InTurn' <=> InTurn) /\ (InParts' <=> InParts)
    BY <2>1, <2>4 DEF vars, InTurn, InParts, bt
  <2> QED
    BY <2>2, <2>3, <2>4, <2>5 DEF Inv
<1> QED
  BY <1>1, <1>2, <1>3, <1>4, <1>5, <1>6 DEF Next

(* The invariant holds of every run of the simulator.                      *)
THEOREM InvHolds == Spec => []Inv
  BY InitInv, NextInv, PTL DEF Spec

(* Every variable of a simulation keeps its type.                          *)
THEOREM TypeCorrect == Spec => []TypeOK
  BY InvHolds, PTL DEF Inv

(* Each simulation is a schedule of one processor, and the waiting time    *)
(* each algorithm computes by its formula on the clock is the time from    *)
(* the arrival to the end of a process in which it did not run.            *)
THEOREM WaitingTimesAreWaits == Spec => []WaitsMeasured
<1>1. ASSUME Inv, step = "metrics", NEW p \in Procs
      PROVE  wt[p] = Cardinality((art(p) .. LastUnit(p)) \ ran[p])
  <2>1. PICK e \in Nat : EndsAt(p, e) /\ wt[p] = WaitAt(p, e + 1)
    BY <1>1 DEF Inv, Finished
  <2>2. Cardinality(ran[p]) = bt(p) /\ Scheduled /\ TypeOK
    BY <1>1 DEF Inv, Finished
  <2>3. bt(p) \in Nat /\ art(p) \in Nat /\ ran[p] \subseteq Nat
    BY <2>2, FileTypes DEF TypeOK
  <2>4. LastUnit(p) = e
    <3>1. e \in ran[p] /\ \A u \in ran[p] : e >= u
      BY <2>1, <2>3 DEF EndsAt
    <3>2. \A x \in ran[p] : (\A u \in ran[p] : x >= u) => x = e
      BY <2>3, <3>1
    <3> QED
      BY <3>1, <3>2 DEF LastUnit, Max
  <2>5. (art(p) .. e) \cap ran[p] = ran[p] /\ art(p) <= e
    BY <2>1, <2>2, <2>3 DEF Scheduled, EndsAt, TypeOK
  <2>6. /\ IsFiniteSet(art(p) .. e)
        /\ Cardinality(art(p) .. e) = e - art(p) + 1
    <3>1. art(p) \in Int /\ e \in Int /\ ~(art(p) > e)
      BY <2>3, <2>5
    <3> QED
      BY <3>1, FS_Interval
  <2>7. Cardinality((art(p) .. e) \ ran[p])
          = Cardinality(art(p) .. e) - Cardinality((art(p) .. e) \cap ran[p])
    BY <2>6, FS_Difference
  <2>8. Cardinality((art(p) .. e) \ ran[p]) = (e - art(p) + 1) - bt(p)
    BY <2>2, <2>5, <2>6, <2>7
  <2>9. wt[p] = (e + 1) - bt(p) - art(p)
    BY <2>1 DEF WaitAt
  <2>10. (e + 1) - bt(p) - art(p) = (e - art(p) + 1) - bt(p)
    BY <2>3
  <2> QED
    BY <2>4, <2>8, <2>9, <2>10
<1>2. Inv => WaitsMeasured
  BY <1>1 DEF Inv, WaitsMeasured, Measured, Finished, Scheduled
<1> QED
  BY <1>2, InvHolds, PTL


-----------------------------------------------------------------------------
(* Round robin                                                             *)

\* How many of the others were visited since p was.
Since(p) == IF p < i THEN i - 1 - p ELSE N - p + i - 1

\* Nobody has had the processor between u and now.
IdleSince(p, u) == \A v \in ran[p] : v < u

\* While p waits, each of the others visited has had at most a quantum.
WaitsItsTurn(p) ==
  art(p) <= t /\ rem_bt[p] > 0 =>
    \A u \in art(p) .. t : IdleSince(p, u) => t - u <= Since(p) * quantum

\* Between its arrival and its last unit so far, p never waited longer than
\* for a turn of all the others.
WaitedItsTurns(p) ==
  \A u \in Nat : \A v \in ran[p] :
    art(p) <= u /\ u + Turn <= v => (u .. u + Turn) \cap ran[p] # {}

InRounds ==
  /\ plist = [j \in Procs |-> j]
  /\ done => \A p \in 1 .. i - 1 : ~Ready(p)
  /\ \A p \in Procs : WaitsItsTurn(p) /\ WaitedItsTurns(p)

RoundsInv == step # "read" /\ alg = "RR" => InRounds

LEMMA TurnsAdd ==
  ASSUME NEW m \in Nat
  PROVE  /\ m * quantum \in Nat
         /\ (m + 1) * quantum = m * quantum + quantum
BY SchedAssumption

LEMMA TurnsGrow ==
  ASSUME NEW m \in Nat, NEW k \in Nat, m <= k
  PROVE  m * quantum <= k * quantum
<1>1. k - m \in Nat /\ quantum \in Nat
  BY SchedAssumption
<1>2. (k - m) * quantum \in Nat
  BY <1>1
<1>3. k * quantum = m * quantum + (k - m) * quantum
  BY <1>1
<1> QED
  BY <1>1, <1>2, <1>3

LEMMA SinceType ==
  ASSUME TypeOK, NEW p \in Procs
  PROVE  Since(p) \in Nat /\ Since(p) <= N - 1
BY SchedAssumption DEF TypeOK, Procs, Since

(* A slice of the process visited ends its wait, and makes every other one *)
(* wait a quantum longer at most.                                          *)
LEMMA SliceKeepsRounds ==
  ASSUME TypeOK, Scheduled, InRounds, NEW p \in Procs, NEW n \in Nat \ {0},
         p = i, Ready(p), n <= quantum,
         rem_bt' = [rem_bt EXCEPT ![p] = rem_bt[p] - n],
         t' = t + n, Runs(p, t, t'), i' = i + 1, done' = FALSE,
         UNCHANGED <<file, plist>>
  PROVE  InRounds'
<1>1. /\ t \in Nat /\ i \in Nat /\ N \in Nat \ {0} /\ quantum \in Nat \ {0}
      /\ art(p) <= t /\ rem_bt[p] > 0
      /\ rem_bt \in [Procs -> Nat]
      /\ ran \in [Procs -> SUBSET Nat]
  BY SchedAssumption DEF TypeOK, Ready
<1>2. \A q \in Procs : q \in Nat /\ art(q) \in Nat /\ art(q)' = art(q)
  BY FileTypes DEF Procs, art
<1>3. \A q \in Procs : \A v \in ran[q] : v \in Nat /\ v < t
  BY <1>1, <1>2 DEF Scheduled
<1>4. /\ ran'[p] = ran[p] \cup t .. t' - 1
      /\ \A q \in Procs \ {p} : ran'[q] = ran[q]
  BY <1>1 DEF Runs
<1>5. /\ Since(p)' = 0
      /\ \A q \in Procs \ {p} : Since(q)' = Since(q) + 1
  BY <1>1, <1>2 DEF Since
<1>6. ASSUME NEW q \in Procs, art(q) <= t', rem_bt'[q] > 0,
             NEW u \in art(q) .. t', IdleSince(q, u)'
      PROVE  t' - u <= Since(q)' * quantum
  <2>1. u \in Nat /\ art(q) <= u /\ u <= t'
    BY <1>1, <1>2, <1>6
  <2>2. CASE q = p
    <3>1. t' - 1 \in ran'[p]
      BY <1>1, <1>4
    <3>2. t' - 1 < u
      BY <1>6, <2>2, <3>1 DEF IdleSince
    <3>3. t' - u = 0
      BY <1>1, <2>1, <3>2
    <3>4. Since(q)' * quantum = 0
      BY <1>1, <1>5, <2>2
    <3> QED
      BY <3>3, <3>4
  <2>3. CASE q # p
    <3>1. Since(q) \in Nat
      BY SinceType
    <3>2. /\ Since(q)' * quantum = Since(q) * quantum + quantum
          /\ Since(q) * quantum \in Nat
      BY <1>5, <2>3, <3>1, TurnsAdd
    <3>3. CASE u <= t
      <4>1. rem_bt[q] > 0 /\ art(q) <= t
        BY <1>1, <1>2, <1>6, <2>1, <2>3, <3>3
      <4>2. IdleSince(q, u)
        BY <1>4, <1>6, <2>3 DEF IdleSince
      <4>3. u \in art(q) .. t
        BY <1>1, <1>2, <2>1, <3>3
      <4>4. t - u <= Since(q) * quantum
        BY <4>1, <4>2, <4>3 DEF InRounds, WaitsItsTurn
      <4> QED
        BY <1>1, <2>1, <3>2, <4>4
    <3>4. CASE ~(u <= t)
      BY <1>1, <2>1, <3>2, <3>4
    <3> QED
      BY <3>3, <3>4
  <2> QED
    BY <2>2, <2>3
<1>7. ASSUME NEW q \in Procs, NEW u \in Nat, NEW v \in ran'[q],
             art(q) <= u, u + Turn <= v
      PROVE  (u .. u + Turn) \cap ran'[q] # {}
  <2>0. Turn \in Nat /\ Turn = (N - 1) * quantum
    BY <1>1 DEF Turn
  <2>1. CASE v \in ran[q]
    <3>1. (u .. u + Turn) \cap ran[q] # {}
      BY <1>7, <2>1 DEF InRounds, WaitedItsTurns
    <3> QED
      BY <1>4, <3>1
  <2>2. CASE v \notin ran[q]
    <3>1. q = p /\ v \in t .. t' - 1
      BY <1>4, <2>2
    <3>2. CASE u + Turn >= t
      <4>1. PICK w \in Nat : w = IF u < t THEN t ELSE u
        BY <1>1
      <4>2. w \in u .. u + Turn /\ w \in t .. t' - 1
        BY <1>1, <1>7, <2>0, <3>1, <3>2, <4>1
      <4> QED
        BY <1>4, <3>1, <4>2
    <3>3. CASE ~(u + Turn >= t)
      <4>1. u \in art(q) .. t
        BY <1>1, <1>2, <1>7, <2>0, <3>3
      <4>2. Since(p) = N - 1
        BY <1>1, <1>2 DEF Since
      <4>3. ~(t - u <= Turn)
        BY <1>1, <2>0, <3>3
      <4>4. ~IdleSince(p, u)
        BY <1>1, <2>0, <3>1, <4>1, <4>2, <4>3 DEF InRounds, WaitsItsTurn
      <4>5. PICK w \in ran[p] : ~(w < u)
        BY <4>4 DEF IdleSince
      <4>6. CASE w <= u + Turn
        <5>1. w \in u .. u + Turn
          BY <1>3, <2>0, <4>5, <4>6
        <5> QED
          BY <1>4, <3>1, <5>1
      <4>7. CASE ~(w <= u + Turn)
        <5>1. u + Turn <= w
          BY <1>3, <2>0, <4>7
        <5>2. (u .. u + Turn) \cap ran[p] # {}
          BY <1>7, <3>1, <5>1 DEF InRounds, WaitedItsTurns
        <5> QED
          BY <1>4, <3>1, <5>2
      <4> QED
        BY <4>6, <4>7
    <3> QED
      BY <3>2, <3>3
  <2> QED
    BY <2>1, <2>2
<1>8. \A q \in Procs : WaitsItsTurn(q)'
  BY <1>2, <1>6 DEF WaitsItsTurn
<1>9. \A q \in Procs : WaitedItsTurns(q)'
  BY <1>2, <1>7 DEF WaitedItsTurns
<1> QED
  BY <1>8, <1>9 DEF InRounds


(* A turn of the loop in which nobody runs: the pass goes on to the next   *)
(* process, or ends, and if it found nobody ready time goes by.            *)
LEMMA NoSliceKeepsRounds ==
  ASSUME TypeOK, Scheduled, InRounds,
         UNCHANGED <<file, plist, rem_bt, ran>>,
         \/ /\ i <= N /\ ~Ready(i)
            /\ i' = i + 1 /\ t' = t /\ done' = done
         \/ /\ ~(i <= N)
            /\ i' = 1 /\ done' = TRUE
            /\ t' = t \/ (t' = t + 1 /\ done)
  PROVE  InRounds'
<1>1. /\ t \in Nat /\ i \in 1 .. N + 1 /\ N \in Nat \ {0}
      /\ quantum \in Nat \ {0}
      /\ rem_bt \in [Procs -> Nat]
      /\ ran \in [Procs -> SUBSET Nat]
  BY SchedAssumption DEF TypeOK
<1>2. \A q \in Procs : q \in Nat /\ art(q) \in Nat /\ art(q)' = art(q)
  BY FileTypes DEF Procs, art
<1>3. \A q \in Procs : WaitedItsTurns(q)'
  BY <1>2 DEF InRounds, WaitedItsTurns
<1>4. CASE i <= N
  <2>1. ~Ready(i) /\ i' = i + 1 /\ t' = t /\ done' = done
    BY <1>4
  <2>2. \A q \in Procs : Ready(q)' <=> Ready(q)
    BY <1>2, <2>1 DEF Ready
  <2>3. 1 .. i' - 1 = (1 .. i - 1) \cup {i}
    BY <1>1, <2>1
  <2>4. 1 .. i' - 1 \subseteq Procs
    BY <1>1, <1>4, <2>1 DEF Procs
  <2>5. done' => \A q \in 1 .. i' - 1 : ~Ready(q)'
    BY <2>1, <2>2, <2>3, <2>4 DEF InRounds
  <2>6. ASSUME NEW q \in Procs, art(q) <= t, rem_bt[q] > 0,
               NEW u \in art(q) .. t, IdleSince(q, u)
        PROVE  t - u <= Since(q)' * quantum
    <3>1. q # i
      BY <2>1, <2>6 DEF Ready
    <3>2. Since(q)' = Since(q) + 1
      BY <1>1, <1>2, <2>1, <3>1 DEF Since
    <3>3. Since(q) \in Nat
      BY SinceType
    <3>4. /\ Since(q)' * quantum = Since(q) * quantum + quantum
          /\ Since(q) * quantum \in Nat
      BY <3>2, <3>3, TurnsAdd
    <3>5. t - u <= Since(q) * quantum
      BY <2>6 DEF InRounds, WaitsItsTurn
    <3>6. t - u \in Int
      BY <1>1, <1>2
    <3> QED
      BY <1>1, <3>4, <3>5, <3>6
  <2>7. \A q \in Procs : WaitsItsTurn(q)'
    BY <1>2, <2>1, <2>6 DEF WaitsItsTurn, IdleSince
  <2> QED
    BY <1>3, <2>5, <2>7 DEF InRounds
<1>5. CASE ~(i <= N)
  <2>1. /\ i' = 1 /\ done' = TRUE /\ i = N + 1
        /\ t' = t \/ (t' = t + 1 /\ done)
    BY <1>1, <1>5
  <2>2. \A q \in Procs : Since(q)' = Since(q)
    BY <1>1, <1>2, <2>1 DEF Since, Procs
  <2>3. CASE t' = t
    <3>1. \A q \in Procs : WaitsItsTurn(q)'
      BY <1>2, <2>2, <2>3 DEF InRounds, WaitsItsTurn, IdleSince
    <3> QED
      BY <1>3, <2>1, <3>1 DEF InRounds
  <2>4. CASE t' = t + 1 /\ done
    <3>1. 1 .. i - 1 = Procs
      BY <1>1, <2>1 DEF Procs
    <3>2. \A q \in Procs : ~Ready(q)
      BY <2>4, <3>1 DEF InRounds
    <3>3. ASSUME NEW q \in Procs, art(q) <= t', rem_bt[q] > 0,
                 NEW u \in art(q) .. t'
          PROVE  t' - u <= Since(q)' * quantum
      <4>1. t' - u = 0
        BY <1>1, <1>2, <2>4, <3>2, <3>3 DEF Ready
      <4>2. Since(q)' * quantum \in Nat
        BY <2>2, SinceType, TurnsAdd
      <4> QED
        BY <4>1, <4>2
    <3>4. \A q \in Procs : WaitsItsTurn(q)'
      BY <1>2, <3>3 DEF WaitsItsTurn
    <3> QED
      BY <1>3, <2>1, <3>4 DEF InRounds
  <2> QED
    BY <2>1, <2>3, <2>4
<1> QED
  BY <1>4, <1>5

LEMMA RoundsInit == Init => RoundsInv
BY DEF Init, RoundsInv

LEMMA RoundsNext == Inv /\ RoundsInv /\ [Next]_vars => RoundsInv'
<1> SUFFICES ASSUME Inv, RoundsInv, [Next]_vars PROVE RoundsInv'
  OBVIOUS
<1>1. CASE initProc /\ alg = "RR"
  <2>1. /\ t' = 0 /\ i' = 1 /\ done' = TRUE /\ UNCHANGED file
        /\ plist' = [j \in Procs |-> j]
        /\ ran' = [p \in Procs |-> {}]
    BY <1>1 DEF initProc
  <2>2. \A p \in Procs : /\ p \in Nat /\ p >= 1 /\ p <= N
                         /\ art(p) \in Nat /\ art(p)' = art(p)
    BY <2>1, FileTypes, SchedAssumption DEF Procs, art, Inv
  <2>3. ASSUME NEW p \in Procs
        PROVE  Since(p)' \in Nat
    BY <2>1, <2>2, SchedAssumption DEF Since
  <2>4. ASSUME NEW p \in Procs
        PROVE  WaitsItsTurn(p)'
    <3>1. Since(p)' * quantum \in Nat
      BY <2>3, TurnsAdd
    <3> QED
      BY <2>1, <2>2, <3>1 DEF WaitsItsTurn
  <2>5. \A p \in Procs : WaitedItsTurns(p)'
    BY <2>1 DEF WaitedItsTurns
  <2>6. \A p \in 1 .. i' - 1 : ~Ready(p)'
    BY <2>1
  <2> QED
    BY <2>1, <2>4, <2>5, <2>6 DEF RoundsInv, InRounds
<1>2. CASE (initProc /\ alg # "RR") \/ findWaitingTime \/ findWaitingTimeSJF
  BY <1>2
     DEF RoundsInv, initProc, findWaitingTime, findWaitingTimeSJF, Loop, alg
<1>3. CASE findWaitingTimeRR
  <2>1. /\ step = "loop" /\ alg = "RR"
        /\ UNCHANGED <<file, todo, plist>>
        /\ TypeOK /\ Scheduled /\ InRounds
    BY <1>3 DEF findWaitingTimeRR, Loop, Inv, RoundsInv
  <2>2. i \in 1 .. N + 1 /\ (i <= N => i \in Procs /\ plist[i] = i)
    BY <2>1 DEF TypeOK, InRounds, Procs
  <2>3. CASE i <= N /\ Ready(i)
    <3>1. PICK p \in Procs : p = i /\ Ready(p)
      BY <2>2, <2>3
    <3>2. /\ done' = FALSE
          /\ rem_bt' = [rem_bt EXCEPT ![p] = IF @ > quantum THEN @ - quantum
                                             ELSE 0]
          /\ t' = t + rem_bt[p] - rem_bt'[p]
          /\ Runs(p, t, t')
          /\ i' = i + 1
      BY <1>3, <2>2, <2>3, <3>1 DEF findWaitingTimeRR, Visit, AfterSlice
    <3>3. rem_bt[p] \in Nat \ {0} /\ t \in Nat
      BY <2>1, <3>1 DEF Ready, TypeOK
    <3>4. PICK n \in Nat \ {0} :
            /\ n = IF rem_bt[p] > quantum THEN quantum ELSE rem_bt[p]
            /\ n <= quantum
      BY <3>3, SchedAssumption
    <3>5. rem_bt'[p] = rem_bt[p] - n
      BY <2>1, <3>2, <3>3, <3>4, SchedAssumption DEF TypeOK
    <3>6. rem_bt' = [rem_bt EXCEPT ![p] = rem_bt[p] - n]
      BY <2>1, <3>2, <3>5 DEF TypeOK
    <3>7. t + rem_bt[p] - (rem_bt[p] - n) = t + n
      BY <3>3, <3>4
    <3>8. t' = t + n
      BY <3>2, <3>5, <3>7
    <3> QED
      BY <2>1, <3>1, <3>2, <3>4, <3>6, <3>8, SliceKeepsRounds DEF RoundsInv
  <2>4. CASE i <= N /\ ~Ready(i)
    <3>1. i' = i + 1 /\ UNCHANGED <<done, rem_bt, t, ran>>
      BY <1>3, <2>2, <2>4 DEF findWaitingTimeRR, Visit
    <3> QED
      BY <2>1, <2>4, <3>1, NoSliceKeepsRounds DEF RoundsInv
  <2>5. CASE ~(i <= N)
    <3>1. /\ i' = 1 /\ done' = TRUE
          /\ t' = t \/ (t' = t + 1 /\ done)
          /\ UNCHANGED <<rem_bt, ran>>
      <4>1. EndOfPass
        BY <1>3, <2>5 DEF findWaitingTimeRR
      <4>2. t' = IF done /\ ~End THEN t + 1 ELSE t
        BY <4>1 DEF EndOfPass, Idle
      <4>3. t' = t \/ (t' = t + 1 /\ done)
        <5>1. CASE done /\ ~End
          BY <4>2, <5>1
        <5>2. CASE ~(done /\ ~End)
          BY <4>2, <5>2
        <5> QED
          BY <5>1, <5>2
      <4> QED
        BY <4>1, <4>3 DEF EndOfPass
    <3> QED
      BY <2>1, <2>5, <3>1, NoSliceKeepsRounds DEF RoundsInv
  <2> QED
    BY <2>3, <2>4, <2>5
<1>4. CASE printMetrics
  BY <1>4 DEF printMetrics, RoundsInv
<1>5. CASE Ended \/ UNCHANGED vars
  <2>1. UNCHANGED vars
    BY <1>5 DEF Ended
  <2> QED
    BY <2>1
       DEF vars, RoundsInv, InRounds, WaitsItsTurn, WaitedItsTurns, IdleSince,
           Since, Ready, art, alg
<1> QED
  BY <1>1, <1>2, <1>3, <1>4, <1>5 DEF Next

(* Round robin keeps nobody waiting for longer than a quantum of each of   *)
(* the others, whenever the processes arrive and whatever their bursts.    *)
THEOREM RoundRobinIsFair == Spec => []RoundRobinFair
<1>1. ASSUME Inv, RoundsInv, step = "metrics", alg = "RR", NEW p \in Procs,
             NEW u \in art(p) .. LastUnit(p) - Turn
      PROVE  (u .. u + Turn) \cap ran[p] # {}
  <2>1. PICK e \in Nat : EndsAt(p, e)
    BY <1>1 DEF Inv, Finished
  <2>2. art(p) \in Nat /\ ran[p] \subseteq Nat
    BY <1>1, FileTypes DEF Inv, TypeOK
  <2>3. LastUnit(p) = e
    <3>1. e \in ran[p] /\ \A v \in ran[p] : e >= v
      BY <2>1, <2>2 DEF EndsAt
    <3>2. \A x \in ran[p] : (\A v \in ran[p] : x >= v) => x = e
      BY <2>2, <3>1
    <3> QED
      BY <3>1, <3>2 DEF LastUnit, Max
  <2>4. Turn \in Nat
    <3>1. N - 1 \in Nat
      BY SchedAssumption
    <3> QED
      BY <3>1, TurnsAdd DEF Turn
  <2>5. u \in Nat /\ art(p) <= u /\ u + Turn <= e /\ e \in ran[p]
    BY <1>1, <2>1, <2>2, <2>3, <2>4 DEF EndsAt
  <2>6. WaitedItsTurns(p)
    BY <1>1 DEF RoundsInv, InRounds
  <2> QED
    BY <2>5, <2>6 DEF WaitedItsTurns
<1>2. Inv /\ RoundsInv => RoundRobinFair
  BY <1>1 DEF RoundRobinFair, Measured
<1>3. Spec => []RoundsInv
  BY RoundsInit, RoundsNext, InvHolds, PTL DEF Spec
<1> QED
  BY <1>2, <1>3, InvHolds, PTL

-----------------------------------------------------------------------------
(* Sums over the processes                                                 *)

Total(f) == FoldFunction(+, 0, f)

\* The element FoldFunction takes from a set first.
Peel(s) == CHOOSE x \in s : TRUE

\* g[s] is the sum of f over s.
Sums(g, f) ==
  /\ g \in [SUBSET Procs -> Int]
  /\ g[{}] = 0
  /\ \A s \in SUBSET Procs : s # {} => g[s] = f[Peel(s)] + g[s \ {Peel(s)}]

(* Induction over the natural numbers.                                     *)
LEMMA NatSet ==
  ASSUME NEW T, 0 \in T, \A n \in Nat : n \in T => n + 1 \in T
  PROVE  \A n \in Nat : n \in T
<1> DEFINE U == {n \in Nat : n \notin T}
<1>1. SUFFICES ASSUME U # {} PROVE FALSE
  OBVIOUS
<1>2. PICK m \in U : \A k \in U : m <= k
  <2>1. U \in SUBSET Nat
    OBVIOUS
  <2> HIDE DEF U
  <2> QED
    BY <1>1, <2>1, LeastNat
<1>3. m \in Nat /\ m # 0
  BY <1>2
<1>4. m - 1 \in Nat /\ ~ (m <= m - 1) /\ (m - 1) + 1 = m
  BY <1>3
<1>5. m - 1 \in T
  BY <1>2, <1>4
<1> QED
  BY <1>2, <1>4, <1>5

(* Induction over the sets of processes, one element peeled off at a time. *)
LEMMA SetsOfProcs ==
  ASSUME NEW T, {} \in T,
         \A s \in SUBSET Procs : s # {} /\ s \ {Peel(s)} \in T => s \in T
  PROVE  \A s \in SUBSET Procs : s \in T
<1> DEFINE U == {n \in Nat :
                   \A s \in SUBSET Procs : Cardinality(s) = n => s \in T}
<1>1. \A s \in SUBSET Procs : IsFiniteSet(s) /\ Cardinality(s) \in Nat
  BY ProcsAreFinite, FS_Subset, FS_CardinalityType
<1>2. 0 \in U
  <2>1. \A s \in SUBSET Procs : Cardinality(s) = 0 => s = {}
    BY <1>1, FS_EmptySet
  <2> QED
    BY <2>1
<1>3. ASSUME NEW n \in Nat, n \in U
      PROVE  n + 1 \in U
  <2>1. ASSUME NEW s \in SUBSET Procs, Cardinality(s) = n + 1
        PROVE  s \in T
    <3>1. s # {}
      BY <1>1, <2>1, FS_EmptySet
    <3>2. Peel(s) \in s
      BY <3>1 DEF Peel
    <3>3. PICK x \in s : x = Peel(s)
      BY <3>2
    <3>4. Cardinality(s \ {x}) = Cardinality(s) - 1
      BY <1>1, FS_RemoveElement
    <3>5. s \ {x} \in SUBSET Procs /\ Cardinality(s \ {x}) = n
      BY <2>1, <3>4
    <3>6. s \ {x} \in T
      BY <1>3, <3>5
    <3> QED
      BY <3>1, <3>3, <3>6
  <2> QED
    BY <2>1
<1> HIDE DEF U
<1>4. \A n \in Nat : n \in U
  BY <1>2, <1>3, NatSet
<1> QED
  BY <1>1, <1>4 DEF U

\* g[s] is the sum of f over the members of s up to n, in any order.
SumsUpTo(g, f, n) ==
  /\ g \in [SUBSET Procs -> Int]
  /\ g[{}] = 0
  /\ \A s \in SUBSET Procs : \A x \in s :
       g[s] = (IF x <= n THEN f[x] ELSE 0) + g[s \ {x}]

(* There are sums that do not depend on the order.                         *)
LEMMA SumsExist ==
  ASSUME NEW f \in [Procs -> Int]
  PROVE  \E g : /\ g \in [SUBSET Procs -> Int]
                /\ g[{}] = 0
                /\ \A s \in SUBSET Procs : \A x \in s : g[s] = f[x] + g[s \ {x}]
<1> DEFINE T == {n \in Nat : n <= N => \E g : SumsUpTo(g, f, n)}
<1>0. Procs \subseteq Nat /\ \A x \in Procs : ~ (x <= 0) /\ x <= N
  BY SchedAssumption DEF Procs
<1>1. 0 \in T
  <2>1. PICK g : g = [s \in SUBSET Procs |-> 0]
    OBVIOUS
  <2>2. SumsUpTo(g, f, 0)
    BY <1>0, <2>1 DEF SumsUpTo
  <2> QED
    BY <2>2
<1>2. ASSUME NEW n \in Nat, n \in T
      PROVE  n + 1 \in T
  <2>1. CASE ~ (n + 1 <= N)
    BY <2>1
  <2>2. CASE n + 1 <= N
    <3>1. n <= N /\ n + 1 \in Procs
      BY <2>2, SchedAssumption DEF Procs
    <3>2. PICK g : SumsUpTo(g, f, n)
      BY <1>2, <3>1
    <3>3. PICK h : h = [s \in SUBSET Procs |->
                          IF n + 1 \in s THEN f[n + 1] + g[s] ELSE g[s]]
      OBVIOUS
    <3>4. f[n + 1] \in Int /\ \A s \in SUBSET Procs : g[s] \in Int
      BY <3>1, <3>2 DEF SumsUpTo
    <3>5. h \in [SUBSET Procs -> Int] /\ h[{}] = 0
      BY <3>2, <3>3, <3>4 DEF SumsUpTo
    <3>6. ASSUME NEW s \in SUBSET Procs, NEW x \in s
          PROVE  h[s] = (IF x <= n + 1 THEN f[x] ELSE 0) + h[s \ {x}]
      <4>1. /\ x \in Nat /\ f[x] \in Int
            /\ s \ {x} \in SUBSET Procs /\ g[s] \in Int /\ g[s \ {x}] \in Int
        BY <1>0, <3>4
      <4>2. g[s] = (IF x <= n THEN f[x] ELSE 0) + g[s \ {x}]
        BY <3>2 DEF SumsUpTo
      <4>3. CASE x = n + 1
        <5>1. h[s] = f[x] + g[s] /\ h[s \ {x}] = g[s \ {x}]
          BY <3>3, <4>1, <4>3
        <5>2. ~ (x <= n) /\ x <= n + 1
          BY <4>3
        <5> QED
          BY <4>1, <4>2, <5>1, <5>2
      <4>4. CASE x # n + 1
        <5>1. x <= n + 1 <=> x <= n
          BY <4>1, <4>4
        <5>2. CASE n + 1 \in s
          <6>1. h[s] = f[n + 1] + g[s] /\ h[s \ {x}] = f[n + 1] + g[s \ {x}]
            BY <3>3, <4>1, <4>4, <5>2
          <6> QED
            BY <3>4, <4>1, <4>2, <5>1, <6>1
        <5>3. CASE n + 1 \notin s
          <6>1. h[s] = g[s] /\ h[s \ {x}] = g[s \ {x}]
            BY <3>3, <4>1, <5>3
          <6> QED
            BY <4>2, <5>1, <6>1
        <5> QED
          BY <5>2, <5>3
      <4> QED
        BY <4>3, <4>4
    <3>7. SumsUpTo(h, f, n + 1)
      BY <3>5, <3>6 DEF SumsUpTo
    <3> QED
      BY <3>7
  <2> QED
    BY <2>1, <2>2
<1>3. \A n \in Nat : n \in T
  <2> HIDE DEF T
  <2> QED
    BY <1>1, <1>2, NatSet
<1>4. N \in Nat /\ N <= N
  BY SchedAssumption
<1>5. PICK g : SumsUpTo(g, f, N)
  BY <1>3, <1>4
<1>6. \A s \in SUBSET Procs : \A x \in s : g[s] = f[x] + g[s \ {x}]
  BY <1>0, <1>5 DEF SumsUpTo
<1>7. g \in [SUBSET Procs -> Int] /\ g[{}] = 0
  BY <1>5 DEF SumsUpTo
<1> QED
  BY <1>6, <1>7

(* The fold over a function is a sum, taken in the order of the fold.      *)
LEMMA TotalSums ==
  ASSUME NEW f \in [Procs -> Int]
  PROVE  \E g : Sums(g, f) /\ Total(f) = g[Procs]
<1>1. PICK g : /\ g \in [SUBSET Procs -> Int]
               /\ g[{}] = 0
               /\ \A s \in SUBSET Procs : \A x \in s : g[s] = f[x] + g[s \ {x}]
  BY SumsExist
<1>2. \A s \in SUBSET Procs : s # {} => Peel(s) \in s
  BY DEF Peel
<1>3. \A s \in SUBSET Procs :
        g[s] = IF s = {} THEN 0 ELSE f[Peel(s)] + g[s \ {Peel(s)}]
  BY <1>1, <1>2
<1>4. g = [s \in SUBSET Procs |->
             IF s = {} THEN 0 ELSE f[Peel(s)] + g[s \ {Peel(s)}]]
  <2>1. g = [s \in SUBSET Procs |-> g[s]]
    BY <1>1
  <2> QED
    BY <1>3, <2>1
<1>5. PICK it : it = CHOOSE h : h = [s \in SUBSET Procs |->
                  IF s = {} THEN 0 ELSE f[Peel(s)] + h[s \ {Peel(s)}]]
  OBVIOUS
<1>6. it = [s \in SUBSET Procs |->
              IF s = {} THEN 0 ELSE f[Peel(s)] + it[s \ {Peel(s)}]]
  BY <1>4, <1>5
<1>7. Total(f) = it[Procs]
  BY <1>5 DEF Total, FoldFunction, FoldFunctionOnSet, MapThenFoldSet, Peel
<1>8. /\ it[{}] = 0
      /\ \A s \in SUBSET Procs :
           s # {} => it[s] = f[Peel(s)] + it[s \ {Peel(s)}]
  BY <1>6
<1>9. \A s \in SUBSET Procs : it[s] \in Int
  <2> DEFINE T == {s \in SUBSET Procs : it[s] \in Int}
  <2>1. {} \in T
    BY <1>8
  <2>2. ASSUME NEW s \in SUBSET Procs, s # {}, s \ {Peel(s)} \in T
        PROVE  s \in T
    <3>1. f[Peel(s)] \in Int /\ it[s \ {Peel(s)}] \in Int
      BY <1>2, <2>2
    <3>2. it[s] = f[Peel(s)] + it[s \ {Peel(s)}]
      BY <1>8, <2>2
    <3> QED
      BY <3>1, <3>2
  <2>3. \A s \in SUBSET Procs : s \in T
    <3> HIDE DEF T
    <3> QED
      BY <2>1, <2>2, SetsOfProcs
  <2> QED
    BY <2>3
<1>10. it \in [SUBSET Procs -> Int]
  <2>1. it = [s \in SUBSET Procs |-> it[s]]
    BY <1>6
  <2> QED
    BY <1>9, <2>1
<1> QED
  BY <1>7, <1>8, <1>10 DEF Sums

(* Sums add.                                                               *)
LEMMA TotalAdds ==
  ASSUME NEW f \in [Procs -> Int], NEW g \in [Procs -> Int],
         NEW h \in [Procs -> Int], \A p \in Procs : h[p] = f[p] + g[p]
  PROVE  /\ Total(f) \in Int /\ Total(g) \in Int
         /\ Total(h) = Total(f) + Total(g)
<1>1. PICK F : Sums(F, f) /\ Total(f) = F[Procs]
  BY TotalSums
<1>2. PICK G : Sums(G, g) /\ Total(g) = G[Procs]
  BY TotalSums
<1>3. PICK H : Sums(H, h) /\ Total(h) = H[Procs]
  BY TotalSums
<1> DEFINE T == {s \in SUBSET Procs : H[s] = F[s] + G[s]}
<1>4. {} \in T
  BY <1>1, <1>2, <1>3 DEF Sums
<1>5. ASSUME NEW s \in SUBSET Procs, s # {}, s \ {Peel(s)} \in T
      PROVE  s \in T
  <2>1. PICK x \in s : x = Peel(s)
    BY <1>5 DEF Peel
  <2>2. /\ F[s] = f[x] + F[s \ {x}]
        /\ G[s] = g[x] + G[s \ {x}]
        /\ H[s] = h[x] + H[s \ {x}]
    BY <1>1, <1>2, <1>3, <1>5, <2>1 DEF Sums
  <2>3. /\ h[x] = f[x] + g[x] /\ f[x] \in Int /\ g[x] \in Int
        /\ F[s \ {x}] \in Int /\ G[s \ {x}] \in Int
        /\ H[s \ {x}] = F[s \ {x}] + G[s \ {x}]
    BY <1>1, <1>2, <1>5, <2>1 DEF Sums
  <2> QED
    BY <2>2, <2>3
<1>6. \A s \in SUBSET Procs : s \in T
  <2> HIDE DEF T
  <2> QED
    BY <1>4, <1>5, SetsOfProcs
<1> QED
  BY <1>1, <1>2, <1>3, <1>6 DEF Sums

(* The sum of a function that is v at j and 0 elsewhere.                   *)
LEMMA TotalOfOne ==
  ASSUME NEW f \in [Procs -> Int], NEW j \in Procs,
         \A p \in Procs : p # j => f[p] = 0
  PROVE  Total(f) = f[j]
<1>1. PICK F : Sums(F, f) /\ Total(f) = F[Procs]
  BY TotalSums
<1> DEFINE T == {s \in SUBSET Procs : F[s] = IF j \in s THEN f[j] ELSE 0}
<1>2. {} \in T
  BY <1>1 DEF Sums
<1>3. ASSUME NEW s \in SUBSET Procs, s # {}, s \ {Peel(s)} \in T
      PROVE  s \in T
  <2>1. PICK x \in s : x = Peel(s)
    BY <1>3 DEF Peel
  <2>2. F[s] = f[x] + F[s \ {x}]
    BY <1>1, <1>3, <2>1 DEF Sums
  <2>3. F[s \ {x}] = IF j \in s \ {x} THEN f[j] ELSE 0
    BY <1>3, <2>1
  <2>4. f[x] \in Int /\ f[j] \in Int /\ (x # j => f[x] = 0)
    OBVIOUS
  <2>5. CASE x = j
    BY <2>2, <2>3, <2>4, <2>5
  <2>6. CASE x # j
    BY <2>2, <2>3, <2>4, <2>6
  <2> QED
    BY <2>5, <2>6
<1>4. \A s \in SUBSET Procs : s \in T
  <2> HIDE DEF T
  <2> QED
    BY <1>2, <1>3, SetsOfProcs
<1> QED
  BY <1>1, <1>4

(* A sum is an integer.                                                    *)
LEMMA TotalIsInt ==
  ASSUME NEW f \in [Procs -> Int]
  PROVE  Total(f) \in Int
BY TotalSums DEF Sums

(* A sum of natural numbers is one, and nobody's part is greater.          *)
LEMMA TotalOfNat ==
  ASSUME NEW f \in [Procs -> Nat]
  PROVE  Total(f) \in Nat
<1>1. f \in [Procs -> Int]
  OBVIOUS
<1>2. PICK F : Sums(F, f) /\ Total(f) = F[Procs]
  BY <1>1, TotalSums
<1> DEFINE T == {s \in SUBSET Procs : F[s] \in Nat}
<1>3. {} \in T
  BY <1>2 DEF Sums
<1>4. ASSUME NEW s \in SUBSET Procs, s # {}, s \ {Peel(s)} \in T
      PROVE  s \in T
  <2>1. PICK x \in s : x = Peel(s)
    BY <1>4 DEF Peel
  <2>2. F[s] = f[x] + F[s \ {x}] /\ F[s \ {x}] \in Nat /\ f[x] \in Nat
    BY <1>2, <1>4, <2>1 DEF Sums
  <2> QED
    BY <2>2
<1>5. \A s \in SUBSET Procs : s \in T
  <2> HIDE DEF T
  <2> QED
    BY <1>3, <1>4, SetsOfProcs
<1> QED
  BY <1>2, <1>5

(* Counting the members of a set is summing ones.                          *)
LEMMA TotalCounts ==
  ASSUME NEW A \in SUBSET Procs, NEW f,
         f = [p \in Procs |-> IF p \in A THEN 1 ELSE 0]
  PROVE  Total(f) = Cardinality(A)
<1>1. f \in [Procs -> Int]
  OBVIOUS
<1>2. PICK F : Sums(F, f) /\ Total(f) = F[Procs]
  BY <1>1, TotalSums
<1> DEFINE T == {s \in SUBSET Procs : F[s] = Cardinality(A \cap s)}
<1>3. {} \in T
  BY <1>2, FS_EmptySet DEF Sums
<1>4. ASSUME NEW s \in SUBSET Procs, s # {}, s \ {Peel(s)} \in T
      PROVE  s \in T
  <2>1. PICK x \in s : x = Peel(s)
    BY <1>4 DEF Peel
  <2>2. /\ F[s] = f[x] + F[s \ {x}]
        /\ F[s \ {x}] = Cardinality(A \cap (s \ {x}))
    BY <1>2, <1>4, <2>1 DEF Sums
  <2>3. PICK B : B = A \cap s
    OBVIOUS
  <2>4. IsFiniteSet(B) /\ Cardinality(B) \in Nat
    BY <2>3, ProcsAreFinite, FS_Subset, FS_CardinalityType
  <2>5. A \cap (s \ {x}) = B \ {x}
    BY <2>3
  <2>6. Cardinality(B \ {x}) = IF x \in B THEN Cardinality(B) - 1
                                          ELSE Cardinality(B)
    BY <2>4, FS_RemoveElement
  <2>7. f[x] = IF x \in B THEN 1 ELSE 0
    BY <2>3
  <2>8. F[s] = f[x] + Cardinality(B \ {x})
    BY <2>2, <2>5
  <2>9. CASE x \in B
    BY <2>3, <2>4, <2>6, <2>7, <2>8, <2>9
  <2>10. CASE x \notin B
    BY <2>3, <2>4, <2>6, <2>7, <2>8, <2>10
  <2> QED
    BY <2>9, <2>10
<1>5. \A s \in SUBSET Procs : s \in T
  <2> HIDE DEF T
  <2> QED
    BY <1>3, <1>4, SetsOfProcs
<1>6. A \cap Procs = A
  OBVIOUS
<1> QED
  BY <1>2, <1>5, <1>6

-----------------------------------------------------------------------------
(* The work that is left of a set of processes                             *)

Part(x, S) == [p \in Procs |-> IF p \in S THEN x[p] ELSE 0]
Weight(x, S) == Total(Part(x, S))

LEMMA PartType ==
  ASSUME NEW x \in [Procs -> Nat], NEW S
  PROVE  /\ Part(x, S) \in [Procs -> Nat] /\ Part(x, S) \in [Procs -> Int]
         /\ \A p \in Procs : Part(x, S)[p] = IF p \in S THEN x[p] ELSE 0
BY DEF Part

LEMMA WeightType ==
  ASSUME NEW x \in [Procs -> Nat], NEW S
  PROVE  Weight(x, S) \in Nat
BY PartType, TotalOfNat DEF Weight

LEMMA WeightOfUnion ==
  ASSUME NEW x \in [Procs -> Nat], NEW S, NEW R, S \cap R = {}
  PROVE  Weight(x, S \cup R) = Weight(x, S) + Weight(x, R)
<1>1. PICK Q : Q = S \cup R
  OBVIOUS
<1>2. \A p \in Procs : Part(x, Q)[p] = Part(x, S)[p] + Part(x, R)[p]
  BY <1>1, PartType
<1>3. Total(Part(x, Q)) = Total(Part(x, S)) + Total(Part(x, R))
  BY <1>2, PartType, TotalAdds
<1> QED
  BY <1>1, <1>3 DEF Weight

LEMMA WeightOfOne ==
  ASSUME NEW x \in [Procs -> Nat], NEW j \in Procs
  PROVE  Weight(x, {j}) = x[j]
<1>1. \A p \in Procs : p # j => Part(x, {j})[p] = 0
  BY PartType
<1>2. Total(Part(x, {j})) = Part(x, {j})[j]
  BY <1>1, PartType, TotalOfOne
<1> QED
  BY <1>2, PartType DEF Weight

(* A member and the others.                                                *)
LEMMA WeightSplits ==
  ASSUME NEW x \in [Procs -> Nat], NEW S \in SUBSET Procs, NEW j \in S
  PROVE  Weight(x, S) = Weight(x, S \ {j}) + x[j]
<1>1. PICK R \in SUBSET Procs : R = S \ {j}
  OBVIOUS
<1>2. Weight(x, R \cup {j}) = Weight(x, R) + Weight(x, {j})
  BY <1>1, WeightOfUnion
<1>3. R \cup {j} = S
  BY <1>1
<1> QED
  BY <1>1, <1>2, <1>3, WeightOfOne

(* The weight of a set depends on its members only.                        *)
LEMMA SameWeight ==
  ASSUME NEW x, NEW y, NEW S, \A p \in Procs : p \in S => x[p] = y[p]
  PROVE  Weight(x, S) = Weight(y, S)
<1>1. Part(x, S) = Part(y, S)
  BY DEF Part
<1> QED
  BY <1>1 DEF Weight

LEMMA WeightOfNothing ==
  ASSUME NEW x \in [Procs -> Nat], NEW S, \A p \in Procs : p \in S => x[p] = 0
  PROVE  Weight(x, S) = 0
<1>1. 1 \in Procs
  BY SchedAssumption DEF Procs
<1>2. \A p \in Procs : Part(x, S)[p] = 0
  BY PartType
<1>3. Total(Part(x, S)) = Part(x, S)[1]
  BY <1>1, <1>2, PartType, TotalOfOne
<1> QED
  BY <1>1, <1>2, <1>3 DEF Weight

(* While one process runs for a unit, a set that has it loses one.         *)
LEMMA WeightOfRun ==
  ASSUME NEW x \in [Procs -> Nat], NEW y \in [Procs -> Nat],
         NEW S \in SUBSET Procs, NEW j \in Procs, x[j] = y[j] + 1,
         \A p \in Procs : p # j => y[p] = x[p]
  PROVE  Weight(x, S) = Weight(y, S) + IF j \in S THEN 1 ELSE 0
<1>1. CASE j \in S
  <2>1. /\ Weight(x, S) = Weight(x, S \ {j}) + x[j]
        /\ Weight(y, S) = Weight(y, S \ {j}) + y[j]
    BY <1>1, WeightSplits
  <2>2. Weight(x, S \ {j}) = Weight(y, S \ {j})
    <3>1. \A p \in Procs : p \in S \ {j} => x[p] = y[p]
      OBVIOUS
    <3> QED
      BY <3>1, SameWeight
  <2>3. Weight(y, S \ {j}) \in Nat
    BY WeightType
  <2> QED
    BY <1>1, <2>1, <2>2, <2>3
<1>2. CASE j \notin S
  <2>1. Weight(x, S) = Weight(y, S)
    <3>1. \A p \in Procs : p \in S => x[p] = y[p]
      BY <1>2
    <3> QED
      BY <3>1, SameWeight
  <2>2. Weight(y, S) \in Nat
    BY WeightType
  <2> QED
    BY <1>2, <2>1, <2>2
<1> QED
  BY <1>1, <1>2

-----------------------------------------------------------------------------
(* Schedules of a file                                                     *)

\* r[p] is when p runs: for its burst, from its arrival, alone.
Schedule(r) ==
  /\ r \in [Procs -> SUBSET Nat]
  /\ \E h \in Nat : \A p \in Procs : r[p] \subseteq art(p) .. h - 1
  /\ \A p \in Procs : Cardinality(r[p]) = bt(p)
  /\ \A p, q \in Procs : p # q => r[p] \cap r[q] = {}

\* What is left of each burst at time u.
Before(r, p, u) == {v \in r[p] : v < u}
Left(r, u) == [p \in Procs |-> bt(p) - Cardinality(Before(r, p, u))]

\* At time u somebody runs who has no more left than anybody ready.
TakesShortest(r, u) ==
  \A q \in Procs :
    art(q) <= u /\ Left(r, u)[q] > 0 =>
      \E p \in Procs : u \in r[p] /\ Left(r, u)[p] <= Left(r, u)[q]

Arrived(u) == {p \in Procs : art(p) <= u}
DoneBy(r, u) == {p \in Procs : \A v \in r[p] : v < u}

LEMMA FileIsNat ==
  ASSUME TypeOK, NEW p \in Procs
  PROVE  bt(p) \in Nat /\ bt(p) # 0 /\ art(p) \in Nat
BY FileTypes

(* The units of a process are finitely many.                               *)
LEMMA UnitsAreFinite ==
  ASSUME TypeOK, NEW r, Schedule(r), NEW p \in Procs, NEW u
  PROVE  /\ IsFiniteSet(r[p]) /\ IsFiniteSet(Before(r, p, u))
         /\ Cardinality(Before(r, p, u)) \in Nat
         /\ Cardinality(Before(r, p, u)) <= Cardinality(r[p])
         /\ Cardinality(Before(r, p, u)) = Cardinality(r[p])
              => Before(r, p, u) = r[p]
<1>1. PICK h \in Nat : r[p] \subseteq art(p) .. h - 1
  BY DEF Schedule
<1>2. PICK c \in Nat : c = art(p)
  BY FileIsNat
<1>3. IsFiniteSet(c .. h - 1)
  BY <1>1, <1>2, FS_Interval
<1>4. PICK s : s = r[p]
  OBVIOUS
<1>5. IsFiniteSet(s)
  BY <1>1, <1>2, <1>3, <1>4, FS_Subset
<1>6. PICK b \in SUBSET s : b = Before(r, p, u)
  BY <1>4 DEF Before
<1>7. /\ IsFiniteSet(b) /\ Cardinality(b) \in Nat
      /\ Cardinality(b) <= Cardinality(s)
      /\ (Cardinality(b) = Cardinality(s) => b = s)
  BY <1>5, FS_Subset, FS_CardinalityType
<1> QED
  BY <1>4, <1>5, <1>6, <1>7

LEMMA LeftType ==
  ASSUME TypeOK, NEW r, Schedule(r), NEW u
  PROVE  Left(r, u) \in [Procs -> Nat]
<1>1. ASSUME NEW p \in Procs
      PROVE  bt(p) - Cardinality(Before(r, p, u)) \in Nat
  <2>1. /\ Cardinality(Before(r, p, u)) \in Nat
        /\ Cardinality(Before(r, p, u)) <= bt(p)
    BY UnitsAreFinite DEF Schedule
  <2> QED
    BY <2>1, FileIsNat
<1> QED
  BY <1>1 DEF Left

(* Whoever runs at u has one unit less left afterwards, and nobody else.   *)
LEMMA LeftSteps ==
  ASSUME TypeOK, NEW r, Schedule(r), NEW u \in Nat, NEW p \in Procs
  PROVE  /\ u \in r[p] => Left(r, u)[p] = Left(r, u + 1)[p] + 1
         /\ u \notin r[p] => Left(r, u + 1)[p] = Left(r, u)[p]
<1>1. r[p] \subseteq Nat
  BY DEF Schedule
<1>2. PICK b : b = Before(r, p, u)
  OBVIOUS
<1>3. IsFiniteSet(b) /\ Cardinality(b) \in Nat /\ u \notin b
  BY <1>2, UnitsAreFinite DEF Before
<1>4. Before(r, p, u + 1) = IF u \in r[p] THEN b \cup {u} ELSE b
  <2>1. \A v \in r[p] : v < u + 1 <=> v < u \/ v = u
    BY <1>1
  <2> QED
    BY <1>2, <2>1 DEF Before
<1>5. Cardinality(b \cup {u}) = Cardinality(b) + 1
  BY <1>3, FS_AddElement
<1>6. /\ Left(r, u)[p] = bt(p) - Cardinality(b)
      /\ Left(r, u + 1)[p] = bt(p) - Cardinality(Before(r, p, u + 1))
  BY <1>2 DEF Left
<1>7. PICK n \in Nat : n = bt(p)
  BY FileIsNat
<1>8. CASE u \in r[p]
  <2>1. Left(r, u + 1)[p] = n - (Cardinality(b) + 1)
    BY <1>4, <1>5, <1>6, <1>7, <1>8
  <2>2. Left(r, u)[p] = n - Cardinality(b)
    BY <1>6, <1>7
  <2>3. \A c \in Nat : n - c = (n - (c + 1)) + 1
    BY <1>7
  <2> QED
    BY <1>3, <1>8, <2>1, <2>2, <2>3
<1>9. CASE u \notin r[p]
  BY <1>4, <1>6, <1>9
<1> QED
  BY <1>8, <1>9

(* Before a process arrives its whole burst is left.                       *)
LEMMA LeftAtFirst ==
  ASSUME TypeOK, NEW r, Schedule(r), NEW u \in Nat, NEW p \in Procs, u <= art(p)
  PROVE  Left(r, u)[p] = bt(p)
<1>1. PICK h \in Nat : r[p] \subseteq art(p) .. h - 1
  BY DEF Schedule
<1>2. Before(r, p, u) = {}
  BY <1>1, FileIsNat DEF Before
<1> QED
  BY <1>2, FS_EmptySet, FileIsNat DEF Left

(* Nothing is left of a process just if it is done.                        *)
LEMMA NothingLeft ==
  ASSUME TypeOK, NEW r, Schedule(r), NEW u \in Nat, NEW p \in Procs
  PROVE  Left(r, u)[p] = 0 <=> p \in DoneBy(r, u)
<1>1. /\ Left(r, u)[p] = bt(p) - Cardinality(Before(r, p, u))
      /\ Cardinality(r[p]) = bt(p)
  BY DEF Left, Schedule
<1>2. /\ Cardinality(Before(r, p, u)) \in Nat
      /\ Cardinality(Before(r, p, u)) = Cardinality(r[p])
           => Before(r, p, u) = r[p]
  BY UnitsAreFinite
<1>3. Left(r, u)[p] = 0 <=> Before(r, p, u) = r[p]
  BY <1>1, <1>2, FileIsNat
<1>4. Before(r, p, u) = r[p] <=> \A v \in r[p] : v < u
  BY DEF Before
<1> QED
  BY <1>3, <1>4 DEF DoneBy

(* In a unit of time a set of processes loses a unit of work, or none.     *)
LEMMA UnitOfWork ==
  ASSUME TypeOK, NEW r, Schedule(r), NEW u \in Nat,
         NEW x \in [Procs -> Nat], x = Left(r, u),
         NEW y \in [Procs -> Nat], y = Left(r, u + 1),
         NEW S \in SUBSET Procs
  PROVE  Weight(x, S) = Weight(y, S) + IF \E j \in S : u \in r[j] THEN 1 ELSE 0
<1>1. \A p \in Procs : /\ u \in r[p] => x[p] = y[p] + 1
                       /\ u \notin r[p] => y[p] = x[p]
  BY LeftSteps
<1>2. CASE \E j \in Procs : u \in r[j]
  <2>1. PICK j \in Procs : u \in r[j]
    BY <1>2
  <2>2. \A p \in Procs : p # j => u \notin r[p]
    BY <2>1 DEF Schedule
  <2>3. Weight(x, S) = Weight(y, S) + IF j \in S THEN 1 ELSE 0
    BY <1>1, <2>1, <2>2, WeightOfRun
  <2>4. j \in S <=> \E p \in S : u \in r[p]
    BY <2>1, <2>2
  <2> QED
    BY <2>3, <2>4
<1>3. CASE ~ \E j \in Procs : u \in r[j]
  <2>1. Weight(x, S) = Weight(y, S)
    BY <1>1, <1>3, SameWeight
  <2>2. Weight(y, S) \in Nat
    BY WeightType
  <2>3. ~ \E j \in S : u \in r[j]
    BY <1>3
  <2> QED
    BY <2>1, <2>2, <2>3
<1> QED
  BY <1>2, <1>3

-----------------------------------------------------------------------------
(* Whoever takes the shortest is never behind                              *)

\* Of any processes that have arrived, a has as many with no more left of
\* them than b.
Ahead(a, b, u, A) ==
  \A S \in SUBSET A : \E R \in SUBSET A :
    /\ Cardinality(S) <= Cardinality(R)
    /\ Weight(Left(a, u), R) <= Weight(Left(b, u), S)

LEMMA SubsetsOfProcs ==
  ASSUME NEW S \in SUBSET Procs
  PROVE  IsFiniteSet(S) /\ Cardinality(S) \in Nat
BY ProcsAreFinite, FS_Subset, FS_CardinalityType

(* In a unit of time in which a takes the shortest it stays ahead: if the  *)
(* one that runs is not among those it is ahead with, it is exchanged for  *)
(* one of them that has at least as much left.                             *)
LEMMA ShortestStaysAhead ==
  ASSUME TypeOK, NEW a, Schedule(a), NEW b, Schedule(b), NEW u \in Nat,
         TakesShortest(a, u), Ahead(a, b, u, Arrived(u))
  PROVE  Ahead(a, b, u + 1, Arrived(u))
<1>1. PICK x \in [Procs -> Nat] : x = Left(a, u)
  BY LeftType
<1>2. PICK x2 \in [Procs -> Nat] : x2 = Left(a, u + 1)
  BY LeftType
<1>3. PICK y \in [Procs -> Nat] : y = Left(b, u)
  BY LeftType
<1>4. PICK y2 \in [Procs -> Nat] : y2 = Left(b, u + 1)
  BY LeftType
<1>5. PICK A \in SUBSET Procs : A = Arrived(u)
  BY DEF Arrived
<1>6. SUFFICES ASSUME NEW S \in SUBSET A
               PROVE  \E R \in SUBSET A :
                        /\ Cardinality(S) <= Cardinality(R)
                        /\ Weight(x2, R) <= Weight(y2, S)
  BY <1>2, <1>4, <1>5 DEF Ahead
<1>7. PICK R \in SUBSET A : /\ Cardinality(S) <= Cardinality(R)
                            /\ Weight(x, R) <= Weight(y, S)
  BY <1>1, <1>3, <1>5 DEF Ahead
<1>8. \A Q \in SUBSET A : /\ Weight(x, Q) \in Nat /\ Weight(x2, Q) \in Nat
                          /\ Weight(y, Q) \in Nat /\ Weight(y2, Q) \in Nat
  BY WeightType
<1>9. Weight(y, S) <= Weight(y2, S) + 1
  <2>1. Weight(y, S) = Weight(y2, S) + IF \E j \in S : u \in b[j] THEN 1 ELSE 0
    BY <1>3, <1>4, UnitOfWork
  <2> QED
    BY <1>8, <2>1
<1>10. \A Q \in SUBSET A :
         Weight(x, Q) = Weight(x2, Q) + IF \E j \in Q : u \in a[j] THEN 1 ELSE 0
  BY <1>1, <1>2, UnitOfWork
<1>11. CASE \A p \in Procs : p \in R => x[p] = 0
  <2>1. Weight(x, R) = 0
    BY <1>11, WeightOfNothing
  <2>2. Weight(x2, R) <= Weight(x, R)
    BY <1>8, <1>10
  <2>3. Weight(x2, R) <= Weight(y2, S)
    BY <1>8, <2>1, <2>2
  <2> QED
    BY <1>7, <2>3
<1>12. CASE \E p \in Procs : p \in R /\ x[p] # 0
  <2>1. PICK p \in R : p \in Procs /\ x[p] > 0
    BY <1>12
  <2>2. art(p) <= u
    BY <1>5, <2>1 DEF Arrived
  <2>3. PICK j \in Procs : u \in a[j] /\ x[j] <= x[p]
    BY <1>1, <2>1, <2>2 DEF TakesShortest
  <2>4. j \in A
    <3>1. PICK h \in Nat : a[j] \subseteq art(j) .. h - 1
      BY DEF Schedule
    <3>2. art(j) <= u
      BY <2>3, <3>1, FileIsNat
    <3> QED
      BY <1>5, <3>2 DEF Arrived
  <2>5. CASE j \in R
    <3>1. Weight(x, R) = Weight(x2, R) + 1
      <4>1. \E k \in R : u \in a[k]
        BY <2>3, <2>5
      <4> QED
        BY <1>10, <4>1
    <3>2. Weight(x2, R) <= Weight(y2, S)
      BY <1>7, <1>8, <1>9, <3>1
    <3> QED
      BY <1>7, <3>2
  <2>6. CASE j \notin R
    <3>1. PICK K \in SUBSET A : K = R \ {p}
      OBVIOUS
    <3>2. PICK Q \in SUBSET A : Q = K \cup {j}
      BY <2>4
    <3>3. Cardinality(Q) = Cardinality(R)
      <4>1. IsFiniteSet(R) /\ Cardinality(R) \in Nat /\ IsFiniteSet(K)
        BY <3>1, SubsetsOfProcs
      <4>2. Cardinality(K) = Cardinality(R) - 1
        BY <2>1, <3>1, <4>1, FS_RemoveElement
      <4>3. j \notin K
        BY <2>6, <3>1
      <4>4. Cardinality(K \cup {j}) = Cardinality(K) + 1
        BY <4>1, <4>3, FS_AddElement
      <4> QED
        BY <3>2, <4>1, <4>2, <4>4
    <3>4. Weight(x, Q) <= Weight(x, R)
      <4>1. Weight(x, R) = Weight(x, K) + x[p]
        BY <2>1, <3>1, WeightSplits
      <4>2. Weight(x, Q) = Weight(x, K) + x[j]
        <5>1. j \in Q /\ Q \ {j} = K
          BY <2>6, <3>1, <3>2
        <5>2. Weight(x, Q) = Weight(x, Q \ {j}) + x[j]
          BY <5>1, WeightSplits
        <5> QED
          BY <5>1, <5>2
      <4>3. Weight(x, K) \in Nat /\ x[j] \in Nat /\ x[p] \in Nat
        BY <1>8, <2>1
      <4> QED
        BY <2>3, <4>1, <4>2, <4>3
    <3>5. Weight(x, Q) = Weight(x2, Q) + 1
      <4>1. \E k \in Q : u \in a[k]
        BY <2>3, <3>2
      <4> QED
        BY <1>10, <4>1
    <3>6. Weight(x2, Q) <= Weight(y2, S)
      <4>1. /\ Weight(x, Q) \in Nat /\ Weight(x2, Q) \in Nat
            /\ Weight(x, R) \in Nat
            /\ Weight(y, S) \in Nat /\ Weight(y2, S) \in Nat
        BY <1>8
      <4> QED
        BY <1>7, <1>9, <3>4, <3>5, <4>1
    <3> QED
      BY <1>7, <3>3, <3>6
  <2> QED
    BY <2>5, <2>6
<1> QED
  BY <1>11, <1>12

(* New arrivals have their whole bursts left in every schedule.            *)
LEMMA ArrivalsKeepAhead ==
  ASSUME TypeOK, NEW a, Schedule(a), NEW b, Schedule(b), NEW u \in Nat,
         Ahead(a, b, u + 1, Arrived(u))
  PROVE  Ahead(a, b, u + 1, Arrived(u + 1))
<1>1. PICK x \in [Procs -> Nat] : x = Left(a, u + 1)
  BY LeftType
<1>2. PICK y \in [Procs -> Nat] : y = Left(b, u + 1)
  BY LeftType
<1>3. PICK A \in SUBSET Procs : A = Arrived(u)
  BY DEF Arrived
<1>4. PICK B \in SUBSET Procs : B = Arrived(u + 1)
  BY DEF Arrived
<1>5. A \subseteq B
  BY <1>3, <1>4, FileIsNat DEF Arrived
<1>6. SUFFICES ASSUME NEW S \in SUBSET B
               PROVE  \E R \in SUBSET B :
                        /\ Cardinality(S) <= Cardinality(R)
                        /\ Weight(x, R) <= Weight(y, S)
  BY <1>1, <1>2, <1>4 DEF Ahead
<1>7. PICK O \in SUBSET A : O = S \cap A
  OBVIOUS
<1>8. PICK M \in SUBSET B : M = S \ A
  OBVIOUS
<1>9. PICK R \in SUBSET A : /\ Cardinality(O) <= Cardinality(R)
                            /\ Weight(x, R) <= Weight(y, O)
  BY <1>1, <1>2, <1>3 DEF Ahead
<1>10. PICK Q \in SUBSET B : Q = R \cup M
  BY <1>5
<1>11. O \cap M = {} /\ R \cap M = {} /\ S = O \cup M
  BY <1>7, <1>8
<1>12. Weight(x, M) = Weight(y, M)
  <2>1. ASSUME NEW p \in Procs, p \in M
        PROVE  x[p] = y[p]
    <3>1. ~ (art(p) <= u)
      BY <1>3, <1>8, <2>1 DEF Arrived
    <3>2. u + 1 <= art(p)
      BY <3>1, FileIsNat
    <3> QED
      BY <1>1, <1>2, <3>2, LeftAtFirst
  <2> QED
    BY <2>1, SameWeight
<1>13. Weight(x, Q) <= Weight(y, S)
  <2>1. /\ Weight(x, Q) = Weight(x, R) + Weight(x, M)
        /\ Weight(y, S) = Weight(y, O) + Weight(y, M)
    BY <1>10, <1>11, WeightOfUnion
  <2>2. /\ Weight(x, R) \in Nat /\ Weight(x, M) \in Nat
        /\ Weight(y, O) \in Nat /\ Weight(y, M) \in Nat
    BY WeightType
  <2> QED
    BY <1>9, <1>12, <2>1, <2>2
<1>14. Cardinality(S) <= Cardinality(Q)
  <2>1. /\ IsFiniteSet(O) /\ IsFiniteSet(M) /\ IsFiniteSet(R)
        /\ Cardinality(O) \in Nat /\ Cardinality(M) \in Nat
        /\ Cardinality(R) \in Nat
    BY SubsetsOfProcs
  <2>2. /\ Cardinality(O \cup M)
             = Cardinality(O) + Cardinality(M) - Cardinality(O \cap M)
        /\ Cardinality(R \cup M)
             = Cardinality(R) + Cardinality(M) - Cardinality(R \cap M)
    BY <2>1, FS_Union
  <2>3. Cardinality(O \cap M) = 0 /\ Cardinality(R \cap M) = 0
    BY <1>11, FS_EmptySet
  <2>4. /\ Cardinality(S) = Cardinality(O) + Cardinality(M)
        /\ Cardinality(Q) = Cardinality(R) + Cardinality(M)
    BY <1>10, <1>11, <2>1, <2>2, <2>3
  <2> QED
    BY <1>9, <2>1, <2>4
<1> QED
  BY <1>13, <1>14

(* At every time whoever takes the shortest has finished at least as many. *)
LEMMA ShortestFinishesFirst ==
  ASSUME TypeOK, NEW a, Schedule(a), NEW b, Schedule(b),
         \A u \in Nat : TakesShortest(a, u), NEW w \in Nat
  PROVE  Cardinality(DoneBy(b, w)) <= Cardinality(DoneBy(a, w))
<1> DEFINE T == {u \in Nat : Ahead(a, b, u, Arrived(u))}
<1>1. 0 \in T
  <2>1. \A p \in Procs : Left(a, 0)[p] = Left(b, 0)[p]
    BY LeftAtFirst, FileIsNat
  <2>2. PICK x \in [Procs -> Nat] : x = Left(a, 0)
    BY LeftType
  <2>3. PICK y \in [Procs -> Nat] : y = Left(b, 0)
    BY LeftType
  <2>4. x = y
    BY <2>1, <2>2, <2>3
  <2>5. \A S \in SUBSET Procs : Cardinality(S) \in Nat /\ Weight(x, S) \in Nat
    BY SubsetsOfProcs, WeightType
  <2>6. Arrived(0) \subseteq Procs
    BY DEF Arrived
  <2>7. \A S \in SUBSET Arrived(0) :
          /\ Cardinality(S) <= Cardinality(S)
          /\ Weight(x, S) <= Weight(y, S)
    BY <2>4, <2>5, <2>6
  <2> QED
    BY <2>2, <2>3, <2>7 DEF Ahead
<1>2. \A u \in Nat : u \in T => u + 1 \in T
  BY ShortestStaysAhead, ArrivalsKeepAhead
<1>3. w \in T
  <2> HIDE DEF T
  <2> QED
    BY <1>1, <1>2, NatSet
<1>4. PICK A \in SUBSET Procs : A = Arrived(w)
  BY DEF Arrived
<1>5. PICK S \in SUBSET Procs : S = DoneBy(b, w)
  BY DEF DoneBy
<1>6. S \subseteq A
  <2>1. ASSUME NEW p \in Procs, p \in DoneBy(b, w)
        PROVE  art(p) <= w
    <3>1. PICK h \in Nat : b[p] \subseteq art(p) .. h - 1
      BY DEF Schedule
    <3>2. b[p] # {}
      BY FileIsNat, FS_EmptySet DEF Schedule
    <3>3. PICK v \in b[p] : TRUE
      BY <3>2
    <3>4. v < w
      BY <2>1 DEF DoneBy
    <3> QED
      BY <3>1, <3>3, <3>4, FileIsNat
  <2> QED
    BY <1>4, <1>5, <2>1 DEF Arrived
<1>7. PICK x \in [Procs -> Nat] : x = Left(a, w)
  BY LeftType
<1>8. PICK y \in [Procs -> Nat] : y = Left(b, w)
  BY LeftType
<1>9. PICK R \in SUBSET A : /\ Cardinality(S) <= Cardinality(R)
                            /\ Weight(x, R) <= Weight(y, S)
  BY <1>3, <1>4, <1>6, <1>7, <1>8 DEF Ahead
<1>10. Weight(y, S) = 0
  <2>1. \A p \in Procs : p \in S => y[p] = 0
    BY <1>5, <1>8, NothingLeft
  <2> QED
    BY <2>1, WeightOfNothing
<1>11. R \subseteq DoneBy(a, w)
  <2>1. ASSUME NEW p \in R
        PROVE  p \in DoneBy(a, w)
    <3>1. p \in Procs /\ x[p] \in Nat
      OBVIOUS
    <3>2. Weight(x, R) = Weight(x, R \ {p}) + x[p]
      BY WeightSplits
    <3>3. Weight(x, R \ {p}) \in Nat /\ Weight(x, R) \in Nat
      BY WeightType
    <3>4. x[p] = 0
      BY <1>9, <1>10, <3>1, <3>2, <3>3
    <3> QED
      BY <1>7, <3>1, <3>4, NothingLeft
  <2> QED
    BY <2>1
<1>12. PICK D \in SUBSET Procs : D = DoneBy(a, w)
  BY DEF DoneBy
<1>13. /\ Cardinality(R) <= Cardinality(D)
       /\ Cardinality(R) \in Nat /\ Cardinality(D) \in Nat
       /\ Cardinality(S) \in Nat
  <2>1. R \in SUBSET D /\ IsFiniteSet(D)
    BY <1>11, <1>12, SubsetsOfProcs
  <2> QED
    BY <2>1, FS_Subset, SubsetsOfProcs
<1>14. Cardinality(S) <= Cardinality(D)
  BY <1>9, <1>13
<1> QED
  BY <1>5, <1>12, <1>14

-----------------------------------------------------------------------------
(* Finishing more by every time is waiting less in total                   *)

\* E[p] is when p ends in schedule r.
EndsOf(E, r) ==
  /\ E \in [Procs -> Nat]
  /\ \A p \in Procs : /\ E[p] - 1 \in r[p]
                      /\ \A v \in r[p] : v <= E[p] - 1

\* The ends up to time u.
UpTo(E, u) == [p \in Procs |-> IF E[p] <= u THEN E[p] ELSE u]

LEMMA UpToType ==
  ASSUME NEW E \in [Procs -> Nat], NEW u \in Nat
  PROVE  UpTo(E, u) \in [Procs -> Nat] /\ UpTo(E, u) \in [Procs -> Int]
BY DEF UpTo

(* Each unit of time adds one for everybody who is not done.               *)
LEMMA TotalUpTo ==
  ASSUME TypeOK, NEW r, Schedule(r), NEW E, EndsOf(E, r), NEW u \in Nat
  PROVE  Total(UpTo(E, u + 1))
           = Total(UpTo(E, u)) + (N - Cardinality(DoneBy(r, u)))
<1>1. E \in [Procs -> Nat]
  BY DEF EndsOf
<1>2. PICK A \in SUBSET Procs : A = Procs \ DoneBy(r, u)
  OBVIOUS
<1>3. PICK f : f = [p \in Procs |-> IF p \in A THEN 1 ELSE 0]
  OBVIOUS
<1>4. f \in [Procs -> Int]
  BY <1>3
<1>5. \A p \in Procs : p \in A <=> ~ (E[p] <= u)
  <2>1. ASSUME NEW p \in Procs
        PROVE  (\A v \in r[p] : v < u) <=> E[p] <= u
    <3>1. E[p] - 1 \in r[p] /\ \A v \in r[p] : v <= E[p] - 1
      BY DEF EndsOf
    <3>2. r[p] \subseteq Nat /\ E[p] \in Nat
      BY <1>1 DEF Schedule
    <3>3. (\A v \in r[p] : v < u) => E[p] <= u
      BY <3>1, <3>2
    <3>4. E[p] <= u => \A v \in r[p] : v < u
      BY <3>1, <3>2
    <3> QED
      BY <3>3, <3>4
  <2> QED
    BY <1>2, <2>1 DEF DoneBy
<1>6. PICK g : g = UpTo(E, u)
  OBVIOUS
<1>7. PICK h : h = UpTo(E, u + 1)
  OBVIOUS
<1>8. g \in [Procs -> Int] /\ h \in [Procs -> Int]
  BY <1>1, <1>6, <1>7, UpToType
<1>9. ASSUME NEW p \in Procs
      PROVE  h[p] = g[p] + f[p]
  <2>1. E[p] \in Nat
    BY <1>1
  <2>2. /\ h[p] = IF E[p] <= u + 1 THEN E[p] ELSE u + 1
        /\ g[p] = IF E[p] <= u THEN E[p] ELSE u
        /\ f[p] = IF E[p] <= u THEN 0 ELSE 1
    BY <1>3, <1>5, <1>6, <1>7 DEF UpTo
  <2> QED
    BY <2>1, <2>2
<1>10. Total(h) = Total(g) + Total(f)
  BY <1>4, <1>8, <1>9, TotalAdds
<1>11. Total(f) = Cardinality(A)
  BY <1>3, TotalCounts
<1>12. Cardinality(A) = N - Cardinality(DoneBy(r, u))
  <2>1. Cardinality(Procs \ DoneBy(r, u))
          = Cardinality(Procs) - Cardinality(Procs \cap DoneBy(r, u))
    <3>1. PICK D : D = DoneBy(r, u)
      OBVIOUS
    <3>2. Cardinality(Procs \ D)
            = Cardinality(Procs) - Cardinality(Procs \cap D)
      BY ProcsAreFinite, FS_Difference
    <3> QED
      BY <3>1, <3>2
  <2>2. Procs \cap DoneBy(r, u) = DoneBy(r, u)
    BY DEF DoneBy
  <2> QED
    BY <1>2, <2>1, <2>2, ProcsAreFinite
<1> QED
  BY <1>6, <1>7, <1>10, <1>11, <1>12

(* The sum of the ends is least if the shortest is always taken.           *)
LEMMA ShortestEndsFirst ==
  ASSUME TypeOK, NEW a, Schedule(a), NEW b, Schedule(b),
         \A u \in Nat : TakesShortest(a, u),
         NEW E, EndsOf(E, a), NEW F, EndsOf(F, b)
  PROVE  Total(E) <= Total(F)
<1>0. E \in [Procs -> Nat] /\ F \in [Procs -> Nat]
  BY DEF EndsOf
<1> DEFINE T == {u \in Nat : Total(UpTo(E, u)) <= Total(UpTo(F, u))}
<1>1. \A u \in Nat : Total(UpTo(E, u)) \in Nat /\ Total(UpTo(F, u)) \in Nat
  BY <1>0, UpToType, TotalOfNat
<1>2. 0 \in T
  <2>1. UpTo(E, 0) = UpTo(F, 0)
    <3>1. \A p \in Procs : (IF E[p] <= 0 THEN E[p] ELSE 0)
                             = (IF F[p] <= 0 THEN F[p] ELSE 0)
      BY <1>0
    <3> QED
      BY <3>1 DEF UpTo
  <2> QED
    BY <1>1, <2>1
<1>3. ASSUME NEW u \in Nat, u \in T
      PROVE  u + 1 \in T
  <2>1. Cardinality(DoneBy(b, u)) <= Cardinality(DoneBy(a, u))
    BY ShortestFinishesFirst
  <2>2. Cardinality(DoneBy(b, u)) \in Nat /\ Cardinality(DoneBy(a, u)) \in Nat
    <3>1. PICK S \in SUBSET Procs : S = DoneBy(b, u)
      BY DEF DoneBy
    <3>2. PICK R \in SUBSET Procs : R = DoneBy(a, u)
      BY DEF DoneBy
    <3> QED
      BY <3>1, <3>2, SubsetsOfProcs
  <2>3. /\ Total(UpTo(E, u + 1))
             = Total(UpTo(E, u)) + (N - Cardinality(DoneBy(a, u)))
        /\ Total(UpTo(F, u + 1))
             = Total(UpTo(F, u)) + (N - Cardinality(DoneBy(b, u)))
    BY TotalUpTo
  <2>4. Total(UpTo(E, u)) <= Total(UpTo(F, u))
    BY <1>3
  <2>5. Total(UpTo(E, u)) \in Nat /\ Total(UpTo(F, u)) \in Nat /\ N \in Nat
    BY <1>1, SchedAssumption
  <2>6. Total(UpTo(E, u + 1)) <= Total(UpTo(F, u + 1))
    BY <2>1, <2>2, <2>3, <2>4, <2>5
  <2> QED
    BY <2>6
<1>4. \A u \in Nat : u \in T
  <2> HIDE DEF T
  <2> QED
    BY <1>2, <1>3, NatSet
<1>5. PICK u \in Nat : \A p \in Procs : E[p] <= u /\ F[p] <= u
  <2>1. PICK h \in Nat : \A p \in Procs : a[p] \subseteq art(p) .. h - 1
    BY DEF Schedule
  <2>2. PICK k \in Nat : \A p \in Procs : b[p] \subseteq art(p) .. k - 1
    BY DEF Schedule
  <2>3. h + k \in Nat
    OBVIOUS
  <2>4. ASSUME NEW p \in Procs
        PROVE  E[p] <= h + k /\ F[p] <= h + k
    <3>1. E[p] - 1 \in art(p) .. h - 1 /\ F[p] - 1 \in art(p) .. k - 1
      BY <2>1, <2>2 DEF EndsOf
    <3>2. E[p] \in Nat /\ F[p] \in Nat /\ art(p) \in Nat
      BY <1>0, FileIsNat
    <3> QED
      BY <3>1, <3>2
  <2> QED
    BY <2>3, <2>4
<1>6. UpTo(E, u) = E /\ UpTo(F, u) = F
  BY <1>0, <1>5 DEF UpTo
<1> QED
  BY <1>4, <1>5, <1>6

\* The waiting times of a schedule that ends as E says.
WaitsTo(E) == [p \in Procs |-> E[p] - bt(p) - art(p)]

LEMMA ShortestWaitsLeast ==
  ASSUME TypeOK, NEW a, Schedule(a), NEW b, Schedule(b),
         \A u \in Nat : TakesShortest(a, u),
         NEW E, EndsOf(E, a), NEW F, EndsOf(F, b)
  PROVE  Total(WaitsTo(E)) <= Total(WaitsTo(F))
<1>1. E \in [Procs -> Int] /\ F \in [Procs -> Int]
  BY DEF EndsOf
<1>2. PICK c \in [Procs -> Int] : \A p \in Procs : c[p] = 0 - bt(p) - art(p)
  <2>1. [p \in Procs |-> 0 - bt(p) - art(p)] \in [Procs -> Int]
    BY FileIsNat
  <2> QED
    BY <2>1
<1>3. /\ WaitsTo(E) \in [Procs -> Int] /\ WaitsTo(F) \in [Procs -> Int]
      /\ \A p \in Procs : /\ WaitsTo(E)[p] = E[p] + c[p]
                          /\ WaitsTo(F)[p] = F[p] + c[p]
  <2>1. ASSUME NEW p \in Procs
        PROVE  /\ E[p] - bt(p) - art(p) \in Int
               /\ F[p] - bt(p) - art(p) \in Int
               /\ E[p] - bt(p) - art(p) = E[p] + c[p]
               /\ F[p] - bt(p) - art(p) = F[p] + c[p]
    <3>1. /\ E[p] \in Int /\ F[p] \in Int /\ bt(p) \in Nat /\ art(p) \in Nat
          /\ c[p] = 0 - bt(p) - art(p)
      BY <1>1, <1>2, FileIsNat
    <3> QED
      BY <3>1
  <2> QED
    BY <2>1 DEF WaitsTo
<1>4. PICK e : e = WaitsTo(E)
  OBVIOUS
<1>5. PICK f : f = WaitsTo(F)
  OBVIOUS
<1>6. /\ Total(e) = Total(E) + Total(c) /\ Total(f) = Total(F) + Total(c)
      /\ Total(E) \in Int /\ Total(F) \in Int /\ Total(c) \in Int
  <2>1. /\ e \in [Procs -> Int] /\ f \in [Procs -> Int]
        /\ \A p \in Procs : e[p] = E[p] + c[p] /\ f[p] = F[p] + c[p]
    BY <1>3, <1>4, <1>5
  <2>2. /\ Total(E) \in Int /\ Total(c) \in Int
        /\ Total(e) = Total(E) + Total(c)
    BY <1>1, <1>2, <2>1, TotalAdds
  <2>3. Total(F) \in Int /\ Total(f) = Total(F) + Total(c)
    BY <1>1, <1>2, <2>1, TotalAdds
  <2> QED
    BY <2>2, <2>3
<1>7. Total(E) <= Total(F)
  BY ShortestEndsFirst
<1> QED
  BY <1>4, <1>5, <1>6, <1>7

-----------------------------------------------------------------------------
(* The four simulations of one file                                        *)

\* total_wt[k] is the sum of the waiting times of a schedule, for k = 2 of
\* one that always takes the shortest.
Simulated(k) ==
  \E r, E, w :
    /\ Schedule(r) /\ EndsOf(E, r)
    /\ w = WaitsTo(E) /\ total_wt[k] = Total(w)
    /\ k = 2 => \A u \in Nat : TakesShortest(r, u)

\* The simulations still to come.
InOrder ==
  \/ Len(total_wt) = 0 /\ todo = <<"FCFS", "SJF", "Priority", "RR">>
  \/ Len(total_wt) = 1 /\ todo = <<"SJF", "Priority", "RR">>
  \/ Len(total_wt) = 2 /\ todo = <<"Priority", "RR">>
  \/ Len(total_wt) = 3 /\ todo = <<"RR">>
  \/ Len(total_wt) = 4 /\ todo = << >>

ShortestSoFar == \A u \in 0 .. t - 1 : TakesShortest(ran, u)

SumsInv ==
  /\ total_wt \in Seq(Int)
  /\ InOrder
  /\ step # "read" /\ alg = "SJF" => ShortestSoFar
  /\ \A k \in 1 .. Len(total_wt) : Simulated(k)

LEMMA SameFile ==
  ASSUME file' = file, NEW r, NEW E, NEW u
  PROVE  /\ Schedule(r)' <=> Schedule(r)
         /\ WaitsTo(E)' = WaitsTo(E)
         /\ TakesShortest(r, u)' <=> TakesShortest(r, u)
BY DEF Schedule, WaitsTo, TakesShortest, Left, Before, bt, art

LEMMA SimulatedStays ==
  ASSUME file' = file, NEW k, total_wt'[k] = total_wt[k], Simulated(k)
  PROVE  Simulated(k)'
<1>1. PICK r, E, w : /\ Schedule(r) /\ EndsOf(E, r)
                     /\ w = WaitsTo(E) /\ total_wt[k] = Total(w)
                     /\ k = 2 => \A u \in Nat : TakesShortest(r, u)
  BY DEF Simulated
<1>2. /\ Schedule(r)' /\ EndsOf(E, r) /\ w = WaitsTo(E)'
      /\ k = 2 => \A u \in Nat : TakesShortest(r, u)'
  BY <1>1, SameFile
<1> QED
  BY <1>1, <1>2 DEF Simulated, EndsOf

(* While SJF simulates, what is left of each burst is what remains of it.  *)
LEMMA LeftRemains ==
  ASSUME Inv, step = "loop", alg = "SJF", NEW p \in Procs
  PROVE  Before(ran, p, t) = ran[p] /\ bt(p) - Cardinality(ran[p]) = rem_bt[p]
<1>1. ran[p] \subseteq art(p) .. t - 1 /\ t \in Nat /\ art(p) \in Nat
  BY FileIsNat DEF Inv, Scheduled, TypeOK
<1>2. Before(ran, p, t) = ran[p]
  BY <1>1 DEF Before
<1>3. /\ rem_bt[p] + Cardinality(ran[p]) = bt(p)
      /\ rem_bt[p] \in Nat /\ bt(p) \in Nat
  BY FileIsNat DEF Inv, InParts, TypeOK
<1>4. Cardinality(ran[p]) \in Nat
  BY RanIsFinite DEF Inv
<1> QED
  BY <1>2, <1>3, <1>4

(* SJF takes the shortest, also at this turn of its loop.                  *)
LEMMA SjfTakesShortest ==
  ASSUME Inv, findWaitingTimeSJF, ShortestSoFar
  PROVE  ShortestSoFar'
<1>1. /\ step = "loop" /\ alg = "SJF" /\ TypeOK /\ UNCHANGED file
  BY DEF findWaitingTimeSJF, Loop, Inv
<1>2. t \in Nat /\ ran \in [Procs -> SUBSET Nat]
  BY <1>1 DEF TypeOK
<1>3. \A p \in Procs : /\ Before(ran, p, t) = ran[p]
                       /\ bt(p) - Cardinality(ran[p]) = rem_bt[p]
                       /\ \A v \in ran[p] : v \in Nat /\ v < t
  <2>1. ASSUME NEW p \in Procs
        PROVE  \A v \in ran[p] : v \in Nat /\ v < t
    <3>1. ran[p] \subseteq art(p) .. t - 1 /\ art(p) \in Nat
      BY <1>1, FileIsNat DEF Inv, Scheduled
    <3> QED
      BY <1>2, <3>1
  <2> QED
    BY <1>1, <2>1, LeftRemains
<1>4. PICK r : r = ran
  OBVIOUS
<1>5. PICK s : s = ran'
  OBVIOUS
<1>6. SUFFICES ASSUME NEW u \in 0 .. t' - 1
               PROVE  TakesShortest(s, u)
  BY <1>1, <1>5, SameFile DEF ShortestSoFar
<1>7. CASE complete < N /\ \E p \in Procs : Ready(p)
  <2>1. PICK j \in Procs :
          /\ j = min_index /\ Ready(j)
          /\ \A q \in Procs : Ready(q) => rem_bt[j] <= rem_bt[q]
    BY <1>1, <1>7, ShortestIsReady
  <2>2. t' = t + 1 /\ Runs(j, t, t')
    BY <1>7, <2>1 DEF findWaitingTimeSJF
  <2>3. /\ s[j] = r[j] \cup {t}
        /\ \A p \in Procs : p # j => s[p] = r[p]
    <3>1. t .. t' - 1 = {t}
      BY <1>2, <2>2
    <3> QED
      BY <1>2, <1>4, <1>5, <2>2, <3>1 DEF Runs
  <2>4. \A p \in Procs : \A v \in 0 .. t : Before(s, p, v) = Before(r, p, v)
    <3>1. ASSUME NEW p \in Procs, NEW v \in 0 .. t
          PROVE  Before(s, p, v) = Before(r, p, v)
      <4>1. ~ (t < v)
        BY <1>2
      <4>2. CASE p = j
        BY <2>3, <4>1, <4>2 DEF Before
      <4>3. CASE p # j
        BY <2>3, <4>3 DEF Before
      <4> QED
        BY <4>2, <4>3
    <3> QED
      BY <3>1
  <2>5. u \in 0 .. t
    BY <1>2, <2>2
  <2>6. Left(s, u) = Left(r, u)
    BY <2>4, <2>5 DEF Left
  <2>7. CASE u = t
    <3>1. \A p \in Procs : Left(s, u)[p] = rem_bt[p]
      BY <1>3, <1>4, <2>6, <2>7 DEF Left
    <3>2. t \in s[j]
      BY <2>3
    <3> QED
      BY <2>1, <2>7, <3>1, <3>2 DEF TakesShortest, Ready
  <2>8. CASE u # t
    <3>1. u \in 0 .. t - 1
      BY <1>2, <2>5, <2>8
    <3>2. TakesShortest(r, u)
      BY <1>4, <3>1 DEF ShortestSoFar
    <3>3. \A p \in Procs : u \in r[p] => u \in s[p]
      BY <2>3
    <3> QED
      BY <2>6, <3>2, <3>3 DEF TakesShortest
  <2> QED
    BY <2>7, <2>8
<1>8. CASE ~ (complete < N /\ \E p \in Procs : Ready(p))
  <2>1. s = r
    BY <1>4, <1>5, <1>8 DEF findWaitingTimeSJF
  <2>2. CASE u \in 0 .. t - 1
    BY <1>4, <2>1, <2>2 DEF ShortestSoFar
  <2>3. CASE u \notin 0 .. t - 1
    <3>1. complete < N /\ t' = t + 1
      <4>1. CASE complete < N
        BY <1>8, <4>1 DEF findWaitingTimeSJF, Idle
      <4>2. CASE ~ (complete < N)
        BY <2>3, <4>2 DEF findWaitingTimeSJF
      <4> QED
        BY <4>1, <4>2
    <3>2. u = t
      BY <1>2, <2>3, <3>1
    <3>3. \A p \in Procs : ~ Ready(p)
      BY <1>8, <3>1
    <3>4. \A p \in Procs : Left(s, u)[p] = rem_bt[p]
      BY <1>3, <1>4, <2>1, <3>2 DEF Left
    <3> QED
      BY <3>2, <3>3, <3>4 DEF TakesShortest, Ready
  <2> QED
    BY <2>2, <2>3
<1> QED
  BY <1>7, <1>8

(* At the end of a simulation ran is a schedule, and wt its waiting times. *)
LEMMA MeasuredIsSchedule ==
  ASSUME Inv, step = "metrics"
  PROVE  \E r, E : r = ran /\ Schedule(r) /\ EndsOf(E, r) /\ wt = WaitsTo(E)
<1>0. TypeOK /\ Scheduled /\ \A p \in Procs : Finished(p)
  BY DEF Inv
<1>1. PICK r : r = ran
  OBVIOUS
<1>2. Schedule(r)
  BY <1>0, <1>1 DEF Schedule, Scheduled, TypeOK, Finished
<1>3. PICK E : E = [p \in Procs |-> wt[p] + bt(p) + art(p)]
  OBVIOUS
<1>4. ASSUME NEW p \in Procs
      PROVE  /\ E[p] \in Nat /\ E[p] - 1 \in r[p]
             /\ \A v \in r[p] : v <= E[p] - 1
             /\ E[p] - bt(p) - art(p) = wt[p]
  <2>1. PICK e \in Nat : EndsAt(p, e) /\ wt[p] = (e + 1) - bt(p) - art(p)
    BY <1>0 DEF Finished, WaitAt
  <2>2. bt(p) \in Nat /\ art(p) \in Nat
    BY <1>0, FileIsNat
  <2>3. E[p] = wt[p] + bt(p) + art(p)
    BY <1>3
  <2>4. E[p] = e + 1 /\ E[p] - 1 = e
    BY <2>1, <2>2, <2>3
  <2>5. e \in r[p] /\ \A v \in r[p] : v <= e
    BY <1>1, <2>1 DEF EndsAt
  <2>6. E[p] - bt(p) - art(p) = wt[p]
    BY <2>1, <2>4
  <2> QED
    BY <2>4, <2>5, <2>6
<1>5. E \in [Procs -> Nat]
  BY <1>3, <1>4
<1>6. EndsOf(E, r)
  BY <1>4, <1>5 DEF EndsOf
<1>7. wt = WaitsTo(E)
  <2>1. wt = [p \in Procs |-> wt[p]]
    BY <1>0 DEF TypeOK
  <2> QED
    BY <1>4, <2>1 DEF WaitsTo
<1> QED
  BY <1>1, <1>2, <1>6, <1>7

(* After the end nobody has anything left.                                 *)
LEMMA AllTakesShortest ==
  ASSUME Inv, step = "metrics", ShortestSoFar,
         NEW r, r = ran, Schedule(r), NEW u \in Nat
  PROVE  TakesShortest(r, u)
<1>1. TypeOK /\ t \in Nat
  BY DEF Inv, TypeOK
<1>2. CASE u \in 0 .. t - 1
  BY <1>2 DEF ShortestSoFar
<1>3. CASE u \notin 0 .. t - 1
  <2>1. ASSUME NEW p \in Procs
        PROVE  Left(r, u)[p] = 0
    <3>1. r[p] \subseteq art(p) .. t - 1 /\ art(p) \in Nat
      BY <1>1, FileIsNat DEF Inv, Scheduled
    <3>2. \A v \in r[p] : v < u
      BY <1>1, <1>3, <3>1
    <3> QED
      BY <1>1, <3>2, NothingLeft DEF DoneBy
  <2> QED
    BY <2>1 DEF TakesShortest
<1> QED
  BY <1>2, <1>3

(* printMetrics adds the sum of a schedule.                                *)
LEMMA MetricsKeepSums ==
  ASSUME Inv, SumsInv, printMetrics
  PROVE  SumsInv'
<1>1. /\ step = "metrics" /\ step' = "read" /\ UNCHANGED file
      /\ todo' = Tail(todo) /\ TypeOK /\ todo # << >>
  BY DEF printMetrics, Inv, TypeOK
<1>2. PICK w : w = wt
  OBVIOUS
<1>3. w \in [Procs -> Int] /\ Total(w) \in Int
  <2>1. w \in [Procs -> Int]
    BY <1>1, <1>2 DEF TypeOK
  <2> QED
    BY <2>1, TotalIsInt
<1>4. total_wt' = Append(total_wt, Total(w))
  BY <1>2 DEF printMetrics, Total
<1>5. PICK n \in Nat : n = Len(total_wt)
  BY LenProperties DEF SumsInv
<1>6. /\ total_wt' \in Seq(Int) /\ Len(total_wt') = n + 1
      /\ total_wt'[n + 1] = Total(w)
      /\ \A k \in 1 .. n : total_wt'[k] = total_wt[k]
  BY <1>3, <1>4, <1>5, AppendProperties DEF SumsInv
<1>7. InOrder'
  <2>1. /\ Tail(<<"FCFS", "SJF", "Priority", "RR">>)
             = <<"SJF", "Priority", "RR">>
        /\ Tail(<<"SJF", "Priority", "RR">>) = <<"Priority", "RR">>
        /\ Tail(<<"Priority", "RR">>) = <<"RR">>
        /\ Tail(<<"RR">>) = << >>
    OBVIOUS
  <2>2. \/ n = 0 /\ todo = <<"FCFS", "SJF", "Priority", "RR">>
        \/ n = 1 /\ todo = <<"SJF", "Priority", "RR">>
        \/ n = 2 /\ todo = <<"Priority", "RR">>
        \/ n = 3 /\ todo = <<"RR">>
    BY <1>1, <1>5 DEF SumsInv, InOrder
  <2>3. \/ n + 1 = 1 /\ todo' = <<"SJF", "Priority", "RR">>
        \/ n + 1 = 2 /\ todo' = <<"Priority", "RR">>
        \/ n + 1 = 3 /\ todo' = <<"RR">>
        \/ n + 1 = 4 /\ todo' = << >>
    <3>1. CASE n = 0 /\ todo = <<"FCFS", "SJF", "Priority", "RR">>
      BY <1>1, <2>1, <3>1
    <3>2. CASE n = 1 /\ todo = <<"SJF", "Priority", "RR">>
      BY <1>1, <2>1, <3>2
    <3>3. CASE n = 2 /\ todo = <<"Priority", "RR">>
      BY <1>1, <2>1, <3>3
    <3>4. CASE n = 3 /\ todo = <<"RR">>
      BY <1>1, <2>1, <3>4
    <3> QED
      BY <2>2, <3>1, <3>2, <3>3, <3>4
  <2> QED
    BY <1>6, <2>3 DEF InOrder
<1>8. Simulated(n + 1)'
  <2>1. PICK r, E : r = ran /\ Schedule(r) /\ EndsOf(E, r) /\ wt = WaitsTo(E)
    BY <1>1, MeasuredIsSchedule
  <2>2. ASSUME n + 1 = 2, NEW u \in Nat
        PROVE  TakesShortest(r, u)
    <3>1. n = 1
      BY <2>2
    <3>2. todo = <<"SJF", "Priority", "RR">>
      BY <1>5, <3>1 DEF SumsInv, InOrder
    <3>3. alg = "SJF"
      BY <3>2 DEF alg
    <3>4. ShortestSoFar
      BY <1>1, <3>3 DEF SumsInv
    <3> QED
      BY <1>1, <2>1, <3>4, AllTakesShortest
  <2>3. /\ Schedule(r)' /\ w = WaitsTo(E)'
        /\ n + 1 = 2 => \A u \in Nat : TakesShortest(r, u)'
    BY <1>1, <1>2, <2>1, <2>2, SameFile
  <2> QED
    BY <1>6, <2>1, <2>3 DEF Simulated, EndsOf
<1>9. ASSUME NEW k \in 1 .. n
      PROVE  Simulated(k)'
  BY <1>1, <1>5, <1>6, SimulatedStays DEF SumsInv
<1>10. \A k \in 1 .. n + 1 : k \in 1 .. n \/ k = n + 1
  OBVIOUS
<1>11. \A k \in 1 .. Len(total_wt') : Simulated(k)'
  BY <1>6, <1>8, <1>9, <1>10
<1> QED
  BY <1>1, <1>6, <1>7, <1>11 DEF SumsInv

LEMMA SumsInit == Init => SumsInv
<1> SUFFICES ASSUME Init PROVE SumsInv
  OBVIOUS
<1>1. total_wt = << >> /\ todo = <<"FCFS", "SJF", "Priority", "RR">>
      /\ step = "read"
  BY DEF Init, Algorithms
<1>2. total_wt \in Seq(Int) /\ Len(total_wt) = 0
  BY <1>1
<1> QED
  BY <1>1, <1>2 DEF SumsInv, InOrder

LEMMA SumsNext == Inv /\ SumsInv /\ [Next]_vars => SumsInv'
<1> SUFFICES ASSUME Inv, SumsInv, [Next]_vars PROVE SumsInv'
  OBVIOUS
<1>1. ASSUME UNCHANGED <<file, todo, total_wt>>,
             step' # "read" /\ alg = "SJF" => ShortestSoFar'
      PROVE  SumsInv'
  <2>1. InOrder' /\ total_wt' \in Seq(Int) /\ alg' = alg
    BY <1>1 DEF SumsInv, InOrder, alg
  <2>2. \A k \in 1 .. Len(total_wt') : Simulated(k)'
    BY <1>1, SimulatedStays DEF SumsInv
  <2> QED
    BY <1>1, <2>1, <2>2 DEF SumsInv
<1>2. CASE initProc
  <2>1. t' = 0 /\ UNCHANGED <<file, todo, total_wt>>
    BY <1>2 DEF initProc
  <2>2. ShortestSoFar'
    BY <2>1 DEF ShortestSoFar
  <2> QED
    BY <1>1, <2>1, <2>2
<1>3. CASE findWaitingTime \/ findWaitingTimeRR
  <2>1. alg # "SJF" /\ UNCHANGED <<file, todo, total_wt>>
    BY <1>3 DEF findWaitingTime, findWaitingTimeRR, Loop
  <2> QED
    BY <1>1, <2>1
<1>4. CASE findWaitingTimeSJF
  <2>1. /\ step = "loop" /\ alg = "SJF" /\ UNCHANGED <<file, todo, total_wt>>
    BY <1>4 DEF findWaitingTimeSJF, Loop
  <2>2. ShortestSoFar'
    BY <1>4, <2>1, SjfTakesShortest DEF SumsInv
  <2> QED
    BY <1>1, <2>1, <2>2
<1>5. CASE printMetrics
  BY <1>5, MetricsKeepSums
<1>6. CASE Ended \/ UNCHANGED vars
  <2>1. UNCHANGED vars
    BY <1>6 DEF Ended
  <2>2. ShortestSoFar' <=> ShortestSoFar
    BY <2>1
       DEF vars, ShortestSoFar, TakesShortest, Left, Before, bt, art
  <2> QED
    BY <1>1, <2>1, <2>2 DEF vars, SumsInv
<1> QED
  BY <1>2, <1>3, <1>4, <1>5, <1>6 DEF Next

(* Shortest remaining time first makes the processes wait no longer in     *)
(* total than any of the other algorithms, for any file and quantum.       *)
THEOREM ShortestFirstIsOptimal == Spec => []SjfOptimal
<1>1. ASSUME Inv, SumsInv, todo = << >>, NEW k \in 1 .. 4
      PROVE  total_wt[2] <= total_wt[k]
  <2>1. Len(total_wt) = 4
    BY <1>1 DEF SumsInv, InOrder
  <2>2. Simulated(2) /\ Simulated(k)
    BY <1>1, <2>1 DEF SumsInv
  <2>3. PICK a, E, v : /\ Schedule(a) /\ EndsOf(E, a)
                       /\ v = WaitsTo(E) /\ total_wt[2] = Total(v)
                       /\ \A u \in Nat : TakesShortest(a, u)
    BY <2>2 DEF Simulated
  <2>4. PICK b, F, w : /\ Schedule(b) /\ EndsOf(F, b)
                       /\ w = WaitsTo(F) /\ total_wt[k] = Total(w)
    BY <2>2 DEF Simulated
  <2>5. TypeOK
    BY <1>1 DEF Inv
  <2>6. Total(WaitsTo(E)) <= Total(WaitsTo(F))
    BY <2>3, <2>4, <2>5, ShortestWaitsLeast
  <2> QED
    BY <2>3, <2>4, <2>6
<1>2. Inv /\ SumsInv => SjfOptimal
  BY <1>1 DEF SjfOptimal
<1>3. Spec => []SumsInv
  BY SumsInit, SumsNext, InvHolds, PTL DEF Spec
<1> QED
  BY <1>2, <1>3, InvHolds, PTL

=============================================================================
