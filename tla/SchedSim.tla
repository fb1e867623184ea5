------------------------------ MODULE SchedSim ------------------------------
(***************************************************************************)
(* Lab 6: the scheduling simulator.  main reads the table of processes and *)
(* simulates first come first served, shortest remaining time first,       *)
(* priority and round robin on it, one after the other; the waiting time   *)
(* each computes for a process is a formula on the simulated clock.        *)
(*                                                                         *)
(* The turnaround time is burst plus waiting time and only printed.        *)
(***************************************************************************)
EXTENDS Integers, Sequences, FiniteSets, FiniteSetsExt, Functions

CONSTANTS
  N,           \* lines of the input file
  Bursts,      \* burst times, arrival times and priorities it may hold
  Arrivals,
  Priorities,
  quantum      \* of round robin; main has 2

ASSUME SchedAssumption ==
  /\ N \in Nat \ {0}
  /\ Bursts \subseteq Nat \ {0}  \* with 0 findWaitingTimeSJF does not end
  /\ Arrivals \subseteq Nat
  /\ Priorities \subseteq Nat
  /\ quantum \in Nat \ {0}

VARIABLES
  file,      \* the input file: burst, arrival and priority of every pid
  todo,      \* the simulations to come, the current one first
  step,      \* "read", "loop" or "metrics"
  plist,     \* the array: the pids in its order
  wt,        \* the waiting time computed for each pid, 0 in the file
  t,         \* the simulated time
  i,         \* the loop index
  rem_bt,    \* what is left of each burst
  complete,  \* processes that SJF has finished
  done,      \* has this pass of round robin found nobody ready?
  total_wt,  \* what printMetrics has summed up, by algorithm
  ran        \* history: the units of time each pid has run in

vars == <<file, todo, step, plist, wt, t, i, rem_bt, complete, done, total_wt,
          ran>>

Procs == 1 .. N
Algorithms == <<"FCFS", "SJF", "Priority", "RR">>
alg == Head(todo)

Init ==
  /\ file \in [Procs -> [bt : Bursts, art : Arrivals, pri : Priorities]]
  /\ todo = Algorithms
  /\ step = "read"
  /\ plist = << >>
  /\ wt = [p \in Procs |-> 0]
  /\ t = 0
  /\ i = 1
  /\ rem_bt = [p \in Procs |-> 0]
  /\ complete = 0
  /\ done = TRUE
  /\ total_wt = << >>
  /\ ran = [p \in Procs |-> {}]

bt(p) == file[p].bt
art(p) == file[p].art

-----------------------------------------------------------------------------
(* main: read the file, and for Priority sort it                           *)

\* my_comparer(a, b) <= 0
my_comparer(p, q) ==
  \/ file[p].pri > file[q].pri
  \/ file[p].pri = file[q].pri /\ art(p) <= art(q)

\* What qsort may make of the array: the order of equal elements is open.
Sorted(l) ==
  /\ \A j, k \in DOMAIN l : j < k => l[j] # l[k]
  /\ \A j \in 1 .. Len(l) - 1 : my_comparer(l[j], l[j + 1])

initProc ==
  /\ todo # << >>
  /\ step = "read"
  /\ IF alg = "Priority"
     THEN plist' \in {l \in [Procs -> Procs] : Sorted(l)}
     ELSE plist' = [j \in Procs |-> j]
  /\ rem_bt' = [p \in Procs |-> bt(p)]
  /\ wt' = [p \in Procs |-> 0]
  /\ ran' = [p \in Procs |-> {}]
  /\ t' = 0
  /\ i' = 1
  /\ complete' = 0
  /\ done' = TRUE
  /\ step' = "loop"
  /\ UNCHANGED <<file, todo, total_wt>>

-----------------------------------------------------------------------------
(* One step of a simulation                                                *)

Loop(a) == todo # << >> /\ alg \in a /\ step = "loop"

\* Process p runs from s to e.
Runs(p, s, e) == ran' = [ran EXCEPT ![p] = @ \cup s .. e - 1]

\* The waiting time of a process that has finished at e.
WaitNoArrival(p, e) == e - bt(p) \* a mutant: the arrival time is forgotten
WaitAt(p, e) == e - bt(p) - art(p)

\* Nobody is ready: time goes by.
IdleForgotten == t \* a mutant: it does not
Idle == t + 1

\* findWaitingTime, for FCFS and Priority: one turn of the loop, or its end.
Start(p) == IF t < art(p) THEN art(p) ELSE t

findWaitingTime ==
  /\ Loop({"FCFS", "Priority"})
  /\ IF i <= N
     THEN LET p == plist[i] IN
          /\ wt' = [wt EXCEPT ![p] = Start(p) - art(p)]
          /\ t' = Start(p) + bt(p)
          /\ Runs(p, Start(p), t')
          /\ i' = i + 1
          /\ UNCHANGED step
     ELSE step' = "metrics" /\ UNCHANGED <<wt, t, ran, i>>
  /\ UNCHANGED <<file, todo, plist, rem_bt, complete, done, total_wt>>

\* findWaitingTimeSJF: one turn of the loop runs the first of those with the
\* least time left for one unit, or waits for an arrival.
Ready(p) == art(p) <= t /\ rem_bt[p] > 0
ShorterOnArrival(p, q) == bt(p) <= bt(q) \* a mutant: not what remains
Shorter(p, q) == rem_bt[p] <= rem_bt[q]

\* The loop over i takes a later index only if it is strictly shorter.
min_index ==
  CHOOSE p \in Procs : Ready(p) /\ \A q \in Procs :
    Ready(q) => Shorter(p, q) /\ (Shorter(q, p) => p <= q)

findWaitingTimeSJF ==
  /\ Loop({"SJF"})
  /\ IF complete < N
     THEN /\ UNCHANGED step
          /\ IF \E p \in Procs : Ready(p)
             THEN LET p == min_index IN
                  /\ rem_bt' = [rem_bt EXCEPT ![p] = @ - 1]
                  /\ t' = t + 1
                  /\ Runs(p, t, t')
                  /\ IF rem_bt'[p] = 0
                     THEN /\ wt' = [wt EXCEPT ![p] = WaitAt(p, t')]
                          /\ complete' = complete + 1
                     ELSE UNCHANGED <<wt, complete>>
             ELSE t' = Idle /\ UNCHANGED <<rem_bt, wt, complete, ran>>
     ELSE step' = "metrics" /\ UNCHANGED <<t, rem_bt, wt, complete, ran>>
  /\ UNCHANGED <<file, todo, plist, i, done, total_wt>>

\* findWaitingTimeRR: a pass visits the processes in the order of the array;
\* one that is ready runs for a quantum or to its end.
AfterSliceAgain == i \* a mutant: the same process runs on
AfterSlice == i + 1

Visit ==
  LET p == plist[i] IN
  IF Ready(p)
  THEN /\ done' = FALSE
       /\ rem_bt' = [rem_bt EXCEPT ![p] = IF @ > quantum THEN @ - quantum ELSE 0]
       /\ t' = t + rem_bt[p] - rem_bt'[p]
       /\ wt' = IF rem_bt'[p] = 0 THEN [wt EXCEPT ![p] = WaitAt(p, t')] ELSE wt
       /\ Runs(p, t, t')
       /\ i' = AfterSlice
  ELSE /\ i' = i + 1
       /\ UNCHANGED <<done, rem_bt, t, wt, ran>>

\* A pass that found nobody ready lets time go by, or was the last.
End == done /\ \A p \in Procs : rem_bt[p] = 0

EndOfPass ==
  /\ t' = IF done /\ ~End THEN Idle ELSE t
  /\ step' = IF End THEN "metrics" ELSE step
  /\ i' = 1
  /\ done' = TRUE
  /\ UNCHANGED <<rem_bt, wt, ran>>

findWaitingTimeRR ==
  /\ Loop({"RR"})
  /\ IF i <= N THEN Visit /\ UNCHANGED step ELSE EndOfPass
  /\ UNCHANGED <<file, todo, plist, complete, total_wt>>

-----------------------------------------------------------------------------
(* main: the metrics of one simulation, and on to the next                 *)

printMetrics ==
  /\ step = "metrics"
  /\ total_wt' = Append(total_wt, FoldFunction(+, 0, wt))
  /\ todo' = Tail(todo)
  /\ step' = "read"
  /\ UNCHANGED <<file, plist, wt, t, i, rem_bt, complete, done, ran>>

Ended == todo = << >> /\ UNCHANGED vars

Next ==
  \/ initProc
  \/ findWaitingTime
  \/ findWaitingTimeSJF
  \/ findWaitingTimeRR
  \/ printMetrics
  \/ Ended

Spec == Init /\ [][Next]_vars

\* The program runs.
FairSpec == Spec /\ WF_vars(Next)

-----------------------------------------------------------------------------
(* Properties                                                              *)

Measured == step = "metrics"
LastUnit(p) == Max(ran[p])

(* Every simulation is a schedule of one processor: each process runs for  *)
(* exactly its burst, never before it arrives and never beside another,    *)
(* and the waiting time computed for it is the time from its arrival to    *)
(* its end in which it did not run.                                        *)
WaitsMeasured ==
  Measured =>
    \A p \in Procs :
      /\ Cardinality(ran[p]) = bt(p)
      /\ ran[p] \subseteq art(p) .. t - 1
      /\ \A q \in Procs \ {p} : ran[p] \cap ran[q] = {}
      /\ wt[p] = Cardinality((art(p) .. LastUnit(p)) \ ran[p])

(* Shortest remaining time first makes the processes wait no longer in     *)
(* total than any of the other algorithms, whatever the arrivals.          *)
SjfOptimal ==
  todo = << >> => \A k \in 1 .. 4 : total_wt[2] <= total_wt[k]

(* Round robin is fair: whoever has arrived and has not finished waits at  *)
(* most for one quantum of each of the others before it runs, also when    *)
(* processes arrive in the middle of a pass.                               *)
Turn == (N - 1) * quantum
RoundRobinFair ==
  Measured /\ alg = "RR" =>
    \A p \in Procs : \A u \in art(p) .. LastUnit(p) - Turn :
      (u .. u + Turn) \cap ran[p] # {}

(* All four simulations come to an end.                                    *)
AllEnd == <>(todo = << >>)
=============================================================================
