----------------------------- MODULE ShellProofs -----------------------------
(***************************************************************************)
(* What holds of the shell for any number of pids and stages: its types,   *)
(* that every child is waited for, where the alarm may be set and whom the *)
(* handlers signal.  The invariant says, at each step of the shell, which  *)
(* process foreground_pid is and which children are still to be waited for.*)
(*                                                                         *)
(* Then what holds of the pipelines of the shell and of lab 3, for any     *)
(* file, filter and size of the pipes: their output is what the programs   *)
(* make of the file, one after the other.  The invariant says that what    *)
(* has come out and what each program still owes, given the lines on their *)
(* way to it, are the whole output, and who holds which end of which pipe. *)
(***************************************************************************)
EXTENDS Shell, FiniteSetTheorems, FunctionTheorems, SequenceTheorems,
        WellFoundedInduction, TLAPS

-----------------------------------------------------------------------------
(* The inductive invariant                                                 *)

\* Whom foreground_pid, and before it ret, names.
Known ==
  /\ spc \in {"prompt", "fork", "assign", "pfork", "pwait"} => foreground_pid = -1
  /\ spc = "assign" => ret \in Children /\ (background => ret \in excused)
  /\ spc \in {"arm", "wait"} => foreground_pid \in Children
  /\ spc \in {"disarm", "reset"} => foreground_pid \in Pids

\* The alarm is armed for a command in the foreground only, and is off when
\* the shell forgets the pid.
AlarmRight ==
  /\ AlarmIsForTheForeground
  /\ spc = "arm" => ~background
  /\ spc = "reset" => ~timer

\* pids holds the stages of the pipeline under way.
StagesRight ==
  /\ spc = "pfork" => unforked >= 1
  /\ Up /\ spc \notin {"pfork", "pwait"} => pids = << >>

\* The children the shell has still to wait for.
Stages == {p \in Pids : \E i \in DOMAIN pids : pids[i] = p}
Awaited ==
  Stages \cup {p \in Pids : \/ spc = "assign" /\ p = ret
                            \/ spc \in {"arm", "wait"} /\ p = foreground_pid}
NobodyForgotten == Up => Children \subseteq excused \cup Awaited

IInv == TypeOK /\ Known /\ AlarmRight /\ StagesRight /\ NobodyForgotten

-----------------------------------------------------------------------------
(* The invariant holds                                                     *)

(* The shell starts without a child, an alarm or a pid.                    *)
LEMMA InitIInv == Init => IInv
<1> SUFFICES ASSUME Init PROVE IInv
  OBVIOUS
<1>1. TypeOK
  <2>1. << >> \in Seq(Pids \cup {-1})
    OBVIOUS
  <2>2. 0 \in 0 .. MaxStages
    BY ShellAssumption
  <2>3. [p \in Pids |-> "none"] \in [Pids -> Running \cup {"zombie", "none", "other"}]
    OBVIOUS
  <2> QED BY <2>1, <2>2, <2>3 DEF Init, TypeOK
<1>2. Known /\ AlarmRight /\ StagesRight
  BY DEF Init, Known, AlarmRight, AlarmIsForTheForeground, StagesRight
<1>3. NobodyForgotten
  BY DEF Init, NobodyForgotten, Children, Running
<1> QED BY <1>1, <1>2, <1>3 DEF IInv

(* Only a fork makes a child and only a wait ends one: what the kernel and *)
(* the signals do to a process leaves it a child or no child.              *)
LEMMA KeepsChildren ==
  ASSUME TypeOK,
         Kernel \/ CtrlC \/ sigint_handler \/ sigalrm_handler
  PROVE  /\ proc' \in [Pids -> Running \cup {"zombie", "none", "other"}]
         /\ Children' = Children
<1>1. CASE Kernel
  BY <1>1 DEF Kernel, Exec, Finish, Stranger, TypeOK, Children, Running
<1>2. CASE CtrlC
  BY <1>2 DEF CtrlC, Interrupted, TypeOK, Children, Running
<1>3. CASE sigint_handler
  BY <1>3 DEF sigint_handler, Interrupted, TypeOK, Children, Running
<1>4. CASE sigalrm_handler
  BY <1>4 DEF sigalrm_handler, TypeOK, Children, Running
<1> QED BY <1>1, <1>2, <1>3, <1>4

-----------------------------------------------------------------------------
(* The steps of main                                                       *)

(* The built-ins, the reading of a line and the end of the shell.          *)
LEMMA PromptIInv == IInv /\ (Quit \/ ReadCommand \/ ReadPipeline) => IInv'
<1> SUFFICES ASSUME IInv, Quit \/ ReadCommand \/ ReadPipeline PROVE IInv'
  OBVIOUS
<1>1. CASE Quit
  <2>1. TypeOK'
    BY <1>1, ShellAssumption DEF Quit, At, Goto, line, signals, IInv, TypeOK
  <2>2. Known'
    BY <1>1 DEF Quit, At, Goto, line, signals, IInv, TypeOK, Known, Children, Running
  <2>3. AlarmRight'
    BY <1>1 DEF Quit, At, Goto, line, signals, IInv, AlarmRight, AlarmIsForTheForeground, Up
  <2>4. StagesRight'
    BY <1>1 DEF Quit, At, Goto, line, signals, IInv, StagesRight, Up
  <2>5. NobodyForgotten'
    BY <1>1 DEF Quit, At, Goto, line, signals, IInv, TypeOK, Known, StagesRight, NobodyForgotten, Awaited, Stages, Children, Running, Up
  <2> QED BY <2>1, <2>2, <2>3, <2>4, <2>5 DEF IInv
<1>2. CASE ReadCommand
  <2>1. TypeOK'
    BY <1>2, ShellAssumption DEF ReadCommand, At, Goto, line, signals, IInv, TypeOK
  <2>2. Known'
    BY <1>2 DEF ReadCommand, At, Goto, line, signals, IInv, TypeOK, Known, Children, Running
  <2>3. AlarmRight'
    BY <1>2 DEF ReadCommand, At, Goto, line, signals, IInv, AlarmRight, AlarmIsForTheForeground, Up
  <2>4. StagesRight'
    BY <1>2 DEF ReadCommand, At, Goto, line, signals, IInv, StagesRight, Up
  <2>5. NobodyForgotten'
    BY <1>2 DEF ReadCommand, At, Goto, line, signals, IInv, TypeOK, Known, StagesRight, NobodyForgotten, Awaited, Stages, Children, Running, Up
  <2> QED BY <2>1, <2>2, <2>3, <2>4, <2>5 DEF IInv
<1>3. CASE ReadPipeline
  <2>1. TypeOK'
    BY <1>3, ShellAssumption DEF ReadPipeline, At, Goto, line, signals, IInv, TypeOK
  <2>2. Known'
    BY <1>3 DEF ReadPipeline, At, Goto, line, signals, IInv, TypeOK, Known, Children, Running
  <2>3. AlarmRight'
    BY <1>3 DEF ReadPipeline, At, Goto, line, signals, IInv, AlarmRight, AlarmIsForTheForeground, Up
  <2>4. StagesRight'
    BY <1>3 DEF ReadPipeline, At, Goto, line, signals, IInv, StagesRight, Up
  <2>5. NobodyForgotten'
    BY <1>3 DEF ReadPipeline, At, Goto, line, signals, IInv, TypeOK, Known, StagesRight, NobodyForgotten, Awaited, Stages, Children, Running, Up
  <2> QED BY <2>1, <2>2, <2>3, <2>4, <2>5 DEF IInv
<1> QED BY <1>1, <1>2, <1>3

(* One command: fork, the alarm, the wait, and the pid forgotten.          *)
LEMMA CommandIInv ==
  ASSUME IInv,
         \/ Fork \/ ForkFails \/ Assign \/ ArmAlarm \/ Wait \/ DisarmAlarm
         \/ ResetPid /\ pending = {}
  PROVE  IInv'
<1>1. CASE Fork
  <2>1. TypeOK'
    <3>1. PICK p \in Pids : /\ proc' = [proc EXCEPT ![p] = "forked"]
                           /\ ret' = p
                           /\ excused' = excused \cup {q \in {p} : background}
      BY <1>1 DEF Fork
    <3>2. proc' \in [Pids -> Running \cup {"zombie", "none", "other"}]
      BY <3>1 DEF IInv, TypeOK, Running
    <3> QED BY <1>1, <3>1, <3>2 DEF Fork, At, Goto, signals, IInv, TypeOK
  <2>2. Known'
    BY <1>1 DEF Fork, At, Goto, line, signals, IInv, TypeOK, Known, Children, Running
  <2>3. AlarmRight'
    BY <1>1 DEF Fork, At, Goto, line, signals, IInv, AlarmRight, AlarmIsForTheForeground, Up
  <2>4. StagesRight'
    BY <1>1 DEF Fork, At, Goto, line, signals, IInv, StagesRight, Up
  <2>5. NobodyForgotten'
    BY <1>1 DEF Fork, At, Goto, line, signals, IInv, TypeOK, Known, StagesRight, NobodyForgotten, Awaited, Stages, Children, Running, Up
  <2> QED BY <2>1, <2>2, <2>3, <2>4, <2>5 DEF IInv
<1>2. CASE ForkFails
  <2>1. TypeOK'
    BY <1>2, ShellAssumption DEF ForkFails, At, Goto, line, signals, IInv, TypeOK
  <2>2. Known'
    BY <1>2 DEF ForkFails, At, Goto, line, signals, IInv, TypeOK, Known, Children, Running
  <2>3. AlarmRight'
    BY <1>2 DEF ForkFails, At, Goto, line, signals, IInv, AlarmRight, AlarmIsForTheForeground, Up
  <2>4. StagesRight'
    BY <1>2 DEF ForkFails, At, Goto, line, signals, IInv, StagesRight, Up
  <2>5. NobodyForgotten'
    BY <1>2 DEF ForkFails, At, Goto, line, signals, IInv, TypeOK, Known, StagesRight, NobodyForgotten, Awaited, Stages, Children, Running, Up
  <2> QED BY <2>1, <2>2, <2>3, <2>4, <2>5 DEF IInv
<1>3. CASE Assign
  <2>1. TypeOK'
    BY <1>3, ShellAssumption DEF Assign, At, Goto, line, signals, IInv, TypeOK
  <2>2. Known'
    BY <1>3 DEF Assign, At, Goto, line, signals, IInv, TypeOK, Known, Children, Running
  <2>3. AlarmRight'
    BY <1>3 DEF Assign, At, Goto, line, signals, IInv, AlarmRight, AlarmIsForTheForeground, Up
  <2>4. StagesRight'
    BY <1>3 DEF Assign, At, Goto, line, signals, IInv, StagesRight, Up
  <2>5. NobodyForgotten'
    BY <1>3 DEF Assign, At, Goto, line, signals, IInv, TypeOK, Known, StagesRight, NobodyForgotten, Awaited, Stages, Children, Running, Up
  <2> QED BY <2>1, <2>2, <2>3, <2>4, <2>5 DEF IInv
<1>4. CASE ArmAlarm
  <2>1. TypeOK'
    BY <1>4, ShellAssumption DEF ArmAlarm, Arm, At, Goto, line, signals, IInv, TypeOK
  <2>2. Known'
    BY <1>4 DEF ArmAlarm, Arm, At, Goto, line, signals, IInv, TypeOK, Known, Children, Running
  <2>3. AlarmRight'
    BY <1>4 DEF ArmAlarm, Arm, At, Goto, line, signals, IInv, AlarmRight, AlarmIsForTheForeground, Up
  <2>4. StagesRight'
    BY <1>4 DEF ArmAlarm, Arm, At, Goto, line, signals, IInv, StagesRight, Up
  <2>5. NobodyForgotten'
    BY <1>4 DEF ArmAlarm, Arm, At, Goto, line, signals, IInv, TypeOK, Known, StagesRight, NobodyForgotten, Awaited, Stages, Children, Running, Up
  <2> QED BY <2>1, <2>2, <2>3, <2>4, <2>5 DEF IInv
<1>5. CASE Wait
  <2>1. TypeOK'
    BY <1>5, ShellAssumption DEF Wait, Reap, At, Goto, line, signals, IInv, TypeOK
  <2>2. Known'
    BY <1>5 DEF Wait, Reap, At, Goto, line, signals, IInv, TypeOK, Known, Children, Running
  <2>3. AlarmRight'
    BY <1>5 DEF Wait, Reap, At, Goto, line, signals, IInv, AlarmRight, AlarmIsForTheForeground, Up
  <2>4. StagesRight'
    BY <1>5 DEF Wait, Reap, At, Goto, line, signals, IInv, StagesRight, Up
  <2>5. NobodyForgotten'
    BY <1>5 DEF Wait, Reap, At, Goto, line, signals, IInv, TypeOK, Known, StagesRight, NobodyForgotten, Awaited, Stages, Children, Running, Up
  <2> QED BY <2>1, <2>2, <2>3, <2>4, <2>5 DEF IInv
<1>6. CASE DisarmAlarm
  <2>1. TypeOK'
    BY <1>6, ShellAssumption DEF DisarmAlarm, Disarm, At, Goto, line, signals, IInv, TypeOK
  <2>2. Known'
    BY <1>6 DEF DisarmAlarm, Disarm, At, Goto, line, signals, IInv, TypeOK, Known, Children, Running
  <2>3. AlarmRight'
    BY <1>6 DEF DisarmAlarm, Disarm, At, Goto, line, signals, IInv, AlarmRight, AlarmIsForTheForeground, Up
  <2>4. StagesRight'
    BY <1>6 DEF DisarmAlarm, Disarm, At, Goto, line, signals, IInv, StagesRight, Up
  <2>5. NobodyForgotten'
    BY <1>6 DEF DisarmAlarm, Disarm, At, Goto, line, signals, IInv, TypeOK, Known, StagesRight, NobodyForgotten, Awaited, Stages, Children, Running, Up
  <2> QED BY <2>1, <2>2, <2>3, <2>4, <2>5 DEF IInv
<1>7. CASE ResetPid /\ pending = {}
  <2>1. TypeOK'
    BY <1>7, ShellAssumption DEF ResetPid, Reset, At, Goto, line, signals, IInv, TypeOK
  <2>2. Known'
    BY <1>7 DEF ResetPid, Reset, At, Goto, line, signals, IInv, TypeOK, Known, Children, Running
  <2>3. AlarmRight'
    BY <1>7 DEF ResetPid, Reset, At, Goto, line, signals, IInv, AlarmRight, AlarmIsForTheForeground, Up
  <2>4. StagesRight'
    BY <1>7 DEF ResetPid, Reset, At, Goto, line, signals, IInv, StagesRight, Up
  <2>5. NobodyForgotten'
    BY <1>7 DEF ResetPid, Reset, At, Goto, line, signals, IInv, TypeOK, Known, StagesRight, NobodyForgotten, Awaited, Stages, Children, Running, Up
  <2> QED BY <2>1, <2>2, <2>3, <2>4, <2>5 DEF IInv
<1> QED BY <1>1, <1>2, <1>3, <1>4, <1>5, <1>6, <1>7

-----------------------------------------------------------------------------
(* The steps of execute_pipeline                                           *)

(* What it means for the stages to forget the first of them.               *)
LEMMA TailStages ==
  ASSUME pids \in Seq(Pids \cup {-1}), Len(pids) > 1, pids' = Tail(pids)
  PROVE  /\ pids' \in Seq(Pids \cup {-1})
         /\ Stages \subseteq Stages' \cup {Head(pids)}
<1>1. pids' \in Seq(Pids \cup {-1})
  OBVIOUS
<1>2. ASSUME NEW i \in DOMAIN pids PROVE pids[i] \in Stages' \cup {Head(pids)} \/ pids[i] \notin Pids
  <2>1. CASE i = 1
    BY <2>1
  <2>2. CASE i # 1
    <3>1. i - 1 \in DOMAIN pids' /\ pids'[i - 1] = pids[i]
      BY <2>2
    <3> QED BY <3>1 DEF Stages
  <2> QED BY <2>1, <2>2
<1> QED BY <1>1, <1>2 DEF Stages

(* A wait of the pipeline, whether or not it returns a child: the stage    *)
(* that was first is the only one no longer awaited.                       *)
LEMMA WaitedForStages ==
  ASSUME IInv, WaitedFor
  PROVE  /\ pids' \in Seq(Pids \cup {-1})
         /\ Stages \subseteq Stages' \cup {Head(pids)}
         /\ spc' \in {"prompt", "pwait"}
         /\ spc' = "prompt" => pids' = << >>
<1>1. CASE Len(pids) > 1
  BY <1>1, TailStages DEF IInv, TypeOK, WaitedFor, NextStage, Goto
<1>2. CASE ~(Len(pids) > 1)
  <2>1. spc' = "prompt" /\ pids' = << >>
    BY <1>2 DEF WaitedFor, NextStage, Goto
  <2>2. ASSUME NEW i \in DOMAIN pids PROVE pids[i] = Head(pids)
    BY <1>2 DEF IInv, TypeOK
  <2> QED BY <2>1, <2>2 DEF Stages
<1> QED BY <1>1, <1>2

LEMMA ForkStageIInv == IInv /\ ForkStage => IInv'
<1> SUFFICES ASSUME IInv, ForkStage PROVE IInv'
  OBVIOUS
<1>1. PICK p \in Pids \cup {-1} :
        /\ Stage(p)
        /\ \/ p \in Pids /\ proc[p] = "none" /\ proc' = [proc EXCEPT ![p] = "forked"]
           \/ UNCHANGED proc
  BY DEF ForkStage
<1>2. pids' \in Seq(Pids \cup {-1}) /\ Stages' = Stages \cup ({p} \cap Pids)
  <2>1. /\ pids \in Seq(Pids \cup {-1}) /\ pids' = Append(pids, p)
    BY <1>1 DEF Stage, IInv, TypeOK
  <2>2. pids' \in Seq(Pids \cup {-1}) /\ DOMAIN pids' = DOMAIN pids \cup {Len(pids) + 1}
    BY <2>1
  <2>3. pids'[Len(pids) + 1] = p /\ \A i \in DOMAIN pids : pids'[i] = pids[i]
    BY <2>1
  <2> QED BY <2>2, <2>3 DEF Stages
<1>3. TypeOK'
  <2>1. proc' \in [Pids -> Running \cup {"zombie", "none", "other"}]
    BY <1>1 DEF IInv, TypeOK, Running
  <2>2. unforked' \in 0 .. MaxStages
    BY <1>1, ShellAssumption DEF ForkStage, At, Stage, IInv, TypeOK, StagesRight
  <2> QED BY <1>1, <1>2, <2>1, <2>2 DEF ForkStage, At, Stage, Goto, signals, IInv, TypeOK
<1>4. Known' /\ AlarmRight' /\ StagesRight'
  BY <1>1 DEF ForkStage, At, Stage, Goto, signals, IInv, TypeOK, Known,
              AlarmRight, AlarmIsForTheForeground, StagesRight, Up
<1>5. NobodyForgotten'
  <2>1. Children' \subseteq Children \cup ({p} \cap Pids)
    BY <1>1 DEF IInv, TypeOK, Children
  <2>2. Children \subseteq excused \cup Stages
    BY DEF ForkStage, At, IInv, NobodyForgotten, Awaited, Up
  <2> QED BY <1>2, <2>1, <2>2 DEF ForkStage, NobodyForgotten, Awaited
<1> QED BY <1>3, <1>4, <1>5 DEF IInv

LEMMA WaitStageIInv == IInv /\ WaitStage => IInv'
<1> SUFFICES ASSUME IInv, WaitStage PROVE IInv'
  OBVIOUS
<1>1. /\ pids' \in Seq(Pids \cup {-1})
      /\ Stages \subseteq Stages' \cup {Head(pids)}
      /\ spc' \in {"prompt", "pwait"}
      /\ spc' = "prompt" => pids' = << >>
  BY WaitedForStages DEF WaitStage
<1>2. /\ proc' \in [Pids -> Running \cup {"zombie", "none", "other"}]
      /\ excused' \subseteq Pids
      /\ Children' \subseteq Children
      /\ Children' \cap excused \subseteq excused'
      /\ Head(pids) \notin Children'
  <2>1. CASE Head(pids) \in Pids /\ Reap(Head(pids))
    BY <2>1 DEF Reap, IInv, TypeOK, Children, Running
  <2>2. CASE Head(pids) = -1 /\ \E p \in Children : Reap(p)
    BY <2>2, ShellAssumption DEF Reap, IInv, TypeOK, Children, Running
  <2>3. CASE /\ Children \cap {p \in Pids : Head(pids) \in {p, -1}} = {}
             /\ UNCHANGED <<proc, excused>>
    BY <2>3 DEF IInv, TypeOK, Children
  <2> QED BY <2>1, <2>2, <2>3 DEF WaitStage
<1>3. TypeOK'
  BY <1>1, <1>2 DEF WaitStage, signals, IInv, TypeOK
<1>4. Known' /\ AlarmRight' /\ StagesRight'
  BY <1>1 DEF WaitStage, WaitedFor, At, signals, IInv, Known,
              AlarmRight, AlarmIsForTheForeground, StagesRight, Up
<1>5. NobodyForgotten'
  <2>1. Children \subseteq excused \cup Stages
    BY DEF WaitStage, WaitedFor, At, IInv, NobodyForgotten, Awaited, Up
  <2> QED BY <1>1, <1>2, <2>1 DEF NobodyForgotten, Awaited
<1> QED BY <1>3, <1>4, <1>5 DEF IInv

-----------------------------------------------------------------------------
(* The kernel and the signals                                              *)

LEMMA KernelIInv == IInv /\ (Kernel \/ CtrlC) => IInv'
<1> SUFFICES ASSUME IInv, Kernel \/ CtrlC PROVE IInv'
  OBVIOUS
<1>1. /\ proc' \in [Pids -> Running \cup {"zombie", "none", "other"}]
      /\ Children' = Children
  BY KeepsChildren DEF IInv
<1>2. UNCHANGED <<spc, foreground_pid, line, timer, caught, excused>>
  BY DEF Kernel, CtrlC, signals
<1>3. pending' \in {pending, pending \cup {"INT"}}
  BY DEF Kernel, CtrlC, signals
<1>4. TypeOK'
  BY <1>1, <1>2, <1>3 DEF line, IInv, TypeOK, Signals
<1>5. Known' /\ AlarmRight' /\ StagesRight'
  BY <1>1, <1>2, <1>3 DEF line, IInv, Known, AlarmRight,
                          AlarmIsForTheForeground, StagesRight, Up
<1>6. NobodyForgotten'
  BY <1>1, <1>2 DEF line, IInv, NobodyForgotten, Awaited, Stages, Up
<1> QED BY <1>4, <1>5, <1>6 DEF IInv

LEMMA TimerIInv == IInv /\ TimerFires => IInv'
<1> SUFFICES ASSUME IInv, TimerFires PROVE IInv'
  OBVIOUS
<1>1. TypeOK'
  BY DEF TimerFires, line, IInv, TypeOK, Signals
<1>2. Known' /\ AlarmRight' /\ StagesRight'
  BY DEF TimerFires, line, IInv, Known, Children, AlarmRight,
         AlarmIsForTheForeground, StagesRight, Up
<1>3. NobodyForgotten'
  BY DEF TimerFires, line, IInv, NobodyForgotten, Awaited, Stages, Children, Up
<1> QED BY <1>1, <1>2, <1>3 DEF IInv

(* A handler runs, and may end the call it interrupts.                     *)
LEMMA DeliverIInv == ASSUME IInv, NEW sig \in Signals, Deliver(sig) PROVE IInv'
<1>1. /\ proc' \in [Pids -> Running \cup {"zombie", "none", "other"}]
      /\ Children' = Children
  BY KeepsChildren DEF IInv, Deliver
<1>2. /\ UNCHANGED <<foreground_pid, ret, background, unforked, timer>>
      /\ pending' \subseteq pending
      /\ caught' \subseteq caught
      /\ Up
  BY DEF Deliver
<1>3. CASE UNCHANGED <<spc, pids, excused>>
  <2>1. TypeOK'
    BY <1>1, <1>2, <1>3 DEF IInv, TypeOK
  <2>2. Known' /\ AlarmRight' /\ StagesRight'
    BY <1>1, <1>2, <1>3 DEF IInv, Known, AlarmRight, AlarmIsForTheForeground,
                            StagesRight, Up
  <2>3. NobodyForgotten'
    BY <1>1, <1>2, <1>3 DEF IInv, NobodyForgotten, Awaited, Stages, Up
  <2> QED BY <2>1, <2>2, <2>3 DEF IInv
<1>4. CASE At("prompt") /\ Goto("exited") /\ UNCHANGED <<pids, excused>>
  <2>1. TypeOK'
    BY <1>1, <1>2, <1>4 DEF At, Goto, IInv, TypeOK
  <2>2. Known' /\ AlarmRight' /\ StagesRight' /\ NobodyForgotten'
    BY <1>4 DEF At, Goto, Known, AlarmRight, AlarmIsForTheForeground,
                StagesRight, NobodyForgotten, Up
  <2> QED BY <2>1, <2>2 DEF IInv
<1>5. CASE /\ At("wait")
           /\ Goto("disarm")
           /\ excused' = excused \cup {foreground_pid}
           /\ UNCHANGED pids
  <2>1. foreground_pid \in Pids
    BY <1>5 DEF At, IInv, Known, Children
  <2>2. TypeOK'
    BY <1>1, <1>2, <1>5, <2>1 DEF At, Goto, IInv, TypeOK
  <2>3. Known' /\ AlarmRight' /\ StagesRight'
    BY <1>1, <1>2, <1>5, <2>1 DEF At, Goto, IInv, Known, AlarmRight,
                             AlarmIsForTheForeground, StagesRight, Up
  <2>4. NobodyForgotten'
    BY <1>1, <1>2, <1>5 DEF At, IInv, NobodyForgotten, Awaited, Stages, Up
  <2> QED BY <2>2, <2>3, <2>4 DEF IInv
<1>6. CASE WaitedFor /\ excused' = excused \cup ({Head(pids)} \cap Children)
  <2>1. /\ pids' \in Seq(Pids \cup {-1})
        /\ Stages \subseteq Stages' \cup {Head(pids)}
        /\ spc' \in {"prompt", "pwait"}
        /\ spc' = "prompt" => pids' = << >>
    BY <1>6, WaitedForStages
  <2>2. TypeOK'
    BY <1>1, <1>2, <1>6, <2>1 DEF IInv, TypeOK, Children
  <2>3. Known' /\ AlarmRight' /\ StagesRight'
    BY <1>2, <1>6, <2>1 DEF WaitedFor, At, IInv, Known, AlarmRight,
                            AlarmIsForTheForeground, StagesRight, Up
  <2>4. Children \subseteq excused \cup Stages
    BY <1>6 DEF WaitedFor, At, IInv, NobodyForgotten, Awaited, Up
  <2>5. NobodyForgotten'
    BY <1>1, <1>6, <2>1, <2>4 DEF NobodyForgotten, Awaited
  <2> QED BY <2>2, <2>3, <2>5 DEF IInv
<1> QED BY <1>3, <1>4, <1>5, <1>6 DEF Deliver, CallFails

LEMMA KilledIInv == ASSUME IInv, NEW sig \in Signals, Killed(sig) PROVE IInv'
BY DEF Killed, Goto, line, signals, IInv, TypeOK, Known, AlarmRight,
       AlarmIsForTheForeground, StagesRight, NobodyForgotten, Up

(* Every step of the shell, its children and its signals keeps the         *)
(* invariant.                                                              *)
LEMMA NextIInv == IInv /\ [Next]_vars => IInv'
<1> SUFFICES ASSUME IInv, [Next]_vars PROVE IInv'
  OBVIOUS
<1>1. CASE ShellStep
  BY <1>1, PromptIInv, CommandIInv, ForkStageIInv, WaitStageIInv DEF ShellStep
<1>2. CASE Kernel \/ CtrlC
  BY <1>2, KernelIInv
<1>3. CASE TimerFires
  BY <1>3, TimerIInv
<1>4. CASE \E sig \in Signals : Deliver(sig) \/ Killed(sig)
  BY <1>4, DeliverIInv, KilledIInv
<1>5. CASE UNCHANGED vars
  BY <1>5 DEF vars, line, signals, IInv, TypeOK, Known, AlarmRight,
              AlarmIsForTheForeground, StagesRight, NobodyForgotten, Awaited,
              Stages, Children, Up
<1> QED BY <1>1, <1>2, <1>3, <1>4, <1>5 DEF Next, Ended

LEMMA Invariant == Spec => []IInv
BY InitIInv, NextIInv, PTL DEF Spec

-----------------------------------------------------------------------------
(* The theorems about the shell                                            *)

(* Every variable of the shell keeps its type, whatever signals, failures  *)
(* and pids come: waitpid and kill are given pids, unforked never drops    *)
(* below zero.                                                             *)
THEOREM TypeCorrect == Spec => []TypeOK
<1>1. IInv => TypeOK
  BY DEF IInv
<1> QED BY Invariant, <1>1, PTL

(* At the prompt every child has been waited for, except jobs of the       *)
(* background and children whose wait a signal interrupted.                *)
THEOREM ChildrenAreReaped == Spec => []ChildrenReaped
<1>1. IInv => ChildrenReaped
  BY DEF IInv, StagesRight, NobodyForgotten, ChildrenReaped, Awaited, Stages, Up
<1> QED BY Invariant, <1>1, PTL

(* The alarm is set, or on its way, for a foreground command only.         *)
THEOREM AlarmStaysInTheForeground == Spec => []AlarmIsForTheForeground
<1>1. IInv => AlarmIsForTheForeground
  BY DEF IInv, AlarmRight
<1> QED BY Invariant, <1>1, PTL

(* The handlers signal a child of the shell, or nobody, except between the *)
(* return of waitpid and the assignment of -1.                             *)
THEOREM HandlersAlwaysKnowTheChild == Spec => []HandlersKnowTheChild
<1>1. IInv => HandlersKnowTheChild
  BY DEF IInv, TypeOK, Known, HandlersKnowTheChild, Up
<1> QED BY Invariant, <1>1, PTL

(* Every non-empty set of natural numbers has a least element.             *)
LEMMA LeastNat ==
  ASSUME NEW T \in SUBSET Nat, T # {}
  PROVE  \E x \in T : \A y \in T : x <= y
<1>1. IsWellFoundedOn(OpToRel(<, Nat), Nat)
  BY NatLessThanWellFounded
<1>2. PICK x \in T : \A y \in T : ~ (<<y, x>> \in OpToRel(<, Nat))
  BY <1>1, WFMin
<1>3. \A y \in T : ~ (y < x)
  BY <1>2 DEF OpToRel
<1>4. \A y \in T : x <= y
  BY <1>3
<1> QED
  BY <1>4

-----------------------------------------------------------------------------
(* What grep makes of lines                                                *)

One(l, m) == IF l \in m THEN <<l>> ELSE << >>

\* The lines of s that are in m, as the model of the pipes defines them.
Kept(s, m) ==
  LET from[k \in 1 .. Len(s) + 1] ==
        IF k > Len(s) THEN << >>
        ELSE (IF s[k] \in m THEN <<s[k]>> ELSE << >>) \o from[k + 1]
  IN  from[1]

\* f is the function that this definition means.
Keeps(f, s, m) ==
  f = [k \in 1 .. Len(s) + 1 |->
         IF k > Len(s) THEN << >>
         ELSE (IF s[k] \in m THEN <<s[k]>> ELSE << >>) \o f[k + 1]]

(* There is one such function.                                             *)
LEMMA KeepsOne ==
  ASSUME NEW s \in Seq(Nat), NEW m, NEW f, NEW g, Keeps(f, s, m), Keeps(g, s, m)
  PROVE  f = g
<1>1. PICK n \in Nat : n = Len(s)
  OBVIOUS
<1>2. /\ f = [k \in 1 .. n + 1 |-> IF k > n THEN << >> ELSE One(s[k], m) \o f[k + 1]]
      /\ g = [k \in 1 .. n + 1 |-> IF k > n THEN << >> ELSE One(s[k], m) \o g[k + 1]]
  BY <1>1 DEF Keeps, One
<1>3. PICK T : T = {j \in 0 .. n : f[n + 1 - j] # g[n + 1 - j]}
  OBVIOUS
<1>4. ASSUME T # {}
      PROVE  FALSE
  <2>1. T \in SUBSET Nat
    BY <1>3
  <2>2. PICK j \in T : \A i \in T : j <= i
    BY <1>4, <2>1, LeastNat
  <2>3. j \in 0 .. n /\ f[n + 1 - j] # g[n + 1 - j]
    BY <1>3, <2>2
  <2>4. PICK k \in 1 .. n + 1 : k = n + 1 - j
    BY <1>1, <2>3
  <2>5. CASE k > n
    BY <1>2, <2>3, <2>4, <2>5
  <2>6. CASE k <= n
    <3>1. j - 1 \in 0 .. n /\ ~ (j <= j - 1) /\ n + 1 - (j - 1) = k + 1
      BY <1>1, <2>3, <2>4, <2>6
    <3>2. j - 1 \notin T
      BY <2>2, <3>1
    <3>3. f[k + 1] = g[k + 1]
      BY <1>3, <3>1, <3>2
    <3>4. ~ (k > n)
      BY <1>1, <2>4, <2>6
    <3>5. f[k] = One(s[k], m) \o f[k + 1] /\ g[k] = One(s[k], m) \o g[k + 1]
      BY <1>2, <2>4, <3>4
    <3> QED
      BY <2>3, <2>4, <3>3, <3>5
  <2> QED
    BY <1>1, <2>4, <2>5, <2>6
<1>5. \A k \in 1 .. n + 1 : f[k] = g[k]
  <2> SUFFICES ASSUME NEW k \in 1 .. n + 1
               PROVE  f[k] = g[k]
    OBVIOUS
  <2>1. n + 1 - k \in 0 .. n /\ n + 1 - (n + 1 - k) = k
    BY <1>1
  <2>2. n + 1 - k \notin T
    BY <1>4
  <2> QED
    BY <1>3, <2>1, <2>2
<1>6. f = [k \in 1 .. n + 1 |-> f[k]] /\ g = [k \in 1 .. n + 1 |-> g[k]]
  BY <1>2
<1> QED
  BY <1>5, <1>6

(* That of <<h>> \o s is that of s with one value more at the front.       *)
LEMMA KeepsMore ==
  ASSUME NEW s \in Seq(Nat), NEW m, NEW f, Keeps(f, s, m), NEW h \in Nat
  PROVE  \E g : Keeps(g, <<h>> \o s, m) /\ g[1] = One(h, m) \o f[1]
<1>1. PICK n \in Nat : n = Len(s)
  OBVIOUS
<1>2. f = [k \in 1 .. n + 1 |-> IF k > n THEN << >> ELSE One(s[k], m) \o f[k + 1]]
  BY <1>1 DEF Keeps, One
<1>3. PICK t \in Seq(Nat) : t = <<h>> \o s
  <2>1. <<h>> \in Seq(Nat)
    OBVIOUS
  <2> QED
    BY <2>1, ConcatProperties
<1>4. Len(t) = n + 1 /\ t[1] = h /\ \A k \in 1 .. n : t[k + 1] = s[k]
  <2>1. <<h>> \in Seq(Nat) /\ Len(<<h>>) = 1 /\ <<h>>[1] = h
    OBVIOUS
  <2>2. /\ Len(t) = 1 + n
        /\ \A k \in 1 .. 1 + n : t[k] = IF k <= 1 THEN <<h>>[k] ELSE s[k - 1]
    BY <1>1, <1>3, <2>1, ConcatProperties
  <2> QED
    BY <1>1, <2>1, <2>2
<1>5. PICK g : g = [k \in 1 .. n + 2 |-> IF k = 1 THEN One(h, m) \o f[1] ELSE f[k - 1]]
  OBVIOUS
<1>6. ASSUME NEW k \in 1 .. n + 2
      PROVE  g[k] = IF k > n + 1 THEN << >> ELSE One(t[k], m) \o g[k + 1]
  <2>1. CASE k = 1
    <3>1. 2 \in 1 .. n + 2 /\ ~ (1 > n + 1) /\ 1 + 1 = 2 /\ 2 - 1 = 1 /\ 1 \in 1 .. n + 2
      BY <1>1
    <3>2. g[1] = One(h, m) \o f[1] /\ g[2] = f[1]
      BY <1>5, <3>1
    <3> QED
      BY <1>4, <2>1, <3>1, <3>2
  <2>2. CASE k # 1 /\ k <= n + 1
    <3>1. PICK i \in 1 .. n : k = i + 1 /\ i + 1 \in 1 .. n + 2 /\ i + 1 \in 1 .. n + 1
      BY <1>1, <2>2
    <3>2. ~ (i > n) /\ i \in 1 .. n + 1
      BY <1>1, <3>1
    <3>3. f[i] = One(s[i], m) \o f[i + 1]
      BY <1>2, <3>2
    <3>4. i + 1 # 1 /\ i + 2 # 1 /\ i + 2 \in 1 .. n + 2 /\ i + 1 - 1 = i /\ i + 2 - 1 = i + 1
      BY <1>1, <3>1
    <3>5. g[i + 1] = f[i] /\ g[i + 2] = f[i + 1]
      BY <1>5, <3>1, <3>4
    <3>6. t[i + 1] = s[i] /\ ~ (k > n + 1) /\ i + 1 + 1 = i + 2
      BY <1>1, <1>4, <2>2, <3>1
    <3> QED
      BY <3>1, <3>3, <3>5, <3>6
  <2>3. CASE k = n + 2
    <3>1. k > n + 1 /\ k # 1 /\ n + 2 - 1 = n + 1 /\ n + 1 \in 1 .. n + 1 /\ n + 1 > n
      BY <1>1, <2>3
    <3>2. g[k] = f[n + 1]
      BY <1>5, <2>3, <3>1
    <3>3. f[n + 1] = << >>
      BY <1>2, <3>1
    <3> QED
      BY <3>1, <3>2, <3>3
  <2>4. k = 1 \/ (k # 1 /\ k <= n + 1) \/ k = n + 2
    BY <1>1
  <2> QED
    BY <2>1, <2>2, <2>3, <2>4
<1>7. g = [k \in 1 .. n + 2 |-> g[k]]
  BY <1>5
<1>8. g = [k \in 1 .. n + 2 |-> IF k > n + 1 THEN << >> ELSE One(t[k], m) \o g[k + 1]]
  BY <1>6, <1>7
<1>9. Len(t) + 1 = n + 2
  BY <1>1, <1>4
<1>10. Keeps(g, t, m)
  BY <1>4, <1>8, <1>9 DEF Keeps, One
<1>11. g[1] = One(h, m) \o f[1]
  BY <1>1, <1>5
<1> QED
  BY <1>3, <1>10, <1>11

(* A sequence is its head and its tail.                                    *)
LEMMA HeadAndTail ==
  ASSUME NEW S, NEW s \in Seq(S), s # << >>
  PROVE  /\ Head(s) \in S /\ Tail(s) \in Seq(S)
         /\ Len(Tail(s)) = Len(s) - 1
         /\ s = <<Head(s)>> \o Tail(s)
OBVIOUS

(* Every sequence has such a function: the shortest that had none would    *)
(* have a tail with none.                                                  *)
LEMMA KeepsExists ==
  ASSUME NEW s \in Seq(Nat), NEW m
  PROVE  \E f : Keeps(f, s, m) /\ f[1] \in Seq(Nat)
<1> DEFINE Solved(x) == \E f : Keeps(f, x, m) /\ f[1] \in Seq(Nat)
<1>1. PICK T : T = {n \in Nat : \E x \in Seq(Nat) : Len(x) = n /\ ~ Solved(x)}
  OBVIOUS
<1>2. Solved(<< >>)
  <2>1. PICK f : f = [k \in 1 .. 1 |-> << >>]
    OBVIOUS
  <2>2. Len(<< >>) = 0 /\ \A k \in 1 .. 0 + 1 : k > 0
    OBVIOUS
  <2>3. f = [k \in 1 .. 0 + 1 |-> IF k > 0 THEN << >> ELSE One(<< >>[k], m) \o f[k + 1]]
    BY <2>1
  <2>4. Keeps(f, << >>, m)
    BY <2>2, <2>3 DEF Keeps, One
  <2>5. f[1] = << >> /\ << >> \in Seq(Nat)
    BY <2>1
  <2> QED
    BY <2>4, <2>5
<1>3. ASSUME NEW x \in Seq(Nat), NEW h \in Nat, Solved(x)
      PROVE  Solved(<<h>> \o x)
  <2>1. PICK f : Keeps(f, x, m) /\ f[1] \in Seq(Nat)
    BY <1>3
  <2>2. PICK g : Keeps(g, <<h>> \o x, m) /\ g[1] = One(h, m) \o f[1]
    BY <2>1, KeepsMore
  <2>3. One(h, m) \in Seq(Nat)
    BY DEF One
  <2>4. g[1] \in Seq(Nat)
    BY <2>1, <2>2, <2>3, ConcatProperties
  <2> QED
    BY <2>2, <2>4
<1> HIDE DEF Solved
<1>4. ASSUME T # {}
      PROVE  FALSE
  <2>1. T \in SUBSET Nat
    BY <1>1
  <2>2. PICK n \in T : \A i \in T : n <= i
    BY <1>4, <2>1, LeastNat
  <2>3. PICK x \in Seq(Nat) : Len(x) = n /\ ~ Solved(x)
    BY <1>1, <2>2
  <2>4. x # << >>
    BY <1>2, <2>3
  <2>5. PICK h \in Nat, y \in Seq(Nat) : x = <<h>> \o y /\ Len(y) = n - 1
    BY <2>3, <2>4, HeadAndTail
  <2>6. n - 1 \in Nat /\ ~ (n <= n - 1)
    BY <2>1, <2>2, <2>5
  <2>7. n - 1 \notin T
    BY <2>2, <2>6
  <2>8. Solved(y)
    BY <1>1, <2>5, <2>6, <2>7
  <2> QED
    BY <1>3, <2>3, <2>5, <2>8
<1>5. Len(s) \in Nat
  OBVIOUS
<1>6. Solved(s)
  BY <1>1, <1>4, <1>5
<1> QED
  BY <1>6 DEF Solved

(* So the recursion can be unfolded.                                       *)
LEMMA KeptIs ==
  ASSUME NEW s \in Seq(Nat), NEW m, NEW f, Keeps(f, s, m)
  PROVE  Kept(s, m) = f[1]
<1> DEFINE P(g) == g = [k \in 1 .. Len(s) + 1 |->
                          IF k > Len(s) THEN << >>
                          ELSE (IF s[k] \in m THEN <<s[k]>> ELSE << >>) \o g[k + 1]]
<1>1. Kept(s, m) = (CHOOSE g : P(g))[1]
  BY DEF Kept
<1>2. P(f)
  BY DEF Keeps
<1>3. P(CHOOSE g : P(g))
  <2> HIDE DEF P
  <2> QED
    BY <1>2
<1>4. PICK g : g = (CHOOSE x : P(x)) /\ P(g)
  BY <1>3
<1>5. Keeps(g, s, m)
  BY <1>4 DEF Keeps
<1>6. g = f
  BY <1>5, KeepsOne
<1> HIDE DEF P
<1> QED
  BY <1>1, <1>4, <1>6

(* What is kept of numbers is a sequence of numbers.                       *)
LEMMA KeptType ==
  ASSUME NEW s \in Seq(Nat), NEW m
  PROVE  Kept(s, m) \in Seq(Nat)
BY KeepsExists, KeptIs

(* Nothing is kept of nothing.                                             *)
LEMMA KeptNone ==
  ASSUME NEW m
  PROVE  Kept(<< >>, m) = << >>
<1>1. << >> \in Seq(Nat)
  OBVIOUS
<1>2. PICK f : Keeps(f, << >>, m)
  BY <1>1, KeepsExists
<1>3. Len(<< >>) = 0 /\ 1 \in 1 .. 0 + 1 /\ 1 > 0
  OBVIOUS
<1>4. f[1] = << >>
  BY <1>2, <1>3 DEF Keeps
<1> QED
  BY <1>1, <1>2, <1>4, KeptIs

(* grep may deal with one line before it reads the rest.                   *)
LEMMA KeptInTurn ==
  ASSUME NEW s \in Seq(Nat), NEW h \in Nat, NEW m
  PROVE  Kept(<<h>> \o s, m) = One(h, m) \o Kept(s, m)
<1>1. PICK f : Keeps(f, s, m)
  BY KeepsExists
<1>2. PICK g : Keeps(g, <<h>> \o s, m) /\ g[1] = One(h, m) \o f[1]
  BY <1>1, KeepsMore
<1>3. <<h>> \o s \in Seq(Nat)
  OBVIOUS
<1> QED
  BY <1>1, <1>2, <1>3, KeptIs
-----------------------------------------------------------------------------
(* What sort makes of lines                                                *)

\* The lines s in ascending order, as the model of the pipes defines it.
Sorted(s) ==
  LET order == CHOOSE p \in Bijection(DOMAIN s, DOMAIN s) :
                 \A i, j \in DOMAIN s : i < j => s[p[i]] <= s[p[j]]
  IN  [i \in DOMAIN s |-> s[order[i]]]

Ordered(s) == \A i, j \in DOMAIN s : i < j => s[i] <= s[j]

\* t has the lines of s in some order.
Rearranges(t, s) ==
  /\ Len(t) = Len(s)
  /\ \E p \in Bijection(DOMAIN s, DOMAIN s) : \A i \in DOMAIN s : t[i] = s[p[i]]

(* A rearrangement can be undone.                                          *)
LEMMA WayBack ==
  ASSUME NEW n \in Nat, NEW p \in Bijection(1 .. n, 1 .. n)
  PROVE  \E q \in Bijection(1 .. n, 1 .. n) :
           \A k \in 1 .. n : q[k] \in 1 .. n /\ p[q[k]] = k
<1>1. PICK q : q = Inverse(p, 1 .. n, 1 .. n)
  OBVIOUS
<1>2. q \in Bijection(1 .. n, 1 .. n) /\ \A i \in 1 .. n : q[p[i]] = i
  BY <1>1, Fun_BijInverse
<1>3. ASSUME NEW k \in 1 .. n
      PROVE  q[k] \in 1 .. n /\ p[q[k]] = k
  <2>1. PICK i \in 1 .. n : p[i] = k
    BY DEF Bijection, Surjection
  <2> QED
    BY <1>2, <2>1
<1> QED
  BY <1>2, <1>3

(* Any lines can be put in order: each has as many places before it as     *)
(* there are smaller lines, and equal ones that come earlier.              *)
LEMMA OrderExists ==
  ASSUME NEW s \in Seq(Nat)
  PROVE  \E p \in Bijection(DOMAIN s, DOMAIN s) :
           \A i, j \in DOMAIN s : i < j => s[p[i]] <= s[p[j]]
<1>1. PICK n \in Nat : n = Len(s) /\ DOMAIN s = 1 .. n
  OBVIOUS
<1>2. \A i \in 1 .. n : s[i] \in Nat
  BY <1>1
<1> DEFINE Below(i) == {j \in 1 .. n : s[j] < s[i] \/ (s[j] = s[i] /\ j <= i)}
<1>3. IsFiniteSet(1 .. n) /\ Cardinality(1 .. n) = n
  BY FS_Interval
<1>4. ASSUME NEW i \in 1 .. n
      PROVE  IsFiniteSet(Below(i)) /\ Cardinality(Below(i)) \in 1 .. n
  <2>1. Below(i) \in SUBSET (1 .. n) /\ i \in Below(i)
    BY <1>2
  <2>2. IsFiniteSet(Below(i)) /\ Cardinality(Below(i)) <= n
    BY <1>3, <2>1, FS_Subset
  <2>3. Cardinality(Below(i)) \in Nat /\ Cardinality(Below(i)) # 0
    BY <2>1, <2>2, FS_CardinalityType, FS_EmptySet
  <2> QED
    BY <2>2, <2>3
<1>5. ASSUME NEW i \in 1 .. n, NEW j \in 1 .. n,
             s[i] < s[j] \/ (s[i] = s[j] /\ i < j)
      PROVE  Cardinality(Below(i)) < Cardinality(Below(j))
  <2>1. Below(i) \subseteq Below(j)
    BY <1>2, <1>5
  <2>2. j \in Below(j) /\ j \notin Below(i)
    BY <1>2, <1>5
  <2>3. Below(i) # Below(j)
    BY <2>2
  <2> HIDE DEF Below
  <2>4. /\ IsFiniteSet(Below(i)) /\ IsFiniteSet(Below(j))
        /\ Cardinality(Below(i)) \in Nat /\ Cardinality(Below(j)) \in Nat
    BY <1>4
  <2>5. /\ Cardinality(Below(i)) <= Cardinality(Below(j))
        /\ Cardinality(Below(j)) = Cardinality(Below(i)) => Below(j) = Below(i)
    BY <2>1, <2>4, FS_Subset
  <2> QED
    BY <2>3, <2>4, <2>5
<1> DEFINE rank == [i \in 1 .. n |-> Cardinality(Below(i))]
<1>6. PICK r : r = rank
  OBVIOUS
<1>7. /\ r \in [1 .. n -> 1 .. n]
      /\ \A i, j \in 1 .. n :
           s[i] < s[j] \/ (s[i] = s[j] /\ i < j) => r[i] < r[j]
  <2> HIDE DEF Below
  <2> QED
    BY <1>4, <1>5, <1>6
<1>8. ASSUME NEW i \in 1 .. n, NEW j \in 1 .. n, r[i] = r[j]
      PROVE  i = j
  <2>1. s[i] \in Nat /\ s[j] \in Nat /\ r[i] \in Nat
    BY <1>2, <1>7
  <2>2. /\ s[i] < s[j] \/ (s[i] = s[j] /\ i < j) => r[i] < r[j]
        /\ s[j] < s[i] \/ (s[j] = s[i] /\ j < i) => r[j] < r[i]
    BY <1>7
  <2> QED
    BY <1>8, <2>1, <2>2
<1>9. r \in Injection(1 .. n, 1 .. n)
  BY <1>7, <1>8 DEF Injection, IsInjective
<1>10. r \in Surjection(1 .. n, 1 .. n)
  BY <1>3, <1>9, FS_Injection
<1>11. r \in Bijection(1 .. n, 1 .. n)
  BY <1>9, <1>10 DEF Bijection
<1>12. PICK p \in Bijection(1 .. n, 1 .. n) :
         \A k \in 1 .. n : p[k] \in 1 .. n /\ r[p[k]] = k
  BY <1>11, WayBack
<1>13. ASSUME NEW i \in 1 .. n, NEW j \in 1 .. n, i < j
       PROVE  s[p[i]] <= s[p[j]]
  <2>1. PICK a \in 1 .. n, b \in 1 .. n : a = p[i] /\ b = p[j]
    BY <1>12
  <2>2. r[a] = i /\ r[b] = j
    BY <1>12, <2>1
  <2>3. ~ (s[b] < s[a])
    BY <1>7, <1>13, <2>2
  <2>4. s[a] \in Nat /\ s[b] \in Nat
    BY <1>2
  <2>5. s[a] <= s[b]
    BY <2>3, <2>4
  <2> QED
    BY <2>1, <2>5, Zenon
<1> QED
  BY <1>1, <1>12, <1>13

(* sort loses and adds no line, and leaves them in order.                  *)
LEMMA SortedIs ==
  ASSUME NEW s \in Seq(Nat)
  PROVE  /\ Sorted(s) \in Seq(Nat)
         /\ Rearranges(Sorted(s), s)
         /\ Ordered(Sorted(s))
<1>1. PICK n \in Nat : n = Len(s) /\ DOMAIN s = 1 .. n
  OBVIOUS
<1>2. \A i \in 1 .. n : s[i] \in Nat
  BY <1>1
<1> DEFINE P(q) == \A i, j \in DOMAIN s : i < j => s[q[i]] <= s[q[j]]
<1>3. PICK p : p = CHOOSE q \in Bijection(DOMAIN s, DOMAIN s) : P(q)
  OBVIOUS
<1>4. p \in Bijection(DOMAIN s, DOMAIN s) /\ P(p)
  <2>1. \E q \in Bijection(DOMAIN s, DOMAIN s) : P(q)
    BY OrderExists
  <2> HIDE DEF P
  <2> QED
    BY <1>3, <2>1
<1>5. Sorted(s) = [i \in 1 .. n |-> s[p[i]]]
  BY <1>1, <1>3 DEF Sorted
<1>6. \A i \in 1 .. n : p[i] \in 1 .. n
  BY <1>1, <1>4 DEF Bijection, Injection
<1>7. Sorted(s) \in [1 .. n -> Nat] /\ \A i \in 1 .. n : Sorted(s)[i] = s[p[i]]
  BY <1>2, <1>5, <1>6
<1>8. Sorted(s) \in Seq(Nat) /\ Len(Sorted(s)) = n /\ DOMAIN Sorted(s) = 1 .. n
  BY <1>7
<1>9. ASSUME NEW i \in 1 .. n, NEW j \in 1 .. n, i < j
      PROVE  Sorted(s)[i] <= Sorted(s)[j]
  <2>1. s[p[i]] <= s[p[j]]
    BY <1>1, <1>4, <1>9
  <2> QED
    BY <1>7, <2>1
<1>10. Rearranges(Sorted(s), s)
  BY <1>1, <1>4, <1>7, <1>8 DEF Rearranges
<1> QED
  BY <1>8, <1>9, <1>10 DEF Ordered

(* Of two orders of the same lines neither has a greater line anywhere:    *)
(* the lines before it would not fit below it.                             *)
LEMMA NoneGreater ==
  ASSUME NEW n \in Nat, NEW s \in [1 .. n -> Nat], NEW t \in [1 .. n -> Nat],
         NEW p \in Injection(1 .. n, 1 .. n), \A i \in 1 .. n : t[i] = s[p[i]],
         \A i, j \in 1 .. n : i < j => s[i] <= s[j],
         \A i, j \in 1 .. n : i < j => t[i] <= t[j],
         NEW i \in 1 .. n
  PROVE  s[i] <= t[i]
<1> SUFFICES ASSUME t[i] < s[i]
             PROVE  FALSE
  OBVIOUS
<1>1. p \in [1 .. n -> 1 .. n] /\ \A a, b \in 1 .. n : p[a] = p[b] => a = b
  BY DEF Injection, IsInjective
<1>2. ASSUME NEW j \in 1 .. i
      PROVE  p[j] \in 1 .. i - 1
  <2>1. j \in 1 .. n /\ t[j] <= t[i]
    OBVIOUS
  <2>2. PICK k \in 1 .. n : k = p[j]
    BY <1>1, <2>1
  <2>3. s[k] < s[i]
    BY <2>1, <2>2
  <2>4. k < i
    BY <2>3
  <2> QED
    BY <2>2, <2>4
<1>3. PICK f : f = [j \in 1 .. i |-> p[j]]
  OBVIOUS
<1>4. f \in [1 .. i -> 1 .. i - 1]
  BY <1>2, <1>3
<1>5. /\ IsFiniteSet(1 .. i) /\ Cardinality(1 .. i) = i
      /\ IsFiniteSet(1 .. i - 1) /\ Cardinality(1 .. i - 1) < i
  <2>1. 1 \in Int /\ i \in Int /\ i >= 1 /\ i - 1 \in Int
    OBVIOUS
  <2>2. IsFiniteSet(1 .. i) /\ Cardinality(1 .. i) = IF 1 > i THEN 0 ELSE i - 1 + 1
    BY <2>1, FS_Interval
  <2>3. /\ IsFiniteSet(1 .. i - 1)
        /\ Cardinality(1 .. i - 1) = IF 1 > i - 1 THEN 0 ELSE i - 1 - 1 + 1
    BY <2>1, FS_Interval
  <2> QED
    BY <2>1, <2>2, <2>3
<1>6. ASSUME NEW a \in 1 .. i, NEW b \in 1 .. i, f[a] = f[b]
      PROVE  a = b
  <2>1. a \in 1 .. n /\ b \in 1 .. n
    OBVIOUS
  <2>2. f[a] = p[a] /\ f[b] = p[b]
    BY <1>3
  <2> QED
    BY <1>1, <1>6, <2>1, <2>2
<1>7. f \in Injection(1 .. i, 1 .. i - 1)
  BY <1>4, <1>6 DEF Injection, IsInjective
<1>8. Cardinality(1 .. i) <= Cardinality(1 .. i - 1)
  BY <1>5, <1>7, FS_Injection
<1>9. Cardinality(1 .. i) \in Nat /\ Cardinality(1 .. i - 1) \in Nat
  BY <1>5, FS_CardinalityType
<1> QED
  BY <1>5, <1>8, <1>9

(* The same lines have only one order.                                     *)
LEMMA OneOrder ==
  ASSUME NEW s \in Seq(Nat), NEW t \in Seq(Nat), Rearranges(t, s), Ordered(s), Ordered(t)
  PROVE  s = t
<1>1. PICK n \in Nat : n = Len(s) /\ DOMAIN s = 1 .. n /\ Len(t) = n /\ DOMAIN t = 1 .. n
  BY DEF Rearranges
<1>2. s \in [1 .. n -> Nat] /\ t \in [1 .. n -> Nat]
  BY <1>1
<1>3. PICK p \in Bijection(1 .. n, 1 .. n) : \A i \in 1 .. n : t[i] = s[p[i]]
  BY <1>1 DEF Rearranges
<1>4. PICK q \in Bijection(1 .. n, 1 .. n) :
        \A k \in 1 .. n : q[k] \in 1 .. n /\ p[q[k]] = k
  BY <1>3, WayBack
<1>6. p \in Injection(1 .. n, 1 .. n) /\ q \in Injection(1 .. n, 1 .. n)
  BY DEF Bijection
<1>7. \A k \in 1 .. n : s[k] = t[q[k]]
  BY <1>3, <1>4
<1>8. /\ \A i, j \in 1 .. n : i < j => s[i] <= s[j]
      /\ \A i, j \in 1 .. n : i < j => t[i] <= t[j]
  BY <1>1 DEF Ordered
<1>9. ASSUME NEW i \in 1 .. n
      PROVE  s[i] = t[i]
  <2>1. s[i] <= t[i]
    BY <1>2, <1>3, <1>6, <1>8, NoneGreater
  <2>2. t[i] <= s[i]
    BY <1>2, <1>6, <1>7, <1>8, NoneGreater
  <2> QED
    BY <1>2, <2>1, <2>2
<1> QED
  BY <1>2, <1>9

(* Being a rearrangement of one another is symmetric ...                   *)
LEMMA RearrangedBack ==
  ASSUME NEW s \in Seq(Nat), NEW t \in Seq(Nat), Rearranges(t, s)
  PROVE  Rearranges(s, t)
<1>1. PICK n \in Nat : n = Len(s) /\ DOMAIN s = 1 .. n /\ Len(t) = n /\ DOMAIN t = 1 .. n
  BY DEF Rearranges
<1>2. PICK p \in Bijection(1 .. n, 1 .. n) : \A i \in 1 .. n : t[i] = s[p[i]]
  BY <1>1 DEF Rearranges
<1>3. PICK q \in Bijection(1 .. n, 1 .. n) :
        \A k \in 1 .. n : q[k] \in 1 .. n /\ p[q[k]] = k
  BY <1>2, WayBack
<1>4. \A k \in 1 .. n : s[k] = t[q[k]]
  BY <1>2, <1>3
<1> QED
  BY <1>1, <1>4 DEF Rearranges

(* ... and transitive.                                                     *)
LEMMA RearrangedTwice ==
  ASSUME NEW s \in Seq(Nat), NEW t \in Seq(Nat), NEW u \in Seq(Nat),
         Rearranges(t, s), Rearranges(u, t)
  PROVE  Rearranges(u, s)
<1>1. PICK n \in Nat : /\ n = Len(s) /\ DOMAIN s = 1 .. n
                       /\ Len(t) = n /\ DOMAIN t = 1 .. n /\ Len(u) = n
  BY DEF Rearranges
<1>2. PICK p \in Bijection(1 .. n, 1 .. n) : \A i \in 1 .. n : t[i] = s[p[i]]
  BY <1>1 DEF Rearranges
<1>3. PICK q \in Bijection(1 .. n, 1 .. n) : \A i \in 1 .. n : u[i] = t[q[i]]
  BY <1>1 DEF Rearranges
<1>4. [i \in 1 .. n |-> p[q[i]]] \in Bijection(1 .. n, 1 .. n)
  <2>1. PICK S : S = 1 .. n
    OBVIOUS
  <2>2. p \in Bijection(S, S) /\ q \in Bijection(S, S)
    BY <1>2, <1>3, <2>1
  <2>3. [i \in S |-> p[q[i]]] \in Bijection(S, S)
    BY <2>2, Fun_BijTransitive
  <2> QED
    BY <2>1, <2>3
<1>5. PICK r \in Bijection(1 .. n, 1 .. n) : r = [i \in 1 .. n |-> p[q[i]]]
  BY <1>4
<1>6. \A i \in 1 .. n : q[i] \in 1 .. n
  BY <1>3 DEF Bijection, Injection
<1>7. \A i \in 1 .. n : u[i] = s[r[i]]
  BY <1>2, <1>3, <1>5, <1>6
<1> QED
  BY <1>1, <1>5, <1>7 DEF Rearranges

(* The order in which lines have come makes no difference to sort.         *)
LEMMA SortedSame ==
  ASSUME NEW s \in Seq(Nat), NEW t \in Seq(Nat), Rearranges(t, s)
  PROVE  Sorted(t) = Sorted(s)
<1>1. PICK a \in Seq(Nat) : a = Sorted(s) /\ Rearranges(a, s) /\ Ordered(a)
  BY SortedIs
<1>2. PICK b \in Seq(Nat) : b = Sorted(t) /\ Rearranges(b, t) /\ Ordered(b)
  BY SortedIs
<1>3. Rearranges(s, a)
  BY <1>1, RearrangedBack
<1>4. Rearranges(b, s)
  BY <1>2, RearrangedTwice
<1>5. Rearranges(b, a)
  BY <1>1, <1>2, <1>3, <1>4, RearrangedTwice
<1> QED
  BY <1>1, <1>2, <1>5, OneOrder

(* Lines that come later are where they are.                               *)
LEMMA RearrangedBefore ==
  ASSUME NEW s \in Seq(Nat), NEW t \in Seq(Nat), NEW x \in Seq(Nat), Rearranges(t, s)
  PROVE  Rearranges(t \o x, s \o x)
<1>1. PICK n \in Nat : n = Len(s) /\ DOMAIN s = 1 .. n /\ Len(t) = n
  BY DEF Rearranges
<1>2. PICK p \in Bijection(1 .. n, 1 .. n) : \A i \in 1 .. n : t[i] = s[p[i]]
  BY <1>1 DEF Rearranges
<1>3. PICK m \in Nat : m = n + Len(x)
  BY <1>1
<1>4. /\ Len(s \o x) = m /\ Len(t \o x) = m /\ DOMAIN (s \o x) = 1 .. m
      /\ \A i \in 1 .. m : (s \o x)[i] = IF i <= n THEN s[i] ELSE x[i - n]
      /\ \A i \in 1 .. m : (t \o x)[i] = IF i <= n THEN t[i] ELSE x[i - n]
  BY <1>1, <1>3, ConcatProperties
<1>5. PICK q : q = [i \in 1 .. m |-> IF i <= n THEN p[i] ELSE i]
  OBVIOUS
<1>6. /\ p \in [1 .. n -> 1 .. n]
      /\ \A a, b \in 1 .. n : p[a] = p[b] => a = b
      /\ \A k \in 1 .. n : \E a \in 1 .. n : p[a] = k
  BY <1>2 DEF Bijection, Injection, IsInjective, Surjection
<1>7. n <= m
  BY <1>3
<1>8. q \in [1 .. m -> 1 .. m]
  BY <1>5, <1>6, <1>7
<1>9. ASSUME NEW a \in 1 .. m, NEW b \in 1 .. m, q[a] = q[b]
      PROVE  a = b
  <2>1. CASE a <= n /\ b <= n
    <3>1. a \in 1 .. n /\ b \in 1 .. n /\ p[a] = p[b]
      BY <1>1, <1>5, <1>9, <2>1
    <3> QED
      BY <1>6, <3>1
  <2>2. CASE a <= n /\ b > n
    <3>1. a \in 1 .. n /\ p[a] = b
      BY <1>1, <1>5, <1>9, <2>2
    <3>2. p[a] \in 1 .. n
      BY <1>6, <3>1
    <3> QED
      BY <2>2, <3>1, <3>2
  <2>3. CASE a > n /\ b <= n
    <3>1. b \in 1 .. n /\ p[b] = a
      BY <1>1, <1>5, <1>9, <2>3
    <3>2. p[b] \in 1 .. n
      BY <1>6, <3>1
    <3> QED
      BY <2>3, <3>1, <3>2
  <2>4. CASE a > n /\ b > n
    BY <1>5, <1>9, <2>4
  <2> QED
    BY <2>1, <2>2, <2>3, <2>4
<1>10. ASSUME NEW k \in 1 .. m
       PROVE  \E a \in 1 .. m : q[a] = k
  <2>1. CASE k <= n
    <3>1. k \in 1 .. n
      BY <2>1
    <3>2. PICK a \in 1 .. n : p[a] = k
      BY <1>6, <3>1
    <3>3. a \in 1 .. m /\ q[a] = k
      BY <1>5, <1>7, <3>2
    <3> QED
      BY <3>3
  <2>2. CASE k > n
    <3>1. q[k] = k
      BY <1>5, <2>2
    <3> QED
      BY <3>1
  <2> QED
    BY <2>1, <2>2
<1>11. q \in Bijection(1 .. m, 1 .. m)
  BY <1>8, <1>9, <1>10 DEF Bijection, Injection, IsInjective, Surjection
<1>12. ASSUME NEW i \in 1 .. m
       PROVE  (t \o x)[i] = (s \o x)[q[i]]
  <2>1. CASE i <= n
    <3>1. i \in 1 .. n /\ q[i] = p[i]
      BY <1>5, <2>1
    <3>2. PICK k \in 1 .. n : k = p[i] /\ t[i] = s[k]
      BY <1>2, <1>6, <3>1
    <3>3. k \in 1 .. m /\ k <= n
      BY <1>7
    <3>4. (t \o x)[i] = t[i]
      BY <1>4, <2>1
    <3>5. (s \o x)[k] = s[k]
      BY <1>4, <3>3
    <3> QED
      BY <3>1, <3>2, <3>4, <3>5
  <2>2. CASE i > n
    <3>1. q[i] = i
      BY <1>5, <2>2
    <3> QED
      BY <1>4, <2>2, <3>1
  <2> QED
    <3>1. i <= n \/ i > n
      BY <1>1, <1>3
    <3> QED
      BY <2>1, <2>2, <3>1, Zenon
<1> QED
  BY <1>4, <1>11, <1>12 DEF Rearranges

(* sort may put what it has read in order before it reads the rest.        *)
LEMMA SortedInTurn ==
  ASSUME NEW s \in Seq(Nat), NEW x \in Seq(Nat)
  PROVE  Sorted(Sorted(s) \o x) = Sorted(s \o x)
<1>1. PICK t \in Seq(Nat) : t = Sorted(s) /\ Rearranges(t, s)
  BY SortedIs
<1>2. Rearranges(t \o x, s \o x)
  BY <1>1, RearrangedBefore
<1>3. t \o x \in Seq(Nat) /\ s \o x \in Seq(Nat)
  BY ConcatProperties
<1> QED
  BY <1>1, <1>2, <1>3, SortedSame

(* Sorting what is sorted changes nothing.                                 *)
LEMMA SortedAgain ==
  ASSUME NEW s \in Seq(Nat)
  PROVE  Sorted(Sorted(s)) = Sorted(s)
<1>1. PICK t \in Seq(Nat) : t = Sorted(s) /\ Rearranges(t, s)
  BY SortedIs
<1> QED
  BY <1>1, SortedSame

-----------------------------------------------------------------------------
(* What a program has still to write                                       *)

CONSTANTS Lines, Capacity, MayFail

VARIABLES shape, programs, match, pc, next, fds, pipe, mem, eof, out, failed

Pipeline == INSTANCE Pipes

Filters == {"grep", "sort", "head"}

\* The whole output of a program, and its memory after one more line.
Makes(program, s, m) ==
  CASE program = "cat" -> s
    [] program = "grep" -> Kept(s, m)
    [] program = "sort" -> Sorted(s)
    [] program = "head" -> SubSeq(s, 1, IF s = << >> THEN 0 ELSE 1)
Takes(program, s, l, m) ==
  CASE program = "grep" -> One(l, m)
    [] program = "sort" -> Sorted(Append(s, l))
    [] program = "head" -> <<l>>

\* What a program owes that has made `made` of its input and will find
\* `rest` in the pipe; the latter does not count once it has ended its reading.
Reading(program, made, rest, m) ==
  IF program = "grep" THEN made \o Kept(rest, m) ELSE Makes(program, made \o rest, m)
Owes(program, made, ended, rest, m) ==
  IF ended THEN made ELSE Reading(program, made, rest, m)

\* What a program may hold while it reads.
Holds(program, made) ==
  /\ program = "sort" => made = Sorted(made)
  /\ program = "head" => made = << >>

(* What head makes of nothing, and of at least a line.                     *)
LEMMA FirstIs ==
  ASSUME NEW s \in Seq(Nat), NEW h \in Nat
  PROVE  /\ SubSeq(<< >>, 1, 0) = << >>
         /\ SubSeq(s, 1, IF s = << >> THEN 0 ELSE 1) \in Seq(Nat)
         /\ <<h>> \o s # << >> /\ SubSeq(<<h>> \o s, 1, 1) = <<h>>
<1>1. SubSeq(<< >>, 1, 0) = << >>
  BY SubSeqEmpty
<1>2. <<h>> \in Seq(Nat) /\ Len(<<h>>) = 1 /\ <<h>>[1] = h
  OBVIOUS
<1>3. PICK t \in Seq(Nat) : t = <<h>> \o s /\ Len(t) = 1 + Len(s) /\ t[1] = h
  <2>1. 1 \in 1 .. 1 + Len(s) /\ 1 <= 1 /\ <<h>> \o s \in Seq(Nat)
    BY <1>2, ConcatProperties
  <2>2. /\ Len(<<h>> \o s) = 1 + Len(s)
        /\ \A i \in 1 .. 1 + Len(s) : (<<h>> \o s)[i] = IF i <= 1 THEN <<h>>[i] ELSE s[i - 1]
    BY <1>2, ConcatProperties
  <2>3. (<<h>> \o s)[1] = h
    BY <1>2, <2>1, <2>2
  <2> QED
    BY <2>1, <2>2, <2>3
<1>4. t # << >> /\ SubSeq(t, 1, 1) = <<h>>
  <2>1. Len(t) \in Nat /\ Len(t) # 0 /\ \A i \in 1 .. 1 : t[i] = h /\ t[i] \in Nat
    BY <1>3
  <2>2. t # << >>
    BY <2>1
  <2>3. PICK u \in Seq(Nat) : u = SubSeq(t, 1, 1) /\ Len(u) = 1 /\ u[1] = t[1]
    <3>1. SubSeq(t, 1, 1) \in Seq(Nat) /\ Len(SubSeq(t, 1, 1)) = 1
      BY <2>1, SubSeqProperties
    <3>2. SubSeq(t, 1, 1)[1] = t[1]
      BY <2>1, <3>1
    <3> QED
      BY <3>1, <3>2
  <2>4. u = <<h>>
    <3>1. \A i \in 1 .. Len(u) : u[i] = <<h>>[i]
      BY <1>2, <1>3, <2>3
    <3> QED
      BY <1>2, <2>3, <3>1, SeqEqual
  <2> QED
    BY <2>2, <2>3, <2>4
<1> QED
  BY <1>1, <1>3, <1>4

(* Append and a sequence of one line.                                      *)
LEMMA AppendIs ==
  ASSUME NEW s \in Seq(Nat), NEW h \in Nat
  PROVE  <<h>> \in Seq(Nat) /\ Append(s, h) \in Seq(Nat) /\ Append(s, h) = s \o <<h>>
OBVIOUS

(* What a program owes are lines.                                          *)
LEMMA OwesType ==
  ASSUME NEW program \in Filters, NEW made \in Seq(Nat), NEW ended \in BOOLEAN,
         NEW rest \in Seq(Nat), NEW m
  PROVE  Owes(program, made, ended, rest, m) \in Seq(Nat)
<1>1. made \o rest \in Seq(Nat) /\ Kept(rest, m) \in Seq(Nat)
  BY KeptType, ConcatProperties
<1>2. CASE program = "grep"
  BY <1>1, <1>2, ConcatProperties DEF Owes, Reading
<1>3. CASE program = "sort"
  BY <1>1, <1>3, SortedIs DEF Owes, Reading, Makes
<1>4. CASE program = "head"
  <2>1. PICK s \in Seq(Nat) : s = made \o rest
    BY <1>1
  <2>2. SubSeq(s, 1, IF s = << >> THEN 0 ELSE 1) \in Seq(Nat)
    BY FirstIs
  <2> QED
    BY <1>4, <2>1, <2>2 DEF Owes, Reading, Makes
<1> QED
  BY <1>2, <1>3, <1>4 DEF Filters

(* Before it has read anything it owes what it makes of its whole input.   *)
LEMMA OwesAll ==
  ASSUME NEW program \in Filters, NEW s \in Seq(Nat), NEW m
  PROVE  Reading(program, << >>, s, m) = Makes(program, s, m)
<1>1. << >> \o s = s /\ << >> \o Kept(s, m) = Kept(s, m)
  BY KeptType, ConcatEmptySeq
<1> QED
  BY <1>1 DEF Owes, Reading, Makes, Filters

(* Reading a line changes nothing of it.                                   *)
LEMMA OwesAfterRead ==
  ASSUME NEW program \in Filters, NEW made \in Seq(Nat), NEW h \in Nat,
         NEW rest \in Seq(Nat), NEW m,
         Holds(program, made), program # "sort" => made = << >>,
         NEW new, new = Takes(program, made, h, m)
  PROVE  /\ new \in Seq(Nat)
         /\ program # "head" => Holds(program, new)
         /\ Reading(program, made, <<h>> \o rest, m)
              = IF program = "head" THEN new ELSE Reading(program, new, rest, m)
<1>1. /\ <<h>> \in Seq(Nat) /\ << >> \in Seq(Nat) /\ <<h>> \o rest \in Seq(Nat)
      /\ Append(made, h) \in Seq(Nat) /\ Append(made, h) = made \o <<h>>
  BY AppendIs, ConcatProperties
<1>2. CASE program = "grep"
  <2>1. new = One(h, m) /\ new \in Seq(Nat)
    BY <1>1, <1>2 DEF Takes, One
  <2>2. Kept(<<h>> \o rest, m) = new \o Kept(rest, m)
    <3>1. Kept(<<h>> \o rest, m) = One(h, m) \o Kept(rest, m)
      BY KeptInTurn
    <3> QED
      BY <2>1, <3>1
  <2>3. PICK k \in Seq(Nat) : k = Kept(<<h>> \o rest, m)
    BY <1>1, KeptType
  <2>4. << >> \o k = k
    BY ConcatEmptySeq
  <2> QED
    BY <1>2, <2>1, <2>2, <2>3, <2>4 DEF Owes, Reading, Holds
<1>3. CASE program = "sort"
  <2>1. new = Sorted(Append(made, h))
    BY <1>3 DEF Takes
  <2>2. new \in Seq(Nat) /\ Sorted(new) = new
    BY <1>1, <2>1, SortedIs, SortedAgain
  <2>3. made \o (<<h>> \o rest) = Append(made, h) \o rest
    <3>1. (made \o <<h>>) \o rest = made \o (<<h>> \o rest)
      BY <1>1, ConcatAssociative
    <3> QED
      BY <1>1, <3>1
  <2>4. Sorted(new \o rest) = Sorted(Append(made, h) \o rest)
    BY <1>1, <2>1, SortedInTurn
  <2> QED
    BY <1>3, <2>2, <2>3, <2>4 DEF Owes, Reading, Makes, Holds
<1>4. CASE program = "head"
  <2>1. new = <<h>>
    BY <1>4 DEF Takes
  <2>2. << >> \o (<<h>> \o rest) = <<h>> \o rest
    BY <1>1, ConcatEmptySeq
  <2>3. <<h>> \o rest # << >> /\ SubSeq(<<h>> \o rest, 1, 1) = <<h>>
    BY FirstIs
  <2> QED
    BY <1>1, <1>4, <2>1, <2>2, <2>3 DEF Owes, Reading, Makes
<1> QED
  BY <1>2, <1>3, <1>4 DEF Filters

(* Nor does the end of the input, once nothing is to come.                 *)
LEMMA OwesAtTheEnd ==
  ASSUME NEW program \in Filters, NEW made \in Seq(Nat), NEW m, Holds(program, made)
  PROVE  Reading(program, made, << >>, m) = made
<1>1. made \o << >> = made /\ Kept(<< >>, m) = << >>
  BY KeptNone, ConcatEmptySeq
<1>2. SubSeq(<< >>, 1, 0) = << >>
  BY SubSeqEmpty
<1> QED
  BY <1>1, <1>2 DEF Owes, Reading, Makes, Holds, Filters

(* A line that is written is the first of those owed.                      *)
LEMMA OwesAfterWrite ==
  ASSUME NEW program \in Filters, NEW made \in Seq(Nat), NEW ended \in BOOLEAN,
         NEW rest \in Seq(Nat), NEW m, made # << >>,
         program = "sort" => ended, ~ended => Holds(program, made)
  PROVE  /\ Head(made) \in Nat /\ Tail(made) \in Seq(Nat)
         /\ ~ended => Holds(program, Tail(made))
         /\ Owes(program, made, ended, rest, m)
              = <<Head(made)>> \o Owes(program, Tail(made), ended, rest, m)
<1>1. /\ Head(made) \in Nat /\ Tail(made) \in Seq(Nat)
      /\ made = <<Head(made)>> \o Tail(made)
  BY HeadAndTail
<1>2. CASE ended
  BY <1>1, <1>2 DEF Owes, Reading
<1>3. CASE ~ended
  <2>1. program = "grep"
    BY <1>3 DEF Holds, Filters
  <2>2. Kept(rest, m) \in Seq(Nat) /\ <<Head(made)>> \in Seq(Nat)
    BY <1>1, KeptType
  <2>3. (<<Head(made)>> \o Tail(made)) \o Kept(rest, m)
          = <<Head(made)>> \o (Tail(made) \o Kept(rest, m))
    BY <1>1, <2>2, ConcatAssociative
  <2> QED
    BY <1>1, <1>3, <2>1, <2>3 DEF Owes, Reading, Holds
<1> QED
  BY <1>2, <1>3

(* The first line that is to come is the head of the pipe.                 *)
LEMMA OutOfThePipe ==
  ASSUME NEW q \in Seq(Nat), NEW d \in Seq(Nat), q # << >>
  PROVE  /\ Head(q) \in Nat /\ Tail(q) \in Seq(Nat)
         /\ q \o d = <<Head(q)>> \o (Tail(q) \o d)
<1>1. /\ Head(q) \in Nat /\ Tail(q) \in Seq(Nat) /\ <<Head(q)>> \in Seq(Nat)
      /\ q = <<Head(q)>> \o Tail(q)
  BY HeadAndTail
<1>2. (<<Head(q)>> \o Tail(q)) \o d = <<Head(q)>> \o (Tail(q) \o d)
  BY <1>1, ConcatAssociative
<1> QED
  BY <1>1, <1>2

(* A line goes behind those in the pipe and before those that are to       *)
(* follow.                                                                 *)
LEMMA IntoThePipe ==
  ASSUME NEW q \in Seq(Nat), NEW d \in Seq(Nat), NEW h \in Nat
  PROVE  Append(q, h) \in Seq(Nat) /\ Append(q, h) \o d = q \o (<<h>> \o d)
<1>1. <<h>> \in Seq(Nat) /\ Append(q, h) \in Seq(Nat) /\ Append(q, h) = q \o <<h>>
  BY AppendIs
<1>2. (q \o <<h>>) \o d = q \o (<<h>> \o d)
  BY <1>1, ConcatAssociative
<1> QED
  BY <1>1, <1>2

-----------------------------------------------------------------------------
(* What the programs make of the file                                      *)

File == [l \in 1 .. Lines |-> Lines + 1 - l]

Goal ==
  IF shape = "two_way"
  THEN <<"input", "howard.edu", "input", "howard.edu", "second input", "gobison.org">>
  ELSE IF Len(programs) = 2 THEN Makes(programs[2], File, match)
  ELSE Makes(programs[3], Makes(programs[2], File, match), match)

Commands ==
  \E f, g \in Filters : \/ programs = <<"cat", f>>
                        \/ programs = <<"cat", f, g>>

\* What Max of a set of indices is.
Top(s) == CHOOSE x \in s : \A y \in s : x >= y

(* The greatest of some indices.                                           *)
LEMMA TopIs ==
  ASSUME NEW s \in SUBSET {1, 2, 3}, NEW x \in s, \A y \in s : x >= y
  PROVE  Top(s) = x
<1>1. ASSUME NEW y \in s, \A z \in s : y >= z
      PROVE  y = x
  <2>1. y >= x /\ x >= y /\ x \in Nat /\ y \in Nat
    BY <1>1
  <2> QED
    BY <2>1
<1> QED
  BY <1>1 DEF Top

(* The fold over two or three programs.                                    *)
LEMMA FoldIs ==
  ASSUME NEW ps, NEW n \in {2, 3}, DOMAIN ps = 1 .. n, NEW b
  PROVE  Pipeline!FoldLeft(Pipeline!Result, b, ps)
           = LET a == Makes(ps[2], Makes(ps[1], b, match), match)
             IN  IF n = 2 THEN a ELSE Makes(ps[3], a, match)
<1> DEFINE Is(g) == g = [s \in SUBSET (1 .. n) |->
                           IF s = {} THEN b
                           ELSE Makes(ps[Top(s)], g[s \ {Top(s)}], match)]
<1>1. Pipeline!FoldLeft(Pipeline!Result, b, ps) = (CHOOSE f : Is(f))[1 .. n]
  BY DEF Pipeline!FoldLeft, Pipeline!MapThenFoldSet, Pipeline!Max, Top,
         Pipeline!Result, Makes, Pipeline!SortLines, Sorted, Pipeline!Matching, Kept,
         Pipeline!Bijection, Bijection, Pipeline!Injection, Injection,
         Pipeline!Surjection, Surjection, Pipeline!IsInjective, IsInjective
<1> DEFINE First(s) == IF 1 \in s THEN Makes(ps[1], b, match) ELSE b
           Second(s) == IF 2 \in s THEN Makes(ps[2], First(s), match) ELSE First(s)
           Third(s) == IF 3 \in s THEN Makes(ps[3], Second(s), match) ELSE Second(s)
<1>2. PICK g : g = [s \in SUBSET (1 .. n) |-> Third(s)]
  OBVIOUS
<1>3. ASSUME NEW s \in SUBSET (1 .. n), s # {}
      PROVE  /\ Top(s) \in s
             /\ Third(s) = Makes(ps[Top(s)], Third(s \ {Top(s)}), match)
  <2>1. s \in SUBSET {1, 2, 3}
    OBVIOUS
  <2>2. CASE 3 \in s
    <3>1. Top(s) = 3
      BY <2>1, <2>2, TopIs
    <3>2. First(s \ {3}) = First(s) /\ Second(s \ {3}) = Second(s)
      OBVIOUS
    <3>3. Third(s \ {3}) = Second(s)
      BY <3>2
    <3>4. Third(s) = Makes(ps[3], Second(s), match)
      BY <2>2
    <3> QED
      BY <2>2, <3>1, <3>3, <3>4
  <2>3. CASE 3 \notin s /\ 2 \in s
    <3>1. Top(s) = 2
      BY <2>1, <2>3, TopIs
    <3>2. First(s \ {2}) = First(s)
      OBVIOUS
    <3>3. Third(s \ {2}) = First(s)
      BY <2>3, <3>2
    <3>4. Third(s) = Makes(ps[2], First(s), match)
      BY <2>3
    <3> QED
      BY <2>3, <3>1, <3>3, <3>4
  <2>4. CASE 3 \notin s /\ 2 \notin s
    <3>1. s = {1}
      BY <1>3, <2>1, <2>4
    <3>2. Top(s) = 1
      BY <2>1, <3>1, TopIs
    <3>3. Third(s \ {1}) = b
      BY <2>4
    <3>4. Third(s) = Makes(ps[1], b, match)
      BY <2>4, <3>1
    <3> QED
      BY <3>1, <3>2, <3>3, <3>4
  <2> QED
    BY <2>2, <2>3, <2>4
<1>4. Third({}) = b
  OBVIOUS
<1>5. Is(g)
  <2> HIDE DEF Third
  <2>1. ASSUME NEW s \in SUBSET (1 .. n)
        PROVE  g[s] = IF s = {} THEN b
                      ELSE Makes(ps[Top(s)], g[s \ {Top(s)}], match)
    <3>1. CASE s = {}
      BY <1>2, <1>4, <3>1
    <3>2. CASE s # {}
      <4>1. s \ {Top(s)} \in SUBSET (1 .. n)
        OBVIOUS
      <4> QED
        BY <1>2, <1>3, <3>2, <4>1
    <3> QED
      BY <3>1, <3>2
  <2>2. g = [s \in SUBSET (1 .. n) |-> g[s]]
    BY <1>2
  <2> QED
    BY <2>1, <2>2
<1>6. Is(CHOOSE f : Is(f))
  <2> HIDE DEF Is
  <2> QED
    BY <1>5
<1>7. PICK f : f = (CHOOSE x : Is(x)) /\ Is(f)
  BY <1>6
<1>8. f[{}] = b
  BY <1>7
<1>9. f[{1}] = Makes(ps[1], b, match)
  <2>1. Top({1}) = 1
    BY TopIs
  <2>2. {1} \in SUBSET (1 .. n) /\ {1} # {} /\ {1} \ {1} = {}
    OBVIOUS
  <2>3. f[{1}] = Makes(ps[Top({1})], f[{1} \ {Top({1})}], match)
    BY <1>7, <2>2
  <2> QED
    BY <1>8, <2>1, <2>2, <2>3
<1>10. f[{1, 2}] = Makes(ps[2], Makes(ps[1], b, match), match)
  <2>1. Top({1, 2}) = 2
    BY TopIs
  <2>2. {1, 2} \in SUBSET (1 .. n) /\ {1, 2} # {} /\ {1, 2} \ {2} = {1}
    OBVIOUS
  <2>3. f[{1, 2}] = Makes(ps[Top({1, 2})], f[{1, 2} \ {Top({1, 2})}], match)
    BY <1>7, <2>2
  <2> QED
    BY <1>9, <2>1, <2>2, <2>3
<1>11. CASE n = 2
  <2>1. 1 .. n = {1, 2}
    BY <1>11
  <2> QED
    BY <1>1, <1>7, <1>10, <1>11, <2>1
<1>12. CASE n = 3
  <2>1. Top({1, 2, 3}) = 3
    BY TopIs
  <2>2. 1 .. n = {1, 2, 3} /\ {1, 2, 3} # {} /\ {1, 2, 3} \ {3} = {1, 2}
    BY <1>12
  <2>3. f[{1, 2, 3}] = Makes(ps[Top({1, 2, 3})], f[{1, 2, 3} \ {Top({1, 2, 3})}], match)
    BY <1>7, <2>2
  <2> QED
    BY <1>1, <1>7, <1>10, <1>12, <2>1, <2>2, <2>3
<1> QED
  BY <1>11, <1>12

(* What comes out in the end is what the programs make of the file, one    *)
(* after the other.                                                        *)
LEMMA ExpectedIs ==
  ASSUME shape # "two_way" => Commands
  PROVE  Pipeline!Expected = Goal
<1>1. CASE shape = "two_way"
  BY <1>1 DEF Pipeline!Expected, Goal
<1>2. CASE shape # "two_way"
  <2>1. PICK n \in {2, 3} : n = Len(programs) /\ DOMAIN programs = 1 .. n
    BY <1>2 DEF Commands
  <2>2. programs[1] = "cat"
    BY <1>2 DEF Commands
  <2>3. Makes(programs[1], File, match) = File
    BY <2>2 DEF Makes
  <2>4. Pipeline!FoldLeft(Pipeline!Result, File, programs) = Goal
    BY <1>2, <2>1, <2>3, FoldIs DEF Goal
  <2> QED
    BY <1>2, <2>4 DEF Pipeline!Expected, Pipeline!Scores, File
<1> QED
  BY <1>1, <1>2

-----------------------------------------------------------------------------
(* The invariant of the pipelines                                          *)

PipeEnds == {1, 2} \X {"r", "w"}

Due2 == Owes(programs[2], mem[2], eof[2], pipe[1] \o mem[1], match)
Due3 == Owes(programs[3], mem[3], eof[3], pipe[2] \o Due2, match)

\* What the terminal is still to get.
Due == IF Len(programs) = 2 THEN Due2 ELSE Due3

\* Nothing is lost on the way: what has come out and what is still due, the
\* lines in the pipes included, make up the goal.
NothingLost ==
  /\ pipe \in [{1, 2} -> Seq(Nat)]
  /\ mem \in [0 .. 3 -> Seq(Nat)]
  /\ eof \in [0 .. 3 -> BOOLEAN]
  /\ out \in Seq(Nat)
  /\ eof[1]
  /\ \A p \in 2 .. Len(programs) : ~eof[p] => Holds(programs[p], mem[p])
  /\ out \o Due = Goal

Born(p) == pc[p] # "unborn"

ProcessesAre ==
  /\ pc \in [0 .. 3 -> {"unborn", "setup", "run", "done", "fork", "become", "close", "wait"}]
  /\ fds \in [0 .. 3 -> SUBSET PipeEnds]
  /\ pc[0] \notin {"unborn", "setup", "run"}
  /\ \A p \in 1 .. Len(programs) : pc[p] \notin {"fork", "become", "close", "wait"}

\* The parent forks the stages in turn; cat of cat_grep is itself.
InTurn ==
  /\ pc[0] = "fork" =>
       /\ next \in 1 .. Len(programs)
       /\ \A p \in 1 .. Len(programs) :
            ~Born(p) <=> p >= next \/ (shape = "cat_grep" /\ p = 1)
       /\ shape = "cat_grep" => next = 2
  /\ pc[0] = "become" => ~Born(1) /\ Born(2) /\ Len(programs) = 2
  /\ pc[0] \in {"close", "wait", "done"} => \A p \in 1 .. Len(programs) : Born(p)

\* As long as it has stages to fork it has every pipe open.
ParentKeeps ==
  pc[0] \in {"fork", "become"} =>
    \A k \in 1 .. Len(programs) - 1 : <<k, "r">> \in fds[0] /\ <<k, "w">> \in fds[0]

\* So has a stage the pipes it reads and writes.
StagesKeep ==
  \A p \in 1 .. Len(programs) : pc[p] \in {"setup", "run"} =>
    /\ p # 1 => <<p - 1, "r">> \in fds[p]
    /\ p # Len(programs) => <<p, "w">> \in fds[p]

\* A stage that is done has nothing left, or nobody to give it to.
DoneWell ==
  \A p \in 1 .. Len(programs) : pc[p] = "done" =>
    (eof[p] /\ mem[p] = << >>) \/ (p # Len(programs) /\ pc[p + 1] = "done")

EndsOpen == ProcessesAre /\ InTurn /\ ParentKeeps /\ StagesKeep /\ DoneWell

\* pipes_processes1.c goes back and forth.
BackAndForth ==
  \/ /\ pc = [p \in 0 .. 3 |-> IF p = 0 THEN "fork" ELSE "unborn"]
     /\ next = 1
     /\ pipe = [k \in {1, 2} |-> << >>]
     /\ out = << >>
  \/ /\ pc[0] \in {"write", "read"} /\ pc[1] = "read"
     /\ pipe = [k \in {1, 2} |-> IF k = 1 /\ pc[0] = "read" THEN <<"input">> ELSE << >>]
     /\ out = << >>
  \/ /\ pc[0] = "read" /\ pc[1] = "done"
     /\ pipe = [k \in {1, 2} |-> IF k = 1 THEN << >>
                                 ELSE <<"input", "howard.edu", "second input">>]
     /\ out = <<"input", "howard.edu">>
  \/ /\ pc[0] \in {"wait", "done"} /\ pc[1] = "done"
     /\ out = Goal

Piping ==
  ~failed =>
    IF shape = "two_way" THEN /\ programs = << >>
         /\ BackAndForth
         /\ pc \in [0 .. 3 -> {"unborn", "fork", "write", "read", "wait", "done"}]
    ELSE /\ Commands
         /\ shape = "cat_grep" => Len(programs) = 2
         /\ NothingLost
         /\ EndsOpen

(* The goal depends on the choices made at the start only.                 *)
LEMMA GoalSame ==
  ASSUME UNCHANGED <<shape, programs, match>>
  PROVE  Goal' = Goal
BY DEF Goal

(* The file has lines.                                                     *)
LEMMA FileIs ==
  ASSUME Lines \in Nat
  PROVE  File \in Seq(Nat)
<1>1. \A l \in 1 .. Lines : Lines + 1 - l \in Nat
  OBVIOUS
<1>2. File \in [1 .. Lines -> Nat]
  BY <1>1 DEF File
<1> QED
  BY <1>2

(* A program makes lines of lines.                                         *)
LEMMA MakesType ==
  ASSUME NEW program \in Filters, NEW s \in Seq(Nat), NEW m
  PROVE  Makes(program, s, m) \in Seq(Nat)
<1>1. << >> \in Seq(Nat)
  OBVIOUS
<1>2. PICK ended \in BOOLEAN : ~ended
  OBVIOUS
<1>3. Owes(program, << >>, ended, s, m) \in Seq(Nat)
  BY <1>1, OwesType
<1>4. Reading(program, << >>, s, m) \in Seq(Nat)
  BY <1>2, <1>3 DEF Owes
<1> QED
  BY <1>4, OwesAll

(* At the start everything is due.                                         *)
LEMMA PipingAtFirst ==
  ASSUME Pipeline!PipesAssumption, Pipeline!Init
  PROVE  Piping
<1>1. Lines \in Nat /\ File \in Seq(Nat)
  BY FileIs DEF Pipeline!PipesAssumption
<1>2. /\ pc = [p \in 0 .. 3 |-> IF p = 0 THEN "fork" ELSE "unborn"]
      /\ next = IF shape = "cat_grep" THEN 2 ELSE 1
      /\ pipe = [k \in {1, 2} |-> << >>]
      /\ mem = [p \in 0 .. 3 |-> IF p = 1 THEN File ELSE << >>]
      /\ eof = [p \in 0 .. 3 |-> p = 1]
      /\ out = << >>
      /\ fds = [p \in 0 .. 3 |->
                  IF p = 0 THEN {e \in PipeEnds : e[1] < Len(programs) \/ shape = "two_way"}
                  ELSE {}]
  BY DEF Pipeline!Init, Pipeline!Procs, Pipeline!Scores, File, Pipeline!Ends, PipeEnds
<1>3. CASE shape = "two_way"
  <2>1. programs = << >>
    BY <1>3 DEF Pipeline!Init
  <2>2. next = 1
    BY <1>2, <1>3
  <2>3. BackAndForth
    BY <1>2, <2>2, Zenon DEF BackAndForth
  <2>4. pc \in [0 .. 3 -> {"unborn", "fork", "write", "read", "wait", "done"}]
    BY <1>2
  <2> QED
    BY <1>3, <2>1, <2>3, <2>4 DEF Piping
<1>4. CASE shape # "two_way"
  <2>1. Commands /\ (shape = "cat_grep" => Len(programs) = 2)
    BY <1>4 DEF Pipeline!Init, Commands, Pipeline!Filters, Filters
  <2>2. PICK f \in Filters, g \in Filters : \/ programs = <<"cat", f>>
                                            \/ programs = <<"cat", f, g>>
    BY <2>1 DEF Commands
  <2>3. programs[2] = f /\ Len(programs) \in {2, 3} /\ (Len(programs) = 3 => programs[3] = g)
    BY <2>2
  <2>4. /\ mem[1] = File /\ mem[2] = << >> /\ mem[3] = << >>
        /\ ~eof[2] /\ ~eof[3] /\ eof[1]
        /\ pipe[1] = << >> /\ pipe[2] = << >>
    <3>1. 1 \in 0 .. 3 /\ 2 \in 0 .. 3 /\ 3 \in 0 .. 3 /\ 2 # 1 /\ 3 # 1
      OBVIOUS
    <3>2. mem[1] = File /\ mem[2] = << >> /\ mem[3] = << >>
      BY <1>2, <3>1, Zenon
    <3>3. eof[1] /\ ~eof[2] /\ ~eof[3]
      BY <1>2, <3>1, Zenon
    <3>4. pipe[1] = << >> /\ pipe[2] = << >>
      BY <1>2
    <3> QED
      BY <3>2, <3>3, <3>4
  <2>5. Due2 = Makes(f, File, match)
    <3>1. << >> \o File = File
      BY <1>1, ConcatEmptySeq
    <3>2. Reading(f, << >>, File, match) = Makes(f, File, match)
      BY <1>1, OwesAll
    <3>3. Owes(f, << >>, eof[2], << >> \o File, match) = Reading(f, << >>, File, match)
      BY <2>4, <3>1 DEF Owes
    <3> QED
      BY <2>3, <2>4, <3>2, <3>3 DEF Due2
  <2>6. PICK d \in Seq(Nat) : d = Makes(f, File, match)
    BY <1>1, MakesType
  <2>7. Len(programs) = 3 => Due3 = Makes(g, d, match)
    <3>1. << >> \o d = d
      BY ConcatEmptySeq
    <3>2. Reading(g, << >>, d, match) = Makes(g, d, match)
      BY OwesAll
    <3>3. Owes(g, << >>, eof[3], << >> \o d, match) = Reading(g, << >>, d, match)
      BY <2>4, <3>1 DEF Owes
    <3> QED
      BY <2>3, <2>4, <2>5, <2>6, <3>2, <3>3 DEF Due3
  <2>8. Makes(g, d, match) \in Seq(Nat)
    BY MakesType
  <2>9. Due = Goal /\ Due \in Seq(Nat)
    BY <1>4, <2>3, <2>5, <2>6, <2>7, <2>8 DEF Due, Goal
  <2>10. << >> \o Due = Due
    BY <2>9, ConcatEmptySeq
  <2>11. \A p \in 2 .. Len(programs) : Holds(programs[p], mem[p])
    <3>1. Sorted(<< >>) = << >>
      BY DEF Sorted
    <3>2. \A p \in 2 .. Len(programs) : mem[p] = << >>
      <4>1. \A p \in 2 .. Len(programs) : p = 2 \/ p = 3
        <5>1. PICK n \in {2, 3} : n = Len(programs)
          BY <2>3
        <5>2. \A p \in 2 .. n : p = 2 \/ p = 3
          BY <5>1
        <5> QED
          BY <5>1, <5>2
      <4> QED
        BY <2>4, <4>1
    <3> QED
      BY <3>1, <3>2 DEF Holds
  <2>12. /\ pipe \in [{1, 2} -> Seq(Nat)] /\ mem \in [0 .. 3 -> Seq(Nat)]
         /\ eof \in [0 .. 3 -> BOOLEAN] /\ out \in Seq(Nat)
    BY <1>1, <1>2
  <2>13. NothingLost
    BY <1>2, <2>4, <2>9, <2>10, <2>11, <2>12 DEF NothingLost
  <2>14. EndsOpen
    <3>1. PICK n \in {2, 3} : n = Len(programs)
      BY <2>3
    <3>2. pc[0] = "fork" /\ \A p \in 1 .. n : pc[p] = "unborn"
      <4>1. \A p \in 0 .. 3 : pc[p] = IF p = 0 THEN "fork" ELSE "unborn"
        BY <1>2, Zenon
      <4>2. 0 \in 0 .. 3 /\ \A p \in 1 .. n : p \in 0 .. 3 /\ p # 0
        BY <3>1
      <4> QED
        BY <4>1, <4>2
    <3>3. pc \in [0 .. 3 -> {"unborn", "fork"}]
      BY <1>2
    <3>4. fds \in [0 .. 3 -> SUBSET PipeEnds]
      BY <1>2
    <3>5. /\ next \in 1 .. n
          /\ \A p \in 1 .. n : p >= next \/ (shape = "cat_grep" /\ p = 1)
          /\ shape = "cat_grep" => next = 2
      <4>1. next = IF shape = "cat_grep" THEN 2 ELSE 1
        BY <1>2
      <4> QED
        BY <3>1, <4>1
    <3>6. \A k \in 1 .. n - 1 : <<k, "r">> \in fds[0] /\ <<k, "w">> \in fds[0]
      <4> SUFFICES ASSUME NEW k \in 1 .. n - 1, NEW x \in {"r", "w"}
                   PROVE  <<k, x>> \in fds[0]
        OBVIOUS
      <4>1. fds[0] = {e \in PipeEnds : e[1] < Len(programs) \/ shape = "two_way"}
        BY <1>2
      <4>2. k \in {1, 2} /\ k < n
        BY <3>1
      <4>3. <<k, x>> \in PipeEnds /\ <<k, x>>[1] = k
        BY <4>2 DEF PipeEnds
      <4> QED
        BY <3>1, <4>1, <4>2, <4>3
    <3>7. pc \in [0 .. 3 -> {"unborn", "setup", "run", "done", "fork", "become", "close", "wait"}]
      BY <3>3
    <3> QED
      BY <3>1, <3>2, <3>4, <3>5, <3>6, <3>7
      DEF EndsOpen, ProcessesAre, InTurn, ParentKeeps, StagesKeep, DoneWell, Born
  <2> QED
    BY <1>4, <2>1, <2>13, <2>14 DEF Piping
<1> QED
  BY <1>3, <1>4

-----------------------------------------------------------------------------
(* pipes_processes1.c                                                      *)

(* The strings of pipes_processes1.c, put together.                        *)
LEMMA OneAndOne ==
  ASSUME NEW a, NEW b
  PROVE  <<a>> \o <<b>> = <<a, b>>
<1>1. PICK S : S = {a, b}
  OBVIOUS
<1>2. PICK s : s = <<a>>
  OBVIOUS
<1>3. s \in Seq(S) /\ Len(s) = 1 /\ s[1] = a
  BY <1>1, <1>2
<1>4. PICK t : t = <<b>>
  OBVIOUS
<1>5. t \in Seq(S) /\ Len(t) = 1 /\ t[1] = b
  BY <1>1, <1>4
<1>6. PICK v : v = <<a, b>>
  OBVIOUS
<1>7. v \in Seq(S) /\ Len(v) = 2 /\ v[1] = a /\ v[2] = b
  BY <1>1, <1>6
<1>8. PICK u : u = s \o t
  OBVIOUS
<1>9. /\ u \in Seq(S) /\ Len(u) = Len(s) + Len(t)
      /\ \A i \in 1 .. Len(s) + Len(t) : u[i] = IF i <= Len(s) THEN s[i] ELSE t[i - Len(s)]
  BY <1>3, <1>5, <1>8, ConcatProperties
<1>10. Len(s) + Len(t) = 2
  BY <1>3, <1>5
<1>11. u[1] = s[1] /\ u[2] = t[1]
  BY <1>3, <1>9, <1>10
<1>12. u[1] = v[1] /\ u[2] = v[2]
  BY <1>3, <1>5, <1>7, <1>11
<1>13. \A i \in 1 .. 2 : i = 1 \/ i = 2
  OBVIOUS
<1>14. \A i \in 1 .. Len(u) : u[i] = v[i]
  BY <1>9, <1>10, <1>12, <1>13
<1>15. u = v
  BY <1>7, <1>9, <1>10, <1>14, SeqEqual
<1> QED
  BY <1>2, <1>4, <1>6, <1>8, <1>15

LEMMA OneAndTwo ==
  ASSUME NEW a, NEW b, NEW c
  PROVE  <<a>> \o <<b, c>> = <<a, b, c>>
<1>1. PICK S : S = {a, b, c}
  OBVIOUS
<1>2. PICK s : s = <<a>>
  OBVIOUS
<1>3. s \in Seq(S) /\ Len(s) = 1 /\ s[1] = a
  BY <1>1, <1>2
<1>4. PICK t : t = <<b, c>>
  OBVIOUS
<1>5. t \in Seq(S) /\ Len(t) = 2 /\ t[1] = b /\ t[2] = c
  BY <1>1, <1>4
<1>6. PICK v : v = <<a, b, c>>
  OBVIOUS
<1>7. v \in Seq(S) /\ Len(v) = 3 /\ v[1] = a /\ v[2] = b /\ v[3] = c
  BY <1>1, <1>6
<1>8. PICK u : u = s \o t
  OBVIOUS
<1>9. /\ u \in Seq(S) /\ Len(u) = Len(s) + Len(t)
      /\ \A i \in 1 .. Len(s) + Len(t) : u[i] = IF i <= Len(s) THEN s[i] ELSE t[i - Len(s)]
  BY <1>3, <1>5, <1>8, ConcatProperties
<1>10. Len(s) + Len(t) = 3
  BY <1>3, <1>5
<1>11. u[1] = s[1] /\ u[2] = t[1] /\ u[3] = t[2]
  BY <1>3, <1>9, <1>10
<1>12. u[1] = v[1] /\ u[2] = v[2] /\ u[3] = v[3]
  BY <1>3, <1>5, <1>7, <1>11
<1>13. \A i \in 1 .. 3 : i = 1 \/ i = 2 \/ i = 3
  OBVIOUS
<1>14. \A i \in 1 .. Len(u) : u[i] = v[i]
  BY <1>9, <1>10, <1>12, <1>13
<1>15. u = v
  BY <1>7, <1>9, <1>10, <1>14, SeqEqual
<1> QED
  BY <1>2, <1>4, <1>6, <1>8, <1>15

LEMMA TwoAndThree ==
  ASSUME NEW a, NEW b, NEW c, NEW d, NEW e
  PROVE  <<a, b>> \o <<c, d, e>> = <<a, b, c, d, e>>
<1>1. PICK S : S = {a, b, c, d, e}
  OBVIOUS
<1>2. PICK s : s = <<a, b>>
  OBVIOUS
<1>3. s \in Seq(S) /\ Len(s) = 2 /\ s[1] = a /\ s[2] = b
  BY <1>1, <1>2
<1>4. PICK t : t = <<c, d, e>>
  OBVIOUS
<1>5. t \in Seq(S) /\ Len(t) = 3 /\ t[1] = c /\ t[2] = d /\ t[3] = e
  BY <1>1, <1>4
<1>6. PICK v : v = <<a, b, c, d, e>>
  OBVIOUS
<1>7. v \in Seq(S) /\ Len(v) = 5 /\ v[1] = a /\ v[2] = b /\ v[3] = c /\ v[4] = d /\ v[5] = e
  BY <1>1, <1>6
<1>8. PICK u : u = s \o t
  OBVIOUS
<1>9. /\ u \in Seq(S) /\ Len(u) = Len(s) + Len(t)
      /\ \A i \in 1 .. Len(s) + Len(t) : u[i] = IF i <= Len(s) THEN s[i] ELSE t[i - Len(s)]
  BY <1>3, <1>5, <1>8, ConcatProperties
<1>10. Len(s) + Len(t) = 5
  BY <1>3, <1>5
<1>11. u[1] = s[1] /\ u[2] = s[2] /\ u[3] = t[1] /\ u[4] = t[2] /\ u[5] = t[3]
  BY <1>3, <1>9, <1>10
<1>12. u[1] = v[1] /\ u[2] = v[2] /\ u[3] = v[3] /\ u[4] = v[4] /\ u[5] = v[5]
  BY <1>3, <1>5, <1>7, <1>11
<1>13. \A i \in 1 .. 5 : i = 1 \/ i = 2 \/ i = 3 \/ i = 4 \/ i = 5
  OBVIOUS
<1>14. \A i \in 1 .. Len(u) : u[i] = v[i]
  BY <1>9, <1>10, <1>12, <1>13
<1>15. u = v
  BY <1>7, <1>9, <1>10, <1>14, SeqEqual
<1> QED
  BY <1>2, <1>4, <1>6, <1>8, <1>15

LEMMA FiveAndOne ==
  ASSUME NEW a, NEW b, NEW c, NEW d, NEW e, NEW f
  PROVE  <<a, b, c, d, e>> \o <<f>> = <<a, b, c, d, e, f>>
<1>1. PICK S : S = {a, b, c, d, e, f}
  OBVIOUS
<1>2. PICK s : s = <<a, b, c, d, e>>
  OBVIOUS
<1>3. s \in Seq(S) /\ Len(s) = 5 /\ s[1] = a /\ s[2] = b /\ s[3] = c /\ s[4] = d /\ s[5] = e
  BY <1>1, <1>2
<1>4. PICK t : t = <<f>>
  OBVIOUS
<1>5. t \in Seq(S) /\ Len(t) = 1 /\ t[1] = f
  BY <1>1, <1>4
<1>6. PICK v : v = <<a, b, c, d, e, f>>
  OBVIOUS
<1>7. /\ v \in Seq(S) /\ Len(v) = 6
      /\ v[1] = a /\ v[2] = b /\ v[3] = c /\ v[4] = d /\ v[5] = e /\ v[6] = f
  BY <1>1, <1>6
<1>8. PICK u : u = s \o t
  OBVIOUS
<1>9. /\ u \in Seq(S) /\ Len(u) = Len(s) + Len(t)
      /\ \A i \in 1 .. Len(s) + Len(t) : u[i] = IF i <= Len(s) THEN s[i] ELSE t[i - Len(s)]
  BY <1>3, <1>5, <1>8, ConcatProperties
<1>10. Len(s) + Len(t) = 6
  BY <1>3, <1>5
<1>11. u[1] = s[1] /\ u[2] = s[2] /\ u[3] = s[3] /\ u[4] = s[4] /\ u[5] = s[5] /\ u[6] = t[1]
  BY <1>3, <1>9, <1>10
<1>12. u[1] = v[1] /\ u[2] = v[2] /\ u[3] = v[3] /\ u[4] = v[4] /\ u[5] = v[5] /\ u[6] = v[6]
  BY <1>3, <1>5, <1>7, <1>11
<1>13. \A i \in 1 .. 6 : i = 1 \/ i = 2 \/ i = 3 \/ i = 4 \/ i = 5 \/ i = 6
  OBVIOUS
<1>14. \A i \in 1 .. Len(u) : u[i] = v[i]
  BY <1>9, <1>10, <1>12, <1>13
<1>15. u = v
  BY <1>7, <1>9, <1>10, <1>14, SeqEqual
<1> QED
  BY <1>2, <1>4, <1>6, <1>8, <1>15

(* The invariant is about the variables of the pipes only.                 *)
LEMMA PipingStutters ==
  ASSUME Piping, UNCHANGED Pipeline!vars
  PROVE  Piping'
<1>1. /\ shape' = shape /\ programs' = programs /\ match' = match /\ pc' = pc
      /\ next' = next /\ fds' = fds /\ pipe' = pipe /\ mem' = mem /\ eof' = eof
      /\ out' = out /\ failed' = failed
  BY DEF Pipeline!vars
<1>2. Goal' = Goal
  BY <1>1 DEF Goal
<1>3. Due' = Due
  BY <1>1 DEF Due, Due2, Due3
<1>4. NothingLost => NothingLost'
  BY <1>1, <1>2, <1>3 DEF NothingLost
<1>5. EndsOpen => EndsOpen'
  BY <1>1 DEF EndsOpen, ProcessesAre, InTurn, ParentKeeps, StagesKeep, DoneWell, Born
<1>6. BackAndForth => BackAndForth'
  BY <1>1, <1>2 DEF BackAndForth
<1>7. Commands => Commands'
  BY <1>1 DEF Commands
<1> QED
  BY <1>1, <1>4, <1>5, <1>6, <1>7 DEF Piping

\* No step makes a failure undone.
LEMMA FailedStays ==
  ASSUME Pipeline!Next, ~UNCHANGED Pipeline!vars, ~failed'
  PROVE  ~failed
BY DEF Pipeline!Next, Pipeline!Parent, Pipeline!Fork, Pipeline!ForkFails,
   Pipeline!Close, Pipeline!Wait, Pipeline!Become, Pipeline!ParentWrites,
   Pipeline!ParentReads, Pipeline!Stage, Pipeline!Setup, Pipeline!Read,
   Pipeline!EndOfFile, Pipeline!Write, Pipeline!Sigpipe, Pipeline!Exit,
   Pipeline!ChildAnswers, Pipeline!Ended

(* Every step of the parent and the child of pipes_processes1.c goes on.   *)
LEMMA TwoWayStep ==
  ASSUME shape = "two_way", Piping, Pipeline!Next, ~failed'
  PROVE  Piping'
<1> DEFINE All == {"unborn", "fork", "write", "read", "wait", "done"}
<1>1. CASE UNCHANGED Pipeline!vars
  BY <1>1, PipingStutters
<1>2. CASE ~UNCHANGED Pipeline!vars
  <2>1. /\ programs = << >> /\ BackAndForth /\ pc \in [0 .. 3 -> All] /\ ~failed
    <3>1. ~failed
      BY <1>2, FailedStays
    <3> QED
      BY <3>1 DEF Piping
  <2>2. Pipeline!Stages = {}
    BY <2>1 DEF Pipeline!Stages
  <2>3. shape' = "two_way" /\ programs' = << >> /\ Goal' = Goal
    BY <2>1, <2>2 DEF Pipeline!Next, Pipeline!Parent, Pipeline!Fork, Pipeline!ForkFails,
         Pipeline!Close, Pipeline!Wait, Pipeline!Become, Pipeline!ParentWrites,
         Pipeline!ParentReads, Pipeline!ChildAnswers, Pipeline!Ended, Pipeline!vars,
         Pipeline!choice, Goal
  <2>4. ASSUME pc' \in [0 .. 3 -> All], BackAndForth'
        PROVE  Piping'
    BY <2>3, <2>4 DEF Piping
  <2>5. CASE Pipeline!Fork
    <3>1. /\ pc[0] = "fork" /\ next = 1
          /\ pipe = [k \in {1, 2} |-> << >>] /\ out = << >>
      BY <2>1, <2>5 DEF Pipeline!Fork, BackAndForth
    <3>2. /\ pc' = [pc EXCEPT ![0] = "write", ![1] = "read"]
          /\ pipe' = pipe /\ out' = out
      BY <3>1, <2>5 DEF Pipeline!Fork, Pipeline!ParentGoesOn, Pipeline!data
    <3>3. pc'[0] = "write" /\ pc'[1] = "read" /\ pc' \in [0 .. 3 -> All]
      BY <2>1, <3>2
    <3>4. pipe' = [k \in {1, 2} |-> IF k = 1 /\ pc'[0] = "read" THEN <<"input">> ELSE << >>]
      BY <3>1, <3>2, <3>3
    <3>5. BackAndForth'
      BY <3>1, <3>2, <3>3, <3>4 DEF BackAndForth
    <3> QED
      BY <2>4, <3>3, <3>5
  <2>6. CASE Pipeline!Wait
    <3>1. pc[0] = "wait" /\ pc[1] = "done" /\ out = Goal
      BY <2>1, <2>6 DEF Pipeline!Wait, BackAndForth
    <3>2. pc' = [pc EXCEPT ![0] = "done"] /\ out' = out
      BY <2>6 DEF Pipeline!Wait, Pipeline!Die, Pipeline!Go, Pipeline!data
    <3>3. pc'[0] = "done" /\ pc'[1] = "done" /\ pc' \in [0 .. 3 -> All]
      BY <2>1, <3>1, <3>2
    <3>4. BackAndForth'
      BY <2>3, <3>1, <3>2, <3>3 DEF BackAndForth
    <3> QED
      BY <2>4, <3>3, <3>4
  <2>7. CASE Pipeline!ParentWrites
    <3>1. /\ pc[0] = "write" /\ pc[1] = "read" /\ out = << >>
          /\ pipe = [k \in {1, 2} |-> << >>]
      BY <2>1, <2>7 DEF Pipeline!ParentWrites, BackAndForth
    <3>2. /\ pc' = [pc EXCEPT ![0] = "read"] /\ out' = out
          /\ pipe' = [pipe EXCEPT ![1] = <<"input">>]
      BY <2>7 DEF Pipeline!ParentWrites, Pipeline!Go
    <3>3. pc'[0] = "read" /\ pc'[1] = "read" /\ pc' \in [0 .. 3 -> All]
      BY <2>1, <3>1, <3>2
    <3>4. pipe' = [k \in {1, 2} |-> IF k = 1 /\ pc'[0] = "read" THEN <<"input">> ELSE << >>]
      BY <3>1, <3>2, <3>3
    <3>5. BackAndForth'
      BY <3>1, <3>2, <3>3, <3>4 DEF BackAndForth
    <3> QED
      BY <2>4, <3>3, <3>5
  <2>8. CASE Pipeline!ChildAnswers
    <3>1. /\ pc[0] = "read" /\ pc[1] = "read" /\ pipe[1] = <<"input">>
          /\ pipe = [k \in {1, 2} |-> IF k = 1 THEN <<"input">> ELSE << >>]
      BY <2>1, <2>8 DEF Pipeline!ChildAnswers, BackAndForth
    <3>2. /\ pc' = [pc EXCEPT ![1] = "done"]
          /\ out' = <<"input">> \o <<"howard.edu">>
          /\ pipe' = [pipe EXCEPT ![1] = << >>,
                                  ![2] = <<"input">> \o <<"howard.edu", "second input">>]
      BY <2>8, <3>1 DEF Pipeline!ChildAnswers, Pipeline!Die, Pipeline!Go
    <3>3. pc'[0] = "read" /\ pc'[1] = "done" /\ pc' \in [0 .. 3 -> All]
      <4>1. pc' = [pc EXCEPT ![1] = "done"]
        BY <3>2
      <4>2. pc' \in [0 .. 3 -> All]
        BY <2>1, <4>1
      <4>3. pc'[0] = pc[0] /\ pc'[1] = "done"
        BY <2>1, <4>1
      <4> QED
        BY <3>1, <4>2, <4>3
    <3>4. /\ <<"input">> \o <<"howard.edu">> = <<"input", "howard.edu">>
          /\ <<"input">> \o <<"howard.edu", "second input">>
               = <<"input", "howard.edu", "second input">>
      BY OneAndOne, OneAndTwo, Zenon
    <3>5. pipe' = [k \in {1, 2} |-> IF k = 1 THEN << >>
                                    ELSE <<"input", "howard.edu", "second input">>]
      <4>1. PICK x : x = <<"input", "howard.edu", "second input">>
        OBVIOUS
      <4>2. pipe' = [pipe EXCEPT ![1] = << >>, ![2] = x]
        BY <3>2, <3>4, <4>1, Zenon
      <4>3. pipe = [k \in {1, 2} |-> pipe[k]]
        BY <3>1
      <4>4. pipe' = [k \in {1, 2} |-> IF k = 1 THEN << >> ELSE x]
        <5>1. PICK y, p, q : y = << >> /\ p = pipe /\ q = pipe'
          OBVIOUS
        <5>2. p = [k \in {1, 2} |-> p[k]] /\ q = [p EXCEPT ![1] = y, ![2] = x]
          BY <4>2, <4>3, <5>1, Zenon
        <5>3. q = [k \in {1, 2} |-> IF k = 1 THEN y ELSE x]
          <6>1. PICK S : S = {x, y, p[1], p[2]}
            OBVIOUS
          <6>2. p[1] \in S /\ p[2] \in S /\ x \in S /\ y \in S
            BY <6>1
          <6>3. p \in [{1, 2} -> S]
            BY <5>2, <6>2
          <6>4. q \in [{1, 2} -> S]
            BY <5>2, <6>2, <6>3
          <6>5. q[1] = y /\ q[2] = x
            BY <5>2, <6>3
          <6> QED
            BY <6>4, <6>5
        <5> QED
          BY <5>1, <5>3, Zenon
      <4> QED
        BY <4>1, <4>4, Zenon
    <3>6. BackAndForth'
      BY <3>2, <3>3, <3>4, <3>5 DEF BackAndForth
    <3> QED
      BY <2>4, <3>3, <3>6
  <2>9. CASE Pipeline!ParentReads
    <3>1. /\ pc[0] = "read" /\ pc[1] = "done" /\ out = <<"input", "howard.edu">>
          /\ pipe[2] = <<"input", "howard.edu", "second input">>
      <4>1. pc[0] = "read" /\ pipe[2] # << >>
        BY <2>9 DEF Pipeline!ParentReads
      <4>2. pc[0] # "fork" /\ ~ (pipe = [k \in {1, 2} |-> IF k = 1 /\ pc[0] = "read"
                                                     THEN <<"input">> ELSE << >>])
        BY <4>1
      <4>3. pc # [p \in 0 .. 3 |-> IF p = 0 THEN "fork" ELSE "unborn"]
        BY <4>1
      <4>4. /\ pc[1] = "done" /\ out = <<"input", "howard.edu">>
            /\ pipe = [k \in {1, 2} |-> IF k = 1 THEN << >>
                                        ELSE <<"input", "howard.edu", "second input">>]
        BY <2>1, <4>1, <4>2, <4>3, Zenon DEF BackAndForth
      <4> QED
        BY <4>1, <4>4
    <3>2. /\ pc' = [pc EXCEPT ![0] = "wait"]
          /\ out' = out \o pipe[2] \o <<"gobison.org">>
      BY <2>9 DEF Pipeline!ParentReads, Pipeline!Go
    <3>3. pc'[0] = "wait" /\ pc'[1] = "done" /\ pc' \in [0 .. 3 -> All]
      <4>1. pc' \in [0 .. 3 -> All]
        BY <2>1, <3>2
      <4>2. pc'[0] = "wait" /\ pc'[1] = pc[1]
        BY <2>1, <3>2
      <4> QED
        BY <3>1, <4>1, <4>2
    <3>4. <<"input", "howard.edu">> \o <<"input", "howard.edu", "second input">>
            \o <<"gobison.org">>
          = <<"input", "howard.edu", "input", "howard.edu", "second input", "gobison.org">>
        <4>1. <<"input", "howard.edu">> \o <<"input", "howard.edu", "second input">>
                = <<"input", "howard.edu", "input", "howard.edu", "second input">>
          BY TwoAndThree, Zenon
        <4>2. <<"input", "howard.edu", "input", "howard.edu", "second input">>
                \o <<"gobison.org">>
              = <<"input", "howard.edu", "input", "howard.edu", "second input", "gobison.org">>
          BY FiveAndOne, Zenon
        <4> QED
          BY <4>1, <4>2, Zenon
    <3>5. out' = Goal
      BY <3>1, <3>2, <3>4 DEF Goal
    <3>6. BackAndForth'
      BY <2>3, <3>3, <3>5 DEF BackAndForth
    <3> QED
      BY <2>4, <3>3, <3>6
  <2>10. pc[0] \in {"fork", "write", "read", "wait", "done"}
    <3>1. pc = [p \in 0 .. 3 |-> IF p = 0 THEN "fork" ELSE "unborn"] => pc[0] = "fork"
      OBVIOUS
    <3> QED
      BY <2>1, <3>1, Zenon DEF BackAndForth
  <2>11. ~Pipeline!ForkFails /\ ~Pipeline!Close /\ ~Pipeline!Become /\ ~Pipeline!Ended
    BY <1>2, <2>10 DEF Pipeline!ForkFails, Pipeline!Close, Pipeline!Become, Pipeline!Ended
  <2> QED
    BY <2>2, <2>5, <2>6, <2>7, <2>8, <2>9, <2>11 DEF Pipeline!Next, Pipeline!Parent
<1> QED
  BY <1>1, <1>2

-----------------------------------------------------------------------------
(* The steps of the pipelines: who has which end open                      *)

(* There are two or three stages, of which the second and third are        *)
(* filters.                                                                *)
LEMMA CommandsAre ==
  ASSUME Commands
  PROVE  /\ Len(programs) \in {2, 3}
         /\ programs[2] \in Filters
         /\ Len(programs) = 3 => programs[3] \in Filters
         /\ \A p \in 1 .. Len(programs) : p = 1 \/ p = 2 \/ (p = 3 /\ Len(programs) = 3)
<1>1. PICK f \in Filters, g \in Filters : \/ programs = <<"cat", f>>
                                          \/ programs = <<"cat", f, g>>
  BY DEF Commands
<1>2. CASE programs = <<"cat", f>>
  <2>1. Len(programs) = 2 /\ programs[2] = f
    BY <1>2
  <2>2. \A p \in 1 .. 2 : p = 1 \/ p = 2
    OBVIOUS
  <2> QED
    BY <2>1, <2>2
<1>3. CASE programs = <<"cat", f, g>>
  <2>1. Len(programs) = 3 /\ programs[2] = f /\ programs[3] = g
    BY <1>3
  <2>2. \A p \in 1 .. 3 : p = 1 \/ p = 2 \/ p = 3
    OBVIOUS
  <2> QED
    BY <2>1, <2>2
<1> QED
  BY <1>1, <1>2, <1>3

\* What the steps start from.
Flowing ==
  /\ shape # "two_way"
  /\ Commands
  /\ shape = "cat_grep" => Len(programs) = 2
  /\ NothingLost
  /\ EndsOpen

(* A stage inherits every end it needs.                                    *)
LEMMA AfterFork ==
  ASSUME Flowing, Pipeline!Fork
  PROVE  EndsOpen'
<1>1. PICK n \in {2, 3} : n = Len(programs)
  BY CommandsAre DEF Flowing
<1>2. /\ pc[0] = "fork" /\ next \in 1 .. n
      /\ \A p \in 1 .. n : pc[p] = "unborn" <=> p >= next \/ (shape = "cat_grep" /\ p = 1)
      /\ shape = "cat_grep" => next = 2 /\ n = 2
  BY <1>1 DEF Flowing, EndsOpen, InTurn, Born, Pipeline!Fork
<1>3. PICK goes : goes = IF shape = "cat_grep" THEN "become"
                         ELSE IF next < n THEN "fork" ELSE "close"
  OBVIOUS
<1>4. /\ pc' = [pc EXCEPT ![0] = goes, ![next] = "setup"]
      /\ fds' = [fds EXCEPT ![next] = fds[0], ![0] = fds[0]]
      /\ next' = next + 1 /\ shape' = shape /\ Len(programs') = n
      /\ mem' = mem /\ eof' = eof
  BY <1>1, <1>3 DEF Pipeline!Fork, Pipeline!ParentGoesOn, Pipeline!ParentHolds,
     Pipeline!choice, Pipeline!data, Flowing
<1>5. /\ pc \in [0 .. 3 -> {"unborn", "setup", "run", "done", "fork", "become", "close", "wait"}]
      /\ fds \in [0 .. 3 -> SUBSET PipeEnds]
  BY DEF Flowing, EndsOpen, ProcessesAre
<1>6. next \in 0 .. 3 /\ next # 0
  BY <1>1, <1>2
<1>7. pc'[0] = goes /\ \A p \in 1 .. n : pc'[p] = IF p = next THEN "setup" ELSE pc[p]
  BY <1>1, <1>4, <1>5, <1>6
<1>8. fds'[0] = fds[0] /\ \A p \in 1 .. n : fds'[p] = IF p = next THEN fds[0] ELSE fds[p]
  BY <1>1, <1>4, <1>5, <1>6
<1>9. /\ pc' \in [0 .. 3 -> {"unborn", "setup", "run", "done", "fork", "become", "close", "wait"}]
      /\ fds' \in [0 .. 3 -> SUBSET PipeEnds]
  BY <1>3, <1>4, <1>5, <1>6
<1>10. \A k \in 1 .. n - 1 : <<k, "r">> \in fds[0] /\ <<k, "w">> \in fds[0]
  BY <1>1, <1>2 DEF Flowing, EndsOpen, ParentKeeps
<1>11. \A p \in 1 .. n : pc'[p] \notin {"fork", "become", "close", "wait"}
  BY <1>1, <1>7 DEF Flowing, EndsOpen, ProcessesAre
<1>12. goes = "fork" =>
         /\ next' \in 1 .. n
         /\ \A p \in 1 .. n : pc'[p] = "unborn" <=> p >= next' \/ (shape' = "cat_grep" /\ p = 1)
         /\ shape' = "cat_grep" => next' = 2
  <2> SUFFICES ASSUME goes = "fork"
               PROVE  /\ next' \in 1 .. n
                      /\ \A p \in 1 .. n : pc'[p] = "unborn" <=> p >= next'
    BY <1>3, <1>4
  <2>1. next < n /\ shape # "cat_grep" /\ next' = next + 1
    BY <1>3, <1>4
  <2>2. ASSUME NEW p \in 1 .. n
        PROVE  pc'[p] = "unborn" <=> p >= next + 1
    <3>1. pc'[p] = IF p = next THEN "setup" ELSE pc[p]
      BY <1>7
    <3>2. pc[p] = "unborn" <=> p >= next
      BY <1>2, <2>1
    <3>3. p \in Nat /\ next \in Nat
      BY <1>1, <1>2
    <3> QED
      BY <3>1, <3>2, <3>3
  <2>3. next + 1 \in 1 .. n
    BY <1>1, <1>2, <2>1
  <2> QED
    BY <2>1, <2>2, <2>3
<1>13. goes = "become" => pc'[1] = "unborn" /\ pc'[2] # "unborn" /\ n = 2
  BY <1>1, <1>2, <1>3, <1>7
<1>14. goes \in {"close", "wait", "done"} => \A p \in 1 .. n : pc'[p] # "unborn"
  BY <1>1, <1>2, <1>3, <1>7
<1>15. ASSUME NEW p \in 1 .. n, pc'[p] \in {"setup", "run"}
       PROVE  /\ p # 1 => <<p - 1, "r">> \in fds'[p]
              /\ p # n => <<p, "w">> \in fds'[p]
  <2>1. CASE p = next
    <3>1. p # 1 => p - 1 \in 1 .. n - 1
      BY <1>1
    <3>2. p # n => p \in 1 .. n - 1
      BY <1>1
    <3> QED
      BY <1>8, <1>10, <2>1, <3>1, <3>2
  <2>2. CASE p # next
    BY <1>1, <1>7, <1>8, <1>15, <2>2 DEF Flowing, EndsOpen, StagesKeep
  <2> QED
    BY <2>1, <2>2
<1>16. ASSUME NEW p \in 1 .. n, pc'[p] = "done"
       PROVE  (eof'[p] /\ mem'[p] = << >>) \/ (p # n /\ pc'[p + 1] = "done")
  <2>1. pc[p] = "done"
    BY <1>7, <1>16
  <2>2. (eof[p] /\ mem[p] = << >>) \/ (p # n /\ pc[p + 1] = "done")
    BY <1>1, <2>1 DEF Flowing, EndsOpen, DoneWell
  <2>3. p # n => p + 1 \in 1 .. n
    BY <1>1
  <2>4. pc[next] = "unborn"
    BY <1>1, <1>2
  <2> QED
    BY <1>4, <1>7, <2>2, <2>3, <2>4
<1>17. goes \in {"fork", "become", "close"}
  BY <1>3
<1>18. ProcessesAre'
  BY <1>4, <1>7, <1>9, <1>11, <1>17 DEF ProcessesAre
<1>19. InTurn'
  BY <1>4, <1>7, <1>12, <1>13, <1>14, <1>17 DEF InTurn, Born
<1>20. ParentKeeps'
  BY <1>4, <1>8, <1>10 DEF ParentKeeps
<1>21. StagesKeep'
  BY <1>4, <1>15 DEF StagesKeep
<1>22. DoneWell'
  BY <1>4, <1>16 DEF DoneWell
<1> QED
  BY <1>18, <1>19, <1>20, <1>21, <1>22 DEF EndsOpen

(* The parent closes its ends when all stages are born.                    *)
LEMMA AfterClose ==
  ASSUME Flowing, Pipeline!Close \/ Pipeline!Wait
  PROVE  EndsOpen'
<1>1. PICK n \in {2, 3} : n = Len(programs)
  BY CommandsAre DEF Flowing
<1>2. PICK goes \in {"wait", "done"} :
        /\ pc[0] \in {"close", "wait"}
        /\ pc' = [pc EXCEPT ![0] = goes] /\ fds' = [fds EXCEPT ![0] = {}]
        /\ next' = next /\ shape' = shape /\ Len(programs') = n
        /\ mem' = mem /\ eof' = eof
  BY <1>1 DEF Pipeline!Close, Pipeline!Wait, Pipeline!Die, Pipeline!Go, Pipeline!CloseAll,
     Pipeline!choice, Pipeline!data
<1>3. /\ pc \in [0 .. 3 -> {"unborn", "setup", "run", "done", "fork", "become", "close", "wait"}]
      /\ fds \in [0 .. 3 -> SUBSET PipeEnds]
  BY DEF Flowing, EndsOpen, ProcessesAre
<1>4. /\ pc' \in [0 .. 3 -> {"unborn", "setup", "run", "done", "fork", "become", "close", "wait"}]
      /\ fds' \in [0 .. 3 -> SUBSET PipeEnds]
  BY <1>2, <1>3
<1>5. \A p \in 1 .. 3 : pc'[p] = pc[p] /\ fds'[p] = fds[p]
  BY <1>2, <1>3
<1>6. pc'[0] = goes
  BY <1>2, <1>3
<1>7. \A p \in 1 .. n : p \in 1 .. 3 /\ (p # n => p + 1 \in 1 .. 3)
  OBVIOUS
<1>8. \A p \in 1 .. n : pc[p] = pc'[p] /\ fds[p] = fds'[p] /\ pc[p] # "unborn"
  BY <1>1, <1>2, <1>5, <1>7 DEF Flowing, EndsOpen, InTurn, ProcessesAre, Born
<1>9. ProcessesAre'
  BY <1>1, <1>2, <1>4, <1>6, <1>8 DEF Flowing, EndsOpen, ProcessesAre
<1>10. InTurn' /\ ParentKeeps'
  BY <1>2, <1>6, <1>8 DEF InTurn, ParentKeeps, Born
<1>11. StagesKeep'
  BY <1>1, <1>2, <1>8 DEF Flowing, EndsOpen, StagesKeep
<1>12. DoneWell'
  <2>1. ASSUME NEW p \in 1 .. n, pc'[p] = "done"
        PROVE  (eof[p] /\ mem[p] = << >>) \/ (p # n /\ pc'[p + 1] = "done")
    <3>1. (eof[p] /\ mem[p] = << >>) \/ (p # n /\ pc[p + 1] = "done")
      BY <1>1, <1>8, <2>1 DEF Flowing, EndsOpen, DoneWell
    <3> QED
      BY <1>5, <1>7, <3>1
  <2> QED
    BY <1>2, <2>1 DEF DoneWell
<1> QED
  BY <1>9, <1>10, <1>11, <1>12 DEF EndsOpen

(* The parent of pipes_processes2.c keeps the end it writes to as cat.     *)
LEMMA AfterBecome ==
  ASSUME Flowing, Pipeline!Become, ~failed'
  PROVE  EndsOpen'
<1>1. PICK n \in {2, 3} : n = Len(programs)
  BY CommandsAre DEF Flowing
<1>2. pc[0] = "become" /\ pc[1] = "unborn" /\ pc[2] # "unborn" /\ n = 2
  BY <1>1 DEF Flowing, EndsOpen, InTurn, Born, Pipeline!Become
<1>3. /\ pc' = [pc EXCEPT ![0] = "done", ![1] = "run"]
      /\ fds' = [fds EXCEPT ![0] = {}, ![1] = fds[0] \cap Pipeline!Std(1)]
      /\ next' = next /\ shape' = shape /\ Len(programs') = n
      /\ mem' = mem /\ eof' = eof
  BY <1>1 DEF Pipeline!Become, Pipeline!choice, Pipeline!data
<1>4. <<1, "w">> \in Pipeline!Std(1)
  BY <1>1, <1>2 DEF Pipeline!Std
<1>5. PICK std : std = fds[0] \cap Pipeline!Std(1)
  OBVIOUS
<1>6. /\ pc \in [0 .. 3 -> {"unborn", "setup", "run", "done", "fork", "become", "close", "wait"}]
      /\ fds \in [0 .. 3 -> SUBSET PipeEnds]
  BY DEF Flowing, EndsOpen, ProcessesAre
<1>7. <<1, "w">> \in std /\ std \subseteq PipeEnds
  BY <1>1, <1>2, <1>4, <1>5, <1>6 DEF Flowing, EndsOpen, ParentKeeps
<1>8. fds' = [fds EXCEPT ![0] = {}, ![1] = std]
  BY <1>3, <1>5
<1>9. /\ pc' \in [0 .. 3 -> {"unborn", "setup", "run", "done", "fork", "become", "close", "wait"}]
      /\ fds' \in [0 .. 3 -> SUBSET PipeEnds]
  BY <1>3, <1>6, <1>7, <1>8
<1>10. /\ pc'[0] = "done" /\ pc'[1] = "run" /\ pc'[2] = pc[2]
       /\ fds'[1] = std /\ fds'[2] = fds[2]
  BY <1>3, <1>6, <1>8
<1>11. \A p \in 1 .. n : p = 1 \/ p = 2
  BY <1>2
<1>12. ProcessesAre'
  <2>1. pc[2] \notin {"fork", "become", "close", "wait"}
    BY <1>1, <1>2 DEF Flowing, EndsOpen, ProcessesAre
  <2> QED
    BY <1>2, <1>3, <1>9, <1>10, <1>11, <2>1 DEF ProcessesAre
<1>13. InTurn'
  BY <1>2, <1>3, <1>10, <1>11 DEF InTurn, Born
<1>14. ParentKeeps'
  BY <1>10 DEF ParentKeeps
<1>15. StagesKeep'
  <2>1. pc[2] \in {"setup", "run"} => <<1, "r">> \in fds[2]
    BY <1>1, <1>2 DEF Flowing, EndsOpen, StagesKeep
  <2>2. ASSUME NEW p \in 1 .. n, pc'[p] \in {"setup", "run"}
        PROVE  /\ p # 1 => <<p - 1, "r">> \in fds'[p]
               /\ p # n => <<p, "w">> \in fds'[p]
    <3>1. CASE p = 1
      BY <1>2, <1>7, <1>10, <3>1
    <3>2. CASE p = 2
      BY <1>2, <1>10, <2>1, <2>2, <3>2
    <3> QED
      BY <1>11, <3>1, <3>2
  <2> QED
    BY <1>3, <2>2 DEF StagesKeep
<1>16. DoneWell'
  <2>1. pc[2] = "done" => eof[2] /\ mem[2] = << >>
    BY <1>1, <1>2 DEF Flowing, EndsOpen, DoneWell
  <2> QED
    BY <1>2, <1>3, <1>10, <1>11, <2>1 DEF DoneWell
<1> QED
  BY <1>12, <1>13, <1>14, <1>15, <1>16 DEF EndsOpen

\* A pipe that a stage reads or writes has its other end open, or the stage
\* there is done.
LEMMA OtherEnd ==
  ASSUME Flowing, NEW p \in 1 .. Len(programs), NEW k \in 1 .. Len(programs) - 1,
         NEW x \in {"r", "w"}, p = IF x = "r" THEN k + 1 ELSE k,
         ~Pipeline!Open(<<k, x>>)
  PROVE  pc[p] = "done"
<1>1. PICK n \in {2, 3} : n = Len(programs)
  BY CommandsAre DEF Flowing
<1>2. \A q \in 0 .. 3 : <<k, x>> \notin fds[q]
  BY DEF Pipeline!Open, Pipeline!Procs
<1>3. p \in 0 .. 3 /\ 0 \in 0 .. 3
  BY <1>1
<1>4. pc[0] \notin {"fork", "become"}
  BY <1>2, <1>3 DEF Flowing, EndsOpen, ParentKeeps
<1>5. pc[0] \in {"close", "wait", "done"}
  BY <1>4 DEF Flowing, EndsOpen, ProcessesAre
<1>6. pc[p] # "unborn"
  BY <1>5 DEF Flowing, EndsOpen, InTurn, Born
<1>7. pc[p] \notin {"setup", "run"}
  <2>1. CASE x = "r"
    <3>1. p # 1 /\ p - 1 = k
      BY <1>1, <2>1
    <3> QED
      BY <1>2, <1>3, <2>1, <3>1 DEF Flowing, EndsOpen, StagesKeep
  <2>2. CASE x = "w"
    <3>1. p # Len(programs) /\ p = k
      BY <1>1, <2>2
    <3> QED
      BY <1>2, <1>3, <2>2, <3>1 DEF Flowing, EndsOpen, StagesKeep
  <2> QED
    BY <2>1, <2>2
<1>8. pc[p] \in {"unborn", "setup", "run", "done", "fork", "become", "close", "wait"}
  BY <1>3 DEF Flowing, EndsOpen, ProcessesAre
<1> QED
  BY <1>6, <1>7, <1>8 DEF Flowing, EndsOpen, ProcessesAre

(* A stage closes only what it does not need.                              *)
LEMMA AfterSetup ==
  ASSUME Flowing, NEW p \in 1 .. Len(programs), Pipeline!Setup(p), ~failed'
  PROVE  EndsOpen'
<1>1. PICK n \in {2, 3} : n = Len(programs)
  BY CommandsAre DEF Flowing
<1>2. PICK std : std = fds[p] \cap Pipeline!Std(p)
  OBVIOUS
<1>3. /\ pc[p] = "setup"
      /\ pc' = [pc EXCEPT ![p] = "run"] /\ fds' = [fds EXCEPT ![p] = std]
      /\ next' = next /\ shape' = shape /\ Len(programs') = n
      /\ mem' = mem /\ eof' = eof
  BY <1>1, <1>2 DEF Pipeline!Setup, Pipeline!Go, Pipeline!choice, Pipeline!data
<1>4. /\ pc \in [0 .. 3 -> {"unborn", "setup", "run", "done", "fork", "become", "close", "wait"}]
      /\ fds \in [0 .. 3 -> SUBSET PipeEnds] /\ p \in 0 .. 3 /\ p # 0
  BY <1>1 DEF Flowing, EndsOpen, ProcessesAre
<1>5. std \subseteq PipeEnds
  BY <1>2, <1>4
<1>6. /\ p # 1 => <<p - 1, "r">> \in std
      /\ p # n => <<p, "w">> \in std
  <2>1. /\ p # 1 => <<p - 1, "r">> \in fds[p]
        /\ p # n => <<p, "w">> \in fds[p]
    BY <1>1, <1>3 DEF Flowing, EndsOpen, StagesKeep
  <2>2. /\ p # 1 => <<p - 1, "r">> \in Pipeline!Std(p)
        /\ p # n => <<p, "w">> \in Pipeline!Std(p)
    BY <1>1 DEF Pipeline!Std
  <2> QED
    BY <1>2, <2>1, <2>2
<1>7. /\ pc' \in [0 .. 3 -> {"unborn", "setup", "run", "done", "fork", "become", "close", "wait"}]
      /\ fds' \in [0 .. 3 -> SUBSET PipeEnds]
  BY <1>3, <1>4, <1>5
<1>8. /\ \A q \in 0 .. 3 : pc'[q] = IF q = p THEN "run" ELSE pc[q]
      /\ \A q \in 0 .. 3 : fds'[q] = IF q = p THEN std ELSE fds[q]
  BY <1>3, <1>4
<1>9. \A q \in 1 .. n : q \in 0 .. 3 /\ (q # n => q + 1 \in 0 .. 3)
  OBVIOUS
<1>10. pc'[0] = pc[0] /\ fds'[0] = fds[0]
  BY <1>4, <1>8
<1>11. \A q \in 1 .. n : pc[q] # "unborn" <=> pc'[q] # "unborn"
  BY <1>3, <1>8, <1>9
<1>12. ProcessesAre'
  BY <1>1, <1>3, <1>7, <1>8, <1>9, <1>10 DEF Flowing, EndsOpen, ProcessesAre
<1>13. InTurn'
  BY <1>1, <1>3, <1>10, <1>11 DEF Flowing, EndsOpen, InTurn, Born
<1>14. ParentKeeps'
  BY <1>1, <1>3, <1>10 DEF Flowing, EndsOpen, ParentKeeps
<1>15. StagesKeep'
  <2>1. ASSUME NEW q \in 1 .. n, pc'[q] \in {"setup", "run"}
        PROVE  /\ q # 1 => <<q - 1, "r">> \in fds'[q]
               /\ q # n => <<q, "w">> \in fds'[q]
    <3>1. CASE q = p
      BY <1>6, <1>8, <1>9, <3>1
    <3>2. CASE q # p
      BY <1>1, <1>8, <1>9, <2>1, <3>2 DEF Flowing, EndsOpen, StagesKeep
    <3> QED
      BY <3>1, <3>2
  <2> QED
    BY <1>3, <2>1 DEF StagesKeep
<1>16. DoneWell'
  <2>1. ASSUME NEW q \in 1 .. n, pc'[q] = "done"
        PROVE  (eof[q] /\ mem[q] = << >>) \/ (q # n /\ pc'[q + 1] = "done")
    <3>1. pc[q] = "done"
      BY <1>8, <1>9, <2>1
    <3>2. (eof[q] /\ mem[q] = << >>) \/ (q # n /\ pc[q + 1] = "done")
      BY <1>1, <3>1 DEF Flowing, EndsOpen, DoneWell
    <3> QED
      BY <1>3, <1>8, <1>9, <3>2
  <2> QED
    BY <1>3, <2>1 DEF DoneWell
<1> QED
  BY <1>12, <1>13, <1>14, <1>15, <1>16 DEF EndsOpen

(* A stage ends when it is through, or killed because the next stage is    *)
(* done.                                                                   *)
LEMMA AfterDeath ==
  ASSUME Flowing, NEW p \in 1 .. Len(programs), Pipeline!Sigpipe(p) \/ Pipeline!Exit(p)
  PROVE  EndsOpen'
<1>1. PICK n \in {2, 3} : n = Len(programs)
  BY CommandsAre DEF Flowing
<1>2. /\ pc[p] = "run"
      /\ pc' = [pc EXCEPT ![p] = "done"] /\ fds' = [fds EXCEPT ![p] = {}]
      /\ next' = next /\ shape' = shape /\ Len(programs') = n
      /\ mem' = mem /\ eof' = eof
  BY <1>1 DEF Pipeline!Sigpipe, Pipeline!Exit, Pipeline!HasOutput, Pipeline!Die,
     Pipeline!Go, Pipeline!choice, Pipeline!data
<1>3. (eof[p] /\ mem[p] = << >>) \/ (p # n /\ pc[p + 1] = "done")
  <2>1. CASE Pipeline!Exit(p)
    BY <2>1 DEF Pipeline!Exit
  <2>2. CASE Pipeline!Sigpipe(p)
    <3>1. p < n /\ ~Pipeline!Open(<<p, "r">>)
      BY <1>1, <2>2 DEF Pipeline!Sigpipe
    <3>2. p + 1 \in 1 .. Len(programs) /\ p \in 1 .. Len(programs) - 1
      BY <1>1, <3>1
    <3>3. pc[p + 1] = "done"
      BY <3>1, <3>2, OtherEnd
    <3> QED
      BY <3>1, <3>3
  <2> QED
    BY <2>1, <2>2
<1>4. /\ pc \in [0 .. 3 -> {"unborn", "setup", "run", "done", "fork", "become", "close", "wait"}]
      /\ fds \in [0 .. 3 -> SUBSET PipeEnds] /\ p \in 0 .. 3 /\ p # 0
  BY <1>1 DEF Flowing, EndsOpen, ProcessesAre
<1>5. /\ pc' \in [0 .. 3 -> {"unborn", "setup", "run", "done", "fork", "become", "close", "wait"}]
      /\ fds' \in [0 .. 3 -> SUBSET PipeEnds]
  BY <1>2, <1>4
<1>6. /\ \A q \in 0 .. 3 : pc'[q] = IF q = p THEN "done" ELSE pc[q]
      /\ \A q \in 0 .. 3 : fds'[q] = IF q = p THEN {} ELSE fds[q]
  BY <1>2, <1>4
<1>7. \A q \in 1 .. n : q \in 0 .. 3 /\ (q # n => q + 1 \in 0 .. 3)
  OBVIOUS
<1>8. pc'[0] = pc[0] /\ fds'[0] = fds[0]
  BY <1>4, <1>6
<1>9. \A q \in 1 .. n : pc[q] # "unborn" <=> pc'[q] # "unborn"
  BY <1>2, <1>6, <1>7
<1>10. ProcessesAre'
  BY <1>1, <1>2, <1>5, <1>6, <1>7, <1>8 DEF Flowing, EndsOpen, ProcessesAre
<1>11. InTurn'
  BY <1>1, <1>2, <1>8, <1>9 DEF Flowing, EndsOpen, InTurn, Born
<1>12. ParentKeeps'
  BY <1>1, <1>2, <1>8 DEF Flowing, EndsOpen, ParentKeeps
<1>13. StagesKeep'
  <2>1. ASSUME NEW q \in 1 .. n, pc'[q] \in {"setup", "run"}
        PROVE  /\ q # 1 => <<q - 1, "r">> \in fds'[q]
               /\ q # n => <<q, "w">> \in fds'[q]
    <3>1. q # p
      BY <1>6, <1>7, <2>1
    <3> QED
      BY <1>1, <1>6, <1>7, <2>1, <3>1 DEF Flowing, EndsOpen, StagesKeep
  <2> QED
    BY <1>2, <2>1 DEF StagesKeep
<1>14. DoneWell'
  <2>1. ASSUME NEW q \in 1 .. n, pc'[q] = "done"
        PROVE  (eof[q] /\ mem[q] = << >>) \/ (q # n /\ pc'[q + 1] = "done")
    <3>1. (eof[q] /\ mem[q] = << >>) \/ (q # n /\ pc[q + 1] = "done")
      <4>1. CASE q = p
        BY <1>3, <4>1
      <4>2. CASE q # p
        <5>1. pc[q] = "done"
          BY <1>6, <1>7, <2>1, <4>2
        <5> QED
          BY <1>1, <5>1 DEF Flowing, EndsOpen, DoneWell
      <4> QED
        BY <4>1, <4>2
    <3> QED
      BY <1>6, <1>7, <3>1
  <2> QED
    BY <1>2, <2>1 DEF DoneWell
<1> QED
  BY <1>10, <1>11, <1>12, <1>13, <1>14 DEF EndsOpen

(* Reading and writing opens and closes nothing.                           *)
LEMMA AfterWork ==
  ASSUME Flowing, NEW p \in 1 .. Len(programs), pc[p] = "run",
         UNCHANGED <<shape, programs, pc, next, fds>>,
         \A q \in 1 .. Len(programs) : q # p => mem'[q] = mem[q] /\ eof'[q] = eof[q]
  PROVE  EndsOpen'
<1>1. ProcessesAre' /\ InTurn' /\ ParentKeeps' /\ StagesKeep'
  BY DEF Flowing, EndsOpen, ProcessesAre, InTurn, ParentKeeps, StagesKeep, Born
<1>2. DoneWell'
  <2>1. ASSUME NEW q \in 1 .. Len(programs), pc[q] = "done"
        PROVE  (eof'[q] /\ mem'[q] = << >>) \/ (q # Len(programs) /\ pc[q + 1] = "done")
    <3>1. q # p
      BY <2>1
    <3> QED
      BY <2>1, <3>1 DEF Flowing, EndsOpen, DoneWell
  <2> QED
    BY <2>1 DEF DoneWell
<1> QED
  BY <1>1, <1>2 DEF EndsOpen

-----------------------------------------------------------------------------
(* The steps of the pipelines: nothing is lost                             *)

(* The types of what is in the pipes, held and due.                        *)
LEMMA DataAre ==
  ASSUME Flowing
  PROVE  /\ mem[1] \in Seq(Nat) /\ mem[2] \in Seq(Nat) /\ mem[3] \in Seq(Nat)
         /\ pipe[1] \in Seq(Nat) /\ pipe[2] \in Seq(Nat)
         /\ eof[1] /\ eof[2] \in BOOLEAN /\ eof[3] \in BOOLEAN
         /\ out \in Seq(Nat)
         /\ pipe[1] \o mem[1] \in Seq(Nat)
         /\ Due2 \in Seq(Nat)
         /\ Len(programs) = 3 => pipe[2] \o Due2 \in Seq(Nat) /\ Due3 \in Seq(Nat)
<1>1. /\ mem[1] \in Seq(Nat) /\ mem[2] \in Seq(Nat) /\ mem[3] \in Seq(Nat)
      /\ pipe[1] \in Seq(Nat) /\ pipe[2] \in Seq(Nat)
      /\ eof[1] /\ eof[2] \in BOOLEAN /\ eof[3] \in BOOLEAN
      /\ out \in Seq(Nat)
  BY DEF Flowing, NothingLost
<1>2. pipe[1] \o mem[1] \in Seq(Nat)
  BY <1>1, ConcatProperties
<1>3. /\ programs[2] \in Filters
      /\ Len(programs) = 3 => programs[3] \in Filters
  BY CommandsAre DEF Flowing
<1>4. Due2 \in Seq(Nat)
  BY <1>1, <1>2, <1>3, OwesType DEF Due2
<1>5. pipe[2] \o Due2 \in Seq(Nat)
  BY <1>1, <1>4, ConcatProperties
<1>6. Len(programs) = 3 => Due3 \in Seq(Nat)
  BY <1>1, <1>3, <1>5, OwesType DEF Due3
<1> QED
  BY <1>1, <1>2, <1>4, <1>5, <1>6

\* The steps that move no line.
LEMMA AfterOthers ==
  ASSUME Flowing, UNCHANGED <<shape, programs, match, pipe, mem, eof, out>>
  PROVE  NothingLost'
BY DEF Flowing, NothingLost, Due, Due2, Due3, Goal

(* A line read is owed by the stage that read it instead.                  *)
LEMMA AfterRead ==
  ASSUME Flowing, NEW p \in 1 .. Len(programs), Pipeline!Read(p)
  PROVE  NothingLost'
<1>1. PICK n \in {2, 3} : n = Len(programs)
  BY CommandsAre DEF Flowing
<1>2. PICK program : program = programs[p]
  OBVIOUS
<1>3. PICK last \in BOOLEAN : last = (program = "head")
  OBVIOUS
<1>4. /\ ~eof[p] /\ (program # "sort" => mem[p] = << >>) /\ pipe[p - 1] # << >>
      /\ eof' = [eof EXCEPT ![p] = last]
      /\ pipe' = [pipe EXCEPT ![p - 1] = Tail(pipe[p - 1])]
      /\ shape' = shape /\ programs' = programs /\ match' = match /\ out' = out
  BY <1>2, <1>3 DEF Pipeline!Read, Pipeline!choice
<1>5. (p = 2 \/ (p = 3 /\ n = 3)) /\ program \in Filters
  <2>1. p # 1
    BY <1>4, DataAre
  <2> QED
    BY <1>1, <1>2, <2>1, CommandsAre DEF Flowing
<1>6. PICK made \in Seq(Nat) : made = mem[p]
  BY <1>5, DataAre
<1>7. PICK q \in Seq(Nat) : q = pipe[p - 1]
  BY <1>5, DataAre
<1>8. PICK d \in Seq(Nat) : d = IF p = 2 THEN mem[1] ELSE Due2
  BY DataAre
<1>9. PICK new : new = Takes(programs[p], mem[p], Head(pipe[p - 1]), match)
  OBVIOUS
<1>10. new = Takes(program, made, Head(q), match)
  BY <1>2, <1>6, <1>7, <1>9
<1>11. mem' = [mem EXCEPT ![p] = new]
  <2>1. Pipeline!Keeps(programs[p], mem[p], Head(pipe[p - 1])) = new
    BY <1>2, <1>5, <1>9 DEF Pipeline!Keeps, Takes, Filters, One, Pipeline!SortLines, Sorted,
       Pipeline!Bijection, Bijection, Pipeline!Injection, Injection,
       Pipeline!Surjection, Surjection, Pipeline!IsInjective, IsInjective
  <2>2. mem' = [mem EXCEPT ![p] = Pipeline!Keeps(programs[p], mem[p], Head(pipe[p - 1]))]
    BY DEF Pipeline!Read
  <2> QED
    BY <2>1, <2>2, Zenon
<1>12. Holds(program, made)
  BY <1>1, <1>2, <1>4, <1>5, <1>6 DEF Flowing, NothingLost
<1>13. /\ new \in Seq(Nat) /\ Tail(q) \in Seq(Nat)
       /\ program # "head" => Holds(program, new)
       /\ Reading(program, made, q \o d, match)
            = IF program = "head" THEN new ELSE Reading(program, new, Tail(q) \o d, match)
  <2>1. program \in Filters /\ q # << >> /\ (program # "sort" => made = << >>)
    BY <1>2, <1>4, <1>5, <1>6, <1>7
  <2>2. /\ Head(q) \in Nat /\ Tail(q) \in Seq(Nat)
        /\ q \o d = <<Head(q)>> \o (Tail(q) \o d)
    BY <2>1, OutOfThePipe
  <2>3. PICK rest \in Seq(Nat) : rest = Tail(q) \o d
    BY <2>2, ConcatProperties
  <2>4. PICK h \in Nat : h = Head(q)
    BY <2>2
  <2>5. new = Takes(program, made, h, match)
    BY <1>10, <2>4
  <2>6. new \in Seq(Nat)
    BY <1>12, <2>1, <2>5, OwesAfterRead
  <2>7. program # "head" => Holds(program, new)
    BY <1>12, <2>1, <2>5, OwesAfterRead
  <2>8. Reading(program, made, <<h>> \o rest, match)
          = IF program = "head" THEN new ELSE Reading(program, new, rest, match)
    BY <1>12, <2>1, <2>5, OwesAfterRead
  <2> QED
    BY <2>2, <2>3, <2>4, <2>6, <2>7, <2>8
<1>14. /\ pipe \in [{1, 2} -> Seq(Nat)] /\ mem \in [0 .. 3 -> Seq(Nat)]
       /\ eof \in [0 .. 3 -> BOOLEAN]
  BY DEF Flowing, NothingLost
<1>15. /\ pipe' \in [{1, 2} -> Seq(Nat)] /\ mem' \in [0 .. 3 -> Seq(Nat)]
       /\ eof' \in [0 .. 3 -> BOOLEAN]
  BY <1>4, <1>5, <1>7, <1>11, <1>13, <1>14
<1>16. /\ \A i \in 0 .. 3 : mem'[i] = IF i = p THEN new ELSE mem[i]
       /\ \A i \in 0 .. 3 : eof'[i] = IF i = p THEN last ELSE eof[i]
       /\ \A k \in {1, 2} : pipe'[k] = IF k = p - 1 THEN Tail(q) ELSE pipe[k]
  BY <1>4, <1>7, <1>11, <1>14
<1>17. Due2' = Due2
  <2>1. CASE p = 2
    <3>1. ~eof[2] /\ mem[2] = made /\ pipe[1] = q /\ mem[1] = d /\ programs[2] = program
      BY <1>2, <1>4, <1>6, <1>7, <1>8, <2>1
    <3>2. /\ mem'[2] = new /\ eof'[2] = last /\ pipe'[1] = Tail(q)
          /\ mem'[1] = d /\ programs'[2] = program /\ match' = match
      BY <1>4, <1>16, <2>1, <3>1
    <3> QED
      BY <1>3, <1>13, <3>1, <3>2 DEF Due2, Owes
  <2>2. CASE p = 3
    <3>1. mem'[2] = mem[2] /\ eof'[2] = eof[2] /\ pipe'[1] = pipe[1] /\ mem'[1] = mem[1]
      BY <1>16, <2>2
    <3> QED
      BY <1>4, <3>1 DEF Due2
  <2> QED
    BY <1>5, <2>1, <2>2
<1>18. n = 3 => Due3' = Due3
  <2>1. CASE p = 2
    <3>1. mem'[3] = mem[3] /\ eof'[3] = eof[3] /\ pipe'[2] = pipe[2]
      BY <1>16, <2>1
    <3> QED
      BY <1>4, <1>17, <3>1 DEF Due3
  <2>2. CASE p = 3
    <3>1. ~eof[3] /\ mem[3] = made /\ pipe[2] = q /\ Due2 = d /\ programs[3] = program
      BY <1>2, <1>4, <1>6, <1>7, <1>8, <2>2
    <3>2. /\ mem'[3] = new /\ eof'[3] = last /\ pipe'[2] = Tail(q)
          /\ Due2' = d /\ programs'[3] = program /\ match' = match
      BY <1>4, <1>16, <1>17, <2>2, <3>1
    <3> QED
      BY <1>3, <1>13, <3>1, <3>2 DEF Due3, Owes
  <2> QED
    BY <1>5, <2>1, <2>2
<1>19. Due' = Due /\ Goal' = Goal
  BY <1>1, <1>4, <1>17, <1>18, GoalSame DEF Due
<1>20. ASSUME NEW i \in 2 .. n, ~eof'[i]
       PROVE  Holds(programs[i], mem'[i])
  <2>1. i \in 0 .. 3
    OBVIOUS
  <2> QED
    BY <1>1, <1>2, <1>13, <1>16, <1>20, <1>3, <2>1 DEF Flowing, NothingLost
<1>21. eof'[1]
  BY <1>5, <1>16, DataAre
<1>22. out' \in Seq(Nat) /\ out' \o Due' = Goal'
  BY <1>4, <1>19 DEF Flowing, NothingLost
<1> QED
  BY <1>1, <1>4, <1>15, <1>20, <1>21, <1>22 DEF NothingLost

(* A stage sees the end of its input only when nothing is to come.         *)
LEMMA AfterEndOfFile ==
  ASSUME Flowing, NEW p \in 1 .. Len(programs), Pipeline!EndOfFile(p)
  PROVE  NothingLost'
<1>1. PICK n \in {2, 3} : n = Len(programs)
  BY CommandsAre DEF Flowing
<1>2. /\ pc[p] = "run" /\ ~eof[p] /\ pipe[p - 1] = << >> /\ ~Pipeline!Open(<<p - 1, "w">>)
      /\ eof' = [eof EXCEPT ![p] = TRUE]
      /\ pipe' = pipe /\ mem' = mem /\ out' = out
      /\ shape' = shape /\ programs' = programs /\ match' = match
  BY DEF Pipeline!EndOfFile, Pipeline!choice
<1>3. (p = 2 \/ (p = 3 /\ n = 3)) /\ programs[p] \in Filters
  <2>1. p # 1
    BY <1>2, DataAre
  <2> QED
    BY <1>1, <2>1, CommandsAre DEF Flowing
<1>4. mem[p - 1] = << >> /\ eof[p - 1]
  <2>1. PICK k : k = p - 1
    OBVIOUS
  <2>2. k \in 1 .. n - 1 /\ k \in 1 .. n /\ k + 1 = p /\ k # n
    BY <1>1, <1>3, <2>1
  <2>3. pc[k] = "done"
    BY <1>1, <1>2, <2>1, <2>2, OtherEnd
  <2> QED
    BY <1>1, <1>2, <2>1, <2>2, <2>3 DEF Flowing, EndsOpen, DoneWell
<1>5. PICK made \in Seq(Nat) : made = mem[p]
  BY <1>3, DataAre
<1>6. PICK d \in Seq(Nat) : d = IF p = 2 THEN pipe[1] \o mem[1] ELSE pipe[2] \o Due2
  BY <1>1, <1>3, DataAre
<1>7. d = << >>
  <2>1. << >> \o << >> = << >> /\ << >> \in Seq(Nat)
    BY ConcatEmptySeq
  <2>2. CASE p = 2
    BY <1>2, <1>4, <1>6, <2>1, <2>2
  <2>3. CASE p = 3
    <3>1. Due2 = << >>
      BY <1>4, <2>3 DEF Due2, Owes
    <3> QED
      BY <1>2, <1>6, <2>1, <2>3, <3>1
  <2> QED
    BY <1>3, <2>2, <2>3
<1>8. Reading(programs[p], made, << >>, match) = made
  <2>1. Holds(programs[p], made)
    BY <1>1, <1>2, <1>3, <1>5 DEF Flowing, NothingLost
  <2> QED
    BY <1>3, <2>1, OwesAtTheEnd
<1>9. eof \in [0 .. 3 -> BOOLEAN]
  BY DEF Flowing, NothingLost
<1>10. /\ eof' \in [0 .. 3 -> BOOLEAN]
       /\ \A i \in 0 .. 3 : i # p => eof'[i] = eof[i]
       /\ eof'[p]
  <2>1. p \in 0 .. 3
    BY <1>3
  <2> QED
    BY <1>2, <1>9, <2>1
<1>11. Due2' = Due2
  <2>1. CASE p = 2
    <3>1. Due2 = made
      BY <1>2, <1>5, <1>6, <1>7, <1>8, <2>1 DEF Due2, Owes
    <3>2. eof'[2]
      BY <1>10, <2>1
    <3> QED
      BY <1>2, <1>5, <2>1, <3>1, <3>2 DEF Due2, Owes
  <2>2. CASE p = 3
    <3>1. eof'[2] = eof[2]
      BY <1>10, <2>2
    <3> QED
      BY <1>2, <3>1 DEF Due2
  <2> QED
    BY <1>3, <2>1, <2>2
<1>12. n = 3 => Due3' = Due3
  <2>1. CASE p = 2
    <3>1. eof'[3] = eof[3]
      BY <1>10, <2>1
    <3> QED
      BY <1>2, <1>11, <3>1 DEF Due3
  <2>2. CASE p = 3
    <3>1. Due3 = made
      <4>1. pipe[2] \o Due2 = << >>
        <5>1. p # 2
          BY <2>2
        <5> QED
          BY <1>6, <1>7, <5>1, Zenon
      <4>2. ~eof[3] /\ mem[3] = made /\ Reading(programs[3], made, << >>, match) = made
        BY <1>2, <1>5, <1>8, <2>2
      <4> QED
        BY <4>1, <4>2 DEF Due3, Owes
    <3>2. eof'[3]
      BY <1>10, <2>2
    <3> QED
      BY <1>2, <1>5, <2>2, <3>1, <3>2 DEF Due3, Owes
  <2> QED
    BY <1>3, <2>1, <2>2
<1>13. Due' = Due /\ Goal' = Goal
  BY <1>1, <1>2, <1>11, <1>12, GoalSame DEF Due
<1>14. ASSUME NEW i \in 2 .. n, ~eof'[i]
       PROVE  Holds(programs[i], mem[i])
  <2>1. i \in 0 .. 3
    OBVIOUS
  <2> QED
    BY <1>1, <1>10, <1>14, <2>1 DEF Flowing, NothingLost
<1>15. eof'[1]
  BY <1>3, <1>10, DataAre
<1> QED
  BY <1>1, <1>2, <1>10, <1>13, <1>14, <1>15 DEF Flowing, NothingLost

(* A line written goes into the next pipe or out.                          *)
LEMMA AfterWrite ==
  ASSUME Flowing, NEW p \in 1 .. Len(programs), Pipeline!Write(p)
  PROVE  NothingLost'
<1>1. PICK n \in {2, 3} : n = Len(programs)
  BY CommandsAre DEF Flowing
<1>2. /\ mem[p] # << >> /\ (programs[p] = "sort" => eof[p])
      /\ mem' = [mem EXCEPT ![p] = Tail(mem[p])] /\ eof' = eof
      /\ shape' = shape /\ programs' = programs /\ match' = match
  BY DEF Pipeline!Write, Pipeline!HasOutput, Pipeline!choice
<1>3. IF p = n THEN out' = Append(out, Head(mem[p])) /\ pipe' = pipe
      ELSE out' = out /\ pipe' = [pipe EXCEPT ![p] = Append(pipe[p], Head(mem[p]))]
  BY <1>1 DEF Pipeline!Write
<1>4. /\ p = 1 \/ p = 2 \/ (p = 3 /\ n = 3)
      /\ p # 1 => programs[p] \in Filters
  BY <1>1, CommandsAre DEF Flowing
<1>5. PICK made \in Seq(Nat) : made = mem[p]
  BY <1>4, DataAre
<1>6. /\ Head(made) \in Nat /\ Tail(made) \in Seq(Nat)
      /\ made = <<Head(made)>> \o Tail(made)
  BY <1>2, <1>5, HeadAndTail
<1>7. PICK h \in Nat, new \in Seq(Nat) : h = Head(made) /\ new = Tail(made)
  BY <1>6
<1>8. /\ pipe \in [{1, 2} -> Seq(Nat)] /\ mem \in [0 .. 3 -> Seq(Nat)]
      /\ eof \in [0 .. 3 -> BOOLEAN] /\ out \in Seq(Nat)
  BY DEF Flowing, NothingLost
<1>9. /\ mem' \in [0 .. 3 -> Seq(Nat)]
      /\ \A i \in 0 .. 3 : mem'[i] = IF i = p THEN new ELSE mem[i]
  BY <1>2, <1>5, <1>7, <1>8
<1>10. p # 1 => /\ ~eof[p] => Holds(programs[p], made)
                /\ eof[p] \in BOOLEAN
  BY <1>1, <1>4, <1>5, <1>8 DEF Flowing, NothingLost
<1>11. /\ pipe' \in [{1, 2} -> Seq(Nat)]
       /\ out' \in Seq(Nat)
       /\ p = n => out' = Append(out, h) /\ pipe' = pipe
       /\ p # n => /\ out' = out
                   /\ \A k \in {1, 2} : pipe'[k] = IF k = p THEN Append(pipe[k], h) ELSE pipe[k]
  <2>1. CASE p = n
    <3>1. out' = Append(out, h) /\ pipe' = pipe
      BY <1>3, <1>5, <1>7, <2>1
    <3>2. out' \in Seq(Nat)
      BY <1>7, <1>8, <3>1
    <3> QED
      BY <1>8, <2>1, <3>1, <3>2
  <2>2. CASE p # n
    <3>1. p \in {1, 2}
      BY <1>4, <2>2
    <3>2. pipe' = [pipe EXCEPT ![p] = Append(pipe[p], h)] /\ out' = out
      BY <1>3, <1>5, <1>7, <2>2
    <3>3. Append(pipe[p], h) \in Seq(Nat)
      BY <1>7, <1>8, <3>1
    <3> QED
      BY <1>8, <2>2, <3>1, <3>2, <3>3
  <2> QED
    BY <2>1, <2>2
\* What stage p owes begins with the line written.
<1>12. ASSUME NEW d \in Seq(Nat), p # 1
       PROVE  /\ Owes(programs[p], made, eof[p], d, match)
                   = <<h>> \o Owes(programs[p], new, eof[p], d, match)
              /\ Owes(programs[p], new, eof[p], d, match) \in Seq(Nat)
              /\ ~eof[p] => Holds(programs[p], new)
  <2>1. PICK program \in Filters : program = programs[p]
    BY <1>4, <1>12
  <2>2. CASE eof[p]
    BY <1>6, <1>7, <2>2 DEF Owes
  <2>3. CASE ~eof[p]
    <3>1. program = "grep"
      BY <1>2, <1>5, <1>10, <1>12, <2>1, <2>3 DEF Holds, Filters
    <3>2. PICK k \in Seq(Nat) : k = Kept(d, match)
      BY <1>12, KeptType
    <3>3. PICK u \in Seq(Nat) : u = <<h>>
      BY AppendIs
    <3>4. (u \o new) \o k = u \o (new \o k)
      BY <1>7, <3>2, <3>3, ConcatAssociative
    <3>5. new \o k \in Seq(Nat)
      BY ConcatProperties
    <3> QED
      BY <1>6, <1>7, <2>1, <2>3, <3>1, <3>2, <3>3, <3>4, <3>5 DEF Owes, Reading, Holds
  <2> QED
    BY <2>2, <2>3
<1>13. CASE p = 1
  <2>1. /\ mem[1] = <<h>> \o new /\ mem'[1] = new /\ pipe'[1] = Append(pipe[1], h)
        /\ \A i \in {2, 3} : mem'[i] = mem[i]
        /\ pipe'[2] = pipe[2] /\ out' = out
    <3>1. mem[1] = <<h>> \o new
      BY <1>5, <1>6, <1>7, <1>13
    <3>2. mem'[1] = new /\ \A i \in {2, 3} : mem'[i] = mem[i]
      BY <1>9, <1>13
    <3>3. pipe'[1] = Append(pipe[1], h) /\ pipe'[2] = pipe[2] /\ out' = out
      <4>1. p # n
        BY <1>13
      <4> QED
        BY <1>11, <1>13, <4>1
    <3> QED
      BY <3>1, <3>2, <3>3
  <2>2. pipe'[1] \o mem'[1] = pipe[1] \o mem[1]
    <3>1. PICK q \in Seq(Nat) : q = pipe[1]
      BY DataAre
    <3>2. Append(q, h) \o new = q \o (<<h>> \o new)
      BY <1>7, IntoThePipe
    <3> QED
      BY <2>1, <3>1, <3>2
  <2>3. Due2' = Due2
    BY <1>2, <2>1, <2>2 DEF Due2
  <2>4. Due3' = Due3
    BY <1>2, <2>1, <2>3 DEF Due3
  <2>5. Due' = Due /\ Goal' = Goal
    BY <1>2, <2>3, <2>4, GoalSame DEF Due
  <2>6. \A i \in 2 .. n : mem'[i] = mem[i]
    <3>1. ASSUME NEW i \in 2 .. n
          PROVE  i \in 0 .. 3 /\ i # 1
      OBVIOUS
    <3> QED
      BY <1>9, <1>13, <3>1
  <2> QED
    BY <1>1, <1>2, <1>8, <1>9, <1>11, <2>1, <2>5, <2>6 DEF Flowing, NothingLost
<1>14. CASE p # 1
  <2>1. ASSUME NEW i \in 2 .. n, ~eof[i]
        PROVE  Holds(programs[i], mem'[i])
    <3>1. << >> \in Seq(Nat) /\ i \in 0 .. 3
      OBVIOUS
    <3>2. CASE i = p
      BY <1>9, <1>12, <1>14, <2>1, <3>1, <3>2
    <3>3. CASE i # p
      BY <1>1, <1>9, <2>1, <3>1, <3>3 DEF Flowing, NothingLost
    <3> QED
      BY <3>2, <3>3
  <2>2. mem'[1] = mem[1] /\ eof'[1]
    BY <1>2, <1>9, <1>14, DataAre
  <2>3. ASSUME p = n, NEW due \in Seq(Nat), Due = <<h>> \o due, due = Due'
        PROVE  out' \o Due' = Goal'
    <3>1. out' = Append(out, h)
      BY <1>11, <2>3
    <3>2. Append(out, h) \o due = out \o (<<h>> \o due)
      <4>1. PICK o \in Seq(Nat) : o = out
        BY <1>8
      <4>2. Append(o, h) \o due = o \o (<<h>> \o due)
        BY <1>7, <2>3, IntoThePipe
      <4> QED
        BY <4>1, <4>2
    <3> QED
      BY <1>2, <2>3, <3>1, <3>2, GoalSame DEF Flowing, NothingLost
  <2>4. CASE p = 2 /\ n = 2
    <3>1. PICK d \in Seq(Nat) : d = pipe[1] \o mem[1]
      BY DataAre
    <3>2. PICK due : due = Owes(programs[2], new, eof[2], d, match)
      OBVIOUS
    <3>3. due \in Seq(Nat) /\ Owes(programs[2], made, eof[2], d, match) = <<h>> \o due
      BY <1>12, <1>14, <2>4, <3>1, <3>2
    <3>4. mem'[2] = new /\ pipe' = pipe
      BY <1>9, <1>11, <2>4
    <3>5. Due = <<h>> \o due
      BY <1>1, <1>5, <2>4, <3>1, <3>2, <3>3 DEF Due, Due2
    <3>6. Due' = due
      BY <1>1, <1>2, <2>2, <2>4, <3>1, <3>2, <3>4 DEF Due, Due2
    <3>7. out' \o Due' = Goal'
      BY <2>3, <2>4, <3>3, <3>5, <3>6
    <3> QED
      BY <1>1, <1>2, <1>8, <1>9, <1>11, <2>1, <2>2, <3>7 DEF NothingLost
  <2>5. CASE p = 2 /\ n = 3
    <3>1. PICK d \in Seq(Nat) : d = pipe[1] \o mem[1]
      BY DataAre
    <3>2. PICK due : due = Owes(programs[2], new, eof[2], d, match)
      OBVIOUS
    <3>3. due \in Seq(Nat) /\ Owes(programs[2], made, eof[2], d, match) = <<h>> \o due
      BY <1>12, <1>14, <2>5, <3>1, <3>2
    <3>4. /\ mem'[2] = new /\ mem'[3] = mem[3] /\ pipe'[1] = pipe[1]
          /\ pipe'[2] = Append(pipe[2], h) /\ out' = out
      <4>1. mem'[2] = new /\ mem'[3] = mem[3]
        BY <1>9, <2>5
      <4>2. pipe'[1] = pipe[1] /\ pipe'[2] = Append(pipe[2], h) /\ out' = out
        BY <1>11, <2>5
      <4> QED
        BY <4>1, <4>2
    <3>5. Due2 = <<h>> \o due
      BY <1>5, <2>5, <3>1, <3>2, <3>3 DEF Due2
    <3>6. Due2' = due
      BY <1>2, <2>2, <3>1, <3>2, <3>4 DEF Due2
    <3>7. pipe'[2] \o Due2' = pipe[2] \o Due2
      <4>1. Append(pipe[2], h) \o due = pipe[2] \o (<<h>> \o due)
        <5>1. PICK q \in Seq(Nat) : q = pipe[2]
          BY DataAre
        <5>2. Append(q, h) \o due = q \o (<<h>> \o due)
          BY <1>7, <3>3, IntoThePipe
        <5> QED
          BY <5>1, <5>2
      <4> QED
        BY <3>4, <3>5, <3>6, <4>1
    <3>8. Due' = Due /\ Goal' = Goal
      BY <1>1, <1>2, <2>5, <3>4, <3>7, GoalSame DEF Due, Due3
    <3>9. out' \o Due' = Goal'
      BY <3>4, <3>8 DEF Flowing, NothingLost
    <3> QED
      BY <1>1, <1>2, <1>8, <1>9, <1>11, <2>1, <2>2, <3>9 DEF NothingLost
  <2>6. CASE p = 3 /\ n = 3
    <3>1. PICK d \in Seq(Nat) : d = pipe[2] \o Due2
      BY <1>1, <2>6, DataAre
    <3>2. PICK due : due = Owes(programs[3], new, eof[3], d, match)
      OBVIOUS
    <3>3. due \in Seq(Nat) /\ Owes(programs[3], made, eof[3], d, match) = <<h>> \o due
      BY <1>12, <1>14, <2>6, <3>1, <3>2
    <3>4. mem'[3] = new /\ mem'[2] = mem[2] /\ pipe' = pipe
      BY <1>9, <1>11, <2>6
    <3>5. Due2' = Due2
      BY <1>2, <2>2, <3>4 DEF Due2
    <3>6. Due = <<h>> \o due
      BY <1>1, <1>5, <2>6, <3>1, <3>2, <3>3 DEF Due, Due3
    <3>7. Due' = due
      <4>1. Due3' = Owes(programs[3], new, eof[3], d, match)
        BY <1>2, <3>1, <3>4, <3>5 DEF Due3
      <4> QED
        BY <1>1, <1>2, <2>6, <3>2, <4>1 DEF Due
    <3>8. out' \o Due' = Goal'
      BY <2>3, <2>6, <3>3, <3>6, <3>7
    <3> QED
      BY <1>1, <1>2, <1>8, <1>9, <1>11, <2>1, <2>2, <3>8 DEF NothingLost
  <2> QED
    BY <1>1, <1>4, <1>14, <2>4, <2>5, <2>6
<1> QED
  BY <1>13, <1>14

(* Every step of the stages and their parent keeps the invariant.          *)
LEMMA PipedStep ==
  ASSUME shape # "two_way", Piping, Pipeline!Next, ~failed'
  PROVE  Piping'
<1>1. CASE UNCHANGED Pipeline!vars
  BY <1>1, PipingStutters
<1>2. CASE ~UNCHANGED Pipeline!vars
  <2>1. ~failed
    BY <1>2, FailedStays
  <2>2. Flowing
    BY <2>1 DEF Piping, Flowing
  <2>3. ASSUME UNCHANGED <<shape, programs>>, NothingLost', EndsOpen'
        PROVE  Piping'
    BY <2>2, <2>3 DEF Piping, Flowing, Commands
  <2>4. pc[0] \notin {"write", "read"}
    BY <2>2 DEF Flowing, EndsOpen, ProcessesAre
  <2>5. CASE Pipeline!Fork
    BY <2>2, <2>3, <2>5, AfterFork, AfterOthers
    DEF Pipeline!Fork, Pipeline!choice, Pipeline!data
  <2>6. CASE Pipeline!Close
    BY <2>2, <2>3, <2>6, AfterClose, AfterOthers
    DEF Pipeline!Close, Pipeline!choice, Pipeline!data
  <2>7. CASE Pipeline!Wait
    BY <2>2, <2>3, <2>7, AfterClose, AfterOthers
    DEF Pipeline!Wait, Pipeline!choice, Pipeline!data
  <2>8. CASE Pipeline!Become
    BY <2>2, <2>3, <2>8, AfterBecome, AfterOthers
    DEF Pipeline!Become, Pipeline!choice, Pipeline!data
  <2>9. ~Pipeline!ForkFails /\ ~Pipeline!ParentWrites /\ ~Pipeline!ParentReads
        /\ ~Pipeline!ChildAnswers /\ ~Pipeline!Ended
    BY <1>2, <2>4 DEF Pipeline!ForkFails, Pipeline!ParentWrites, Pipeline!ParentReads,
       Pipeline!ChildAnswers, Pipeline!Ended
  <2>10. ASSUME NEW p \in Pipeline!Stages, Pipeline!Stage(p)
         PROVE  Piping'
    <3>1. p \in 1 .. Len(programs)
      BY DEF Pipeline!Stages
    <3>2. CASE Pipeline!Setup(p)
      <4>1. UNCHANGED <<shape, programs, match, pipe, mem, eof, out>>
        BY <3>2 DEF Pipeline!Setup, Pipeline!choice, Pipeline!data
      <4>2. NothingLost'
        BY <2>2, <4>1, AfterOthers
      <4>3. EndsOpen'
        BY <2>2, <3>1, <3>2, AfterSetup
      <4> QED
        BY <2>3, <4>1, <4>2, <4>3
    <3>3. CASE Pipeline!Sigpipe(p) \/ Pipeline!Exit(p)
      <4>1. UNCHANGED <<shape, programs, match, pipe, mem, eof, out>>
        BY <3>3 DEF Pipeline!Sigpipe, Pipeline!Exit, Pipeline!choice, Pipeline!data
      <4>2. NothingLost'
        BY <2>2, <4>1, AfterOthers
      <4>3. EndsOpen'
        BY <2>2, <3>1, <3>3, AfterDeath
      <4> QED
        BY <2>3, <4>1, <4>2, <4>3
    <3>4. ASSUME Pipeline!Read(p) \/ Pipeline!EndOfFile(p) \/ Pipeline!Write(p)
          PROVE  EndsOpen' /\ UNCHANGED <<shape, programs>>
      <4>1. pc[p] = "run" /\ UNCHANGED <<shape, programs, pc, next, fds>>
        BY <3>4 DEF Pipeline!Read, Pipeline!EndOfFile, Pipeline!Write, Pipeline!HasOutput,
           Pipeline!choice
      <4>2. mem \in [0 .. 3 -> Seq(Nat)] /\ eof \in [0 .. 3 -> BOOLEAN]
        BY <2>2 DEF Flowing, NothingLost
      <4>3. ASSUME NEW q \in 1 .. Len(programs), q # p
            PROVE  mem'[q] = mem[q] /\ eof'[q] = eof[q]
        <5>1. q \in 0 .. 3
          BY <2>2, <4>3, CommandsAre DEF Flowing
        <5> QED
          BY <3>4, <4>2, <4>3, <5>1 DEF Pipeline!Read, Pipeline!EndOfFile, Pipeline!Write
      <4> QED
        BY <2>2, <3>1, <4>1, <4>3, AfterWork
    <3>5. CASE Pipeline!Read(p)
      BY <2>2, <2>3, <3>1, <3>4, <3>5, AfterRead
    <3>6. CASE Pipeline!EndOfFile(p)
      BY <2>2, <2>3, <3>1, <3>4, <3>6, AfterEndOfFile
    <3>7. CASE Pipeline!Write(p)
      BY <2>2, <2>3, <3>1, <3>4, <3>7, AfterWrite
    <3> QED
      BY <2>10, <3>2, <3>3, <3>5, <3>6, <3>7 DEF Pipeline!Stage
  <2> QED
    BY <2>5, <2>6, <2>7, <2>8, <2>9, <2>10 DEF Pipeline!Next, Pipeline!Parent
<1> QED
  BY <1>1, <1>2

-----------------------------------------------------------------------------
(* The theorem about the pipelines                                         *)

(* The invariant holds of every state.                                     *)
LEMMA PipingInv ==
  ASSUME Pipeline!PipesAssumption
  PROVE  Pipeline!Spec => []Piping
<1>1. Pipeline!Init => Piping
  BY PipingAtFirst
<1>2. ASSUME Piping, [Pipeline!Next]_(Pipeline!vars)
      PROVE  Piping'
  <2>1. CASE failed'
    BY <2>1 DEF Piping
  <2>2. CASE UNCHANGED Pipeline!vars
    BY <1>2, <2>2, PipingStutters
  <2>3. CASE Pipeline!Next /\ ~failed'
    BY <1>2, <2>3, TwoWayStep, PipedStep
  <2> QED
    BY <1>2, <2>1, <2>2, <2>3
<1> QED
  BY <1>1, <1>2, PTL DEF Pipeline!Spec

\* What IsPrefix says.
Starts(s, t) == Len(s) <= Len(t) /\ SubSeq(s, 1, Len(s)) = SubSeq(t, 1, Len(s))

(* A sequence starts another if it agrees with it as far as it goes.       *)
LEMMA StartsIs ==
  ASSUME NEW S, NEW s \in Seq(S), NEW t \in Seq(S), Len(s) <= Len(t),
         \A i \in 1 .. Len(s) : t[i] = s[i]
  PROVE  Starts(s, t)
<1>1. Len(s) \in Nat /\ SubSeq(s, 1, Len(s)) = s
  OBVIOUS
<1>2. \A i \in 1 .. Len(s) : t[i] \in S
  OBVIOUS
<1>3. PICK u \in Seq(S) : /\ u = SubSeq(t, 1, Len(s)) /\ Len(u) = Len(s)
                          /\ \A i \in 1 .. Len(s) : u[i] = s[i]
  <2>1. SubSeq(t, 1, Len(s)) \in Seq(S) /\ Len(SubSeq(t, 1, Len(s))) = Len(s)
    BY <1>1, <1>2, SubSeqProperties
  <2>2. \A i \in 1 .. Len(s) : SubSeq(t, 1, Len(s))[i] = t[i]
    BY <1>1
  <2> QED
    BY <2>1, <2>2
<1>4. u = s
  BY <1>3, SeqEqual
<1> QED
  BY <1>1, <1>3, <1>4 DEF Starts

(* What pipes_processes1.c has put out is the start of its goal.           *)
LEMMA LinesStart ==
  ASSUME NEW a, NEW b, NEW c, NEW d
  PROVE  /\ Starts(<< >>, <<a, b, a, b, c, d>>)
         /\ Starts(<<a, b>>, <<a, b, a, b, c, d>>)
         /\ Starts(<<a, b, a, b, c, d>>, <<a, b, a, b, c, d>>)
<1>1. PICK S : S = {a, b, c, d}
  OBVIOUS
<1>2. PICK t : t = <<a, b, a, b, c, d>>
  OBVIOUS
<1>3. t \in Seq(S) /\ Len(t) = 6 /\ t[1] = a /\ t[2] = b
  BY <1>1, <1>2
<1>4. PICK r : r = << >>
  OBVIOUS
<1>5. r \in Seq(S) /\ Len(r) = 0
  BY <1>4
<1>6. PICK s : s = <<a, b>>
  OBVIOUS
<1>7. s \in Seq(S) /\ Len(s) = 2 /\ s[1] = a /\ s[2] = b
  BY <1>1, <1>6
<1>8. Starts(r, t)
  <2>1. Len(r) <= Len(t) /\ \A i \in 1 .. Len(r) : t[i] = r[i]
    BY <1>3, <1>5
  <2> QED
    BY <1>3, <1>5, <2>1, StartsIs
<1>9. Starts(s, t)
  <2>1. \A i \in 1 .. 2 : i = 1 \/ i = 2
    OBVIOUS
  <2>2. Len(s) <= Len(t) /\ \A i \in 1 .. Len(s) : t[i] = s[i]
    BY <1>3, <1>7, <2>1
  <2> QED
    BY <1>3, <1>7, <2>2, StartsIs
<1>10. Starts(t, t)
  BY <1>3, StartsIs
<1> QED
  BY <1>2, <1>4, <1>6, <1>8, <1>9, <1>10, Zenon

(* The invariant says what the pipes promise.                              *)
LEMMA PipingComposes ==
  ASSUME Piping
  PROVE  Pipeline!Composes
<1>1. ASSUME Starts(out, Goal), Pipeline!AllDone => out = Goal,
             shape # "two_way" => Commands
      PROVE  Pipeline!Composes
  <2>1. Pipeline!Expected = Goal
    BY <1>1, ExpectedIs
  <2> QED
    BY <1>1, <2>1 DEF Pipeline!Composes, Pipeline!IsPrefix, Starts
<1>2. CASE failed
  BY <1>2 DEF Pipeline!Composes
<1>3. CASE ~failed /\ shape = "two_way"
  <2>1. BackAndForth
    BY <1>3 DEF Piping
  <2>2. Goal = <<"input", "howard.edu", "input", "howard.edu", "second input", "gobison.org">>
    BY <1>3 DEF Goal
  <2>3. Starts(out, Goal)
    <3>1. PICK a, b, c, d : /\ a = "input" /\ b = "howard.edu"
                            /\ c = "second input" /\ d = "gobison.org"
      OBVIOUS
    <3>2. Goal = <<a, b, a, b, c, d>>
      BY <2>2, <3>1, Zenon
    <3>3. out = << >> \/ out = <<a, b>> \/ out = Goal
      BY <2>1, <3>1 DEF BackAndForth
    <3> QED
      BY <3>2, <3>3, LinesStart, Zenon
  <2>4. Pipeline!AllDone => out = Goal
    <3>1. Pipeline!AllDone => pc[0] \in {"unborn", "done"}
      BY DEF Pipeline!AllDone, Pipeline!Procs
    <3>2. pc = [p \in 0 .. 3 |-> IF p = 0 THEN "fork" ELSE "unborn"] => pc[0] = "fork"
      OBVIOUS
    <3> QED
      BY <2>1, <3>1, <3>2 DEF BackAndForth
  <2> QED
    BY <1>1, <1>3, <2>3, <2>4
<1>4. CASE ~failed /\ shape # "two_way"
  <2>1. Flowing
    BY <1>4 DEF Piping, Flowing
  <2>2. PICK n \in {2, 3} : n = Len(programs)
    BY <2>1, CommandsAre DEF Flowing
  <2>3. PICK due \in Seq(Nat), got \in Seq(Nat) : due = Due /\ got = out /\ got \o due = Goal
    <3>1. Due \in Seq(Nat)
      BY <2>1, <2>2, DataAre DEF Due
    <3> QED
      BY <2>1, <3>1 DEF Flowing, NothingLost
  <2>4. Starts(out, Goal)
    <3>1. PICK goal \in Seq(Nat) : goal = got \o due
      BY ConcatProperties
    <3>2. Len(got) <= Len(goal) /\ \A i \in 1 .. Len(got) : goal[i] = got[i]
      <4>1. /\ Len(goal) = Len(got) + Len(due)
            /\ \A i \in 1 .. Len(got) + Len(due) :
                 goal[i] = IF i <= Len(got) THEN got[i] ELSE due[i - Len(got)]
        BY <3>1, ConcatProperties
      <4>2. Len(got) \in Nat /\ Len(due) \in Nat
        OBVIOUS
      <4> QED
        BY <4>1, <4>2
    <3>3. Starts(got, goal)
      BY <3>2, StartsIs
    <3> QED
      BY <2>3, <3>1, <3>3
  <2>5. ASSUME Pipeline!AllDone
        PROVE  out = Goal
    <3>1. \A p \in 0 .. 3 : pc[p] \in {"unborn", "done"}
      BY <2>5 DEF Pipeline!AllDone, Pipeline!Procs
    <3>2. pc[0] = "done"
      BY <2>1, <3>1 DEF Flowing, EndsOpen, ProcessesAre
    <3>3. pc[n] = "done"
      <4>1. n \in 0 .. 3 /\ n \in 1 .. n
        OBVIOUS
      <4> QED
        BY <2>1, <2>2, <3>1, <3>2, <4>1 DEF Flowing, EndsOpen, InTurn, Born
    <3>4. eof[n] /\ mem[n] = << >>
      <4>1. n \in 1 .. n
        OBVIOUS
      <4> QED
        BY <2>1, <2>2, <3>3, <4>1 DEF Flowing, EndsOpen, DoneWell
    <3>5. Due = << >>
      BY <2>2, <3>4 DEF Due, Due2, Due3, Owes
    <3>6. got \o << >> = got
      BY ConcatEmptySeq
    <3> QED
      BY <2>3, <3>5, <3>6
  <2> QED
    BY <1>1, <2>1, <2>4, <2>5 DEF Flowing
<1> QED
  BY <1>2, <1>3, <1>4

(* No line is lost or late, whichever process starts, ends or is killed    *)
(* first and however little a pipe holds: if every fork and exec succeeds, *)
(* what comes out of the two programs of lab 3, of the three, of the       *)
(* parent and child that answer each other and of a pipeline of quash is   *)
(* always a beginning of what the programs make of the file, and all of it *)
(* at the end.                                                             *)
THEOREM PipelinesCompose ==
  ASSUME Pipeline!PipesAssumption
  PROVE  Pipeline!Spec => []Pipeline!Composes
<1>1. Pipeline!Spec => []Piping
  BY PipingInv
<1>2. Piping => Pipeline!Composes
  BY PipingComposes
<1> QED
  BY <1>1, <1>2, PTL
=============================================================================
