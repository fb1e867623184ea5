-------------------------------- MODULE Shell --------------------------------
(***************************************************************************)
(* Project 1: the shell reads a line, forks a command or the stages of a   *)
(* pipeline, and waits.  SIGINT comes from the terminal, to the shell and  *)
(* to all its children, which stay in its process group; SIGALRM comes     *)
(* from the timer of the foreground command.                               *)
(*                                                                         *)
(* With _POSIX_C_SOURCE defined, signal() is the System V one: a handler   *)
(* is used once, after which the signal has its default action, and the    *)
(* call a signal interrupts is not restarted.                              *)
(*                                                                         *)
(* Built-in commands other than exit change nothing here and are steps     *)
(* that stutter.                                                           *)
(***************************************************************************)
EXTENDS Integers, Sequences

CONSTANTS
  Pids,       \* the process ids the kernel hands out
  MaxStages   \* the longest pipeline

ASSUME ShellAssumption ==
  /\ Pids \subseteq Nat \ {0}
  /\ MaxStages \in Nat \ {0, 1}

VARIABLES
  spc,             \* the next step of the shell
  foreground_pid,
  ret,             \* what fork has returned
  background,      \* does the line end in "&"?
  unforked,        \* how many stages of the pipeline are still to be forked
  pids,            \* the stages forked and not waited for yet, -1 for a failure
  proc,            \* the process behind each pid, as the kernel sees it
  timer,           \* is an alarm set?
  caught,          \* the signals whose handler has not been used up
  pending,         \* the signals sent to the shell and not delivered yet
  excused          \* history: children the shell has no wait to come for

vars == <<spc, foreground_pid, ret, background, unforked, pids, proc, timer,
          caught, pending, excused>>
line == <<ret, background, unforked, pids>>
signals == <<timer, caught, pending>>

Up == spc \notin {"exited", "killed"}
Signals == {"INT", "ALRM"}

\* A child before its exec, with the handler it inherited or after that has
\* been used; a program that SIGINT ends and one that it does not.
Running == {"forked", "spent", "running", "deaf"}
Children == {p \in Pids : proc[p] \in Running \cup {"zombie"}}

\* "other" is a process that is no child of the shell.
TypeOK ==
  /\ spc \in {"prompt", "fork", "assign", "arm", "wait", "disarm", "reset",
              "pfork", "pwait", "exited", "killed"}
  /\ foreground_pid \in Pids \cup {-1}
  /\ ret \in Pids \cup {-1}
  /\ background \in BOOLEAN
  /\ unforked \in 0 .. MaxStages
  /\ pids \in Seq(Pids \cup {-1})
  /\ proc \in [Pids -> Running \cup {"zombie", "none", "other"}]
  /\ timer \in BOOLEAN
  /\ caught \subseteq Signals
  /\ pending \subseteq Signals
  /\ excused \subseteq Pids

Init ==
  /\ spc = "prompt"
  /\ foreground_pid = -1
  /\ ret = -1
  /\ background = FALSE
  /\ unforked = 0
  /\ pids = << >>
  /\ proc = [p \in Pids |-> "none"]
  /\ timer = FALSE
  /\ caught = Signals
  /\ pending = {}
  /\ excused = {}

At(s) == spc = s
Goto(s) == spc' = s

-----------------------------------------------------------------------------
(* main: read a line                                                       *)

\* exit, or the end of the input; or a line that is only "&", of which
\* handle_builtin compares the null pointer that replaced it.
Quit ==
  /\ At("prompt")
  /\ spc' \in {"exited", "killed"}
  /\ UNCHANGED <<foreground_pid, line, proc, signals, excused>>

ReadCommand ==
  /\ At("prompt")
  /\ background' \in BOOLEAN
  /\ Goto("fork")
  /\ UNCHANGED <<foreground_pid, ret, unforked, pids, proc, signals, excused>>

ReadPipeline ==
  /\ At("prompt")
  /\ unforked' \in 2 .. MaxStages
  /\ Goto("pfork")
  /\ UNCHANGED <<foreground_pid, ret, background, pids, proc, signals, excused>>

-----------------------------------------------------------------------------
(* main: one command                                                       *)

\* foreground_pid = fork() is a call and an assignment.
Fork ==
  /\ At("fork")
  /\ \E p \in Pids :
       /\ proc[p] = "none"
       /\ proc' = [proc EXCEPT ![p] = "forked"]
       /\ ret' = p
       /\ excused' = excused \cup {q \in {p} : background}
  /\ Goto("assign")
  /\ UNCHANGED <<foreground_pid, background, unforked, pids, signals>>

ForkFails ==
  /\ At("fork")
  /\ foreground_pid' = -1
  /\ Goto("prompt")
  /\ UNCHANGED <<line, proc, signals, excused>>

Assign ==
  /\ At("assign")
  /\ foreground_pid' = ret
  /\ Goto(IF background THEN "reset" ELSE "arm")
  /\ UNCHANGED <<line, proc, signals, excused>>

ArmForgotten == At("arm") /\ UNCHANGED timer \* a mutant: no alarm(10)
Arm == At("arm") /\ timer' = TRUE

ArmAlarm ==
  /\ Arm
  /\ Goto("wait")
  /\ UNCHANGED <<foreground_pid, line, proc, caught, pending, excused>>

\* The kernel gives the shell the status of a child that has ended.
Reap(p) ==
  /\ proc[p] = "zombie"
  /\ proc' = [proc EXCEPT ![p] = "none"]
  /\ excused' = excused \ {p}

Wait ==
  /\ At("wait")
  /\ Reap(foreground_pid)
  /\ Goto("disarm")
  /\ UNCHANGED <<foreground_pid, line, signals>>

DisarmForgotten == UNCHANGED timer \* a mutant: no alarm(0)
Disarm == timer' = FALSE

DisarmAlarm ==
  /\ At("disarm")
  /\ Disarm
  /\ Goto("reset")
  /\ UNCHANGED <<foreground_pid, line, proc, caught, pending, excused>>

ResetForgotten == UNCHANGED foreground_pid \* a mutant: the pid stays
Reset == foreground_pid' = -1

ResetPid ==
  /\ At("reset")
  /\ Reset
  /\ Goto("prompt")
  /\ UNCHANGED <<line, proc, signals, excused>>

-----------------------------------------------------------------------------
(* execute_pipeline: fork every stage, then wait for each                  *)

Stage(p) ==
  /\ pids' = Append(pids, p)
  /\ unforked' = unforked - 1
  /\ Goto(IF unforked > 1 THEN "pfork" ELSE "pwait")

ForkStage ==
  /\ At("pfork")
  /\ \/ \E p \in Pids : /\ proc[p] = "none"
                        /\ proc' = [proc EXCEPT ![p] = "forked"]
                        /\ Stage(p)
     \/ Stage(-1) /\ UNCHANGED proc
  /\ UNCHANGED <<foreground_pid, ret, background, signals, excused>>

NextStageNone(s) == "prompt" \* a mutant: only the first stage is waited for
NextStage(s) == IF Len(s) > 1 THEN "pwait" ELSE "prompt"

WaitedFor ==
  /\ At("pwait")
  /\ Goto(NextStage(pids))
  /\ pids' = IF spc' = "pwait" THEN Tail(pids) ELSE << >>

\* waitpid returns the stage; or any child, when the fork has failed and the
\* pid is -1; or an error, when there is no such child.
WaitStage ==
  /\ WaitedFor
  /\ \/ Head(pids) \in Pids /\ Reap(Head(pids))
     \/ Head(pids) = -1 /\ \E p \in Children : Reap(p)
     \/ /\ Children \cap {p \in Pids : Head(pids) \in {p, -1}} = {}
        /\ UNCHANGED <<proc, excused>>
  /\ UNCHANGED <<foreground_pid, ret, background, unforked, signals>>

\* A signal that has been sent is handled before the shell goes on; a call
\* that is under way completes first (fork starts again).
ShellStep ==
  \/ /\ pending = {}
     /\ \/ Quit
        \/ ReadCommand
        \/ ReadPipeline
        \/ Fork
        \/ ForkFails
        \/ Assign
        \/ ResetPid
        \/ ForkStage
  \/ ArmAlarm
  \/ Wait
  \/ DisarmAlarm
  \/ WaitStage

-----------------------------------------------------------------------------
(* The children, as the kernel runs them                                   *)

\* exec gives SIGINT its default action back, unless the program ignores it;
\* an exec or a redirection that fails ends the child.
Exec(p) ==
  /\ proc[p] \in {"forked", "spent"}
  /\ \E s \in {"running", "deaf", "zombie"} : proc' = [proc EXCEPT ![p] = s]

Finish(p) ==
  /\ proc[p] \in {"running", "deaf"}
  /\ proc' = [proc EXCEPT ![p] = "zombie"]

\* A pid that is free goes to a process of somebody else, and comes back.
Stranger(p) ==
  \/ proc[p] = "none" /\ proc' = [proc EXCEPT ![p] = "other"]
  \/ proc[p] = "other" /\ proc' = [proc EXCEPT ![p] = "none"]

Kernel ==
  /\ Up
  /\ \E p \in Pids : Exec(p) \/ Finish(p) \/ Stranger(p)
  /\ UNCHANGED <<spc, foreground_pid, line, signals, excused>>

-----------------------------------------------------------------------------
(* Signals                                                                 *)

\* What SIGINT makes of a process.  Before its exec a child still has the
\* shell's handler, where foreground_pid is no pid, and it has it once; two
\* signals may be one when the second is sent before the first is delivered.
Interrupted(s, merged) ==
  CASE s = "running" -> "zombie"
    [] s = "forked" -> "spent"
    [] s = "spent" /\ ~merged -> "zombie"
    [] OTHER -> s

\* Ctrl-C: the terminal sends SIGINT to the shell and to all its children.
CtrlC ==
  /\ Up
  /\ pending' = pending \cup {"INT"}
  /\ \E merged \in SUBSET {p \in Pids : proc[p] = "spent"} :
       proc' = [p \in Pids |-> Interrupted(proc[p], p \in merged)]
  /\ UNCHANGED <<spc, foreground_pid, line, timer, caught, excused>>

\* Ten seconds are over.
TimerFires ==
  /\ Up
  /\ timer
  /\ timer' = FALSE
  /\ pending' = pending \cup {"ALRM"}
  /\ UNCHANGED <<spc, foreground_pid, line, proc, caught, excused>>

\* kill(foreground_pid, SIGINT) and kill(foreground_pid, SIGKILL).
sigint_handler ==
  \E merged \in BOOLEAN :
    proc' = [p \in Pids |-> IF p = foreground_pid
                            THEN Interrupted(proc[p], merged) ELSE proc[p]]

sigalrm_handler ==
  proc' = [p \in Pids |-> IF p = foreground_pid /\ proc[p] \in Running
                          THEN "zombie" ELSE proc[p]]

\* A signal that comes while the shell is blocked makes the call fail: fgets
\* returns NULL, which ends the loop, and waitpid returns without a child.
CallFails ==
  \/ /\ At("prompt")
     /\ Goto("exited")
     /\ UNCHANGED <<pids, excused>>
  \/ /\ At("wait")
     /\ Goto("disarm")
     /\ excused' = excused \cup {foreground_pid}
     /\ UNCHANGED pids
  \/ /\ WaitedFor
     /\ excused' = excused \cup ({Head(pids)} \cap Children)

Deliver(sig) ==
  /\ Up
  /\ sig \in pending
  /\ sig \in caught
  /\ pending' = pending \ {sig}
  /\ caught' = caught \ {sig}
  /\ IF sig = "INT" THEN sigint_handler ELSE sigalrm_handler
  /\ CallFails \/ UNCHANGED <<spc, pids, excused>>
  /\ UNCHANGED <<foreground_pid, ret, background, unforked, timer>>

\* The second SIGINT or SIGALRM has its default action.
Killed(sig) ==
  /\ Up
  /\ sig \in pending \ caught
  /\ Goto("killed")
  /\ UNCHANGED <<foreground_pid, line, proc, signals, excused>>

Ended == ~Up /\ UNCHANGED vars

Next ==
  \/ ShellStep
  \/ Kernel
  \/ CtrlC
  \/ TimerFires
  \/ \E sig \in Signals : Deliver(sig) \/ Killed(sig)
  \/ Ended

Spec == Init /\ [][Next]_vars

\* The kernel runs the shell, delivers signals and keeps time.  No command has
\* to end and no line has to be typed.
Fairness ==
  /\ WF_vars(ShellStep /\ spc # "prompt")
  /\ WF_vars(TimerFires)
  /\ \A sig \in Signals : WF_vars(Deliver(sig) \/ Killed(sig))

FairSpec == Spec /\ Fairness

-----------------------------------------------------------------------------
(* Properties                                                              *)

(* Whenever the shell is ready for a line it has waited for every child    *)
(* there still is, except those it put in the background and those whose   *)
(* wait a signal interrupted: a failing fork, a child that dies early or   *)
(* a wait for any child leaves no other zombie behind.                     *)
ChildrenReaped == spc \in {"prompt", "fork"} => Children \subseteq excused

(* The alarm is for the foreground command: it is never set, or on its     *)
(* way, at the prompt, in a pipeline or while a background job starts,     *)
(* although SIGINT may end the wait early.                                 *)
AlarmIsForTheForeground ==
  Up /\ (timer \/ "ALRM" \in pending) =>
    spc \in {"wait", "disarm", "reset"} /\ ~background

(* The handlers signal foreground_pid.  It names a child of the shell, or  *)
(* none, except from the return of waitpid to the assignment of -1, where  *)
(* the pid may belong to somebody else.                                    *)
HandlersKnowTheChild ==
  foreground_pid \notin Children \cup {-1} => spc \in {"disarm", "reset"} \/ ~Up

(* The shell comes back from a foreground command whatever that does, by   *)
(* the alarm at the latest, and from a pipeline unless some child runs for *)
(* ever; or a signal has ended it.                                         *)
Ready == spc = "prompt" \/ ~Up
PromptComesBack ==
  /\ (spc = "wait") ~> Ready
  /\ (spc = "pwait") ~> (Ready \/ [](\E p \in Pids : proc[p] \in Running))
=============================================================================
