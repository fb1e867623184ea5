-------------------------------- MODULE Pipes --------------------------------
(***************************************************************************)
(* Lab 3 part 1 and execute_pipeline of project 1: programs connected by   *)
(* pipes.  A reader sees the end of its input once the pipe is empty and   *)
(* no process has its write end open; a writer to a pipe of which nobody   *)
(* has the read end open is killed by SIGPIPE.                             *)
(*                                                                         *)
(*   two_way        pipes_processes1.c: parent and child over two pipes    *)
(*   cat_grep       pipes_processes2.c: the parent itself becomes cat      *)
(*   cat_grep_sort  pipes_processes3.c: three children, three waits        *)
(*   quash          shell.c: two or three stages, any commands             *)
(*                                                                         *)
(* Pipe k leads from stage k to stage k + 1; in two_way pipe 1 leads to    *)
(* the child and pipe 2 back.  Process 0 is the parent, process k stage k. *)
(***************************************************************************)
EXTENDS Naturals, Sequences, FiniteSets, SequencesExt

CONSTANTS
  Lines,     \* lines of the file "scores"
  Capacity,  \* lines a pipe can hold
  MayFail    \* may fork and exec fail?

ASSUME PipesAssumption ==
  /\ Lines \in Nat
  /\ Capacity \in Nat \ {0}
  /\ MayFail \in BOOLEAN

VARIABLES
  shape,     \* which of the four programs
  programs,  \* the commands of its stages
  match,     \* the lines grep lets pass
  pc,        \* the next step of each process
  next,      \* the stage to be forked next
  fds,       \* the pipe ends each process has open
  pipe,      \* what is in each pipe
  mem,       \* what a program has read or made and not written yet
  eof,       \* has it read all it will read?
  out,       \* what has come out at the terminal
  failed     \* history: has a fork or an exec failed?

vars == <<shape, programs, match, pc, next, fds, pipe, mem, eof, out, failed>>
choice == <<shape, programs, match>>
data == <<pipe, mem, eof, out>>

Procs == 0 .. 3
Stages == 1 .. Len(programs)
Ends == {1, 2} \X {"r", "w"}

Scores == [l \in 1 .. Lines |-> Lines + 1 - l]

Filters == {"grep", "sort", "head"}

Init ==
  /\ \/ shape = "two_way" /\ programs = << >> /\ match = {}
     \/ /\ match \in SUBSET (1 .. Lines)
        /\ \/ shape = "cat_grep" /\ programs = <<"cat", "grep">>
           \/ shape = "cat_grep_sort" /\ programs = <<"cat", "grep", "sort">>
           \/ /\ shape = "quash"
              /\ \E f \in Filters :
                   \/ programs = <<"cat", f>>
                   \/ \E g \in Filters : programs = <<"cat", f, g>>
  /\ pc = [p \in Procs |-> IF p = 0 THEN "fork" ELSE "unborn"]
  /\ next = IF shape = "cat_grep" THEN 2 ELSE 1
  /\ fds = [p \in Procs |->
              IF p = 0 THEN {e \in Ends : e[1] < Len(programs) \/ shape = "two_way"}
              ELSE {}]
  /\ pipe = [k \in {1, 2} |-> << >>]
  /\ mem = [p \in Procs |-> IF p = 1 THEN Scores ELSE << >>]
  /\ eof = [p \in Procs |-> p = 1]
  /\ out = << >>
  /\ failed = FALSE

Go(p, s) == pc' = [pc EXCEPT ![p] = s]
Open(e) == \E p \in Procs : e \in fds[p]

\* A process that ends closes what it has open.
Die(p) ==
  /\ Go(p, "done")
  /\ fds' = [fds EXCEPT ![p] = {}]

-----------------------------------------------------------------------------
(* The parent: fork the stages, close the pipes, wait                      *)

\* After the fork of stage next.
ParentGoesOn ==
  CASE shape = "two_way" -> "write"
    [] shape = "cat_grep" -> "become"
    [] OTHER -> IF next < Len(programs) THEN "fork" ELSE "close"

\* A mutant: the parent closes a read end before its reader is forked.
ParentHoldsTheRest == fds[0] \ {<<next, "r">>}

\* What the parent has open after a fork: every end, until the last stage.
ParentHolds == fds[0]

Fork ==
  /\ pc[0] = "fork"
  /\ pc' = [pc EXCEPT ![0] = ParentGoesOn,
                      ![next] = IF shape = "two_way" THEN "read" ELSE "setup"]
  /\ fds' = [fds EXCEPT ![next] = fds[0], ![0] = ParentHolds]
  /\ next' = next + 1
  /\ UNCHANGED <<choice, data, failed>>

\* The parent of two_way returns; the others do not look at the result.
ForkFails ==
  /\ pc[0] = "fork"
  /\ MayFail
  /\ Go(0, IF shape = "two_way" THEN "done" ELSE ParentGoesOn)
  /\ fds' = IF shape = "two_way" THEN [fds EXCEPT ![0] = {}] ELSE fds
  /\ next' = next + 1
  /\ failed' = TRUE
  /\ UNCHANGED <<choice, data>>

CloseAllButOne == {<<1, "w">>} \* a mutant: a write end stays open
CloseAll == {}

Close ==
  /\ pc[0] = "close"
  /\ fds' = [fds EXCEPT ![0] = CloseAll]
  /\ Go(0, "wait")
  /\ UNCHANGED <<choice, next, data, failed>>

Wait ==
  /\ pc[0] = "wait"
  /\ \A p \in Procs \ {0} : pc[p] \in {"unborn", "done"}
  /\ Die(0)
  /\ UNCHANGED <<choice, next, data, failed>>

-----------------------------------------------------------------------------
(* A stage: dup2, close the rest, exec                                     *)

\* What is left open, as standard input and output.
Std(p) == {<<k, "r">> : k \in {p - 1} \ {0}}
            \cup {<<k, "w">> : k \in {p} \ {Len(programs)}}

Setup(p) ==
  /\ pc[p] = "setup"
  /\ \/ /\ Go(p, "run")
        /\ fds' = [fds EXCEPT ![p] = @ \cap Std(p)]
        /\ UNCHANGED failed
     \/ MayFail /\ Die(p) /\ failed' = TRUE
  /\ UNCHANGED <<choice, next, data>>

\* pipes_processes2.c: the parent becomes the first stage.
Become ==
  /\ pc[0] = "become"
  /\ \/ /\ pc' = [pc EXCEPT ![0] = "done", ![1] = "run"]
        /\ fds' = [fds EXCEPT ![0] = {}, ![1] = fds[0] \cap Std(1)]
        /\ UNCHANGED failed
     \/ MayFail /\ Die(0) /\ failed' = TRUE
  /\ UNCHANGED <<choice, next, data>>

-----------------------------------------------------------------------------
(* The programs                                                            *)

SortLines(s) ==
  LET order == CHOOSE p \in Bijection(DOMAIN s, DOMAIN s) :
                 \A i, j \in DOMAIN s : i < j => s[p[i]] <= s[p[j]]
  IN  [i \in DOMAIN s |-> s[order[i]]]

\* What a program keeps of a line it has read.
Keeps(program, s, l) ==
  CASE program = "grep" -> IF l \in match THEN <<l>> ELSE << >>
    [] program = "sort" -> SortLines(Append(s, l))
    [] program = "head" -> <<l>>

\* grep writes what it has before it reads on; head reads one line.
Read(p) ==
  /\ pc[p] = "run"
  /\ ~eof[p]
  /\ programs[p] # "sort" => mem[p] = << >>
  /\ pipe[p - 1] # << >>
  /\ mem' = [mem EXCEPT ![p] = Keeps(programs[p], @, Head(pipe[p - 1]))]
  /\ pipe' = [pipe EXCEPT ![p - 1] = Tail(@)]
  /\ eof' = [eof EXCEPT ![p] = programs[p] = "head"]
  /\ UNCHANGED <<choice, pc, next, fds, out, failed>>

EndOfFile(p) ==
  /\ pc[p] = "run"
  /\ ~eof[p]
  /\ pipe[p - 1] = << >>
  /\ ~Open(<<p - 1, "w">>)
  /\ eof' = [eof EXCEPT ![p] = TRUE]
  /\ UNCHANGED <<choice, pc, next, fds, pipe, mem, out, failed>>

HasOutput(p) ==
  /\ pc[p] = "run"
  /\ mem[p] # << >>
  /\ programs[p] = "sort" => eof[p]

Write(p) ==
  /\ HasOutput(p)
  /\ mem' = [mem EXCEPT ![p] = Tail(@)]
  /\ IF p = Len(programs)
     THEN out' = Append(out, Head(mem[p])) /\ UNCHANGED pipe
     ELSE /\ Open(<<p, "r">>)
          /\ Len(pipe[p]) < Capacity
          /\ pipe' = [pipe EXCEPT ![p] = Append(@, Head(mem[p]))]
          /\ UNCHANGED out
  /\ UNCHANGED <<choice, pc, next, fds, eof, failed>>

Sigpipe(p) ==
  /\ HasOutput(p)
  /\ p < Len(programs)
  /\ ~Open(<<p, "r">>)
  /\ Die(p)
  /\ UNCHANGED <<choice, next, data, failed>>

Exit(p) ==
  /\ pc[p] = "run"
  /\ eof[p]
  /\ mem[p] = << >>
  /\ Die(p)
  /\ UNCHANGED <<choice, next, data, failed>>

Stage(p) ==
  \/ Setup(p)
  \/ Read(p)
  \/ EndOfFile(p)
  \/ Write(p)
  \/ Sigpipe(p)
  \/ Exit(p)

-----------------------------------------------------------------------------
(* pipes_processes1.c: each side reads what the other has written.  A      *)
(* string is the parts it has been put together from.                      *)

ParentWrites ==
  /\ pc[0] = "write"
  /\ fds' = [fds EXCEPT ![0] = @ \ {<<1, "r">>, <<2, "w">>}]
  /\ pipe' = [pipe EXCEPT ![1] = <<"input">>]
  /\ Go(0, "read")
  /\ UNCHANGED <<choice, next, mem, eof, out, failed>>

ChildAnswers ==
  /\ pc[1] = "read"
  /\ shape = "two_way"
  /\ pipe[1] # << >>
  /\ pipe' = [pipe EXCEPT ![1] = << >>,
                          ![2] = pipe[1] \o <<"howard.edu", "second input">>]
  /\ out' = pipe[1] \o <<"howard.edu">>
  /\ Die(1)
  /\ UNCHANGED <<choice, next, mem, eof, failed>>

ParentReads ==
  /\ pc[0] = "read"
  /\ pipe[2] # << >>
  /\ pipe' = [pipe EXCEPT ![2] = << >>]
  /\ out' = out \o pipe[2] \o <<"gobison.org">>
  /\ fds' = [fds EXCEPT ![0] = {}]
  /\ Go(0, "wait")
  /\ UNCHANGED <<choice, next, mem, eof, failed>>

Parent ==
  \/ Fork
  \/ ForkFails
  \/ Close
  \/ Wait
  \/ Become
  \/ ParentWrites
  \/ ParentReads

AllDone == \A p \in Procs : pc[p] \in {"unborn", "done"}
Ended == AllDone /\ UNCHANGED vars

Next ==
  \/ Parent
  \/ \E p \in Stages : Stage(p)
  \/ ChildAnswers
  \/ Ended

Spec == Init /\ [][Next]_vars

\* The kernel runs every process.
FairSpec ==
  /\ Spec
  /\ WF_vars(Parent)
  /\ \A p \in 1 .. 3 : WF_vars(p \in Stages /\ Stage(p))
  /\ WF_vars(ChildAnswers)

-----------------------------------------------------------------------------
(* Properties                                                              *)

\* The lines of s that match, in their order.
Matching(s) ==
  LET from[k \in 1 .. Len(s) + 1] ==
        IF k > Len(s) THEN << >>
        ELSE (IF s[k] \in match THEN <<s[k]>> ELSE << >>) \o from[k + 1]
  IN  from[1]

\* What a program makes of its whole input.
Result(s, program) ==
  CASE program = "cat" -> s
    [] program = "grep" -> Matching(s)
    [] program = "sort" -> SortLines(s)
    [] program = "head" -> SubSeq(s, 1, IF s = << >> THEN 0 ELSE 1)

Expected == IF shape = "two_way"
            THEN <<"input", "howard.edu",
                   "input", "howard.edu", "second input", "gobison.org">>
            ELSE FoldLeft(Result, Scores, programs)

(* If every fork and exec succeeds, what comes out at the end is what the  *)
(* programs make of the file one after the other: no line is lost or late, *)
(* whichever process starts, ends or is killed first and however little a  *)
(* pipe holds; and nothing that comes out earlier is wrong.                *)
Composes ==
  /\ ~failed => IsPrefix(out, Expected)
  /\ ~failed /\ AllDone => out = Expected

(* Every process ends, also when a fork or an exec fails: each end that is *)
(* not needed is closed, so every reader sees the end of its input and     *)
(* every writer without a reader is stopped.                               *)
Drains == <>[]AllDone
=============================================================================
