# Operating-systems labs: TLA+ verification

The repository holds the programs of an operating systems course, in C: small
programs on processes, pipes, signals and shared memory, four projects (a shell,
a bank over a semaphore, a restaurant over a monitor, a chat server) and two
simulators (scheduling, memory management).  Each program is a system of its own;
none calls another.  This directory models the ones whose logic is hard to test -
threads and processes that share state - as TLA+ modules, checks them with TLC and
proves the main safety properties with TLAPS.

Paths below are relative to the root of the repository.

## 1. Inventory

| Program | State | Operations | What is hard | What makes it correct |
|---|---|---|---|---|
| **Ben's Chilli Bowl** `project-2--part-2…/BENSCHILLIBOWL` | a queue of orders, its counter, the next order number, the number handled; a mutex and two condition variables | `OpenRestaurant`, `AddOrder`, `GetOrder`, the cook's count, `CloseRestaurant`; threads of customers, cooks, main | shared signals, a signal outside the mutex, spurious wakeups, the end of the day, failing `malloc`, use after free | bounded FIFO, each order served once, no lost wakeup, all threads end before the restaurant is freed |
| **Chat server** `project-3…` | a user list, a room list, direct-connection lists; `numReaders`, `mutex`, `rw_lock` | twelve commands of a client thread, arrival, disconnect; `sigintHandler` | readers and writers over two plain mutexes, a handler on an interrupted thread, descriptors that are used again, names that change | exclusion, an open connection has its node, nothing left of who leaves, each command changes the lists as the help text says, messages reach exactly those who share a room or a connection |
| **Bank with a semaphore** `project-2---part-1…` | the balance in shared memory, a named semaphore, `child_pids` | roles Dad, Mom, student; the master forks, pauses, cleans up on SIGINT | kill in the critical section, inherited handler, signals during set-up | no lost update, balance in range, Ctrl-C ends everything and removes the names |
| **Strict alternation** `lab-3--part-2…` | `SharedMem[0]` (balance), `SharedMem[1]` (turn) | parent deposits, child withdraws, 25 rounds each | reads before the turn | turns alternate and exclude, both end |
| **Memory manager** `lab-8…/MMU` | a free list and an allocated list of blocks | allocate, deallocate, coalesce under three policies | long sequences of requests | the lists tile the memory, policies are followed |
| **Shell** `project-1…` | the foreground child's pid, the alarm, which handlers are still installed, children | built-ins, a command, a background job, pipelines, SIGINT and SIGALRM (10 s) | signals between fork, assignment and wait; handlers that are used up; interrupted waits; failing forks | the right process is signalled, every child is reaped, no alarm goes astray, the prompt comes back |
| **Scheduling simulator** `lab-6…/SchedSim` | a table of processes, the clock, remaining bursts | FCFS, shortest remaining time first, priority, round robin | arrivals in the middle of a pass, idle time, equal keys, burst 0 | waiting times are those of a schedule, SRTF is optimal, round robin is fair |
| **TCP client and server** `lab-4…` | a linked list, one client at a time | add, remove, get, length, print, exit | SIGINT in the middle of a list operation, indices out of range | the list survives any commands, the handler frees what is allocated |
| **Linked list** `lab-1…` | a linked list | thirteen operations | indices at both ends | each does to the sequence what its header says |
| **Pipes** `lab-3--part-1…`, and the pipelines of the shell | the open ends of every process, what is in each pipe | fork, dup2, close, exec, wait | who has which end open, a full pipe, a stage that ends early or never starts | the output is the composition, every reader sees the end of its input |
| **Signals** `lab-2--part-2…` | a flag, a counter of alarms | handlers, `pause` | a signal between test and `pause` | no alarm is slept through |
| **Fork and wait** `lab-2--part-1…` | process ids | fork, wait | order of output | every child is waited for |
| **Matrix** `lab-7…` | five matrices | a thread per block of rows, three phases | joins between phases | disjoint writes |
| **Function pointers** `lab-5…` | - | sorting by a comparison | - | sequential |

Interactions inside a program: the restaurant's threads meet only in the monitor;
the chat server's threads meet only in the lists, under the lock of
`server_client.c`, and in `sigintHandler`; the bank's processes meet in the
semaphore, the shared integer and signals; the alternating processes meet in two
shared integers; the shell meets its children in signals, wait statuses and pipes,
and its own handlers wherever it is; the list server meets its handler in the list.
The simulators are sequential.

`PROJECT.json` lists under `hazards` what is hard to test, at the line where it
bites, with the property that covers it or the reason why none does.

## 2. Modules

| Module | Models | Source |
|---|---|---|
| `OrderBook` | abstract: a bounded first-in first-out book, each order placed once, taken from the front, served once | - |
| `BensChilliBowl` | the monitor and all threads, one action per stretch of code between two synchronisation points | `BENSCHILLIBOWL.c`, `main.c` |
| `BensChilliBowlProofs` | eight theorems over two inductive invariants, one of them the refinement of `OrderBook` | |
| `SharedLists` | abstract: readers together or a writer alone | - |
| `ChatLock` | `start_read`, `end_read`, `start_write`, `end_write`, `init_default_room`, `sigintHandler`; a lock or unlock a step, two merged (below) | `server_client.c`, `server.c` |
| `ChatLockProofs` | five theorems, one of them the refinement of `SharedLists` | |
| `ChatDirectory` | abstract, per command: who is online and under which name, in which room, connected to whom, and who hears what | - |
| `ChatServer` | `list.c` and the commands of `client_receive`, one action per command | `list.c`, `server_client.c` |
| `MCChatServer` | symmetry and bounds for TLC | |
| `ChatServerProofs` | four theorems about any clients, one of them that the commands are those of `ChatDirectory` while the lists are in order | |
| `StrictAlternation` | both processes, step by step | `lab-3--part-2…/shm_processes.c` |
| `BankSemaphore` | the children's critical section step by step, the master's set-up, SIGINT and the clean-up in master and children | `project-2---part-1…/shm_processes.c` |
| `BankProofs` | both banks: eleven theorems over two inductive invariants and a lemma on signals | |
| `MemoryMap` | abstract: disjoint blocks given out and taken back | - |
| `MMU` | the two lists and the three requests | `lab-8…/mmu.c`, `list.c` |
| `MMUProofs` | five theorems, one of them the refinement of `MemoryMap`, and lemmas on sorting and merging a list | |
| `Shell` | main, the pipeline, both handlers and what the kernel does with the children | `project-1…/shell.c` |
| `ShellProofs` | four theorems about the shell and one about the pipes, each over an inductive invariant | |
| `Pipes` | who has which end open, and the programs at the ends | `lab-3--part-1…/pipes_processes1.c` to `3.c`, `execute_pipeline` of `shell.c` |
| `SchedSim` | the four algorithms, a loop turn a step | `lab-6…/schedsim.c`, `util.c`, `process.h` |
| `SchedSimProofs` | the waiting times, the fairness of round robin and the optimality of shortest remaining time first | |
| `LinkedList` | the list library as writes to a heap | `lab-1…/list.c` |
| `ListServer`, `MCListServer` | the server over that heap, a write a step, and its handler; symmetry | `lab-4…/serv.c`, `list.c` |
| `ListServerProofs` | five theorems: what every list operation does to every list, and the server with its handler | |

How they compose: `BensChilliBowl` implements `OrderBook`, `ChatLock` implements
`SharedLists` and `MMU` implements `MemoryMap`, each by an `INSTANCE … WITH` whose
specification is a PROPERTY of a run.  `ChatServer` implements `ChatDirectory`
command by command and only while its lists are in order, since the code lets them
get out of order (section 5): its PROPERTY says of each action which action of the
directory it is.  `ChatServer` takes a whole command as one step; `ChatLock` is why it may:
`Exclusion` makes a section between `start_write` and `end_write` atomic for
everyone else, and sections that only read commute.  `ListServer` extends
`LinkedList` and replaces the two loops in which the list of lab 4 differs.  `Shell`
has the processes of a pipeline and no data, `Pipes` the data and no signals; they
share the fork loop of `execute_pipeline`.

Definitions whose comment says "a mutant" are wrong on purpose.  No specification
uses them: they show that a property notices the bug.

### State and actions against the code

*BensChilliBowl.*  `pc[t]` is the next step of thread `t`.  A critical section is
two steps, `Lock` and the body; `pthread_cond_wait` releases the mutex and puts the
thread in `addWait`, `getWait` or `closeWait`; a signal sends one waiter, any, back
to taking the mutex, where it tests its condition again; a broadcast sends all.
The read of `order->order_number` after the unlock (`AddOrderReturn`), the signal
after the unlock (`GetOrderSignal`) and `free` (`FreeOrder`) are steps of their own
because the code does them outside the mutex.  A read of freed memory returns the
old value or `Junk`.  An order is the customer and the iteration that allocated it.

*ChatLock.*  A mutex is a Boolean: the default pthread mutex the program uses does
not stop a thread from unlocking what another locked, and the last reader does just
that.  `handler` is the thread SIGINT interrupts; that thread stands still until
`exit`.  Clients read or write again and again; what they do with the lists is in
`ChatServer`.  Two pairs of calls under the readers' mutex are one step: taking
`rw_lock` and releasing the mutex (`server_client.c:30-31`), and the count and the
unlocks of `end_read` (`:35-38`).

*ChatServer.*  `head` is the user list as a sequence of nodes, newest first, each
with its list of direct connections; duplicates in that list are kept because the
code removes one entry only.  `room_head` maps the rooms that exist to the sockets
in them.  A socket is a descriptor: the kernel gives it to the next client once it
is closed.  The name `guest<fd>` is represented by the descriptor itself.  A client may
log in under any name, also that of a guest who is there or is still to come, and may
drop its connection at any time.  `up` is FALSE once the server has followed a null
pointer.  `heard` is what is being sent in the last step.

*StrictAlternation.*  The steps of a round are the copy, the end of the spin, the
computation, the write and the hand-over.  The sleeps are left out: they change
nothing but the speed.

*BankSemaphore.*  Children are numbered in the order they are forked, so `1 .. idx`
are those whose pid the master has stored and `1 .. k - 1` those child `k` inherits
in its copy of `child_pids`.  A role's random choices are the set of balances it
may leave (`DadLeaves`, `MomLeaves`, `StudentLeaves`).  `pending` holds the
processes SIGINT has been sent to and whose handler has not started.  The loop of
`kill` and `waitpid` in the master's clean-up is one step.

*MMU.*  The lists are sequences; an insertion finds the first element at which the
loop of the code stops.  A request that fails leaves both lists alone.  `coalesced`
is a history variable.  `list.c` defines `list_get_from_front` twice (lines 249 and
379, with the same body), so the program does not compile as committed; the model
has it once.

*Shell.*  `spc` is the next step of the shell; a fork is a call and an assignment
because a signal may come between them.  `proc[p]` is what the kernel knows of a pid:
`forked` (still running the shell's code), `spent` (the same, its one SIGINT handled),
`running` and `deaf` (a program that SIGINT ends, or not), `zombie`, `none`, or
`other` for a process that is no child.  `caught` holds the signals whose handler
is still installed: `shell.c` defines `_POSIX_C_SOURCE`, for which glibc's
`signal` has System V semantics, a handler for one signal that does not
restart the interrupted call.  A line is a choice of command, background or pipeline; a line of nothing but `|`,
for which `execute_pipeline` has no stage, is left out.
`excused` is a history variable: the children nobody is going to wait for.

*SchedSim.*  A turn of the inner loop of an algorithm is a step, `t` and `rem_bt`
are the code's, `wt` the column it computes.  `ran` is a history variable, the units
of time in which each process ran.  `qsort` may leave equal elements in any order.

*LinkedList, ListServer.*  A node is an element of `Nodes`, `used` those that
`malloc` has given out.  An operation of the library is a sequence of writes
(`malloc`, head, next, `free`) and a return value; the loop that finds the place is
`NodeAt`.  In the server each write is a step, so that SIGINT may come in between;
freed nodes keep their contents, and freeing one again may crash or not.

*Pipes.*  `fds[p]` holds the ends that process `p` has open.  A program reads,
writes or meets the end of its input line by line; `head` stands for the programs
that stop reading early.  What the child of `pipes_processes1.c` does from its `read`
to its exit is one step, in which nobody else uses the pipes.  `failed` is a history variable.  What sort and grep make of
lines is written with a choice among rearrangements and with a recursive function,
not with `SortSeq` and `SelectSeq`, of which the prover knows nothing.

## 3. Runs

| Run | Question | Bounds, and why they are enough |
|---|---|---|
| `ben` | Does the monitor keep its queue and lose no wakeup, whatever the threads do, and does everybody go home? | 2 customers with 2 orders, 2 cooks, a queue of 2, one failing `malloc`, set-up that may fail, spurious wakeups. Two of each kind give a second thread that can steal a wakeup or the mutex; 4 orders over a queue of 2 fill it. |
| `ben_return` | Is the number that `AddOrder` returns that of the order? | violated, see 5. |
| `chat_lock` | Do two mutexes and a counter make a readers-writer lock, and does SIGINT at any step end the server? | 3 clients: a first reader, a later reader and a writer at once. |
| `chat_server` | Whatever clients do: who has a node, what brings the lists out of order, and what does each command do while they are in order? | 3 descriptors, 2 rooms, 4 names: those of the three guests and one more. At most 4 changes (`MaxChanges`) by clients that are there at the same time - an entry in a list of direct connections or a membership counts for one, a name that is not the guest's own for two - and no bound on how often they come and go: two direct connections, two logins, or one of each. Three clients are needed for two connections of one of them, for a bystander, and for a login under the name of a guest to come beside somebody who is connected. What was just sent is left out of the states that TLC tells apart (`Lists`): it decides nothing later. |
| `chat_stale` | Does a dropped connection leave nothing, also after login? | violated with two descriptors: login, then drop. |
| `strict_alternation` | Does each process write the account in its own turn, do the rounds alternate and balances stay in range, and do both end? | 4 rounds in place of 25: the balance reaches both ends of its range in 3. |
| `bank` | Is no update lost, and does Ctrl-C end everything? | Dad, Mom and one student, one amount each (50, 124, 40), chosen so that the balance 100 and therefore 224 is reached; SIGINT to the master or to the whole group, failing `calloc` and `fork`. |
| `mmu` | Do the lists tile the memory under any requests? | a partition of 6, sizes 1 to 3, 2 processes that may have several blocks each, three policies: up to six blocks in either list. |
| `shell` | Whatever signals, failures and pids come: is every child reaped, does each signal find its process, does the prompt come back? | 3 pids, so that a background job, a stage and a reused pid are there together; pipelines of 2 stages, the first of which may fail to fork. |
| `sched` | Are the waiting times those of a schedule, and do the algorithms keep their promises? | 3 processes, bursts 1 to 3 around the quantum of 2, arrivals 0, 1, 2 and 4, so that processes arrive together, in the middle of a slice and after an idle gap; 2 priorities for ties. Every file over these numbers is an initial state. |
| `list_server` | Do commands and library do what they mean for a sequence, and what does the handler find? | 4 nodes and indices from -1 to two beyond the end, 2 values for equal elements. The loops of the library differ for lists of none, one and more. |
| `pipes` | Is the output of a pipeline that of its programs one after the other, and does every process end? | 3 lines over pipes that hold one, so that writers block and the end comes in between; every choice of lines that `grep` passes; 2 and 3 stages; every fork and exec may fail. |

What stops: `chat_lock` does not check for deadlock, because the handler may really
hang there (section 5), and neither does `chat_server`, where a null pointer may end
the server.  Everywhere else a system that ends stutters (`Ended`,
`Exited`) and any other stop is an error.

Symmetry (descriptors, nodes) is used only in runs without liveness.

## 4. Fairness

- *Restaurant*: strong fairness of every customer and cook, weak fairness of main.
  The scheduler runs every runnable thread, and whoever waits for the mutex while it
  is released again and again gets it in the end.
- *Chat lock*: weak fairness of a client within a command and of the handler, and
  strong fairness of each lock step of a reader and of the handler, for the same
  reason.  pthreads does not promise this in writing; without it nothing is promised
  by any mutex.  Clients need not send commands.  Writers get no property: the lock
  lets readers overtake them.
- *Strict alternation*: weak fairness of both processes.
- *Bank*: weak fairness of every process and of signal delivery, strong fairness of
  `sem_wait`.  Every child sleeps up to 5 or 10 seconds between two turns, during
  which the semaphore is free.
- *Shell*: weak fairness of the shell once it has read a line, of the delivery of
  signals and of the timer.  No command has to end and nobody has to type.
- *Scheduling*: weak fairness of the one process there is.
- *Pipes*: weak fairness of every process.

## 5. What the runs show

The passing runs confirm the design of the monitor, of the lock, of the two banks,
of the memory and linked lists, of the four algorithms and of the pipelines.  Two
runs show the code doing other than its own documentation says:

- `ben_return` - `AddOrder` unlocks and then reads `order->order_number`
  (`BENSCHILLIBOWL.c:127`).  A cook may have served and freed the order by then.
  (`main.c:45` reads `order->menu_item` in the same way.)
- `chat_stale` - the clean-up of a dropped connection looks for the guest name
  (`server_client.c:101`), which login replaced.  Node, memberships and connections
  stay, and the next client with that descriptor has them.

One more disagreement with the documentation has no property, on either side.  Lab 1's
`list.h:59` says of `list_get_elem_at` "Starting index is 1.  Return -1 error", and
`list.c:168-178` counts from 0: `list_get_elem_at(l, 1)` is the second element, and
index 0, an error by the header, the first.  `main.c:33-43` expects
`list_remove_at_index` to count from 0, and `list_get_index_of` does too.  The module
`LinkedList` follows the code; `LibraryOnASequence` holds `list_get_elem_at` only to
what is true from either base: -1 outside the list, and the value `v` at the index
that `list_get_index_of` returns for `v`.

Several passing properties hold only under a condition that is part of their
statement, and the condition marks where the code does not do what one would like:

- `KeepsItsNode`: a client that arrives while its guest name is another's gets no
  node, because `insertFirstU` takes no name twice (chat `list.c:21-23`).  For
  example, descriptor 5 logs in as `guest6` before descriptor 6 arrives.  The first
  `connect` or `disconnect` of descriptor 6 to any name that is found then follows a
  null pointer (`server_client.c:160`, `:175`) and ends the server for everybody.
- `OnlyNamesSpoil`, `ImplementsDirectory`: two steps go by a guest's name and are
  exempted (`ByName`), since a login may have given that name to somebody else: the
  arrival just described, and the clean-up of a dropped connection, which finds
  nobody (run `chat_stale`) or takes somebody else's rooms and connections away.
  `OnlyNamesSpoil` says that no other step brings the lists out of order;
  `ImplementsDirectory` says what commands do while they are in order.  If two
  clients have one name, `connect` finds the newer node; the directory allows either.
- `SigintShutsDown`: the "graceful shutdown" (`server.c:115`) locks `rw_lock` on the
  interrupted thread; if that thread holds it, is one of the readers, or holds the
  readers' mutex that a reader needs to leave, the server hangs.
- `CtrlCEndsAll`: a SIGINT to the bank's master alone between `fork` and the
  assignment to `child_pids` misses that child.  If another child is killed inside
  the critical section at that time, the one that was missed waits in `sem_wait`
  for ever.
- `PolicyBeforeCoalesce`: coalescing returns the free list in address order
  (`mmu.c:146`), after which best fit takes the first block that fits, not the
  smallest, although `mmu.c:54` expects the order of the policy.
- `HandlersKnowTheChild`: after `waitpid` has returned, `foreground_pid` keeps the
  pid until line 192; a signal in between goes to whoever has it then.
- `ChildrenReaped`: a child whose wait a signal interrupted is never waited for.
- `HandlerFreesTheList`: SIGINT between `free(current->next)` and the cut of the link
  (lab 4 `list.c:100`), or while main itself is in `handle_exit`, frees a node twice.

Seen while modelling, and part of the models' behaviour though no run is about it:
a second Ctrl-C ends the shell, and so does the second alarm, since each handler is
used once; Ctrl-C at the prompt makes `fgets` fail, which ends the loop; pipelines
have no alarm; a line that is only `&` makes `handle_builtin` compare a null pointer;
both alternating processes copy the balance before they wait for their turn
(`shm_processes.c:74`, `:122`), so updates are lost in spite of the alternation;
first come first served serves the order of the file, not of the arrivals, and the
priority algorithm idles until its top process arrives though others are ready;
a negative
index makes `list_get_elem_at` of lab 1 return -1 and that of lab 4 the first element;
after a failed `malloc` in a customer (`main.c:33`) the cooks wait for ever for the
missing order; the bank's children inherit the clean-up handler that the comment
reserves for the master; the comment on ties in `list_add_descending_by_blocksize`
(`list.c:168`) contradicts its comparison (`list.c:185`); and the chat server as
committed uses `delimiters` and `server_MOTD` in `server_client.c` without a visible
declaration.

## 6. Proofs

Each theorem is stated for every value of the constants that satisfies the named
ASSUMEs of its module, which the runs evaluate.

- **BensChilliBowlProofs**: two inductive invariants.  The first gives `TypeOK`,
  `BoundedBuffer`, `NumberedInOrder` and `OneOwner`.  They are inductive only together
  with facts on the program counters: whoever is in a critical section owns the mutex
  (so the full test still holds when the order is added), an order that a customer has
  not added yet is neither in the queue nor with a cook nor freed (so it enters once),
  and a customer's counter says which of its orders have been allocated.  The second,
  `Inv2`, stands on the first and gives `OrdersAccountedFor`, `CloseIsQuiet` and
  `NoLostWakeup`.  It says that the numbered orders are those in the queue, with a
  cook or freed, and that `next_order_number` counts them (so "all received" means
  that none is on its way); that a cook goes home only when the queue is empty and
  all are received; that behind a join the joined threads have returned; that a cook is
  awake while orders wait, since each signal comes before the next sleep; and that,
  while a customer sleeps, `MaxSize <= current_size + |InKitchen| + |OnTheWay|`: every
  free place is known to a cook that has still to signal or to a customer about to
  look.  This last inequality is why one signal per order is enough.  The two
  invariants together give the refinement `Spec => ImplementsBook`: adding, taking and
  counting an order are the three steps of `OrderBook`, the rest stutter.  The sets of
  threads are finite and there is at least one cook (`NUM_COOKS`, `main.c:13`).
- **ChatLockProofs**: `TypeOK`, `Exclusion`, `CountIsReaders`, `LockedIffInside`
  and the refinement `Spec => Lists!Spec`.  The strengthening says who holds
  `mutex` at each step, that the counter is the cardinality of the counted threads
  (hence `numReaders = 1` means that the others are gone) and when `rw_lock` is
  locked; the set of clients need not be of any particular size, only finite.
- **BankProofs**: of the bank with a semaphore, `TypeOK`, `MutualExclusion`,
  `NoLostUpdate`, `BalanceInRange` and `NoStoredChildSurvives` for any number of
  children.  `NoLostUpdate` is what makes the range inductive, and needs the exclusion;
  one lemma covers all the signal steps, which only send children out of the critical
  section.  That the children stored stay dead is inductive by itself, given the types.
  Of strict alternation, which the module instantiates as `Turns`, `TypeOK`,
  `MutualExclusion`, `StrictlyAlternates` and `BalanceInRange` for any number of rounds
  and any amounts the code may draw.  The range needs the local copies in the
  invariant, since a stale copy is written back.  An instance does not assume what its
  module assumes, so each of these theorems has `Turns!StrictAlternationAssumption` as
  its premise.

- **ShellProofs**: `TypeOK`, `ChildrenReaped`, `AlarmIsForTheForeground` and
  `HandlersKnowTheChild` for any set of pids and any length of pipeline.  The
  strengthening says, at each step of the shell, whom `foreground_pid` (and before it
  the result of `fork`) names and which children are still awaited: the stages in
  `pids`, or the one foreground command.  One lemma shows that the kernel and the
  signals turn no child into a stranger, so only the forks and waits matter.
  Of the pipes, which the module instantiates as `Pipeline`, `Composes` for any
  file, any lines that match, any filters and any capacity
  (`Pipeline!PipesAssumption` is the premise).  The invariant (`Piping`) is an
  accounting (`NothingLost`): what has come out and what is still due make up the
  goal, where a stage's due (`Owes`) is what its program would make of the lines it
  holds, those in the pipe to it and those the stage before it still owes.  Reading
  moves a line from the pipe into the program, which needs that grep and sort can
  take their input line by line (`KeptInTurn`, `SortedInTurn`; sorting is unique,
  `OneOrder`), writing moves the first line due into the next pipe, and an end of
  input is seen only when nothing is to come.  This last fact, and that nobody is
  killed who is still heard, need the second half (`EndsOpen`): the parent has every
  end open until it has forked all stages, a stage has the ends it uses, and a stage
  that is done has nothing left, or the next stage is done too.

- **ChatServerProofs**: `TypeOK`, `KeepsItsNode`, `OnlyNamesSpoil` and
  `ImplementsDirectory` for any descriptors, rooms and names, with no bound on the
  lists and no premise about the clients: they may log in under any name and drop
  their connection at any time.  `KeepsItsNode` needs the types only, and a lemma for
  each list operation on which nodes it leaves.  `OnlyNamesSpoil` is the step
  `InOrder /\ ~ByName => InOrder'` for each action.  For the proof `InOrder` is
  restated as `ListsInv`: the user list has one node for every open descriptor and
  no other, direct connections are in both nodes or in none, a list of direct
  connections has each peer once (its owner may be there twice, because connecting to
  oneself adds both ends), and the room lists name open descriptors only.  Without
  that tidiness `DmMutual` is not preserved: a disconnection removes the first entry,
  and a second one would stay on one side.  `ImplementsDirectory` maps the lists to
  who is online, under which name, with which friends and in which rooms; each list
  operation on lists in order is shown to change these four views as `ChatDirectory`
  says, and the node that `findU` finds to be that of somebody who has the name.
- **MMUProofs**: `TypeOK`, `Tiling`, `PolicyBeforeCoalesce`, `CoalesceServesAll` and
  `Spec => ImplementsMap` for any partition, processes and sizes.  The invariant: the
  blocks of either list are pairwise separate, an address is held by the free list
  just if it is not held by the other one, and until the first coalesce request the
  free list is in the order of its policy.  `Tiling`, which counts holders, follows
  from it.  A coalesce request sorts with one fold and merges with a loop; what these
  do is proved over the whole list by induction on its length: the sorted list holds
  the same addresses in ascending order (`SortIs`), and the merged one the same
  addresses in blocks with gaps between them (`MergeIs`).  So a run of free addresses
  is inside one block, which is `CoalesceServesAll`.
- **SchedSimProofs**: `TypeOK`, `WaitsMeasured`, `RoundRobinFair` and `SjfOptimal` for any
  file and quantum.  `WaitsMeasured` needs, at every turn, that nobody has run before its
  arrival, beside another or after now, and that what has run and what remains make up
  the burst; a finished process has its waiting time by the formula at its last unit,
  and the formula is turned into a count of units waited at the end.
  `RoundRobinFair` needs a second invariant on top: a process that waits has waited
  for at most a quantum for each process visited since its own last visit
  (`WaitsItsTurn`), also when it arrives behind the index in the middle of a pass, and
  a pass that is still `done` has found nobody ready, so no time goes by while anybody
  waits.
  `SjfOptimal` is an exchange argument over schedules, that is functions from time to
  the work each process has left.  A third invariant, `SumsInv`, says that every
  `total_wt[k]` is the sum of the waiting times of a one-processor schedule of the
  file, and that the second schedule always runs a ready process with least left.  Such a
  schedule stays ahead of any other: at every time, whichever arrived processes are
  chosen in the other schedule, it has as many of them with no more work left in total
  (`Ahead`).  A unit of work keeps this because the running process can be exchanged
  for one that has at least as much left, and an arrival brings the same burst to
  both.  Hence it has finished at least as many processes at every time; the sum of the
  ends counts the unfinished processes over time, so it is no larger, and neither is
  the sum of the waits.
- **ListServerProofs**: `TypeOK`, `CommandsOnASequence`, `HandlerFreesTheList` and
  `LibraryOnASequence` for any nodes, values, indices and sequences of commands.  A list
  is a function `l` on `1 .. m` whose nodes are distinct and that the head and the next
  pointers follow (`Chain`); it is tidy if nothing else is in use.  A chain has at most
  as many nodes as the heap, so the recursive functions by which the model follows the
  pointers come to its end, and what they compute can be read off `l` (`NodeIs`,
  `LengthIs`, `ElementsIs`).  Every operation then is one of three: it links a new
  node in behind the first `j`, cuts the `j`-th out, or changes nothing; the places `j`
  that the code computes for an index are shown to be those of `Inserted` and
  `Without`.  That is all `LibraryOnASequence` and half of the server: the invariant
  adds, for an operation whose writes are still to come, that they make the list that
  the command means (`Underway`), and that in between all but one of the nodes in use
  are on the chain.  The exceptions in `HandlerFreesTheList` are needed there:
  `remove_back` frees its node while the chain still leads to it.  The heap is finite
  (`HeapAssumption`).

Induction over numbers, over the length of a list and over sets of processes, is done by hand in these:
a counterexample has a least one (`LeastNat`, from the well-foundedness of `<` on
Nat), and the least one is refuted.

Proved and no longer checked by a run of their own, because a stronger property of
the run implies them on its instance or the proof covers every instance: `TypeOK` of
the restaurant, the chat lock, the chat server, both banks and the shell, `NumberedInOrder`,
`Exclusion`, `CountIsReaders` and `MutualExclusion` of the bank with a semaphore.

Only model-checked: every liveness property and every deadlock check (fairness and
ENABLED are out of the prover's reach).  Every other property of a passing run has
its theorem.

## 7. Plan

Done: the restaurant, the chat server's lock and lists, strict alternation, the bank,
the memory manager, the shell, the scheduling simulator, the linked list with the list
server, the pipes, and the proofs of section 6, among them the refinements.
What is open is listed next.

Not modelled, and why: the user-visible text, parsing of command lines and input
files, and sockets are input and output around the logic.  The signal programs of lab
2 and the fork programs have a handful of states each; the threads of the matrix
program write disjoint rows and are joined before anything is read; the semaphore
example and the function-pointer exercises have no behaviour of their own.
Malformed requests (sizes of 0 or less, bursts of 0) and restarts after a kill -9 are
excluded by the assumptions named in the modules.
