# A TLA+ model of the course's deadlock detectors, mutexes and processes

The repository collects the programs of an operating systems course: generations
of deadlock detectors (`src/z_atividade/projeto`), mutexes made from futexes and
from Peterson's algorithm, producers and consumers, and exercises on processes,
paging and file systems. This directory models the parts with logic of their own,
checks them with TLC and proves the most important results with TLAPS.

Paths below are relative to `src/`; `projeto/` is short for `z_atividade/projeto/`.

## Inventory

| Component | State | Operations | What is hard | What makes it correct |
|---|---|---|---|---|
| lockdep core (`projeto/lockdep/src/lockdep/lockdep_core.c`; copies in `projeto/hub`, `lockdep_core_sh.c`) | registry of locks, their children (the dependency graph), `current_held_lock`; one stack of held records per thread | `lockdep_acquire_lock`, `lockdep_release_lock`, the report | edges come from the head of a stack only; releases in any order; recursive mutexes lose all records at once | no deadlock goes unreported; no lock is accused without a cycle of the nesting; no dangling reference |
| lockdep interposer | `in_interpose` | `pthread_mutex_lock`, `_trylock`, `_unlock` | record and real call are two steps, in a different order in each function | the mutexes behave as without it |
| lockdep cycle search (`has_cycle`, `print_cycle`) | marks, the path, the C stack | one search per new edge | marks are not reset after a cycle; only the path is remembered | exact answers, no stale mark, a true cycle printed |
| gois detector (`projeto/gois/src/{lockdep,graph,interpose}`) | graph, held stacks | asks first, refuses, exits; destructor | asks from the head of the stack only; exit while others run, through the interposer itself | no deadlock between threads; a refusal has a nesting before it; stacks match the mutexes; exit ends |
| gdlock detector (`projeto/gdlock`) | wait-for graph, owners, waiters | hooks before and after each pthread call | owner read outside the meta lock; edges moved without asking | a report is a deadlock; the ways past it are known |
| ptrace monitor (`projeto/gois/src/ptrace`) | threads, locks, owners, order of locks of another process | system call entry and exit, analysis, attach | only contended locks make system calls; one thread is followed | owners and order stay consistent; what each test can tell; it ends |
| ptrace backtraces (`backtrace.c`) | frames of stopped threads | unwind, symbols, deadlock test | guesses from names | it tells the threads that wait for a lock |
| futex mutexes (`e_pthread/e92...`, `e93...`, `z_atividade/tarefa8`) | the word, the kernel's queue | enter, leave | a wake between the failed exchange and the wait; unlocks that wake nobody; a missing timeout argument; spinners that overtake | exclusion, no lost wakeup, everybody gets it |
| counting programs, Peterson's algorithm (`e_pthread`, `tarefa5`, `tarefa7`) | counter, `turn`, `interested`, store buffers | enter, add, leave | lost updates; stores that wait in a buffer; a timeout that enters anyway | exclusion, bounded overtaking, bounds of the result |
| producer and consumers (`e_pthread/e94_produce_consume`, `tarefa9`) | ring, indices, count, semaphores, conditions | insert, remove | several consumers; signals to one of several waiters | a bounded buffer; no signal lost; all is consumed |
| processes and pipes (`c_fork`, `tarefa3`, `tarefa4`, `tarefa6`) | processes, pipe ends, stdio buffers | fork, wait, kill, execve, dup2, read to end of file | failed forks kept as process -1; a write end left open; text copied by fork | the parent ends, nothing is left running, the output is in order |
| paging exercise, MIFS readers, `f_ipc`, `gptrace`, `ld_ptrace.c`, `pthread_structures.c` | | | | see *Not modelled* |

Interactions: the interposers call their core under one mutex, the cores call the
search or the graph library; programs call the interposer in place of the C
library. The ptrace monitor feeds its tracker from the system calls of another
process. The counting programs and the producers call a mutex around their shared
variables. The detectors share no code at run time.

## Plan

The order in which the project grew, the most important behaviour first: (1) lockdep,
its promise `DeadlockMonitor`, the refinement and the search; (2) the futex mutexes
and their promise `CriticalSection`; (3) the gois detector; (4) gdlock over the list
library; (5) the ptrace monitor and its backtraces; (6) the counting programs and
Peterson's algorithm; (7) producers and consumers and their promise `BoundedBuffer`;
(8) processes; (9) lockdep's lists and report. All are done. What would come next:
mutexes that are destroyed and threads that end in `Lockdep` and `Gois`.

## Modules

| Module | Models | State and actions |
|---|---|---|
| `LockGraph` | what a search of a lock graph computes, as sets | `has_cycle(E, l)`: a set of locks around `l`, each with a child in the set; `Reaches` |
| `DependencyGraph` | what the detector and its search share | the edges |
| `Lockdep` | `lockdep_core.c` under `pthread_interpose.c` over real mutexes | see below |
| `LockdepLists` | the same calls on the linked lists of hub's copy, with the report | each step of `Lockdep` updates the lists beside the sets |
| `LockdepClaims` | a sentence of `lockdep.h` the code does not keep | |
| `DeadlockMonitor` | what an interposed detector promises | `Ask` is told if it completes a deadlock; `Get`, `Take`, `Give` are plain mutexes |
| `LockdepRefinement` | the mapping of `Lockdep` to it | a thread waits while it is in the real lock; told is the answer `false` |
| `LockdepDfs` | `has_cycle` call by call | `frames` is the C stack, each frame the children not looked at yet; `was_visited`, `cycle_path`, `printed` |
| `Gois` | the detector that refuses | as `Lockdep`; `lockdep_mutex` is a lock beside the program's; `process` is running, exiting, cleaning, cleaned or ended; `nested` remembers which mutexes a thread owned when it was let have another |
| `GraphLists` | `graph.c`: nodes and edges as lists, newest first; the recursive search | operators only; `ListsAreSets` says that they compute what the sets of `Gois` and `Gdlock` do |
| `Gdlock` | `approach_1.c` and `hook.c`, with the graph as sets | one action per section under `meta_lock`, per real call, and for the read of the owner outside it |
| `LockTracker` | `lock_tracker.c` | what it is told: register, wait, acquire, release, unregister; the tests for deadlock |
| `PtraceMonitor` | `main.c`, `ptrace_attach.c`, `syscall_intercept.c` beside a target | `mon` is where the loop is, `tpc` where each thread of the target is; `driver` puts any other caller in place of the loop |
| `Backtrace` | `backtrace.c`, asked in every state of `PtraceMonitor` | operators only |
| `CriticalSection` | what a lock promises | one thread inside, a counter that only grows |
| `Futex` | the futex call, the exchange, the counting threads | `word`, `sleeping`, `pc`, `seen` (the value loaded for `shared_counter++`) |
| `Mufutex`, `EconomicFutex`, `SpinFutex` | the three futex mutexes | one action per atomic operation or system call; with `limit = 0` `SpinFutex` is `Mufutex` |
| `Counting` | 25 counting programs | `program` says which; `memory` and `buffer` (store buffers), one action per load, store or atomic operation |
| `BoundedBuffer` | what producer and consumers promise | the numbers 1, 2, 3... in order, each to one consumer |
| `ProducerConsumer` | their nine programs | `program`; one action per test, access of the ring and call |
| `Forks` | the programs of `c_fork` and `fork_pid.c`, as sequences of instructions | `text` in the buffers of stdio, `output`, who has waited for whom |
| `Processes` | `spawn.c` and the pipe of `tarefa4`; extends `Forks` | where `main` is; the state of each process it starts; the ends of the pipe |
| `*Proofs` | the theorems; which module they are about is said below | |
| `MC*` | constants for TLC | |

Before some definitions stands a *faulty variant* of it: the same definition with a
plausible mistake. Nothing uses them; `PROJECT.json` lists, for each property, a
variant that breaks it, which shows that the property depends on that line of code.

### The detectors

Every function of the lockdep and gois cores runs under `lockdep_mutex` from its
first to its last access to shared state, so a call is one step. The real pthread
calls are steps of their own, in the order of each interposed function; lockdep
records before it locks, after a trylock, and after an unlock, and its
`pthread_mutex_lock` ignores the answer.

A held stack is a set of records with stamps in the order of insertion; the newest
is the head of the list. `NextStamp` picks the least free stamp, so that `MaxHeld`
bounds the history of one stack and not the length of the run. `Nesting` says which
locks the program may ask for while it holds which; threads unlock what they own,
in any order. `LockdepLists` shows (`ListsAgree`) that the lists of the code, walked
and unlinked as it does, hold what these sets say, and that the report tells of it.

gois asks whether the head of the stack can be reached from the new lock, and adds
the edge only if not; a refused lock calls `exit`. The destructor that `exit` runs
calls `lockdep_cleanup`, whose `pthread_mutex_lock(&lockdep_mutex)` is the interposed
one: it is a request of the detector about its own mutex, with the stack the exiting
thread leaves behind. `lockdep_destructor` is that request, with its search, edge and
record, or its refusal; `DestructorLocked` the real lock; `DestructorCleaned` frees
graph and stacks and unlocks (the graph is gone, so the release is not noted). The
other threads go on meanwhile; calls of the core need `lockdep_mutex` to be free.
gdlock adds a thread that
finds an owner to the list of waiters and asks for a cycle in the wait-for graph; the
next owner takes over the edges of the waiters after it has the real lock. The tracker
of the ptrace monitor keeps both an order of locks and owners; it is driven by the
loop of `main.c`, which follows `target_pid` alone, or by any caller of its header.
The target takes a free mutex without a system call, as the C library does.

### Mutexes and counters

`FUTEX_WAIT` compares and queues in one step; a thread taken off the queue returns
in a step of its own, so everything can happen in between. In `e93` the system call
gets three of its four arguments: the timeout is what a register happens to hold,
hence `WaitFails`, which may end a wait, or refuse it, at any time; `e91` passes no timeout
either and has its `WaitFails` in `Counting`. In the futex modules atomic operations are sequentially consistent; the orders weaker than that
which the code asks for do not differ on x86. `Counting` is about the accesses that
are not atomic, and there every processor has a store buffer. Weak exchanges may fail
for no reason in `SpinFutex`; in `ProducerConsumer` they do not, as on x86.

### Producers and processes

The consumers of a run are any subset of `Consumer`, all there from the start. Numbers
stop at `MAX_ITEMS`. `main` of the timed programs may return at any time and ends the
process. In `Forks` and `Processes` a call (`fork`, `malloc`, `mkfifo`, `dup2`, `execve`,
`read`) fails at most `MAX_FAILURES` times in a run; `Failed` is the -1 the programs then
keep. Output is a sequence of lines with the process that wrote them.

## What the runs check

| Run | Instance | Shows |
|---|---|---|
| `any` | 2 threads, 2 mutexes (one recursive and tried), any nesting, histories of 3 | `OlderReachesNewer`, `OwnerReferenceLive`, `NoSilentDeadlock`, `ListsAgree`; the refinement `ImplementsMonitor`; `TypeOK` |
| `alarms` | 2 threads, 3 mutexes, all tried, two of them nested in any order, the third in one of these | `NoFalseAlarm` |
| `search` | graphs over 3 locks, any series of searches | `SearchIsExact`, `NoStaleMarks`, `ReportIsCycle` |
| `futex` | 3 threads, 2 rounds, up to 2 spins; the two-state and the spinning mutex | it implements `CriticalSection` (`GuardsTheCounter`); `NoLostWakeup`; all finish |
| `economic` | 3 threads, 2 rounds | the same for the three-state mutex |
| `counting` | 25 programs, up to 3 threads, 2 counts each | `GuardsTheCounter` for those with a lock or fenced; `PassedOnce`; `CountedAtTheEnd`; all finish |
| `gois` | 2 threads, 3 mutexes (one recursive and tried) and `lockdep_mutex`, histories of 3 and the destructor's record | `OnlySelfDeadlocks`, `RefusalHasPrecedent`, `StackIsWhatIsOwned`, `RecordsLive`, `ExitEnds` |
| `gdlock` | 3 threads, 2 mutexes, one recursive, depth 2 | `ReportIsDeadlock`, `NoUntoldCycle`, `SilentOnlyWhenUnseen` |
| `ptrace` | 3 thread numbers (2 threads in the target), 2 locks, 2 recursions | `OrderIsAcyclic`, `HolderIsOwner`, `WaitCycleIsExact`, `FindsNothing`, `BacktraceTellsWaiters`, `EndsIfTargetStops` |
| `producers` | 9 programs, ring of 3, up to 2 consumers, 4 numbers, 1 spurious wait | `IsBoundedBuffer`, `SignalsReachSleepers`, `AllConsumed` |
| `processes` | `np = 1` (a part forks two workers), 1 observation, 4 failures, 3 blocks through a pipe of 2, 2 repetitions | `CleansUp`, `OutputIsOrderly`, `MainEnds` |
| `prevents` | 2 threads, 2 mutexes nested both ways | the counterexample to `lockdep.h:10-12` |

Why the bounds are enough to be interesting. Two threads and two locks make the
classic deadlock, self deadlocks, relocks, out-of-order releases and refused
trylocks; histories of three records hold the two locks and a relock; gois has a
third lock for paths of two edges. Three threads and two rounds give a mutex a
holder, a sleeper and a newcomer, and each of them a second chance. gdlock needs a
third thread for a next owner that takes over a waiter. Two counts of three threads
lose additions in every way that more do. A ring of three places is empty, half full
and full, and four numbers go around it; two consumers compete for a number or a
signal. Three thread numbers let a thread end as an owner and others come after it.
Four failures let the observer and the `malloc` of a part fail, and after it the
observer and a worker of the next, which is the first way to a wait for workers that
were not killed yet. The other exception in `MainEnds`, a wait for a renicer that
could not be forked, takes a fifth failure with `np = 1` and four with `np = 0`;
`np = 2` with three failures, `np = 1` with five and `np = 0` with four were checked
too, with the same result. The theorems have no bounds.

`gdlock` explores the whole state space and treats the threads alike (`SYMMETRY`; all
its properties are invariants); it also evaluates `ListsAreSets`, which compares the
lists of `graph.c` and their search with sets, for every list of up to five different
edges over three nodes. `any` and `alarms` use the symmetry of threads with safety
properties only.

Deadlock checking is off where the programs really stop: the detector runs with free
nesting (their programs deadlock, and histories end at `MaxHeld`), gois and the ptrace
monitor (whose processes end), the processes. It is on for `search`, the
futex mutexes, `counting` and `producers`.

Fairness is weak fairness of what the scheduler runs, and never of a failure, a
spurious wake or a choice among sleepers. Futexes and counting: each thread's own
steps (`Scheduled` in `Counting`, without `WaitFails`), and store buffers that drain. Producers: each thread's steps; a wait for a
condition need not end without a signal, and the programs that poll under an unfair
lock make no promise (`AllConsumed` leaves them out). Processes: the steps that do
not fail, of main, of the processes it started and of the kernel. gois: the
steps of the destructor, for each thread in `exit`, and the end of the process; of
the other threads' calls nothing is assumed, since none holds `lockdep_mutex` from
one step to the next. ptrace: the
monitor's own steps; nothing is assumed of its target. The detectors' other
properties are safety.

### Where the code and its comments part

- `prevents`: `projeto/lockdep/src/include/lockdep.h:10-12` promises to prevent the
  acquisition that would lead to a deadlock; `pthread_mutex_lock` ignores the answer.
- After a refused trylock the lock stays on the stack of a thread that does not hold
  it (`lockdep.h:6-7`: "a stack of currently held locks"); the first unlock of a
  recursive mutex drops all its records; taking one again is answered as a deadlock.
  None of these breaks `NoSilentDeadlock`: a lock that was taken twice lies on a cycle
  of the graph for good, and every later request of it is answered `false`.
- `projeto/gois/src/tests/t07_recursive_locks.c:66` says of a thread that
  takes a recursive mutex five times "This should succeed for all recursive calls".
  The second request gives the mutex an edge to itself (`lockdep_core.c:155`; no path
  was there before it); the third finds it, is refused and ends the process, although
  no order of locks was broken. `RefusalHasPrecedent` has a part of its own for this
  case (a thread that owns the mutex and asks again, after it was let be taken twice),
  which the run `gois` reaches; refused requests do not count as nestings in it.
- `pthread_mutex_timedlock`, which `tests/t09` of lockdep uses, is not interposed.
- `projeto/gois/src/ptrace/README.md:103`, `:129` and `:136` offer to find existing
  deadlocks in a process. `FindsNothing`, proved: the analysis asks a tracker that was
  told nothing, and the loop follows one thread only. The backtraces that would tell
  more (`BacktraceTellsWaiters`) are never asked for (`main.c:249`, "TODO").
- gdlock reports a recursive mutex with a static initialiser when its owner takes it
  again, and edges to an owner that was wiped out are never removed: hence the
  conditions `TypesKnown` and `~overwritten` of `ReportIsDeadlock`.
- `spawn.c` hands the -1 of a failed fork to `kill` and `waitpid`; hence the conditions
  of `CleansUp` and `MainEnds`. A `waitpid(-1)` returns with any child that has ended
  and was not waited for. `main` waits forever where there is none, and all that run are
  workers of the part, which are killed after the wait: in part 1 if its observer could
  not be forked, and in a later part if, besides, the parts before it left no such child
  (part 1 returned without memory at `spawn.c:217-221`).

## What is proved

The theorems hold for any sets of threads and locks, finite or not, and for any
bounds, except that the buffers and the counting programs number their threads (any
number of consumers; two to four threads that count, which is what the programs have)
and that `WaitCycleIsExact` counts threads: they are finitely many in every reachable
state.

- `LockdepProofs`: the invariant `IInv` and its parts `TypeOK`, `OlderReachesNewer`,
  `OwnerReferenceLive`, `NoSilentDeadlock`, `NoFalseAlarm`. The argument: a held
  record leads, in the graph, to every later one, because each push adds an edge from
  the head (`OlderReachesNewer`); the request of a thread about to sleep is at its
  head (`RequestOnTop`), so each thread of a circular wait contributes a path from the
  lock it owns to the one it waits for; the last of them to ask found the cycle
  closed. Recursive mutexes need `OwnedIsRecorded` and `RelockIsCyclic`: an unlock
  that is not the last may drop a record too many only when the lock lies on a cycle
  already. `NoFalseAlarm` rests on `OrderlyRecords`: edges outside the nesting of the
  program, and records of what is not held, are of locks that lead to a cycle of it.
  `has_cycle` and `Reaches` are defined by sets of locks, so that the facts about paths
  are proved without induction.
  From the same invariant follows the refinement `Spec => ImplementsMonitor`. For the
  search the module proves `SearchExact`, `MarksAreCleared` and `ReportsAreCycles`: the
  frames follow edges, the marks are those of the path, and every child a call has
  behind it leads to no cycle.
  `ListsAgreeAlways` is about the lists: `ListsInv` gives every stack its stamps in
  descending order (`StacksStamped`), keeps the children of a lock without repetition
  and equal to its edges, and all of them in the registry (`AllRegistered`), so that
  the search visits finitely many locks. That is what makes its recursion a function:
  a visit prolongs the path by a lock that is not on it, so the locks still unseen grow
  fewer (`SearchExists`). What it answers is a path that closes (`SearchFindsPaths`),
  and it answers if there is a set of locks each with a child in it (`SearchFinds`).
  `ContextsKept` says why a release finds its thread: who owns a mutex without having
  recorded it is inside a trylock. `ListsSpec` implies `Spec`, so the lists inherit
  all that is proved of the sets.
- `FutexProofs`: mutual exclusion, no lost wakeup (`NoLostWakeup`, `NoWakeupSkipped`)
  and `GuardsTheCounter` (the refinement of `CriticalSection`) for the three mutexes.
  The word tells whether there is a holder and the value the holder loaded is current
  (`Sound` of `Futex`, common to all); for e93, a thread marks only a word it saw locked
  (`MarksLocked`). `SpinFutex` contains `Mufutex`, and its invariant is the one proved.
- `CountingProofs`: `PassedOnce`, `CountedAtTheEnd` and `GuardsTheCounter`, over store
  buffers. With a region, the invariant says what a buffer may hold where its thread is
  (`BuffersSound`): nobody enters before its own stores are in the memory, who waits at
  the test has given the turn away, and what was counted inside may be on its way only
  while nobody else reads it (`CounterSound`). Without one, it bounds every copy of the
  counter, in buffers, memory and threads (`RaceSound`), from which the bounds of the
  printed result follow.
- `ProducerConsumerProofs`: `IsBoundedBuffer` and `SignalsReachSleepers`. One thread is
  inside the lock; the ring holds, from `remover` on, the numbers after the last one
  consumed (`Filled`), and who is at the ring may use it (`AtRing`); free slots and
  numbers on their way add up to the ring (`SlotsCount`).
- `GdlockProofs`: `NoUntoldCycle`, `SilentOnlyWhenUnseen`, `ReportIsDeadlock`. Every
  edge says what the records say (`EdgesAreCurrent`) until an unlock wipes out an owner;
  the edges that still do (`CurrentEdges`) stay acyclic even then. `pml_pos` moves the
  edges of the waiters to the next owner without a search: that is safe because the next
  owner is back from the real lock, has no edge of its own any more, and is a sink. In a
  deadlock of threads that are not `unseen` every thread has its current edge, so that
  they would close a cycle; a report is a path of such edges, and each is of a thread
  that is blocked (`WaiterIsBlocked`).
- `GoisProofs`: `OnlySelfDeadlocks`, `RefusalHasPrecedent`, `StackIsWhatIsOwned`,
  `RecordsLive`, and `DestructorIsNotRefused`. The graph without the edges of a lock to itself stays acyclic
  (`GraphAcyclic`), since the search that answers no is the one that would have found
  the cycle; a held lock leads in it to those taken after it (`OlderLeadsToNewer`), and
  a request that sleeps is its thread's newest record (`RequestOnTop`): in a deadlock
  between threads every requested mutex would lead to the request of its owner. What
  ties the stacks to the mutexes is a count (`StacksCount`): as many records as the
  thread owns the mutex times, one more in a lock or an unlock, one fewer in a trylock.
  It gives `StackIsWhatIsOwned`, and that the newest record of a thread that asks is
  owned, so that every edge is a nesting that was let pass (`EdgesAreNestings`). The
  path for which a request is refused is thus there without it: it ends in a mutex the
  thread owns, and is either one between different mutexes or a mutex's edge to itself
  (`RefusalHasPrecedent`). Nothing follows `lockdep_mutex` (`NothingAfterDetector`), since
  only the destructor records it and frees the graph next; so no path leads from it to
  what an exiting thread holds. The invariant speaks of the stacks only until the destructor ran.
- `ProcessProofs`: of the ptrace monitor, `OrderIsAcyclic`, `HolderIsOwner` and `WaitCycleIsExact` under
  any caller of the tracker. `HolderIsOwner` needs that a thread has one record of each
  lock (`OneRecord`), so that a release removes all it says of the lock; `OrderIsAcyclic`
  needs no more than that an acquisition adds edges into the new lock, each only if its
  start cannot be reached from there. `WaitCycleIsExact` is about the walk along the
  owners, a function of the number of steps: a walk that comes back does so within as
  many steps as there are threads. `LoopIsACaller`: `main.c` with its target is such a
  caller. Then `FindsNothing`: under `main.c` every lock has no owner but `target_pid`,
  nobody is known to wait (`OneOwner`), and the order has no cycle; each of the three
  tests needs one of these to fail. `BacktraceTellsWaiters`: what the backtraces of any
  state tell, from the frames that can be walked.
  Of `spawn.c`, `CleansUp`: a worker that runs is of the current part, was forked in it
  under the number `main` kept, and was not killed yet; one that has ended was killed
  (or is the process that found no FIFO), and it was waited for only if the observer is
  missing (`PartsInv`, kept by each line, whichever calls fail). Of the exercises that fork,
  `OutputIsOrderly`: `ForksInv` says who has which calls before it (`CallsSound`), what
  a process that does not run has left (`LivesSound`), that what `main` prints late is
  still behind a wait while the child runs (`LateWaits`), that the child has printed when
  it has ended (`ChildPrints`), that a repetition starts when the child of the last one is
  gone (`RepetitionsSound`), that the first line comes before the fork (`HeadFirst`), and
  that a file gets it from a process exactly when that ends with it in its buffer
  (`HeadKept`). The copies of the line are counted by a bijection between their places in
  the output and those processes.
- `LockGraphProofs`: the lemmas about paths and cycles that these rest on, among them
  that an edge whose end does not lead back closes no cycle (`EdgeKeepsAcyclic`), and
  that locks which lead to one another are on a cycle (`MutualReachIsCycle`).

Assumptions, which TLC evaluates in the runs: `LockdepAssumption`,
`LockdepDfsAssumption`, `FutexAssumption`, `GoisAssumption`, `GdlockAssumption`,
`LockTrackerAssumption`, `PtraceMonitorAssumption`, `CountingAssumption`,
`ProducerConsumerAssumption`, `ForksAssumption`, `ProcessesAssumption`,
`LockdepListsAssumption`, `SpinFutexAssumption`. They give the types of the constants and say that `None`
is no thread or lock, and that different locks have different addresses; a ring has two
places at least (one is always left free).
`ListsAreSets` is a check of operators that TLC evaluates; no proof uses it.

Only model-checked:

- liveness (`AllCounted`, `AllConsumed`, `MainEnds`, `ExitEnds`, `EndsIfTargetStops`),
  which is out of the prover's reach;
- `ListsAreSets` of `GraphLists`: the searches of gdlock's graph library are recursive
  operators, and the prover reads none.

Every safety invariant that a run checks is the subject of a theorem. The prover has no
induction over data; where one is needed (a list, a walk, a search) the lemma takes a
least counterexample instead (`NatHasLeast` of `LockGraphProofs`).

## Not modelled

- `lockdep_core_sh.c` differs from `lockdep_core.c` in `graph_visualize`; this and the
  visualizers of gois and gdlock are output. The thread of gois's visualizer reads the
  graph without the mutex; what it reads after the destructor is undefined.
- Threads that end and mutexes that are destroyed under lockdep and gois: a reused
  identifier is the same thread or mutex in a longer history.
- `projeto/gois/src/gptrace` and `ptrace/ld_ptrace.c` do not compile (the second looks
  inside a type its header keeps closed); `pthread_structures.c` reads the memory of
  another program and is asked for by no handler. `backtrace.c`'s search of ELF tables
  is never reached: `strtab` stays `NULL`.
- `f_ipc`: empty functions. `g_memory/g00_kernel`: kernels of a dozen lines on bare
  hardware, each in a straight line. `h_filesystem/h03_mount`: sequential readers of an
  image.
- `a_asm`, `b_stack`, `y_references`, reports and dumps are not programs with state.
