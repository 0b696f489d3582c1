----------------------------- MODULE Processes -----------------------------
(***************************************************************************)
(* The programs with processes: the scheduling experiments of              *)
(* z_atividade/tarefa6/spawn.c, which start workers, an observer and, at   *)
(* the end of each part, kill the workers; and the pipe of                 *)
(* z_atividade/tarefa4/main.c, whose parent reads what its child writes.   *)
(* The program that runs is one of these or of module Forks.               *)
(*                                                                         *)
(* fork, malloc, mkfifo, dup2, execve and read may fail. The programs keep *)
(* what fork returned, -1 included, and hand it to waitpid and kill, to    *)
(* which -1 means any child and every process.                             *)
(***************************************************************************)
EXTENDS Integers, Forks

CONSTANTS
  np,           \* processors, and so workers of a part (modulo 256: a uint8_t)
  no,           \* observations of a part (10 in the code)
  OUTPUT,       \* what the child of the pipe writes, in blocks
  PIPE          \* the blocks a pipe holds

ASSUME ProcessesAssumption ==
  {np, no, OUTPUT, PIPE - 1} \subseteq Nat

Part == 1 .. 4

\* Processes main starts. Failed is the -1 of a fork that failed.
worker(o, p) == <<o, p>>
observer(o) == <<o, np + 1>>
renicer(o) == <<o, np + 2>>
Started == Part \X (0 .. np + 2)
Failed == <<0, 0>>

VARIABLES
  pc,         \* where main is
  part, p,    \* the part, and the counter of its loops
  pidseer, renice_pid, child_pids,
  state,      \* of each process: none, running, zombie or reaped
  round,      \* observations made by the observer of each part
  census,     \* what its sensus has left: a delay and four commands
  fifo,       \* mkfifo has made the pipe nobody writes to
  stray,      \* signals that went to processes main did not start
  child,      \* where the child of the pipe is
  ends,       \* the open write ends of the pipe
  written, blocks  \* what the child wrote, and what waits in the pipe

experiment == <<part, p, pidseer, renice_pid, child_pids>>
watching == <<round, census>>
piping == <<child, ends, written, blocks>>
processVars == <<program, failures, forkVars, pc, experiment, state, watching, fifo, stray, piping>>

GoTo(label) == pc' = label

----------------------------------------------------------------------------
(* The kernel.                                                             *)

\* fork: the process runs, or there is none.
ForkProcess(pid, result) ==
  \/ Succeeds /\ state' = [state EXCEPT ![pid] = "running"] /\ result = pid
  \/ Fails /\ UNCHANGED state /\ result = Failed

Children == {q \in Started : state[q] \in {"running", "zombie"}}

\* waitpid blocks while the children it may return all run.
WaitPid(pid) ==
  LET mine == IF pid = Failed THEN Children ELSE Children \cap {pid}
      dead == {q \in mine : state[q] = "zombie"}
  IN \/ \E q \in dead : state' = [state EXCEPT ![q] = "reaped"]
     \/ mine = {} /\ UNCHANGED state

\* SIGKILL to all processes but the sender, to a child, or to whoever has got
\* the number of a child that was reaped.
Kill(pid) ==
  /\ state' = [q \in Started |-> IF state[q] = "running" /\ pid \in {q, Failed}
                               THEN "zombie" ELSE state[q]]
  /\ stray' = IF pid = Failed \/ state[pid] = "reaped" THEN stray \cup {part} ELSE stray

----------------------------------------------------------------------------
(* spawn.c                                                                 *)

Workers(o) == IF o \in {2, 3} THEN np + 1 ELSE np

\* What is killed: part 4 has the blocking process after its workers.
Targets(o) == IF o = 1 THEN np ELSE np + 1

pseer ==
  /\ pc = "pseer"
  /\ IF no = 0 THEN UNCHANGED <<pidseer, state, failures>>
               ELSE ForkProcess(observer(part), pidseer')
  /\ GoTo("malloc")
  /\ UNCHANGED <<part, p, renice_pid, child_pids, watching, fifo, stray>>

\* Without memory for the numbers the part returns, and its observer goes on.
Malloc ==
  /\ pc = "malloc"
  /\ \/ Succeeds /\ GoTo("fork")
     \/ Fails /\ GoTo("rest")
  /\ p' = 0
  /\ UNCHANGED <<part, pidseer, renice_pid, child_pids, state, watching, fifo, stray>>

AfterForks == CASE part = 3 -> "renice" [] part = 4 -> "mkfifo" [] OTHER -> "wait"

ForkWorker ==
  /\ pc = "fork"
  /\ IF p < Workers(part)
       THEN /\ \E pid \in {worker(part, p), Failed} :
                 ForkProcess(worker(part, p), pid) /\ child_pids' = [child_pids EXCEPT ![p] = pid]
            /\ p' = p + 1
            /\ UNCHANGED pc
       ELSE GoTo(AfterForks) /\ UNCHANGED <<p, child_pids, state, failures>>
  /\ UNCHANGED <<part, pidseer, renice_pid, watching, fifo, stray>>

ForkRenicer ==
  /\ pc = "renice"
  /\ ForkProcess(renicer(part), renice_pid')
  /\ GoTo("wait_renice")
  /\ UNCHANGED <<part, p, pidseer, child_pids, watching, fifo, stray>>

\* The shell that should run renice gets the descriptor -1, which dup2 refuses:
\* it ends without running anything.
RenicerExits ==
  /\ \E o \in Part : /\ state[renicer(o)] = "running"
                     /\ state' = [state EXCEPT ![renicer(o)] = "zombie"]
  /\ UNCHANGED <<pc, experiment, watching, fifo, failures, stray>>

WaitRenicer ==
  /\ pc = "wait_renice"
  /\ WaitPid(renice_pid)
  /\ GoTo("wait")
  /\ UNCHANGED <<experiment, watching, fifo, failures, stray>>

Mkfifo ==
  /\ pc = "mkfifo"
  /\ \/ Succeeds /\ fifo' = TRUE
     \/ Fails /\ fifo' = FALSE
  /\ GoTo("block")
  /\ UNCHANGED <<experiment, state, watching, stray>>

ForkBlocking ==
  /\ pc = "block"
  /\ \E pid \in {worker(part, np), Failed} :
       ForkProcess(worker(part, np), pid) /\ child_pids' = [child_pids EXCEPT ![np] = pid]
  /\ GoTo("wait")
  /\ UNCHANGED <<part, p, pidseer, renice_pid, watching, fifo, stray>>

\* Opening the FIFO blocks for good; without it the process goes on to a
\* terminal, which may end.
BlockingExits ==
  /\ state[worker(4, np)] = "running" /\ ~fifo
  /\ state' = [state EXCEPT ![worker(4, np)] = "zombie"]
  /\ UNCHANGED <<pc, experiment, watching, fifo, failures, stray>>

WaitObserver ==
  /\ pc = "wait"
  /\ WaitPid(pidseer)
  /\ p' = 0
  /\ GoTo("kill")
  /\ UNCHANGED <<part, pidseer, renice_pid, child_pids, watching, fifo, failures, stray>>

\* Faulty variant: the loop of part 1 in all parts.
KillWorkers_only ==
  /\ pc = "kill"
  /\ IF p < np
       THEN Kill(child_pids[p]) /\ p' = p + 1 /\ UNCHANGED pc
       ELSE GoTo("rest") /\ UNCHANGED <<p, state, stray>>
  /\ UNCHANGED <<part, pidseer, renice_pid, child_pids, watching, fifo, failures>>

KillWorkers ==
  /\ pc = "kill"
  /\ IF p < Targets(part)
       THEN Kill(child_pids[p]) /\ p' = p + 1 /\ UNCHANGED pc
       ELSE GoTo("rest") /\ UNCHANGED <<p, state, stray>>
  /\ UNCHANGED <<part, pidseer, renice_pid, child_pids, watching, fifo, failures>>

\* sleep(2), and the loop of main. Each part has a structure of its own.
NextPart ==
  /\ pc = "rest"
  /\ IF part = 4 THEN GoTo("done") /\ UNCHANGED <<part, pidseer, child_pids>>
                 ELSE /\ GoTo("pseer")
                      /\ part' = part + 1
                      /\ pidseer' = Failed
                      /\ child_pids' = [i \in 0 .. np |-> Failed]
  /\ UNCHANGED <<p, renice_pid, state, watching, fifo, failures, stray>>

\* One observation: sensus waits, and runs four commands in shells of its own;
\* if it cannot be forked, nothing is observed.
Observe(o) ==
  /\ state[observer(o)] = "running" /\ census[o] = 0 /\ round[o] < no
  /\ \/ Succeeds /\ census' = [census EXCEPT ![o] = 5] /\ UNCHANGED round
     \/ Fails /\ round' = [round EXCEPT ![o] = @ + 1] /\ UNCHANGED census
  /\ UNCHANGED <<pc, experiment, state, fifo, stray>>

sensus(o) ==
  /\ census[o] > 0 /\ state[observer(o)] = "running"
  /\ census' = [census EXCEPT ![o] = @ - 1]
  /\ round' = IF census[o] = 1 THEN [round EXCEPT ![o] = @ + 1] ELSE round
  /\ UNCHANGED <<pc, experiment, state, fifo, failures, stray>>

ObserverExits(o) ==
  /\ state[observer(o)] = "running" /\ census[o] = 0 /\ round[o] = no
  /\ state' = [state EXCEPT ![observer(o)] = "zombie"]
  /\ UNCHANGED <<pc, experiment, watching, fifo, failures, stray>>

----------------------------------------------------------------------------
(* The pipe.                                                               *)

parent == "parent"

\* pipe() and fork(); a failure ends the program.
ForkReader ==
  /\ pc = "pipe"
  /\ \/ Fails /\ GoTo("done") /\ UNCHANGED <<child, ends>>
     \/ /\ Succeeds
        /\ GoTo("close")
        /\ child' = "dup"
        /\ ends' = {parent, "child"}
  /\ UNCHANGED <<written, blocks>>

\* Faulty variant: the parent keeps its write end open.
CloseWriteEnd_not ==
  /\ pc = "close"
  /\ GoTo("read")
  /\ UNCHANGED <<child, ends, written, blocks, failures>>

CloseWriteEnd ==
  /\ pc = "close"
  /\ ends' = ends \ {parent}
  /\ GoTo("read")
  /\ UNCHANGED <<child, written, blocks, failures>>

\* read takes what there is, fails, or finds the end of the file.
Read ==
  /\ pc = "read"
  /\ \/ blocks > 0 /\ Succeeds /\ blocks' = 0 /\ UNCHANGED pc
     \/ blocks = 0 /\ ends = {} /\ Succeeds /\ GoTo("waitpid") /\ UNCHANGED blocks
     \/ Fails /\ GoTo("done") /\ UNCHANGED blocks
  /\ UNCHANGED <<child, ends, written>>

WaitChild ==
  /\ pc = "waitpid" /\ child = "gone"
  /\ GoTo("done")
  /\ UNCHANGED <<child, ends, written, blocks, failures>>

\* dup2, the close of the write end that was duplicated, execlp. A child that
\* ends closes all it has open.
ChildRuns ==
  /\ \/ child = "dup" /\ Succeeds /\ child' = "close" /\ ends' = ends \cup {"stdout"}
     \/ child = "close" /\ Succeeds /\ child' = "exec" /\ ends' = ends \ {"child"}
     \/ child = "exec" /\ Succeeds /\ child' = "ls" /\ UNCHANGED ends
     \/ child \in {"dup", "exec"} /\ Fails /\ child' = "gone" /\ ends' = ends \cap {parent}
  /\ UNCHANGED <<pc, written, blocks>>

\* A full pipe blocks the writer; without a reader it is killed.
ChildWrites ==
  /\ child = "ls"
  /\ \/ /\ written < OUTPUT /\ pc # "done" /\ blocks < PIPE
        /\ written' = written + 1 /\ blocks' = blocks + 1
        /\ UNCHANGED <<child, ends>>
     \/ /\ written = OUTPUT \/ pc = "done"
        /\ child' = "gone" /\ ends' = ends \cap {parent}
        /\ UNCHANGED <<written, blocks>>
  /\ UNCHANGED <<pc, failures>>

----------------------------------------------------------------------------
ProcessesInit ==
  /\ program \in {"spawn", "pipe"} \cup DOMAIN Program
  /\ ForksInit
  /\ pc = CASE program = "spawn" -> "pseer" [] program = "pipe" -> "pipe" [] OTHER -> "forks"
  /\ part = 1 /\ p = 0
  /\ pidseer = Failed /\ renice_pid = Failed
  /\ child_pids = [i \in 0 .. np |-> Failed]
  /\ state = [q \in Started |-> "none"]
  /\ round = [o \in Part |-> 0]
  /\ census = [o \in Part |-> 0]
  /\ fifo = FALSE
  /\ failures = 0
  /\ stray = {}
  /\ child = "none" /\ ends = {} /\ written = 0 /\ blocks = 0

main ==
  /\ \/ pseer \/ Malloc \/ ForkWorker \/ ForkRenicer \/ WaitRenicer \/ Mkfifo
     \/ ForkBlocking \/ WaitObserver \/ KillWorkers \/ NextPart
  /\ UNCHANGED <<program, forkVars, piping>>

Others ==
  /\ \/ RenicerExits
     \/ \E o \in Part : Observe(o) \/ sensus(o) \/ ObserverExits(o)
  /\ UNCHANGED <<program, forkVars, piping>>

Pipe ==
  /\ ForkReader \/ CloseWriteEnd \/ Read \/ WaitChild \/ ChildRuns \/ ChildWrites
  /\ UNCHANGED <<program, forkVars, experiment, state, watching, fifo, stray>>

Exercise ==
  /\ ForksNext
  /\ UNCHANGED <<program, pc, experiment, state, watching, fifo, stray, piping>>

\* What is left when main has returned.
Ended == pc = "done" /\ UNCHANGED processVars

ProcessesNext ==
  \/ main \/ Others \/ Pipe \/ Exercise \/ Ended
  \/ BlockingExits /\ UNCHANGED <<program, forkVars, piping>>

ProcessesSpec == ProcessesInit /\ [][ProcessesNext]_processVars

\* Every process runs; no call has to fail, and the terminal of the blocking
\* process need not end.
FairProcesses ==
  ProcessesSpec /\ WF_processVars(main /\ Succeeds) /\ WF_processVars(Others /\ Succeeds)
                /\ WF_processVars(Pipe /\ Succeeds) /\ WF_processVars(Exercise /\ Succeeds)

----------------------------------------------------------------------------
(* Properties.                                                             *)

(***************************************************************************)
(* What a part leaves behind, whichever call failed: none of its workers   *)
(* runs when it is over. And its signals reach only its own processes, if  *)
(* no fork was missing in it: a worker that was not forked is a kill(-1),  *)
(* and without an observer the wait takes any child that has ended, whose  *)
(* number then belongs to nobody or to a stranger.                         *)
(***************************************************************************)
NotForked ==
  \/ pidseer = Failed
  \/ \E i \in 0 .. Targets(part) - 1 : child_pids[i] = Failed
CleansUp ==
  /\ pc \in {"rest", "done"} =>
       \A o \in 1 .. part : state[renicer(o)] # "running"
                            /\ \A i \in 0 .. np : state[worker(o, i)] # "running"
  /\ part \in stray => NotForked

(***************************************************************************)
(* main ends, whichever calls fail, unless it waits for the process -1,    *)
(* whose fork failed, at a point where none of its children has ended and  *)
(* those that run are workers of the part, which it would kill only after  *)
(* the wait.  In any other state a child killed or finished before, which  *)
(* nobody has waited for, answers in the place of the missing one.         *)
(***************************************************************************)
WaitsForItsWorkers ==
  /\ \/ pc = "wait" /\ pidseer = Failed
     \/ pc = "wait_renice" /\ renice_pid = Failed
  /\ Children # {}
  /\ \A q \in Children : state[q] = "running" /\ \E i \in 0 .. np : q = worker(part, i)
MainEnds ==
  <>[](\/ pc = "done"
       \/ WaitsForItsWorkers
       \/ pc = "forks" /\ life[Main] = "ended")

----------------------------------------------------------------------------
(* The inductive invariant behind CleansUp.                                *)

Forking == {"fork", "renice", "wait_renice", "mkfifo", "block", "wait"}
Over == {"kill", "rest", "done"}

ProcessesTypeOK ==
  /\ pc \in {"pseer", "malloc", "pipe", "close", "read", "waitpid", "forks"} \cup Forking \cup Over
  /\ part \in Part /\ p \in Nat
  /\ pidseer \in {observer(part), Failed}
  /\ renice_pid \in Started \cup {Failed}
  /\ child_pids \in [0 .. np -> Started \cup {Failed}]
  /\ \A i \in 0 .. np : child_pids[i] \in {worker(part, i), Failed}
  /\ state \in [Started -> {"none", "running", "zombie", "reaped"}]
  /\ stray \subseteq 1 .. part

\* The labels of one part only, and how far its loop can be.
PartsSound ==
  /\ pc = "fork" => p <= Workers(part)
  /\ pc \in {"renice", "wait_renice"} => part = 3
  /\ pc \in {"mkfifo", "block"} => part = 4

\* A worker that runs is of this part, was forked in it and is not killed yet.
RunningSound ==
  \A o \in Part, i \in 0 .. np : state[worker(o, i)] = "running" =>
    /\ o = part /\ i < Targets(part) /\ child_pids[i] = worker(o, i)
    /\ pc \in Forking \cup {"kill"}
    /\ pc = "fork" => i < p
    /\ pc \in {"mkfifo", "block"} => i < np
    /\ pc = "kill" => p <= i

\* One that has ended was killed, or is the process without a FIFO; nobody waited
\* for it unless there was no observer to wait for.
EndedSound ==
  \A i \in 0 .. np :
    /\ pc \in {"pseer", "malloc"} => state[worker(part, i)] = "none"
    /\ state[worker(part, i)] = "zombie" => pc \in Over \/ (part = 4 /\ i = np /\ pc = "wait")
    /\ state[worker(part, i)] = "reaped" => pc \in Over /\ pidseer = Failed
LaterUntouched ==
  \A o \in Part, i \in 0 .. np : o > part => state[worker(o, i)] = "none"

RenicersSound ==
  \A o \in Part : state[renicer(o)] = "running" => pc = "wait_renice" /\ o = part /\ renice_pid = renicer(o)

StraySound == part \in stray => pc \in Over /\ NotForked

PartsInv ==
  /\ ProcessesTypeOK
  /\ PartsSound
  /\ RunningSound
  /\ EndedSound
  /\ LaterUntouched
  /\ RenicersSound
  /\ StraySound
=============================================================================
