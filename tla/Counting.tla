------------------------------ MODULE Counting ------------------------------
(***************************************************************************)
(* The counting programs of the course (e_pthread, z_atividade/tarefa5 and *)
(* tarefa7): threads that add to one counter, with Peterson's algorithm, a *)
(* mutex, a futex word, an atomic addition, or nothing between them.       *)
(*                                                                         *)
(* The machine is x86: a store is kept in the buffer of its processor,     *)
(* where only that processor sees it, until it reaches the memory; a       *)
(* barrier or an atomic read-modify-write waits for the buffer to drain.   *)
(* The word of a mutex, of e90, e91 and e92 is changed by such operations  *)
(* only.  A program is a record of what it does; a run is of one program.  *)
(* Two of them, e90_atomic.c and e91_futex.c, use names they do not        *)
(* declare and do not compile: they are modelled as they are meant.        *)
(***************************************************************************)
EXTENDS Integers, Sequences, FiniteSetsExt

CONSTANTS
  MAX_COUNT,  \* how often each thread counts (10000 and more)
  N_THREADS   \* bound: of the four threads of a program so many are run

ASSUME CountingAssumption == MAX_COUNT \in Nat \ {0} /\ N_THREADS \in 2 .. 4

Process == 0 .. N_THREADS - 1
Other(p) == 1 - p

VARIABLES
  program,  \* the program that runs
  pc,
  memory,   \* the shared variables
  buffer,   \* the stores of each processor that are not in the memory yet
  asleep,   \* the threads in the kernel's queue for the futex word
  seen,     \* the value a thread loaded for shared_counter++
  round,    \* how often each thread has counted
  passed    \* history: the entries of the other since p waits

vars == <<program, pc, memory, buffer, asleep, seen, round, passed>>

----------------------------------------------------------------------------
(* The programs.  first: what a thread begins a round with.  retry: where  *)
(* it goes when the word is taken.  add: shared_counter++ is a load and a  *)
(* store, one atomic addition, or (-O3 makes one addition of the loop) may *)
(* count several rounds at once.  fenced: barriers or atomic operations    *)
(* follow the stores.  test: the half of the condition that enter_region   *)
(* of Peterson's algorithm reads first.  timeout: after two seconds it     *)
(* enters all the same.                                                    *)

e01_data_race ==
  [first |-> "load", retry |-> "none", test |-> "none", add |-> "plain",
   fenced |-> FALSE, timeout |-> FALSE, threads |-> 4]
e01_data_race_silent == e01_data_race
e93_data_race_silent == e01_data_race
e03_peterson == e01_data_race  \* it has no Peterson's algorithm
e02_atomic == [e01_data_race EXCEPT !.add = "atomic"]

tarefa5_main == [e01_data_race EXCEPT !.add = "merged", !.threads = 2]
tarefa5_main_atomic == [e02_atomic EXCEPT !.threads = 2]
\* valor; the atomic valor_atomic beside it drains the buffer in each round.
tarefa5_clumsy == [e01_data_race EXCEPT !.fenced = TRUE, !.threads = 2]

thread_counting_mutex ==
  [first |-> "lock", retry |-> "lock", test |-> "none", add |-> "plain",
   fenced |-> TRUE, timeout |-> FALSE, threads |-> 2]
tarefa5_main_mutex == thread_counting_mutex
tarefa7_main_sync == thread_counting_mutex
peterson == thread_counting_mutex  \* its enter_region is not called
peterson2 == thread_counting_mutex
peterson3 == thread_counting_mutex
sync_peterson1 == thread_counting_mutex
\* Spins on a compare-exchange where the mutex blocks.
e90_atomic == thread_counting_mutex
\* FUTEX_WAIT comes before the exchange, also the first time.
e91_futex == [thread_counting_mutex EXCEPT !.first = "wait", !.retry = "wait"]
e92_mufutex_silent == [thread_counting_mutex EXCEPT !.retry = "wait", !.threads = 4]
e92_mufutex_waf == e92_mufutex_silent

tarefa7_main ==
  [first |-> "out", retry |-> "none", test |-> "test_turn", add |-> "plain",
   fenced |-> FALSE, timeout |-> TRUE, threads |-> 2]
tarefa7_main_pragma == tarefa7_main
tarefa7_clumsy == tarefa7_main
tarefa7_main_barrier == [tarefa7_main EXCEPT !.fenced = TRUE, !.timeout = FALSE]
tarefa7_main_atomic == [tarefa7_main_barrier EXCEPT !.add = "atomic", !.test = "test_other"]
tarefa7_main_atomicLanguage == [tarefa7_main_atomic EXCEPT !.test = "test_turn"]

Programs ==
  {e01_data_race, e01_data_race_silent, e93_data_race_silent, e03_peterson, e02_atomic,
   tarefa5_main, tarefa5_main_atomic, tarefa5_clumsy, thread_counting_mutex,
   tarefa5_main_mutex, tarefa7_main_sync, peterson, peterson2, peterson3,
   sync_peterson1, e90_atomic, e91_futex, e92_mufutex_silent, e92_mufutex_waf,
   tarefa7_main, tarefa7_main_pragma, tarefa7_clumsy, tarefa7_main_barrier,
   tarefa7_main_atomic, tarefa7_main_atomicLanguage}

Threads == {p \in Process : p < program.threads}
Petersons == program.first = "out"
Locks == program.first \in {"lock", "wait"}

----------------------------------------------------------------------------
(* The machine.                                                            *)

interested(p) == <<"interested", p>>
turn == <<"turn", 0>>
shared_counter == <<"shared_counter", 0>>
trava == <<"trava", 0>>
Place == {interested(p) : p \in {0, 1}} \cup {turn, shared_counter, trava}

\* Where the buffer has stores to x; they were made in this order.
Pending(p, x) == {i \in DOMAIN buffer[p] : buffer[p][i].to = x}

\* A load sees the stores of its own processor first.
Read(p, x) ==
  IF Pending(p, x) = {} THEN memory[x] ELSE buffer[p][Max(Pending(p, x))].value

Write(p, x, val) ==
  buffer' = [buffer EXCEPT ![p] = Append(@, [to |-> x, value |-> val])]

Drained(p) == buffer[p] = <<>>

\* Faulty variant: the barrier is left out.
NoBarrier(p) == p \in Process

\* __sync_synchronize() has returned, where the program calls it.
Barrier(p) == program.fenced => Drained(p)

\* An atomic read-modify-write of x.
Exchange(p, x, val) ==
  /\ Drained(p)
  /\ memory' = [memory EXCEPT ![x] = val]

\* The oldest store of the buffer reaches the memory.
Drain(p) ==
  /\ ~Drained(p)
  /\ memory' = [memory EXCEPT ![Head(buffer[p]).to] = Head(buffer[p]).value]
  /\ buffer' = [buffer EXCEPT ![p] = Tail(@)]
  /\ UNCHANGED <<program, pc, asleep, seen, round, passed>>

Goto(p, label) == pc' = [pc EXCEPT ![p] = label]

\* The two halves of the condition of the loop in enter_region.
Tests == {"test_turn", "test_other"}
OtherTest(label) == CHOOSE l \in Tests : l # label

\* The end of enter_region: those that wait are passed.
Enter(p) ==
  /\ Goto(p, "load")
  /\ passed' = [q \in Process |-> IF q = p THEN 0
                                  ELSE IF pc[q] \in Tests /\ Drained(q) THEN passed[q] + 1
                                  ELSE passed[q]]

----------------------------------------------------------------------------
(* enter_region of Peterson's algorithm.                                   *)

ShowInterest(p) ==
  /\ pc[p] = "out"
  /\ Write(p, interested(p), 1)
  /\ Goto(p, "turn")
  /\ UNCHANGED <<program, memory, asleep, seen, round, passed>>

\* Faulty variant: the turn is given to the other, as some books have it, and
\* the loop still waits for the thread's own turn to end.
GiveTurn(p) ==
  /\ pc[p] = "turn"
  /\ Barrier(p)
  /\ Write(p, turn, Other(p))
  /\ Goto(p, program.test)
  /\ UNCHANGED <<program, memory, asleep, seen, round, passed>>

SetTurn(p) ==
  /\ pc[p] = "turn"
  /\ Barrier(p)
  /\ Write(p, turn, p)
  /\ Goto(p, program.test)
  /\ UNCHANGED <<program, memory, asleep, seen, round, passed>>

\* One half of the condition: it fails, or the other half is next.
Waits(p) == IF pc[p] = "test_turn" THEN Read(p, turn) = p
                                   ELSE Read(p, interested(Other(p))) = 1
Test(p) ==
  /\ pc[p] \in Tests
  /\ Barrier(p)
  /\ IF Waits(p) THEN Goto(p, OtherTest(pc[p])) /\ UNCHANGED passed ELSE Enter(p)
  /\ UNCHANGED <<program, memory, buffer, asleep, seen, round>>

TimeOut(p) ==
  /\ pc[p] = program.test
  /\ program.timeout
  /\ Enter(p)
  /\ UNCHANGED <<program, memory, buffer, asleep, seen, round>>

----------------------------------------------------------------------------
(* enter_region of the others: a mutex, or a word that is 1 while taken.   *)

\* FUTEX_WAIT compares and queues in one step.
FutexWait(p) ==
  /\ pc[p] = "wait"
  /\ IF memory[trava] = 1 THEN asleep' = asleep \cup {p} /\ Goto(p, "asleep")
                          ELSE UNCHANGED asleep /\ Goto(p, "lock")
  /\ UNCHANGED <<program, memory, buffer, seen, round, passed>>

\* e91 passes no timeout, so that the kernel takes what a register holds for one:
\* no address, a bad time, or a time.
WaitFails(p) ==
  /\ program.first = "wait"
  /\ pc[p] \in {"wait", "asleep"}
  /\ asleep' = asleep \ {p}
  /\ Goto(p, "lock")
  /\ UNCHANGED <<program, memory, buffer, seen, round, passed>>

Woken(p) ==
  /\ pc[p] = "asleep"
  /\ p \notin asleep
  /\ Goto(p, "lock")
  /\ UNCHANGED <<program, memory, buffer, asleep, seen, round, passed>>

Lock(p) ==
  /\ pc[p] = "lock"
  /\ memory[trava] = 0
  /\ Exchange(p, trava, 1)
  /\ Goto(p, "load")
  /\ UNCHANGED <<program, buffer, asleep, seen, round, passed>>

\* The word stays as it is: who spins or is blocked is where it was.
LockTaken(p) ==
  /\ pc[p] = "lock"
  /\ program.retry = "wait"
  /\ memory[trava] = 1
  /\ Drained(p)
  /\ Goto(p, "wait")
  /\ UNCHANGED <<program, memory, buffer, asleep, seen, round, passed>>

----------------------------------------------------------------------------
(* thread_function: shared_counter++.                                      *)

\* Faulty variant: the counter is loaded in the first round only.
LoadOnce(p) ==
  /\ pc[p] = "load"
  /\ program.add # "atomic"
  /\ seen' = [seen EXCEPT ![p] = IF round[p] = 0 THEN Read(p, shared_counter) ELSE @]
  /\ Goto(p, "store")
  /\ UNCHANGED <<program, memory, buffer, asleep, round, passed>>

Load(p) ==
  /\ pc[p] = "load"
  /\ program.add # "atomic"
  /\ seen' = [seen EXCEPT ![p] = Read(p, shared_counter)]
  /\ Goto(p, "store")
  /\ UNCHANGED <<program, memory, buffer, asleep, round, passed>>

Store(p) ==
  /\ pc[p] = "store"
  /\ \E n \in 1 .. MAX_COUNT - round[p] :
       /\ n > 1 => program.add = "merged"
       /\ Write(p, shared_counter, seen[p] + n)
       /\ round' = [round EXCEPT ![p] = @ + n]
  /\ seen' = [seen EXCEPT ![p] = 0]
  /\ Goto(p, "leave")
  /\ UNCHANGED <<program, memory, asleep, passed>>

AtomicAdd(p) ==
  /\ pc[p] = "load"
  /\ program.add = "atomic"
  /\ Exchange(p, shared_counter, memory[shared_counter] + 1)
  /\ round' = [round EXCEPT ![p] = @ + 1]
  /\ Goto(p, "leave")
  /\ UNCHANGED <<program, buffer, asleep, seen, passed>>

----------------------------------------------------------------------------
(* leave_region, and the loop.                                             *)

Again(p) == Goto(p, IF round[p] < MAX_COUNT THEN program.first ELSE "done")

\* Faulty variant: leave_region does nothing after the last round.
LeaveInterested(p) ==
  /\ pc[p] = "leave"
  /\ Petersons
  /\ Barrier(p)
  /\ IF round[p] < MAX_COUNT THEN Write(p, interested(p), 0) ELSE UNCHANGED buffer
  /\ Again(p)
  /\ UNCHANGED <<program, memory, asleep, seen, round, passed>>

Leave(p) ==
  /\ pc[p] = "leave"
  /\ Petersons
  /\ Barrier(p)
  /\ Write(p, interested(p), 0)
  /\ Again(p)
  /\ UNCHANGED <<program, memory, asleep, seen, round, passed>>

\* There is no region to leave.
NextRound(p) ==
  /\ pc[p] = "leave"
  /\ ~Petersons /\ ~Locks
  /\ Barrier(p)
  /\ Again(p)
  /\ UNCHANGED <<program, memory, buffer, asleep, seen, round, passed>>

Unlock(p) ==
  /\ pc[p] = "leave"
  /\ Locks
  /\ Exchange(p, trava, 0)
  /\ IF program.retry = "wait" THEN Goto(p, "wake") ELSE Again(p)
  /\ UNCHANGED <<program, buffer, asleep, seen, round, passed>>

\* FUTEX_WAKE with 1: one thread of the queue, if there is any.
FutexWake(p) ==
  /\ pc[p] = "wake"
  /\ IF asleep = {} THEN UNCHANGED asleep ELSE \E q \in asleep : asleep' = asleep \ {q}
  /\ Again(p)
  /\ UNCHANGED <<program, memory, buffer, seen, round, passed>>

----------------------------------------------------------------------------
Init ==
  /\ program \in Programs
  /\ pc = [p \in Process |-> IF p \in Threads THEN program.first ELSE "done"]
  /\ memory = [x \in Place |-> 0]
  /\ buffer = [p \in Process |-> <<>>]
  /\ asleep = {}
  /\ seen = [p \in Process |-> 0]
  /\ round = [p \in Process |-> 0]
  /\ passed = [p \in Process |-> 0]

Scheduled(p) ==
  \/ ShowInterest(p) \/ SetTurn(p) \/ Test(p) \/ TimeOut(p)
  \/ FutexWait(p) \/ Woken(p) \/ Lock(p) \/ LockTaken(p)
  \/ Load(p) \/ Store(p) \/ AtomicAdd(p)
  \/ Leave(p) \/ NextRound(p) \/ Unlock(p) \/ FutexWake(p)

Run(p) == Scheduled(p) \/ WaitFails(p)

\* main joins all threads.
Joined == \A p \in Process : pc[p] = "done" /\ Drained(p)

Next == (\E p \in Process : Run(p) \/ Drain(p)) \/ (Joined /\ UNCHANGED vars)

Spec == Init /\ [][Next]_vars

\* The scheduler runs every thread, and buffers drain; no wait has to fail.
FairSpec == Spec /\ \A p \in Process : WF_vars(Scheduled(p)) /\ WF_vars(Drain(p))

----------------------------------------------------------------------------
(* Properties.                                                             *)

InRegion(p) == pc[p] \in {"load", "store", "leave"}

\* The programs that promise a region of one thread at a time.
Excludes == Locks \/ (Petersons /\ program.fenced /\ ~program.timeout)

\* The counter, where it was stored last.
Counted ==
  IF \E p \in Process : Pending(p, shared_counter) # {}
    THEN Read(CHOOSE p \in Process : Pending(p, shared_counter) # {},
              shared_counter)
    ELSE memory[shared_counter]

\* The region is exclusive and no increment is lost, in any order in which the
\* stores of the processors reach the memory (CriticalSection!Spec), in the
\* programs with a lock or with Peterson's algorithm and barriers.
Inside == IF Excludes /\ \E p \in Process : InRegion(p)
            THEN CHOOSE p \in Process : InRegion(p)
            ELSE -1
CS == INSTANCE CriticalSection WITH
        Thread <- Process, None <- -1, inside <- Inside,
        counter <- IF Excludes THEN Counted ELSE 0
GuardsTheCounter == CS!Spec

\* Nobody is passed twice by Peterson's algorithm: once a thread waits, the
\* other enters at most once before it, also with stores under way.
PassedOnce == Excludes => \A p \in Process : passed[p] <= 1

(***************************************************************************)
(* What main prints.  With a lock or atomic additions nothing is lost.     *)
(* Without, additions are lost, but never all of them: the last store of   *)
(* all to reach the memory is of a thread that had stored before, so that  *)
(* two survive at least (one if a thread counts once only).                *)
(***************************************************************************)
Total == MAX_COUNT * (IF program.threads < N_THREADS THEN program.threads ELSE N_THREADS)
CountedAtTheEnd ==
  Joined => IF Excludes \/ program.add = "atomic"
            THEN memory[shared_counter] = Total
            ELSE memory[shared_counter] \in (IF MAX_COUNT = 1 THEN 1 ELSE 2) .. Total

\* All threads finish their loops: none waits or sleeps forever.
AllCounted == <>(Joined /\ \A p \in Threads : round[p] = MAX_COUNT)
=============================================================================
