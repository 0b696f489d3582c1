------------------------------- MODULE Futex -------------------------------
(***************************************************************************)
(* What the mutexes made of one futex word have in common: the atomic      *)
(* operations on the word, the system call as the programs use it, and     *)
(* the threads that count under the mutex (thread_function).               *)
(*                                                                         *)
(* The modules that extend this one name the points of enter_region and    *)
(* leave_region; "load" and "store" are the two halves of shared_counter++,*)
(* "asleep" is inside the system call.                                     *)
(***************************************************************************)
EXTENDS Integers

CONSTANTS
  Thread,  \* the threads that main creates
  Rounds,  \* how often each one counts (1000000 in the programs)
  None     \* no thread

ASSUME FutexAssumption == Rounds \in Nat \ {0} /\ None \notin Thread

VARIABLES
  pc,             \* where each thread is
  word,           \* the futex word: 0 when unlocked
  sleeping,       \* the threads in the kernel's queue for the word
  shared_counter,
  seen,           \* the value a thread loaded for shared_counter++
  round           \* how often each thread has counted

Locals == <<seen, round>>

Goto(t, label) == pc' = [pc EXCEPT ![t] = label]

\* atomic_compare_exchange on the word.
CompareExchange(t, expected, desired, success, failure) ==
  IF word = expected
    THEN word' = desired /\ Goto(t, success)
    ELSE word' = word /\ Goto(t, failure)

\* FUTEX_WAIT: the kernel compares and queues in one step.
futex_wait(t, val, back) ==
  /\ IF word = val
       THEN sleeping' = sleeping \cup {t} /\ Goto(t, "asleep")
       ELSE sleeping' = sleeping /\ Goto(t, back)
  /\ UNCHANGED <<word, shared_counter, Locals>>

\* The system call returns in a thread taken off the queue.
Woken(t, back) ==
  /\ pc[t] = "asleep"
  /\ t \notin sleeping
  /\ Goto(t, back)
  /\ UNCHANGED <<word, sleeping, shared_counter, Locals>>

\* FUTEX_WAKE with 1: one thread of the queue, if there is any.
futex_wake ==
  IF sleeping = {} THEN UNCHANGED sleeping
                   ELSE \E u \in sleeping : sleeping' = sleeping \ {u}

----------------------------------------------------------------------------
(* thread_function: the critical section and the loop around it.           *)

Load(t) ==
  /\ pc[t] = "load"
  /\ seen' = [seen EXCEPT ![t] = shared_counter]
  /\ Goto(t, "store")
  /\ UNCHANGED <<word, sleeping, shared_counter, round>>

Store(t) ==
  /\ pc[t] = "store"
  /\ shared_counter' = seen[t] + 1
  /\ round' = [round EXCEPT ![t] = @ + 1]
  /\ Goto(t, "leave")
  /\ UNCHANGED <<word, sleeping, seen>>

\* leave_region returns: the loop goes on, or the thread ends.
NextRound(t, first) == Goto(t, IF round[t] < Rounds THEN first ELSE "done")

InitAt(first) ==
  /\ pc = [t \in Thread |-> first]
  /\ word = 0
  /\ sleeping = {}
  /\ shared_counter = 0
  /\ seen = [t \in Thread |-> 0]
  /\ round = [t \in Thread |-> 0]

\* main joins all threads.
Joined == \A t \in Thread : pc[t] = "done"

TypeOKFor(labels) ==
  /\ pc \in [Thread -> labels]
  /\ sleeping \subseteq Thread
  /\ shared_counter \in Nat
  /\ seen \in [Thread -> Nat]
  /\ round \in [Thread -> 0 .. Rounds]

----------------------------------------------------------------------------
(* Properties of all of them.                                              *)

\* The thread that locked the mutex and has not unlocked it.  Between the two
\* steps of leave_region in EconomicFutex ("clear") the word is not 0 yet.
Holds(t) == pc[t] \in {"load", "store", "leave", "clear"}

Inside == IF \E t \in Thread : Holds(t)
            THEN CHOOSE t \in Thread : Holds(t)
            ELSE None

\* The mutex is a lock around the critical section (CriticalSection!Spec): one
\* thread at a time holds it and no increment is lost.
CS == INSTANCE CriticalSection WITH inside <- Inside, counter <- shared_counter
GuardsTheCounter == CS!Spec

\* Every thread gets the mutex as often as it asks for it.
AllCounted == <>(Joined /\ \A t \in Thread : round[t] = Rounds)

----------------------------------------------------------------------------
(* The parts of the inductive invariants that they share.                  *)

\* The word says whether some thread holds the mutex, and no two do.
MutualExclusion ==
  /\ \A t, u \in Thread : Holds(t) /\ Holds(u) => t = u
  /\ word # 0 <=> \E t \in Thread : Holds(t)

QueueSound == \A t \in sleeping : pc[t] = "asleep"

\* The counter has not changed since its holder loaded it.
SeenIsCurrent == \A t \in Thread : pc[t] = "store" => seen[t] = shared_counter

\* A thread that has yet to count has a round left.
RoundsLeft ==
  \A t \in Thread :
    pc[t] \notin {"leave", "clear", "wake", "eperm", "done"} => round[t] < Rounds

Sound == RoundsLeft /\ QueueSound /\ MutualExclusion /\ SeenIsCurrent
============================================================================
