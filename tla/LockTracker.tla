---------------------------- MODULE LockTracker ----------------------------
(***************************************************************************)
(* The lock tracker of the ptrace monitor                                  *)
(* (z_atividade/projeto/gois/src/ptrace/lock_tracker.c): what it is told   *)
(* of threads and locks, the graph of the lock order, and the three tests  *)
(* of lock_tracker_check_deadlocks.  Times and counters that are only      *)
(* printed are left out, and so is malloc's failure.                       *)
(***************************************************************************)
EXTENDS LockGraph, Integers, FiniteSets

CONSTANTS
  Pid,       \* the threads of the target
  MaxCount,  \* bound: how often one lock is taken again
  None       \* 0, NULL

ASSUME LockTrackerAssumption ==
  /\ MaxCount \in Nat \ {0}
  /\ None \notin Pid \cup Lock

VARIABLES
  threads,           \* the registered threads
  held_locks,        \* thread->held_locks
  waiting_for_lock,  \* thread->waiting_for_lock; the thread is_blocked iff it is set
  owner_thread,      \* lock_info->owner_thread; no lock_info says no owner
  lock_graph         \* the edges of the lock order

tracker == <<threads, held_locks, waiting_for_lock, owner_thread, lock_graph>>

held_lock_t == [lock_addr : Lock, is_recursive : BOOLEAN, recursion_count : 1 .. MaxCount]

thread_find_held_lock(t, l) == {r \in held_locks[t] : r.lock_addr = l}

----------------------------------------------------------------------------
(* The graph: a dependency that would close a cycle is told of, and not    *)
(* added.                                                                  *)

would_create_cycle(from, to) == Reaches(lock_graph, to, from)
graph_has_cycle == \E l \in Lock : Reaches(lock_graph, l, l)

\* Faulty variant: warned of, and added all the same.
Dependencies_all(t, l) == {<<r.lock_addr, l>> : r \in held_locks[t]}

\* The new edges, from every lock held.  An edge that is added leads to l, and
\* closes no path from l: whatever the order of the list, the tests agree.
Dependencies(t, l) ==
  {<<r.lock_addr, l>> : r \in {q \in held_locks[t] : ~would_create_cycle(q.lock_addr, l)}}

----------------------------------------------------------------------------
(* detect_wait_for_cycle.                                                  *)

\* Whom a thread waits for; None ends the chain.
WaitsFor(t) ==
  IF t \in threads /\ waiting_for_lock[t] # None
  THEN owner_thread[waiting_for_lock[t]]
  ELSE None

\* The n-th thread met on the way from t's owner.
Chain(t) ==
  LET current_owner[n \in 0 .. Cardinality(threads)] ==
        IF n = 0 THEN WaitsFor(t) ELSE WaitsFor(current_owner[n - 1])
  IN  current_owner

\* Faulty variant: an owner that is blocked is taken for a cycle.
detect_wait_for_cycle_blocked ==
  \E t \in threads : WaitsFor(t) \notin {None, t} /\ WaitsFor(WaitsFor(t)) # None

detect_wait_for_cycle ==
  /\ Cardinality(threads) >= 2
  /\ \E t \in threads : /\ WaitsFor(t) \notin {None, t}
                        /\ \E n \in 0 .. Cardinality(threads) : Chain(t)[n] = t

\* The three tests: a cycle in the order, a cycle of waits, two blocked threads.
lock_tracker_check_deadlocks ==
  \/ graph_has_cycle
  \/ detect_wait_for_cycle
  \/ Cardinality({t \in threads : waiting_for_lock[t] # None}) >= 2

----------------------------------------------------------------------------
(* The operations.                                                         *)

lock_tracker_init ==
  /\ threads = {}
  /\ held_locks = [t \in Pid |-> {}]
  /\ waiting_for_lock = [t \in Pid |-> None]
  /\ owner_thread = [l \in Lock |-> None]
  /\ lock_graph = {}

lock_tracker_cleanup ==
  /\ threads' = {}
  /\ held_locks' = [t \in Pid |-> {}]
  /\ waiting_for_lock' = [t \in Pid |-> None]
  /\ owner_thread' = [l \in Lock |-> None]
  /\ lock_graph' = {}

lock_tracker_register_thread(t) ==
  /\ threads' = threads \cup {t}
  /\ UNCHANGED <<held_locks, waiting_for_lock, owner_thread, lock_graph>>

\* The locks of the thread keep it as their owner.
lock_tracker_unregister_thread(t) ==
  /\ threads' = threads \ {t}
  /\ held_locks' = [held_locks EXCEPT ![t] = {}]
  /\ waiting_for_lock' = [waiting_for_lock EXCEPT ![t] = None]
  /\ UNCHANGED <<owner_thread, lock_graph>>

\* A lock taken again counts if the caller says it is recursive.
AcquireAgain(t, l, is_recursive) ==
  \E r \in thread_find_held_lock(t, l) :
    /\ is_recursive => r.recursion_count < MaxCount
    /\ held_locks' =
         IF is_recursive
         THEN [held_locks EXCEPT ![t] =
                 (@ \ {r}) \cup {[r EXCEPT !.recursion_count = @ + 1]}]
         ELSE held_locks
    /\ waiting_for_lock' = [waiting_for_lock EXCEPT ![t] = None]
    /\ UNCHANGED <<owner_thread, lock_graph>>

\* Owned by another, on record: the thread is blocked.
Contend(t, l) ==
  /\ thread_find_held_lock(t, l) = {}
  /\ owner_thread[l] \notin {None, t}
  /\ waiting_for_lock' = [waiting_for_lock EXCEPT ![t] = l]
  /\ UNCHANGED <<held_locks, owner_thread, lock_graph>>

Acquire(t, l, is_recursive) ==
  /\ thread_find_held_lock(t, l) = {}
  /\ owner_thread[l] \in {None, t}
  /\ lock_graph' = lock_graph \cup Dependencies(t, l)
  /\ held_locks' = [held_locks EXCEPT ![t] = @ \cup
       {[lock_addr |-> l, is_recursive |-> is_recursive, recursion_count |-> 1]}]
  /\ waiting_for_lock' = [waiting_for_lock EXCEPT ![t] = None]
  /\ owner_thread' = [owner_thread EXCEPT ![l] = t]

lock_tracker_register_acquisition(t, l, is_recursive) ==
  /\ threads' = threads \cup {t}
  /\ \/ AcquireAgain(t, l, is_recursive)
     \/ Contend(t, l)
     \/ Acquire(t, l, is_recursive)

\* Faulty variant: the owner goes whoever releases.
lock_tracker_register_release_any(t, l) ==
  /\ held_locks' = [held_locks EXCEPT ![t] = @ \ thread_find_held_lock(t, l)]
  /\ owner_thread' = [owner_thread EXCEPT ![l] = None]
  /\ UNCHANGED <<threads, waiting_for_lock, lock_graph>>

\* What the thread does not hold is not released.
lock_tracker_register_release(t, l) ==
  /\ IF thread_find_held_lock(t, l) = {}
     THEN UNCHANGED <<held_locks, owner_thread>>
     ELSE \E r \in thread_find_held_lock(t, l) :
            IF r.is_recursive /\ r.recursion_count > 1
            THEN /\ held_locks' = [held_locks EXCEPT ![t] =
                      (@ \ {r}) \cup {[r EXCEPT !.recursion_count = @ - 1]}]
                 /\ UNCHANGED owner_thread
            ELSE /\ held_locks' = [held_locks EXCEPT ![t] = @ \ {r}]
                 /\ owner_thread' = [owner_thread EXCEPT ![l] = None]
  /\ UNCHANGED <<threads, waiting_for_lock, lock_graph>>

----------------------------------------------------------------------------
\* Any caller of lock_tracker.h.
TrackerNext ==
  \/ \E t \in Pid :
       \/ lock_tracker_register_thread(t)
       \/ lock_tracker_unregister_thread(t)
       \/ \E l \in Lock, r \in BOOLEAN : lock_tracker_register_acquisition(t, l, r)
       \/ \E l \in Lock : lock_tracker_register_release(t, l)
  \/ lock_tracker_cleanup

TrackerSpec == lock_tracker_init /\ [][TrackerNext]_tracker

----------------------------------------------------------------------------
(* Properties.                                                             *)

TrackerTypeOK ==
  /\ threads \subseteq Pid
  /\ held_locks \in [Pid -> SUBSET held_lock_t]
  /\ waiting_for_lock \in [Pid -> Lock \cup {None}]
  /\ owner_thread \in [Lock -> Pid \cup {None}]
  /\ lock_graph \subseteq Lock \X Lock

(***************************************************************************)
(* However lock orders conflict, the graph never holds a cycle: the first  *)
(* test of lock_tracker_check_deadlocks never answers true, and orders     *)
(* that conflict are only ever warned of (register_acquisition refuses the *)
(* edge).                                                                  *)
(***************************************************************************)
OrderIsAcyclic == ~graph_has_cycle

(***************************************************************************)
(* A thread that holds a lock is its owner, whatever threads end, contend  *)
(* or release what they do not hold: no two threads hold one lock.         *)
(***************************************************************************)
HolderIsOwner ==
  \A t \in Pid : \A r \in held_locks[t] : owner_thread[r.lock_addr] = t

(***************************************************************************)
(* The walk along the owners, cut off after as many steps as there are     *)
(* threads, finds the circular waits and nothing else, threads that ended  *)
(* as owners included.                                                     *)
(***************************************************************************)
WaitCycleIsExact ==
  detect_wait_for_cycle <=>
    \E D \in SUBSET threads : D # {} /\ \A t \in D : WaitsFor(t) \in D \ {t}
============================================================================
