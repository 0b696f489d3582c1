------------------------- MODULE LockdepRefinement -------------------------
(***************************************************************************)
(* Lockdep implements DeadlockMonitor: a thread waits, for the monitor,    *)
(* while it is in the real pthread_mutex_lock, and what it is told is what *)
(* lockdep_acquire_lock answered.  A refused trylock is, for the monitor,  *)
(* a mutex taken and given back.                                           *)
(***************************************************************************)
EXTENDS Lockdep

waitsFor == [t \in Thread |-> IF pc[t] = "locking" THEN op[t] ELSE None]
wasTold  == [t \in Thread |-> pc[t] = "locking" /\ warned[t]]

Monitor == INSTANCE DeadlockMonitor WITH waits <- waitsFor, told <- wasTold

(***************************************************************************)
(* Seen through the interposed functions, the mutexes are plain mutexes    *)
(* and every request that completes a deadlock is answered false.          *)
(***************************************************************************)
ImplementsMonitor == Monitor!Spec
============================================================================
