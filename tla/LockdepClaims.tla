--------------------------- MODULE LockdepClaims ---------------------------
(***************************************************************************)
(* What a comment in lockdep.h says of the detector and its code does not  *)
(* do.                                                                     *)
(***************************************************************************)
EXTENDS Lockdep

\* lockdep.h:11, "prevent the acquisition that would lead to a deadlock": the
\* answer of lockdep_acquire_lock is ignored by pthread_mutex_lock.
DeadlockPrevented == \A D \in SUBSET Thread : ~CircularWait(D)
============================================================================
