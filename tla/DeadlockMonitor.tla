-------------------------- MODULE DeadlockMonitor --------------------------
(***************************************************************************)
(* What a lock-order detector interposed between a program and its mutexes *)
(* promises: the mutexes behave as they do without it, and a thread is     *)
(* told before it goes to sleep in a deadlock it completes.  Nothing is    *)
(* said of how the detector finds out, and it may tell more than it must.  *)
(***************************************************************************)
EXTENDS Naturals

CONSTANTS Thread, Lock, Recursive, None

VARIABLES
  owner,  \* the thread that owns each mutex, or None
  depth,  \* how many times it does
  waits,  \* the mutex each thread has asked for and not got, or None
  told    \* the thread was told, when it asked, of a deadlock

mvars == <<owner, depth, waits, told>>

Free(t, l) == owner[l] = None \/ (owner[l] = t /\ l \in Recursive)

\* Each thread of D waits for a mutex that a thread of D owns.
Deadlocked(D) ==
  \A t \in D : /\ waits[t] \in Lock
               /\ owner[waits[t]] \in D
               /\ ~Free(t, waits[t])

Init ==
  /\ owner = [l \in Lock |-> None]
  /\ depth = [l \in Lock |-> 0]
  /\ waits = [t \in Thread |-> None]
  /\ told = [t \in Thread |-> FALSE]

\* A thread asks for a mutex; the request that completes a deadlock is told.
Ask(t, l) ==
  /\ waits[t] = None
  /\ waits' = [waits EXCEPT ![t] = l]
  /\ \E b \in BOOLEAN : told' = [told EXCEPT ![t] = b]
  /\ \A D \in SUBSET Thread : t \in D /\ Deadlocked(D)' => told'[t]
  /\ UNCHANGED <<owner, depth>>

Own(t, l) ==
  /\ Free(t, l)
  /\ owner' = [owner EXCEPT ![l] = t]
  /\ depth' = [depth EXCEPT ![l] = @ + 1]

Get(t) ==
  /\ waits[t] # None
  /\ Own(t, waits[t])
  /\ waits' = [waits EXCEPT ![t] = None]
  /\ told' = [told EXCEPT ![t] = FALSE]

\* A thread takes a mutex without waiting for it.
Take(t, l) ==
  /\ waits[t] = None
  /\ Own(t, l)
  /\ UNCHANGED <<waits, told>>

Give(t, l) ==
  /\ waits[t] = None
  /\ owner[l] = t
  /\ owner' = [owner EXCEPT ![l] = IF depth[l] = 1 THEN None ELSE t]
  /\ depth' = [depth EXCEPT ![l] = @ - 1]
  /\ UNCHANGED <<waits, told>>

Next ==
  \E t \in Thread :
    \/ \E l \in Lock : Ask(t, l) \/ Take(t, l) \/ Give(t, l)
    \/ Get(t)

Spec == Init /\ [][Next]_mvars
============================================================================
