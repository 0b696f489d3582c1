------------------------------ MODULE Lockdep ------------------------------
(***************************************************************************)
(* The lock-order detector of z_atividade/projeto/lockdep: lockdep_core.c  *)
(* (registry, held stacks, dependency graph) driven by the interposed      *)
(* pthread functions of pthread_interpose.c, on top of real mutexes.       *)
(*                                                                         *)
(* Every function of lockdep_core.c runs under lockdep_mutex from its      *)
(* first to its last access to shared state, and never blocks in between:  *)
(* a call is one atomic step.  The calls of the real pthread functions are *)
(* steps of their own, so other threads run between a real operation and   *)
(* its record.                                                             *)
(*                                                                         *)
(* A lock that was never registered and one registered with no edge and no *)
(* owner behave alike (find_or_register_lock), and so do a thread without  *)
(* context and one whose context holds nothing: neither is told apart.     *)
(***************************************************************************)
EXTENDS DependencyGraph, Integers

CONSTANTS
  Thread,     \* the pthread_t values in use
  Recursive,  \* those of type PTHREAD_MUTEX_RECURSIVE
  Tried,      \* those the program asks for with trylock, too
  Nesting,    \* <<k, l>>: the program may ask for l while it owns k
  MaxHeld     \* bound: the longest history of one thread's held stack

ASSUME LockdepAssumption ==
  /\ Recursive \subseteq Lock
  /\ Tried \subseteq Lock
  /\ Nesting \subseteq Lock \X Lock
  /\ MaxHeld \in Nat \ {0}
  /\ None \notin Thread \cup Lock

VARIABLES
  pc,      \* where each thread is in the interposed function it called
  op,      \* the mutex of that call, None in the program
  owner,   \* the real mutexes: who owns each one ...
  depth,   \* ... and how many times
  held,    \* ctx->held_locks: the records of each thread's context
  current_held_lock,  \* lock->current_held_lock, by the thread of the record
  warned   \* lockdep_acquire_lock returned false in that call

vars == <<pc, op, owner, depth, held, edges, current_held_lock, warned>>

(***************************************************************************)
(* The list ctx->held_locks is kept as a set of records stamped in the     *)
(* order of their insertion (the role of acquired_at): its head is the     *)
(* record with the greatest stamp.                                         *)
(***************************************************************************)
Stamp == 1 .. MaxHeld
HeldLock == [lock : Lock, at : Stamp]

Newest(H) == {r \in H : \A q \in H : q.at <= r.at}

\* A stamp later than those of H, the least one so that histories stay short.
NextStamp(H, n) ==
  /\ \A r \in H : r.at < n
  /\ \A m \in Stamp : (\A r \in H : r.at < m) => n <= m

\* Faulty variants of the next definition: the edge from the other end of the
\* stack; no edge from a lock to itself.
add_dependency_from_oldest(H, l) ==
  edges \cup {<<r.lock, l>> : r \in {r \in H : \A q \in H : r.at <= q.at}}
add_dependency_between_different(H, l) ==
  edges \cup {<<r.lock, l>> : r \in {r \in Newest(H) : r.lock # l}}

\* The edge from the previous head of the stack to the new lock.
add_dependency_to_graph(H, l) == edges \cup {<<r.lock, l>> : r \in Newest(H)}

\* Faulty variant: the search runs before the edge is in the graph.
lockdep_acquire_lock_searching_first(t, l) ==
  /\ \E n \in Stamp :
       /\ NextStamp(held[t], n)
       /\ held' = [held EXCEPT ![t] = @ \cup {[lock |-> l, at |-> n]}]
  /\ current_held_lock' = [current_held_lock EXCEPT ![l] = t]
  /\ edges' = add_dependency_to_graph(held[t], l)
  /\ warned' = [warned EXCEPT ![t] = has_cycle(edges, l)]

(***************************************************************************)
(* lockdep_acquire_lock: the record is pushed and the edge added before    *)
(* the search, and both stay whatever the search answers.                  *)
(***************************************************************************)
lockdep_acquire_lock(t, l) ==
  /\ \E n \in Stamp :
       /\ NextStamp(held[t], n)
       /\ held' = [held EXCEPT ![t] = @ \cup {[lock |-> l, at |-> n]}]
  /\ current_held_lock' = [current_held_lock EXCEPT ![l] = t]
  /\ edges' = add_dependency_to_graph(held[t], l)
  /\ warned' = [warned EXCEPT ![t] = has_cycle(edges', l)]

\* Faulty variants: the reference to the freed record is not cleared; the
\* records are not removed.
lockdep_release_lock_dangling(t, l) ==
  /\ held' = [held EXCEPT ![t] = {r \in @ : r.lock # l}]
  /\ UNCHANGED <<current_held_lock, edges, warned>>
lockdep_release_lock_keeping(t, l) ==
  /\ current_held_lock' = [current_held_lock EXCEPT ![l] = None]
  /\ UNCHANGED <<held, edges, warned>>

\* lockdep_release_lock: every record of l leaves the caller's stack.
lockdep_release_lock(t, l) ==
  /\ held' = [held EXCEPT ![t] = {r \in @ : r.lock # l}]
  /\ current_held_lock' =
       [current_held_lock EXCEPT
          ![l] = IF \E r \in held[t] : r.lock = l THEN None ELSE @]
  /\ UNCHANGED <<edges, warned>>

----------------------------------------------------------------------------
(* The real pthread mutexes.                                               *)

Available(t, l) == owner[l] = None \/ (owner[l] = t /\ l \in Recursive)

real_pthread_mutex_lock(t, l) ==
  /\ Available(t, l)
  /\ depth[l] < MaxHeld
  /\ owner' = [owner EXCEPT ![l] = t]
  /\ depth' = [depth EXCEPT ![l] = @ + 1]

real_pthread_mutex_unlock(l) ==
  /\ owner' = [owner EXCEPT ![l] = IF depth[l] = 1 THEN None ELSE @]
  /\ depth' = [depth EXCEPT ![l] = @ - 1]

\* What the program asks for: any lock its nesting discipline allows.
MayAsk(t, l) ==
  /\ pc[t] = "run"
  /\ \A k \in Lock : owner[k] = t => <<k, l>> \in Nesting

Call(t, l, label) ==
  /\ pc' = [pc EXCEPT ![t] = label]
  /\ op' = [op EXCEPT ![t] = l]

Return(t) == Call(t, None, "run")

----------------------------------------------------------------------------
(* The interposed functions.                                               *)

\* pthread_mutex_lock records the request first; the answer is ignored.
pthread_mutex_lock(t, l) ==
  /\ MayAsk(t, l)
  /\ lockdep_acquire_lock(t, l)
  /\ Call(t, l, "locking")
  /\ UNCHANGED <<owner, depth>>

Locked(t) ==
  /\ pc[t] = "locking"
  /\ real_pthread_mutex_lock(t, op[t])
  /\ warned' = [warned EXCEPT ![t] = FALSE]
  /\ Return(t)
  /\ UNCHANGED <<held, edges, current_held_lock>>

\* pthread_mutex_trylock tries first; a busy mutex leaves no trace.
pthread_mutex_trylock(t, l) ==
  /\ l \in Tried
  /\ MayAsk(t, l)
  /\ real_pthread_mutex_lock(t, l)
  /\ Call(t, l, "trying")
  /\ UNCHANGED <<held, edges, current_held_lock, warned>>

TryRecorded(t) ==
  /\ pc[t] = "trying"
  /\ lockdep_acquire_lock(t, op[t])
  /\ IF warned'[t] THEN Call(t, op[t], "refused") ELSE Return(t)
  /\ UNCHANGED <<owner, depth>>

TryRefused(t) ==
  /\ pc[t] = "refused"
  /\ real_pthread_mutex_unlock(op[t])
  /\ warned' = [warned EXCEPT ![t] = FALSE]
  /\ Return(t)
  /\ UNCHANGED <<held, edges, current_held_lock>>

\* Faulty variant: a mutex can be unlocked by a thread that does not own it.
pthread_mutex_unlock_by_anyone(t, l) ==
  /\ pc[t] = "run"
  /\ real_pthread_mutex_unlock(l)
  /\ Call(t, l, "releasing")
  /\ UNCHANGED <<held, edges, current_held_lock, warned>>

\* pthread_mutex_unlock unlocks first; programs unlock what they own.
pthread_mutex_unlock(t, l) ==
  /\ pc[t] = "run"
  /\ owner[l] = t
  /\ real_pthread_mutex_unlock(l)
  /\ Call(t, l, "releasing")
  /\ UNCHANGED <<held, edges, current_held_lock, warned>>

Unlocked(t) ==
  /\ pc[t] = "releasing"
  /\ lockdep_release_lock(t, op[t])
  /\ Return(t)
  /\ UNCHANGED <<owner, depth>>

----------------------------------------------------------------------------
Init ==
  /\ pc = [t \in Thread |-> "run"]
  /\ op = [t \in Thread |-> None]
  /\ owner = [l \in Lock |-> None]
  /\ depth = [l \in Lock |-> 0]
  /\ held = [t \in Thread |-> {}]
  /\ edges = {}
  /\ current_held_lock = [l \in Lock |-> None]
  /\ warned = [t \in Thread |-> FALSE]

Next ==
  \E t \in Thread :
    \/ \E l \in Lock : \/ pthread_mutex_lock(t, l)
                       \/ pthread_mutex_trylock(t, l)
                       \/ pthread_mutex_unlock(t, l)
    \/ Locked(t)
    \/ TryRecorded(t)
    \/ TryRefused(t)
    \/ Unlocked(t)

Spec == Init /\ [][Next]_vars

----------------------------------------------------------------------------
(* Properties.                                                             *)

TypeOK ==
  /\ pc \in [Thread -> {"run", "locking", "trying", "refused", "releasing"}]
  /\ op \in [Thread -> Lock \cup {None}]
  /\ owner \in [Lock -> Thread \cup {None}]
  /\ depth \in [Lock -> 0 .. MaxHeld]
  /\ held \in [Thread -> SUBSET HeldLock]
  /\ edges \subseteq Lock \X Lock
  /\ current_held_lock \in [Lock -> Thread \cup {None}]
  /\ warned \in [Thread -> BOOLEAN]

(***************************************************************************)
(* D is a real deadlock: every thread of D sleeps in the real              *)
(* pthread_mutex_lock, on a mutex some thread of D owns.                   *)
(***************************************************************************)
CircularWait(D) ==
  /\ D # {}
  /\ \A t \in D : /\ pc[t] = "locking"
                  /\ owner[op[t]] \in D
                  /\ ~Available(t, op[t])

(***************************************************************************)
(* No deadlock goes unreported: of the threads of a deadlock, at least one *)
(* was told so (its call of lockdep_acquire_lock returned false and        *)
(* printed a cycle) before it went to sleep.  It holds for recursive       *)
(* mutexes, too, although the first unlock drops all their records.        *)
(***************************************************************************)
NoSilentDeadlock ==
  \A D \in SUBSET Thread : CircularWait(D) => \E t \in D : warned[t]

(***************************************************************************)
(* The graph remembers every nesting: although add_dependency_to_graph     *)
(* adds one edge, from the head of the stack, and locks are released in    *)
(* any order, a lock still held leads to every lock taken after it.        *)
(***************************************************************************)
OlderReachesNewer ==
  \A t \in Thread : \A r, s \in held[t] :
    r.at < s.at => Reaches(edges, r.lock, s.lock)

(***************************************************************************)
(* current_held_lock never dangles: the record it points to, which the     *)
(* report dereferences, is still in the stack of its thread.               *)
(***************************************************************************)
OwnerReferenceLive ==
  \A l \in Lock : current_held_lock[l] # None =>
    \E r \in held[current_held_lock[l]] : r.lock = l

(***************************************************************************)
(* No false alarm: a request is answered false only if what the program    *)
(* nests has a cycle to which the lock leads, whatever records the refused *)
(* trylocks of other locks have left behind. A program that nests its      *)
(* locks in one order is never accused.                                    *)
(***************************************************************************)
NoFalseAlarm == \A t \in Thread : warned[t] => has_cycle(Nesting, op[t])

----------------------------------------------------------------------------
(***************************************************************************)
(* The inductive invariant behind these properties (checked by TLC, used   *)
(* by the proofs of LockdepProofs).                                        *)
(***************************************************************************)

\* The real mutexes: a count per owner, one for a mutex that is not recursive.
MutexesSound ==
  \A l \in Lock : /\ owner[l] = None <=> depth[l] = 0
                  /\ l \notin Recursive => depth[l] <= 1

\* What a thread in the middle of a call relies on.
CallsSound ==
  \A t \in Thread :
    /\ pc[t] # "run" => op[t] \in Lock
    /\ pc[t] \in {"trying", "refused"} => owner[op[t]] = t
    /\ pc[t] = "refused" => warned[t]
    /\ warned[t] => pc[t] \in {"locking", "refused"}

\* A thread about to sleep has its request at the head of its stack.
RequestOnTop ==
  \A t \in Thread : pc[t] = "locking" =>
    \E r \in held[t] : r.lock = op[t] /\ \A q \in held[t] \ {r} : q.at < r.at

\* An older record than the request of a thread about to sleep, if it is.
Recorded(t, l) ==
  \E r \in held[t] :
    /\ r.lock = l
    /\ pc[t] = "locking" => \E s \in held[t] : r.at < s.at

\* A mutex in use, but for one got by a trylock not yet recorded, has a record
\* or lies on a cycle of the graph already ...
OwnedIsRecorded ==
  \A t \in Thread, l \in Lock :
    /\ owner[l] = t
    /\ pc[t] = "trying" /\ op[t] = l => depth[l] >= 2
    => has_cycle(edges, l) \/ Recorded(t, l)

\* ... and on a cycle it lies once it was taken twice: the second record puts
\* it there, and only then can an unlock that is not the last drop a record.
RelockIsCyclic ==
  \A t \in Thread, l \in Lock : owner[l] = t =>
    \/ has_cycle(edges, l)
    \/ /\ depth[l] <= IF pc[t] = "trying" /\ op[t] = l THEN 2 ELSE 1
       /\ ~(pc[t] = "releasing" /\ op[t] = l)

\* The record of a lock that leads to no cycle of the nesting is of a mutex the
\* thread owns, asks for or gives back, and its edges are within the nesting.
OrderlyEdges ==
  \A k, l \in Lock : <<k, l>> \in edges => <<k, l>> \in Nesting \/ has_cycle(Nesting, k)
OrderlyRecord(t, r) ==
  /\ owner[r.lock] = t \/ (pc[t] \in {"locking", "releasing"} /\ op[t] = r.lock)
  /\ pc[t] = "trying" => <<r.lock, op[t]>> \in Nesting
OrderlyRecords ==
  /\ OrderlyEdges
  /\ \A t \in Thread : \A r \in held[t] :
       has_cycle(Nesting, r.lock) \/ OrderlyRecord(t, r)

IInv ==
  /\ TypeOK
  /\ MutexesSound
  /\ CallsSound
  /\ RequestOnTop
  /\ OwnedIsRecorded
  /\ RelockIsCyclic
  /\ OrderlyRecords
  /\ OlderReachesNewer
  /\ OwnerReferenceLive
  /\ NoSilentDeadlock
  /\ NoFalseAlarm
============================================================================
