--------------------------- MODULE ProcessProofs ---------------------------
(***************************************************************************)
(* Proofs about the programs of more than one process: the ptrace monitor, *)
(* which runs another program, and the exercises that fork.                *)
(*                                                                         *)
(* The graph of the monitor's tracker stays acyclic, its holders are the   *)
(* owners and its walk along the owners finds the circular waits and       *)
(* nothing else, whoever the caller is; ptrace-lockdep is such a caller,   *)
(* and finds nothing, whatever the target does and however many threads    *)
(* and locks it has: its loop speaks of one thread only and never meets a  *)
(* lock of another owner, so that nobody ever waits. Its backtraces would  *)
(* tell the waits of the threads that are stopped, if the library kept     *)
(* frame pointers and its names were found.                                *)
(*                                                                         *)
(* The experiments of spawn.c leave no worker running behind, whichever    *)
(* call fails; and in the exercises with one or two forks a wait orders    *)
(* the output, and what was printed before a fork is written as often as   *)
(* processes end that had it.                                              *)
(***************************************************************************)
EXTENDS Backtrace, LockGraphProofs, Processes, FiniteSetTheorems, SequenceTheorems

----------------------------------------------------------------------------
(* LockTracker, for any caller of its operations.                          *)

\* A thread has one record of a lock at most.
OneRecord ==
  \A t \in Pid : \A x, y \in held_locks[t] : x.lock_addr = y.lock_addr => x = y

TrackerInv == TrackerTypeOK /\ OneRecord /\ HolderIsOwner /\ OrderIsAcyclic

LEMMA InitTracker == lock_tracker_init => TrackerInv
<1> SUFFICES ASSUME lock_tracker_init PROVE TrackerInv
  OBVIOUS
<1>1. TrackerTypeOK
  BY DEF lock_tracker_init, TrackerTypeOK
<1>2. OneRecord /\ HolderIsOwner
  BY DEF lock_tracker_init, OneRecord, HolderIsOwner
<1>3. OrderIsAcyclic
  BY NoEdgesNoCycle DEF lock_tracker_init, OrderIsAcyclic, graph_has_cycle
<1> QED BY <1>1, <1>2, <1>3 DEF TrackerInv

\* The graph changes in Acquire alone.
LEMMA SameGraph ==
  ASSUME OrderIsAcyclic, UNCHANGED lock_graph
  PROVE  OrderIsAcyclic'
  BY DEF OrderIsAcyclic, graph_has_cycle

LEMMA AcquireAgainKeeps ==
  ASSUME TrackerInv, NEW t \in Pid, NEW l \in Lock, NEW rec \in BOOLEAN,
         threads' = threads \cup {t}, AcquireAgain(t, l, rec)
  PROVE  TrackerInv'
<1> USE LockTrackerAssumption DEF AcquireAgain, TrackerInv
<1>1. PICK x \in thread_find_held_lock(t, l) :
        /\ rec => x.recursion_count < MaxCount
        /\ held_locks' = IF rec
             THEN [held_locks EXCEPT ![t] =
                    (@ \ {x}) \cup {[x EXCEPT !.recursion_count = @ + 1]}]
             ELSE held_locks
  OBVIOUS
<1> DEFINE y == [x EXCEPT !.recursion_count = @ + 1]
<1>2. x \in held_locks[t] /\ x \in held_lock_t /\ x.lock_addr = l
  BY DEF thread_find_held_lock, TrackerTypeOK
<1>3. rec => y \in held_lock_t /\ y.lock_addr = l
  BY <1>1, <1>2 DEF held_lock_t
<1> HIDE DEF y
<1>4. held_locks' = IF rec THEN [held_locks EXCEPT ![t] = (@ \ {x}) \cup {y}]
                    ELSE held_locks
  BY <1>1 DEF y
<1>5. TrackerTypeOK'
  BY <1>3, <1>4 DEF TrackerTypeOK
<1>6. OneRecord'
  BY <1>2, <1>3, <1>4 DEF OneRecord, TrackerTypeOK
<1>7. HolderIsOwner'
  BY <1>2, <1>3, <1>4 DEF HolderIsOwner, TrackerTypeOK
<1> QED BY <1>5, <1>6, <1>7, SameGraph

LEMMA ContendKeeps ==
  ASSUME TrackerInv, NEW t \in Pid, NEW l \in Lock,
         threads' = threads \cup {t}, Contend(t, l)
  PROVE  TrackerInv'
<1>1. TrackerTypeOK' /\ OneRecord' /\ HolderIsOwner'
  BY DEF Contend, TrackerInv, TrackerTypeOK, OneRecord, HolderIsOwner
<1> QED BY <1>1, SameGraph DEF TrackerInv, Contend

LEMMA AcquireKeeps ==
  ASSUME TrackerInv, NEW t \in Pid, NEW l \in Lock, NEW rec \in BOOLEAN,
         threads' = threads \cup {t}, Acquire(t, l, rec)
  PROVE  TrackerInv'
<1> DEFINE new == [lock_addr |-> l, is_recursive |-> rec, recursion_count |-> 1]
           H == {r.lock_addr : r \in {q \in held_locks[t] :
                                        ~would_create_cycle(q.lock_addr, l)}}
<1>1. new \in held_lock_t /\ new.lock_addr = l
  BY LockTrackerAssumption DEF held_lock_t
<1>2. \A q \in held_locks[t] : q \in held_lock_t /\ q.lock_addr \in Lock /\ q.lock_addr # l
  BY DEF Acquire, thread_find_held_lock, TrackerInv, TrackerTypeOK, held_lock_t
<1>3. Dependencies(t, l) = {<<h, l>> : h \in H}
  BY DEF Dependencies
<1>4. H \in SUBSET Lock /\ l \notin H
  BY <1>2
<1>5. \A h \in H : ~Reaches(lock_graph, l, h)
  BY DEF would_create_cycle
<1>6. OrderIsAcyclic'
  <2> HIDE DEF H, new
  <2>1. lock_graph' = lock_graph \cup {<<h, l>> : h \in H}
    BY <1>3 DEF Acquire
  <2>2. \A x \in Lock : ~Reaches(lock_graph, x, x)
    BY DEF TrackerInv, OrderIsAcyclic, graph_has_cycle
  <2>3. \A z \in Lock : ~Reaches(lock_graph \cup {<<h, l>> : h \in H}, z, z)
    BY <1>4, <1>5, <2>2, EdgesToOneLock
  <2>4. \A z \in Lock : ~Reaches(lock_graph', z, z)
    BY <2>1, <2>3
  <2> QED BY <2>4 DEF OrderIsAcyclic, graph_has_cycle
<1>7. lock_graph' \subseteq Lock \X Lock
  BY <1>3, <1>4 DEF Acquire, TrackerInv, TrackerTypeOK
<1> HIDE DEF H, new
<1>8. held_locks' = [held_locks EXCEPT ![t] = @ \cup {new}]
  BY DEF Acquire, new
<1>9. TrackerTypeOK'
  BY <1>1, <1>7, <1>8 DEF Acquire, TrackerInv, TrackerTypeOK
<1>10. OneRecord'
  BY <1>1, <1>2, <1>8 DEF TrackerInv, TrackerTypeOK, OneRecord
<1>11. HolderIsOwner'
  <2> SUFFICES ASSUME NEW u \in Pid, NEW r \in held_locks'[u]
               PROVE  owner_thread'[r.lock_addr] = u
    BY DEF HolderIsOwner
  <2>1. CASE u = t /\ r = new
    BY <1>1, <2>1 DEF Acquire, TrackerInv, TrackerTypeOK
  <2>2. CASE r \in held_locks[u]
    <3>1. owner_thread[r.lock_addr] = u /\ r.lock_addr \in Lock
      BY <2>2 DEF TrackerInv, HolderIsOwner, TrackerTypeOK, held_lock_t
    <3>2. r.lock_addr = l => u = t
      BY <3>1, LockTrackerAssumption DEF Acquire
    <3>3. r.lock_addr # l
      BY <1>2, <2>2, <3>2
    <3> QED BY <3>1, <3>3 DEF Acquire, TrackerInv, TrackerTypeOK
  <2> QED BY <1>8, <2>1, <2>2 DEF TrackerInv, TrackerTypeOK
<1> QED BY <1>6, <1>9, <1>10, <1>11 DEF TrackerInv

LEMMA ReleaseKeeps ==
  ASSUME TrackerInv, NEW t \in Pid, NEW l \in Lock, lock_tracker_register_release(t, l)
  PROVE  TrackerInv'
<1> USE DEF lock_tracker_register_release, TrackerInv
<1>1. CASE thread_find_held_lock(t, l) = {}
  <2>1. TrackerTypeOK' /\ OneRecord' /\ HolderIsOwner'
    BY <1>1 DEF TrackerTypeOK, OneRecord, HolderIsOwner
  <2> QED BY <2>1, SameGraph
<1>2. CASE thread_find_held_lock(t, l) # {}
  <2>1. PICK x \in thread_find_held_lock(t, l) :
          IF x.is_recursive /\ x.recursion_count > 1
          THEN /\ held_locks' = [held_locks EXCEPT ![t] =
                    (@ \ {x}) \cup {[x EXCEPT !.recursion_count = @ - 1]}]
               /\ UNCHANGED owner_thread
          ELSE /\ held_locks' = [held_locks EXCEPT ![t] = @ \ {x}]
               /\ owner_thread' = [owner_thread EXCEPT ![l] = None]
    BY <1>2
  <2>2. x \in held_locks[t] /\ x \in held_lock_t /\ x.lock_addr = l
    BY DEF thread_find_held_lock, TrackerTypeOK
  <2>3. CASE x.is_recursive /\ x.recursion_count > 1
    <3> DEFINE y == [x EXCEPT !.recursion_count = @ - 1]
    <3>1. y \in held_lock_t /\ y.lock_addr = l
      BY <2>2, <2>3, LockTrackerAssumption DEF held_lock_t
    <3> HIDE DEF y
    <3>2. held_locks' = [held_locks EXCEPT ![t] = (@ \ {x}) \cup {y}]
          /\ owner_thread' = owner_thread
      BY <2>1, <2>3 DEF y
    <3>3. TrackerTypeOK'
      BY <3>1, <3>2 DEF TrackerTypeOK
    <3>4. OneRecord' /\ HolderIsOwner'
      BY <2>2, <3>1, <3>2 DEF OneRecord, HolderIsOwner, TrackerTypeOK
    <3> QED BY <3>3, <3>4, SameGraph
  <2>4. CASE ~(x.is_recursive /\ x.recursion_count > 1)
    <3>1. /\ held_locks' = [held_locks EXCEPT ![t] = @ \ {x}]
          /\ owner_thread' = [owner_thread EXCEPT ![l] = None]
      BY <2>1, <2>4
    <3>2. TrackerTypeOK'
      BY <3>1 DEF TrackerTypeOK
    <3>3. OneRecord'
      BY <3>1 DEF OneRecord, TrackerTypeOK
    <3>4. HolderIsOwner'
      <4> SUFFICES ASSUME NEW u \in Pid, NEW r \in held_locks'[u]
                   PROVE  owner_thread'[r.lock_addr] = u
        BY DEF HolderIsOwner
      <4>1. r \in held_locks[u] /\ (u = t => r # x)
        BY <3>1 DEF TrackerTypeOK
      <4>2. owner_thread[r.lock_addr] = u /\ r.lock_addr \in Lock
        BY <4>1 DEF HolderIsOwner, TrackerTypeOK, held_lock_t
      <4>3. owner_thread[l] = t
        BY <2>2 DEF HolderIsOwner
      <4>4. r.lock_addr # l
        BY <2>2, <4>1, <4>2, <4>3 DEF OneRecord
      <4> QED BY <3>1, <4>2, <4>4 DEF TrackerTypeOK
    <3> QED BY <3>2, <3>3, <3>4, SameGraph
  <2> QED BY <2>3, <2>4
<1> QED BY <1>1, <1>2

LEMMA TrackerStep == TrackerInv /\ [TrackerNext]_tracker => TrackerInv'
<1> SUFFICES ASSUME TrackerInv, [TrackerNext]_tracker PROVE TrackerInv'
  OBVIOUS
<1>1. ASSUME NEW t \in Pid, lock_tracker_register_thread(t) PROVE TrackerInv'
  <2>1. TrackerTypeOK' /\ OneRecord' /\ HolderIsOwner'
    BY <1>1 DEF lock_tracker_register_thread, TrackerInv, TrackerTypeOK, OneRecord,
                HolderIsOwner
  <2> QED BY <1>1, <2>1, SameGraph DEF lock_tracker_register_thread, TrackerInv
<1>2. ASSUME NEW t \in Pid, lock_tracker_unregister_thread(t) PROVE TrackerInv'
  <2>1. TrackerTypeOK' /\ OneRecord' /\ HolderIsOwner'
    BY <1>2 DEF lock_tracker_unregister_thread, TrackerInv, TrackerTypeOK, OneRecord,
                HolderIsOwner
  <2> QED BY <1>2, <2>1, SameGraph DEF lock_tracker_unregister_thread, TrackerInv
<1>3. ASSUME NEW t \in Pid, NEW l \in Lock, NEW rec \in BOOLEAN,
             lock_tracker_register_acquisition(t, l, rec)
      PROVE  TrackerInv'
  BY <1>3, AcquireAgainKeeps, ContendKeeps, AcquireKeeps
     DEF lock_tracker_register_acquisition
<1>4. ASSUME NEW t \in Pid, NEW l \in Lock, lock_tracker_register_release(t, l)
      PROVE  TrackerInv'
  BY <1>4, ReleaseKeeps
<1>5. ASSUME lock_tracker_cleanup PROVE TrackerInv'
  <2>1. TrackerTypeOK'
    BY <1>5 DEF lock_tracker_cleanup, TrackerTypeOK
  <2>2. OneRecord' /\ HolderIsOwner'
    BY <1>5 DEF lock_tracker_cleanup, OneRecord, HolderIsOwner
  <2>3. OrderIsAcyclic'
    BY <1>5, NoEdgesNoCycle DEF lock_tracker_cleanup, OrderIsAcyclic, graph_has_cycle
  <2> QED BY <2>1, <2>2, <2>3 DEF TrackerInv
<1>6. CASE UNCHANGED tracker
  <2>1. TrackerTypeOK' /\ OneRecord' /\ HolderIsOwner'
    BY <1>6 DEF tracker, TrackerInv, TrackerTypeOK, OneRecord, HolderIsOwner
  <2> QED BY <1>6, <2>1, SameGraph DEF tracker, TrackerInv
<1> QED BY <1>1, <1>2, <1>3, <1>4, <1>5, <1>6 DEF TrackerNext

----------------------------------------------------------------------------
LEMMA TrackerInvariant == TrackerSpec => []TrackerInv
  BY InitTracker, TrackerStep, PTL DEF TrackerSpec

\* Whoever calls the tracker, however lock orders conflict: its graph has no
\* cycle, and the test of graph_has_cycle never answers true (OrderIsAcyclic).
THEOREM GraphStaysAcyclic == TrackerSpec => []OrderIsAcyclic
  BY TrackerInvariant, PTL DEF TrackerInv

\* Whoever calls the tracker: a thread that holds a lock is the owner on record,
\* and no two threads hold one lock (HolderIsOwner).
THEOREM HoldersAreOwners == TrackerSpec => []HolderIsOwner
  BY TrackerInvariant, PTL DEF TrackerInv

----------------------------------------------------------------------------
(* The walk of detect_wait_for_cycle.                                      *)

\* The walk of detect_wait_for_cycle, step by step.
LEMMA WalkExists ==
  ASSUME NEW t, NEW m \in Nat
  PROVE  \E g : g = [n \in 0 .. m |-> IF n = 0 THEN WaitsFor(t) ELSE WaitsFor(g[n - 1])]
<1> DEFINE Good(k) == \E g : g = [n \in 0 .. k |-> IF n = 0 THEN WaitsFor(t)
                                                   ELSE WaitsFor(g[n - 1])]
           S == {k \in Nat : ~Good(k)}
<1> SUFFICES ASSUME S # {} PROVE FALSE
  OBVIOUS
<1>1. PICK k \in S : \A j \in S : k <= j
  BY NatHasLeast, S \in SUBSET Nat
<1>2. k # 0
  <2>1. [n \in 0 .. 0 |-> WaitsFor(t)]
          = [n \in 0 .. 0 |-> IF n = 0 THEN WaitsFor(t)
                              ELSE WaitsFor([i \in 0 .. 0 |-> WaitsFor(t)][n - 1])]
    OBVIOUS
  <2> QED BY <1>1, <2>1
<1>3. k \in Nat /\ k - 1 \in Nat /\ Good(k - 1)
  <2>1. k \in Nat
    BY <1>1
  <2> HIDE DEF Good
  <2> QED BY <1>1, <1>2, <2>1
<1>4. PICK g : g = [n \in 0 .. k - 1 |-> IF n = 0 THEN WaitsFor(t) ELSE WaitsFor(g[n - 1])]
  BY <1>3
<1> DEFINE h == [n \in 0 .. k |-> IF n = k THEN WaitsFor(g[k - 1]) ELSE g[n]]
<1>5. h = [n \in 0 .. k |-> IF n = 0 THEN WaitsFor(t) ELSE WaitsFor(h[n - 1])]
  <2> HIDE DEF S
  <2>1. ASSUME NEW n \in 0 .. k
        PROVE  h[n] = IF n = 0 THEN WaitsFor(t) ELSE WaitsFor(h[n - 1])
    <3>1. k \in Nat
      BY <1>3
    <3>2. CASE n = k
      <4>1. k - 1 \in 0 .. k /\ k - 1 # k
        BY <1>2, <3>1
      <4> QED BY <1>2, <3>2, <4>1
    <3>3. CASE n # k
      <4>1. n \in 0 .. k - 1 /\ (n # 0 => n - 1 \in 0 .. k /\ n - 1 # k)
        BY <3>1, <3>3
      <4> QED BY <1>4, <3>3, <4>1
    <3> QED BY <3>2, <3>3
  <2> QED BY <2>1
<1> QED BY <1>1, <1>5

LEMMA ChainSteps ==
  ASSUME IsFiniteSet(threads), NEW t
  PROVE  /\ Cardinality(threads) \in Nat
         /\ Chain(t)[0] = WaitsFor(t)
         /\ \A n \in 1 .. Cardinality(threads) : Chain(t)[n] = WaitsFor(Chain(t)[n - 1])
<1> DEFINE N == Cardinality(threads)
<1>1. N \in Nat
  BY FS_CardinalityType
<1>2. PICK g : g = [n \in 0 .. N |-> IF n = 0 THEN WaitsFor(t) ELSE WaitsFor(g[n - 1])]
  BY <1>1, WalkExists
<1>3. Chain(t) = CHOOSE f : f = [n \in 0 .. N |-> IF n = 0 THEN WaitsFor(t)
                                                  ELSE WaitsFor(f[n - 1])]
  BY DEF Chain
<1>4. Chain(t) = [n \in 0 .. N |-> IF n = 0 THEN WaitsFor(t) ELSE WaitsFor(Chain(t)[n - 1])]
  BY <1>2, <1>3, Zenon
<1> HIDE DEF N
<1>5. /\ Chain(t)[0] = WaitsFor(t)
      /\ \A n \in 1 .. N : Chain(t)[n] = WaitsFor(Chain(t)[n - 1])
  <2> DEFINE f == Chain(t)
  <2>1. f = [n \in 0 .. N |-> IF n = 0 THEN WaitsFor(t) ELSE WaitsFor(f[n - 1])]
    BY <1>4
  <2> HIDE DEF f
  <2>2. f[0] = WaitsFor(t) /\ \A n \in 1 .. N : f[n] = WaitsFor(f[n - 1])
    BY <1>1, <2>1
  <2> QED BY <2>2 DEF f
<1> QED BY <1>1, <1>5 DEF N

\* A thread that waits for itself, or nobody, ends the walk.
LEMMA ChainStops ==
  ASSUME IsFiniteSet(threads), NEW t, NEW n \in 0 .. Cardinality(threads),
         WaitsFor(Chain(t)[n]) = Chain(t)[n],
         NEW m \in n .. Cardinality(threads)
  PROVE  Chain(t)[m] = Chain(t)[n]
<1> DEFINE N == Cardinality(threads)
           S == {k \in n .. N : Chain(t)[k] # Chain(t)[n]}
<1>1. /\ N \in Nat
      /\ \A k \in 1 .. N : Chain(t)[k] = WaitsFor(Chain(t)[k - 1])
  BY ChainSteps
<1> HIDE DEF N
<1>2. n \in 0 .. N /\ m \in n .. N
  BY DEF N
<1> SUFFICES ASSUME S # {} PROVE FALSE
  BY <1>2
<1>3. PICK k \in S : \A j \in S : k <= j
  <2>1. S \in SUBSET Nat
    BY <1>1, <1>2
  <2> HIDE DEF S
  <2> QED BY <2>1, NatHasLeast
<1>4. k # n /\ k - 1 \in n .. N /\ k \in 1 .. N /\ k - 1 \notin S
  BY <1>1, <1>2, <1>3
<1> QED BY <1>1, <1>3, <1>4

\* It does not leave a set of threads that wait for one another.
LEMMA ChainStays ==
  ASSUME IsFiniteSet(threads), NEW D, NEW t \in D, \A d \in D : WaitsFor(d) \in D,
         NEW m \in 0 .. Cardinality(threads)
  PROVE  Chain(t)[m] \in D
<1> DEFINE N == Cardinality(threads)
           S == {k \in 0 .. N : Chain(t)[k] \notin D}
<1>1. /\ N \in Nat /\ Chain(t)[0] = WaitsFor(t)
      /\ \A k \in 1 .. N : Chain(t)[k] = WaitsFor(Chain(t)[k - 1])
  BY ChainSteps
<1> HIDE DEF N
<1>2. m \in 0 .. N
  BY DEF N
<1> SUFFICES ASSUME S # {} PROVE FALSE
  BY <1>2
<1>3. PICK k \in S : \A j \in S : k <= j
  <2>1. S \in SUBSET Nat
    BY <1>1
  <2> HIDE DEF S
  <2> QED BY <2>1, NatHasLeast
<1>4. k # 0 /\ k - 1 \in 0 .. N /\ k \in 1 .. N /\ k - 1 \notin S
  BY <1>1, <1>3
<1> QED BY <1>1, <1>3, <1>4

\* The walk from a thread met on the way is the rest of the way.
LEMMA ChainJoins ==
  ASSUME IsFiniteSet(threads), NEW t, NEW i \in 0 .. Cardinality(threads),
         NEW m \in Nat, i + 1 + m <= Cardinality(threads)
  PROVE  Chain(Chain(t)[i])[m] = Chain(t)[i + 1 + m]
<1> DEFINE N == Cardinality(threads)
           u == Chain(t)[i]
           S == {k \in Nat : i + 1 + k <= N /\ Chain(u)[k] # Chain(t)[i + 1 + k]}
<1>1. /\ N \in Nat
      /\ \A k \in 1 .. N : Chain(t)[k] = WaitsFor(Chain(t)[k - 1])
      /\ Chain(u)[0] = WaitsFor(u)
      /\ \A k \in 1 .. N : Chain(u)[k] = WaitsFor(Chain(u)[k - 1])
  BY ChainSteps
<1> HIDE DEF N
<1>2. i \in 0 .. N /\ i + 1 + m <= N
  BY DEF N
<1> SUFFICES ASSUME S # {} PROVE FALSE
  BY <1>2
<1>3. PICK k \in S : \A j \in S : k <= j
  <2>1. S \in SUBSET Nat
    OBVIOUS
  <2> HIDE DEF S
  <2> QED BY <2>1, NatHasLeast
<1> HIDE DEF u
<1>4. k # 0
  <2>1. i + 1 \in 1 .. N /\ (i + 1) - 1 = i
    BY <1>1, <1>2, m \in Nat
  <2>2. Chain(t)[i + 1] = WaitsFor(u)
    BY <1>1, <2>1 DEF u
  <2>3. i + 1 + 0 = i + 1
    BY <1>2
  <2> QED BY <1>1, <1>3, <2>2, <2>3
<1>5. /\ k - 1 \in Nat /\ k \in 1 .. N /\ i + 1 + k \in 1 .. N
      /\ (i + 1 + k) - 1 = i + 1 + (k - 1)
      /\ k - 1 \notin S /\ i + 1 + (k - 1) <= N
  BY <1>1, <1>2, <1>3, <1>4
<1>6. Chain(u)[k - 1] = Chain(t)[i + 1 + (k - 1)]
  BY <1>5
<1> QED BY <1>1, <1>3, <1>5, <1>6

\* A thread met at the start of its own walk closes a set of threads that wait for
\* one another; and in such a set the walk of one more step than there are threads
\* meets a thread twice, which then closes its own walk in time.
LEMMA WaitCyclesAreExact ==
  ASSUME IsFiniteSet(threads), threads \subseteq Pid
  PROVE  WaitCycleIsExact
<1> DEFINE N == Cardinality(threads)
<1>1. N \in Nat
  BY ChainSteps
<1>2. WaitsFor(None) = None
  BY LockTrackerAssumption DEF WaitsFor
<1>3. ASSUME detect_wait_for_cycle
      PROVE  \E D \in SUBSET threads : D # {} /\ \A t \in D : WaitsFor(t) \in D \ {t}
  <2>1. PICK t \in threads, n \in 0 .. N : WaitsFor(t) \notin {None, t} /\ Chain(t)[n] = t
    BY <1>3 DEF detect_wait_for_cycle
  <2> DEFINE D == {Chain(t)[i] : i \in 0 .. n}
  <2>2. ASSUME NEW i \in 0 .. n
        PROVE  /\ Chain(t)[i] \in threads
               /\ WaitsFor(Chain(t)[i]) \in D \ {Chain(t)[i]}
    <3>1. CASE i = n
      <4>1. Chain(t)[0] = WaitsFor(t) /\ 0 \in 0 .. n
        BY <1>1, ChainSteps
      <4> QED BY <2>1, <3>1, <4>1
    <3>2. CASE i # n
      <4>1. i + 1 \in 1 .. N /\ i + 1 \in 0 .. n /\ (i + 1) - 1 = i /\ n \in i .. N
            /\ i \in 0 .. N /\ n \in i + 1 .. N /\ i + 1 \in 0 .. N
        BY <1>1, <2>2, <3>2
      <4>2. Chain(t)[i + 1] = WaitsFor(Chain(t)[i])
        BY <4>1, ChainSteps
      <4>3. WaitsFor(Chain(t)[i]) # Chain(t)[i]
        <5> SUFFICES ASSUME WaitsFor(Chain(t)[i]) = Chain(t)[i] PROVE FALSE
          OBVIOUS
        <5>1. Chain(t)[n] = Chain(t)[i]
          BY <4>1, ChainStops
        <5> QED BY <2>1, <5>1
      <4>4. Chain(t)[i] \in threads
        <5> SUFFICES ASSUME Chain(t)[i] \notin threads PROVE FALSE
          OBVIOUS
        <5>1. Chain(t)[i + 1] = None
          BY <4>2 DEF WaitsFor
        <5>2. Chain(t)[n] = Chain(t)[i + 1]
          BY <1>2, <4>1, <5>1, ChainStops
        <5> QED BY <2>1, <5>1, <5>2, LockTrackerAssumption
      <4> QED BY <4>1, <4>2, <4>3, <4>4
    <3> QED BY <3>1, <3>2
  <2>3. D \in SUBSET threads /\ D # {}
    BY <1>1, <2>2
  <2>4. \A d \in D : WaitsFor(d) \in D \ {d}
    BY <2>2
  <2> HIDE DEF D
  <2> QED BY <2>3, <2>4
<1>4. ASSUME NEW D \in SUBSET threads, D # {}, \A t \in D : WaitsFor(t) \in D \ {t}
      PROVE  detect_wait_for_cycle
  <2>1. PICK t \in D : TRUE
    BY <1>4
  <2> DEFINE f == [i \in 0 .. N |-> Chain(t)[i]]
  <2>2. f \in [0 .. N -> threads]
    <3>1. \A i \in 0 .. N : Chain(t)[i] \in D
      BY <1>4, ChainStays
    <3> QED BY <3>1
  <2>3. Cardinality(0 .. N) = N + 1 /\ IsFiniteSet(0 .. N)
    BY <1>1, FS_Interval
  <2>4. PICK x, y \in 0 .. N : x # y /\ f[x] = f[y]
    <3> HIDE DEF f
    <3>1. N < Cardinality(0 .. N)
      BY <1>1, <2>3
    <3> QED BY <2>2, <2>3, <3>1, FS_PigeonHole
  <2>5. PICK i, j \in 0 .. N : i < j /\ Chain(t)[i] = Chain(t)[j]
    BY <1>1, <2>4
  <2> DEFINE u == Chain(t)[i]
  <2>6. u \in D
    BY <1>4, ChainStays
  <2>7. WaitsFor(u) \notin {None, u} /\ WaitsFor(u) \in threads
    BY <1>4, <2>6, LockTrackerAssumption
  <2>8. /\ j - i - 1 \in Nat /\ i + 1 + (j - i - 1) = j /\ j <= N
        /\ j - i - 1 \in 0 .. N
    BY <1>1, <2>5
  <2>9. Chain(u)[j - i - 1] = u
    BY <2>5, <2>8, ChainJoins
  <2>10. N >= 2
    <3>1. {u, WaitsFor(u)} \subseteq threads
      BY <2>6, <2>7
    <3>2. IsFiniteSet({u}) /\ Cardinality({u}) = 1
      BY FS_Singleton
    <3>3. Cardinality({u} \cup {WaitsFor(u)}) = 2
      <4>1. WaitsFor(u) \notin {u}
        BY <2>7
      <4> HIDE DEF u
      <4>2. Cardinality({u} \cup {WaitsFor(u)}) = Cardinality({u}) + 1
        BY <3>2, <4>1, FS_AddElement
      <4> QED BY <3>2, <4>2
    <3>4. Cardinality({u, WaitsFor(u)}) <= N
      BY <3>1, FS_Subset
    <3>5. {u} \cup {WaitsFor(u)} = {u, WaitsFor(u)}
      OBVIOUS
    <3> QED BY <1>1, <3>3, <3>4, <3>5
  <2> HIDE DEF u
  <2> QED BY <2>6, <2>7, <2>8, <2>9, <2>10 DEF detect_wait_for_cycle
<1> QED BY <1>3, <1>4 DEF WaitCycleIsExact

\* One call registers one thread at most, so that the threads are finitely many,
\* and the walk ends.
FinitelyMany == IsFiniteSet(threads)

LEMMA FiniteThreads == TrackerSpec => []FinitelyMany
<1>1. lock_tracker_init => FinitelyMany
  BY FS_EmptySet DEF lock_tracker_init, FinitelyMany
<1>2. FinitelyMany /\ [TrackerNext]_tracker => FinitelyMany'
  <2> USE DEF FinitelyMany
  <2> SUFFICES ASSUME IsFiniteSet(threads), [TrackerNext]_tracker
               PROVE  IsFiniteSet(threads')
    OBVIOUS
  <2>1. ASSUME NEW t \in Pid, threads' = threads \cup {t} PROVE IsFiniteSet(threads')
    BY <2>1, FS_AddElement
  <2>2. ASSUME NEW t \in Pid, threads' = threads \ {t} PROVE IsFiniteSet(threads')
    BY <2>2, FS_RemoveElement
  <2>3. CASE threads' = {}
    BY <2>3, FS_EmptySet
  <2>4. CASE threads' = threads
    BY <2>4
  <2> QED BY <2>1, <2>2, <2>3, <2>4
          DEF TrackerNext, tracker, lock_tracker_register_thread,
              lock_tracker_unregister_thread, lock_tracker_register_acquisition,
              lock_tracker_register_release, lock_tracker_cleanup
<1> QED BY <1>1, <1>2, PTL DEF TrackerSpec

\* Whoever calls the tracker, and however many threads it is told of: its walk
\* along the owners finds the circular waits and nothing else (WaitCycleIsExact).
THEOREM WaitCyclesAreFound == TrackerSpec => []WaitCycleIsExact
<1>1. TrackerInv => threads \subseteq Pid
  BY DEF TrackerInv, TrackerTypeOK
<1>2. TrackerInv /\ FinitelyMany => WaitCycleIsExact
  BY <1>1, WaitCyclesAreExact DEF FinitelyMany
<1> QED BY <1>2, TrackerInvariant, FiniteThreads, PTL

----------------------------------------------------------------------------
(* PtraceMonitor.                                                          *)

\* A call in progress names a mutex, or the new thread.
CallsNamed ==
  \A t \in Pid : /\ tpc[t] \in {"wait", "asleep", "waited", "wake", "woke"} => op[t] \in Lock
                 /\ tpc[t] = "cloned" => op[t] \in Pid

TargetTyped == tpc \in [Pid -> Stops \cup {"run", "asleep", "unborn"}]
               /\ op \in [Pid -> Lock \cup Pid \cup {None}]

\* The loop knows of one owner, and of nobody that waits.
OneOwner ==
  driver = "main.c" => /\ \A l \in Lock : owner_thread[l] \in {None, target_pid}
                       /\ \A t \in Pid : waiting_for_lock[t] = None
                       /\ deadlock_found = FALSE

MonitorInv == CallsNamed /\ TargetTyped /\ TrackerInv /\ OneOwner

\* Under OneOwner the three tests all answer no.
LEMMA NothingToFind ==
  ASSUME MonitorInv, driver = "main.c"
  PROVE  ~lock_tracker_check_deadlocks
<1> USE DEF MonitorInv, OneOwner
<1>1. ~graph_has_cycle
  BY DEF TrackerInv, OrderIsAcyclic
<1>2. threads \subseteq Pid
  BY DEF TrackerInv, TrackerTypeOK
<1>3. ~detect_wait_for_cycle
  <2>1. \A t \in threads : WaitsFor(t) = None
    BY <1>2 DEF WaitsFor
  <2> QED BY <2>1 DEF detect_wait_for_cycle
<1>4. {t \in threads : waiting_for_lock[t] # None} = {}
  BY <1>2
<1>5. Cardinality({}) = 0
  BY FS_EmptySet
<1>6. ~(Cardinality({t \in threads : waiting_for_lock[t] # None}) >= 2)
  <2>1. Cardinality({t \in threads : waiting_for_lock[t] # None}) = 0
    BY <1>4, <1>5, Zenon
  <2> QED BY <2>1
<1> QED BY <1>1, <1>3, <1>6 DEF lock_tracker_check_deadlocks

LEMMA InitMonitor == Init => MonitorInv
<1> SUFFICES ASSUME Init PROVE MonitorInv
  OBVIOUS
<1>1. TrackerInv
  BY InitTracker DEF Init
<1>2. CallsNamed /\ TargetTyped
  BY DEF Init, CallsNamed, TargetTyped, Stops
<1>3. OneOwner
  BY DEF Init, OneOwner, lock_tracker_init
<1> QED BY <1>1, <1>2, <1>3 DEF MonitorInv

\* The target moves: its calls keep their names, and the tracker is not told.
LEMMA TargetKeeps ==
  ASSUME MonitorInv, NEW t \in Pid, TargetMoves(t)
  PROVE  CallsNamed' /\ TargetTyped'
<1> USE DEF MonitorInv, CallsNamed, TargetTyped, Stops
<1>1. ASSUME NEW l \in Lock, Lock_(t, l) PROVE CallsNamed' /\ TargetTyped'
  BY <1>1 DEF Lock_, Goto
<1>2. ASSUME NEW l \in Lock, Unlock(t, l) PROVE CallsNamed' /\ TargetTyped'
  BY <1>2 DEF Unlock, Goto
<1>3. CASE Wait(t)
  BY <1>3 DEF Wait, Goto
<1>4. CASE Wake(t)
  BY <1>4 DEF Wake, Goto
<1>5. CASE Clone(t)
  BY <1>5 DEF Clone
<1>6. CASE Back(t)
  BY <1>6 DEF Back, Goto
<1>7. CASE Exit(t)
  BY <1>7 DEF Exit, Goto
<1>8. CASE Gone(t)
  BY <1>8 DEF Gone
<1> QED BY <1>1, <1>2, <1>3, <1>4, <1>5, <1>6, <1>7, <1>8 DEF TargetMoves

\* The handlers are calls of the tracker, and speak of target_pid.
LEMMA HandlerKeeps ==
  ASSUME MonitorInv, syscall_process(target_pid)
  PROVE  /\ TrackerInv'
         /\ driver = "main.c" /\ UNCHANGED <<driver, deadlock_found>> => OneOwner'
<1> USE PtraceMonitorAssumption DEF MonitorInv
<1>1. CASE tpc[target_pid] = "wait"
           /\ lock_tracker_register_acquisition(target_pid, op[target_pid], FALSE)
  <2>1. op[target_pid] \in Lock /\ FALSE \in BOOLEAN
    BY <1>1 DEF CallsNamed
  <2>2. TrackerInv'
    BY <1>1, <2>1, TrackerStep DEF TrackerNext
  <2>3. ASSUME driver = "main.c" PROVE ~Contend(target_pid, op[target_pid])
    BY <2>1, <2>3 DEF OneOwner, Contend
  <2>4. driver = "main.c" /\ UNCHANGED <<driver, deadlock_found>> => OneOwner'
    BY <1>1, <2>1, <2>3
       DEF OneOwner, lock_tracker_register_acquisition, AcquireAgain, Acquire,
           TrackerInv, TrackerTypeOK
  <2> QED BY <2>2, <2>4
<1>2. CASE tpc[target_pid] = "wake"
           /\ lock_tracker_register_release(target_pid, op[target_pid])
  <2>1. op[target_pid] \in Lock
    BY <1>2 DEF CallsNamed
  <2>2. TrackerInv'
    BY <1>2, <2>1, TrackerStep DEF TrackerNext
  <2>3. owner_thread' = owner_thread
        \/ owner_thread' = [owner_thread EXCEPT ![op[target_pid]] = None]
    BY <1>2 DEF lock_tracker_register_release
  <2>4. driver = "main.c" /\ UNCHANGED <<driver, deadlock_found>> => OneOwner'
    BY <1>2, <2>1, <2>3
       DEF OneOwner, lock_tracker_register_release, TrackerInv, TrackerTypeOK
  <2> QED BY <2>2, <2>4
<1>3. CASE UNCHANGED tracker
  <2>1. TrackerInv'
    BY <1>3, TrackerStep
  <2> QED BY <1>3, <2>1 DEF OneOwner, tracker
<1>4. CASE syscall_handle_clone(target_pid)
  <2>1. op[target_pid] \in Pid /\ lock_tracker_register_thread(op[target_pid])
    BY <1>4 DEF syscall_handle_clone, CallsNamed
  <2>2. TrackerInv'
    BY <2>1, TrackerStep DEF TrackerNext
  <2> QED BY <2>1, <2>2 DEF OneOwner, lock_tracker_register_thread
<1>5. CASE syscall_handle_exit(target_pid)
  <2>1. lock_tracker_unregister_thread(target_pid)
    BY <1>5 DEF syscall_handle_exit
  <2>2. TrackerInv'
    BY <2>1, TrackerStep DEF TrackerNext
  <2> QED BY <2>1, <2>2 DEF OneOwner, lock_tracker_unregister_thread, TrackerInv,
                            TrackerTypeOK
<1> QED BY <1>1, <1>2, <1>3, <1>4, <1>5 DEF syscall_process, syscall_handle_futex

LEMMA MonitorStep == MonitorInv /\ [Next]_vars => MonitorInv'
<1> SUFFICES ASSUME MonitorInv, [Next]_vars PROVE MonitorInv'
  OBVIOUS
<1> USE DEF MonitorInv
\* Steps that leave the tracker alone.
<1>1. ASSUME UNCHANGED <<tracker, driver, deadlock_found>> PROVE TrackerInv' /\ OneOwner'
  <2>1. TrackerInv'
    BY <1>1, TrackerStep
  <2> QED BY <1>1, <2>1 DEF OneOwner, tracker
<1>2. ASSUME UNCHANGED target PROVE CallsNamed' /\ TargetTyped'
  BY <1>2 DEF target, CallsNamed, TargetTyped
<1>3. ASSUME NEW t \in Pid, TargetMoves(t) PROVE MonitorInv'
  BY <1>1, <1>3, TargetKeeps DEF TargetMoves
<1>4. CASE Monitor
  <2>1. CASE ptrace_attach
    BY <1>1, <1>2, <2>1 DEF ptrace_attach
  <2>2. CASE analyze_existing_deadlocks
    <3>1. driver = "main.c"
      BY <1>4 DEF Monitor
    <3>2. ~lock_tracker_check_deadlocks
      BY <3>1, NothingToFind
    <3>3. deadlock_found' = FALSE
      BY <2>2, <3>2 DEF analyze_existing_deadlocks
    <3>4. deadlock_found = FALSE
      BY <3>1 DEF OneOwner
    <3> QED BY <1>1, <1>2, <2>2, <3>3, <3>4 DEF analyze_existing_deadlocks
  <2>3. CASE ptrace_attach_all_threads
    <3>1. lock_tracker_register_thread(target_pid) /\ UNCHANGED <<driver, deadlock_found, target>>
      BY <2>3 DEF ptrace_attach_all_threads
    <3>2. TrackerInv'
      BY <3>1, TrackerStep, PtraceMonitorAssumption DEF TrackerNext
    <3>3. OneOwner'
      BY <3>1 DEF OneOwner, lock_tracker_register_thread
    <3> QED BY <1>2, <3>1, <3>2, <3>3
  <2>4. CASE monitor_process
    BY <1>1, <1>2, <2>4 DEF monitor_process
  <2>5. CASE ptrace_wait_for_syscall
    <3>1. UNCHANGED <<driver, deadlock_found, target>>
      BY <2>5 DEF ptrace_wait_for_syscall
    <3>2. CASE UNCHANGED tracker
      BY <1>1, <1>2, <3>1, <3>2
    <3>3. CASE syscall_process(target_pid)
      <4>1. TrackerInv' /\ OneOwner'
        BY <1>4, <3>1, <3>3, HandlerKeeps DEF Monitor
      <4> QED BY <1>2, <3>1, <4>1
    <3> QED BY <2>5, <3>2, <3>3 DEF ptrace_wait_for_syscall
  <2>6. CASE CheckDeadlocks
    <3>1. ~lock_tracker_check_deadlocks
      BY <1>4, NothingToFind DEF Monitor
    <3>2. UNCHANGED <<tracker, driver, deadlock_found, target>>
      BY <2>6, <3>1 DEF CheckDeadlocks
    <3> QED BY <1>1, <1>2, <3>2
  <2>7. CASE cleanup_subsystems
    <3>1. lock_tracker_cleanup /\ UNCHANGED <<driver, deadlock_found, target>>
      BY <2>7 DEF cleanup_subsystems
    <3>2. TrackerInv'
      BY <3>1, TrackerStep DEF TrackerNext
    <3>3. OneOwner'
      BY <3>1 DEF OneOwner, lock_tracker_cleanup
    <3> QED BY <1>2, <3>1, <3>2, <3>3
  <2> QED BY <1>4, <2>1, <2>2, <2>3, <2>4, <2>5, <2>6, <2>7 DEF Monitor
<1>5. CASE signal_handler
  BY <1>1, <1>2, <1>5 DEF signal_handler
<1>6. CASE OtherCaller
  <2>1. TrackerInv'
    BY <1>6, TrackerStep DEF OtherCaller
  <2>2. OneOwner'
    BY <1>6 DEF OtherCaller, OneOwner
  <2> QED BY <1>2, <1>6, <2>1, <2>2 DEF OtherCaller
<1>7. CASE UNCHANGED vars
  BY <1>1, <1>2, <1>7 DEF vars
<1> QED BY <1>3, <1>4, <1>5, <1>6, <1>7 DEF Next

\* ptrace-lockdep never finds a deadlock, existing or new, real or potential:
\* neither the summary nor any check of its loop says so (FindsNothing).
THEOREM NothingIsFound == Spec => []FindsNothing
<1>1. Spec => []MonitorInv
  BY InitMonitor, MonitorStep, PTL DEF Spec
<1>2. MonitorInv => FindsNothing
  BY NothingToFind DEF FindsNothing, MonitorInv, OneOwner
<1> QED BY <1>1, <1>2, PTL

\* A step of the monitor is a call of the tracker, or none of its business.
LEMMA CallerStep == MonitorInv /\ [Next]_vars => [TrackerNext]_tracker
<1> SUFFICES ASSUME MonitorInv, [Next]_vars PROVE TrackerNext \/ UNCHANGED tracker
  OBVIOUS
<1> USE PtraceMonitorAssumption
<1>1. CASE syscall_process(target_pid)
  <2>1. CASE syscall_handle_futex(target_pid)
    <3>1. tpc[target_pid] \in {"wait", "wake"} => op[target_pid] \in Lock
      BY DEF MonitorInv, CallsNamed
    <3> QED BY <2>1, <3>1 DEF syscall_handle_futex, TrackerNext
  <2>2. CASE syscall_handle_clone(target_pid)
    <3>1. op[target_pid] \in Pid
      BY <2>2 DEF syscall_handle_clone, MonitorInv, CallsNamed
    <3> QED BY <2>2, <3>1 DEF syscall_handle_clone, TrackerNext
  <2>3. CASE syscall_handle_exit(target_pid)
    BY <2>3 DEF syscall_handle_exit, TrackerNext
  <2> QED BY <1>1, <2>1, <2>2, <2>3 DEF syscall_process
<1>2. CASE Monitor
  <2>1. ptrace_attach_all_threads => TrackerNext
    BY DEF ptrace_attach_all_threads, TrackerNext
  <2>2. cleanup_subsystems => TrackerNext
    BY DEF cleanup_subsystems, TrackerNext
  <2>3. ptrace_wait_for_syscall => UNCHANGED tracker \/ syscall_process(target_pid)
    BY DEF ptrace_wait_for_syscall
  <2> QED BY <1>1, <1>2, <2>1, <2>2, <2>3
          DEF Monitor, ptrace_attach, analyze_existing_deadlocks, monitor_process,
              CheckDeadlocks
<1>3. CASE OtherCaller
  BY <1>3 DEF OtherCaller
<1>4. CASE \E t \in Pid : TargetMoves(t)
  BY <1>4 DEF TargetMoves
<1> QED BY <1>2, <1>3, <1>4 DEF Next, vars, signal_handler

\* The loop of ptrace-lockdep is a caller of the tracker like any other: it keeps
\* what lock_tracker.h asks of one, and gets the promises made to all of them.
THEOREM LoopIsACaller == Spec => TrackerSpec
<1>1. Spec => []MonitorInv
  BY InitMonitor, MonitorStep, PTL DEF Spec
<1>2. Init => lock_tracker_init
  BY DEF Init
<1> QED BY <1>1, <1>2, CallerStep, PTL DEF Spec, TrackerSpec

\* So the graph is acyclic, the holders are the owners and the walk is exact
\* beside any target, whatever calls it makes.
THEOREM TrackerBesideTarget == Spec => [](OrderIsAcyclic /\ HolderIsOwner /\ WaitCycleIsExact)
  BY LoopIsACaller, GraphStaysAcyclic, HoldersAreOwners, WaitCyclesAreFound, PTL

----------------------------------------------------------------------------
(* Backtrace.                                                              *)

\* A stopped thread that waits for a mutex shows the frames of the wait.
Waits(t) == Stopped(t) /\ tpc[t] \in {"wait", "asleep", "waited"}

LEMMA TwoElements ==
  ASSUME NEW S, IsFiniteSet(S), NEW x \in S, NEW y \in S, x # y
  PROVE  Cardinality(S) >= 2
<1>1. IsFiniteSet({x}) /\ Cardinality({x}) = 1
  BY FS_Singleton
<1>2. y \notin {x}
  OBVIOUS
<1>3. IsFiniteSet({x} \cup {y}) /\ Cardinality({x} \cup {y}) = 2
  BY <1>1, <1>2, FS_AddElement
<1>4. {x} \cup {y} \in SUBSET S
  OBVIOUS
<1>5. Cardinality({x} \cup {y}) <= Cardinality(S) /\ Cardinality(S) \in Nat
  BY <1>4, FS_Subset, FS_CardinalityType
<1> QED BY <1>3, <1>5

LEMMA IndexSet == ASSUME NEW n \in Nat
                  PROVE  IsFiniteSet(1 .. n) /\ Cardinality(1 .. n) = n
<1>1. IsFiniteSet(1 .. n) /\ Cardinality(1 .. n) = IF 1 > n THEN 0 ELSE n - 1 + 1
  BY FS_Interval
<1> QED BY <1>1

\* A capture keeps the number of the frames.
LEMMA LenOfFunction ==
  ASSUME NEW n \in Nat, NEW f, f = [i \in 1 .. n |-> f[i]]
  PROVE  Len(f) = n
<1> DEFINE S == {f[i] : i \in 1 .. n}
<1>1. f \in [1 .. n -> S]
  OBVIOUS
<1> HIDE DEF S
<1>2. f \in Seq(S)
  BY <1>1
<1>3. DOMAIN f = 1 .. n /\ DOMAIN f = 1 .. Len(f) /\ Len(f) \in Nat
  BY <1>1, <1>2
<1> QED BY <1>3

LEMMA CaptureFrames ==
  ASSUME NEW frames, NEW res \in BOOLEAN, NEW n \in Nat, DOMAIN frames = 1 .. n,
         NEW b, b = [i \in DOMAIN frames |-> find_symbol_info(frames[i], res)]
  PROVE  /\ DOMAIN b = 1 .. n
         /\ Len(b) = n
         /\ \A i \in 1 .. n : b[i] = find_symbol_info(frames[i], res)
<1>1. /\ DOMAIN b = 1 .. n /\ b = [i \in 1 .. n |-> b[i]]
      /\ \A i \in 1 .. n : b[i] = find_symbol_info(frames[i], res)
  OBVIOUS
<1>2. Len(b) = n
  BY <1>1, LenOfFunction
<1> QED BY <1>1, <1>2

\* Without names no frame says anything.
LEMMA NoNamesNoWaits ==
  ASSUME NEW t, NEW fp \in BOOLEAN, NEW res \in BOOLEAN, ~res
  PROVE  ~backtrace_is_waiting_for_mutex(backtrace_capture(t, fp, res))
<1> DEFINE b == backtrace_capture(t, fp, res)
<1>1. \A i \in DOMAIN b : b[i] = {}
  BY DEF backtrace_capture, find_symbol_info
<1> HIDE DEF b
<1>2. ~backtrace_is_waiting_for_mutex(b)
  BY <1>1 DEF backtrace_is_waiting_for_mutex, Has
<1> QED BY <1>2 DEF b

\* The frames of a thread that is stopped elsewhere, or not stopped.
LEMMA ElsewhereNoWaits ==
  ASSUME NEW t, ~Waits(t), NEW fp \in BOOLEAN, NEW res \in BOOLEAN
  PROVE  ~backtrace_is_waiting_for_mutex(backtrace_capture(t, fp, res))
<1> DEFINE b == backtrace_capture(t, fp, res)
           Quiet == {{}, {"futex"}, {"lock"}, {"mutex", "lock"}}
<1>1. ASSUME Stopped(t)
      PROVE  \/ stack(t) = <<{"futex"}, {"lock"}, {"mutex", "lock"}, {}>>
             \/ stack(t) = <<{}>>
  <2>1. tpc[t] \notin {"wait", "asleep", "waited"}
    BY <1>1 DEF Waits
  <2> QED BY <2>1 DEF stack, futex_wake, __lll_lock_wake, pthread_mutex_unlock, user_function
<1>2. \A i \in DOMAIN unwind_stack_fp(t, fp) : unwind_stack_fp(t, fp)[i] \in Quiet
  <2>1. CASE ~Stopped(t)
    BY <2>1 DEF unwind_stack_fp
  <2>2. CASE Stopped(t) /\ fp
    <3>1. unwind_stack_fp(t, fp) = stack(t)
      BY <2>2 DEF unwind_stack_fp
    <3>2. \A i \in DOMAIN stack(t) : stack(t)[i] \in Quiet
      <4>1. CASE stack(t) = <<{"futex"}, {"lock"}, {"mutex", "lock"}, {}>>
        <5>1. DOMAIN stack(t) = 1 .. 4
          BY <4>1
        <5>2. \A i \in 1 .. 4 : i = 1 \/ i = 2 \/ i = 3 \/ i = 4
          OBVIOUS
        <5>3. /\ stack(t)[1] = {"futex"}
              /\ stack(t)[2] = {"lock"}
              /\ stack(t)[3] = {"mutex", "lock"}
              /\ stack(t)[4] = {}
          BY <4>1
        <5> QED BY <5>1, <5>2, <5>3
      <4>2. CASE stack(t) = <<{}>>
        BY <4>2
      <4> QED BY <1>1, <2>2, <4>1, <4>2
    <3> QED BY <3>1, <3>2
  <2>3. CASE Stopped(t) /\ ~fp
    <3>1. unwind_stack_fp(t, fp) = <<Head(stack(t)), {}>>
      BY <2>3 DEF unwind_stack_fp, user_function
    <3>2. Head(stack(t)) \in {{}, {"futex"}}
      BY <1>1, <2>3
    <3> QED BY <3>1, <3>2
  <2> QED BY <2>1, <2>2, <2>3
<1>3. \A i \in DOMAIN b : b[i] \in Quiet
  BY <1>2 DEF backtrace_capture, find_symbol_info
<1> HIDE DEF b
<1>4. ~backtrace_is_waiting_for_mutex(b)
  BY <1>3 DEF backtrace_is_waiting_for_mutex, Has
<1> QED BY <1>4 DEF b

\* With frame pointers and names: three frames of the library, all of a lock.
LEMMA WaitIsSeen ==
  ASSUME NEW t, Waits(t), NEW fp \in BOOLEAN, NEW res \in BOOLEAN
  PROVE  LET b == backtrace_capture(t, fp, res)
         IN  fp /\ res =>
               /\ backtrace_is_waiting_for_mutex(b)
               /\ Cardinality({j \in DOMAIN b : Has(b[j], {"mutex", "lock", "futex"})}) >= 2
<1> DEFINE b == backtrace_capture(t, fp, res)
           M == {j \in DOMAIN b : Has(b[j], {"mutex", "lock", "futex"})}
<1> DEFINE frames == unwind_stack_fp(t, fp)
<1>1. fp => frames = <<futex_wait, __lll_lock_wait, pthread_mutex_lock, user_function>>
  BY DEF Waits, unwind_stack_fp, stack
<1>2. b = [i \in DOMAIN frames |-> find_symbol_info(frames[i], res)]
  BY DEF backtrace_capture
<1>3. fp => /\ DOMAIN b = 1 .. 4 /\ Len(b) = 4
             /\ b[1] = find_symbol_info(futex_wait, res)
             /\ b[2] = find_symbol_info(__lll_lock_wait, res)
  <2> HIDE DEF frames, b
  <2>1. fp => DOMAIN frames = 1 .. 4 /\ frames[1] = futex_wait /\ frames[2] = __lll_lock_wait
    BY <1>1
  <2>2. DOMAIN frames = 1 .. 4 =>
          /\ DOMAIN b = 1 .. 4 /\ Len(b) = 4
          /\ \A i \in 1 .. 4 : b[i] = find_symbol_info(frames[i], res)
    BY <1>2, 4 \in Nat, CaptureFrames
  <2>3. 1 \in 1 .. 4 /\ 2 \in 1 .. 4
    OBVIOUS
  <2> QED BY <2>1, <2>2, <2>3
<1>4. fp /\ res => /\ DOMAIN b = 1 .. 4 /\ Len(b) = 4
                    /\ b[1] = {"futex_wait", "futex", "wait"}
                    /\ b[2] = {"__lll_lock_wait", "lock", "wait"}
  <2> HIDE DEF b
  <2> QED BY <1>3 DEF find_symbol_info, futex_wait, __lll_lock_wait
<1> SUFFICES ASSUME fp, res
             PROVE  backtrace_is_waiting_for_mutex(b) /\ Cardinality(M) >= 2
  OBVIOUS
<1> HIDE DEF b
<1>5. backtrace_is_waiting_for_mutex(b)
  <2>1. 1 \in DOMAIN b /\ 1 .. 1 - 1 = {} /\ 1 \in 1 .. Len(b)
    BY <1>4
  <2> QED BY <1>4, <2>1 DEF backtrace_is_waiting_for_mutex, Has
<1>6. Cardinality(M) >= 2
  <2>1. 1 \in M /\ 2 \in M
    BY <1>4 DEF Has
  <2>2. IsFiniteSet(1 .. 4)
    BY 4 \in Nat, IndexSet
  <2>3. M \in SUBSET (1 .. 4)
    BY <1>4
  <2> HIDE DEF M
  <2>4. IsFiniteSet(M)
    BY <2>2, <2>3, FS_Subset
  <2> QED BY <2>1, <2>4, TwoElements
<1> QED BY <1>5, <1>6 DEF b

\* Without frame pointers there is one frame of the library at most.
LEMMA OneFrameOnly ==
  ASSUME NEW t, NEW fp \in BOOLEAN, NEW res \in BOOLEAN, ~fp
  PROVE  LET b == backtrace_capture(t, fp, res)
         IN  /\ ~(Cardinality({j \in DOMAIN b : Has(b[j], {"mutex", "lock", "futex"})}) >= 2)
             /\ \A j \in 2 .. Len(b) : ~Has(b[j], {"pthread_mutex_lock", "__lll_lock_wait"})
<1> DEFINE b == backtrace_capture(t, fp, res)
           M == {j \in DOMAIN b : Has(b[j], {"mutex", "lock", "futex"})}
           frames == unwind_stack_fp(t, fp)
<1>0. b = [i \in DOMAIN frames |-> find_symbol_info(frames[i], res)]
  BY DEF backtrace_capture
<1>1. /\ Len(b) \in Nat /\ Len(b) <= 2 /\ DOMAIN b = 1 .. Len(b)
      /\ 2 \in DOMAIN b => b[2] = {}
  <2>1. CASE ~Stopped(t)
    <3>1. DOMAIN frames = 1 .. 0
      BY <2>1 DEF unwind_stack_fp
    <3> HIDE DEF frames, b
    <3>2. DOMAIN b = 1 .. 0 /\ Len(b) = 0
      BY <1>0, <3>1, 0 \in Nat, CaptureFrames
    <3> QED BY <3>2
  <2>2. CASE Stopped(t)
    <3>1. frames = <<Head(stack(t)), {}>>
      BY <2>2 DEF unwind_stack_fp, user_function
    <3> HIDE DEF frames, b
    <3>2. DOMAIN frames = 1 .. 2 /\ frames[2] = {}
      BY <3>1
    <3>3. /\ DOMAIN b = 1 .. 2 /\ Len(b) = 2
          /\ \A i \in 1 .. 2 : b[i] = find_symbol_info(frames[i], res)
      BY <1>0, <3>2, 2 \in Nat, CaptureFrames
    <3> QED BY <3>2, <3>3 DEF find_symbol_info
  <2> QED BY <2>1, <2>2
<1> HIDE DEF b
<1>2. M \in SUBSET {1}
  BY <1>1 DEF Has
<1>3. \A j \in 2 .. Len(b) : ~Has(b[j], {"pthread_mutex_lock", "__lll_lock_wait"})
  BY <1>1 DEF Has
<1>4. ~(Cardinality(M) >= 2)
  <2>1. IsFiniteSet({1}) /\ Cardinality({1}) = 1
    BY FS_Singleton
  <2> HIDE DEF M
  <2>2. Cardinality(M) <= 1 /\ Cardinality(M) \in Nat
    BY <1>2, <2>1, FS_Subset, FS_CardinalityType
  <2> QED BY <2>2
<1> QED BY <1>3, <1>4 DEF b

\* As many places of a list hold a member of W as W has members.
LEMMA PlacesOf ==
  ASSUME NEW A, IsFiniteSet(A), NEW task \in SetToSeqs(A), NEW W \in SUBSET A
  PROVE  LET I == {i \in DOMAIN task : task[i] \in W}
         IN  IsFiniteSet(I) /\ Cardinality(I) = Cardinality(W)
<1> DEFINE N == Cardinality(A)
           I == {i \in DOMAIN task : task[i] \in W}
<1>1. N \in Nat
  BY FS_CardinalityType
<1>2. /\ task \in [1 .. N -> A]
      /\ \A i, j \in 1 .. N : i # j => task[i] # task[j]
  BY DEF SetToSeqs
<1> HIDE DEF N
<1>3. task \in Injection(1 .. N, A)
  BY <1>2 DEF Injection, IsInjective
<1>4. IsFiniteSet(1 .. N) /\ Cardinality(1 .. N) = N
  BY <1>1, IndexSet
<1>5. task \in Surjection(1 .. N, A)
  BY <1>3, <1>4, FS_Injection DEF N
<1>6. I \in SUBSET (1 .. N) /\ I = {i \in 1 .. N : task[i] \in W}
  BY <1>2
<1>7. IsFiniteSet(I)
  <2> HIDE DEF I
  <2> QED BY <1>4, <1>6, FS_Subset
<1> DEFINE f == [i \in I |-> task[i]]
<1>8. f \in Bijection(I, W)
  <2>1. \A w \in W : \E i \in I : task[i] = w
    BY <1>2, <1>5, <1>6 DEF Surjection
  <2>2. f \in [I -> W] /\ \A i, j \in I : f[i] = f[j] => i = j
    BY <1>2, <1>6
  <2>3. \A w \in W : \E i \in I : f[i] = w
    BY <2>1
  <2> HIDE DEF f, I
  <2>4. f \in Injection(I, W)
    BY <2>2 DEF Injection, IsInjective
  <2>5. f \in Surjection(I, W)
    BY <2>2, <2>3 DEF Surjection
  <2> QED BY <2>4, <2>5 DEF Bijection
<1>9. ExistsBijection(I, W)
  <2> HIDE DEF f, I
  <2> QED BY <1>8 DEF ExistsBijection
<1> HIDE DEF I, f
<1>10. Cardinality(I) = Cardinality(W)
  BY <1>7, <1>9, FS_Bijection
<1> QED BY <1>7, <1>10 DEF I

\* The threads of the target that /proc lists.
Alive == {t \in Pid : tpc[t] \notin {"unborn", "gone"}}
FewAlive == IsFiniteSet(Alive)

LEMMA BacktracesTell ==
  ASSUME FewAlive
  PROVE  BacktraceTellsWaiters
<1> DEFINE W == {t \in Pid : Waits(t)}
<1>1. W = {t \in Pid : Stopped(t) /\ tpc[t] \in {"wait", "asleep", "waited"}}
  BY DEF Waits
<1>2. W \in SUBSET Alive
  BY DEF Waits, Alive
<1>3. SUFFICES
        ASSUME NEW task \in SetToSeqs(Alive), NEW fp \in BOOLEAN, NEW res \in BOOLEAN
        PROVE  backtrace_detect_deadlocks(backtrace_capture_all_threads(task, fp, res))
               <=> fp /\ res /\ Cardinality(W) >= 2
  BY <1>1 DEF BacktraceTellsWaiters, Alive
<1> DEFINE bs == backtrace_capture_all_threads(task, fp, res)
           waiting == {i \in DOMAIN bs : backtrace_is_waiting_for_mutex(bs[i])}
           mutex_frames(i) == {j \in DOMAIN bs[i] : Has(bs[i][j], {"mutex", "lock", "futex"})}
           complex_patterns == {i \in DOMAIN bs : Cardinality(mutex_frames(i)) >= 2}
           holding == {i \in waiting : \E j \in 2 .. Len(bs[i]) :
                         j <= 16 /\ Has(bs[i][j], {"pthread_mutex_lock", "__lll_lock_wait"})}
           first == 1 .. Cardinality(waiting)
           detect == /\ Cardinality(waiting) >= 2
                     /\ \/ \E i \in first \cap waiting, j \in first \cap holding : i # j
                        \/ Cardinality(complex_patterns) >= 2
<1>4. detect = backtrace_detect_deadlocks(bs)
  BY DEF backtrace_detect_deadlocks
<1>5. /\ DOMAIN bs = DOMAIN task
      /\ \A i \in DOMAIN bs : bs[i] = backtrace_capture(task[i], fp, res)
  BY DEF backtrace_capture_all_threads
<1>6. \A i \in DOMAIN task : task[i] \in Pid
  BY DEF SetToSeqs, Alive
<1>7. IsFiniteSet(DOMAIN task)
  <2>1. Cardinality(Alive) \in Nat /\ DOMAIN task = 1 .. Cardinality(Alive)
    BY FS_CardinalityType DEF FewAlive, SetToSeqs
  <2> QED BY <2>1, IndexSet
<1> HIDE DEF bs
<1>8. CASE ~fp
  <2>1. ASSUME NEW i \in DOMAIN bs PROVE ~(Cardinality(mutex_frames(i)) >= 2)
    <3>1. bs[i] = backtrace_capture(task[i], fp, res)
      BY <1>5
    <3>2. ~(Cardinality({j \in DOMAIN backtrace_capture(task[i], fp, res) :
                          Has(backtrace_capture(task[i], fp, res)[j],
                              {"mutex", "lock", "futex"})}) >= 2)
      BY <1>8, OneFrameOnly
    <3> QED BY <3>1, <3>2
  <2>2. \A i \in DOMAIN bs : \A j \in 2 .. Len(bs[i]) :
          ~Has(bs[i][j], {"pthread_mutex_lock", "__lll_lock_wait"})
    BY <1>5, <1>8, OneFrameOnly
  <2>3. complex_patterns = {} /\ holding = {}
    BY <2>1, <2>2
  <2>4. ~(Cardinality(complex_patterns) >= 2)
    <3> HIDE DEF complex_patterns
    <3>1. Cardinality(complex_patterns) = 0
      BY <2>3, FS_EmptySet
    <3> QED BY <3>1
  <2> HIDE DEF complex_patterns, holding
  <2>5. ~detect
    BY <2>3, <2>4
  <2> QED BY <1>4, <1>8, <2>5 DEF bs
<1>9. CASE ~res
  <2>1. waiting = {}
    BY <1>5, <1>9, NoNamesNoWaits
  <2> HIDE DEF waiting
  <2>2. Cardinality(waiting) = 0
    BY <2>1, FS_EmptySet
  <2>3. ~detect
    BY <2>2
  <2> QED BY <1>4, <1>9, <2>3 DEF bs
<1>10. CASE fp /\ res
  <2>1. waiting = {i \in DOMAIN task : task[i] \in W}
    BY <1>5, <1>6, <1>10, WaitIsSeen, ElsewhereNoWaits
  <2>2. waiting \in SUBSET complex_patterns
    <3>1. \A i \in waiting : Waits(task[i])
      BY <2>1
    <3> QED BY <1>5, <1>10, <3>1, WaitIsSeen
  <2>3. complex_patterns \in SUBSET DOMAIN task
    BY <1>5
  <2> HIDE DEF waiting, complex_patterns, W
  <2>4. IsFiniteSet(waiting) /\ Cardinality(waiting) = Cardinality(W)
    BY <1>2, <2>1, PlacesOf DEF FewAlive
  <2>5. IsFiniteSet(complex_patterns)
    BY <1>7, <2>3, FS_Subset
  <2>6. Cardinality(waiting) <= Cardinality(complex_patterns)
    BY <2>2, <2>5, FS_Subset
  <2>7. Cardinality(waiting) \in Nat /\ Cardinality(complex_patterns) \in Nat
    BY <2>4, <2>5, FS_CardinalityType
  <2>8. detect <=> Cardinality(waiting) >= 2
    BY <2>6, <2>7
  <2> QED BY <1>4, <1>10, <2>4, <2>8 DEF bs
<1> QED BY <1>8, <1>9, <1>10

\* A step of the target brings one thread to life at most.
LEMMA AliveStep == MonitorInv /\ FewAlive /\ [Next]_vars => FewAlive'
<1> SUFFICES ASSUME MonitorInv, FewAlive, [Next]_vars PROVE FewAlive'
  OBVIOUS
<1> USE DEF MonitorInv, TargetTyped
<1>1. ASSUME NEW u, Alive' \subseteq Alive \cup {u} PROVE FewAlive'
  <2>1. IsFiniteSet(Alive \cup {u})
    BY FS_AddElement DEF FewAlive
  <2>2. IsFiniteSet(Alive')
    BY <1>1, <2>1, FS_Subset
  <2> QED BY <2>2 DEF FewAlive
<1>2. CASE UNCHANGED tpc
  BY <1>2 DEF FewAlive, Alive
<1>3. ASSUME NEW t \in Pid, TargetMoves(t) PROVE \E u \in Pid : Alive' \subseteq Alive \cup {u}
  <2> USE DEF Alive
  <2>1. ASSUME NEW l \in Lock, Lock_(t, l) \/ Unlock(t, l)
        PROVE  \E u \in Pid : Alive' \subseteq Alive \cup {u}
    BY <2>1 DEF Lock_, Unlock, Goto
  <2>2. CASE Wait(t) \/ Back(t) \/ Exit(t)
    BY <2>2 DEF Wait, Back, Exit, Goto
  <2>3. CASE Wake(t)
    BY <2>3 DEF Wake, Goto
  <2>4. CASE Clone(t)
    BY <2>4 DEF Clone
  <2>5. CASE Gone(t)
    BY <2>5 DEF Gone
  <2> QED BY <1>3, <2>1, <2>2, <2>3, <2>4, <2>5 DEF TargetMoves
<1>4. CASE \E t \in Pid : TargetMoves(t)
  BY <1>1, <1>3, <1>4
<1>5. CASE ~\E t \in Pid : TargetMoves(t)
  <2>1. UNCHANGED tpc
    BY <1>5 DEF Next, Monitor, vars, target, signal_handler, OtherCaller, ptrace_attach,
                analyze_existing_deadlocks, ptrace_attach_all_threads, monitor_process,
                ptrace_wait_for_syscall, CheckDeadlocks, cleanup_subsystems
  <2> QED BY <1>2, <2>1
<1> QED BY <1>4, <1>5

\* In whatever program, and in whichever order its threads are listed: the
\* backtraces tell a deadlock if and only if two of the stopped threads are in the
\* slow path of a lock, and never without frame pointers or names
\* (BacktraceTellsWaiters).
THEOREM BacktracesTellWaiters == Spec => []BacktraceTellsWaiters
<1>1. Init => FewAlive
  <2> SUFFICES ASSUME Init PROVE IsFiniteSet(Alive)
    BY DEF FewAlive
  <2>1. IsFiniteSet({target_pid}) /\ Alive \in SUBSET {target_pid}
    BY FS_Singleton DEF Init, Alive
  <2> QED BY <2>1, FS_Subset
<1>2. Spec => []MonitorInv
  BY InitMonitor, MonitorStep, PTL DEF Spec
<1>3. Spec => []FewAlive
  BY <1>1, <1>2, AliveStep, PTL DEF Spec
<1> QED BY <1>3, BacktracesTell, PTL

----------------------------------------------------------------------------
(* The parts of spawn.c: what runs, what has ended and which numbers main  *)
(* has kept.                                                               *)

\* The processes main starts are distinct, and none has the number of a failed fork.
LEMMA StartedProcesses ==
  /\ np \in Nat /\ no \in Nat
  /\ Failed \notin Started
  /\ \A o \in Part : /\ observer(o) \in Started /\ renicer(o) \in Started
                     /\ observer(o) # renicer(o)
                     /\ \A i \in 0 .. np : /\ worker(o, i) \in Started
                                           /\ \A u \in Part : worker(o, i) \notin {observer(u), renicer(u)}
  /\ \A o, u \in Part : /\ renicer(o) = renicer(u) => o = u
                        /\ observer(o) # renicer(u)
                        /\ \A i, j \in 0 .. np : worker(o, i) = worker(u, j) => o = u /\ i = j
<1>1. np \in Nat /\ no \in Nat
  BY ProcessesAssumption
<1> QED
  BY <1>1 DEF Started, Failed, Part, observer, renicer, worker

\* The workers of each part, and the numbers it kills.
LEMMA TargetsAre ==
  \A o \in Part : /\ Targets(o) \in Nat /\ Workers(o) \in Nat
                  /\ Workers(o) <= Targets(o) /\ Targets(o) <= np + 1
                  /\ o = 4 => Workers(o) = np /\ Targets(o) = np + 1
BY StartedProcesses DEF Part, Targets, Workers

LEMMA InitParts == ProcessesInit => PartsInv
<1> SUFFICES ASSUME ProcessesInit PROVE PartsInv
  OBVIOUS
<1> USE DEF ProcessesInit
<1>1. pc \in {"pseer", "pipe", "forks"}
  OBVIOUS
<1>2. /\ part = 1 /\ p = 0 /\ 1 \in Part
      /\ \A q \in Started : state[q] = "none"
  BY DEF Part
<1>3. ProcessesTypeOK
  BY <1>1, <1>2, StartedProcesses DEF ProcessesTypeOK
<1>4. PartsSound
  BY <1>1 DEF PartsSound
<1> QED
  BY <1>1, <1>2, <1>3, <1>4, StartedProcesses
     DEF PartsInv, RunningSound, EndedSound, LaterUntouched, RenicersSound, StraySound

\* What fork does to the processes.
LEMMA ForkEffect ==
  ASSUME NEW pid \in Started, NEW result, ForkProcess(pid, result), ProcessesTypeOK
  PROVE  /\ \/ result = pid /\ state' = [state EXCEPT ![pid] = "running"]
            \/ result = Failed /\ state' = state
         /\ state' \in [Started -> {"none", "running", "zombie", "reaped"}]
  BY DEF ForkProcess, ProcessesTypeOK

LEMMA PseerKeeps == PartsInv /\ pseer => PartsInv'
<1> SUFFICES ASSUME PartsInv, pseer PROVE PartsInv'
  OBVIOUS
<1> USE DEF PartsInv
<1>1. /\ pc = "pseer" /\ pc' = "malloc"
      /\ UNCHANGED <<part, p, renice_pid, child_pids, stray>>
      /\ \/ no = 0 /\ UNCHANGED <<pidseer, state>>
         \/ ForkProcess(observer(part), pidseer')
  BY DEF pseer, GoTo
<1>2. part \in Part
  BY DEF ProcessesTypeOK
<1>3. /\ \A q \in Started : q # observer(part) => state'[q] = state[q]
      /\ pidseer' \in {observer(part), Failed}
      /\ state' \in [Started -> {"none", "running", "zombie", "reaped"}]
  BY <1>1, <1>2, ForkEffect, StartedProcesses DEF ProcessesTypeOK
<1>4. /\ \A o \in Part : /\ state'[renicer(o)] = state[renicer(o)]
                         /\ \A i \in 0 .. np : state'[worker(o, i)] = state[worker(o, i)]
  BY <1>2, <1>3, StartedProcesses
<1>5. ProcessesTypeOK'
  BY <1>1, <1>3 DEF ProcessesTypeOK, Forking, Over, Part, observer, worker
<1>6. PartsSound' /\ RunningSound' /\ LaterUntouched' /\ RenicersSound' /\ StraySound'
  BY <1>1, <1>2, <1>4 DEF PartsSound, RunningSound, LaterUntouched, RenicersSound, StraySound,
     Forking, Over, Targets, worker, renicer
<1>7. EndedSound'
  BY <1>1, <1>2, <1>4 DEF EndedSound, worker
<1> QED
  BY <1>5, <1>6, <1>7

LEMMA MallocKeeps == PartsInv /\ Malloc => PartsInv'
<1> SUFFICES ASSUME PartsInv, Malloc PROVE PartsInv'
  OBVIOUS
<1> USE DEF PartsInv
<1>1. /\ pc = "malloc" /\ pc' \in {"fork", "rest"} /\ p' = 0
      /\ UNCHANGED <<part, pidseer, renice_pid, child_pids, state, stray>>
  BY DEF Malloc, GoTo
<1>2. part \in Part
  BY DEF ProcessesTypeOK
<1>3. ProcessesTypeOK'
  BY <1>1 DEF ProcessesTypeOK, Forking, Over, Part, observer, worker
<1>4. PartsSound'
  BY <1>1, <1>2, TargetsAre DEF PartsSound, Workers
<1>5. RunningSound' /\ LaterUntouched' /\ RenicersSound' /\ StraySound'
  BY <1>1, <1>2 DEF RunningSound, LaterUntouched, RenicersSound, StraySound,
     Forking, Over, Targets, worker, renicer
<1>6. EndedSound'
  BY <1>1 DEF EndedSound, worker
<1> QED
  BY <1>3, <1>4, <1>5, <1>6

\* A process of the part is forked and its number kept.
LEMMA WorkerForked ==
  ASSUME PartsInv, NEW n \in 0 .. np, n < Targets(part),
         pc = "fork" => n = p /\ p < Workers(part),
         pc = "block" => n = np,
         pc \in {"fork", "block"},
         NEW pid, ForkProcess(worker(part, n), pid),
         child_pids' = [child_pids EXCEPT ![n] = pid],
         p' = IF pc = "fork" THEN p + 1 ELSE p,
         pc' = IF pc = "fork" THEN pc ELSE "wait",
         UNCHANGED <<part, pidseer, renice_pid, stray>>
  PROVE  PartsInv'
<1> USE DEF PartsInv
<1>1. part \in Part /\ np \in Nat /\ p \in Nat
  BY StartedProcesses DEF ProcessesTypeOK
<1>2. /\ worker(part, n) \in Started
      /\ \/ pid = worker(part, n) /\ state' = [state EXCEPT ![worker(part, n)] = "running"]
         \/ pid = Failed /\ state' = state
      /\ state' \in [Started -> {"none", "running", "zombie", "reaped"}]
  <2>1. worker(part, n) \in Started
    BY <1>1, StartedProcesses
  <2> QED BY <2>1, ForkEffect
<1>3. /\ \A q \in Started : q # worker(part, n) => state'[q] = state[q]
      /\ \A o \in Part : /\ state'[renicer(o)] = state[renicer(o)]
                         /\ \A i \in 0 .. np : o # part \/ i # n => state'[worker(o, i)] = state[worker(o, i)]
  <2>1. \A q \in Started : q # worker(part, n) => state'[q] = state[q]
    BY <1>2 DEF ProcessesTypeOK
  <2> QED BY <2>1, <1>1, StartedProcesses
<1>4. /\ \A i \in 0 .. np : child_pids'[i] = IF i = n THEN pid ELSE child_pids[i]
      /\ child_pids' \in [0 .. np -> Started \cup {Failed}]
  BY <1>2 DEF ProcessesTypeOK
<1>5. ProcessesTypeOK'
  <2>1. \A i \in 0 .. np : child_pids'[i] \in {worker(part, i), Failed}
    BY <1>2, <1>4 DEF ProcessesTypeOK
  <2> QED
    BY <1>1, <1>2, <1>4, <2>1 DEF ProcessesTypeOK, Forking, Over, observer, worker
<1>6. PartsSound'
  BY <1>1, TargetsAre DEF PartsSound, Workers
<1>7. state[worker(part, n)] # "running"
  BY <1>1 DEF RunningSound
<1>8. RunningSound'
  <2> SUFFICES ASSUME NEW o \in Part, NEW i \in 0 .. np, state'[worker(o, i)] = "running"
               PROVE  /\ o = part /\ i < Targets(part) /\ child_pids'[i] = worker(o, i)
                      /\ pc' \in Forking \cup {"kill"}
                      /\ pc' = "fork" => i < p'
                      /\ pc' \notin {"mkfifo", "block", "kill"}
    BY DEF RunningSound, Targets, worker
  <2>1. pc' \in Forking \cup {"kill"} /\ pc' \notin {"mkfifo", "block", "kill"}
    BY DEF Forking
  <2>2. CASE o = part /\ i = n
    <3>1. pid = worker(part, n)
      BY <1>2, <1>7, <2>2
    <3> QED BY <1>1, <1>4, <2>1, <2>2, <3>1
  <2>3. CASE o # part \/ i # n
    <3>1. state[worker(o, i)] = "running"
      BY <1>3, <2>3
    <3>2. o = part /\ i < Targets(part) /\ child_pids[i] = worker(o, i) /\ (pc = "fork" => i < p)
      BY <3>1 DEF RunningSound
    <3> QED BY <1>1, <1>4, <2>1, <2>3, <3>2
  <2> QED BY <2>2, <2>3
<1>9. EndedSound'
  <2> SUFFICES ASSUME NEW i \in 0 .. np
               PROVE  /\ state'[worker(part, i)] = "zombie" => part = 4 /\ i = np /\ pc' = "wait"
                      /\ state'[worker(part, i)] # "reaped"
    BY DEF EndedSound, worker, Over
  <2>1. state'[worker(part, i)] \in {"running", state[worker(part, i)]}
    BY <1>2, <1>3, <1>1
  <2>2. state[worker(part, i)] \notin {"zombie", "reaped"}
    BY DEF EndedSound, Over
  <2> QED BY <2>1, <2>2
<1>10. LaterUntouched'
  BY <1>1, <1>3 DEF LaterUntouched, worker, Part
<1>11. RenicersSound'
  BY <1>1, <1>3 DEF RenicersSound, renicer
<1>12. StraySound'
  BY DEF StraySound, Over
<1> QED
  BY <1>5, <1>6, <1>8, <1>9, <1>10, <1>11, <1>12

LEMMA ForkWorkerKeeps == PartsInv /\ ForkWorker => PartsInv'
<1> SUFFICES ASSUME PartsInv, ForkWorker PROVE PartsInv'
  OBVIOUS
<1>1. part \in Part /\ p \in Nat /\ pc = "fork" /\ UNCHANGED <<part, pidseer, renice_pid, stray>>
  BY DEF PartsInv, ProcessesTypeOK, ForkWorker
<1>2. CASE p < Workers(part)
  <2>1. /\ \E pid \in {worker(part, p), Failed} :
             ForkProcess(worker(part, p), pid) /\ child_pids' = [child_pids EXCEPT ![p] = pid]
        /\ p' = p + 1 /\ pc' = pc
    BY <1>2 DEF ForkWorker
  <2>2. p \in 0 .. np /\ p < Targets(part)
    BY <1>1, <1>2, TargetsAre, StartedProcesses
  <2> QED BY <1>1, <1>2, <2>1, <2>2, WorkerForked
<1>3. CASE ~(p < Workers(part))
  <2> USE DEF PartsInv
  <2>1. UNCHANGED <<p, child_pids, state>> /\ pc' = AfterForks
    BY <1>3 DEF ForkWorker, GoTo
  <2>2. /\ pc' \in {"renice", "mkfifo", "wait"}
        /\ pc' = "renice" => part = 3
        /\ pc' = "mkfifo" => part = 4
    BY <2>1 DEF AfterForks
  <2>3. p = Workers(part)
    BY <1>1, <1>3, TargetsAre DEF PartsSound
  <2>4. ProcessesTypeOK'
    BY <1>1, <2>1, <2>2 DEF ProcessesTypeOK, Forking, Over, observer, worker
  <2>5. PartsSound'
    BY <1>1, <2>2 DEF PartsSound
  <2>6. RunningSound'
    <3> SUFFICES ASSUME NEW o \in Part, NEW i \in 0 .. np, state'[worker(o, i)] = "running"
                 PROVE  /\ o = part /\ i < Targets(part) /\ child_pids[i] = worker(o, i)
                        /\ pc' = "mkfifo" => i < np
      BY <1>1, <2>1, <2>2 DEF RunningSound, Targets, worker, Forking
    <3>1. o = part /\ i < Targets(part) /\ child_pids[i] = worker(o, i) /\ i < p
      BY <1>1, <2>1 DEF RunningSound, worker
    <3> QED BY <1>1, <2>2, <2>3, <3>1, TargetsAre
  <2>7. EndedSound' /\ LaterUntouched' /\ RenicersSound' /\ StraySound'
    BY <1>1, <2>1, <2>2 DEF EndedSound, LaterUntouched, RenicersSound, StraySound, worker, renicer, Over
  <2> QED BY <2>4, <2>5, <2>6, <2>7
<1> QED BY <1>2, <1>3

LEMMA ForkBlockingKeeps == PartsInv /\ ForkBlocking => PartsInv'
<1> SUFFICES ASSUME PartsInv, ForkBlocking PROVE PartsInv'
  OBVIOUS
<1>1. /\ pc = "block" /\ pc' = "wait" /\ part = 4 /\ part \in Part
      /\ UNCHANGED <<part, p, pidseer, renice_pid, stray>>
  BY DEF PartsInv, ProcessesTypeOK, PartsSound, ForkBlocking, GoTo
<1>2. PICK pid : /\ ForkProcess(worker(part, np), pid)
                 /\ child_pids' = [child_pids EXCEPT ![np] = pid]
  BY DEF ForkBlocking
<1>3. np \in 0 .. np /\ np < Targets(part)
  BY <1>1, TargetsAre, StartedProcesses
<1> QED BY <1>1, <1>2, <1>3, WorkerForked

LEMMA MkfifoKeeps == PartsInv /\ Mkfifo => PartsInv'
<1> SUFFICES ASSUME PartsInv, Mkfifo PROVE PartsInv'
  OBVIOUS
<1> USE DEF PartsInv
<1>1. /\ pc = "mkfifo" /\ pc' = "block" /\ part = 4
      /\ UNCHANGED <<part, p, pidseer, renice_pid, child_pids, state, stray>>
  BY DEF PartsSound, Mkfifo, experiment, GoTo
<1>2. ProcessesTypeOK'
  BY <1>1 DEF ProcessesTypeOK, Forking, Over, observer, worker
<1> QED
  BY <1>1, <1>2 DEF PartsSound, RunningSound, EndedSound, LaterUntouched, RenicersSound, StraySound,
     Forking, Over, Targets, worker, renicer

\* What a wait may reap, and that it blocks while the process named runs.
LEMMA WaitEffect ==
  ASSUME NEW pid \in Started \cup {Failed}, WaitPid(pid), ProcessesTypeOK
  PROVE  /\ state' \in [Started -> {"none", "running", "zombie", "reaped"}]
         /\ \A q \in Started : \/ state'[q] = state[q]
                               \/ /\ pid \in {q, Failed}
                                  /\ state[q] = "zombie" /\ state'[q] = "reaped"
         /\ pid # Failed => state[pid] # "running"
<1>1. CASE UNCHANGED state /\ (IF pid = Failed THEN Children ELSE Children \cap {pid}) = {}
  BY <1>1 DEF ProcessesTypeOK, Children
<1>2. CASE \E q \in Children : /\ pid \in {q, Failed} /\ state[q] = "zombie"
                               /\ state' = [state EXCEPT ![q] = "reaped"]
  BY <1>2 DEF ProcessesTypeOK, Children
<1> QED
  BY <1>1, <1>2 DEF WaitPid

LEMMA ForkRenicerKeeps == PartsInv /\ ForkRenicer => PartsInv'
<1> SUFFICES ASSUME PartsInv, ForkRenicer PROVE PartsInv'
  OBVIOUS
<1> USE DEF PartsInv
<1>1. /\ pc = "renice" /\ pc' = "wait_renice" /\ part = 3 /\ part \in Part
      /\ ForkProcess(renicer(part), renice_pid')
      /\ UNCHANGED <<part, p, pidseer, child_pids, stray>>
  BY DEF ForkRenicer, GoTo, PartsSound, ProcessesTypeOK
<1>2. renicer(part) \in Started
  BY <1>1, StartedProcesses
<1>3. /\ renice_pid' \in {renicer(part), Failed}
      /\ \/ renice_pid' = renicer(part)
         \/ state' = state
      /\ state' \in [Started -> {"none", "running", "zombie", "reaped"}]
      /\ \A q \in Started : q # renicer(part) => state'[q] = state[q]
  BY <1>1, <1>2, ForkEffect DEF ProcessesTypeOK
<1>4. /\ \A o \in Part : /\ o # part => state'[renicer(o)] = state[renicer(o)]
                         /\ \A i \in 0 .. np : state'[worker(o, i)] = state[worker(o, i)]
  BY <1>1, <1>3, StartedProcesses
<1>5. ProcessesTypeOK'
  BY <1>1, <1>2, <1>3 DEF ProcessesTypeOK, Forking, observer, worker
<1>6. RenicersSound'
  BY <1>1, <1>3, <1>4 DEF RenicersSound, renicer
<1>7. PartsSound' /\ LaterUntouched' /\ StraySound'
  BY <1>1, <1>4 DEF PartsSound, LaterUntouched, StraySound, Over, worker
<1>8. RunningSound'
  BY <1>1, <1>4 DEF RunningSound, Forking, Targets, worker
<1>9. EndedSound'
  BY <1>1, <1>4 DEF EndedSound, Over, worker
<1> QED
  BY <1>5, <1>6, <1>7, <1>8, <1>9

LEMMA WaitRenicerKeeps == PartsInv /\ WaitRenicer => PartsInv'
<1> SUFFICES ASSUME PartsInv, WaitRenicer PROVE PartsInv'
  OBVIOUS
<1> USE DEF PartsInv
<1>1. /\ pc = "wait_renice" /\ pc' = "wait" /\ part = 3 /\ part \in Part
      /\ WaitPid(renice_pid) /\ renice_pid \in Started \cup {Failed}
      /\ UNCHANGED <<part, p, pidseer, renice_pid, child_pids, stray>>
  BY DEF WaitRenicer, GoTo, PartsSound, ProcessesTypeOK, experiment
<1>2. /\ state' \in [Started -> {"none", "running", "zombie", "reaped"}]
      /\ \A q \in Started : \/ state'[q] = state[q]
                            \/ state[q] = "zombie" /\ state'[q] = "reaped"
      /\ renice_pid # Failed => state[renice_pid] # "running"
  BY <1>1, WaitEffect
<1>3. ProcessesTypeOK'
  BY <1>1, <1>2 DEF ProcessesTypeOK, Forking, observer, worker
<1>4. RenicersSound'
  <2>1. \A o \in Part : state[renicer(o)] # "running"
    BY <1>2, StartedProcesses DEF RenicersSound
  <2> QED BY <1>2, <2>1, StartedProcesses DEF RenicersSound, renicer
<1>5. \A o \in Part, i \in 0 .. np :
        /\ state'[worker(o, i)] # state[worker(o, i)] => state[worker(o, i)] = "zombie"
        /\ state'[worker(o, i)] = "running" => state[worker(o, i)] = "running"
  BY <1>2, StartedProcesses
<1>6. PartsSound' /\ StraySound'
  BY <1>1 DEF PartsSound, StraySound, Over
<1>7. RunningSound' /\ LaterUntouched'
  BY <1>1, <1>5 DEF RunningSound, LaterUntouched, Forking, Targets, worker
<1>8. EndedSound'
  BY <1>1, <1>5 DEF EndedSound, Over, worker
<1> QED
  BY <1>3, <1>4, <1>6, <1>7, <1>8

LEMMA WaitObserverKeeps == PartsInv /\ WaitObserver => PartsInv'
<1> SUFFICES ASSUME PartsInv, WaitObserver PROVE PartsInv'
  OBVIOUS
<1> USE DEF PartsInv
<1>1. /\ pc = "wait" /\ pc' = "kill" /\ p' = 0 /\ part \in Part
      /\ WaitPid(pidseer) /\ pidseer \in {observer(part), Failed}
      /\ UNCHANGED <<part, pidseer, renice_pid, child_pids, stray>>
  BY DEF WaitObserver, GoTo, ProcessesTypeOK
<1>2. pidseer \in Started \cup {Failed}
  BY <1>1, StartedProcesses
<1>3. /\ state' \in [Started -> {"none", "running", "zombie", "reaped"}]
      /\ \A q \in Started : \/ state'[q] = state[q]
                            \/ /\ pidseer \in {q, Failed}
                               /\ state[q] = "zombie" /\ state'[q] = "reaped"
  BY <1>1, <1>2, WaitEffect
<1>4. ProcessesTypeOK'
  BY <1>1, <1>3 DEF ProcessesTypeOK, Over, observer, worker
<1>5. \A o \in Part :
        /\ state'[renicer(o)] = "running" => state[renicer(o)] = "running"
        /\ \A i \in 0 .. np :
             \/ state'[worker(o, i)] = state[worker(o, i)]
             \/ pidseer = Failed /\ state[worker(o, i)] = "zombie" /\ state'[worker(o, i)] = "reaped"
  BY <1>1, <1>3, StartedProcesses
<1>6. PartsSound' /\ StraySound'
  BY <1>1 DEF PartsSound, StraySound, Over
<1>7. RunningSound' /\ LaterUntouched' /\ RenicersSound'
  <2>1. RunningSound'
    <3> SUFFICES ASSUME NEW o \in Part, NEW i \in 0 .. np, state'[worker(o, i)] = "running"
                 PROVE  o = part /\ i < Targets(part) /\ child_pids[i] = worker(o, i) /\ 0 <= i
      BY <1>1 DEF RunningSound, Targets, worker
    <3> QED BY <1>5 DEF RunningSound
  <2>2. LaterUntouched'
    BY <1>1, <1>5 DEF LaterUntouched, worker
  <2>3. RenicersSound'
    BY <1>1, <1>5 DEF RenicersSound, renicer
  <2> QED BY <2>1, <2>2, <2>3
<1>8. EndedSound'
  BY <1>1, <1>5 DEF EndedSound, Over, worker
<1> QED
  BY <1>4, <1>6, <1>7, <1>8

LEMMA KillWorkersKeeps == PartsInv /\ KillWorkers => PartsInv'
<1> SUFFICES ASSUME PartsInv, KillWorkers PROVE PartsInv'
  OBVIOUS
<1> USE DEF PartsInv
<1>1. /\ pc = "kill" /\ part \in Part /\ p \in Nat
      /\ UNCHANGED <<part, pidseer, renice_pid, child_pids>>
  BY DEF KillWorkers, ProcessesTypeOK
<1>2. CASE p < Targets(part)
  <2>1. Kill(child_pids[p]) /\ p' = p + 1 /\ pc' = pc
    BY <1>2 DEF KillWorkers
  <2>2. p \in 0 .. np /\ np \in Nat
    BY <1>1, <1>2, TargetsAre, StartedProcesses
  <2>3. /\ child_pids[p] \in {worker(part, p), Failed}
        /\ worker(part, p) \in Started
    BY <1>1, <2>2, StartedProcesses DEF ProcessesTypeOK
  <2>4. /\ state' \in [Started -> {"none", "running", "zombie", "reaped"}]
        /\ \A q \in Started :
             state'[q] = IF state[q] = "running" /\ child_pids[p] \in {q, Failed}
                         THEN "zombie" ELSE state[q]
    BY <2>1 DEF Kill, ProcessesTypeOK
  <2>5. stray' = IF child_pids[p] = Failed \/ state[child_pids[p]] = "reaped"
                 THEN stray \cup {part} ELSE stray
    BY <2>1 DEF Kill
  <2>6. part \in 1 .. part
    BY <1>1 DEF Part
  <2>7. ProcessesTypeOK'
    <3>1. p' \in Nat /\ stray' \subseteq 1 .. part
      <4>1. stray \subseteq 1 .. part /\ stray' \subseteq stray \cup {part}
        BY <2>5 DEF ProcessesTypeOK
      <4>2. stray' \subseteq 1 .. part
        BY <2>6, <4>1
      <4> QED BY <1>1, <2>1, <4>2
    <3> QED BY <1>1, <2>1, <2>4, <3>1 DEF ProcessesTypeOK, Over, observer, worker
  <2>8. /\ \A o \in Part :
             /\ state'[renicer(o)] = "running" => state[renicer(o)] = "running"
             /\ \A i \in 0 .. np :
                  \/ state'[worker(o, i)] = state[worker(o, i)]
                  \/ state[worker(o, i)] = "running" /\ state'[worker(o, i)] = "zombie"
        /\ child_pids[p] = worker(part, p) => state'[worker(part, p)] # "running"
    BY <2>3, <2>4, StartedProcesses
  <2>9. RunningSound'
    <3> SUFFICES ASSUME NEW o \in Part, NEW i \in 0 .. np, state'[worker(o, i)] = "running"
                 PROVE  /\ o = part /\ i < Targets(part) /\ child_pids[i] = worker(o, i)
                        /\ p + 1 <= i
      BY <1>1, <2>1 DEF RunningSound, Targets, worker, Forking
    <3>1. o = part /\ i < Targets(part) /\ child_pids[i] = worker(o, i) /\ p <= i
      BY <1>1, <2>8 DEF RunningSound
    <3>2. p # i
      BY <2>8, <3>1
    <3> QED BY <1>1, <2>2, <3>1, <3>2
  <2>10. EndedSound'
    BY <1>1, <2>1, <2>8 DEF EndedSound, Over, worker
  <2>11. PartsSound' /\ LaterUntouched' /\ RenicersSound'
    <3>1. PartsSound'
      BY <1>1, <2>1 DEF PartsSound
    <3>2. LaterUntouched'
      BY <1>1, <2>8 DEF LaterUntouched, worker
    <3>3. RenicersSound'
      BY <1>1, <2>8 DEF RenicersSound, renicer
    <3> QED BY <3>1, <3>2, <3>3
  <2>12. StraySound'
    <3>1. ASSUME part \in stray'
          PROVE  NotForked
      <4>1. CASE part \in stray
        BY <4>1 DEF StraySound
      <4>2. CASE child_pids[p] = Failed
        <5>1. p \in 0 .. Targets(part) - 1
          BY <1>1, <1>2, TargetsAre
        <5> QED BY <4>2, <5>1 DEF NotForked
      <4>3. CASE child_pids[p] # Failed /\ state[child_pids[p]] = "reaped"
        BY <2>2, <2>3, <4>3 DEF EndedSound, NotForked
      <4> QED BY <2>5, <3>1, <4>1, <4>2, <4>3
    <3> QED BY <1>1, <2>1, <3>1 DEF StraySound, Over, NotForked, Targets
  <2> QED BY <2>7, <2>9, <2>10, <2>11, <2>12
<1>3. CASE ~(p < Targets(part))
  <2>1. pc' = "rest" /\ UNCHANGED <<p, state, stray>>
    BY <1>3 DEF KillWorkers, GoTo
  <2>2. ProcessesTypeOK'
    BY <1>1, <2>1 DEF ProcessesTypeOK, Over, observer, worker
  <2>3. RunningSound'
    <3> SUFFICES ASSUME NEW o \in Part, NEW i \in 0 .. np, state'[worker(o, i)] = "running"
                 PROVE  FALSE
      BY DEF RunningSound
    <3>1. i < Targets(part) /\ p <= i
      BY <1>1, <2>1 DEF RunningSound, worker
    <3> QED BY <1>1, <1>3, <3>1, TargetsAre
  <2>4. StraySound'
    BY <1>1, <2>1 DEF StraySound, Over, NotForked, Targets
  <2>5. PartsSound' /\ EndedSound' /\ LaterUntouched' /\ RenicersSound'
    BY <1>1, <2>1 DEF PartsSound, EndedSound, LaterUntouched, RenicersSound, Over, worker, renicer
  <2> QED BY <2>2, <2>3, <2>4, <2>5
<1> QED BY <1>2, <1>3

LEMMA NextPartKeeps == PartsInv /\ NextPart => PartsInv'
<1> SUFFICES ASSUME PartsInv, NextPart PROVE PartsInv'
  OBVIOUS
<1> USE DEF PartsInv
<1>1. /\ pc = "rest" /\ part \in Part /\ UNCHANGED <<p, renice_pid, state, stray>>
  BY DEF NextPart, ProcessesTypeOK
<1>2. \A o \in Part, i \in 0 .. np : state[worker(o, i)] # "running" /\ state[renicer(o)] # "running"
  BY <1>1 DEF RunningSound, RenicersSound, Forking
<1>3. RunningSound' /\ RenicersSound'
  BY <1>1, <1>2 DEF RunningSound, RenicersSound, worker, renicer
<1>4. CASE part = 4
  <2>1. pc' = "done" /\ UNCHANGED <<part, pidseer, child_pids>>
    BY <1>4 DEF NextPart, GoTo
  <2>2. ProcessesTypeOK'
    BY <1>1, <2>1 DEF ProcessesTypeOK, Over, observer, worker
  <2> QED
    BY <1>1, <1>3, <2>1, <2>2
       DEF PartsSound, EndedSound, LaterUntouched, StraySound, Over, NotForked, Targets, worker
<1>5. CASE part # 4
  <2>1. /\ pc' = "pseer" /\ part' = part + 1 /\ part' \in Part /\ part' > part
        /\ pidseer' = Failed
        /\ child_pids' = [i \in 0 .. np |-> Failed]
    BY <1>1, <1>5 DEF NextPart, GoTo, Part
  <2>2. stray \subseteq 1 .. part /\ stray' \subseteq 1 .. part' /\ part' \notin stray'
    BY <1>1, <2>1 DEF ProcessesTypeOK, Part
  <2>3. ProcessesTypeOK'
    BY <1>1, <2>1, <2>2 DEF ProcessesTypeOK
  <2>4. EndedSound' /\ LaterUntouched'
    BY <1>1, <2>1 DEF EndedSound, LaterUntouched, Part, worker
  <2> QED
    BY <1>3, <2>1, <2>2, <2>3, <2>4 DEF PartsSound, StraySound
<1> QED BY <1>4, <1>5

\* The processes that end by themselves, and the observers' commands.
LEMMA EndsKeep ==
  ASSUME PartsInv, NEW q \in Started, state[q] = "running",
         state' = [state EXCEPT ![q] = "zombie"],
         \/ \E o \in Part : q \in {renicer(o), observer(o)}
         \/ q = worker(4, np),
         UNCHANGED <<pc, experiment, stray>>
  PROVE  PartsInv'
<1> USE DEF PartsInv
<1>1. UNCHANGED <<pc, part, p, pidseer, renice_pid, child_pids, stray>> /\ part \in Part
  BY DEF experiment, ProcessesTypeOK
<1>2. \A o \in Part :
        /\ state'[renicer(o)] = "running" => state[renicer(o)] = "running"
        /\ \A i \in 0 .. np : \/ state'[worker(o, i)] = state[worker(o, i)]
                              \/ /\ o = 4 /\ i = np
                                 /\ state[worker(o, i)] = "running" /\ state'[worker(o, i)] = "zombie"
  <2>1. \A x \in Started : state'[x] = IF x = q THEN "zombie" ELSE state[x]
    BY DEF ProcessesTypeOK
  <2>2. 4 \in Part /\ np \in 0 .. np
    BY StartedProcesses DEF Part
  <2> QED BY <2>1, <2>2, StartedProcesses
<1>3. ProcessesTypeOK'
  BY <1>1 DEF ProcessesTypeOK, observer, worker
<1>4. PartsSound' /\ StraySound'
  BY <1>1 DEF PartsSound, StraySound, NotForked, Targets
<1>5. LaterUntouched' /\ RenicersSound'
  <2>1. LaterUntouched'
    BY <1>1, <1>2 DEF LaterUntouched, worker
  <2>2. RenicersSound'
    BY <1>1, <1>2 DEF RenicersSound, renicer
  <2> QED BY <2>1, <2>2
<1>6. RunningSound'
  BY <1>1, <1>2 DEF RunningSound, Targets, worker
<1>7. EndedSound'
  <2> SUFFICES ASSUME NEW i \in 0 .. np
               PROVE  /\ pc \in {"pseer", "malloc"} => state'[worker(part, i)] = "none"
                      /\ state'[worker(part, i)] = "zombie" =>
                           pc \in Over \/ (part = 4 /\ i = np /\ pc = "wait")
                      /\ state'[worker(part, i)] = "reaped" => pc \in Over /\ pidseer = Failed
    BY <1>1 DEF EndedSound, worker
  <2>1. CASE state'[worker(part, i)] = state[worker(part, i)]
    BY <2>1 DEF EndedSound
  <2>2. CASE part = 4 /\ i = np /\ state[worker(part, i)] = "running" /\ state'[worker(part, i)] = "zombie"
    <3>1. /\ pc \in Forking \cup {"kill"} /\ pc \notin {"mkfifo", "block"}
          /\ pc = "fork" => i < p
      BY <1>1, <2>2, StartedProcesses DEF RunningSound
    <3>2. pc # "fork" /\ pc \notin {"renice", "wait_renice"}
      BY <1>1, <2>2, <3>1, TargetsAre, StartedProcesses DEF PartsSound, ProcessesTypeOK
    <3> QED BY <2>2, <3>1, <3>2 DEF Forking, Over
  <2> QED BY <1>1, <1>2, <2>1, <2>2
<1> QED
  BY <1>3, <1>4, <1>5, <1>6, <1>7

\* Steps of the other programs change nothing of this.
LEMMA NothingOfParts ==
  PartsInv /\ UNCHANGED <<pc, experiment, state, stray>> => PartsInv'
BY DEF PartsInv, ProcessesTypeOK, PartsSound, RunningSound, EndedSound, LaterUntouched, RenicersSound,
       StraySound, NotForked, Targets, experiment, observer, worker, renicer

LEMMA PipeKeeps == PartsInv /\ Pipe => PartsInv'
<1> SUFFICES ASSUME PartsInv, Pipe PROVE PartsInv'
  OBVIOUS
<1> USE DEF PartsInv
<1>1. UNCHANGED <<part, p, pidseer, renice_pid, child_pids, state, stray>> /\ part \in Part
  BY DEF Pipe, experiment, ProcessesTypeOK
<1>2. \/ pc' = pc
      \/ /\ pc \in {"pipe", "close", "read", "waitpid"}
         /\ pc' \in {"close", "read", "waitpid", "done"}
  BY DEF Pipe, ForkReader, CloseWriteEnd, Read, WaitChild, ChildRuns, ChildWrites, GoTo
<1>3. CASE pc' = pc
  BY <1>1, <1>3, NothingOfParts DEF experiment
<1>4. CASE /\ pc \in {"pipe", "close", "read", "waitpid"}
           /\ pc' \in {"close", "read", "waitpid", "done"}
  <2>1. ProcessesTypeOK'
    BY <1>1, <1>4 DEF ProcessesTypeOK, Over, observer, worker
  <2> QED
    BY <1>1, <1>4, <2>1
       DEF PartsSound, RunningSound, EndedSound, LaterUntouched, RenicersSound, StraySound,
           Forking, Over, worker, renicer
<1> QED BY <1>2, <1>3, <1>4

LEMMA PartsStep == PartsInv /\ [ProcessesNext]_processVars => PartsInv'
<1> SUFFICES ASSUME PartsInv, [ProcessesNext]_processVars PROVE PartsInv'
  OBVIOUS
<1>1. CASE main
  BY <1>1, PseerKeeps, MallocKeeps, ForkWorkerKeeps, ForkRenicerKeeps, WaitRenicerKeeps, MkfifoKeeps,
     ForkBlockingKeeps, WaitObserverKeeps, KillWorkersKeeps, NextPartKeeps DEF main
<1>2. CASE Others
  <2>1. CASE RenicerExits
    BY <2>1, EndsKeep, StartedProcesses DEF RenicerExits
  <2>2. ASSUME NEW o \in Part, Observe(o) \/ sensus(o) PROVE PartsInv'
    BY <2>2, NothingOfParts DEF Observe, sensus
  <2>3. ASSUME NEW o \in Part, ObserverExits(o) PROVE PartsInv'
    BY <2>3, EndsKeep, StartedProcesses DEF ObserverExits
  <2> QED BY <1>2, <2>1, <2>2, <2>3 DEF Others
<1>3. CASE Pipe
  BY <1>3, PipeKeeps
<1>4. CASE Exercise \/ Ended \/ UNCHANGED processVars
  BY <1>4, NothingOfParts DEF Exercise, Ended, processVars
<1>5. CASE BlockingExits
  <2>1. worker(4, np) \in Started
    BY StartedProcesses DEF Part
  <2> QED BY <1>5, <2>1, EndsKeep DEF BlockingExits
<1> QED BY <1>1, <1>2, <1>3, <1>4, <1>5 DEF ProcessesNext

\* A worker of spawn.c that runs is of the current part, was forked in it under the
\* number kept for it and is not killed yet; one that ended was killed, and was waited
\* for only if there was no observer (PartsInv).
THEOREM PartsInvariant == ProcessesSpec => []PartsInv
  BY InitParts, PartsStep, PTL DEF ProcessesSpec

\* Whichever calls fail: no worker runs when a part of spawn.c is over, and its signals
\* reach strangers only if a fork was missing in it (CleansUp).
THEOREM PartsCleanUp == ProcessesSpec => []CleansUp
<1>1. PartsInv => CleansUp
  <2> SUFFICES ASSUME PartsInv PROVE CleansUp
    OBVIOUS
  <2>1. 1 .. part \subseteq Part
    BY DEF PartsInv, ProcessesTypeOK, Part
  <2> QED
    BY <2>1 DEF PartsInv, CleansUp, RunningSound, RenicersSound, StraySound, Forking
<1> QED
  BY <1>1, PartsInvariant, PTL

----------------------------------------------------------------------------
(* The instructions of the exercises that fork, and the texts they move.   *)

Printing == {"line", "text", "show"}

\* The first of a list of instructions, and the others.
LEMMA TailEffect ==
  ASSUME NEW s \in Seq(Instruction), s # <<>>
  PROVE  /\ Tail(s) \in Seq(Instruction) /\ Head(s) = s[1]
         /\ \A call : Calls(s, call) <=> Head(s)[1] = call \/ Calls(Tail(s), call)
         /\ \A x : Prints(s, x) <=> (Head(s)[1] \in Printing /\ Head(s)[2] = x) \/ Prints(Tail(s), x)
<1>1. /\ Tail(s) \in Seq(Instruction) /\ Head(s) = s[1] /\ Len(Tail(s)) = Len(s) - 1 /\ Len(s) \in Nat \ {0}
      /\ \A i \in 1 .. Len(s) - 1 : Tail(s)[i] = s[i + 1]
      /\ DOMAIN s = 1 .. Len(s) /\ DOMAIN Tail(s) = 1 .. Len(s) - 1
  OBVIOUS
<1>2. \A i \in DOMAIN s : i = 1 \/ (i - 1 \in DOMAIN Tail(s) /\ Tail(s)[i - 1] = s[i])
  BY <1>1
<1>3. \A i \in DOMAIN Tail(s) : i + 1 \in DOMAIN s /\ Tail(s)[i] = s[i + 1]
  BY <1>1
<1>4. 1 \in DOMAIN s
  BY <1>1
<1> HIDE DEF Printing
<1> DEFINE T == Tail(s)
<1>5. ASSUME NEW call PROVE Calls(s, call) <=> Head(s)[1] = call \/ Calls(T, call)
  <2> HIDE DEF T
  <2>1. T = Tail(s)
    BY DEF T
  <2> QED
    BY <2>1, <1>1, <1>2, <1>3, <1>4 DEF Calls
<1>6. ASSUME NEW x PROVE Prints(s, x) <=> (Head(s)[1] \in Printing /\ Head(s)[2] = x) \/ Prints(T, x)
  <2> HIDE DEF T
  <2>1. T = Tail(s)
    BY DEF T
  <2>2. ASSUME NEW i \in DOMAIN s, s[i][1] \in Printing, s[i][2] = x
        PROVE  (Head(s)[1] \in Printing /\ Head(s)[2] = x) \/ Prints(T, x)
    <3>1. CASE i = 1
      BY <3>1, <2>2, <1>1
    <3>2. CASE i # 1
      BY <3>2, <2>1, <2>2, <1>2 DEF Prints, Printing
    <3> QED
      BY <3>1, <3>2
  <2>3. ASSUME NEW i \in DOMAIN T, T[i][1] \in Printing, T[i][2] = x PROVE Prints(s, x)
    BY <2>1, <2>3, <1>3 DEF Prints, Printing
  <2>4. Head(s)[1] \in Printing /\ Head(s)[2] = x => Prints(s, x)
    BY <1>1, <1>4 DEF Prints, Printing
  <2> QED
    BY <2>2, <2>3, <2>4 DEF Prints, Printing
<1> QED
  BY <1>1, <1>5, <1>6

\* Nothing is called or printed by an empty list.
LEMMA EmptyEffect ==
  /\ <<>> \in Seq(Instruction) /\ <<>> \in Seq(Text)
  /\ \A call : ~Calls(<<>>, call)
  /\ \A x : ~Prints(<<>>, x) /\ ~Contains(<<>>, x)
BY DEF Calls, Prints, Contains

\* What was guarded stays so until its wait is the first instruction.
LEMMA GuardedTail ==
  ASSUME NEW s \in Seq(Instruction), s # <<>>, Guarded(s), Head(s)[1] # "wait"
  PROVE  /\ Guarded(Tail(s))
         /\ \A x \in LateTexts : ~(Head(s)[1] \in Printing /\ Head(s)[2] = x)
<1>1. /\ Tail(s) \in Seq(Instruction) /\ Head(s) = s[1] /\ Len(Tail(s)) = Len(s) - 1 /\ Len(s) \in Nat \ {0}
      /\ \A i \in 1 .. Len(s) - 1 : Tail(s)[i] = s[i + 1]
      /\ DOMAIN s = 1 .. Len(s) /\ DOMAIN Tail(s) = 1 .. Len(s) - 1
  OBVIOUS
<1> HIDE DEF LateTexts
<1>2. \A x \in LateTexts : ~(Head(s)[1] \in Printing /\ Head(s)[2] = x)
  BY <1>1 DEF Guarded, Printing
<1>3. ASSUME NEW i \in DOMAIN Tail(s), Tail(s)[i][1] \in Printing, Tail(s)[i][2] \in LateTexts
      PROVE  \E j \in 1 .. i - 1 : Tail(s)[j][1] = "wait"
  <2>1. i + 1 \in DOMAIN s /\ s[i + 1] = Tail(s)[i]
    BY <1>1
  <2>2. PICK j \in 1 .. i : s[j][1] = "wait"
    BY <2>1, <1>3 DEF Guarded, Printing
  <2>3. j # 1 /\ j - 1 \in 1 .. i - 1 /\ Tail(s)[j - 1] = s[j]
    BY <2>2, <1>1
  <2> QED
    BY <2>2, <2>3
<1> QED
  BY <1>2, <1>3 DEF Guarded, Printing

LEMMA InstructionsHaveText ==
  \A a \in Instruction : a[1] \in Printing => a[2] \in Text
BY DEF Instruction, Printing, fflush, open, fork, wait, execve, dup2, again

\* What is kept with one text more.
LEMMA AppendEffect ==
  ASSUME NEW s \in Seq(Text), NEW x \in Text
  PROVE  /\ Append(s, x) \in Seq(Text)
         /\ \A y : Contains(Append(s, x), y) <=> Contains(s, y) \/ y = x
<1> DEFINE t == Append(s, x)
<1>0. Len(s) \in Nat
  OBVIOUS
<1>a. /\ Append(s, x) \in Seq(Text) /\ Len(Append(s, x)) = Len(s) + 1
  BY AppendProperties
<1>b. Append(s, x)[Len(s) + 1] = x
  BY AppendProperties
<1>c. \A i \in 1 .. Len(s) : Append(s, x)[i] = s[i]
  BY AppendProperties
<1>1. /\ t \in Seq(Text) /\ Len(t) = Len(s) + 1 /\ t[Len(s) + 1] = x /\ Len(s) \in Nat
      /\ \A i \in 1 .. Len(s) : t[i] = s[i]
  BY <1>0, <1>a, <1>b, <1>c
<1>2. /\ \A i \in 1 .. Len(t) : i = Len(s) + 1 \/ i \in 1 .. Len(s)
      /\ \A i \in 1 .. Len(s) : i \in 1 .. Len(t)
      /\ Len(s) + 1 \in 1 .. Len(t)
  BY <1>1
<1> HIDE DEF t
<1>3. ASSUME NEW y PROVE Contains(t, y) <=> Contains(s, y) \/ y = x
  BY <1>1, <1>2 DEF Contains
<1> QED
  BY <1>1, <1>3 DEF t

\* main, its child and the children of each repetition are processes.
LEMMA MainAndChild == /\ Main \in Process /\ Child \in Process /\ Main # Child
                      /\ 1 \in 1 .. REPETITIONS /\ REPETITIONS \in Nat
                      /\ \A r \in 1 .. REPETITIONS : <<1, r>> \in Process /\ <<2, r>> \in Process
                      /\ \A q \in Process : q # Main => q[1] \in {1, 2} /\ q[2] \in 1 .. REPETITIONS /\ q = <<q[1], q[2]>>
<1>1. REPETITIONS \in Nat /\ REPETITIONS > 0
  BY ForksAssumption
<1> QED
  BY <1>1 DEF Main, Child, Process

\* write: what was there stays; what comes is of the process and was kept.
Appears(q) == q \notin redirected \/ terminal
LEMMA WriteEffect ==
  ASSUME NEW q \in Process, NEW texts \in Seq(Text), output \in Seq(Process \X Text),
         Write(q, texts)
  PROVE  /\ output' \in Seq(Process \X Text)
         /\ DOMAIN output \subseteq DOMAIN output'
         /\ \A i \in DOMAIN output : output'[i] = output[i]
         /\ \A i \in DOMAIN output' \ DOMAIN output :
              /\ output'[i][1] = q /\ Contains(texts, output'[i][2]) /\ Appears(q)
              /\ \A j \in DOMAIN output : j < i
              /\ i - Len(output) \in DOMAIN texts /\ output'[i] = <<q, texts[i - Len(output)]>>
         /\ Appears(q) => \A i \in DOMAIN texts : /\ Len(output) + i \in DOMAIN output' \ DOMAIN output
                                                  /\ output'[Len(output) + i] = <<q, texts[i]>>
<1>1. CASE ~Appears(q)
  <2>1. output' = output
    BY <1>1 DEF Write, Appears
  <2> QED
    BY <2>1, <1>1
<1>2. CASE Appears(q)
  <2> DEFINE t == [i \in DOMAIN texts |-> <<q, texts[i]>>]
  <2>1. output' = output \o t
    BY <1>2 DEF Write, Appears
  <2>2. /\ Len(texts) \in Nat /\ DOMAIN texts = 1 .. Len(texts)
        /\ \A i \in 1 .. Len(texts) : texts[i] \in Text
        /\ Len(output) \in Nat /\ DOMAIN output = 1 .. Len(output)
    OBVIOUS
  <2>3. t = [i \in 1 .. Len(texts) |-> <<q, texts[i]>>]
    BY <2>2
  <2>4. /\ t \in Seq(Process \X Text) /\ Len(t) = Len(texts)
        /\ \A i \in 1 .. Len(texts) : t[i] = <<q, texts[i]>>
    BY <2>2, <2>3
  <2> HIDE DEF t
  <2>5. /\ output' \in Seq(Process \X Text) /\ Len(output') = Len(output) + Len(texts)
        /\ DOMAIN output' = 1 .. Len(output) + Len(texts)
        /\ \A i \in 1 .. Len(output) : output'[i] = output[i]
        /\ \A i \in Len(output) + 1 .. Len(output) + Len(texts) : output'[i] = t[i - Len(output)]
    <3>1. /\ output' \in Seq(Process \X Text) /\ Len(output') = Len(output) + Len(texts)
          /\ \A i \in 1 .. Len(output) + Len(texts) :
               output'[i] = IF i <= Len(output) THEN output[i] ELSE t[i - Len(output)]
      <4>1. /\ output \o t \in Seq(Process \X Text) /\ Len(output \o t) = Len(output) + Len(t)
            /\ \A i \in 1 .. Len(output) + Len(t) :
                 (output \o t)[i] = IF i <= Len(output) THEN output[i] ELSE t[i - Len(output)]
        BY <2>4, ConcatProperties
      <4> QED
        BY <4>1, <2>1, <2>4
    <3> QED
      BY <3>1, <2>2
  <2>6. ASSUME NEW i \in DOMAIN output' \ DOMAIN output
        PROVE  /\ i \in Nat /\ i - Len(output) \in 1 .. Len(texts) /\ i > Len(output)
               /\ output'[i] = <<q, texts[i - Len(output)]>>
               /\ Contains(texts, texts[i - Len(output)])
    <3>1. i \in Len(output) + 1 .. Len(output) + Len(texts)
      BY <2>2, <2>5
    <3>2. i \in Nat /\ i - Len(output) \in 1 .. Len(texts) /\ i > Len(output)
      BY <3>1, <2>2
    <3> QED
      BY <3>1, <3>2, <2>4, <2>5 DEF Contains
  <2>7. ASSUME NEW i \in DOMAIN texts
        PROVE  Len(output) + i \in DOMAIN output' \ DOMAIN output /\ output'[Len(output) + i] = <<q, texts[i]>>
    <3>1. i \in 1 .. Len(texts) /\ Len(output) + i \in Len(output) + 1 .. Len(output) + Len(texts)
          /\ (Len(output) + i) - Len(output) = i
      BY <2>2
    <3> QED
      BY <3>1, <2>2, <2>4, <2>5
  <2> QED
    BY <1>2, <2>2, <2>5, <2>6, <2>7
<1> QED
  BY <1>1, <1>2

\* The same of the texts that are written.
LEMMA WrittenAfter ==
  ASSUME NEW q \in Process, NEW texts \in Seq(Text), output \in Seq(Process \X Text),
         Write(q, texts)
  PROVE  \A r, x : Written(r, x)' <=> Written(r, x) \/ (r = q /\ Contains(texts, x) /\ Appears(q))
<1>1. /\ Len(output) \in Nat /\ Len(output') \in Nat /\ Len(texts) \in Nat
      /\ DOMAIN output = 1 .. Len(output) /\ DOMAIN output' = 1 .. Len(output') /\ DOMAIN texts = 1 .. Len(texts)
  BY WriteEffect
<1> SUFFICES ASSUME NEW r, NEW x
             PROVE  Written(r, x)' <=> Written(r, x) \/ (r = q /\ Contains(texts, x) /\ Appears(q))
  OBVIOUS
<1>2. /\ Written(r, x) <=> \E i \in DOMAIN output : output[i] = <<r, x>>
      /\ Written(r, x)' <=> \E i \in DOMAIN output' : output'[i] = <<r, x>>
      /\ Contains(texts, x) <=> \E i \in DOMAIN texts : texts[i] = x
  BY <1>1 DEF Written, Contains
<1>3. Written(r, x) => Written(r, x)'
  BY <1>2, WriteEffect
<1>4. ASSUME r = q, Contains(texts, x), Appears(q) PROVE Written(r, x)'
  <2>1. PICK i \in DOMAIN texts : texts[i] = x
    BY <1>2, <1>4
  <2>2. Len(output) + i \in DOMAIN output' /\ output'[Len(output) + i] = <<q, x>>
    BY <1>4, <2>1, WriteEffect
  <2> QED
    BY <1>2, <1>4, <2>2
<1>5. ASSUME Written(r, x)', ~Written(r, x) PROVE r = q /\ Contains(texts, x) /\ Appears(q)
  <2>1. PICK i \in DOMAIN output' : output'[i] = <<r, x>>
    BY <1>2, <1>5
  <2>2. i \notin DOMAIN output
    BY <1>2, <1>5, <2>1, WriteEffect
  <2> QED
    BY <2>1, <2>2, WriteEffect
<1> QED
  BY <1>3, <1>4, <1>5

\* The order of two texts, when more is written.
LEMMA BeforeKept ==
  ASSUME NEW q \in Process, NEW texts \in Seq(Text), output \in Seq(Process \X Text),
         Write(q, texts), NEW x, NEW y, Before(x, y),
         \/ ~Contains(texts, x) \/ ~Appears(q)
         \/ \A r \in Process : ~Written(r, y) /\ ~Contains(texts, y)
  PROVE  Before(x, y)'
<1>1. /\ Len(output) \in Nat /\ DOMAIN output = 1 .. Len(output)
      /\ \A i \in DOMAIN output : output[i] \in Process \X Text
  OBVIOUS
<1> SUFFICES ASSUME NEW j \in DOMAIN output', output'[j][2] = y,
                    NEW i \in DOMAIN output', output'[i][2] = x
             PROVE  i < j
  BY DEF Before
<1>2. CASE i \in DOMAIN output /\ j \in DOMAIN output
  BY <1>2, WriteEffect DEF Before
<1>3. CASE i \in DOMAIN output /\ j \notin DOMAIN output
  BY <1>3, WriteEffect
<1>4. CASE i \notin DOMAIN output
  <2>1. Contains(texts, x) /\ Appears(q)
    BY <1>4, WriteEffect
  <2>2. CASE j \in DOMAIN output
    <3>1. output[j][2] = y /\ output[j][1] \in Process /\ output[j] = <<output[j][1], y>>
      BY <2>2, <1>1, WriteEffect
    <3>2. Written(output[j][1], y)
      BY <1>1, <2>2, <3>1 DEF Written, Contains
    <3> QED
      BY <2>1, <3>1, <3>2
  <2>3. CASE j \notin DOMAIN output
    <3>1. Contains(texts, y)
      BY <2>3, WriteEffect
    <3> QED
      BY <2>1, <3>1
  <2> QED
    BY <2>2, <2>3
<1> QED
  BY <1>2, <1>3, <1>4

----------------------------------------------------------------------------
(* The lists of the programs: what each calls and prints.                  *)

\* What a list of a program calls and prints.
Does(s, calls, texts) ==
  /\ s \in Seq(Instruction)
  /\ \A call : Calls(s, call) <=> call \in calls
  /\ \A x : Prints(s, x) <=> x \in texts

LEMMA SyntaxParent == \A s : s = <<line("parent")>> => Does(s, {"line"}, {"parent"})
<1> SUFFICES ASSUME NEW s, s = <<line("parent")>> PROVE Does(s, {"line"}, {"parent"})
  OBVIOUS
<1> USE DEF line
<1>1. /\ DOMAIN s = 1 .. 1 /\ {1} \subseteq DOMAIN s /\ \A i \in DOMAIN s : i \in {1}
      /\ s[1] = line("parent")
  OBVIOUS
<1>2. s \in Seq(Instruction)
  BY DEF Text, Instruction
<1>3. \A call : Calls(s, call) <=> call \in {"line"}
  BY <1>1 DEF Calls
<1>4. \A x : Prints(s, x) <=> x \in {"parent"}
  BY <1>1 DEF Prints
<1> QED
  BY <1>2, <1>3, <1>4 DEF Does

LEMMA SyntaxChild == \A s : s = <<line("child")>> => Does(s, {"line"}, {"child"})
<1> SUFFICES ASSUME NEW s, s = <<line("child")>> PROVE Does(s, {"line"}, {"child"})
  OBVIOUS
<1> USE DEF line
<1>1. /\ DOMAIN s = 1 .. 1 /\ {1} \subseteq DOMAIN s /\ \A i \in DOMAIN s : i \in {1}
      /\ s[1] = line("child")
  OBVIOUS
<1>2. s \in Seq(Instruction)
  BY DEF Text, Instruction
<1>3. \A call : Calls(s, call) <=> call \in {"line"}
  BY <1>1 DEF Calls
<1>4. \A x : Prints(s, x) <=> x \in {"child"}
  BY <1>1 DEF Prints
<1> QED
  BY <1>2, <1>3, <1>4 DEF Does

LEMMA NoneLine == \A s : s = <<line("none")>> => Does(s, {"line"}, {"none"})
<1> SUFFICES ASSUME NEW s, s = <<line("none")>> PROVE Does(s, {"line"}, {"none"})
  OBVIOUS
<1> USE DEF line
<1>1. /\ DOMAIN s = 1 .. 1 /\ {1} \subseteq DOMAIN s /\ \A i \in DOMAIN s : i \in {1}
      /\ s[1] = line("none")
  OBVIOUS
<1>2. s \in Seq(Instruction)
  BY DEF Text, Instruction
<1>3. \A call : Calls(s, call) <=> call \in {"line"}
  BY <1>1 DEF Calls
<1>4. \A x : Prints(s, x) <=> x \in {"none"}
  BY <1>1 DEF Prints
<1> QED
  BY <1>2, <1>3, <1>4 DEF Does

LEMMA OneFlush == \A s : s = <<text("1"), fflush>> => Does(s, {"text", "fflush"}, {"1"})
<1> SUFFICES ASSUME NEW s, s = <<text("1"), fflush>> PROVE Does(s, {"text", "fflush"}, {"1"})
  OBVIOUS
<1> USE DEF text, fflush
<1>1. /\ DOMAIN s = 1 .. 2 /\ {1, 2} \subseteq DOMAIN s /\ \A i \in DOMAIN s : i \in {1, 2}
      /\ s[1] = text("1") /\ s[2] = fflush
  OBVIOUS
<1>2. s \in Seq(Instruction)
  BY DEF Text, Instruction
<1>3. \A call : Calls(s, call) <=> call \in {"text", "fflush"}
  BY <1>1 DEF Calls
<1>4. \A x : Prints(s, x) <=> x \in {"1"}
  BY <1>1 DEF Prints
<1> QED
  BY <1>2, <1>3, <1>4 DEF Does

LEMMA TwoFlush == \A s : s = <<text("2"), fflush>> => Does(s, {"text", "fflush"}, {"2"})
<1> SUFFICES ASSUME NEW s, s = <<text("2"), fflush>> PROVE Does(s, {"text", "fflush"}, {"2"})
  OBVIOUS
<1> USE DEF text, fflush
<1>1. /\ DOMAIN s = 1 .. 2 /\ {1, 2} \subseteq DOMAIN s /\ \A i \in DOMAIN s : i \in {1, 2}
      /\ s[1] = text("2") /\ s[2] = fflush
  OBVIOUS
<1>2. s \in Seq(Instruction)
  BY DEF Text, Instruction
<1>3. \A call : Calls(s, call) <=> call \in {"text", "fflush"}
  BY <1>1 DEF Calls
<1>4. \A x : Prints(s, x) <=> x \in {"2"}
  BY <1>1 DEF Prints
<1> QED
  BY <1>2, <1>3, <1>4 DEF Does

LEMMA WaitOneFlush == \A s : s = <<wait, text("1"), fflush>> => Does(s, {"wait", "text", "fflush"}, {"1"})
<1> SUFFICES ASSUME NEW s, s = <<wait, text("1"), fflush>> PROVE Does(s, {"wait", "text", "fflush"}, {"1"})
  OBVIOUS
<1> USE DEF wait, text, fflush
<1>1. /\ DOMAIN s = 1 .. 3 /\ {1, 2, 3} \subseteq DOMAIN s /\ \A i \in DOMAIN s : i \in {1, 2, 3}
      /\ s[1] = wait /\ s[2] = text("1") /\ s[3] = fflush
  OBVIOUS
<1>2. s \in Seq(Instruction)
  BY DEF Text, Instruction
<1>3. \A call : Calls(s, call) <=> call \in {"wait", "text", "fflush"}
  BY <1>1 DEF Calls
<1>4. \A x : Prints(s, x) <=> x \in {"1"}
  BY <1>1 DEF Prints
<1> QED
  BY <1>2, <1>3, <1>4 DEF Does

LEMMA VariablesParent == \A s : s = <<line("2"), line("6"), line("5"), line("6")>> => Does(s, {"line"}, {"2", "6", "5"})
<1> SUFFICES ASSUME NEW s, s = <<line("2"), line("6"), line("5"), line("6")>> PROVE Does(s, {"line"}, {"2", "6", "5"})
  OBVIOUS
<1> USE DEF line
<1>1. /\ DOMAIN s = 1 .. 4 /\ {1, 2, 3, 4} \subseteq DOMAIN s /\ \A i \in DOMAIN s : i \in {1, 2, 3, 4}
      /\ s[1] = line("2") /\ s[2] = line("6") /\ s[3] = line("5") /\ s[4] = line("6")
  OBVIOUS
<1>2. s \in Seq(Instruction)
  BY DEF Text, Instruction
<1>3. \A call : Calls(s, call) <=> call \in {"line"}
  BY <1>1 DEF Calls
<1>4. \A x : Prints(s, x) <=> x \in {"2", "6", "5"}
  BY <1>1 DEF Prints
<1> QED
  BY <1>2, <1>3, <1>4 DEF Does

LEMMA VariablesChild == \A s : s = <<line("2"), line("1"), line("7"), line("1")>> => Does(s, {"line"}, {"2", "1", "7"})
<1> SUFFICES ASSUME NEW s, s = <<line("2"), line("1"), line("7"), line("1")>> PROVE Does(s, {"line"}, {"2", "1", "7"})
  OBVIOUS
<1> USE DEF line
<1>1. /\ DOMAIN s = 1 .. 4 /\ {1, 2, 3, 4} \subseteq DOMAIN s /\ \A i \in DOMAIN s : i \in {1, 2, 3, 4}
      /\ s[1] = line("2") /\ s[2] = line("1") /\ s[3] = line("7") /\ s[4] = line("1")
  OBVIOUS
<1>2. s \in Seq(Instruction)
  BY DEF Text, Instruction
<1>3. \A call : Calls(s, call) <=> call \in {"line"}
  BY <1>1 DEF Calls
<1>4. \A x : Prints(s, x) <=> x \in {"2", "1", "7"}
  BY <1>1 DEF Prints
<1> QED
  BY <1>2, <1>3, <1>4 DEF Does

LEMMA ExecveParent == \A s : s = <<line("parent"), wait, line("waited"), dup2, line("x")>> => Does(s, {"line", "wait", "dup2"}, {"parent", "waited", "x"})
<1> SUFFICES ASSUME NEW s, s = <<line("parent"), wait, line("waited"), dup2, line("x")>> PROVE Does(s, {"line", "wait", "dup2"}, {"parent", "waited", "x"})
  OBVIOUS
<1> USE DEF line, wait, dup2
<1>1. /\ DOMAIN s = 1 .. 5 /\ {1, 2, 3, 4, 5} \subseteq DOMAIN s /\ \A i \in DOMAIN s : i \in {1, 2, 3, 4, 5}
      /\ s[1] = line("parent") /\ s[2] = wait /\ s[3] = line("waited") /\ s[4] = dup2 /\ s[5] = line("x")
  OBVIOUS
<1>2. s \in Seq(Instruction)
  BY DEF Text, Instruction
<1>3. \A call : Calls(s, call) <=> call \in {"line", "wait", "dup2"}
  BY <1>1 DEF Calls
<1>4. \A x : Prints(s, x) <=> x \in {"parent", "waited", "x"}
  BY <1>1 DEF Prints
<1> QED
  BY <1>2, <1>3, <1>4 DEF Does

LEMMA ExecveChild == \A s : s = <<line("child"), execve>> => Does(s, {"line", "execve"}, {"child"})
<1> SUFFICES ASSUME NEW s, s = <<line("child"), execve>> PROVE Does(s, {"line", "execve"}, {"child"})
  OBVIOUS
<1> USE DEF line, execve
<1>1. /\ DOMAIN s = 1 .. 2 /\ {1, 2} \subseteq DOMAIN s /\ \A i \in DOMAIN s : i \in {1, 2}
      /\ s[1] = line("child") /\ s[2] = execve
  OBVIOUS
<1>2. s \in Seq(Instruction)
  BY DEF Text, Instruction
<1>3. \A call : Calls(s, call) <=> call \in {"line", "execve"}
  BY <1>1 DEF Calls
<1>4. \A x : Prints(s, x) <=> x \in {"child"}
  BY <1>1 DEF Prints
<1> QED
  BY <1>2, <1>3, <1>4 DEF Does

LEMMA ExecveFailed == \A s : s = <<dup2, line("x")>> => Does(s, {"dup2", "line"}, {"x"})
<1> SUFFICES ASSUME NEW s, s = <<dup2, line("x")>> PROVE Does(s, {"dup2", "line"}, {"x"})
  OBVIOUS
<1> USE DEF dup2, line
<1>1. /\ DOMAIN s = 1 .. 2 /\ {1, 2} \subseteq DOMAIN s /\ \A i \in DOMAIN s : i \in {1, 2}
      /\ s[1] = dup2 /\ s[2] = line("x")
  OBVIOUS
<1>2. s \in Seq(Instruction)
  BY DEF Text, Instruction
<1>3. \A call : Calls(s, call) <=> call \in {"dup2", "line"}
  BY <1>1 DEF Calls
<1>4. \A x : Prints(s, x) <=> x \in {"x"}
  BY <1>1 DEF Prints
<1> QED
  BY <1>2, <1>3, <1>4 DEF Does

LEMMA DupParent == \A s : s = <<line("parent"), wait, line("waited"), line("x")>> => Does(s, {"line", "wait"}, {"parent", "waited", "x"})
<1> SUFFICES ASSUME NEW s, s = <<line("parent"), wait, line("waited"), line("x")>> PROVE Does(s, {"line", "wait"}, {"parent", "waited", "x"})
  OBVIOUS
<1> USE DEF line, wait
<1>1. /\ DOMAIN s = 1 .. 4 /\ {1, 2, 3, 4} \subseteq DOMAIN s /\ \A i \in DOMAIN s : i \in {1, 2, 3, 4}
      /\ s[1] = line("parent") /\ s[2] = wait /\ s[3] = line("waited") /\ s[4] = line("x")
  OBVIOUS
<1>2. s \in Seq(Instruction)
  BY DEF Text, Instruction
<1>3. \A call : Calls(s, call) <=> call \in {"line", "wait"}
  BY <1>1 DEF Calls
<1>4. \A x : Prints(s, x) <=> x \in {"parent", "waited", "x"}
  BY <1>1 DEF Prints
<1> QED
  BY <1>2, <1>3, <1>4 DEF Does

LEMMA DupFailed == \A s : s = <<line("x")>> => Does(s, {"line"}, {"x"})
<1> SUFFICES ASSUME NEW s, s = <<line("x")>> PROVE Does(s, {"line"}, {"x"})
  OBVIOUS
<1> USE DEF line
<1>1. /\ DOMAIN s = 1 .. 1 /\ {1} \subseteq DOMAIN s /\ \A i \in DOMAIN s : i \in {1}
      /\ s[1] = line("x")
  OBVIOUS
<1>2. s \in Seq(Instruction)
  BY DEF Text, Instruction
<1>3. \A call : Calls(s, call) <=> call \in {"line"}
  BY <1>1 DEF Calls
<1>4. \A x : Prints(s, x) <=> x \in {"x"}
  BY <1>1 DEF Prints
<1> QED
  BY <1>2, <1>3, <1>4 DEF Does

LEMMA ForkAlone == \A s : s = <<fork>> => Does(s, {"fork"}, {})
<1> SUFFICES ASSUME NEW s, s = <<fork>> PROVE Does(s, {"fork"}, {})
  OBVIOUS
<1> USE DEF fork
<1>1. /\ DOMAIN s = 1 .. 1 /\ {1} \subseteq DOMAIN s /\ \A i \in DOMAIN s : i \in {1}
      /\ s[1] = fork
  OBVIOUS
<1>2. s \in Seq(Instruction)
  BY DEF Text, Instruction
<1>3. \A call : Calls(s, call) <=> call \in {"fork"}
  BY <1>1 DEF Calls
<1>4. \A x : Prints(s, x) <=> x \in {}
  BY <1>1 DEF Prints
<1> QED
  BY <1>2, <1>3, <1>4 DEF Does

LEMMA OpenFork == \A s : s = <<open, fork>> => Does(s, {"open", "fork"}, {})
<1> SUFFICES ASSUME NEW s, s = <<open, fork>> PROVE Does(s, {"open", "fork"}, {})
  OBVIOUS
<1> USE DEF open, fork
<1>1. /\ DOMAIN s = 1 .. 2 /\ {1, 2} \subseteq DOMAIN s /\ \A i \in DOMAIN s : i \in {1, 2}
      /\ s[1] = open /\ s[2] = fork
  OBVIOUS
<1>2. s \in Seq(Instruction)
  BY DEF Text, Instruction
<1>3. \A call : Calls(s, call) <=> call \in {"open", "fork"}
  BY <1>1 DEF Calls
<1>4. \A x : Prints(s, x) <=> x \in {}
  BY <1>1 DEF Prints
<1> QED
  BY <1>2, <1>3, <1>4 DEF Does

LEMMA HeadFork == \A s : s = <<line("head"), fork>> => Does(s, {"line", "fork"}, {"head"})
<1> SUFFICES ASSUME NEW s, s = <<line("head"), fork>> PROVE Does(s, {"line", "fork"}, {"head"})
  OBVIOUS
<1> USE DEF line, fork
<1>1. /\ DOMAIN s = 1 .. 2 /\ {1, 2} \subseteq DOMAIN s /\ \A i \in DOMAIN s : i \in {1, 2}
      /\ s[1] = line("head") /\ s[2] = fork
  OBVIOUS
<1>2. s \in Seq(Instruction)
  BY DEF Text, Instruction
<1>3. \A call : Calls(s, call) <=> call \in {"line", "fork"}
  BY <1>1 DEF Calls
<1>4. \A x : Prints(s, x) <=> x \in {"head"}
  BY <1>1 DEF Prints
<1> QED
  BY <1>2, <1>3, <1>4 DEF Does

LEMMA HeadOpenFork == \A s : s = <<line("head"), open, fork>> => Does(s, {"line", "open", "fork"}, {"head"})
<1> SUFFICES ASSUME NEW s, s = <<line("head"), open, fork>> PROVE Does(s, {"line", "open", "fork"}, {"head"})
  OBVIOUS
<1> USE DEF line, open, fork
<1>1. /\ DOMAIN s = 1 .. 3 /\ {1, 2, 3} \subseteq DOMAIN s /\ \A i \in DOMAIN s : i \in {1, 2, 3}
      /\ s[1] = line("head") /\ s[2] = open /\ s[3] = fork
  OBVIOUS
<1>2. s \in Seq(Instruction)
  BY DEF Text, Instruction
<1>3. \A call : Calls(s, call) <=> call \in {"line", "open", "fork"}
  BY <1>1 DEF Calls
<1>4. \A x : Prints(s, x) <=> x \in {"head"}
  BY <1>1 DEF Prints
<1> QED
  BY <1>2, <1>3, <1>4 DEF Does

LEMMA RepeatList == \A s : s = <<wait, wait, again>> => Does(s, {"wait", "again"}, {})
<1> SUFFICES ASSUME NEW s, s = <<wait, wait, again>> PROVE Does(s, {"wait", "again"}, {})
  OBVIOUS
<1> USE DEF wait, again
<1>1. /\ DOMAIN s = 1 .. 3 /\ {1, 2, 3} \subseteq DOMAIN s /\ \A i \in DOMAIN s : i \in {1, 2, 3}
      /\ s[1] = wait /\ s[2] = wait /\ s[3] = again
  OBVIOUS
<1>2. s \in Seq(Instruction)
  BY DEF Text, Instruction
<1>3. \A call : Calls(s, call) <=> call \in {"wait", "again"}
  BY <1>1 DEF Calls
<1>4. \A x : Prints(s, x) <=> x \in {}
  BY <1>1 DEF Prints
<1> QED
  BY <1>2, <1>3, <1>4 DEF Does

LEMMA WokenList == \A s : s = <<show("A"), show("E")>> => Does(s, {"show"}, {"A", "E"})
<1> SUFFICES ASSUME NEW s, s = <<show("A"), show("E")>> PROVE Does(s, {"show"}, {"A", "E"})
  OBVIOUS
<1> USE DEF show
<1>1. /\ DOMAIN s = 1 .. 2 /\ {1, 2} \subseteq DOMAIN s /\ \A i \in DOMAIN s : i \in {1, 2}
      /\ s[1] = show("A") /\ s[2] = show("E")
  OBVIOUS
<1>2. s \in Seq(Instruction)
  BY DEF Text, Instruction
<1>3. \A call : Calls(s, call) <=> call \in {"show"}
  BY <1>1 DEF Calls
<1>4. \A x : Prints(s, x) <=> x \in {"A", "E"}
  BY <1>1 DEF Prints
<1> QED
  BY <1>2, <1>3, <1>4 DEF Does

LEMMA EndList == \A s : s = <<show("E")>> => Does(s, {"show"}, {"E"})
<1> SUFFICES ASSUME NEW s, s = <<show("E")>> PROVE Does(s, {"show"}, {"E"})
  OBVIOUS
<1> USE DEF show
<1>1. /\ DOMAIN s = 1 .. 1 /\ {1} \subseteq DOMAIN s /\ \A i \in DOMAIN s : i \in {1}
      /\ s[1] = show("E")
  OBVIOUS
<1>2. s \in Seq(Instruction)
  BY DEF Text, Instruction
<1>3. \A call : Calls(s, call) <=> call \in {"show"}
  BY <1>1 DEF Calls
<1>4. \A x : Prints(s, x) <=> x \in {"E"}
  BY <1>1 DEF Prints
<1> QED
  BY <1>2, <1>3, <1>4 DEF Does

LEMMA LsList == \A s : s = <<show("ls")>> => Does(s, {"show"}, {"ls"})
<1> SUFFICES ASSUME NEW s, s = <<show("ls")>> PROVE Does(s, {"show"}, {"ls"})
  OBVIOUS
<1> USE DEF show
<1>1. /\ DOMAIN s = 1 .. 1 /\ {1} \subseteq DOMAIN s /\ \A i \in DOMAIN s : i \in {1}
      /\ s[1] = show("ls")
  OBVIOUS
<1>2. s \in Seq(Instruction)
  BY DEF Text, Instruction
<1>3. \A call : Calls(s, call) <=> call \in {"show"}
  BY <1>1 DEF Calls
<1>4. \A x : Prints(s, x) <=> x \in {"ls"}
  BY <1>1 DEF Prints
<1> QED
  BY <1>2, <1>3, <1>4 DEF Does

\* What the programs are made of, as far as the invariant depends on it.

StartSound(s) ==
  /\ s \in Seq(Instruction)
  /\ \A call \in {"wait", "again", "dup2", "execve"} : ~Calls(s, call)
  /\ program = "pid" => s = <<fork>>
  /\ Prints(s, "head") => Head(s) = line("head") /\ ~Prints(Tail(s), "head")
  /\ program \in Headed => /\ Prints(s, "head") /\ ~Prints(s, "ls")
                           /\ ~Calls(s, "fflush") /\ ~Calls(s, "show")
  /\ program \in Waiting => ~Prints(s, EarlyText) /\ \A x \in LateTexts : ~Prints(s, x)

ListSound(s) ==
  /\ s \in Seq(Instruction) /\ ~Calls(s, "open") /\ ~Prints(s, "head")
  /\ program \in Headed => ~Prints(s, "ls") /\ ~Calls(s, "fflush") /\ ~Calls(s, "show")

\* What the caller of the first fork goes on with, and what its child does.
CallerSound(s) ==
  /\ ListSound(s) /\ ~Calls(s, "fork") /\ ~Calls(s, "execve")
  /\ Calls(s, "again") => program = "pid"
  /\ Calls(s, "dup2") => program = "execve"
  /\ program \in Waiting => ~Prints(s, EarlyText)
  /\ program = "pid" => s = <<wait, wait, again>>

ChildSound(s) ==
  /\ ListSound(s)
  /\ \A call \in {"wait", "again", "dup2"} : ~Calls(s, call)
  /\ Calls(s, "execve") => program \in {"execve", "dup"}
  /\ Calls(s, "fork") => program = "pid"
  /\ program \in Waiting => \A x \in LateTexts : ~Prints(s, x)
  /\ program = "wait_sequence" => Prints(s, "2")
  /\ program = "pid" => Calls(s, "fork")

AfterSound(a) ==
  /\ CallerSound(a.parent) /\ CallerSound(a.failed) /\ ChildSound(a.child)
  /\ program \in Waiting => Guarded(a.parent)
  /\ program = "wait_sequence" => ~Prints(a.failed, "1")

\* The child of a repetition, its own child, and the end of both.
LastSound(s) ==
  /\ s \in Seq(Instruction) /\ Prints(s, "E") /\ ~Prints(s, "head")
  /\ \A call \in {"wait", "again", "dup2", "execve", "open", "fork"} : ~Calls(s, call)

LEMMA EmptyDoes == Does(<<>>, {}, {})
BY EmptyEffect DEF Does

StartOf == Program[program].start
AfterFork(k) == Program[program].forks[k]

LEMMA CallerDoes ==
  ASSUME NEW s, NEW calls, NEW texts, Does(s, calls, texts),
         "open" \notin calls, "fork" \notin calls, "execve" \notin calls, "head" \notin texts,
         program \in Headed => "ls" \notin texts /\ "fflush" \notin calls /\ "show" \notin calls,
         "again" \in calls => program = "pid",
         "dup2" \in calls => program = "execve",
         program \in Waiting => EarlyText \notin texts,
         program = "pid" => s = <<wait, wait, again>>
  PROVE  CallerSound(s)
BY DEF CallerSound, ListSound, Does

LEMMA ChildDoes ==
  ASSUME NEW s, NEW calls, NEW texts, Does(s, calls, texts),
         \A call \in {"open", "wait", "again", "dup2"} : call \notin calls, "head" \notin texts,
         program \in Headed => "ls" \notin texts /\ "fflush" \notin calls /\ "show" \notin calls,
         "execve" \in calls => program \in {"execve", "dup"},
         "fork" \in calls => program = "pid",
         program \in Waiting => \A x \in LateTexts : x \notin texts,
         program = "wait_sequence" => "2" \in texts,
         program = "pid" => "fork" \in calls
  PROVE  ChildSound(s)
BY DEF ChildSound, ListSound, Does

LEMMA HeadOfStart ==
  ASSUME NEW s, s = <<line("head"), fork>> \/ s = <<line("head"), open, fork>>, program # "pid"
  PROVE  StartSound(s)
<1>1. CASE s = <<line("head"), fork>>
  <2>1. Does(s, {"line", "fork"}, {"head"}) /\ Head(s) = line("head") /\ Tail(s) = <<fork>>
    BY <1>1, HeadFork DEF fork
  <2>2. Does(Tail(s), {"fork"}, {})
    BY <2>1, ForkAlone
  <2>3. ~Prints(Tail(s), "head")
    BY <2>2 DEF Does
  <2>4. /\ s \in Seq(Instruction)
        /\ \A call \in {"wait", "again", "dup2", "execve", "fflush", "show"} : ~Calls(s, call)
        /\ Prints(s, "head") /\ \A x \in {"1", "2", "ls", "waited", "x"} : ~Prints(s, x)
    BY <2>1 DEF Does
  <2> QED
    BY <2>1, <2>3, <2>4 DEF StartSound, EarlyText, LateTexts
<1>2. CASE s = <<line("head"), open, fork>>
  <2>1. Does(s, {"line", "open", "fork"}, {"head"}) /\ Head(s) = line("head") /\ Tail(s) = <<open, fork>>
    BY <1>2, HeadOpenFork DEF fork, open
  <2>2. Does(Tail(s), {"open", "fork"}, {})
    BY <2>1, OpenFork
  <2>3. ~Prints(Tail(s), "head")
    BY <2>2 DEF Does
  <2>4. /\ s \in Seq(Instruction)
        /\ \A call \in {"wait", "again", "dup2", "execve", "fflush", "show"} : ~Calls(s, call)
        /\ Prints(s, "head") /\ \A x \in {"1", "2", "ls", "waited", "x"} : ~Prints(s, x)
    BY <2>1 DEF Does
  <2> QED
    BY <2>1, <2>3, <2>4 DEF StartSound, EarlyText, LateTexts
<1> QED
  BY <1>1, <1>2

LEMMA ForkOfStart ==
  ASSUME NEW s, s = <<fork>>, program \notin Headed PROVE StartSound(s)
<1>1. Does(s, {"fork"}, {})
  BY ForkAlone
<1> QED
  BY <1>1 DEF StartSound, Does

LEMMA SyntaxSound == program = "syntax" => StartSound(StartOf) /\ AfterSound(AfterFork(1))
<1> SUFFICES ASSUME program = "syntax" PROVE StartSound(StartOf) /\ AfterSound(AfterFork(1))
  OBVIOUS
<1>1. /\ StartOf = <<line("head"), fork>>
      /\ AfterFork(1).parent = <<line("parent")>>
      /\ AfterFork(1).child = <<line("child")>>
      /\ AfterFork(1).failed = <<line("none")>>
  BY DEF StartOf, AfterFork, Program, fork_syntax, After
<1>2. StartSound(StartOf)
  BY <1>1, HeadOfStart
<1>3. Does(AfterFork(1).parent, {"line"}, {"parent"}) /\ Does(AfterFork(1).child, {"line"}, {"child"})
      /\ Does(AfterFork(1).failed, {"line"}, {"none"})
  BY <1>1, SyntaxParent, SyntaxChild, NoneLine
<1>4. CallerSound(AfterFork(1).parent)
  BY <1>3, CallerDoes DEF Waiting
<1>5. CallerSound(AfterFork(1).failed)
  BY <1>3, CallerDoes DEF Waiting
<1>6. ChildSound(AfterFork(1).child)
  BY <1>3, ChildDoes DEF Waiting
<1> QED
  BY <1>2, <1>4, <1>5, <1>6 DEF AfterSound, Waiting

LEMMA VariablesSound == program = "variables" => StartSound(StartOf) /\ AfterSound(AfterFork(1))
<1> SUFFICES ASSUME program = "variables" PROVE StartSound(StartOf) /\ AfterSound(AfterFork(1))
  OBVIOUS
<1>1. /\ StartOf = <<line("head"), fork>>
      /\ AfterFork(1).parent = <<line("2"), line("6"), line("5"), line("6")>>
      /\ AfterFork(1).child = <<line("2"), line("1"), line("7"), line("1")>>
      /\ AfterFork(1).failed = <<line("none")>>
  BY DEF StartOf, AfterFork, Program, fork_variables, After
<1>2. StartSound(StartOf)
  BY <1>1, HeadOfStart
<1>3. Does(AfterFork(1).parent, {"line"}, {"2", "6", "5"}) /\ Does(AfterFork(1).child, {"line"}, {"2", "1", "7"})
      /\ Does(AfterFork(1).failed, {"line"}, {"none"})
  BY <1>1, VariablesParent, VariablesChild, NoneLine
<1>4. CallerSound(AfterFork(1).parent)
  BY <1>3, CallerDoes DEF Waiting
<1>5. CallerSound(AfterFork(1).failed)
  BY <1>3, CallerDoes DEF Waiting
<1>6. ChildSound(AfterFork(1).child)
  BY <1>3, ChildDoes DEF Waiting
<1> QED
  BY <1>2, <1>4, <1>5, <1>6 DEF AfterSound, Waiting

LEMMA SequenceSound ==
  program \in {"sequence", "wait_sequence"} => StartSound(StartOf) /\ AfterSound(AfterFork(1))
<1> SUFFICES ASSUME program \in {"sequence", "wait_sequence"}
             PROVE  StartSound(StartOf) /\ AfterSound(AfterFork(1))
  OBVIOUS
<1>1. /\ StartOf = <<fork>>
      /\ AfterFork(1).parent = IF program = "sequence" THEN <<text("1"), fflush>> ELSE <<wait, text("1"), fflush>>
      /\ AfterFork(1).child = <<text("2"), fflush>>
      /\ AfterFork(1).failed = <<>>
  BY DEF StartOf, AfterFork, Program, fork_sequence, fork_wait_sequence, After
<1>2. StartSound(StartOf)
  BY <1>1, ForkOfStart DEF Headed
<1>3. Does(AfterFork(1).child, {"text", "fflush"}, {"2"}) /\ Does(AfterFork(1).failed, {}, {})
  BY <1>1, TwoFlush, EmptyDoes
<1>4. CASE program = "sequence"
  <2>1. Does(AfterFork(1).parent, {"text", "fflush"}, {"1"})
    BY <1>1, <1>4, OneFlush
  <2>2. CallerSound(AfterFork(1).parent)
    BY <1>4, <2>1, CallerDoes DEF Waiting, Headed
  <2>3. CallerSound(AfterFork(1).failed)
    BY <1>3, <1>4, CallerDoes DEF Waiting, Headed
  <2>4. ChildSound(AfterFork(1).child)
    BY <1>3, <1>4, ChildDoes DEF Waiting, Headed
  <2> QED
    BY <1>2, <1>4, <2>2, <2>3, <2>4 DEF AfterSound, Waiting
<1>5. CASE program = "wait_sequence"
  <2>1. Does(AfterFork(1).parent, {"wait", "text", "fflush"}, {"1"})
    BY <1>1, <1>5, WaitOneFlush
  <2>2. Guarded(AfterFork(1).parent)
    BY <1>1, <1>5 DEF Guarded, wait, text, fflush
  <2>3. CallerSound(AfterFork(1).parent)
    BY <1>5, <2>1, CallerDoes DEF Headed, EarlyText
  <2>4. CallerSound(AfterFork(1).failed)
    BY <1>3, <1>5, CallerDoes DEF Headed, EarlyText
  <2>5. ChildSound(AfterFork(1).child)
    BY <1>3, <1>5, ChildDoes DEF Headed, LateTexts
  <2> QED
    BY <1>2, <1>3, <1>5, <2>2, <2>3, <2>4, <2>5 DEF AfterSound, Does
<1> QED
  BY <1>4, <1>5

LEMMA ExecveSound == program = "execve" => StartSound(StartOf) /\ AfterSound(AfterFork(1))
<1> SUFFICES ASSUME program = "execve" PROVE StartSound(StartOf) /\ AfterSound(AfterFork(1))
  OBVIOUS
<1>1. /\ StartOf = <<line("head"), fork>>
      /\ AfterFork(1).parent = <<line("parent"), wait, line("waited"), dup2, line("x")>>
      /\ AfterFork(1).child = <<line("child"), execve>>
      /\ AfterFork(1).failed = <<dup2, line("x")>>
  BY DEF StartOf, AfterFork, Program, fork_execve, After
<1>2. StartSound(StartOf)
  BY <1>1, HeadOfStart
<1>3. /\ Does(AfterFork(1).parent, {"line", "wait", "dup2"}, {"parent", "waited", "x"})
      /\ Does(AfterFork(1).child, {"line", "execve"}, {"child"})
      /\ Does(AfterFork(1).failed, {"dup2", "line"}, {"x"})
  BY <1>1, ExecveParent, ExecveChild, ExecveFailed
<1>4. Guarded(AfterFork(1).parent)
  BY <1>1 DEF Guarded, LateTexts, wait, line, dup2
<1>5. CallerSound(AfterFork(1).parent)
  BY <1>3, CallerDoes DEF EarlyText
<1>6. CallerSound(AfterFork(1).failed)
  BY <1>3, CallerDoes DEF EarlyText
<1>7. ChildSound(AfterFork(1).child)
  BY <1>3, ChildDoes DEF LateTexts
<1> QED
  BY <1>2, <1>4, <1>5, <1>6, <1>7 DEF AfterSound

LEMMA DupSound == program = "dup" => StartSound(StartOf) /\ AfterSound(AfterFork(1))
<1> SUFFICES ASSUME program = "dup" PROVE StartSound(StartOf) /\ AfterSound(AfterFork(1))
  OBVIOUS
<1>1. /\ StartOf = <<line("head"), open, fork>>
      /\ AfterFork(1).parent = <<line("parent"), wait, line("waited"), line("x")>>
      /\ AfterFork(1).child = <<line("child"), execve>>
      /\ AfterFork(1).failed = <<line("x")>>
  BY DEF StartOf, AfterFork, Program, fork_dup, After
<1>2. StartSound(StartOf)
  BY <1>1, HeadOfStart
<1>3. /\ Does(AfterFork(1).parent, {"line", "wait"}, {"parent", "waited", "x"})
      /\ Does(AfterFork(1).child, {"line", "execve"}, {"child"})
      /\ Does(AfterFork(1).failed, {"line"}, {"x"})
  BY <1>1, DupParent, ExecveChild, DupFailed
<1>4. Guarded(AfterFork(1).parent)
  BY <1>1 DEF Guarded, LateTexts, wait, line
<1>5. CallerSound(AfterFork(1).parent)
  BY <1>3, CallerDoes DEF EarlyText
<1>6. CallerSound(AfterFork(1).failed)
  BY <1>3, CallerDoes DEF EarlyText
<1>7. ChildSound(AfterFork(1).child)
  BY <1>3, ChildDoes DEF LateTexts
<1> QED
  BY <1>2, <1>4, <1>5, <1>6, <1>7 DEF AfterSound

LEMMA RepetitionSound ==
  program = "pid" =>
    /\ StartSound(StartOf) /\ AfterSound(AfterFork(1))
    /\ LastSound(AfterFork(2).parent) /\ LastSound(AfterFork(2).child) /\ LastSound(AfterFork(2).failed)
<1> SUFFICES ASSUME program = "pid"
             PROVE  /\ StartSound(StartOf) /\ AfterSound(AfterFork(1))
                    /\ LastSound(AfterFork(2).parent) /\ LastSound(AfterFork(2).child)
                    /\ LastSound(AfterFork(2).failed)
  OBVIOUS
<1>1. /\ StartOf = <<fork>>
      /\ AfterFork(1).parent = <<wait, wait, again>>
      /\ AfterFork(1).child = <<fork>>
      /\ AfterFork(1).failed = <<wait, wait, again>>
  BY DEF StartOf, AfterFork, Program, fork_pid, After
<1>2. /\ AfterFork(2).parent = <<show("A"), show("E")>>
      /\ AfterFork(2).child = <<show("A"), show("E")>>
      /\ AfterFork(2).failed = <<show("E")>>
  BY DEF AfterFork, Program, fork_pid, After, show
<1>3. StartSound(StartOf)
  BY <1>1, ForkOfStart DEF Headed
<1>4. /\ Does(AfterFork(1).parent, {"wait", "again"}, {})
      /\ Does(AfterFork(1).child, {"fork"}, {})
      /\ Does(AfterFork(1).failed, {"wait", "again"}, {})
  BY <1>1, RepeatList, ForkAlone
<1>5. /\ Does(AfterFork(2).parent, {"show"}, {"A", "E"})
      /\ Does(AfterFork(2).child, {"show"}, {"A", "E"})
      /\ Does(AfterFork(2).failed, {"show"}, {"E"})
  BY <1>2, WokenList, EndList
<1>6. LastSound(AfterFork(2).parent) /\ LastSound(AfterFork(2).child) /\ LastSound(AfterFork(2).failed)
  BY <1>5 DEF LastSound, Does
<1> QED
  BY <1>1, <1>3, <1>4, <1>6 DEF AfterSound, CallerSound, ChildSound, ListSound, Does, Headed, Waiting

LEMMA ProgramSound ==
  program \in DOMAIN Program =>
    /\ StartSound(StartOf) /\ AfterSound(AfterFork(1))
    /\ program = "pid" => /\ LastSound(AfterFork(2).parent) /\ LastSound(AfterFork(2).child)
                          /\ LastSound(AfterFork(2).failed)
<1>1. program \in DOMAIN Program =>
        program \in {"syntax", "sequence", "wait_sequence", "variables", "execve", "dup", "pid"}
  BY DEF Program
<1> QED
  BY <1>1, SyntaxSound, VariablesSound, SequenceSound, ExecveSound, DupSound, RepetitionSound

----------------------------------------------------------------------------
(* The steps that start no list: small steps. They keep the invariant, one *)
(* conjunct after the other.                                               *)

\* The instructions of q, after one of them or without the rest.
Shrinks(q) ==
  /\ todo' \in [Process -> Seq(Instruction)]
  /\ \A r \in Process \ {q} : todo'[r] = todo[r]
  /\ todo'[q] \in {Tail(todo[q]), <<>>}
  /\ todo[q] = <<>> => todo'[q] = <<>>

LEMMA ContinueShrinks ==
  ASSUME NEW q \in Process, ForksTypeOK, todo[q] # <<>>,
         Continue(q) \/ todo' = [todo EXCEPT ![q] = <<>>]
  PROVE  Shrinks(q)
<1>1. todo[q] \in Seq(Instruction) /\ Tail(todo[q]) \in Seq(Instruction) /\ <<>> \in Seq(Instruction)
  BY DEF ForksTypeOK
<1> QED
  BY <1>1 DEF Continue, Shrinks, ForksTypeOK

\* Nothing new is called or printed by what is left.
LEMMA LessToDo ==
  ASSUME NEW q \in Process, ForksTypeOK, Shrinks(q)
  PROVE  /\ \A r \in Process : \A call : Calls(todo'[r], call) => Calls(todo[r], call)
         /\ \A r \in Process : \A x : Prints(todo'[r], x) => Prints(todo[r], x)
<1>1. \A r \in Process : todo[r] \in Seq(Instruction)
  BY DEF ForksTypeOK
<1>2. ASSUME NEW call PROVE Calls(todo'[q], call) => Calls(todo[q], call)
  BY <1>1, TailEffect, EmptyEffect DEF Shrinks
<1>3. ASSUME NEW x PROVE Prints(todo'[q], x) => Prints(todo[q], x)
  BY <1>1, TailEffect, EmptyEffect DEF Shrinks
<1> QED
  BY <1>2, <1>3 DEF Shrinks

\* What a process does with its text: it keeps it or it writes it.
TextMoves(q, kept) ==
  \/ Write(q, kept) /\ Keep(q, <<>>)
  \/ Keep(q, kept) /\ UNCHANGED output

\* Text stays with its process, kept or written, and what is written stays.
LEMMA TextEffect ==
  ASSUME NEW q \in Process, NEW kept \in Seq(Text), ForksTypeOK, TextMoves(q, kept)
  PROVE  /\ stdout' \in [Process -> Seq(Text)] /\ output' \in Seq(Process \X Text)
         /\ \A r \in Process \ {q} : stdout'[r] = stdout[r] /\ \A x : Written(r, x)' <=> Written(r, x)
         /\ \A x : (Contains(stdout'[q], x) \/ Written(q, x)') => Contains(kept, x) \/ Written(q, x)
         /\ \A x : Written(q, x) \/ (Contains(kept, x) /\ Appears(q)) => Contains(stdout'[q], x) \/ Written(q, x)'
         /\ \A r, x : Written(r, x) => Written(r, x)'
         /\ DOMAIN output \subseteq DOMAIN output'
         /\ \A i \in DOMAIN output : output'[i] = output[i]
         /\ \A i \in DOMAIN output' \ DOMAIN output : output'[i][1] = q
<1>1. stdout \in [Process -> Seq(Text)] /\ output \in Seq(Process \X Text) /\ <<>> \in Seq(Text)
      /\ \A x : ~Contains(<<>>, x)
  BY EmptyEffect DEF ForksTypeOK
<1>2. CASE Write(q, kept) /\ Keep(q, <<>>)
  <2>1. /\ stdout' \in [Process -> Seq(Text)] /\ stdout'[q] = <<>>
        /\ \A r \in Process \ {q} : stdout'[r] = stdout[r]
    BY <1>1, <1>2 DEF Keep
  <2>2. \A r, x : Written(r, x)' <=> Written(r, x) \/ (r = q /\ Contains(kept, x) /\ Appears(q))
    BY <1>1, <1>2, WrittenAfter
  <2>3. /\ output' \in Seq(Process \X Text)
        /\ DOMAIN output \subseteq DOMAIN output'
        /\ \A i \in DOMAIN output : output'[i] = output[i]
        /\ \A i \in DOMAIN output' \ DOMAIN output : output'[i][1] = q
    BY <1>1, <1>2, WriteEffect
  <2> QED
    BY <1>1, <2>1, <2>2, <2>3
<1>3. CASE Keep(q, kept) /\ UNCHANGED output
  <2>1. /\ stdout' \in [Process -> Seq(Text)] /\ stdout'[q] = kept
        /\ \A r \in Process \ {q} : stdout'[r] = stdout[r]
    BY <1>1, <1>3 DEF Keep
  <2>2. \A r, x : Written(r, x)' <=> Written(r, x)
    BY <1>3 DEF Written
  <2> QED
    BY <1>1, <1>3, <2>1, <2>2
<1> QED
  BY <1>2, <1>3 DEF TextMoves

\* An order of two texts is kept unless the first comes after the second.
LEMMA TextBefore ==
  ASSUME NEW q \in Process, NEW kept \in Seq(Text), ForksTypeOK, TextMoves(q, kept), NEW x, NEW y, Before(x, y),
         ~Contains(kept, x) \/ \A r \in Process : ~Written(r, y) /\ ~Contains(kept, y)
  PROVE  Before(x, y)'
<1>1. CASE Write(q, kept)
  BY <1>1, BeforeKept DEF ForksTypeOK
<1>2. CASE UNCHANGED output
  BY <1>2 DEF Before
<1> QED
  BY <1>1, <1>2 DEF TextMoves

\* The steps that only move text.
Texts(q) == printf(q) \/ Flush(q) \/ ProcessExit(q)
KeptBy(q) == IF todo[q] # <<>> /\ Head(todo[q])[1] \in Printing
               THEN Append(stdout[q], Head(todo[q])[2]) ELSE stdout[q]

LEMMA TextsMove ==
  ASSUME NEW q \in Process, ForksTypeOK, Texts(q)
  PROVE  /\ Running(q) /\ Shrinks(q) /\ TextMoves(q, KeptBy(q)) /\ KeptBy(q) \in Seq(Text)
         /\ UNCHANGED <<terminal, repetition, redirected>>
         /\ \/ UNCHANGED life
            \/ todo[q] = <<>> /\ life' = [life EXCEPT ![q] = "ended"]
         /\ todo[q] # <<>> => todo'[q] = Tail(todo[q]) /\ Head(todo[q])[1] \in Printing \cup {"fflush"}
<1>1. /\ todo[q] \in Seq(Instruction) /\ stdout[q] \in Seq(Text)
      /\ todo[q] # <<>> => Head(todo[q]) \in Instruction
  BY DEF ForksTypeOK
<1>2. CASE printf(q)
  <2>1. /\ Running(q) /\ todo[q] # <<>> /\ Head(todo[q])[1] \in Printing
        /\ Continue(q) /\ UNCHANGED <<terminal, repetition, redirected, life>>
    BY <1>2 DEF printf, At, Printing
  <2>2. KeptBy(q) = Append(stdout[q], Head(todo[q])[2])
    BY <2>1 DEF KeptBy
  <2>3. KeptBy(q) \in Seq(Text)
    BY <1>1, <2>1, <2>2, InstructionsHaveText
  <2>4. TextMoves(q, KeptBy(q))
    BY <1>2, <2>2 DEF printf, TextMoves
  <2>5. Shrinks(q) /\ todo'[q] = Tail(todo[q])
    BY <2>1, ContinueShrinks DEF Continue, ForksTypeOK
  <2> QED
    BY <2>1, <2>3, <2>4, <2>5
<1>3. CASE Flush(q)
  <2>1. /\ Running(q) /\ todo[q] # <<>> /\ Head(todo[q])[1] = "fflush"
        /\ Write(q, stdout[q]) /\ Keep(q, <<>>)
        /\ Continue(q) /\ UNCHANGED <<terminal, repetition, redirected, life>>
    BY <1>3 DEF Flush, At
  <2>2. KeptBy(q) = stdout[q]
    BY <2>1 DEF KeptBy, Printing
  <2>3. Shrinks(q) /\ todo'[q] = Tail(todo[q])
    BY <2>1, ContinueShrinks DEF Continue, ForksTypeOK
  <2> QED
    BY <1>1, <2>1, <2>2, <2>3 DEF TextMoves
<1>4. CASE ProcessExit(q)
  <2>1. /\ Running(q) /\ todo[q] = <<>> /\ KeptBy(q) = stdout[q]
        /\ Write(q, stdout[q]) /\ Keep(q, <<>>) /\ life' = [life EXCEPT ![q] = "ended"]
        /\ UNCHANGED <<terminal, repetition, redirected, todo>>
    BY <1>4 DEF ProcessExit, KeptBy
  <2>2. Shrinks(q)
    BY <2>1 DEF Shrinks, ForksTypeOK
  <2> QED
    BY <1>1, <2>1, <2>2 DEF TextMoves
<1> QED
  BY <1>2, <1>3, <1>4 DEF Texts

\* What a process keeps it had, and the rest it still has.
LEMMA KeptIsHad ==
  ASSUME NEW q \in Process, ForksTypeOK
  PROVE  /\ \A x : Contains(KeptBy(q), x) => Contains(stdout[q], x) \/ Prints(todo[q], x)
         /\ \A x : Contains(KeptBy(q), x) => HasText(q, x)
<1>1. todo[q] \in Seq(Instruction) /\ stdout[q] \in Seq(Text)
  BY DEF ForksTypeOK
<1>2. CASE todo[q] # <<>> /\ Head(todo[q])[1] \in Printing
  <2>1. Head(todo[q]) \in Instruction /\ Head(todo[q])[2] \in Text
    BY <1>1, <1>2, InstructionsHaveText
  <2>2. \A x : Contains(KeptBy(q), x) <=> Contains(stdout[q], x) \/ x = Head(todo[q])[2]
    BY <1>1, <1>2, <2>1, AppendEffect DEF KeptBy
  <2>3. Prints(todo[q], Head(todo[q])[2])
    BY <1>1, <1>2, TailEffect
  <2> QED
    BY <2>2, <2>3 DEF HasText, Printed
<1>3. CASE ~(todo[q] # <<>> /\ Head(todo[q])[1] \in Printing)
  BY <1>3 DEF KeptBy, HasText, Printed
<1> QED
  BY <1>2, <1>3

\* The steps that move no text and start no list.
Silent(q) ==
  /\ Open(q) \/ WaitAny(q) \/ Dup2(q) \/ Again(q) \/ Execve(q)
  /\ Shrinks(q) /\ UNCHANGED <<stdout, repetition>>

WaitStep(q) ==
  /\ Head(todo[q])[1] = "wait"
  /\ \/ \E c \in Process : /\ c[1] = 1 /\ life[c] = "ended"
                           /\ life' = [life EXCEPT ![c] = "waited"]
     \/ /\ \A c \in Process : c[1] = 1 => life[c] \notin {"running", "ended"}
        /\ UNCHANGED life

LEMMA SilentEffect ==
  ASSUME NEW q \in Process, ForksTypeOK, Silent(q)
  PROVE  /\ Running(q) /\ todo[q] # <<>> /\ Shrinks(q)
         /\ Head(todo[q])[1] \in {"open", "wait", "dup2", "again", "execve"}
         /\ UNCHANGED <<stdout, output, terminal, repetition>>
         /\ \/ UNCHANGED redirected
            \/ redirected' = redirected \cup {q} /\ Head(todo[q])[1] = "dup2"
         /\ (UNCHANGED life /\ Head(todo[q])[1] # "wait") \/ WaitStep(q)
         /\ Head(todo[q])[1] # "open" => todo'[q] = Tail(todo[q])
<1>0. CASE Open(q)
  BY <1>0 DEF Silent, Open, At
<1>1. CASE Execve(q)
  <2>1. /\ Running(q) /\ todo[q] # <<>> /\ Head(todo[q])[1] = "execve"
        /\ UNCHANGED <<output, terminal, repetition, life, redirected>>
        /\ Continue(q) \/ todo'= [todo EXCEPT ![q] = <<show("ls")>>]
    BY <1>1 DEF Execve, At
  <2>2. CASE todo'= [todo EXCEPT ![q] = <<show("ls")>>]
    <3>1. todo'[q] = <<show("ls")>>
      BY <2>2 DEF ForksTypeOK
    <3>2. PICK s : s = <<show("ls")>>
      OBVIOUS
    <3>3. s # <<>> /\ s # todo[q]
      BY <2>1, <3>2 DEF show
    <3> QED
      BY <1>1, <2>1, <3>1, <3>2, <3>3 DEF Silent, Shrinks
  <2> QED
    BY <1>1, <2>1, <2>2 DEF Silent, Continue, ForksTypeOK
<1>2. CASE WaitAny(q)
  <2>1. WaitStep(q)
    BY <1>2 DEF WaitAny, At, WaitStep
  <2> QED
    BY <1>2, <2>1 DEF Silent, WaitAny, At, Continue, ForksTypeOK
<1>3. CASE Dup2(q)
  BY <1>3 DEF Silent, Dup2, At, Continue, ForksTypeOK
<1>4. CASE Again(q)
  BY <1>4 DEF Silent, Again, At, Continue, ForksTypeOK
<1> QED
  BY <1>0, <1>1, <1>2, <1>3, <1>4 DEF Silent

Small(q) == Texts(q) \/ Silent(q)

\* The lives after a step that forks nothing.
LivesGoOn(q) ==
  /\ life' \in [Process -> {"none", "running", "ended", "waited"}]
  /\ \A r \in Process :
       \/ life'[r] = life[r]
       \/ r = q /\ life'[r] = "ended" /\ todo[q] = <<>> /\ stdout'[q] = <<>>
       \/ r # q /\ life[r] = "ended" /\ life'[r] = "waited"

\* A small step, as far as most conjuncts depend on it.
LEMMA SmallStep ==
  ASSUME NEW q \in Process, ForksTypeOK, Small(q)
  PROVE  /\ Running(q) /\ Shrinks(q) /\ UNCHANGED <<terminal, repetition>> /\ ForksTypeOK'
         /\ LivesGoOn(q)
         /\ \/ UNCHANGED redirected
            \/ redirected' = redirected \cup {q} /\ Calls(todo[q], "dup2")
         /\ \A r \in Process \ {q} : stdout'[r] = stdout[r] /\ \A x : Written(r, x)' <=> Written(r, x)
         /\ \A r, x : Written(r, x) => Written(r, x)'
         /\ DOMAIN output \subseteq DOMAIN output'
         /\ \A i \in DOMAIN output : output'[i] = output[i]
         /\ \A i \in DOMAIN output' \ DOMAIN output : output'[i][1] = q
<1>1. CASE Texts(q)
  <2>1. /\ Running(q) /\ Shrinks(q) /\ TextMoves(q, KeptBy(q)) /\ KeptBy(q) \in Seq(Text)
        /\ UNCHANGED <<terminal, repetition, redirected>>
        /\ \/ UNCHANGED life
           \/ todo[q] = <<>> /\ life' = [life EXCEPT ![q] = "ended"]
    BY <1>1, TextsMove
  <2>2. life' # life => stdout'[q] = <<>>
    BY <1>1 DEF Texts, printf, Flush, ProcessExit, Keep, ForksTypeOK
  <2>3. LivesGoOn(q)
    BY <2>1, <2>2 DEF LivesGoOn, ForksTypeOK
  <2>4. ForksTypeOK'
    BY <2>1, <2>3, TextEffect DEF ForksTypeOK, LivesGoOn, Shrinks
  <2> QED
    BY <2>1, <2>3, <2>4, TextEffect
<1>2. CASE Silent(q)
  <2>1. /\ Running(q) /\ todo[q] # <<>> /\ Shrinks(q)
        /\ UNCHANGED <<stdout, output, terminal, repetition>>
        /\ \/ UNCHANGED redirected
           \/ redirected' = redirected \cup {q} /\ Head(todo[q])[1] = "dup2"
        /\ UNCHANGED life \/ WaitStep(q)
    BY <1>2, SilentEffect
  <2>2. LivesGoOn(q)
    BY <2>1 DEF LivesGoOn, WaitStep, ForksTypeOK, Running
  <2>3. ForksTypeOK'
    BY <2>1, <2>2 DEF ForksTypeOK, LivesGoOn, Shrinks
  <2>4. Head(todo[q])[1] = "dup2" => Calls(todo[q], "dup2")
    BY <2>1, TailEffect DEF ForksTypeOK
  <2>5. \A r, x : Written(r, x)' <=> Written(r, x)
    BY <2>1 DEF Written
  <2> QED
    BY <2>1, <2>2, <2>3, <2>4, <2>5
<1> QED
  BY <1>1, <1>2 DEF Small

\* What the processes have in their hands.
LEMMA SmallHas ==
  ASSUME NEW q \in Process, ForksTypeOK, Small(q)
  PROVE  /\ \A r \in Process : \A x : HasText(r, x)' => HasText(r, x)
         /\ \A r \in Process : \A x :
              HasText(r, x) /\ Appears(r) /\ (r = q => ~Calls(todo[q], "open")) => HasText(r, x)'
         /\ \A r \in Process \ {q} : \A x : Printed(r, x)' <=> Printed(r, x)
<1>0. todo[q] \in Seq(Instruction) /\ stdout[q] \in Seq(Text)
  BY DEF ForksTypeOK
<1>1. \A r \in Process \ {q} : \A x : (Printed(r, x)' <=> Printed(r, x)) /\ (HasText(r, x)' <=> HasText(r, x))
  BY SmallStep DEF Printed, HasText, Shrinks
<1>2. CASE Texts(q)
  <2>1. /\ \A x : Printed(q, x)' => Contains(KeptBy(q), x) \/ Written(q, x)
        /\ \A x : Written(q, x) \/ (Contains(KeptBy(q), x) /\ Appears(q)) => Printed(q, x)'
    BY <1>2, TextsMove, TextEffect DEF Printed
  <2>2. CASE todo[q] = <<>>
    <3>1. KeptBy(q) = stdout[q] /\ todo'[q] = <<>>
      BY <1>2, <2>2, TextsMove DEF KeptBy, Shrinks
    <3> QED
      BY <1>1, <2>1, <2>2, <3>1 DEF HasText, Printed
  <2>3. CASE todo[q] # <<>>
    <3>1. /\ todo'[q] = Tail(todo[q]) /\ Head(todo[q]) \in Instruction
          /\ Head(todo[q])[1] \in Printing \cup {"fflush"}
      BY <1>0, <1>2, <2>3, TextsMove
    <3>2. \A x : Prints(todo[q], x) <=>
                   (Head(todo[q])[1] \in Printing /\ Head(todo[q])[2] = x) \/ Prints(todo'[q], x)
      BY <1>0, <2>3, <3>1, TailEffect
    <3>3. \A x : Contains(KeptBy(q), x) <=>
                   Contains(stdout[q], x) \/ (Head(todo[q])[1] \in Printing /\ Head(todo[q])[2] = x)
      BY <1>0, <2>3, <3>1, AppendEffect, InstructionsHaveText DEF KeptBy
    <3> QED
      BY <1>1, <2>1, <3>2, <3>3 DEF HasText, Printed
  <2> QED
    BY <2>2, <2>3
<1>3. CASE Silent(q)
  <2>1. /\ todo[q] # <<>> /\ Shrinks(q) /\ UNCHANGED <<stdout, output>>
        /\ Head(todo[q])[1] \in {"open", "wait", "dup2", "again", "execve"}
    BY <1>3, SilentEffect
  <2>2. \A x : Printed(q, x)' <=> Printed(q, x)
    BY <2>1 DEF Printed, Written
  <2>3. \A x : Prints(todo'[q], x) => Prints(todo[q], x)
    BY LessToDo, <2>1
  <2>4. ~Calls(todo[q], "open") => todo'[q] = Tail(todo[q])
    <3>1. Head(todo[q])[1] = "open" => Calls(todo[q], "open")
      BY <1>0, <2>1, TailEffect
    <3> QED
      BY <1>3, <3>1, SilentEffect
  <2>5. \A x : Prints(todo[q], x) <=> Prints(Tail(todo[q]), x)
    BY <1>0, <2>1, TailEffect DEF Printing
  <2> QED
    BY <1>1, <2>2, <2>3, <2>4, <2>5 DEF HasText
<1> QED
  BY <1>2, <1>3 DEF Small

\* Small steps keep the invariant: who calls what, who has what to do, and what waits.
LEMMA SmallCalls ==
  ASSUME NEW q \in Process, ForksInv, UNCHANGED program, Small(q) PROVE CallsSound'
<1> USE DEF ForksInv
<1>1. /\ UNCHANGED <<program, repetition>> /\ Shrinks(q) /\ LivesGoOn(q)
      /\ UNCHANGED redirected \/ (redirected' = redirected \cup {q} /\ Calls(todo[q], "dup2"))
  BY SmallStep
<1>2. \A r \in Process : \A call : Calls(todo'[r], call) => Calls(todo[r], call)
  BY <1>1, LessToDo
<1>3. \A r \in Process : life'[r] = "none" <=> life[r] = "none"
  BY <1>1, SmallStep DEF LivesGoOn, Running
<1>4. ASSUME NEW r \in Process, program \in Headed, Calls(todo'[r], "show") \/ Prints(todo'[r], "ls")
      PROVE  todo'[r] = <<show("ls")>>
  <2>1. todo[r] = <<show("ls")>>
    BY <1>1, <1>2, <1>4, LessToDo DEF CallsSound
  <2>2. Tail(todo[r]) = <<>>
    BY <2>1 DEF show
  <2> QED
    BY <1>1, <1>4, <2>1, <2>2, EmptyEffect DEF Shrinks
<1>5. <<1, repetition>> \in Process
  BY MainAndChild DEF ForksTypeOK
<1> QED
  BY <1>1, <1>2, <1>3, <1>4, <1>5, MainAndChild DEF CallsSound

LEMMA SmallLives ==
  ASSUME NEW q \in Process, ForksInv, UNCHANGED program, Small(q) PROVE LivesSound'
<1> USE DEF ForksInv
<1>1. ASSUME NEW r \in Process
      PROVE  /\ life'[r] # "running" => todo'[r] = <<>> /\ stdout'[r] = <<>>
             /\ life'[r] = "none" => \A i \in DOMAIN output' : output'[i][1] # r
             /\ life'[r] # "none" => program' \in DOMAIN Program /\ (r \in {Main, Child} \/ program' = "pid")
  <2>1. /\ life'[r] # "running" => r # q \/ (todo[q] = <<>> /\ stdout'[q] = <<>>)
        /\ r # q /\ life'[r] # "running" => life[r] # "running"
        /\ life'[r] = "none" <=> life[r] = "none"
    BY SmallStep DEF LivesGoOn, Running
  <2>2. life'[r] # "running" => todo'[r] = <<>> /\ stdout'[r] = <<>>
    BY <2>1, SmallStep DEF LivesSound, Shrinks
  <2>3. life'[r] = "none" => \A i \in DOMAIN output' : output'[i][1] # r
    BY <2>1, SmallStep DEF LivesSound, Running
  <2> QED
    BY <2>1, <2>2, <2>3 DEF LivesSound
<1> QED
  BY <1>1 DEF LivesSound

LEMMA SmallLate ==
  ASSUME NEW q \in Process, ForksInv, UNCHANGED program, Small(q) PROVE LateWaits'
<1> USE DEF ForksInv
<1> SUFFICES ASSUME program \in Waiting PROVE LateWaits'
  BY DEF LateWaits
<1>1. /\ EarlyText' = EarlyText /\ LateTexts' = LateTexts /\ program' = program
      /\ \A s : Guarded(s)' <=> Guarded(s)
  BY DEF EarlyText, LateTexts, Guarded
<1>2. /\ \A r \in Process : \A x : HasText(r, x)' => HasText(r, x)
      /\ \A r \in Process : \A call : Calls(todo'[r], call) => Calls(todo[r], call)
      /\ \A r \in Process \ {q} : \A x : Printed(r, x)' <=> Printed(r, x)
  BY SmallHas, SmallStep, LessToDo
<1>3. life'[Child] = "running" => life[Child] = "running"
  BY SmallStep, MainAndChild DEF LivesGoOn
<1>4. ASSUME life'[Child] = "running"
      PROVE  Guarded(todo'[Main]) /\ \A x \in LateTexts : ~Printed(Main, x)'
  <2>1. Guarded(todo[Main]) /\ \A x \in LateTexts : ~Printed(Main, x)
    BY <1>3, <1>4 DEF LateWaits
  <2>2. CASE q # Main
    BY <1>2, <2>1, <2>2, SmallStep, MainAndChild DEF Shrinks
  <2>3. CASE q = Main /\ todo[Main] = <<>>
    <3>1. todo'[Main] = <<>> /\ \A x : ~Prints(todo[Main], x)
      BY <2>3, SmallStep, EmptyEffect DEF Shrinks
    <3>2. \A x \in LateTexts : ~HasText(Main, x)
      BY <2>1, <3>1 DEF HasText
    <3>3. \A x \in LateTexts : ~HasText(Main, x)'
      BY <1>2, <3>2, MainAndChild
    <3> QED
      BY <2>1, <2>3, <3>1, <3>3 DEF HasText
  <2>4. CASE q = Main /\ todo[Main] # <<>>
    <3>1. todo[Main] \in Seq(Instruction)
      BY MainAndChild DEF ForksTypeOK
    <3>2. Head(todo[Main])[1] # "wait"
      <4>1. ASSUME WaitStep(Main) PROVE FALSE
        <5>1. PICK c \in Process : c[1] = 1 /\ life[c] = "ended" /\ life' = [life EXCEPT ![c] = "waited"]
          <6>1. Child[1] = 1
            BY DEF Child
          <6> QED
            BY <1>3, <1>4, <4>1, <6>1, MainAndChild DEF WaitStep
        <5>2. c = Child
          BY <5>1 DEF LivesSound, Waiting, Main
        <5> QED
          BY <5>1, <5>2, <1>3, <1>4
      <4>2. Texts(Main) => Head(todo[Main])[1] # "wait"
        BY <2>4, TextsMove, MainAndChild DEF Printing
      <4>3. Silent(Main) => Head(todo[Main])[1] # "wait"
        BY <4>1, SilentEffect, MainAndChild
      <4> QED
        BY <2>4, <4>2, <4>3 DEF Small
    <3>3. /\ Guarded(Tail(todo[Main]))
          /\ \A x \in LateTexts : ~(Head(todo[Main])[1] \in Printing /\ Head(todo[Main])[2] = x)
      BY <2>1, <2>4, <3>1, <3>2, GuardedTail
    <3>4. Guarded(todo'[Main])
      <4>1. Guarded(<<>>)
        BY DEF Guarded
      <4> QED
        BY <2>1, <2>4, <3>3, <4>1, SmallStep DEF Shrinks
    <3>5. CASE Texts(Main)
      <4>1. \A x : Printed(Main, x)' => Contains(KeptBy(Main), x) \/ Written(Main, x)
        BY <3>5, MainAndChild, TextsMove, TextEffect DEF Printed
      <4>2. \A x : Contains(KeptBy(Main), x) =>
                     Contains(stdout[Main], x) \/ (Head(todo[Main])[1] \in Printing /\ Head(todo[Main])[2] = x)
        <5>1. stdout[Main] \in Seq(Text) /\ Head(todo[Main]) \in Instruction
          BY <2>4, <3>1, MainAndChild DEF ForksTypeOK
        <5> QED
          BY <5>1, AppendEffect, InstructionsHaveText DEF KeptBy
      <4> QED
        BY <2>1, <3>3, <3>4, <4>1, <4>2 DEF Printed
    <3>6. CASE Silent(Main)
      BY <2>1, <3>4, <3>6, SilentEffect, MainAndChild DEF Printed, Written
    <3> QED
      BY <2>4, <3>5, <3>6 DEF Small
  <2> QED
    BY <2>2, <2>3, <2>4
<1>5. ASSUME NEW x \in LateTexts PROVE Before(EarlyText, x)'
  <2>1. Before(EarlyText, x)
    BY DEF LateWaits
  <2>2. CASE Texts(q)
    <3>1. TextMoves(q, KeptBy(q)) /\ KeptBy(q) \in Seq(Text) /\ Running(q)
      BY <2>2, TextsMove
    <3>2. \A y : Contains(KeptBy(q), y) => HasText(q, y)
      BY <2>2, KeptIsHad
    <3>3. ~Contains(KeptBy(q), EarlyText) \/ \A r \in Process : ~Written(r, x) /\ ~Contains(KeptBy(q), x)
      <4>1. SUFFICES ASSUME Contains(KeptBy(q), EarlyText), NEW r \in Process
                     PROVE  ~Written(r, x) /\ ~Contains(KeptBy(q), x)
        OBVIOUS
      <4>2. q = Child
        BY <3>2, <4>1 DEF LateWaits
      <4>3. ~Printed(Main, x)
        BY <3>1, <4>2 DEF LateWaits, Running
      <4>4. Written(r, x) => r = Main
        BY DEF LateWaits, HasText, Printed
      <4>5. ~Contains(KeptBy(q), x)
        BY <3>2, <4>2, MainAndChild DEF LateWaits
      <4> QED
        BY <4>3, <4>4, <4>5 DEF Printed
    <3>4. Before(EarlyText, x) /\ EarlyText' = EarlyText
      BY <1>1, <2>1
    <3> QED
      BY <3>1, <3>3, <3>4, TextBefore DEF Before
  <2>3. CASE Silent(q)
    BY <1>1, <2>1, <2>3, SilentEffect DEF Before
  <2> QED
    BY <2>2, <2>3 DEF Small
<1>6. \A r \in Process : HasText(r, EarlyText)' => r = Child
  <2>1. \A r \in Process : HasText(r, EarlyText) => r = Child
    BY DEF LateWaits
  <2> QED
    BY <1>1, <1>2, <2>1 DEF HasText, Printed, Written
<1>7. \A r \in Process, x \in LateTexts : HasText(r, x)' => r = Main
  BY <1>2 DEF LateWaits
<1>8. Calls(todo'[Main], "fork") => \A x \in LateTexts : ~HasText(Main, x)'
  BY <1>2, MainAndChild DEF LateWaits
<1> QED
  BY <1>1, <1>4, <1>5, <1>6, <1>7, <1>8 DEF LateWaits

\* Small steps keep what the child of wait_sequence and those of fork_pid print.
LEMMA SmallChild ==
  ASSUME NEW q \in Process, ForksInv, UNCHANGED program, Small(q) PROVE ChildPrints'
<1> USE DEF ForksInv
<1> SUFFICES ASSUME program = "wait_sequence" PROVE ChildPrints'
  BY DEF ChildPrints
<1>1. /\ \A r \in Process : \A x : HasText(r, x)' => HasText(r, x)
      /\ \A r \in Process : \A x :
           HasText(r, x) /\ Appears(r) /\ (r = q => ~Calls(todo[q], "open")) => HasText(r, x)'
      /\ LivesGoOn(q) /\ Running(q) /\ \A r, x : Written(r, x) => Written(r, x)'
  BY SmallHas, SmallStep
<1>2. \A r \in Process : Appears(r) /\ (Calls(todo[r], "open") => r = Main)
  BY DEF CallsSound, Appears
<1>3. HasText(Child, "2") => HasText(Child, "2")'
  BY <1>1, <1>2, MainAndChild
<1>4. life'[Child] = "running" => HasText(Child, "2")'
  BY <1>1, <1>3, MainAndChild DEF ChildPrints, LivesGoOn
<1>5. ASSUME life'[Child] \in {"ended", "waited"} PROVE Written(Child, "2")'
  <2>1. CASE life[Child] \in {"ended", "waited"}
    BY <1>1, <2>1 DEF ChildPrints
  <2>2. CASE life[Child] \notin {"ended", "waited"}
    <3>1. Child = q /\ todo[q] = <<>> /\ stdout'[q] = <<>>
      BY <1>1, <1>5, <2>2, MainAndChild DEF LivesGoOn
    <3>2. todo'[q] = <<>> /\ HasText(Child, "2")'
      BY <1>1, <1>3, <3>1, SmallStep DEF ChildPrints, Running, Shrinks
    <3> QED
      BY <3>1, <3>2, EmptyEffect DEF HasText, Printed
  <2> QED
    BY <2>1, <2>2
<1>6. HasText(Main, "1")' => life'[Child] # "none"
  BY <1>1, MainAndChild DEF ChildPrints, LivesGoOn
<1> QED
  BY <1>4, <1>5, <1>6 DEF ChildPrints

LEMMA SmallRepetitions ==
  ASSUME NEW q \in Process, ForksInv, UNCHANGED program, Small(q) PROVE RepetitionsSound'
<1> USE DEF ForksInv
<1> SUFFICES ASSUME program = "pid" PROVE RepetitionsSound'
  BY DEF RepetitionsSound
<1>1. /\ \A r \in Process : \A x :
           HasText(r, x) /\ Appears(r) /\ (r = q => ~Calls(todo[q], "open")) => HasText(r, x)'
      /\ LivesGoOn(q) /\ Running(q) /\ \A r, x : Written(r, x) => Written(r, x)'
      /\ Shrinks(q) /\ UNCHANGED repetition
  BY SmallHas, SmallStep
<1>2. \A r \in Process : Appears(r) /\ (Calls(todo[r], "open") => r = Main)
  BY DEF CallsSound, Appears
<1>3. \A r \in 1 .. REPETITIONS : <<1, r>> \in Process /\ <<1, r>> # Main
  BY MainAndChild DEF Main
<1>4. repetition \in 1 .. REPETITIONS /\ REPETITIONS \in Nat /\ todo[q] \in Seq(Instruction)
  BY MainAndChild DEF ForksTypeOK
<1>5. ASSUME todo[q] # <<>> PROVE Head(todo[q])[1] # "fork"
  BY <1>5, TextsMove, SilentEffect DEF Small, Printing
<1>6. \A r \in 1 .. REPETITIONS : ChildGone(r) => ChildGone(r)'
  BY <1>1, <1>3 DEF LivesGoOn, ChildGone, Running
<1>7. ASSUME NEW r \in 1 .. REPETITIONS
      PROVE  /\ r < repetition => ChildGone(r)'
             /\ r > repetition => life'[<<1, r>>] = "none"
             /\ life'[<<1, r>>] = "running" => HasText(<<1, r>>, "E")' \/ Calls(todo'[<<1, r>>], "fork")
             /\ life'[<<1, r>>] \in {"ended", "waited"} => Written(<<1, r>>, "E")'
  <2> DEFINE c == <<1, r>>
  <2>0. c \in Process /\ c # Main
    BY <1>3
  <2> HIDE DEF c
  <2>1. /\ r < repetition => ChildGone(r)
        /\ r > repetition => life[c] = "none"
        /\ life[c] = "running" => HasText(c, "E") \/ Calls(todo[c], "fork")
        /\ life[c] \in {"ended", "waited"} => Written(c, "E")
    BY DEF RepetitionsSound, c
  <2>2. r > repetition => life'[c] = "none"
    BY <1>1, <2>0, <2>1 DEF LivesGoOn, Running
  <2>3. HasText(c, "E") => HasText(c, "E")'
    BY <1>1, <1>2, <2>0
  <2>4. ASSUME life'[c] = "running" PROVE HasText(c, "E")' \/ Calls(todo'[c], "fork")
    <3>1. life[c] = "running"
      BY <1>1, <2>0, <2>4 DEF LivesGoOn
    <3>2. ASSUME Calls(todo[c], "fork") PROVE Calls(todo'[c], "fork")
      <4>1. CASE c # q
        BY <1>1, <2>0, <3>2, <4>1 DEF Shrinks
      <4>2. CASE c = q
        <5>1. todo[q] # <<>>
          BY <3>2, <4>2, EmptyEffect
        <5>2. Head(todo[q])[1] # "open"
          BY <1>2, <1>4, <2>0, <4>2, <5>1, TailEffect
        <5>3. todo'[q] = Tail(todo[q])
          BY <5>1, <5>2, TextsMove, SilentEffect DEF Small
        <5> QED
          BY <1>4, <1>5, <3>2, <4>2, <5>1, <5>3, TailEffect
      <4> QED
        BY <4>1, <4>2
    <3> QED
      BY <2>1, <2>3, <3>1, <3>2
  <2>5. ASSUME life'[c] \in {"ended", "waited"} PROVE Written(c, "E")'
    <3>1. CASE life[c] \in {"ended", "waited"}
      BY <1>1, <2>1, <3>1
    <3>2. CASE life[c] \notin {"ended", "waited"}
      <4>1. c = q /\ todo[q] = <<>> /\ stdout'[q] = <<>>
        BY <1>1, <2>0, <2>5, <3>2 DEF LivesGoOn
      <4>2. HasText(c, "E")' /\ todo'[q] = <<>>
        BY <1>1, <2>1, <2>3, <4>1, EmptyEffect DEF Running, Shrinks
      <4> QED
        BY <4>1, <4>2, EmptyEffect DEF HasText, Printed
    <3> QED
      BY <3>1, <3>2
  <2> QED
    BY <1>6, <2>1, <2>2, <2>4, <2>5 DEF c
<1>8. \/ q # Main /\ todo'[Main] = todo[Main]
      \/ q = Main /\ todo[Main] = <<>> /\ todo'[Main] = <<>>
      \/ q = Main /\ Silent(Main) /\ todo[Main] # <<>> /\ todo'[Main] = Tail(todo[Main])
  <2>1. CASE q # Main
    BY <1>1, <2>1, MainAndChild DEF Shrinks
  <2>2. CASE q = Main /\ todo[Main] = <<>>
    BY <1>1, <2>2 DEF Shrinks
  <2>3. CASE q = Main /\ todo[Main] # <<>>
    <3>1. Head(todo[Main])[1] \in {"fork", "wait", "again"}
      BY <2>3 DEF RepetitionsSound, fork, wait, again
    <3>2. Silent(Main)
      BY <2>3, <3>1, TextsMove, MainAndChild DEF Small, Printing
    <3> QED
      BY <2>3, <3>1, <3>2, SilentEffect, MainAndChild
  <2> QED
    BY <2>1, <2>2, <2>3
<1>9. ASSUME q = Main, Silent(Main), todo[Main] # <<>>
      PROVE  /\ \/ todo[Main] = <<wait, wait, again>> /\ Tail(todo[Main]) = <<wait, again>>
                \/ todo[Main] = <<wait, again>> /\ Tail(todo[Main]) = <<again>>
                \/ todo[Main] = <<again>> /\ Tail(todo[Main]) = <<>>
             /\ todo[Main] = <<wait, wait, again>> => WaitStep(Main)
  <2>1. todo[Main] # <<fork>>
    BY <1>5, <1>9 DEF fork
  <2>2. todo[Main] = <<wait, wait, again>> => WaitStep(Main)
    BY <1>9, SilentEffect, MainAndChild DEF wait
  <2>3. todo[Main] \in {<<wait, wait, again>>, <<wait, again>>, <<again>>}
    BY <1>9, <2>1 DEF RepetitionsSound
  <2>4. todo[Main] = <<wait, wait, again>> => Tail(todo[Main]) = <<wait, again>>
    OBVIOUS
  <2>5. todo[Main] = <<wait, again>> => Tail(todo[Main]) = <<again>>
    OBVIOUS
  <2>6. todo[Main] = <<again>> => Tail(todo[Main]) = <<>>
    OBVIOUS
  <2> QED
    BY <2>2, <2>3, <2>4, <2>5, <2>6
<1>10. ASSUME WaitStep(Main) PROVE ChildGone(repetition)'
  <2>1. CASE \A c \in Process : c[1] = 1 => life[c] \notin {"running", "ended"}
    <3>1. life[<<1, repetition>>] \notin {"running", "ended"}
      BY <1>3, <1>4, <2>1
    <3>2. ChildGone(repetition)
      BY <1>3, <1>4, <3>1 DEF ChildGone, ForksTypeOK
    <3> QED
      BY <1>1, <1>4, <1>6, <3>2 DEF ChildGone
  <2>2. ASSUME NEW c \in Process, c[1] = 1, life[c] = "ended", life' = [life EXCEPT ![c] = "waited"]
        PROVE  ChildGone(repetition)'
    <3>1. c # Main
      BY <2>2 DEF Main
    <3>2. PICK r \in 1 .. REPETITIONS : c = <<1, r>>
      BY <2>2, <3>1, MainAndChild
    <3>3. r = repetition
      BY <1>4, <2>2, <3>2 DEF RepetitionsSound, ChildGone
    <3> QED
      BY <1>1, <2>2, <3>2, <3>3 DEF ChildGone, ForksTypeOK
  <2> QED
    BY <1>10, <2>1, <2>2 DEF WaitStep
<1>11. todo'[Main] \in {<<fork>>, <<wait, wait, again>>, <<wait, again>>, <<again>>, <<>>}
  BY <1>8, <1>9 DEF RepetitionsSound
<1>12. todo'[Main] \in {<<wait, again>>, <<again>>, <<>>} => ChildGone(repetition)'
  <2>1. ChildGone(repetition) => ChildGone(repetition)'
    BY <1>1, <1>4, <1>6 DEF ChildGone
  <2>2. todo[Main] \in {<<wait, again>>, <<again>>, <<>>} => ChildGone(repetition)
    BY DEF RepetitionsSound
  <2> QED
    BY <1>8, <1>9, <1>10, <2>1, <2>2
<1> QED
  BY <1>1, <1>7, <1>11, <1>12 DEF RepetitionsSound, ChildGone

----------------------------------------------------------------------------
(* The first line, in the memory of the processes and in the output.       *)

HeadsIn(s) == {i \in DOMAIN s : s[i] = "head"}

LEMMA HeadsAre ==
  ASSUME ForksTypeOK
  PROVE  /\ \A r \in Process : Heads(r) = HeadsIn(stdout[r])
         /\ \A r \in Process : Heads(r) = {} <=> ~Contains(stdout[r], "head")
         /\ \A r : WrittenHeads(r) = {} <=> ~Written(r, "head")
<1>1. /\ \A r \in Process : stdout[r] \in Seq(Text)
      /\ output \in Seq(Process \X Text)
  BY DEF ForksTypeOK
<1>2. /\ \A r \in Process : DOMAIN stdout[r] = 1 .. Len(stdout[r])
      /\ DOMAIN output = 1 .. Len(output)
  BY <1>1
<1> QED
  BY <1>2 DEF Heads, HeadsIn, WrittenHeads, Contains, Written

\* The first lines among what a step writes.
LEMMA WriteHeads ==
  ASSUME NEW q \in Process, NEW kept \in Seq(Text), ForksTypeOK, Write(q, kept)
  PROVE  /\ \A r \in Process \ {q} : WrittenHeads(r)' = WrittenHeads(r)
         /\ HeadsIn(kept) = {} \/ ~Appears(q) => WrittenHeads(q)' = WrittenHeads(q)
         /\ WrittenHeads(q) = {} /\ OnlyOne(HeadsIn(kept)) => OnlyOne(WrittenHeads(q)')
<1> DEFINE o == output'
<1>1. /\ o \in Seq(Process \X Text) /\ DOMAIN output \subseteq DOMAIN o
      /\ \A i \in DOMAIN output : o[i] = output[i]
      /\ \A i \in DOMAIN o \ DOMAIN output :
           /\ o[i][1] = q /\ Appears(q)
           /\ i - Len(output) \in DOMAIN kept /\ o[i] = <<q, kept[i - Len(output)]>>
  <2>1. output \in Seq(Process \X Text)
    BY DEF ForksTypeOK
  <2>2. /\ output' \in Seq(Process \X Text) /\ DOMAIN output \subseteq DOMAIN output'
        /\ \A i \in DOMAIN output : output'[i] = output[i]
    BY <2>1, WriteEffect
  <2>3. \A i \in DOMAIN output' \ DOMAIN output :
           /\ output'[i][1] = q /\ Appears(q)
           /\ i - Len(output) \in DOMAIN kept /\ output'[i] = <<q, kept[i - Len(output)]>>
    BY <2>1, WriteEffect
  <2> QED
    BY <2>2, <2>3
<1>2. /\ \A r : WrittenHeads(r)' = {i \in DOMAIN o : o[i] = <<r, "head">>}
      /\ \A r : WrittenHeads(r) = {i \in DOMAIN output : output[i] = <<r, "head">>}
  BY DEF WrittenHeads
<1>3. Len(output) \in Nat /\ DOMAIN o \subseteq Nat
  BY <1>1 DEF ForksTypeOK
<1> HIDE DEF o
<1>4. ASSUME NEW r \in Process \ {q} PROVE WrittenHeads(r)' = WrittenHeads(r)
  <2>1. \A i \in DOMAIN o \ DOMAIN output : o[i] # <<r, "head">>
    BY <1>1, <1>4
  <2> QED
    BY <1>1, <1>2, <2>1
<1>5. ASSUME HeadsIn(kept) = {} \/ ~Appears(q) PROVE WrittenHeads(q)' = WrittenHeads(q)
  <2>1. \A i \in DOMAIN o \ DOMAIN output : o[i] # <<q, "head">>
    BY <1>1, <1>5 DEF HeadsIn
  <2> QED
    BY <1>1, <1>2, <2>1
<1>6. ASSUME WrittenHeads(q) = {}, OnlyOne(HeadsIn(kept)) PROVE OnlyOne(WrittenHeads(q)')
  <2>1. SUFFICES ASSUME NEW i \in WrittenHeads(q)', NEW j \in WrittenHeads(q)' PROVE i = j
    BY DEF OnlyOne
  <2>2. i \in DOMAIN o \ DOMAIN output /\ j \in DOMAIN o \ DOMAIN output
        /\ o[i] = <<q, "head">> /\ o[j] = <<q, "head">>
    BY <1>1, <1>2, <1>6
  <2>3. i - Len(output) \in HeadsIn(kept) /\ j - Len(output) \in HeadsIn(kept)
    BY <1>1, <2>2 DEF HeadsIn
  <2>4. i - Len(output) = j - Len(output)
    BY <1>6, <2>3 DEF OnlyOne
  <2> QED
    BY <1>3, <2>2, <2>4
<1> QED
  BY <1>4, <1>5, <1>6

\* What a process has when it adds a text.
LEMMA KeptHeads ==
  ASSUME NEW q \in Process, ForksTypeOK
  PROVE  LET adds == todo[q] # <<>> /\ Head(todo[q])[1] \in Printing /\ Head(todo[q])[2] = "head"
         IN  /\ ~adds => HeadsIn(KeptBy(q)) = Heads(q)
             /\ adds /\ Heads(q) = {} => OnlyOne(HeadsIn(KeptBy(q))) /\ HeadsIn(KeptBy(q)) # {}
<1>1. stdout[q] \in Seq(Text) /\ todo[q] \in Seq(Instruction) /\ Heads(q) = HeadsIn(stdout[q])
  BY HeadsAre DEF ForksTypeOK
<1>2. CASE todo[q] # <<>> /\ Head(todo[q])[1] \in Printing
  <2>1. PICK x \in Text : x = Head(todo[q])[2]
    BY <1>1, <1>2, InstructionsHaveText
  <2>2. PICK k : k = KeptBy(q)
    OBVIOUS
  <2>3. k = Append(stdout[q], x)
    BY <1>2, <2>1, <2>2 DEF KeptBy
  <2>4. /\ Len(stdout[q]) \in Nat /\ DOMAIN stdout[q] = 1 .. Len(stdout[q])
        /\ k \in Seq(Text) /\ Len(k) = Len(stdout[q]) + 1
    BY <1>1, <2>3, AppendProperties
  <2>5. \A i \in 1 .. Len(stdout[q]) : k[i] = stdout[q][i]
    BY <1>1, <2>3, AppendProperties
  <2>6. k[Len(stdout[q]) + 1] = x
    BY <1>1, <2>3, AppendProperties
  <2>7. DOMAIN k = 1 .. Len(stdout[q]) + 1
    BY <2>4
  <2>8. x # "head" => HeadsIn(k) = HeadsIn(stdout[q])
    BY <2>4, <2>5, <2>6, <2>7 DEF HeadsIn
  <2>9. x = "head" /\ HeadsIn(stdout[q]) = {} => HeadsIn(k) = {Len(stdout[q]) + 1}
    BY <2>4, <2>5, <2>6, <2>7 DEF HeadsIn
  <2> QED
    BY <1>1, <1>2, <2>1, <2>2, <2>8, <2>9 DEF OnlyOne
<1>3. CASE ~(todo[q] # <<>> /\ Head(todo[q])[1] \in Printing)
  BY <1>1, <1>3 DEF KeptBy
<1> QED
  BY <1>2, <1>3

LEMMA HeadsAfter ==
  ASSUME ForksTypeOK'
  PROVE  /\ \A r \in Process : Heads(r)' = HeadsIn(stdout'[r])
         /\ \A r \in Process : Heads(r)' = {} <=> ~Contains(stdout'[r], "head")
         /\ \A r : WrittenHeads(r)' = {} <=> ~Written(r, "head")'
<1>0. DOMAIN output' = 1 .. Len(output')
  BY DEF ForksTypeOK
<1>3. \A r : WrittenHeads(r)' = {} <=> ~Written(r, "head")'
  BY <1>0 DEF WrittenHeads, Written, Contains
<1>1. \A r \in Process : stdout'[r] \in Seq(Text)
  BY DEF ForksTypeOK
<1>2. \A r \in Process : DOMAIN stdout'[r] = 1 .. Len(stdout'[r])
  BY <1>1
<1> QED
  BY <1>2, <1>3 DEF Heads, HeadsIn, Contains

LEMMA StdoutAfter ==
  ASSUME NEW q \in Process, NEW kept \in Seq(Text), ForksTypeOK, TextMoves(q, kept)
  PROVE  /\ stdout'[q] \in {kept, <<>>}
         /\ HeadsIn(kept) = {} => ~Contains(stdout'[q], "head")
<1>1. stdout'[q] \in {kept, <<>>}
  BY DEF TextMoves, Keep, ForksTypeOK
<1>2. DOMAIN kept = 1 .. Len(kept)
  OBVIOUS
<1>3. HeadsIn(kept) = {} => ~Contains(kept, "head")
  BY <1>2 DEF HeadsIn, Contains
<1> QED
  BY <1>1, <1>3, EmptyEffect

\* Small steps: the first line is printed once, by main.
LEMMA SmallFirst ==
  ASSUME NEW q \in Process, ForksInv, UNCHANGED program, Small(q) PROVE HeadFirst'
<1> USE DEF ForksInv
<1>1. /\ \A r \in Process : \A x : HasText(r, x)' => HasText(r, x)
      /\ \A r \in Process \ {q} : \A x : Printed(r, x)' <=> Printed(r, x)
      /\ \A r \in Process : \A x : Prints(todo'[r], x) => Prints(todo[r], x)
      /\ Shrinks(q) /\ UNCHANGED terminal /\ ForksTypeOK'
      /\ \A r \in Process \ {q} : stdout'[r] = stdout[r] /\ \A x : Written(r, x)' <=> Written(r, x)
  BY SmallHas, SmallStep, LessToDo
<1>2. ASSUME NEW p0 \in Process, Prints(todo'[p0], "head")
      PROVE  /\ p0 = Main /\ Head(todo'[p0]) = line("head") /\ ~Prints(Tail(todo'[p0]), "head")
             /\ \A r \in Process : ~Printed(r, "head")'
  <2>1. /\ p0 = Main /\ Head(todo[p0]) = line("head") /\ ~Prints(Tail(todo[p0]), "head")
        /\ \A r \in Process : ~Printed(r, "head")
    BY <1>1, <1>2 DEF HeadFirst
  <2>2. q # Main /\ todo'[p0] = todo[p0]
    BY <1>1, <1>2, <2>1, EmptyEffect DEF Shrinks
  <2>3. ~HasText(q, "head")
    BY <2>1, <2>2 DEF HeadFirst, HasText
  <2>4. ~Printed(q, "head")'
    BY <1>1, <2>3 DEF HasText
  <2> QED
    BY <1>1, <2>1, <2>2, <2>4
<1>3. ASSUME terminal, NEW r \in Process
      PROVE  Heads(r)' = {} /\ OnlyOne(WrittenHeads(r)') /\ (r # Main => WrittenHeads(r)' = {})
  <2>0. /\ \A c \in Process : Heads(c)' = {} <=> ~Contains(stdout'[c], "head")
        /\ Heads(r) = {} /\ OnlyOne(WrittenHeads(r)) /\ (r # Main => WrittenHeads(r) = {})
        /\ ~Contains(stdout[r], "head")
    <3>1. \A c \in Process : Heads(c)' = {} <=> ~Contains(stdout'[c], "head")
      BY <1>1, HeadsAfter
    <3> QED
      BY <1>3, <3>1, HeadsAre DEF HeadFirst
  <2>1. CASE Silent(q)
    BY <2>0, <2>1, SilentEffect DEF WrittenHeads
  <2>2. CASE Texts(q) /\ r # q
    <3>1. WrittenHeads(r)' = WrittenHeads(r)
      BY <2>2, TextsMove, WriteHeads DEF TextMoves, WrittenHeads
    <3> QED
      BY <1>1, <2>0, <2>2, <3>1
  <2>3. CASE Texts(q) /\ r = q
    <3> DEFINE adds == todo[q] # <<>> /\ Head(todo[q])[1] \in Printing /\ Head(todo[q])[2] = "head"
    <3>1. /\ TextMoves(q, KeptBy(q)) /\ KeptBy(q) \in Seq(Text)
          /\ ~adds => HeadsIn(KeptBy(q)) = Heads(q)
          /\ adds /\ Heads(q) = {} => OnlyOne(HeadsIn(KeptBy(q)))
      BY <2>3, TextsMove, KeptHeads
    <3>2. CASE ~adds
      <4>1. HeadsIn(KeptBy(q)) = {}
        BY <2>0, <2>3, <3>1, <3>2
      <4>2. WrittenHeads(q)' = WrittenHeads(q)
        BY <3>1, <4>1, WriteHeads DEF TextMoves, WrittenHeads
      <4>3. ~Contains(stdout'[q], "head")
        BY <3>1, <4>1, StdoutAfter
      <4> QED
        BY <2>0, <2>3, <4>2, <4>3
    <3>3. CASE adds
      <4>1. Prints(todo[q], "head")
        BY <3>3, TailEffect DEF ForksTypeOK
      <4>2. q = Main /\ Head(todo[q]) = line("head") /\ ~Printed(q, "head")
        BY <4>1 DEF HeadFirst
      <4>3. Write(q, KeptBy(q)) /\ Keep(q, <<>>)
        <5>1. Head(todo[q])[1] = "line"
          BY <4>2 DEF line
        <5>2. printf(q)
          BY <2>3, <3>3, <5>1 DEF Texts, Flush, ProcessExit, At
        <5>3. KeptBy(q) = Append(stdout[q], Head(todo[q])[2])
          BY <3>3 DEF KeptBy
        <5> QED
          BY <1>3, <5>1, <5>2, <5>3 DEF printf
      <4>4. stdout'[q] = <<>>
        BY <4>3 DEF Keep, ForksTypeOK
      <4>5. WrittenHeads(q) = {}
        BY <4>2, HeadsAre DEF Printed
      <4> QED
        BY <2>0, <2>3, <3>1, <3>3, <4>2, <4>3, <4>4, <4>5, WriteHeads, EmptyEffect
    <3> QED
      BY <3>2, <3>3
  <2> QED
    BY <2>1, <2>2, <2>3 DEF Small
<1> QED
  BY <1>1, <1>2, <1>3 DEF HeadFirst

\* The part of HeadKept about one process.
Kept(r) ==
  /\ OnlyOne(Heads(r)) /\ OnlyOne(WrittenHeads(r))
  /\ WrittenHeads(r) # {} <=> HasEnded(r)
  /\ life[r] = "running" =>
       IF HasText(r, "ls")
         THEN r = Child /\ Heads(r) = {} /\ ~Prints(todo[r], "head") /\ ~Contains(stdout[r], "ls")
         ELSE Heads(r) # {} \/ Prints(todo[r], "head")

\* A step of q leaves it so for the others.
LEMMA KeptOthers ==
  ASSUME NEW q \in Process, ForksInv, UNCHANGED program, Small(q), NEW r \in Process \ {q}, Kept(r)
  PROVE  Kept(r)'
<1> USE DEF ForksInv
<1>1. /\ todo'[r] = todo[r] /\ stdout'[r] = stdout[r] /\ \A x : Written(r, x)' <=> Written(r, x)
      /\ \A x : Printed(r, x)' <=> Printed(r, x)
      /\ life'[r] = life[r] \/ (life[r] = "ended" /\ life'[r] = "waited")
      /\ r \in redirected' <=> r \in redirected
      /\ ForksTypeOK'
  BY SmallStep, SmallHas DEF Shrinks, LivesGoOn
<1>2. Heads(r)' = Heads(r)
  BY <1>1 DEF Heads
<1>3. WrittenHeads(r)' = WrittenHeads(r)
  <2>1. CASE Texts(q)
    BY <2>1, TextsMove, WriteHeads DEF TextMoves, WrittenHeads
  <2>2. CASE Silent(q)
    BY <2>2, SilentEffect DEF WrittenHeads
  <2> QED
    BY <2>1, <2>2 DEF Small
<1>4. HasEnded(r)' <=> HasEnded(r)
  BY <1>1 DEF HasEnded, BecameLs
<1>5. HasText(r, "ls")' <=> HasText(r, "ls")
  BY <1>1 DEF HasText
<1> QED
  BY <1>1, <1>2, <1>3, <1>4, <1>5 DEF Kept

\* A step that moves no text leaves it so for q.
LEMMA KeptSilent ==
  ASSUME NEW q \in Process, ForksInv, UNCHANGED program, Silent(q), Kept(q), program \in Headed
  PROVE  Kept(q)'
<1> USE DEF ForksInv
<1>1. /\ todo[q] # <<>> /\ UNCHANGED <<stdout, output>> /\ Running(q) /\ todo[q] \in Seq(Instruction)
      /\ Head(todo[q])[1] \in {"open", "wait", "dup2", "again", "execve"}
      /\ LivesGoOn(q) /\ Shrinks(q)
  BY SilentEffect, SmallStep DEF Small, ForksTypeOK
<1>2. life'[q] = "running" /\ life[q] = "running"
  BY <1>1 DEF LivesGoOn, Running
<1>3. ~Prints(todo[q], "ls")
  <2>1. todo[q] # <<show("ls")>>
    BY <1>1 DEF show
  <2> QED
    BY <2>1 DEF CallsSound
<1>4. ~Prints(todo[q], "head")
  <2>1. Head(todo[q]) # line("head")
    BY <1>1 DEF line
  <2> QED
    BY <2>1 DEF HeadFirst
<1>5. ~Prints(todo'[q], "ls") /\ ~Prints(todo'[q], "head")
  BY <1>1, <1>3, <1>4, LessToDo
<1>6. Heads(q)' = Heads(q) /\ WrittenHeads(q)' = WrittenHeads(q) /\ (Printed(q, "ls")' <=> Printed(q, "ls"))
  BY <1>1 DEF Heads, WrittenHeads, Printed, Written
<1> QED
  BY <1>1, <1>2, <1>3, <1>4, <1>5, <1>6 DEF Kept, HasEnded, HasText

\* So does one that moves text: the first line goes to the memory, then to the output.
LEMMA KeptTexts ==
  ASSUME NEW q \in Process, ForksInv, UNCHANGED program, Texts(q), Kept(q), program \in Headed, ~terminal
  PROVE  Kept(q)'
<1> USE DEF ForksInv
<1>1. /\ Running(q) /\ Shrinks(q) /\ TextMoves(q, KeptBy(q)) /\ KeptBy(q) \in Seq(Text)
      /\ UNCHANGED <<terminal, repetition, redirected>>
      /\ \A x : HasText(q, x)' => HasText(q, x)
      /\ \A x : HasText(q, x) /\ Appears(q) /\ ~Calls(todo[q], "open") => HasText(q, x)'
      /\ \A x : Prints(todo'[q], x) => Prints(todo[q], x)
      /\ todo[q] \in Seq(Instruction) /\ stdout[q] \in Seq(Text)
      /\ ForksTypeOK'
  BY TextsMove, SmallHas, SmallStep, LessToDo DEF Small, ForksTypeOK
<1>2. WrittenHeads(q) = {} /\ life[q] = "running"
  BY <1>1 DEF Kept, HasEnded, Running
<1>3. Heads(q)' = {} <=> ~Contains(stdout'[q], "head")
  BY <1>1, HeadsAfter
<1>4. Heads(q) = {} <=> ~Contains(stdout[q], "head")
  BY HeadsAre
<1>5. WrittenHeads(q)' = {} <=> ~Written(q, "head")'
  BY <1>1, HeadsAfter
<1>6. CASE printf(q)
  <2>1. /\ todo[q] # <<>> /\ Head(todo[q])[1] \in Printing /\ todo'[q] = Tail(todo[q])
        /\ UNCHANGED life
        /\ KeptBy(q) = Append(stdout[q], Head(todo[q])[2])
    BY <1>1, <1>6, ContinueShrinks DEF printf, At, Continue, KeptBy, Printing, ForksTypeOK
  <2>2. CASE Head(todo[q])[1] = "show"
    <3>1. todo[q] = <<show("ls")>>
      BY <1>1, <2>1, <2>2, TailEffect DEF CallsSound
    <3>2. Head(todo[q])[2] = "ls" /\ todo'[q] = <<>>
      BY <2>1, <3>1 DEF show
    <3>3. HasText(q, "ls")
      BY <1>1, <2>1, <3>2, TailEffect DEF HasText
    <3>4. q = Child /\ Heads(q) = {} /\ ~Contains(stdout[q], "ls")
      BY <1>2, <3>3 DEF Kept
    <3>5. Appears(q)
      <4>1. q \in redirected => q = Main /\ program = "execve"
        BY DEF CallsSound
      <4>2. q = Child
        BY <1>2, <3>3 DEF Kept
      <4> QED
        BY <4>1, <4>2, MainAndChild DEF Appears
    <3>6. Write(q, KeptBy(q)) /\ Keep(q, <<>>)
      BY <1>6, <2>1, <2>2 DEF printf
    <3>7. stdout'[q] = <<>>
      BY <3>6 DEF Keep, ForksTypeOK
    <3>8. HeadsIn(KeptBy(q)) = {}
      BY <3>2, <3>4, KeptHeads
    <3>9. WrittenHeads(q)' = {}
      BY <1>1, <1>2, <3>6, <3>8, WriteHeads
    <3>10. ~Calls(todo[q], "open")
      <4>1. Tail(todo[q]) = <<>>
        BY <2>1, <3>2
      <4>2. Calls(todo[q], "open") <=> Head(todo[q])[1] = "open" \/ Calls(Tail(todo[q]), "open")
        BY <1>1, <2>1, TailEffect
      <4>3. ~Calls(Tail(todo[q]), "open")
        BY <4>1, EmptyEffect
      <4> QED
        BY <2>2, <4>2, <4>3
    <3>11. HasText(q, "ls")'
      BY <1>1, <3>3, <3>5, <3>10
    <3> QED
      BY <1>2, <1>3, <2>1, <3>2, <3>4, <3>7, <3>9, <3>11, EmptyEffect DEF Kept, HasEnded, OnlyOne
  <2>3. CASE Head(todo[q])[1] # "show"
    <3>1. Keep(q, KeptBy(q)) /\ UNCHANGED output
      BY <1>6, <2>1, <2>3 DEF printf, Printing
    <3>2. stdout'[q] = KeptBy(q)
      BY <3>1 DEF Keep, ForksTypeOK
    <3>3. Heads(q)' = HeadsIn(KeptBy(q))
      BY <1>1, <3>2, HeadsAfter
    <3>4. WrittenHeads(q)' = {} /\ \A x : Written(q, x)' <=> Written(q, x)
      BY <1>2, <3>1 DEF WrittenHeads, Written
    <3>5. ~Prints(todo[q], "ls")
      <4>1. todo[q] # <<show("ls")>>
        BY <2>3 DEF show
      <4> QED
        BY <4>1 DEF CallsSound
    <3>6. ~Prints(todo'[q], "ls") /\ Head(todo[q])[2] # "ls"
      BY <1>1, <2>1, <3>5, TailEffect
    <3>7. Contains(stdout'[q], "ls") <=> Contains(stdout[q], "ls")
      BY <1>1, <2>1, <3>2, <3>6, AppendEffect, InstructionsHaveText
    <3>8. HasText(q, "ls")' <=> HasText(q, "ls")
      BY <3>4, <3>5, <3>6, <3>7 DEF HasText, Printed
    <3>9. CASE Head(todo[q])[2] = "head"
      <4>1. Prints(todo[q], "head")
        BY <1>1, <2>1, <3>9, TailEffect
      <4>2. Heads(q) = {} /\ ~HasText(q, "ls")
        BY <1>2, <1>4, <4>1 DEF HeadFirst, Printed, Kept
      <4>3. OnlyOne(HeadsIn(KeptBy(q))) /\ HeadsIn(KeptBy(q)) # {}
        BY <2>1, <3>9, <4>2, KeptHeads
      <4> QED
        BY <1>2, <2>1, <3>3, <3>4, <3>8, <4>2, <4>3 DEF Kept, HasEnded, OnlyOne
    <3>10. CASE Head(todo[q])[2] # "head"
      <4>1. Heads(q)' = Heads(q)
        BY <3>3, <3>10, KeptHeads
      <4>2. ~Prints(todo[q], "head") /\ ~Prints(todo'[q], "head")
        <5>1. Prints(todo[q], "head") => Head(todo[q]) = line("head")
          BY DEF HeadFirst
        <5> QED
          BY <1>1, <3>10, <5>1 DEF line
      <4> QED
        BY <1>2, <2>1, <3>4, <3>7, <3>8, <4>1, <4>2 DEF Kept, HasEnded, OnlyOne
    <3> QED
      BY <3>9, <3>10
  <2> QED
    BY <2>2, <2>3
<1>7. ~Flush(q)
  BY <1>1, TailEffect DEF Flush, At, CallsSound
<1>8. CASE ProcessExit(q)
  <2>1. /\ todo[q] = <<>> /\ todo'[q] = <<>> /\ life'[q] = "ended" /\ KeptBy(q) = stdout[q]
        /\ Write(q, stdout[q]) /\ stdout'[q] = <<>>
    BY <1>8 DEF ProcessExit, Keep, KeptBy, ForksTypeOK
  <2>2. ~Prints(todo[q], "ls") /\ ~Prints(todo[q], "head") /\ ~Calls(todo[q], "open")
    BY <2>1, EmptyEffect
  <2>3. \A x : Written(q, x)' <=> Written(q, x) \/ (Contains(stdout[q], x) /\ Appears(q))
    BY <1>1, <2>1, WrittenAfter DEF ForksTypeOK
  <2>4. Heads(q)' = {}
    BY <1>3, <2>1, EmptyEffect
  <2>5. OnlyOne(Heads(q)) /\ Heads(q) = HeadsIn(stdout[q])
    BY HeadsAre DEF Kept
  <2>6. OnlyOne(WrittenHeads(q)')
    BY <1>1, <1>2, <2>1, <2>5, WriteHeads
  <2>7. WrittenHeads(q)' = {} <=> Heads(q) = {} \/ q \in redirected
    BY <1>2, <1>4, <1>5, <2>3, HeadsAre DEF Appears
  <2>8. CASE HasText(q, "ls")
    <3>1. Heads(q) = {} /\ Written(q, "ls")
      BY <1>2, <2>2, <2>8 DEF Kept, HasText, Printed
    <3> QED
      BY <2>1, <2>3, <2>4, <2>6, <2>7, <3>1 DEF Kept, HasEnded, BecameLs, OnlyOne
  <2>9. CASE ~HasText(q, "ls")
    <3>1. Heads(q) # {} /\ ~Written(q, "ls")'
      BY <1>1, <1>2, <2>2, <2>3, <2>9 DEF Kept, HasText, Printed
    <3> QED
      BY <1>1, <2>1, <2>4, <2>6, <2>7, <3>1 DEF Kept, HasEnded, BecameLs, OnlyOne
  <2> QED
    BY <2>8, <2>9
<1> QED
  BY <1>6, <1>7, <1>8 DEF Texts

LEMMA SmallKept ==
  ASSUME NEW q \in Process, ForksInv, UNCHANGED program, Small(q) PROVE HeadKept'
<1> USE DEF ForksInv
<1> SUFFICES ASSUME ~terminal, program \in Headed PROVE HeadKept'
  BY SmallStep DEF HeadKept
<1>1. \A r \in Process : Kept(r)
  BY DEF HeadKept, Kept
<1>2. \A r \in Process : Kept(r)'
  BY <1>1, KeptOthers, KeptSilent, KeptTexts DEF Small
<1> QED
  BY <1>2 DEF HeadKept, Kept

\* Small steps keep the invariant.
LEMMA SmallKeeps ==
  ASSUME NEW q \in Process, ForksInv, UNCHANGED program, Small(q) PROVE ForksInv'
<1>1. ForksTypeOK'
  BY SmallStep DEF ForksInv
<1> QED
  BY <1>1, SmallCalls, SmallLives, SmallLate, SmallChild, SmallRepetitions, SmallFirst, SmallKept
     DEF ForksInv

----------------------------------------------------------------------------
(* The steps that start a list: a repetition, another program, and forks.  *)

\* The two steps that start another list, but fork nothing.
Restarts(q) == At(q, "again") /\ repetition < REPETITIONS /\ Again(q)
Becomes(q) ==
  /\ At(q, "execve") /\ Execve(q)
  /\ todo' = [todo EXCEPT ![q] = <<show("ls")>>] /\ Keep(q, <<>>)

\* Every step is of one of four kinds.
LEMMA StepsAre ==
  ASSUME NEW q \in Process, ForksTypeOK,
         \/ printf(q) \/ Flush(q) \/ Open(q) \/ Fork(q) \/ WaitAny(q)
         \/ Execve(q) \/ Dup2(q) \/ Again(q) \/ ProcessExit(q)
  PROVE  Small(q) \/ Restarts(q) \/ Becomes(q) \/ Fork(q)
<1>1. ASSUME Open(q) \/ WaitAny(q) \/ Dup2(q) PROVE Silent(q)
  <2>1. /\ todo[q] # <<>> /\ (Continue(q) \/ todo' = [todo EXCEPT ![q] = <<>>])
        /\ UNCHANGED <<stdout, repetition>>
    BY <1>1 DEF Open, WaitAny, Dup2, At
  <2> QED
    BY <1>1, <2>1, ContinueShrinks DEF Silent
<1>2. ASSUME Execve(q) PROVE Silent(q) \/ Becomes(q)
  <2>1. CASE todo' = [todo EXCEPT ![q] = <<show("ls")>>] /\ Keep(q, <<>>)
    BY <1>2, <2>1 DEF Becomes, Execve
  <2>2. CASE Continue(q) /\ UNCHANGED stdout
    <3>1. todo[q] # <<>> /\ UNCHANGED repetition
      BY <1>2 DEF Execve, At
    <3> QED
      BY <1>2, <2>2, <3>1, ContinueShrinks DEF Silent
  <2> QED
    BY <1>2, <2>1, <2>2 DEF Execve
<1>3. ASSUME Again(q) PROVE Silent(q) \/ Restarts(q)
  <2>1. CASE repetition < REPETITIONS
    BY <1>3, <2>1 DEF Restarts, Again
  <2>2. CASE ~(repetition < REPETITIONS)
    <3>1. todo[q] # <<>> /\ Continue(q) /\ UNCHANGED <<stdout, repetition>>
      BY <1>3, <2>2 DEF Again, At
    <3> QED
      BY <1>3, <3>1, ContinueShrinks DEF Silent
  <2> QED
    BY <2>1, <2>2
<1> QED
  BY <1>1, <1>2, <1>3 DEF Small, Texts

\* The next repetition of fork_pid: the children of the last one are gone.
LEMMA RestartsKeeps ==
  ASSUME NEW q \in Process, ForksInv, UNCHANGED program, Restarts(q) PROVE ForksInv'
<1> USE DEF ForksInv
<1>1. /\ Running(q) /\ todo[q] # <<>> /\ Head(todo[q])[1] = "again" /\ repetition < REPETITIONS
      /\ repetition' = repetition + 1 /\ todo' = [todo EXCEPT ![q] = StartOf]
      /\ UNCHANGED <<terminal, life, stdout, redirected, output>>
      /\ todo[q] \in Seq(Instruction)
  BY DEF Restarts, Again, At, StartOf, ForksTypeOK
<1>2. q = Main /\ program = "pid"
  BY <1>1, TailEffect DEF CallsSound
<1>3. Does(StartOf, {"fork"}, {}) /\ StartOf = <<fork>>
  <2>1. program \in DOMAIN Program
    BY <1>1 DEF LivesSound, Running
  <2> QED
    BY <1>2, <2>1, ProgramSound, ForkAlone DEF StartSound
<1>4. todo[Main] = <<again>>
  BY <1>1, <1>2 DEF RepetitionsSound, fork, wait
<1>5. /\ todo'[Main] = <<fork>> /\ Does(todo'[Main], {"fork"}, {})
      /\ \A r \in Process \ {Main} : todo'[r] = todo[r]
      /\ todo' \in [Process -> Seq(Instruction)]
  BY <1>1, <1>2, <1>3 DEF ForksTypeOK, Does
<1>6. \A r, x : (Printed(r, x)' <=> Printed(r, x)) /\ (Written(r, x)' <=> Written(r, x))
  BY <1>1 DEF Printed, Written
<1>7. /\ repetition \in Nat /\ REPETITIONS \in Nat /\ repetition + 1 \in 1 .. REPETITIONS
      /\ \A r \in 1 .. REPETITIONS : r \in Nat /\ <<1, r>> \in Process /\ <<1, r>> # Main
  <2>1. REPETITIONS \in Nat /\ \A r \in 1 .. REPETITIONS : <<1, r>> \in Process
    BY MainAndChild
  <2>2. \A r \in 1 .. REPETITIONS : r \in Nat /\ <<1, r>> # Main
    BY DEF Main
  <2>3. repetition \in Nat /\ repetition + 1 \in 1 .. REPETITIONS
    BY <1>1, <2>1 DEF ForksTypeOK
  <2> QED
    BY <2>1, <2>2, <2>3
<1>8. ForksTypeOK'
  BY <1>1, <1>5, <1>7 DEF ForksTypeOK
<1>9. life[<<1, repetition + 1>>] = "none"
  BY <1>2, <1>7 DEF RepetitionsSound
<1>10. CallsSound'
  BY <1>1, <1>2, <1>5, <1>9 DEF CallsSound, Does, Headed
<1>11. LivesSound'
  BY <1>1, <1>2, <1>5 DEF LivesSound, Running
<1>12. LateWaits' /\ ChildPrints' /\ HeadKept'
  BY <1>2 DEF LateWaits, ChildPrints, HeadKept, Waiting, Headed
<1>13. ChildGone(repetition)
  BY <1>2, <1>4 DEF RepetitionsSound
<1>14. ASSUME NEW r \in 1 .. REPETITIONS
       PROVE  /\ r < repetition + 1 => ChildGone(r)'
              /\ r > repetition + 1 => life'[<<1, r>>] = "none"
              /\ life'[<<1, r>>] = "running" => HasText(<<1, r>>, "E")' \/ Calls(todo'[<<1, r>>], "fork")
              /\ life'[<<1, r>>] \in {"ended", "waited"} => Written(<<1, r>>, "E")'
  <2>1. /\ r < repetition => ChildGone(r)
        /\ r > repetition => life[<<1, r>>] = "none"
        /\ life[<<1, r>>] = "running" => HasText(<<1, r>>, "E") \/ Calls(todo[<<1, r>>], "fork")
        /\ life[<<1, r>>] \in {"ended", "waited"} => Written(<<1, r>>, "E")
    BY <1>2 DEF RepetitionsSound
  <2>2. HasText(<<1, r>>, "E")' <=> HasText(<<1, r>>, "E")
    BY <1>5, <1>6, <1>7 DEF HasText
  <2>3. ChildGone(r)' <=> ChildGone(r)
    BY <1>1 DEF ChildGone
  <2>4. r < repetition + 1 => r < repetition \/ r = repetition
    BY <1>7
  <2> QED
    BY <1>1, <1>5, <1>6, <1>7, <1>13, <2>1, <2>2, <2>3, <2>4
<1>15. RepetitionsSound'
  BY <1>1, <1>5, <1>14, <1>7 DEF RepetitionsSound, fork, wait, again
<1>16. HeadFirst'
  <2>1. /\ \A r \in Process : Prints(todo'[r], "head") => r # Main /\ Prints(todo[r], "head")
    BY <1>5 DEF Does
  <2>2. \A r \in Process : ~Prints(todo'[r], "head")
    BY <2>1 DEF HeadFirst
  <2>3. \A r : Heads(r)' = Heads(r) /\ WrittenHeads(r)' = WrittenHeads(r)
    BY <1>1 DEF Heads, WrittenHeads
  <2> QED
    BY <1>1, <2>2, <2>3 DEF HeadFirst
<1> QED
  BY <1>8, <1>10, <1>11, <1>12, <1>15, <1>16

\* Another program: what the process kept is lost.
LEMMA BecomesKeeps ==
  ASSUME NEW q \in Process, ForksInv, UNCHANGED program, Becomes(q) PROVE ForksInv'
<1> USE DEF ForksInv
<1>1. /\ Running(q) /\ todo[q] # <<>> /\ Head(todo[q])[1] = "execve"
      /\ todo' = [todo EXCEPT ![q] = <<show("ls")>>] /\ stdout' = [stdout EXCEPT ![q] = <<>>]
      /\ UNCHANGED <<terminal, repetition, life, redirected, output>>
      /\ todo[q] \in Seq(Instruction)
  BY DEF Becomes, Execve, At, Keep, ForksTypeOK
<1>2. q = Child /\ program \in {"execve", "dup"}
  BY <1>1, TailEffect DEF CallsSound
<1>3. PICK s : s = <<show("ls")>>
  OBVIOUS
<1>4. Does(s, {"show"}, {"ls"})
  BY <1>3, LsList
<1>5. /\ todo'[q] = s /\ stdout'[q] = <<>>
      /\ \A r \in Process \ {q} : todo'[r] = todo[r] /\ stdout'[r] = stdout[r]
      /\ todo' \in [Process -> Seq(Instruction)] /\ stdout' \in [Process -> Seq(Text)]
  BY <1>1, <1>3, <1>4, EmptyEffect DEF ForksTypeOK, Does
<1>6. /\ \A r, x : Written(r, x)' <=> Written(r, x)
      /\ \A r : WrittenHeads(r)' = WrittenHeads(r)
      /\ \A x, y : Before(x, y)' <=> Before(x, y)
  BY <1>1 DEF Written, WrittenHeads, Before
<1>7. /\ \A r \in Process \ {q} : \A x : (Printed(r, x)' <=> Printed(r, x)) /\ (HasText(r, x)' <=> HasText(r, x))
      /\ \A x : Printed(q, x)' => Written(q, x)
      /\ \A x : HasText(q, x)' <=> x = "ls" \/ Written(q, x)
      /\ \A r \in Process \ {q} : Heads(r)' = Heads(r)
      /\ Heads(q)' = {}
  BY <1>4, <1>5, <1>6, EmptyEffect DEF HasText, Printed, Does, Heads
<1>8. ForksTypeOK'
  BY <1>1, <1>5 DEF ForksTypeOK
<1>9. CallsSound'
  BY <1>1, <1>2, <1>3, <1>4, <1>5, MainAndChild DEF CallsSound, Does
<1>10. LivesSound'
  BY <1>1, <1>5 DEF LivesSound, Running
<1>11. LateWaits'
  <2>0. EarlyText = "ls" /\ LateTexts = {"waited", "x"} /\ program \in Waiting
    BY <1>2 DEF EarlyText, LateTexts, Waiting
  <2>1. /\ EarlyText' = EarlyText /\ LateTexts' = LateTexts /\ program' = program
        /\ \A t : Guarded(t)' <=> Guarded(t)
    BY DEF EarlyText, LateTexts, Guarded
  <2>2. \A r \in Process : HasText(r, "ls")' => r = Child
    BY <1>2, <1>7, <2>0 DEF LateWaits
  <2>3. \A r \in Process, x \in LateTexts : HasText(r, x)' => r = Main
    BY <1>7, <2>0 DEF LateWaits, HasText, Printed
  <2>4. Calls(todo'[Main], "fork") => \A x \in LateTexts : ~HasText(Main, x)'
    BY <1>2, <1>5, <1>7, MainAndChild, <2>0 DEF LateWaits
  <2>5. life'[Child] = "running" => Guarded(todo'[Main]) /\ \A x \in LateTexts : ~Printed(Main, x)'
    BY <1>1, <1>2, <1>5, <1>7, MainAndChild, <2>0 DEF LateWaits
  <2>6. \A x \in LateTexts : Before("ls", x)'
    BY <1>6, <2>0 DEF LateWaits
  <2>7. EarlyText' = "ls"
    BY <2>0, <2>1
  <2>8. \A r \in Process : HasText(r, EarlyText)' => r = Child
    BY <2>2, <2>7 DEF HasText, Printed, Written
  <2>9. \A x \in LateTexts' : Before(EarlyText, x)'
    BY <2>1, <2>6, <2>7 DEF Before
  <2> QED
    BY <2>1, <2>3, <2>4, <2>5, <2>8, <2>9 DEF LateWaits
<1>12. ChildPrints' /\ RepetitionsSound'
  BY <1>2 DEF ChildPrints, RepetitionsSound
<1>13. HeadFirst'
  <2>1. ASSUME NEW r \in Process, Prints(todo'[r], "head")
        PROVE  /\ r = Main /\ Head(todo'[r]) = line("head") /\ ~Prints(Tail(todo'[r]), "head")
               /\ \A c \in Process : ~Printed(c, "head")'
    <3>1. r # q /\ todo'[r] = todo[r]
      BY <1>4, <1>5, <2>1 DEF Does
    <3> QED
      BY <1>7, <2>1, <3>1 DEF HeadFirst, Printed
  <2> QED
    BY <1>1, <1>6, <1>7, <2>1 DEF HeadFirst
<1>14. HeadKept'
  <2> SUFFICES ASSUME ~terminal, program \in Headed PROVE HeadKept'
    BY <1>1 DEF HeadKept
  <2>1. \A r \in Process : HasEnded(r)' <=> HasEnded(r)
    BY <1>1, <1>6 DEF HasEnded, BecameLs
  <2>2. \A r \in Process \ {q} : Kept(r)'
    BY <1>1, <1>5, <1>6, <1>7, <2>1 DEF HeadKept, Kept
  <2>3. Kept(q)'
    BY <1>1, <1>2, <1>4, <1>5, <1>6, <1>7, <2>1, EmptyEffect DEF HeadKept, Kept, OnlyOne, Does
  <2> QED
    BY <2>2, <2>3 DEF HeadKept, Kept
<1> QED
  BY <1>8, <1>9, <1>10, <1>11, <1>12, <1>13, <1>14

\* The forks of main.
LEMMA MainForks ==
  ASSUME ForksInv, UNCHANGED program, Fork(Main) PROVE ForksInv'
<1> USE DEF ForksInv
<1>c. PICK c : c = <<1, repetition>>
  OBVIOUS
<1>a. PICK a : a = AfterFork(1)
  OBVIOUS
<1> DEFINE forked == /\ life' = [life EXCEPT ![c] = "running"]
                     /\ stdout' = [stdout EXCEPT ![c] = stdout[Main]]
                     /\ todo' = [todo EXCEPT ![Main] = a.parent, ![c] = a.child]
           not == todo' = [todo EXCEPT ![Main] = a.failed] /\ UNCHANGED <<life, stdout>>
<1>1. /\ Running(Main) /\ todo[Main] # <<>> /\ Head(todo[Main])[1] = "fork" /\ (forked \/ not)
      /\ UNCHANGED <<terminal, repetition, redirected, output>>
      /\ todo[Main] \in Seq(Instruction)
  BY <1>c, <1>a, MainAndChild DEF Fork, At, AfterFork, ForksTypeOK, Main
<1>2. /\ c \in Process /\ c # Main /\ c[1] = 1
      /\ program # "pid" => c = Child
  BY <1>c, MainAndChild DEF Main, Child, ForksTypeOK, CallsSound
<1>3. program \in DOMAIN Program /\ AfterSound(a)
  <2>1. program \in DOMAIN Program
    BY <1>1, MainAndChild DEF LivesSound, Running
  <2> QED
    BY <2>1, <1>a, ProgramSound
<1>4. Calls(todo[Main], "fork") /\ ~Prints(todo[Main], "head")
  <2>1. Head(todo[Main]) # line("head")
    BY <1>1 DEF line
  <2> QED
    BY <1>1, <2>1, TailEffect, MainAndChild DEF HeadFirst
<1>5. /\ life[c] = "none" /\ todo[c] = <<>> /\ stdout[c] = <<>> /\ \A x : ~Written(c, x)
  <2>1. life[c] = "none"
    BY <1>4, <1>c DEF CallsSound
  <2>2. \A i \in DOMAIN output : output[i][1] # c
    BY <1>2, <2>1 DEF LivesSound
  <2>3. \A x : ~Written(c, x)
    <3>1. DOMAIN output = 1 .. Len(output)
      BY DEF ForksTypeOK
    <3> QED
      BY <2>2, <3>1 DEF Written, Contains
  <2> QED
    BY <1>2, <2>1, <2>3 DEF LivesSound
<1> HIDE DEF forked, not
<1>6. PICK s : /\ CallerSound(s) /\ todo'[Main] = s
               /\ forked => s = a.parent
               /\ not /\ ~forked => s = a.failed
  <2>1. CASE forked
    <3>1. todo'[Main] = a.parent
      BY <1>2, <2>1, MainAndChild DEF forked, ForksTypeOK
    <3> QED
      BY <1>3, <2>1, <3>1 DEF AfterSound
  <2>2. CASE not /\ ~forked
    <3>1. todo'[Main] = a.failed
      BY <2>2, MainAndChild DEF not, ForksTypeOK
    <3> QED
      BY <1>3, <2>2, <3>1 DEF AfterSound
  <2> QED
    BY <1>1, <2>1, <2>2
<1>7. /\ ChildSound(a.child)
      /\ \A r \in Process \ {Main, c} : todo'[r] = todo[r] /\ stdout'[r] = stdout[r] /\ life'[r] = life[r]
      /\ stdout'[Main] = stdout[Main] /\ life'[Main] = "running"
      /\ \/ life'[c] = "running" /\ todo'[c] = a.child /\ stdout'[c] = stdout[Main] /\ forked
         \/ life'[c] = "none" /\ todo'[c] = <<>> /\ stdout'[c] = <<>> /\ not /\ ~forked
      /\ todo' \in [Process -> Seq(Instruction)]
      /\ stdout' \in [Process -> Seq(Text)]
      /\ life' \in [Process -> {"none", "running", "ended", "waited"}]
  <2>1. ChildSound(a.child) /\ a.child \in Seq(Instruction)
        /\ a.parent \in Seq(Instruction) /\ a.failed \in Seq(Instruction)
    BY <1>3 DEF AfterSound, CallerSound, ChildSound, ListSound
  <2>2. CASE forked
    BY <1>1, <1>2, <2>1, <2>2, MainAndChild DEF forked, ForksTypeOK, Running
  <2>3. CASE not /\ ~forked
    BY <1>1, <1>2, <1>5, <2>1, <2>3, MainAndChild DEF not, ForksTypeOK, Running
  <2> QED
    BY <1>1, <2>1, <2>2, <2>3
<1>8. /\ \A r, x : Written(r, x)' <=> Written(r, x)
      /\ \A r : WrittenHeads(r)' = WrittenHeads(r)
      /\ \A x, y : Before(x, y)' <=> Before(x, y)
  BY <1>1 DEF Written, WrittenHeads, Before
<1>9. /\ \A r \in Process \ {c} : \A x : Printed(r, x)' <=> Printed(r, x)
      /\ \A r \in Process \ {Main, c} : \A x : HasText(r, x)' <=> HasText(r, x)
      /\ \A x : Printed(c, x)' => Contains(stdout[Main], x) /\ forked
      /\ \A r \in Process \ {c} : Heads(r)' = Heads(r)
      /\ Heads(c)' \in {{}, Heads(Main)}
      /\ forked => Heads(c)' = Heads(Main)
  <2>1. Heads(c)' \in {{}, Heads(Main)} /\ (forked => Heads(c)' = Heads(Main))
    BY <1>7 DEF Heads
  <2>2. \A r \in Process \ {c} : Heads(r)' = Heads(r)
    <3>1. \A r \in Process \ {c} : stdout'[r] = stdout[r]
      BY <1>7, MainAndChild
    <3> QED
      BY <3>1 DEF Heads
  <2>3. \A x : ~Contains(<<>>, x)
    BY EmptyEffect
  <2> QED
    BY <1>5, <1>7, <1>8, <2>1, <2>2, <2>3, MainAndChild DEF HasText, Printed
<1>10. ForksTypeOK'
  BY <1>1, <1>7 DEF ForksTypeOK
<1>11. /\ ~Calls(s, "open") /\ ~Prints(s, "head") /\ ~Calls(s, "fork") /\ ~Calls(s, "execve")
       /\ program \in Headed => ~Prints(s, "ls") /\ ~Calls(s, "fflush") /\ ~Calls(s, "show")
       /\ Calls(s, "again") => program = "pid"
       /\ Calls(s, "dup2") => program = "execve"
       /\ program \in Waiting => ~Prints(s, EarlyText)
       /\ program = "pid" => s = <<wait, wait, again>>
  BY <1>6 DEF CallerSound, ListSound
<1>12. /\ ~Calls(todo'[c], "open") /\ ~Prints(todo'[c], "head")
       /\ \A call \in {"wait", "again", "dup2"} : ~Calls(todo'[c], call)
       /\ program \in Headed =>
            ~Prints(todo'[c], "ls") /\ ~Calls(todo'[c], "fflush") /\ ~Calls(todo'[c], "show")
       /\ Calls(todo'[c], "execve") => program \in {"execve", "dup"}
       /\ Calls(todo'[c], "fork") => program = "pid"
       /\ program \in Waiting => \A x \in LateTexts : ~Prints(todo'[c], x)
  BY <1>7, EmptyEffect DEF ChildSound, ListSound
<1>13. CallsSound'
  <2>1. ASSUME NEW r \in Process
        PROVE  /\ \A call \in {"wait", "again", "dup2", "open"} : Calls(todo'[r], call) => r = Main
               /\ Calls(todo'[r], "execve") => r = Child /\ program' \in {"execve", "dup"}
               /\ Calls(todo'[r], "fork") => r = Main \/ (program' = "pid" /\ r[1] = 1)
               /\ Calls(todo'[r], "again") => program' = "pid"
               /\ Calls(todo'[r], "dup2") => program' = "execve"
               /\ r \in redirected' => r = Main /\ program' = "execve"
               /\ program' \in Headed =>
                    /\ ~Calls(todo'[r], "fflush")
                    /\ Calls(todo'[r], "show") \/ Prints(todo'[r], "ls") => todo'[r] = <<show("ls")>>
    <3>1. CASE r = Main
      BY <1>1, <1>6, <1>11, <3>1 DEF CallsSound
    <3>2. CASE r = c
      BY <1>1, <1>2, <1>12, <3>2 DEF CallsSound
    <3>3. CASE r \notin {Main, c}
      BY <1>1, <1>7, <3>3 DEF CallsSound
    <3> QED
      BY <3>1, <3>2, <3>3
  <2>2. ~Calls(todo'[Main], "fork") /\ (program # "pid" => repetition' = 1)
    BY <1>1, <1>6, <1>11 DEF CallsSound
  <2> QED
    BY <2>1, <2>2 DEF CallsSound
<1>14. LivesSound'
  <2>1. ASSUME NEW r \in Process
        PROVE  /\ life'[r] # "running" => todo'[r] = <<>> /\ stdout'[r] = <<>>
               /\ life'[r] = "none" => \A i \in DOMAIN output : output[i][1] # r
               /\ life'[r] # "none" => program \in DOMAIN Program /\ (r \in {Main, Child} \/ program = "pid")
    <3>1. CASE r = Main
      BY <1>3, <1>7, <3>1
    <3>2. CASE r = c
      <4>1. \A i \in DOMAIN output : output[i][1] # c
        BY <1>2, <1>5 DEF LivesSound
      <4> QED
        BY <1>2, <1>3, <1>7, <3>2, <4>1
    <3>3. CASE r \notin {Main, c}
      <4>1. r \in Process \ {Main, c}
        BY <3>3
      <4>2. todo'[r] = todo[r] /\ stdout'[r] = stdout[r] /\ life'[r] = life[r]
        BY <1>7, <4>1
      <4> QED
        BY <4>2 DEF LivesSound
    <3> QED
      BY <3>1, <3>2, <3>3
  <2> QED
    BY <1>1, <2>1 DEF LivesSound
<1>15. LateWaits'
  <2> SUFFICES ASSUME program \in Waiting PROVE LateWaits'
    BY DEF LateWaits
  <2>1. /\ EarlyText' = EarlyText /\ LateTexts' = LateTexts /\ program' = program /\ c = Child
        /\ \A l : Guarded(l)' <=> Guarded(l)
    BY <1>2 DEF EarlyText, LateTexts, Guarded, Waiting
  <2>2. \A x \in LateTexts : ~HasText(Main, x) /\ ~Printed(Main, x) /\ ~Contains(stdout[Main], x)
    BY <1>4 DEF LateWaits, HasText, Printed
  <2>3. \A r \in Process : (Prints(todo'[r], EarlyText) \/ Printed(r, EarlyText)') => r = Child
    <3>1. \A r \in Process : Prints(todo'[r], EarlyText) => r = Child
      BY <1>6, <1>7, <1>11, <2>1 DEF LateWaits, HasText
    <3>2. \A r \in Process : Printed(r, EarlyText) => r = Child
      BY DEF LateWaits, HasText
    <3>3. \A r \in Process \ {c} : Printed(r, EarlyText)' <=> Printed(r, EarlyText)
      BY <1>7, <1>8, <2>1, MainAndChild DEF Printed, Written
    <3> QED
      BY <2>1, <3>1, <3>2, <3>3
  <2>4. \A r \in Process, x \in LateTexts : HasText(r, x)' => r = Main
    <3>1. \A x \in LateTexts : ~HasText(c, x)'
      BY <1>9, <1>12, <2>2 DEF HasText
    <3> QED
      BY <1>9, <3>1 DEF LateWaits
  <2>5. life'[Child] = "running" => Guarded(todo'[Main]) /\ \A x \in LateTexts : ~Printed(Main, x)'
    <3>1. forked => Guarded(s)
      BY <1>3, <1>6 DEF AfterSound
    <3> QED
      BY <1>2, <1>6, <1>7, <1>9, <2>1, <2>2, <3>1, MainAndChild
  <2>6. \A x \in LateTexts : Before(EarlyText, x)'
    BY <1>8, <2>1 DEF LateWaits, Before
  <2>7. \A r \in Process : HasText(r, EarlyText)' => r = Child
    BY <2>1, <2>3 DEF HasText, Printed, Written
  <2>8. ~Calls(todo'[Main], "fork")
    BY <1>6, <1>11
  <2> QED
    BY <2>1, <2>4, <2>5, <2>6, <2>7, <2>8 DEF LateWaits
<1>16. ChildPrints'
  <2> SUFFICES ASSUME program = "wait_sequence" PROVE ChildPrints'
    BY DEF ChildPrints
  <2>1. c = Child /\ ~HasText(Main, "1")
    BY <1>2, <1>4 DEF LateWaits, Waiting, LateTexts
  <2>2. forked => HasText(Child, "2")'
    BY <1>7, <2>1 DEF ChildSound, HasText
  <2>3. not /\ ~forked => ~HasText(Main, "1")'
    BY <1>2, <1>3, <1>6, <1>9, <2>1, MainAndChild DEF AfterSound, HasText
  <2> QED
    BY <1>7, <2>1, <2>2, <2>3 DEF ChildPrints
<1>17. RepetitionsSound'
  <2> SUFFICES ASSUME program = "pid" PROVE RepetitionsSound'
    BY DEF RepetitionsSound
  <2>1. todo'[Main] = <<wait, wait, again>>
    BY <1>6, <1>11
  <2>2. ASSUME NEW r \in 1 .. REPETITIONS
        PROVE  /\ r < repetition => ChildGone(r)'
               /\ r > repetition => life'[<<1, r>>] = "none"
               /\ life'[<<1, r>>] = "running" => HasText(<<1, r>>, "E")' \/ Calls(todo'[<<1, r>>], "fork")
               /\ life'[<<1, r>>] \in {"ended", "waited"} => Written(<<1, r>>, "E")'
    <3>1. /\ r < repetition => ChildGone(r)
          /\ r > repetition => life[<<1, r>>] = "none"
          /\ life[<<1, r>>] = "running" => HasText(<<1, r>>, "E") \/ Calls(todo[<<1, r>>], "fork")
          /\ life[<<1, r>>] \in {"ended", "waited"} => Written(<<1, r>>, "E")
      BY DEF RepetitionsSound
    <3>2. <<1, r>> \in Process /\ <<1, r>> # Main /\ repetition \in Nat /\ r \in Nat
      <4>1. REPETITIONS \in Nat /\ <<1, r>> \in Process
        BY MainAndChild
      <4>2. <<1, r>> # Main
        BY DEF Main
      <4> QED
        BY <4>1, <4>2 DEF ForksTypeOK
    <3>3. CASE r = repetition
      BY <1>1, <1>7, <1>c, <3>1, <3>2, <3>3 DEF ChildSound
    <3>4. CASE r # repetition
      <4>1. <<1, r>> # c
        BY <3>4, <1>c
      <4>2. /\ life'[<<1, r>>] = life[<<1, r>>] /\ todo'[<<1, r>>] = todo[<<1, r>>]
            /\ HasText(<<1, r>>, "E")' <=> HasText(<<1, r>>, "E")
        BY <1>7, <1>9, <3>2, <4>1
      <4>3. ChildGone(r)' <=> ChildGone(r)
        BY <4>2 DEF ChildGone
      <4> QED
        BY <1>8, <3>1, <4>2, <4>3
    <3> QED
      BY <3>3, <3>4
  <2> QED
    BY <1>1, <2>1, <2>2 DEF RepetitionsSound, wait, again
<1>18. \A r \in Process : ~Prints(todo'[r], "head")
  <2>1. \A r \in Process \ {Main, c} : ~Prints(todo'[r], "head")
    BY <1>7 DEF HeadFirst
  <2> QED
    BY <1>6, <1>11, <1>12, <2>1
<1>19. HeadFirst'
  BY <1>1, <1>2, <1>8, <1>9, <1>18, MainAndChild DEF HeadFirst
<1>20. HeadKept'
  <2> SUFFICES ASSUME ~terminal, program \in Headed PROVE HeadKept'
    BY <1>1 DEF HeadKept
  <2>1. \A r \in Process : Kept(r)
    BY DEF HeadKept, Kept
  <2>2. ~HasText(Main, "ls") /\ Heads(Main) # {} /\ OnlyOne(Heads(Main))
    BY <1>1, <1>4, <2>1, MainAndChild DEF Kept, Running
  <2>3. \A r \in Process \ {c} : HasEnded(r)' <=> HasEnded(r)
    BY <1>1, <1>7, <1>8, MainAndChild DEF HasEnded, BecameLs, Running
  <2>4. \A r \in Process \ {Main, c} : Kept(r)'
    BY <1>7, <1>8, <1>9, <2>1, <2>3 DEF Kept
  <2>5. Kept(Main)'
    <3>1. ~HasText(Main, "ls")'
      BY <1>2, <1>6, <1>9, <1>11, <2>2, MainAndChild DEF HasText
    <3> QED
      BY <1>1, <1>2, <1>8, <1>9, <2>1, <2>2, <2>3, <3>1, MainAndChild DEF Kept
  <2>6. Kept(c)'
    <3>1. ~HasEnded(c)' /\ WrittenHeads(c)' = {}
      BY <1>2, <1>5, <1>7, <1>8, <2>1 DEF Kept, HasEnded
    <3>2. ~HasText(c, "ls")'
      BY <1>9, <1>12, <2>2 DEF HasText, Printed
    <3> QED
      BY <1>7, <1>9, <2>2, <3>1, <3>2 DEF Kept, OnlyOne
  <2> QED
    BY <2>4, <2>5, <2>6 DEF HeadKept, Kept
<1> QED
  BY <1>10, <1>13, <1>14, <1>15, <1>16, <1>17, <1>19, <1>20

\* The fork of the child of a repetition: its child is the grandchild of main.
LEMMA ChildForks ==
  ASSUME NEW q \in Process, q # Main, ForksInv, UNCHANGED program, Fork(q) PROVE ForksInv'
<1> USE DEF ForksInv
<1>c. PICK c : c = <<2, q[2]>>
  OBVIOUS
<1>a. PICK a : a = AfterFork(2)
  OBVIOUS
<1> DEFINE forked == /\ life' = [life EXCEPT ![c] = "running"]
                     /\ stdout' = [stdout EXCEPT ![c] = stdout[q]]
                     /\ todo' = [todo EXCEPT ![q] = a.parent, ![c] = a.child]
           not == todo' = [todo EXCEPT ![q] = a.failed] /\ UNCHANGED <<life, stdout>>
<1>1. /\ Running(q) /\ todo[q] # <<>> /\ Head(todo[q])[1] = "fork"
      /\ todo[q] \in Seq(Instruction)
      /\ UNCHANGED <<terminal, repetition, redirected, output>>
  BY DEF Fork, At, ForksTypeOK
<1>2. program = "pid" /\ q[1] = 1
  <2>1. Calls(todo[q], "fork")
    BY <1>1, TailEffect
  <2> QED
    BY <2>1 DEF CallsSound
<1>3. forked \/ not
  <2>1. q[1] + 1 = 2
    BY <1>2
  <2> QED
    BY <1>c, <1>a, <1>2, <2>1 DEF Fork, AfterFork
<1>4. /\ c \in Process /\ c # q /\ c # Main /\ c # Child
      /\ \A r \in 1 .. REPETITIONS : c # <<1, r>> /\ <<1, r>> # Main /\ <<1, r>> \in Process
  <2>1. q[2] \in 1 .. REPETITIONS /\ q = <<q[1], q[2]>>
    BY MainAndChild
  <2>2. c \in Process
    BY <1>c, <2>1, MainAndChild
  <2>3. \A r \in 1 .. REPETITIONS : <<1, r>> \in Process
    BY MainAndChild
  <2> QED
    BY <1>c, <1>2, <2>1, <2>2, <2>3 DEF Main, Child
<1>5. program \in DOMAIN Program /\ LastSound(a.parent) /\ LastSound(a.child) /\ LastSound(a.failed)
  <2>1. program \in DOMAIN Program
    BY <1>1 DEF LivesSound, Running
  <2> QED
    BY <1>a, <1>2, <2>1, ProgramSound
<1>6. /\ \A r \in Process \ {q, c} : todo'[r] = todo[r] /\ stdout'[r] = stdout[r] /\ life'[r] = life[r]
      /\ stdout'[q] = stdout[q] /\ life'[q] = "running" /\ LastSound(todo'[q])
      /\ \/ life'[c] = "running" /\ LastSound(todo'[c]) /\ stdout'[c] = stdout[q]
         \/ life'[c] = life[c] /\ todo'[c] = todo[c] /\ stdout'[c] = stdout[c]
      /\ todo' \in [Process -> Seq(Instruction)]
      /\ stdout' \in [Process -> Seq(Text)]
      /\ life' \in [Process -> {"none", "running", "ended", "waited"}]
  <2>1. a.parent \in Seq(Instruction) /\ a.child \in Seq(Instruction) /\ a.failed \in Seq(Instruction)
    BY <1>5 DEF LastSound
  <2>2. CASE forked
    BY <1>1, <1>4, <1>5, <2>1, <2>2 DEF ForksTypeOK, Running
  <2>3. CASE not
    BY <1>1, <1>4, <1>5, <2>1, <2>3 DEF ForksTypeOK, Running
  <2> QED
    BY <1>3, <2>2, <2>3
<1> HIDE DEF forked, not
<1>7. /\ \A r, x : Written(r, x)' <=> Written(r, x)
      /\ \A r : WrittenHeads(r)' = WrittenHeads(r)
  BY <1>1 DEF Written, WrittenHeads
<1>8. /\ \A r \in Process \ {c} : \A x : Printed(r, x)' <=> Printed(r, x)
      /\ \A r \in Process \ {q, c} : \A x : HasText(r, x)' <=> HasText(r, x)
      /\ \A x : Printed(c, x)' => Contains(stdout[q], x) \/ Printed(c, x)
      /\ \A r \in Process \ {c} : Heads(r)' = Heads(r)
      /\ Heads(c)' \in {Heads(c), Heads(q)}
  <2>1. \A r \in Process \ {c} : stdout'[r] = stdout[r]
    BY <1>6
  <2>2. Heads(c)' \in {Heads(c), Heads(q)}
    BY <1>6 DEF Heads
  <2>3. \A r \in Process \ {c} : Heads(r)' = Heads(r)
    BY <2>1 DEF Heads
  <2>4. \A r \in Process \ {c} : \A x : Printed(r, x)' <=> Printed(r, x)
    BY <1>7, <2>1 DEF Printed
  <2>5. \A r \in Process \ {q, c} : \A x : HasText(r, x)' <=> HasText(r, x)
    BY <1>6, <2>4 DEF HasText
  <2>6. \A x : Printed(c, x)' => Contains(stdout[q], x) \/ Printed(c, x)
    BY <1>6, <1>7 DEF Printed
  <2> QED
    BY <2>2, <2>3, <2>4, <2>5, <2>6
<1>9. ForksTypeOK'
  BY <1>1, <1>6 DEF ForksTypeOK
<1>10. CallsSound'
  <2>1. ASSUME NEW r \in Process
        PROVE  /\ \A call \in {"wait", "again", "dup2", "open"} : Calls(todo'[r], call) => r = Main
               /\ ~Calls(todo'[r], "execve") /\ ~Calls(todo'[r], "dup2")
               /\ Calls(todo'[r], "fork") => r = Main \/ r[1] = 1
    <3>1. CASE LastSound(todo'[r])
      BY <3>1 DEF LastSound
    <3>2. CASE todo'[r] = todo[r]
      BY <1>2, <3>2 DEF CallsSound
    <3> QED
      BY <1>6, <3>1, <3>2
  <2>2. todo'[Main] = todo[Main]
    BY <1>4, <1>6, MainAndChild
  <2>3. <<1, repetition>> # c /\ <<1, repetition>> \in Process
    BY <1>4 DEF ForksTypeOK
  <2>4. Calls(todo[Main], "fork") => life'[<<1, repetition>>] = "none"
    <3>1. Calls(todo[Main], "fork") => life[<<1, repetition>>] = "none"
      BY DEF CallsSound
    <3>2. life[<<1, repetition>>] = "none" => <<1, repetition>> # q
      BY <1>1 DEF Running
    <3> QED
      BY <1>6, <2>3, <3>1, <3>2
  <2> QED
    BY <1>1, <1>2, <2>1, <2>2, <2>4 DEF CallsSound, Headed
<1>11. LivesSound'
  <2>1. ASSUME NEW r \in Process, life'[r] = life[r], todo'[r] = todo[r], stdout'[r] = stdout[r]
        PROVE  /\ life'[r] # "running" => todo'[r] = <<>> /\ stdout'[r] = <<>>
               /\ life'[r] = "none" => \A i \in DOMAIN output : output[i][1] # r
    BY <2>1 DEF LivesSound
  <2>2. ASSUME NEW r \in Process
        PROVE  /\ life'[r] # "running" => todo'[r] = <<>> /\ stdout'[r] = <<>>
               /\ life'[r] = "none" => \A i \in DOMAIN output : output[i][1] # r
    BY <1>6, <2>1
  <2> QED
    BY <1>1, <1>2, <1>5, <2>2 DEF LivesSound
<1>12. LateWaits' /\ ChildPrints' /\ HeadKept'
  BY <1>2 DEF LateWaits, ChildPrints, HeadKept, Waiting, Headed
<1>13. RepetitionsSound'
  <2>1. ASSUME NEW r \in 1 .. REPETITIONS
        PROVE  /\ life'[<<1, r>>] = life[<<1, r>>] /\ (ChildGone(r)' <=> ChildGone(r))
               /\ life'[<<1, r>>] = "running" => HasText(<<1, r>>, "E")' \/ Calls(todo'[<<1, r>>], "fork")
    <3>1. <<1, r>> \in Process /\ <<1, r>> # c
      BY <1>4
    <3>2. life'[<<1, r>>] = life[<<1, r>>]
      BY <1>1, <1>6, <3>1 DEF Running
    <3>3. ChildGone(r)' <=> ChildGone(r)
      BY <3>2 DEF ChildGone
    <3>4. CASE <<1, r>> = q
      <4>1. Prints(todo'[q], "E")
        BY <1>6 DEF LastSound
      <4>2. HasText(q, "E")'
        BY <4>1 DEF HasText
      <4> QED
        BY <3>2, <3>3, <3>4, <4>2 DEF HasText, Printed, Written
    <3>5. CASE <<1, r>> # q
      <4>1. /\ todo'[<<1, r>>] = todo[<<1, r>>]
            /\ HasText(<<1, r>>, "E")' <=> HasText(<<1, r>>, "E")
        BY <1>6, <1>8, <3>1, <3>5
      <4> QED
        BY <1>2, <3>2, <3>3, <4>1 DEF RepetitionsSound
    <3> QED
      BY <3>4, <3>5
  <2>2. todo'[Main] = todo[Main]
    BY <1>4, <1>6, MainAndChild
  <2>3. repetition \in 1 .. REPETITIONS
    BY DEF ForksTypeOK
  <2> QED
    BY <1>1, <1>2, <1>7, <2>1, <2>2, <2>3 DEF RepetitionsSound
<1>14. HeadFirst'
  <2>1. ASSUME NEW r \in Process, Prints(todo'[r], "head")
        PROVE  /\ r = Main /\ Head(todo'[r]) = line("head") /\ ~Prints(Tail(todo'[r]), "head")
               /\ \A u \in Process : ~Printed(u, "head")'
    <3>1. todo'[r] = todo[r]
      <4>1. ~LastSound(todo'[r])
        BY <2>1 DEF LastSound
      <4> QED
        BY <1>6, <4>1
    <3>2. /\ r = Main /\ Head(todo'[r]) = line("head") /\ ~Prints(Tail(todo'[r]), "head")
          /\ \A u \in Process : ~Printed(u, "head")
      BY <2>1, <3>1 DEF HeadFirst
    <3>3. ~Contains(stdout[q], "head")
      BY <3>2 DEF Printed
    <3> QED
      BY <1>8, <3>2, <3>3
  <2>2. terminal' => \A r \in Process : Heads(r)' = {}
    BY <1>1, <1>8 DEF HeadFirst
  <2> QED
    BY <1>1, <1>7, <2>1, <2>2 DEF HeadFirst
<1> QED
  BY <1>9, <1>10, <1>11, <1>12, <1>13, <1>14

----------------------------------------------------------------------------
(* The invariant, and what follows from it.                                *)

\* The first state, whichever program runs.
LEMMA ForksStart == program \in {"spawn", "pipe"} \cup DOMAIN Program /\ ForksInit => ForksInv
<1> SUFFICES ASSUME program \in {"spawn", "pipe"} \cup DOMAIN Program, ForksInit PROVE ForksInv
  OBVIOUS
<1>1. /\ terminal \in BOOLEAN /\ (program \notin DOMAIN Program => terminal)
      /\ repetition = 1 /\ redirected = {} /\ output = <<>>
      /\ \A q \in Process : stdout[q] = <<>>
      /\ stdout \in [Process -> Seq(Text)]
  BY EmptyEffect DEF ForksInit
<1>2. /\ \A q \in Process \ {Main} : todo[q] = <<>> /\ life[q] = "none"
      /\ program \in DOMAIN Program => todo[Main] = StartOf /\ life[Main] = "running"
      /\ program \notin DOMAIN Program => todo[Main] = <<>> /\ life[Main] = "none"
  BY MainAndChild DEF ForksInit, StartOf
<1>3. program \in DOMAIN Program => StartSound(StartOf)
  BY ProgramSound
<1>4. /\ \A q, x : ~Written(q, x)
      /\ \A q : WrittenHeads(q) = {}
      /\ \A x, y : Before(x, y)
      /\ DOMAIN output = {}
  <2>1. DOMAIN output = {}
    BY <1>1
  <2> QED
    BY <1>1, <2>1, EmptyEffect DEF Written, WrittenHeads, Before
<1>5. /\ \A q \in Process : \A x : ~Printed(q, x) /\ (HasText(q, x) <=> Prints(todo[q], x))
      /\ \A q \in Process : Heads(q) = {}
  BY <1>1, <1>4, EmptyEffect DEF Printed, HasText, Heads
<1>6. /\ todo[Main] \in Seq(Instruction)
      /\ \A q \in Process \ {Main} : /\ \A call : ~Calls(todo[q], call)
                                     /\ \A x : ~Prints(todo[q], x)
      /\ program \notin DOMAIN Program => /\ \A call : ~Calls(todo[Main], call)
                                          /\ \A x : ~Prints(todo[Main], x)
  BY <1>2, <1>3, EmptyEffect DEF StartSound
<1>7. Headed \cup Waiting \cup {"pid"} \subseteq DOMAIN Program
  BY DEF Headed, Waiting, Program
<1>8. 1 \in 1 .. REPETITIONS /\ REPETITIONS \in Nat /\ Main \in Process /\ Child \in Process /\ Main # Child
      /\ \A r \in 1 .. REPETITIONS : <<1, r>> \in Process /\ <<1, r>> # Main
  BY MainAndChild DEF Main
<1>9. ForksTypeOK
  <2>1. /\ todo = [q \in Process |-> IF q = Main /\ program \in DOMAIN Program THEN StartOf ELSE <<>>]
        /\ life = [q \in Process |-> IF q = Main /\ program \in DOMAIN Program THEN "running" ELSE "none"]
    BY DEF ForksInit, StartOf
  <2>2. todo \in [Process -> Seq(Instruction)]
    BY <1>3, <2>1, EmptyEffect DEF StartSound
  <2>3. life \in [Process -> {"none", "running", "ended", "waited"}]
    BY <2>1
  <2>4. output \in Seq(Process \X Text)
    BY <1>1
  <2> QED
    BY <1>1, <1>8, <2>2, <2>3, <2>4 DEF ForksTypeOK
<1>10. CallsSound
  <2>1. ASSUME NEW q \in Process
        PROVE  /\ \A call \in {"wait", "again", "dup2", "open"} : Calls(todo[q], call) => q = Main
               /\ ~Calls(todo[q], "execve") /\ ~Calls(todo[q], "again") /\ ~Calls(todo[q], "dup2")
               /\ Calls(todo[q], "fork") => q = Main
               /\ program \in Headed => /\ ~Calls(todo[q], "fflush") /\ ~Calls(todo[q], "show")
                                        /\ ~Prints(todo[q], "ls")
    BY <1>2, <1>3, <1>6, <1>7 DEF StartSound
  <2> QED
    BY <1>1, <1>2, <1>8, <2>1 DEF CallsSound
<1>11. LivesSound
  BY <1>1, <1>2, <1>4 DEF LivesSound
<1>12. LateWaits
  <2> SUFFICES ASSUME program \in Waiting PROVE LateWaits
    BY DEF LateWaits
  <2>1. \A q \in Process : ~HasText(q, EarlyText) /\ \A x \in LateTexts : ~HasText(q, x)
    BY <1>2, <1>3, <1>5, <1>6, <1>7 DEF StartSound
  <2> QED
    BY <1>2, <1>4, <1>8, <2>1 DEF LateWaits
<1>13. ChildPrints
  <2> SUFFICES ASSUME program = "wait_sequence" PROVE ChildPrints
    BY DEF ChildPrints
  <2>1. ~HasText(Main, "1")
    BY <1>2, <1>3, <1>5, <1>7, <1>8 DEF StartSound, Waiting, LateTexts
  <2> QED
    BY <1>2, <1>8, <2>1 DEF ChildPrints
<1>14. RepetitionsSound
  <2> SUFFICES ASSUME program = "pid" PROVE RepetitionsSound
    BY DEF RepetitionsSound
  <2>1. todo[Main] = <<fork>>
    BY <1>2, <1>3, <1>7 DEF StartSound
  <2>2. \A r \in 1 .. REPETITIONS : life[<<1, r>>] = "none"
    BY <1>2, <1>8
  <2> QED
    BY <1>1, <1>8, <2>1, <2>2 DEF RepetitionsSound, ChildGone
<1>15. HeadFirst
  <2>1. ASSUME NEW q \in Process, Prints(todo[q], "head")
        PROVE  q = Main /\ Head(todo[q]) = line("head") /\ ~Prints(Tail(todo[q]), "head")
    BY <1>2, <1>3, <1>6, <2>1 DEF StartSound
  <2> QED
    BY <1>4, <1>5, <2>1 DEF HeadFirst, OnlyOne
<1>16. HeadKept
  <2> SUFFICES ASSUME program \in Headed PROVE HeadKept
    BY DEF HeadKept
  <2>1. Prints(todo[Main], "head") /\ ~HasText(Main, "ls")
    BY <1>2, <1>3, <1>5, <1>7, <1>8 DEF StartSound
  <2>2. \A q \in Process : ~HasEnded(q) /\ (life[q] = "running" => q = Main)
    BY <1>2, <1>7 DEF HasEnded
  <2> QED
    BY <1>4, <1>5, <2>1, <2>2 DEF HeadKept, OnlyOne
<1> QED
  BY <1>9, <1>10, <1>11, <1>12, <1>13, <1>14, <1>15, <1>16 DEF ForksInv

LEMMA ForksStep == ForksInv /\ ForksNext /\ UNCHANGED program => ForksInv'
<1> SUFFICES ASSUME ForksInv, UNCHANGED program,
                    NEW q \in Process,
                    \/ printf(q) \/ Flush(q) \/ Open(q) \/ Fork(q) \/ WaitAny(q)
                    \/ Execve(q) \/ Dup2(q) \/ Again(q) \/ ProcessExit(q)
             PROVE  ForksInv'
  BY DEF ForksNext
<1>1. Small(q) \/ Restarts(q) \/ Becomes(q) \/ Fork(q)
  BY StepsAre DEF ForksInv
<1>2. CASE Small(q)
  BY <1>2, SmallKeeps
<1>3. CASE Restarts(q)
  BY <1>3, RestartsKeeps
<1>4. CASE Becomes(q)
  BY <1>4, BecomesKeeps
<1>5. CASE Fork(q)
  BY <1>5, MainForks, ChildForks
<1> QED
  BY <1>1, <1>2, <1>3, <1>4, <1>5

\* Steps of the other programs change nothing of this.
LEMMA ForksUntouched == ForksInv /\ UNCHANGED <<program, forkVars>> => ForksInv'
<1> SUFFICES ASSUME ForksInv, UNCHANGED <<program, forkVars>> PROVE ForksInv'
  OBVIOUS
<1> USE DEF ForksInv
<1>1. UNCHANGED <<program, terminal, repetition, todo, life, stdout, redirected, output>>
  BY DEF forkVars
<1>2. /\ \A q, x : (Written(q, x)' <=> Written(q, x)) /\ (Printed(q, x)' <=> Printed(q, x))
      /\ \A q, x : HasText(q, x)' <=> HasText(q, x)
      /\ \A x, y : Before(x, y)' <=> Before(x, y)
  BY <1>1 DEF Written, Printed, HasText, Before
<1>3. EarlyText' = EarlyText /\ LateTexts' = LateTexts
  BY <1>1 DEF EarlyText, LateTexts
<1>4. \A s : Guarded(s)' <=> Guarded(s)
  BY <1>3 DEF Guarded
<1>5. ForksTypeOK' /\ CallsSound' /\ LivesSound'
  BY <1>1 DEF ForksTypeOK, CallsSound, LivesSound
<1>6. LateWaits'
  <2>1. /\ \A q : HasText(q, EarlyText)' <=> HasText(q, EarlyText)
        /\ \A x : Before(EarlyText, x)' <=> Before(EarlyText, x)
    BY <1>1, <1>3 DEF HasText, Printed, Written, Before
  <2> QED
    BY <1>1, <1>2, <1>3, <1>4, <2>1 DEF LateWaits
<1>7. ChildPrints'
  BY <1>1, <1>2 DEF ChildPrints
<1>8. RepetitionsSound'
  <2>1. \A r : ChildGone(r)' <=> ChildGone(r)
    BY <1>1 DEF ChildGone
  <2>2. ChildGone(repetition)' <=> ChildGone(repetition)
    BY <1>1 DEF ChildGone
  <2> QED
    BY <1>1, <1>2, <2>1, <2>2 DEF RepetitionsSound
<1>9. HeadFirst'
  BY <1>1, <1>2 DEF HeadFirst, Heads, WrittenHeads
<1>10. HeadKept'
  BY <1>1, <1>2 DEF HeadKept, Heads, WrittenHeads, HasEnded, BecameLs
<1> QED
  BY <1>5, <1>6, <1>7, <1>8, <1>9, <1>10

\* In whichever exercise, whichever calls fail and in whichever order the processes run:
\* who calls what, who has which text, what a wait has behind it and where the first line
\* is (ForksInv).
THEOREM ForksInvariant == ProcessesSpec => []ForksInv
<1>1. ProcessesInit => ForksInv
  BY ForksStart DEF ProcessesInit
<1>2. ForksInv /\ [ProcessesNext]_processVars => ForksInv'
  <2> SUFFICES ASSUME ForksInv, [ProcessesNext]_processVars PROVE ForksInv'
    OBVIOUS
  <2>1. CASE Exercise
    BY <2>1, ForksStep DEF Exercise
  <2>2. CASE UNCHANGED <<program, forkVars>>
    BY <2>2, ForksUntouched
  <2>3. Exercise \/ UNCHANGED <<program, forkVars>>
    BY DEF ProcessesNext, main, Others, Pipe, Ended, processVars
  <2> QED
    BY <2>1, <2>2, <2>3
<1> QED
  BY <1>1, <1>2, PTL DEF ProcessesSpec

\* What was late was guarded by a wait, and the wait found the child ended.
LEMMA WaitsOrder == ForksInv => WaitOrdersOutput
<1> SUFFICES ASSUME ForksInv PROVE WaitOrdersOutput
  OBVIOUS
<1> USE DEF ForksInv
<1>1. ASSUME program = "wait_sequence"
      PROVE  Before("2", "1") /\ (Written(Main, "1") => Written(<<1, 1>>, "2"))
  <2>1. EarlyText = "2" /\ LateTexts = {"1"} /\ program \in Waiting
    BY <1>1 DEF EarlyText, LateTexts, Waiting
  <2>2. ASSUME Written(Main, "1") PROVE Written(Child, "2")
    <3>1. Printed(Main, "1") /\ HasText(Main, "1")
      BY <2>2 DEF Printed, HasText
    <3>2. life[Child] # "none" /\ life[Child] # "running"
      BY <1>1, <2>1, <3>1 DEF ChildPrints, LateWaits
    <3>3. life[Child] \in {"none", "running", "ended", "waited"}
      BY MainAndChild DEF ForksTypeOK
    <3> QED
      BY <1>1, <3>2, <3>3 DEF ChildPrints
  <2> QED
    BY <2>1, <2>2 DEF LateWaits, Child
<1>2. ASSUME program \in {"execve", "dup"} PROVE Before("ls", "x") /\ Before("ls", "waited")
  BY <1>2 DEF LateWaits, EarlyText, LateTexts, Waiting
<1>3. ASSUME NEW r \in 1 .. repetition - 1, life[<<1, r>>] # "none" PROVE Written(<<1, r>>, "E")
  <2>1. repetition \in 1 .. REPETITIONS /\ REPETITIONS \in Nat
    BY MainAndChild DEF ForksTypeOK
  <2>2. r \in 1 .. REPETITIONS /\ r < repetition /\ program = "pid"
    BY <2>1 DEF CallsSound
  <2> QED
    BY <1>3, <2>2 DEF RepetitionsSound, ChildGone
<1> QED
  BY <1>1, <1>2, <1>3 DEF WaitOrdersOutput

\* Each first line in the output is of one process.
LEMMA HeadIsOf ==
  ASSUME ForksInv
  PROVE  /\ IsFiniteSet({i \in DOMAIN output : output[i][2] = "head"})
         /\ \A i \in DOMAIN output :
              output[i][2] = "head" => output[i][1] \in Process /\ i \in WrittenHeads(output[i][1])
<1>1. output \in Seq(Process \X Text) /\ Len(output) \in Nat /\ DOMAIN output = 1 .. Len(output)
  BY DEF ForksInv, ForksTypeOK
<1>2. IsFiniteSet(1 .. Len(output))
  BY <1>1, FS_Interval
<1>3. IsFiniteSet({i \in DOMAIN output : output[i][2] = "head"})
  BY <1>1, <1>2, FS_Subset
<1>4. \A i \in DOMAIN output : output[i] = <<output[i][1], output[i][2]>> /\ output[i][1] \in Process
  BY <1>1
<1> QED
  BY <1>3, <1>4 DEF WrittenHeads

\* The processes that wrote it are those that ended with it: one line each.
LEMMA HeadsCounted == ForksInv => HeadIsCopied
<1> SUFFICES ASSUME ForksInv PROVE HeadIsCopied
  OBVIOUS
<1> USE DEF ForksInv
<1> DEFINE S == {i \in DOMAIN output : output[i][2] = "head"}
           ended == {q \in Process : life[q] \in {"ended", "waited"}}
           D == {q \in ended \ redirected : ~BecameLs(q)}
<1>1. IsFiniteSet(S) /\ \A i \in S : output[i][1] \in Process /\ i \in WrittenHeads(output[i][1])
  BY HeadIsOf
<1>2. Copies("head") = Cardinality(S)
  BY DEF Copies
<1>3. ASSUME terminal PROVE Cardinality(S) <= 1
  <2>1. \A i \in S : i \in WrittenHeads(Main)
    BY <1>1, <1>3 DEF HeadFirst
  <2>2. \A i, j \in S : i = j
    BY <1>3, <2>1, MainAndChild DEF HeadFirst, OnlyOne
  <2> HIDE DEF S
  <2>3. CASE S = {}
    BY <2>3, FS_EmptySet
  <2>4. CASE S # {}
    <3>1. PICK i \in S : TRUE
      BY <2>4
    <3>2. S = {i}
      BY <2>2, <3>1
    <3> QED
      BY <3>2, FS_Singleton
  <2> QED
    BY <2>3, <2>4
<1>4. ASSUME ~terminal, program \in {"syntax", "variables", "execve", "dup"}
      PROVE  Cardinality(S) = Cardinality(D)
  <2>1. \A q \in Process : OnlyOne(WrittenHeads(q)) /\ (WrittenHeads(q) # {} <=> HasEnded(q))
    BY <1>4 DEF HeadKept, Headed
  <2>2. \A q : q \in D <=> q \in Process /\ HasEnded(q)
    BY DEF HasEnded
  <2>3. \A q : WrittenHeads(q) \subseteq S /\ \A i \in WrittenHeads(q) : output[i][1] = q
    BY DEF WrittenHeads
  <2> HIDE DEF S, D
  <2> DEFINE f == [i \in S |-> output[i][1]]
  <2>4. f \in [S -> D]
    BY <1>1, <2>1, <2>2
  <2>5. \A i, j \in S : f[i] = f[j] => i = j
    BY <1>1, <2>1 DEF OnlyOne
  <2>6. \A q \in D : \E i \in S : f[i] = q
    BY <2>1, <2>2, <2>3
  <2>7. f \in Bijection(S, D)
    <3> HIDE DEF f
    <3>1. f \in Injection(S, D)
      BY <2>4, <2>5 DEF Injection, IsInjective
    <3>2. f \in Surjection(S, D)
      BY <2>4, <2>6 DEF Surjection
    <3> QED
      BY <3>1, <3>2 DEF Bijection
  <2>8. ExistsBijection(S, D)
    BY <2>7 DEF ExistsBijection
  <2> QED
    BY <1>1, <2>8, FS_Bijection
<1> QED
  BY <1>2, <1>3, <1>4 DEF HeadIsCopied

\* A wait puts what the child writes before what its parent writes after it, and what
\* was printed before a fork is written once to a terminal, or by each process that ends
\* without having become another program (OutputIsOrderly).
THEOREM OutputOrderly == ProcessesSpec => []OutputIsOrderly
<1>1. ForksInv => OutputIsOrderly
  BY WaitsOrder, HeadsCounted DEF OutputIsOrderly
<1> QED
  BY <1>1, ForksInvariant, PTL
=============================================================================
