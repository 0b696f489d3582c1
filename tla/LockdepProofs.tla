--------------------------- MODULE LockdepProofs ---------------------------
(***************************************************************************)
(* Proofs about modules Lockdep, LockdepRefinement, LockdepDfs and         *)
(* LockdepLists.  The inductive invariant is IInv of Lockdep; it is        *)
(* established part by part, in the order in which the parts rest on one   *)
(* another.  The refinement follows from it.  Then comes the search, and   *)
(* at last the lists, with the invariant ListsInv.                         *)
(***************************************************************************)
EXTENDS LockdepRefinement, LockdepDfs, LockdepLists, LockGraphProofs,
        FiniteSetTheorems, SequenceTheorems

\* The types, the counts of the real mutexes and the calls in progress hold
\* together: an unlock needs its caller to own the mutex to keep depth a count.
Base == TypeOK /\ MutexesSound /\ CallsSound

LEMMA InitBase == Init => Base
  BY LockdepAssumption
  DEF Init, Base, TypeOK, MutexesSound, CallsSound, HeldLock

LEMMA AcquireType ==
  ASSUME TypeOK, NEW t \in Thread, NEW l \in Lock, lockdep_acquire_lock(t, l)
  PROVE  /\ held' \in [Thread -> SUBSET HeldLock]
         /\ edges' \subseteq Lock \X Lock
         /\ current_held_lock' \in [Lock -> Thread \cup {None}]
         /\ warned' \in [Thread -> BOOLEAN]
<1>1. held' \in [Thread -> SUBSET HeldLock]
  BY DEF TypeOK, lockdep_acquire_lock, HeldLock
<1>2. edges' \subseteq Lock \X Lock
  BY DEF TypeOK, lockdep_acquire_lock, add_dependency_to_graph, Newest, HeldLock
<1>3. warned' \in [Thread -> BOOLEAN]
  <2>1. has_cycle(edges', l) \in BOOLEAN
    BY DEF has_cycle
  <2> QED BY <2>1 DEF TypeOK, lockdep_acquire_lock
<1> QED BY <1>1, <1>2, <1>3 DEF TypeOK, lockdep_acquire_lock

LEMMA BaseStep == Base /\ [Next]_vars => Base'
<1> SUFFICES ASSUME Base, [Next]_vars PROVE Base'
  OBVIOUS
<1> USE LockdepAssumption DEF Base
<1>1. ASSUME NEW t \in Thread, NEW l \in Lock, pthread_mutex_lock(t, l)
      PROVE  Base'
  <2>1. /\ held' \in [Thread -> SUBSET HeldLock]
        /\ edges' \subseteq Lock \X Lock
        /\ current_held_lock' \in [Lock -> Thread \cup {None}]
        /\ warned' \in [Thread -> BOOLEAN]
    BY <1>1, AcquireType DEF pthread_mutex_lock
  <2>2. TypeOK'
    BY <1>1, <2>1 DEF pthread_mutex_lock, Call, TypeOK
  <2>3. MutexesSound'
    BY <1>1 DEF pthread_mutex_lock, MutexesSound
  <2>4. CallsSound'
    BY <1>1 DEF pthread_mutex_lock, MayAsk, Call, CallsSound, TypeOK,
                lockdep_acquire_lock
  <2> QED BY <2>2, <2>3, <2>4
<1>2. ASSUME NEW t \in Thread, Locked(t) PROVE Base'
  <2> USE DEF Locked, real_pthread_mutex_lock, Return, Call
  <2>1. op[t] \in Lock
    BY <1>2 DEF CallsSound
  <2>2. TypeOK'
    BY <1>2, <2>1 DEF TypeOK
  <2>3. MutexesSound'
    BY <1>2, <2>1 DEF MutexesSound, Available, TypeOK
  <2>4. CallsSound'
    BY <1>2, <2>1 DEF CallsSound, TypeOK, Available
  <2> QED BY <2>2, <2>3, <2>4
<1>3. ASSUME NEW t \in Thread, NEW l \in Lock, pthread_mutex_trylock(t, l)
      PROVE  Base'
  <2> USE DEF pthread_mutex_trylock, real_pthread_mutex_lock, MayAsk, Call
  <2>1. TypeOK'
    BY <1>3 DEF TypeOK
  <2>2. MutexesSound'
    BY <1>3 DEF MutexesSound, Available, TypeOK
  <2>3. CallsSound'
    BY <1>3 DEF CallsSound, TypeOK, Available
  <2> QED BY <2>1, <2>2, <2>3
<1>4. ASSUME NEW t \in Thread, TryRecorded(t) PROVE Base'
  <2>1. op[t] \in Lock
    BY <1>4 DEF CallsSound, TryRecorded
  <2>2. /\ held' \in [Thread -> SUBSET HeldLock]
        /\ edges' \subseteq Lock \X Lock
        /\ current_held_lock' \in [Lock -> Thread \cup {None}]
        /\ warned' \in [Thread -> BOOLEAN]
    BY <1>4, <2>1, AcquireType DEF TryRecorded
  <2>3. TypeOK'
    BY <1>4, <2>1, <2>2 DEF TryRecorded, Call, Return, TypeOK
  <2>4. MutexesSound'
    BY <1>4 DEF TryRecorded, MutexesSound
  <2>5. CallsSound'
    BY <1>4, <2>1 DEF TryRecorded, Call, Return, CallsSound, TypeOK,
                      lockdep_acquire_lock
  <2> QED BY <2>3, <2>4, <2>5
<1>5. ASSUME NEW t \in Thread, TryRefused(t) PROVE Base'
  <2> USE DEF TryRefused, real_pthread_mutex_unlock, Return, Call
  <2>1. op[t] \in Lock /\ owner[op[t]] = t
    BY <1>5 DEF CallsSound
  <2>2. TypeOK'
    BY <1>5, <2>1 DEF TypeOK, MutexesSound
  <2>3. MutexesSound'
    BY <1>5, <2>1 DEF MutexesSound, TypeOK
  <2>4. CallsSound'
    BY <1>5, <2>1 DEF CallsSound, TypeOK
  <2> QED BY <2>2, <2>3, <2>4
<1>6. ASSUME NEW t \in Thread, NEW l \in Lock, pthread_mutex_unlock(t, l)
      PROVE  Base'
  <2> USE DEF pthread_mutex_unlock, real_pthread_mutex_unlock, Call
  <2>1. TypeOK'
    BY <1>6 DEF TypeOK, MutexesSound
  <2>2. MutexesSound'
    BY <1>6 DEF MutexesSound, TypeOK
  <2>3. CallsSound'
    BY <1>6 DEF CallsSound, TypeOK, MutexesSound
  <2> QED BY <2>1, <2>2, <2>3
<1>7. ASSUME NEW t \in Thread, Unlocked(t) PROVE Base'
  <2> USE DEF Unlocked, lockdep_release_lock, Return, Call
  <2>1. op[t] \in Lock
    BY <1>7 DEF CallsSound
  <2>2. TypeOK'
    BY <1>7, <2>1 DEF TypeOK
  <2>3. MutexesSound'
    BY <1>7 DEF MutexesSound
  <2>4. CallsSound'
    BY <1>7 DEF CallsSound, TypeOK
  <2> QED BY <2>2, <2>3, <2>4
<1>8. CASE UNCHANGED vars
  BY <1>8 DEF vars, TypeOK, MutexesSound, CallsSound
<1> QED
  BY <1>1, <1>2, <1>3, <1>4, <1>5, <1>6, <1>7, <1>8 DEF Next

\* The state of the detector and of the mutexes keeps its types (TypeOK).
THEOREM TypeCorrect == Spec => []TypeOK
<1>1. Spec => []Base
  BY InitBase, BaseStep, PTL DEF Spec
<1> QED BY <1>1, PTL DEF Base

----------------------------------------------------------------------------
(* The head of a stack.                                                    *)

\* A non-empty stack has a head.
LEMMA NewestExists ==
  ASSUME NEW H \in SUBSET HeldLock, H # {}
  PROVE  Newest(H) # {}
<1> USE LockdepAssumption
<1> DEFINE S == {MaxHeld - r.at : r \in H}
<1>1. S \in SUBSET Nat /\ S # {}
  BY DEF HeldLock, Stamp
<1>2. PICK x \in S : \A y \in S : x <= y
  BY <1>1, NatHasLeast
<1>3. PICK r \in H : x = MaxHeld - r.at
  OBVIOUS
<1>4. ASSUME NEW q \in H PROVE q.at <= r.at
  <2>1. x <= MaxHeld - q.at
    BY <1>2
  <2> QED BY <1>3, <2>1 DEF HeldLock, Stamp
<1> QED BY <1>4 DEF Newest

----------------------------------------------------------------------------
(* The stacks and the graph.                                               *)

\* An acquisition keeps the stack's order within the graph: the new record is
\* the latest, and the edge from the old head prolongs the paths to the head.
LEMMA AcquireKeepsOrder ==
  ASSUME TypeOK, OlderReachesNewer,
         NEW t \in Thread, NEW l \in Lock, lockdep_acquire_lock(t, l)
  PROVE  OlderReachesNewer'
<1>1. PICK n \in Stamp :
        /\ \A r \in held[t] : r.at < n
        /\ held' = [held EXCEPT ![t] = @ \cup {[lock |-> l, at |-> n]}]
  BY DEF lockdep_acquire_lock, NextStamp
<1>2. edges' = edges \cup {<<r.lock, l>> : r \in Newest(held[t])}
  BY DEF lockdep_acquire_lock, add_dependency_to_graph
<1>3. edges \subseteq edges'
  BY <1>2
<1>4. held[t] \in SUBSET HeldLock
  BY DEF TypeOK
<1>5. ASSUME NEW r \in held[t]
      PROVE  Reaches(edges', r.lock, l)
  <2>1. PICK p \in Newest(held[t]) : TRUE
    BY <1>4, NewestExists
  <2>2. p \in held[t] /\ r.at <= p.at /\ <<p.lock, l>> \in edges'
    BY <1>2, <2>1 DEF Newest
  <2>3. r.lock \in Lock /\ p.lock \in Lock
    BY <1>4, <2>2 DEF HeldLock
  <2>4. CASE r.at < p.at
    <3>1. Reaches(edges, r.lock, p.lock)
      BY <2>2, <2>4 DEF OlderReachesNewer
    <3>2. Reaches(edges', r.lock, p.lock)
      BY <1>3, <3>1, ReachesGrows
    <3> QED BY <2>2, <2>3, <3>2, ReachesThenEdge
  <2>5. CASE ~(r.at < p.at)
    <3>1. \A q \in held[t] : q.at \in Int
      BY <1>4 DEF HeldLock, Stamp
    <3>2. r.at = p.at
      BY <2>2, <2>5, <3>1
    <3>3. r \in Newest(held[t])
      BY <2>1, <3>2 DEF Newest
    <3> QED BY <1>2, <2>3, <3>3, EdgeReaches
  <2> QED BY <2>4, <2>5
<1>6. ASSUME NEW u \in Thread, NEW r \in held'[u], NEW s \in held'[u], r.at < s.at
      PROVE  Reaches(edges', r.lock, s.lock)
  <2>1. CASE r \in held[u] /\ s \in held[u]
    <3>1. Reaches(edges, r.lock, s.lock)
      BY <1>6, <2>1 DEF OlderReachesNewer
    <3> QED BY <1>3, <3>1, ReachesGrows
  <2>2. CASE r \in held[u] /\ s \notin held[u]
    <3>1. u = t /\ s.lock = l
      BY <1>1, <2>2 DEF TypeOK
    <3> QED BY <1>5, <2>2, <3>1
  <2>3. CASE r \notin held[u]
    <3>1. u = t /\ r.at = n
      BY <1>1, <2>3 DEF TypeOK
    <3>2. s \in held[t] \/ s.at = n
      BY <1>1, <3>1 DEF TypeOK
    <3>3. n \in Int /\ (s \in held[t] => s.at \in Int /\ s.at < n)
      BY <1>1, <1>4 DEF HeldLock, Stamp
    <3> QED BY <1>6, <3>1, <3>2, <3>3
  <2> QED BY <2>1, <2>2, <2>3
<1> QED BY <1>6 DEF OlderReachesNewer

\* Records that disappear leave the order of the others as it was.
LEMMA ReleaseKeepsOrder ==
  ASSUME TypeOK, OlderReachesNewer, NEW t \in Thread, NEW l,
         lockdep_release_lock(t, l)
  PROVE  OlderReachesNewer'
<1>1. edges' = edges /\ \A u \in Thread : held'[u] \subseteq held[u]
  BY DEF lockdep_release_lock, TypeOK
<1> QED BY <1>1 DEF OlderReachesNewer

LEMMA OrderStep == Base /\ OlderReachesNewer /\ [Next]_vars => OlderReachesNewer'
<1> SUFFICES ASSUME Base, OlderReachesNewer, [Next]_vars PROVE OlderReachesNewer'
  OBVIOUS
<1>1. ASSUME NEW t \in Thread, NEW l \in Lock, lockdep_acquire_lock(t, l)
      PROVE  OlderReachesNewer'
  BY <1>1, AcquireKeepsOrder DEF Base
<1>2. CASE UNCHANGED <<held, edges>>
  BY <1>2 DEF OlderReachesNewer, Reaches
<1>3. ASSUME NEW t \in Thread, TryRecorded(t) PROVE OlderReachesNewer'
  <2>1. op[t] \in Lock
    BY <1>3 DEF Base, CallsSound, TryRecorded
  <2> QED BY <1>1, <1>3, <2>1 DEF TryRecorded
<1>4. ASSUME NEW t \in Thread, Unlocked(t) PROVE OlderReachesNewer'
  BY <1>4, ReleaseKeepsOrder DEF Base, Unlocked
<1> QED
  BY <1>1, <1>2, <1>3, <1>4
  DEF Next, vars, pthread_mutex_lock, Locked, pthread_mutex_trylock,
      TryRefused, pthread_mutex_unlock

\* A lock still held leads, in the graph, to every lock taken after it.
THEOREM GraphRemembersNesting == Spec => []OlderReachesNewer
<1>1. Init => OlderReachesNewer
  BY DEF Init, OlderReachesNewer
<1>2. Spec => []Base
  BY InitBase, BaseStep, PTL DEF Spec
<1> QED BY <1>1, <1>2, OrderStep, PTL DEF Spec

----------------------------------------------------------------------------
(* What the stacks say of the mutexes.                                     *)

\* What an acquisition does to the stacks, in the terms used below.
LEMMA AcquirePushes ==
  ASSUME TypeOK, NEW t \in Thread, NEW l \in Lock, lockdep_acquire_lock(t, l)
  PROVE  \E new \in HeldLock :
           /\ new.lock = l
           /\ \A r \in held[t] : r.at < new.at
           /\ held'[t] = held[t] \cup {new}
           /\ \A u \in Thread \ {t} : held'[u] = held[u]
<1>1. PICK n \in Stamp :
        /\ \A r \in held[t] : r.at < n
        /\ held' = [held EXCEPT ![t] = @ \cup {[lock |-> l, at |-> n]}]
  BY DEF lockdep_acquire_lock, NextStamp
<1>2. [lock |-> l, at |-> n] \in HeldLock
  BY DEF HeldLock
<1> QED BY <1>1, <1>2 DEF TypeOK

LEMMA RequestStep == Base /\ RequestOnTop /\ [Next]_vars => RequestOnTop'
<1> SUFFICES ASSUME Base, RequestOnTop, [Next]_vars,
                    NEW u \in Thread, pc'[u] = "locking"
             PROVE  \E r \in held'[u] :
                      r.lock = op'[u] /\ \A q \in held'[u] \ {r} : q.at < r.at
  BY DEF RequestOnTop
<1> USE DEF Base
<1>1. ASSUME NEW t \in Thread, NEW l \in Lock, pthread_mutex_lock(t, l), u = t
      PROVE  \E r \in held'[u] :
               r.lock = op'[u] /\ \A q \in held'[u] \ {r} : q.at < r.at
  <2>1. lockdep_acquire_lock(t, l) /\ op'[u] = l
    BY <1>1 DEF pthread_mutex_lock, Call, TypeOK
  <2> QED BY <1>1, <2>1, AcquirePushes
<1>2. CASE pc[u] = "locking" /\ op'[u] = op[u] /\ held'[u] = held[u]
  BY <1>2 DEF RequestOnTop
<1>3. ASSUME NEW t \in Thread, NEW l \in Lock, t # u,
             \/ pthread_mutex_lock(t, l)
             \/ pthread_mutex_trylock(t, l)
             \/ pthread_mutex_unlock(t, l)
      PROVE  pc[u] = "locking" /\ op'[u] = op[u] /\ held'[u] = held[u]
  BY <1>3 DEF pthread_mutex_lock, pthread_mutex_trylock, pthread_mutex_unlock,
              lockdep_acquire_lock, Call, TypeOK
<1>4. ASSUME NEW t \in Thread,
             Locked(t) \/ TryRecorded(t) \/ TryRefused(t) \/ Unlocked(t)
      PROVE  pc[u] = "locking" /\ op'[u] = op[u] /\ held'[u] = held[u]
  BY <1>4 DEF Locked, TryRecorded, TryRefused, Unlocked, Return, Call, TypeOK,
              lockdep_acquire_lock, lockdep_release_lock
<1>5. ASSUME NEW l \in Lock,
             pthread_mutex_trylock(u, l) \/ pthread_mutex_unlock(u, l)
      PROVE  FALSE
  BY <1>5 DEF pthread_mutex_trylock, pthread_mutex_unlock, Call, TypeOK
<1>6. CASE UNCHANGED vars
  BY <1>2, <1>6 DEF vars
<1> QED
  BY <1>1, <1>2, <1>3, <1>4, <1>5, <1>6 DEF Next

LEMMA EdgesGrow == Base /\ [Next]_vars => edges \subseteq edges'
  BY DEF Next, vars, pthread_mutex_lock, Locked, pthread_mutex_trylock,
         TryRecorded, TryRefused, pthread_mutex_unlock, Unlocked,
         lockdep_acquire_lock, lockdep_release_lock, add_dependency_to_graph

\* A second record of a lock closes a cycle through it.
LEMMA AgainIsCycle ==
  ASSUME TypeOK, OlderReachesNewer', NEW t \in Thread, NEW l \in Lock,
         lockdep_acquire_lock(t, l), NEW r \in held[t], r.lock = l
  PROVE  has_cycle(edges', l)
<1>1. PICK new \in held'[t] : new.lock = l /\ r.at < new.at /\ r \in held'[t]
  BY AcquirePushes
<1>2. Reaches(edges', l, l)
  BY <1>1 DEF OlderReachesNewer
<1> QED BY <1>2, LoopIsCycle

\* A request for a mutex the thread owns already has closed one, too.
LEMMA AskedAgainIsCycle ==
  ASSUME Base, RequestOnTop, OwnedIsRecorded, OlderReachesNewer,
         NEW t \in Thread, pc[t] = "locking", owner[op[t]] = t
  PROVE  has_cycle(edges, op[t])
<1> USE DEF Base
<1>1. SUFFICES ASSUME ~has_cycle(edges, op[t]) PROVE FALSE
  OBVIOUS
<1>2. op[t] \in Lock
  BY DEF CallsSound
<1>3. PICK r \in held[t] : r.lock = op[t] /\ \E s \in held[t] : r.at < s.at
  BY <1>1, <1>2 DEF OwnedIsRecorded, Recorded
<1>4. PICK q \in held[t] : q.lock = op[t] /\ \A p \in held[t] \ {q} : p.at < q.at
  BY DEF RequestOnTop
<1>5. r.at < q.at
  <2>1. \A p \in held[t] : p.at \in Int
    BY LockdepAssumption DEF TypeOK, HeldLock, Stamp
  <2> QED BY <1>3, <1>4, <2>1
<1>6. Reaches(edges, op[t], op[t])
  BY <1>3, <1>4, <1>5 DEF OlderReachesNewer
<1> QED BY <1>1, <1>2, <1>6, LoopIsCycle

\* What the two parts say of a thread and a mutex that is on no cycle.
Traced(u, k) ==
  owner[k] = u =>
    /\ depth[k] <= IF pc[u] = "trying" /\ op[u] = k THEN 2 ELSE 1
    /\ ~(pc[u] = "releasing" /\ op[u] = k)
    /\ (pc[u] = "trying" /\ op[u] = k => depth[k] >= 2) => Recorded(u, k)

LEMMA TracedStep ==
  ASSUME Base, RequestOnTop, OwnedIsRecorded, RelockIsCyclic,
         OlderReachesNewer, OlderReachesNewer', [Next]_vars,
         NEW u \in Thread, NEW k \in Lock, ~has_cycle(edges', k)
  PROVE  Traced(u, k)'
<1> USE LockdepAssumption DEF Base
<1>a. ~has_cycle(edges, k)
  BY EdgesGrow, CycleGrows
<1>b. Traced(u, k)
  BY <1>a DEF Traced, OwnedIsRecorded, RelockIsCyclic
<1> SUFFICES ASSUME owner'[k] = u PROVE Traced(u, k)'
  BY DEF Traced
\* The thread, its stack and its mutexes may stay as they were.
<1>c. ASSUME owner[k] = u, depth'[k] = depth[k], held'[u] = held[u],
             pc'[u] = pc[u], op'[u] = op[u]
      PROVE  Traced(u, k)'
  BY <1>b, <1>c DEF Traced, Recorded
<1>1. ASSUME NEW t \in Thread, NEW l \in Lock, pthread_mutex_lock(t, l)
      PROVE  Traced(u, k)'
  <2>1. owner' = owner /\ depth' = depth /\ pc[t] = "run"
    BY <1>1 DEF pthread_mutex_lock, MayAsk
  <2>2. CASE u = t
    <3>1. PICK r \in held[u] : r.lock = k
      BY <1>b, <2>1, <2>2 DEF Traced, Recorded
    <3>2. PICK new \in held'[u] : r.at < new.at /\ held[u] \subseteq held'[u]
      BY <1>1, <2>2, <3>1, AcquirePushes DEF pthread_mutex_lock
    <3>3. pc'[u] = "locking"
      BY <1>1, <2>2 DEF pthread_mutex_lock, Call, TypeOK
    <3> QED BY <1>b, <2>1, <2>2, <3>1, <3>2, <3>3 DEF Traced, Recorded
  <2>3. CASE u # t
    BY <1>1, <1>c, <2>1, <2>3
    DEF pthread_mutex_lock, lockdep_acquire_lock, Call, TypeOK
  <2> QED BY <2>2, <2>3
<1>2. ASSUME NEW t \in Thread, Locked(t) PROVE Traced(u, k)'
  <2>1. held' = held /\ edges' = edges /\ op[t] \in Lock /\ pc[t] = "locking"
    BY <1>2 DEF Locked, CallsSound
  <2>2. \A l \in Lock \ {op[t]} : owner'[l] = owner[l] /\ depth'[l] = depth[l]
    BY <1>2, <2>1 DEF Locked, real_pthread_mutex_lock, TypeOK
  <2>3. owner'[op[t]] = t /\ depth'[op[t]] = depth[op[t]] + 1 /\ pc'[t] = "run"
    BY <1>2, <2>1 DEF Locked, real_pthread_mutex_lock, Return, Call, TypeOK
  <2>4. CASE u = t /\ k = op[t]
    <3>1. owner[k] # t
      BY <1>a, <2>1, <2>4, AskedAgainIsCycle
    <3>2. depth[k] = 0
      BY <1>2, <2>4, <3>1 DEF Locked, real_pthread_mutex_lock, Available, MutexesSound
    <3>3. \E r \in held[u] : r.lock = k
      BY <2>1, <2>4 DEF RequestOnTop
    <3> QED BY <2>1, <2>3, <2>4, <3>2, <3>3 DEF Traced, Recorded
  <2>5. CASE u = t /\ k # op[t]
    BY <1>b, <2>1, <2>2, <2>3, <2>5 DEF Traced, Recorded
  <2>6. CASE u # t
    BY <1>2, <1>c, <2>1, <2>2, <2>3, <2>6 DEF Locked, Return, Call, TypeOK
  <2> QED BY <2>4, <2>5, <2>6
<1>3. ASSUME NEW t \in Thread, NEW l \in Lock, pthread_mutex_trylock(t, l)
      PROVE  Traced(u, k)'
  <2>1. held' = held /\ pc[t] = "run" /\ pc'[t] = "trying" /\ op'[t] = l
    BY <1>3 DEF pthread_mutex_trylock, MayAsk, Call, TypeOK
  <2>2. \A m \in Lock \ {l} : owner'[m] = owner[m] /\ depth'[m] = depth[m]
    BY <1>3 DEF pthread_mutex_trylock, real_pthread_mutex_lock, TypeOK
  <2>3. /\ owner'[l] = t /\ depth'[l] = depth[l] + 1
        /\ owner[l] = t \/ (owner[l] = None /\ depth[l] = 0)
    BY <1>3
    DEF pthread_mutex_trylock, real_pthread_mutex_lock, Available, MutexesSound, TypeOK
  <2>4. depth[k] \in Nat
    BY DEF TypeOK
  <2>5. CASE u = t
    <3>1. CASE k = l /\ owner[l] = t
      BY <1>b, <2>1, <2>3, <2>4, <2>5, <3>1 DEF Traced, Recorded
    <3>2. CASE k = l /\ depth[l] = 0
      BY <2>1, <2>3, <2>5, <3>2 DEF Traced
    <3>3. CASE k # l
      BY <1>b, <2>1, <2>2, <2>5, <3>3 DEF Traced, Recorded
    <3> QED BY <2>3, <3>1, <3>2, <3>3
  <2>6. CASE u # t
    BY <1>3, <1>c, <2>1, <2>2, <2>3, <2>6 DEF pthread_mutex_trylock, Call, TypeOK
  <2> QED BY <2>5, <2>6
<1>4. ASSUME NEW t \in Thread, TryRecorded(t) PROVE Traced(u, k)'
  <2>1. /\ op[t] \in Lock /\ lockdep_acquire_lock(t, op[t])
        /\ owner' = owner /\ depth' = depth /\ pc[t] = "trying"
    BY <1>4 DEF TryRecorded, CallsSound
  <2>2. depth[k] \in Nat
    BY DEF TypeOK
  <2>3. CASE u = t
    <3>1. pc'[u] \in {"refused", "run"}
      BY <1>4, <2>3 DEF TryRecorded, Call, Return, TypeOK
    <3>2. PICK new \in HeldLock : new.lock = op[u] /\ held'[u] = held[u] \cup {new}
      BY <2>1, <2>3, AcquirePushes
    <3>3. CASE k = op[u]
      <4>1. ~(depth[k] >= 2)
        BY <1>b, <2>1, <2>3, <3>3, AgainIsCycle DEF Traced, Recorded
      <4> QED BY <2>1, <2>2, <3>1, <3>2, <3>3, <4>1 DEF Traced, Recorded
    <3>4. CASE k # op[u]
      BY <1>b, <2>1, <2>3, <3>1, <3>2, <3>4 DEF Traced, Recorded
    <3> QED BY <3>3, <3>4
  <2>4. CASE u # t
    BY <1>4, <1>c, <2>1, <2>4
    DEF TryRecorded, lockdep_acquire_lock, Call, Return, TypeOK
  <2> QED BY <2>3, <2>4
<1>5. ASSUME NEW t \in Thread, TryRefused(t) PROVE Traced(u, k)'
  <2>1. /\ op[t] \in Lock /\ owner[op[t]] = t /\ held' = held
        /\ pc[t] = "refused" /\ pc'[t] = "run"
    BY <1>5 DEF TryRefused, Return, Call, CallsSound, TypeOK
  <2>2. \A l \in Lock \ {op[t]} : owner'[l] = owner[l] /\ depth'[l] = depth[l]
    BY <1>5, <2>1 DEF TryRefused, real_pthread_mutex_unlock, TypeOK
  <2>3. /\ owner'[op[t]] = IF depth[op[t]] = 1 THEN None ELSE t
        /\ depth[op[t]] # 0 /\ depth[op[t]] \in Nat
    BY <1>5, <2>1 DEF TryRefused, real_pthread_mutex_unlock, MutexesSound, TypeOK
  <2>4. CASE k = op[t]
    <3>1. u = t /\ depth[k] >= 2
      BY <2>3, <2>4
    <3> QED BY <1>b, <2>1, <2>3, <2>4, <3>1 DEF Traced
  <2>5. CASE k # op[t] /\ u = t
    BY <1>b, <2>1, <2>2, <2>5 DEF Traced, Recorded
  <2>6. CASE k # op[t] /\ u # t
    BY <1>5, <1>c, <2>1, <2>2, <2>6 DEF TryRefused, Return, Call, TypeOK
  <2> QED BY <2>4, <2>5, <2>6
<1>6. ASSUME NEW t \in Thread, NEW l \in Lock, pthread_mutex_unlock(t, l)
      PROVE  Traced(u, k)'
  <2>1. /\ owner[l] = t /\ held' = held
        /\ pc[t] = "run" /\ pc'[t] = "releasing" /\ op'[t] = l
    BY <1>6 DEF pthread_mutex_unlock, Call, TypeOK
  <2>2. \A m \in Lock \ {l} : owner'[m] = owner[m] /\ depth'[m] = depth[m]
    BY <1>6 DEF pthread_mutex_unlock, real_pthread_mutex_unlock, TypeOK
  <2>3. /\ owner'[l] = IF depth[l] = 1 THEN None ELSE t
        /\ depth[l] # 0 /\ depth[l] \in Nat
    BY <1>6, <2>1
    DEF pthread_mutex_unlock, real_pthread_mutex_unlock, MutexesSound, TypeOK
  <2>4. CASE k = l
    <3>1. u = t /\ depth[k] >= 2
      BY <2>3, <2>4
    <3> QED BY <1>b, <2>1, <2>3, <2>4, <3>1 DEF Traced
  <2>5. CASE k # l /\ u = t
    BY <1>b, <2>1, <2>2, <2>5 DEF Traced, Recorded
  <2>6. CASE k # l /\ u # t
    BY <1>6, <1>c, <2>1, <2>2, <2>6 DEF pthread_mutex_unlock, Call, TypeOK
  <2> QED BY <2>4, <2>5, <2>6
<1>7. ASSUME NEW t \in Thread, Unlocked(t) PROVE Traced(u, k)'
  <2>1. /\ owner' = owner /\ depth' = depth
        /\ pc[t] = "releasing" /\ pc'[t] = "run"
    BY <1>7 DEF Unlocked, Return, Call, TypeOK
  <2>2. CASE u = t
    <3>1. k # op[u]
      BY <1>b, <2>1, <2>2 DEF Traced
    <3>2. held'[u] = {r \in held[u] : r.lock # op[u]}
      BY <1>7, <2>2 DEF Unlocked, lockdep_release_lock, TypeOK
    <3> QED BY <1>b, <2>1, <2>2, <3>1, <3>2 DEF Traced, Recorded
  <2>3. CASE u # t
    BY <1>7, <1>c, <2>1, <2>3
    DEF Unlocked, lockdep_release_lock, Return, Call, TypeOK
  <2> QED BY <2>2, <2>3
<1>8. CASE UNCHANGED vars
  BY <1>c, <1>8 DEF vars
<1> QED
  BY <1>1, <1>2, <1>3, <1>4, <1>5, <1>6, <1>7, <1>8 DEF Next

----------------------------------------------------------------------------
(* No silent deadlock.                                                     *)

StackInv ==
  /\ Base
  /\ RequestOnTop
  /\ OwnedIsRecorded
  /\ RelockIsCyclic
  /\ OlderReachesNewer

LEMMA StackStep == StackInv /\ [Next]_vars => StackInv'
<1> SUFFICES ASSUME StackInv, [Next]_vars PROVE StackInv'
  OBVIOUS
<1>1. Base' /\ RequestOnTop' /\ OlderReachesNewer'
  BY BaseStep, RequestStep, OrderStep DEF StackInv
<1>2. \A u \in Thread, k \in Lock : ~has_cycle(edges', k) => Traced(u, k)'
  BY <1>1, TracedStep DEF StackInv
<1>3. OwnedIsRecorded' /\ RelockIsCyclic'
  BY <1>2 DEF OwnedIsRecorded, RelockIsCyclic, Traced
<1> QED BY <1>1, <1>3 DEF StackInv

LEMMA InitStack == Init => StackInv
  BY InitBase, LockdepAssumption
  DEF StackInv, Init, RequestOnTop, OwnedIsRecorded, RelockIsCyclic,
      OlderReachesNewer

\* In a deadlock, the locks from which a cycle or a requested lock is reached
\* each have a child among themselves: the graph has a cycle within reach.
LEMMA DeadlockIsCycle ==
  StackInv =>
    \A D \in SUBSET Thread : CircularWait(D) =>
      \A t \in D : has_cycle(edges, op[t])
<1> SUFFICES ASSUME StackInv, NEW D \in SUBSET Thread, CircularWait(D),
                    NEW t \in D
             PROVE  has_cycle(edges, op[t])
  OBVIOUS
<1> USE DEF StackInv, Base
<1> DEFINE S == {x \in Lock : \/ has_cycle(edges, x)
                              \/ \E u \in D : Reaches(edges, x, op[u])}
<1>1. \A u \in D : /\ op[u] \in Lock
                   /\ pc[u] = "locking"
                   /\ owner[op[u]] \in D
  BY DEF CircularWait, CallsSound
<1>2. ASSUME NEW u \in D PROVE op[u] \in S
  <2>1. PICK v \in D : owner[op[u]] = v
    BY <1>1
  <2>2. SUFFICES ASSUME ~has_cycle(edges, op[u])
                 PROVE  Reaches(edges, op[u], op[v])
    BY <1>1
  <2>3. PICK r \in held[v] : r.lock = op[u] /\ \E s \in held[v] : r.at < s.at
    BY <1>1, <2>1, <2>2 DEF OwnedIsRecorded, Recorded
  <2>4. PICK q \in held[v] : q.lock = op[v] /\ \A p \in held[v] \ {q} : p.at < q.at
    BY <1>1 DEF RequestOnTop
  <2>5. r.at < q.at
    <3>1. \A p \in held[v] : p.at \in Int
      BY LockdepAssumption DEF TypeOK, HeldLock, Stamp
    <3> QED BY <2>3, <2>4, <3>1
  <2> QED BY <2>3, <2>4, <2>5 DEF OlderReachesNewer
<1>3. ASSUME NEW x \in S PROVE \E y \in S : <<x, y>> \in edges
  <2>1. CASE has_cycle(edges, x)
    <3>1. PICK C \in SUBSET Lock : x \in C /\ \A a \in C : \E b \in C : <<a, b>> \in edges
      BY <2>1 DEF has_cycle
    <3>2. PICK y \in C : <<x, y>> \in edges
      BY <3>1
    <3>3. has_cycle(edges, y)
      BY <3>1 DEF has_cycle
    <3> QED BY <3>2, <3>3
  <2>2. CASE ~has_cycle(edges, x)
    <3>1. PICK v \in D : Reaches(edges, x, op[v])
      BY <2>2
    <3>2. PICK y \in Lock : <<x, y>> \in edges /\ (y = op[v] \/ Reaches(edges, y, op[v]))
      BY <1>1, <3>1, ReachesByChild
    <3> QED BY <1>2, <3>2
  <2> QED BY <2>1, <2>2
<1>4. S \in SUBSET Lock /\ op[t] \in S
  BY <1>2
<1> QED BY <1>3, <1>4 DEF has_cycle

DeadlocksAreCycles ==
  \A D \in SUBSET Thread : CircularWait(D) =>
    \A t \in D : has_cycle(edges, op[t])

\* The deadlock closes with the request of one of its threads, and the search
\* from that request meets the cycle; any other step leaves a deadlock that
\* was there, and was reported, before.
LEMMA SilentStep ==
  /\ StackInv /\ NoSilentDeadlock /\ [Next]_vars
  /\ DeadlocksAreCycles'
  => NoSilentDeadlock'
<1> SUFFICES ASSUME StackInv, NoSilentDeadlock, [Next]_vars,
                    DeadlocksAreCycles',
                    NEW D \in SUBSET Thread, CircularWait(D)'
             PROVE  \E t \in D : warned'[t]
  BY DEF NoSilentDeadlock
<1> USE LockdepAssumption DEF StackInv, Base
<1>1. \A t \in D : /\ pc'[t] = "locking"
                   /\ owner'[op'[t]] \in D
                   /\ owner'[op'[t]] = t => op'[t] \notin Recursive
  BY DEF CircularWait, Available
<1>2. D # {}
  BY DEF CircularWait
\* A deadlock whose threads and mutexes the step left alone.
<1>3. ASSUME \A t \in D : /\ pc[t] = "locking" /\ op'[t] = op[t]
                          /\ warned'[t] = warned[t]
                          /\ owner[op[t]] \in D
                          /\ owner'[op[t]] = owner[op[t]]
      PROVE  \E t \in D : warned'[t]
  <2>1. CircularWait(D)
    BY <1>1, <1>2, <1>3 DEF CircularWait, Available, TypeOK
  <2> QED BY <1>3, <2>1 DEF NoSilentDeadlock
<1>4. ASSUME NEW t \in Thread, NEW l \in Lock, pthread_mutex_lock(t, l)
      PROVE  \E u \in D : warned'[u]
  <2>1. CASE t \in D
    <3>1. warned'[t] = has_cycle(edges', l) /\ op'[t] = l
      BY <1>4 DEF pthread_mutex_lock, lockdep_acquire_lock, Call, TypeOK
    <3>2. has_cycle(edges, op[t])'
      BY <2>1 DEF DeadlocksAreCycles
    <3> QED BY <2>1, <3>1, <3>2
  <2>2. CASE t \notin D
    BY <1>1, <1>3, <1>4, <2>2
    DEF pthread_mutex_lock, lockdep_acquire_lock, Call, TypeOK
  <2> QED BY <2>1, <2>2
\* The thread of any other step is not asleep after it, hence not in D; and
\* the mutex it took or gave up is none that D waits for.
<1>5. ASSUME NEW t \in Thread, pc'[t] # "locking",
             \A u \in Thread \ {t} : /\ pc'[u] = pc[u] /\ op'[u] = op[u]
                                     /\ warned'[u] = warned[u],
             \A l \in Lock : owner'[l] # owner[l] => owner'[l] \in {t, None}
      PROVE  \E u \in D : warned'[u]
  <2>1. t \notin D
    BY <1>1, <1>5
  <2>2. \A u \in D : op[u] \in Lock /\ pc[u] = "locking"
    BY <1>1, <1>5, <2>1 DEF CallsSound
  <2>3. \A u \in D : owner[op[u]] \in D /\ owner'[op[u]] = owner[op[u]]
    BY <1>1, <1>5, <2>1, <2>2
  <2> QED BY <1>3, <1>5, <2>1, <2>2, <2>3
<1>6. ASSUME NEW t \in Thread, Locked(t) PROVE \E u \in D : warned'[u]
  BY <1>5, <1>6 DEF Locked, real_pthread_mutex_lock, Return, Call, TypeOK
<1>7. ASSUME NEW t \in Thread, NEW l \in Lock, pthread_mutex_trylock(t, l)
      PROVE  \E u \in D : warned'[u]
  BY <1>5, <1>7
  DEF pthread_mutex_trylock, real_pthread_mutex_lock, Call, TypeOK
<1>8. ASSUME NEW t \in Thread, TryRecorded(t) PROVE \E u \in D : warned'[u]
  BY <1>5, <1>8
  DEF TryRecorded, lockdep_acquire_lock, Return, Call, TypeOK
<1>9. ASSUME NEW t \in Thread, TryRefused(t) PROVE \E u \in D : warned'[u]
  BY <1>5, <1>9
  DEF TryRefused, real_pthread_mutex_unlock, Return, Call, TypeOK
<1>10. ASSUME NEW t \in Thread, NEW l \in Lock, pthread_mutex_unlock(t, l)
       PROVE  \E u \in D : warned'[u]
  BY <1>5, <1>10
  DEF pthread_mutex_unlock, real_pthread_mutex_unlock, Call, TypeOK
<1>11. ASSUME NEW t \in Thread, Unlocked(t) PROVE \E u \in D : warned'[u]
  BY <1>5, <1>11 DEF Unlocked, lockdep_release_lock, Return, Call, TypeOK
<1>12. CASE UNCHANGED vars
  BY <1>1, <1>3, <1>12 DEF vars
<1> QED
  BY <1>4, <1>6, <1>7, <1>8, <1>9, <1>10, <1>11, <1>12 DEF Next

\* Of the threads of a real deadlock, at least one was answered false
\* (NoSilentDeadlock), whatever the program and its mutexes.
THEOREM NoDeadlockIsSilent == Spec => []NoSilentDeadlock
<1>1. Init => NoSilentDeadlock
  BY DEF Init, NoSilentDeadlock, CircularWait
<1>2. StackInv => DeadlocksAreCycles
  BY DeadlockIsCycle DEF DeadlocksAreCycles
<1> QED
  BY <1>1, <1>2, InitStack, StackStep, SilentStep, PTL DEF Spec

----------------------------------------------------------------------------
(* No dangling owner reference, no false alarm.                            *)

LEMMA ReferenceStep ==
  Base /\ OwnerReferenceLive /\ [Next]_vars => OwnerReferenceLive'
<1> SUFFICES ASSUME Base, OwnerReferenceLive, [Next]_vars,
                    NEW k \in Lock, current_held_lock'[k] # None
             PROVE  \E r \in held'[current_held_lock'[k]] : r.lock = k
  BY DEF OwnerReferenceLive
<1> USE LockdepAssumption DEF Base
<1>1. CASE UNCHANGED <<held, current_held_lock>>
  BY <1>1 DEF OwnerReferenceLive
<1>2. ASSUME NEW t \in Thread, NEW l \in Lock, lockdep_acquire_lock(t, l)
      PROVE  \E r \in held'[current_held_lock'[k]] : r.lock = k
  <2>1. PICK new \in HeldLock : /\ new.lock = l
                                /\ held'[t] = held[t] \cup {new}
                                /\ \A u \in Thread \ {t} : held'[u] = held[u]
    BY <1>2, AcquirePushes
  <2>2. current_held_lock'[k] = IF k = l THEN t ELSE current_held_lock[k]
    BY <1>2 DEF lockdep_acquire_lock, TypeOK
  <2>3. current_held_lock[k] \in Thread \cup {None}
    BY DEF TypeOK
  <2> QED BY <2>1, <2>2, <2>3 DEF OwnerReferenceLive
<1>3. ASSUME NEW t \in Thread, NEW l \in Lock, lockdep_release_lock(t, l)
      PROVE  \E r \in held'[current_held_lock'[k]] : r.lock = k
  <2>1. current_held_lock[k] \in Thread /\ current_held_lock'[k] = current_held_lock[k]
    BY <1>3 DEF lockdep_release_lock, TypeOK
  <2>2. PICK r \in held[current_held_lock[k]] : r.lock = k
    BY <2>1 DEF OwnerReferenceLive
  <2>3. r \in held'[current_held_lock[k]]
    BY <1>3, <2>1, <2>2 DEF lockdep_release_lock, TypeOK
  <2> QED BY <2>1, <2>2, <2>3
<1>4. ASSUME NEW t \in Thread, TryRecorded(t)
      PROVE  \E r \in held'[current_held_lock'[k]] : r.lock = k
  BY <1>2, <1>4 DEF TryRecorded, CallsSound
<1>5. ASSUME NEW t \in Thread, Unlocked(t)
      PROVE  \E r \in held'[current_held_lock'[k]] : r.lock = k
  BY <1>3, <1>5 DEF Unlocked, CallsSound
<1> QED
  BY <1>1, <1>2, <1>3, <1>4, <1>5
  DEF Next, vars, pthread_mutex_lock, Locked, pthread_mutex_trylock,
      TryRefused, pthread_mutex_unlock

\* The reference a deadlock report follows is to a record that is still held
\* (OwnerReferenceLive): it is cleared before the record is freed.
THEOREM NoDanglingReference == Spec => []OwnerReferenceLive
<1>1. Init => OwnerReferenceLive
  BY DEF Init, OwnerReferenceLive
<1> QED
  BY <1>1, InitBase, BaseStep, ReferenceStep, PTL DEF Spec

\* Whatever leads to a cycle of a graph whose other edges start where the
\* nesting leads to one, leads to a cycle of the nesting.
LEMMA CycleOfTheNesting ==
  ASSUME NEW E, NEW l \in Lock, has_cycle(E, l),
         \A x, y \in Lock : <<x, y>> \in E => <<x, y>> \in Nesting \/ has_cycle(Nesting, x)
  PROVE  has_cycle(Nesting, l)
<1> DEFINE Cyclic == {x \in Lock : has_cycle(Nesting, x)}
<1>1. \A x \in Cyclic : \E y \in Cyclic : <<x, y>> \in Nesting
  <2> SUFFICES ASSUME NEW x \in Cyclic PROVE \E y \in Cyclic : <<x, y>> \in Nesting
    OBVIOUS
  <2>1. PICK S \in SUBSET Lock : x \in S /\ \A p \in S : \E q \in S : <<p, q>> \in Nesting
    BY DEF has_cycle
  <2>2. PICK y \in S : <<x, y>> \in Nesting
    BY <2>1
  <2>3. has_cycle(Nesting, y)
    BY <2>1, <2>2 DEF has_cycle
  <2> QED BY <2>1, <2>2, <2>3
<1>2. PICK S \in SUBSET Lock : l \in S /\ \A p \in S : \E q \in S : <<p, q>> \in E
  BY DEF has_cycle
<1>3. \A p \in S \cup Cyclic : \E q \in S \cup Cyclic : <<p, q>> \in Nesting
  <2>1. ASSUME NEW p \in S, p \notin Cyclic PROVE \E q \in S : <<p, q>> \in Nesting
    BY <1>2, <2>1
  <2> QED BY <1>1, <2>1
<1>4. S \cup Cyclic \in SUBSET Lock /\ l \in S \cup Cyclic
  BY <1>2
<1> HIDE DEF Cyclic
<1> QED BY <1>3, <1>4 DEF has_cycle

\* An acquisition keeps the edges orderly, and is answered false with reason.
LEMMA OrderlyAcquire ==
  ASSUME Base, OrderlyEdges,
         NEW t \in Thread, NEW l \in Lock, lockdep_acquire_lock(t, l),
         \A r \in held[t] : has_cycle(Nesting, r.lock) \/ <<r.lock, l>> \in Nesting
  PROVE  /\ OrderlyEdges'
         /\ warned'[t] => has_cycle(Nesting, l)
         /\ \A u \in Thread \ {t} : warned'[u] = warned[u]
<1>1. OrderlyEdges'
  BY DEF OrderlyEdges, lockdep_acquire_lock, add_dependency_to_graph, Newest
<1>2. has_cycle(edges', l) => has_cycle(Nesting, l)
  BY <1>1, CycleOfTheNesting DEF OrderlyEdges
<1>3. warned' = [warned EXCEPT ![t] = has_cycle(edges', l)] /\ warned \in [Thread -> BOOLEAN]
  BY DEF lockdep_acquire_lock, Base, TypeOK
<1> QED BY <1>1, <1>2, <1>3

LEMMA OrderlyStep ==
  Base /\ OrderlyRecords /\ NoFalseAlarm /\ [Next]_vars
    => OrderlyRecords' /\ NoFalseAlarm'
<1> SUFFICES ASSUME Base, OrderlyRecords, NoFalseAlarm, [Next]_vars
             PROVE  OrderlyRecords' /\ NoFalseAlarm'
  OBVIOUS
<1> DEFINE Cyclic(l) == has_cycle(Nesting, l)
           Quiet == \A u \in Thread : warned'[u] => Cyclic(op'[u])
           Own(u, r) ==
             \/ owner'[r.lock] = u
             \/ pc'[u] \in {"locking", "releasing"} /\ op'[u] = r.lock
           Good(u, r) ==
             \/ Cyclic(r.lock)
             \/ Own(u, r) /\ (pc'[u] = "trying" => <<r.lock, op'[u]>> \in Nesting)
<1> SUFFICES OrderlyEdges' /\ Quiet /\ \A u \in Thread : \A r \in held'[u] : Good(u, r)
  BY DEF OrderlyRecords, OrderlyRecord, NoFalseAlarm
<1> HIDE DEF Cyclic
<1> USE LockdepAssumption DEF Base
<1>a. /\ OrderlyEdges
      /\ \A u \in Thread : warned[u] => Cyclic(op[u])
      /\ \A u \in Thread : \A r \in held[u] :
           \/ Cyclic(r.lock)
           \/ /\ \/ owner[r.lock] = u
                 \/ pc[u] \in {"locking", "releasing"} /\ op[u] = r.lock
              /\ pc[u] = "trying" => <<r.lock, op[u]>> \in Nesting
  BY DEF OrderlyRecords, OrderlyRecord, NoFalseAlarm, Cyclic
<1>b. \A u \in Thread : \A r \in held[u] : r.lock \in Lock
  BY DEF TypeOK, HeldLock
<1>1. ASSUME NEW t \in Thread, NEW l \in Lock, pthread_mutex_lock(t, l)
      PROVE  OrderlyEdges' /\ Quiet /\ \A u \in Thread : \A r \in held'[u] : Good(u, r)
  <2>1. /\ lockdep_acquire_lock(t, l) /\ owner' = owner /\ pc[t] = "run"
        /\ pc'[t] = "locking" /\ op'[t] = l
        /\ \A u \in Thread \ {t} : pc'[u] = pc[u] /\ op'[u] = op[u]
    BY <1>1 DEF pthread_mutex_lock, MayAsk, Call, TypeOK
  <2>2. \A r \in held[t] :
          Cyclic(r.lock) \/ (owner[r.lock] = t /\ <<r.lock, l>> \in Nesting)
    BY <1>1, <1>a, <1>b, <2>1 DEF pthread_mutex_lock, MayAsk
  <2>3. /\ OrderlyEdges'
        /\ warned'[t] => Cyclic(l)
        /\ \A u \in Thread \ {t} : warned'[u] = warned[u]
    BY <1>a, <2>1, <2>2, OrderlyAcquire DEF Cyclic
  <2>4. PICK new \in HeldLock : /\ new.lock = l
                                /\ held'[t] = held[t] \cup {new}
                                /\ \A u \in Thread \ {t} : held'[u] = held[u]
    BY <2>1, AcquirePushes
  <2> QED BY <1>a, <2>1, <2>2, <2>3, <2>4
<1>2. ASSUME NEW t \in Thread, Locked(t)
      PROVE  OrderlyEdges' /\ Quiet /\ \A u \in Thread : \A r \in held'[u] : Good(u, r)
  <2>1. op[t] \in Lock /\ pc[t] = "locking" /\ pc'[t] = "run" /\ owner'[op[t]] = t
    BY <1>2 DEF Locked, real_pthread_mutex_lock, Return, Call, CallsSound, TypeOK
  <2>2. \A u \in Thread, l \in Lock : owner[l] = u => owner'[l] = u
    BY <1>2 DEF Locked, real_pthread_mutex_lock, Available, TypeOK
  <2>3. /\ \A u \in Thread \ {t} : pc'[u] = pc[u] /\ op'[u] = op[u] /\ warned'[u] = warned[u]
        /\ ~warned'[t]
    BY <1>2 DEF Locked, Return, Call, TypeOK
  <2>4. held' = held /\ OrderlyEdges' /\ Quiet
    BY <1>2, <1>a, <2>3 DEF Locked, OrderlyEdges
  <2>5. ASSUME NEW r \in held[t] PROVE Good(t, r)
    BY <1>a, <1>b, <2>1, <2>2
  <2>6. ASSUME NEW u \in Thread \ {t}, NEW r \in held[u] PROVE Good(u, r)
    BY <1>a, <1>b, <2>2, <2>3
  <2> QED BY <2>4, <2>5, <2>6
<1>3. ASSUME NEW t \in Thread, NEW l \in Lock, pthread_mutex_trylock(t, l)
      PROVE  OrderlyEdges' /\ Quiet /\ \A u \in Thread : \A r \in held'[u] : Good(u, r)
  <2>1. /\ pc[t] = "run" /\ pc'[t] = "trying" /\ op'[t] = l
        /\ \A u \in Thread \ {t} : pc'[u] = pc[u] /\ op'[u] = op[u]
    BY <1>3 DEF pthread_mutex_trylock, MayAsk, Call, TypeOK
  <2>2. \A r \in held[t] :
          Cyclic(r.lock) \/ (owner[r.lock] = t /\ <<r.lock, l>> \in Nesting)
    BY <1>3, <1>a, <1>b, <2>1 DEF pthread_mutex_trylock, MayAsk
  <2>3. \A u \in Thread, k \in Lock : owner[k] = u => owner'[k] = u
    BY <1>3 DEF pthread_mutex_trylock, real_pthread_mutex_lock, Available, TypeOK
  <2>4. ~warned[t]
    BY <2>1 DEF CallsSound
  <2>5. held' = held /\ OrderlyEdges' /\ Quiet
    BY <1>3, <1>a, <2>1, <2>4 DEF pthread_mutex_trylock, OrderlyEdges
  <2>6. ASSUME NEW r \in held[t] PROVE Good(t, r)
    BY <1>b, <2>1, <2>2, <2>3
  <2>7. ASSUME NEW u \in Thread \ {t}, NEW r \in held[u] PROVE Good(u, r)
    BY <1>a, <1>b, <2>1, <2>3
  <2> QED BY <2>5, <2>6, <2>7
<1>4. ASSUME NEW t \in Thread, TryRecorded(t)
      PROVE  OrderlyEdges' /\ Quiet /\ \A u \in Thread : \A r \in held'[u] : Good(u, r)
  <2>1. /\ op[t] \in Lock /\ owner[op[t]] = t /\ owner' = owner
        /\ pc[t] = "trying" /\ lockdep_acquire_lock(t, op[t])
    BY <1>4 DEF TryRecorded, CallsSound
  <2>2. \A r \in held[t] :
          Cyclic(r.lock) \/ (owner[r.lock] = t /\ <<r.lock, op[t]>> \in Nesting)
    BY <1>a, <2>1
  <2>3. /\ OrderlyEdges'
        /\ warned'[t] => Cyclic(op[t])
        /\ \A u \in Thread \ {t} : warned'[u] = warned[u]
    BY <1>a, <2>1, <2>2, OrderlyAcquire DEF Cyclic
  <2>4. PICK new \in HeldLock : /\ new.lock = op[t]
                                /\ held'[t] = held[t] \cup {new}
                                /\ \A u \in Thread \ {t} : held'[u] = held[u]
    BY <2>1, AcquirePushes
  <2>5. /\ pc'[t] # "trying"
        /\ warned'[t] => op'[t] = op[t]
        /\ \A u \in Thread \ {t} : pc'[u] = pc[u] /\ op'[u] = op[u]
    BY <1>4 DEF TryRecorded, Return, Call, TypeOK
  <2>6. ASSUME NEW r \in held'[t] PROVE Good(t, r)
    BY <2>1, <2>2, <2>4, <2>5
  <2>7. ASSUME NEW u \in Thread \ {t}, NEW r \in held'[u] PROVE Good(u, r)
    BY <1>a, <2>1, <2>4, <2>5
  <2>8. Quiet
    BY <1>a, <2>3, <2>5
  <2> QED BY <2>3, <2>6, <2>7, <2>8
<1>5. ASSUME NEW t \in Thread, TryRefused(t)
      PROVE  OrderlyEdges' /\ Quiet /\ \A u \in Thread : \A r \in held'[u] : Good(u, r)
  <2>1. /\ op[t] \in Lock /\ Cyclic(op[t]) /\ owner[op[t]] = t
        /\ pc[t] = "refused" /\ pc'[t] = "run" /\ ~warned'[t]
    BY <1>5, <1>a DEF TryRefused, CallsSound, Return, Call, TypeOK
  <2>2. \A u \in Thread \ {t} : pc'[u] = pc[u] /\ op'[u] = op[u] /\ warned'[u] = warned[u]
    BY <1>5 DEF TryRefused, Return, Call, TypeOK
  <2>3. \A k \in Lock \ {op[t]} : owner'[k] = owner[k]
    BY <1>5 DEF TryRefused, real_pthread_mutex_unlock, TypeOK
  <2>4. held' = held /\ OrderlyEdges' /\ Quiet
    BY <1>5, <1>a, <2>1, <2>2 DEF TryRefused, OrderlyEdges
  <2>5. ASSUME NEW r \in held[t] PROVE Good(t, r)
    BY <1>a, <1>b, <2>1, <2>3
  <2>6. ASSUME NEW u \in Thread \ {t}, NEW r \in held[u] PROVE Good(u, r)
    BY <1>a, <1>b, <2>1, <2>2, <2>3
  <2> QED BY <2>4, <2>5, <2>6
<1>6. ASSUME NEW t \in Thread, NEW l \in Lock, pthread_mutex_unlock(t, l)
      PROVE  OrderlyEdges' /\ Quiet /\ \A u \in Thread : \A r \in held'[u] : Good(u, r)
  <2>1. /\ pc[t] = "run" /\ owner[l] = t /\ pc'[t] = "releasing" /\ op'[t] = l
        /\ \A u \in Thread \ {t} : pc'[u] = pc[u] /\ op'[u] = op[u]
    BY <1>6 DEF pthread_mutex_unlock, Call, TypeOK
  <2>2. \A k \in Lock \ {l} : owner'[k] = owner[k]
    BY <1>6 DEF pthread_mutex_unlock, real_pthread_mutex_unlock, TypeOK
  <2>3. ~warned[t]
    BY <2>1 DEF CallsSound
  <2>4. held' = held /\ OrderlyEdges' /\ Quiet
    BY <1>6, <1>a, <2>1, <2>3 DEF pthread_mutex_unlock, OrderlyEdges
  <2>5. ASSUME NEW r \in held[t] PROVE Good(t, r)
    BY <1>a, <1>b, <2>1, <2>2
  <2>6. ASSUME NEW u \in Thread \ {t}, NEW r \in held[u] PROVE Good(u, r)
    <3>1. owner[r.lock] = u => owner'[r.lock] = u
      BY <1>b, <2>1, <2>2
    <3> QED BY <1>a, <2>1, <3>1
  <2> QED BY <2>4, <2>5, <2>6
<1>7. ASSUME NEW t \in Thread, Unlocked(t)
      PROVE  OrderlyEdges' /\ Quiet /\ \A u \in Thread : \A r \in held'[u] : Good(u, r)
  <2>1. /\ pc[t] = "releasing" /\ pc'[t] = "run" /\ owner' = owner
        /\ held'[t] = {r \in held[t] : r.lock # op[t]}
        /\ \A u \in Thread \ {t} :
             pc'[u] = pc[u] /\ op'[u] = op[u] /\ held'[u] = held[u]
    BY <1>7 DEF Unlocked, lockdep_release_lock, Return, Call, TypeOK
  <2>2. ~warned[t]
    BY <2>1 DEF CallsSound
  <2>3. OrderlyEdges' /\ Quiet
    BY <1>7, <1>a, <2>1, <2>2 DEF Unlocked, lockdep_release_lock, OrderlyEdges
  <2>4. ASSUME NEW r \in held'[t] PROVE Good(t, r)
    BY <1>a, <2>1
  <2>5. ASSUME NEW u \in Thread \ {t}, NEW r \in held'[u] PROVE Good(u, r)
    BY <1>a, <2>1
  <2> QED BY <2>3, <2>4, <2>5
<1>8. CASE UNCHANGED vars
  BY <1>8, <1>a DEF vars, OrderlyEdges
<1> QED
  BY <1>1, <1>2, <1>3, <1>4, <1>5, <1>6, <1>7, <1>8 DEF Next

\* A request is answered false only if the lock leads to a cycle of what the
\* program nests (NoFalseAlarm), however its threads are scheduled.
THEOREM AlarmsHaveReason == Spec => []NoFalseAlarm
<1>1. Init => OrderlyRecords /\ NoFalseAlarm
  BY DEF Init, OrderlyRecords, OrderlyEdges, NoFalseAlarm
<1> QED
  BY <1>1, InitBase, BaseStep, OrderlyStep, PTL DEF Spec

\* The parts together: the invariant that TLC checks is inductive.
THEOREM InvariantHolds == Spec => []IInv
<1>1. Spec => [](StackInv /\ OrderlyRecords)
  <2>1. Init => OrderlyRecords /\ NoFalseAlarm
    BY DEF Init, OrderlyRecords, OrderlyEdges, NoFalseAlarm
  <2> QED BY <2>1, InitStack, StackStep, InitBase, BaseStep, OrderlyStep, PTL DEF Spec
<1>2. /\ StackInv /\ OrderlyRecords
      /\ OwnerReferenceLive /\ NoSilentDeadlock /\ NoFalseAlarm
      => IInv
  BY DEF StackInv, Base, IInv
<1> QED
  BY <1>1, <1>2, NoDanglingReference, NoDeadlockIsSilent,
     AlarmsHaveReason, PTL

----------------------------------------------------------------------------
(***************************************************************************)
(* Lockdep implements DeadlockMonitor: every step of the interposed        *)
(* functions is a step of the monitor's mutexes or leaves them alone.      *)
(***************************************************************************)

\* The mapped variables change as the monitor's do.
Shows(t, w, b) ==
  /\ waitsFor' = [waitsFor EXCEPT ![t] = w]
  /\ wasTold' = [wasTold EXCEPT ![t] = b]

\* A call that sends a thread to another point shows what that point shows.
LEMMA CallShows ==
  ASSUME TypeOK, NEW t \in Thread, NEW l, NEW label, Call(t, l, label),
         \A u \in Thread \ {t} : warned'[u] = warned[u],
         warned'[t] \in BOOLEAN
  PROVE  IF label = "locking" THEN Shows(t, l, warned'[t])
                              ELSE Shows(t, None, FALSE)
<1> USE DEF Call, TypeOK, Shows, waitsFor, wasTold
<1>1. CASE label = "locking"
  BY <1>1
<1>2. CASE label # "locking"
  BY <1>2
<1> QED BY <1>1, <1>2

\* A thread at another point than "locking" shows nothing.
LEMMA AwakeShowsNothing ==
  ASSUME NEW t \in Thread, pc[t] # "locking"
  PROVE  waitsFor[t] = None /\ wasTold[t] = FALSE
  BY DEF waitsFor, wasTold

LEMMA AwakeStaysHidden ==
  ASSUME NEW t \in Thread, pc[t] # "locking", pc'[t] # "locking",
         \A u \in Thread \ {t} :
           pc'[u] = pc[u] /\ op'[u] = op[u] /\ warned'[u] = warned[u]
  PROVE  UNCHANGED <<waitsFor, wasTold>>
<1>1. ASSUME NEW u \in Thread
      PROVE  /\ pc'[u] = "locking" <=> pc[u] = "locking"
             /\ pc[u] = "locking" => op'[u] = op[u] /\ warned'[u] = warned[u]
  OBVIOUS
<1> QED BY <1>1 DEF waitsFor, wasTold

\* The request that completes a deadlock is answered false.
LEMMA AskIsTold ==
  ASSUME StackInv, DeadlocksAreCycles', NEW t \in Thread, NEW l \in Lock,
         pthread_mutex_lock(t, l), NEW D \in SUBSET Thread, t \in D,
         Monitor!Deadlocked(D)'
  PROVE  wasTold'[t]
<1> USE LockdepAssumption
<1>1. \A u \in D : /\ pc'[u] = "locking"
                   /\ owner'[op'[u]] \in D
                   /\ ~Available(u, op[u])'
  BY DEF Monitor!Deadlocked, Monitor!Free, waitsFor, Available
<1>2. CircularWait(D)'
  BY <1>1 DEF CircularWait
<1>3. has_cycle(edges, op[t])'
  BY <1>2 DEF DeadlocksAreCycles
<1>4. warned'[t] = has_cycle(edges', l) /\ op'[t] = l
  BY DEF pthread_mutex_lock, lockdep_acquire_lock, Call, StackInv, Base, TypeOK
<1> QED BY <1>1, <1>3, <1>4 DEF wasTold

LEMMA MonitorInit == Init => Monitor!Init
  BY DEF Init, Monitor!Init, waitsFor, wasTold

LEMMA MonitorStep ==
  StackInv /\ StackInv' /\ DeadlocksAreCycles' /\ [Next]_vars
    => [Monitor!Next]_(Monitor!mvars)
<1> SUFFICES ASSUME StackInv, StackInv', DeadlocksAreCycles', [Next]_vars
             PROVE  Monitor!Next \/ UNCHANGED Monitor!mvars
  OBVIOUS
<1> USE LockdepAssumption DEF StackInv, Base
<1>a. \A t \in Thread : warned'[t] \in BOOLEAN
  BY DEF TypeOK
<1>1. ASSUME NEW t \in Thread, NEW l \in Lock, pthread_mutex_lock(t, l)
      PROVE  Monitor!Ask(t, l)
  <2>1. Shows(t, l, warned'[t])
    BY <1>1, CallShows, <1>a
    DEF pthread_mutex_lock, lockdep_acquire_lock, TypeOK
  <2>2. waitsFor[t] = None
    BY <1>1, AwakeShowsNothing DEF pthread_mutex_lock, MayAsk
  <2>3. \A D \in SUBSET Thread : t \in D /\ Monitor!Deadlocked(D)' => wasTold'[t]
    BY <1>1, AskIsTold
  <2> QED BY <1>1, <1>a, <2>1, <2>2, <2>3
          DEF Monitor!Ask, Shows, pthread_mutex_lock
<1>2. ASSUME NEW t \in Thread, Locked(t) PROVE Monitor!Get(t)
  <2>1. op[t] \in Lock /\ waitsFor[t] = op[t]
    BY <1>2 DEF Locked, CallsSound, waitsFor
  <2>2. Shows(t, None, FALSE)
    BY <1>2, CallShows, <1>a DEF Locked, Return, TypeOK
  <2> QED BY <1>2, <2>1, <2>2
          DEF Locked, real_pthread_mutex_lock, Available, Shows,
              Monitor!Get, Monitor!Own, Monitor!Free
<1>3. ASSUME NEW t \in Thread, NEW l \in Lock, pthread_mutex_trylock(t, l) PROVE Monitor!Take(t, l)
  <2>1. /\ pc[t] # "locking" /\ pc'[t] # "locking"
        /\ \A u \in Thread \ {t} :
             pc'[u] = pc[u] /\ op'[u] = op[u] /\ warned'[u] = warned[u]
    BY <1>3 DEF pthread_mutex_trylock, MayAsk, Call, TypeOK
  <2>2. UNCHANGED <<waitsFor, wasTold>>
    BY <2>1, AwakeStaysHidden
  <2> QED BY <1>3, <2>1, <2>2, AwakeShowsNothing
          DEF pthread_mutex_trylock, real_pthread_mutex_lock, Available,
              Monitor!Take, Monitor!Own, Monitor!Free
<1>4. ASSUME NEW t \in Thread, TryRecorded(t) PROVE UNCHANGED Monitor!mvars
  <2>1. /\ pc[t] # "locking" /\ pc'[t] # "locking"
        /\ \A u \in Thread \ {t} :
             pc'[u] = pc[u] /\ op'[u] = op[u] /\ warned'[u] = warned[u]
    BY <1>4 DEF TryRecorded, Return, lockdep_acquire_lock, Call, TypeOK
  <2>2. UNCHANGED <<waitsFor, wasTold>>
    BY <2>1, AwakeStaysHidden
  <2> QED BY <1>4, <2>2 DEF TryRecorded, Monitor!mvars
<1>5. ASSUME NEW t \in Thread, TryRefused(t) PROVE Monitor!Give(t, op[t])
  <2>1. /\ pc[t] # "locking" /\ pc'[t] # "locking"
        /\ \A u \in Thread \ {t} :
             pc'[u] = pc[u] /\ op'[u] = op[u] /\ warned'[u] = warned[u]
    BY <1>5 DEF TryRefused, Return, Call, TypeOK
  <2>2. UNCHANGED <<waitsFor, wasTold>>
    BY <2>1, AwakeStaysHidden
  <2>3. owner[op[t]] = t
    BY <1>5 DEF TryRefused, CallsSound
  <2> QED BY <1>5, <2>1, <2>2, <2>3, AwakeShowsNothing
          DEF TryRefused, real_pthread_mutex_unlock, Monitor!Give
<1>6. ASSUME NEW t \in Thread, NEW l \in Lock, pthread_mutex_unlock(t, l) PROVE Monitor!Give(t, l)
  <2>1. /\ pc[t] # "locking" /\ pc'[t] # "locking"
        /\ \A u \in Thread \ {t} :
             pc'[u] = pc[u] /\ op'[u] = op[u] /\ warned'[u] = warned[u]
    BY <1>6 DEF pthread_mutex_unlock, Call, TypeOK
  <2>2. UNCHANGED <<waitsFor, wasTold>>
    BY <2>1, AwakeStaysHidden
  <2> QED BY <1>6, <2>1, <2>2, AwakeShowsNothing
          DEF pthread_mutex_unlock, real_pthread_mutex_unlock, Monitor!Give
<1>7. ASSUME NEW t \in Thread, Unlocked(t) PROVE UNCHANGED Monitor!mvars
  <2>1. /\ pc[t] # "locking" /\ pc'[t] # "locking"
        /\ \A u \in Thread \ {t} :
             pc'[u] = pc[u] /\ op'[u] = op[u] /\ warned'[u] = warned[u]
    BY <1>7 DEF Unlocked, Return, lockdep_release_lock, Call, TypeOK
  <2>2. UNCHANGED <<waitsFor, wasTold>>
    BY <2>1, AwakeStaysHidden
  <2> QED BY <1>7, <2>2 DEF Unlocked, Monitor!mvars
<1>8. CASE UNCHANGED vars
  BY <1>8 DEF vars, Monitor!mvars, waitsFor, wasTold
<1>9. \A t \in Thread : pc[t] = "refused" => op[t] \in Lock
  BY DEF CallsSound
<1> QED
  BY <1>1, <1>2, <1>3, <1>4, <1>5, <1>6, <1>7, <1>8, <1>9
  DEF Next, Monitor!Next, TryRefused

\* The detector keeps the promise of DeadlockMonitor (ImplementsMonitor): the
\* mutexes are those of the program, and whoever completes a deadlock is told.
THEOREM DetectorIsAMonitor == Spec => ImplementsMonitor
<1>1. Spec => []StackInv
  BY InitStack, StackStep, PTL DEF Spec
<1>2. StackInv => DeadlocksAreCycles
  BY DeadlockIsCycle DEF DeadlocksAreCycles
<1> QED
  BY <1>1, <1>2, MonitorInit, MonitorStep, PTL DEF Spec, ImplementsMonitor, Monitor!Spec

----------------------------------------------------------------------------
(***************************************************************************)
(* The search of module LockdepDfs: it answers what has_cycle says, which  *)
(* the rest of this module goes by, for every graph, and leaves no mark    *)
(* behind.  The inductive invariant is SearchInv of LockdepDfs.            *)
(***************************************************************************)

\* A cycle is reached from a lock iff it is reached from one of its children.
LEMMA CycleByChild ==
  ASSUME NEW E, NEW l \in Lock, has_cycle(E, l)
  PROVE  \E c \in Children(E, l) : has_cycle(E, c)
  BY DEF has_cycle, Children

LEMMA InitSearch == SearchInit => SearchInv
  BY LockdepAssumption
  DEF SearchInit, SearchInv, SearchTypeOK, CallsFollowEdges, MarksAreThePath,
      SearchedIsAcyclic, FoundIsCycle, SearchIsExact, NoStaleMarks,
      Searching, OnlyIdleIsAcyclic

\* A call of has_cycle is a frame.
LEMMA CallIsFrame ==
  ASSUME NEW E, NEW l \in Lock
  PROVE  /\ has_cycle_of(E, l) \in Frame
         /\ has_cycle_of(E, l).lock = l
         /\ has_cycle_of(E, l).to_visit = Children(E, l)
  BY DEF has_cycle_of, Frame, Children

LEMMA StartStep ==
  ASSUME SearchInv, NEW l \in Lock, NEW E \in SUBSET (Lock \X Lock), has_deadlock(l, E)
  PROVE  SearchInv'
<1> USE DEF has_deadlock
<1>1. /\ frames' # <<>> /\ Len(frames') = 1 /\ DOMAIN frames' = {1}
      /\ frames'[1] = has_cycle_of(edges', l) /\ lock' = l
      /\ cycle_path' = <<>> /\ Len(cycle_path') = 0 /\ DOMAIN cycle_path' = {}
  OBVIOUS
<1>2. /\ frames'[1].lock = l
      /\ frames'[1].to_visit = Children(edges', l)
      /\ frames'[1] \in Frame
  BY <1>1, CallIsFrame
<1>3. SearchTypeOK'
  BY <1>1, <1>2 DEF SearchInv, SearchTypeOK
<1>4. CallsFollowEdges'
  <2>1. frames'[1].lock = lock' /\ Len(frames') = Len(cycle_path') + 1
    BY <1>1, <1>2
  <2>2. \A i \in DOMAIN frames' :
        frames'[i].to_visit \subseteq Children(edges', frames'[i].lock)
    <3>1. \A i \in DOMAIN frames' : i = 1
      BY <1>1
    <3> QED BY <1>2, <3>1
  <2>3. \A i \in DOMAIN cycle_path' : FALSE
    BY <1>1
  <2> QED BY <2>1, <2>2, <2>3 DEF CallsFollowEdges
<1>5. MarksAreThePath'
  BY <1>1 DEF SearchInv, NoStaleMarks, MarksAreThePath, SearchTypeOK
<1>6. SearchedIsAcyclic'
  BY <1>1, <1>2 DEF SearchedIsAcyclic
<1>7. FoundIsCycle' /\ SearchIsExact' /\ NoStaleMarks' /\ OnlyIdleIsAcyclic'
  BY <1>1 DEF FoundIsCycle, SearchIsExact, NoStaleMarks, OnlyIdleIsAcyclic
<1> QED BY <1>3, <1>4, <1>5, <1>6, <1>7 DEF SearchInv

\* What Visit does to the calls in progress and to the path, one by one.
LEMMA VisitFrames ==
  ASSUME SearchTypeOK, NEW c \in Lock, Visit(c)
  PROVE  LET n == Len(frames) IN
         /\ n \in Nat \ {0} /\ Len(frames') = n + 1
         /\ frames' \in Seq(Frame) /\ frames' # <<>>
         /\ \A i \in 1 .. n - 1 : frames'[i] = frames[i]
         /\ frames'[n].lock = frames[n].lock
         /\ frames'[n].to_visit = frames[n].to_visit \ {c}
         /\ frames'[n + 1].lock = c
         /\ frames'[n + 1].to_visit = Children(edges, c)
         /\ c \in frames[n].to_visit
<1> DEFINE n == Len(frames)
           f == [frames[n] EXCEPT !.to_visit = @ \ {c}]
<1>1. frames \in Seq(Frame) /\ n \in Nat \ {0} /\ n \in 1 .. Len(frames)
  BY LenProperties DEF SearchTypeOK, Visit, Searching
<1>2. frames[n] \in Frame
  BY <1>1
<1>3. f \in Frame /\ f.lock = frames[n].lock /\ f.to_visit = frames[n].to_visit \ {c}
  BY <1>2 DEF Frame
<1>4. Advance(c) = [frames EXCEPT ![n] = f]
  BY <1>1 DEF Advance
<1>5. /\ Advance(c) \in Seq(Frame) /\ Len(Advance(c)) = n
      /\ Advance(c)[n] = f
      /\ \A i \in 1 .. n - 1 : Advance(c)[i] = frames[i]
  <2> HIDE DEF f
  <2> QED BY <1>1, <1>3, <1>4, ExceptSeq
<1>6. frames' = Append(Advance(c), has_cycle_of(edges, c))
  BY DEF Visit
<1>7. /\ frames' \in Seq(Frame) /\ Len(frames') = n + 1
      /\ \A i \in 1 .. n : frames'[i] = Advance(c)[i]
      /\ frames'[n + 1] = has_cycle_of(edges, c)
  BY <1>5, <1>6, CallIsFrame, AppendProperties
<1>8. c \in frames[n].to_visit
  BY DEF Visit, Last
<1>9. frames'[n + 1].lock = c /\ frames'[n + 1].to_visit = Children(edges, c)
  BY <1>7, CallIsFrame
<1>10. \A i \in 1 .. n - 1 : frames'[i] = frames[i]
  BY <1>1, <1>5, <1>7
<1>11. frames'[n] = f
  BY <1>1, <1>5, <1>7
<1>12. frames' # <<>>
  BY <1>1, <1>7
<1> HIDE DEF f
<1> QED BY <1>1, <1>3, <1>7, <1>8, <1>9, <1>10, <1>11, <1>12

LEMMA VisitPath ==
  ASSUME SearchTypeOK, NEW c \in Lock, Visit(c)
  PROVE  LET m == Len(cycle_path) IN
         /\ m \in Nat /\ Len(cycle_path') = m + 1
         /\ cycle_path' \in Seq(Lock)
         /\ \A i \in 1 .. m : cycle_path'[i] = cycle_path[i]
         /\ cycle_path'[m + 1] = c
         /\ DOMAIN cycle_path = 1 .. m /\ DOMAIN cycle_path' = 1 .. m + 1
  BY AppendProperties, LenProperties DEF SearchTypeOK, Visit

LEMMA VisitStep ==
  ASSUME SearchInv, NEW c \in Lock, Visit(c)
  PROVE  SearchInv'
<1> DEFINE n == Len(frames)
           m == Len(cycle_path)
<1> USE DEF SearchInv
<1>1. /\ n \in Nat \ {0} /\ n = m + 1 /\ m \in Nat
      /\ frames # <<>> /\ Searching /\ ~was_visited[c]
      /\ UNCHANGED <<edges, lock, answer, printed>>
      /\ was_visited' = [was_visited EXCEPT ![c] = TRUE]
  BY VisitFrames, VisitPath DEF CallsFollowEdges, Visit, Searching
<1>2. /\ Len(frames') = n + 1 /\ frames' \in Seq(Frame) /\ frames' # <<>>
      /\ \A i \in 1 .. n - 1 : frames'[i] = frames[i]
      /\ frames'[n].lock = frames[n].lock
      /\ frames'[n].to_visit = frames[n].to_visit \ {c}
      /\ frames'[n + 1].lock = c
      /\ frames'[n + 1].to_visit = Children(edges, c)
      /\ c \in frames[n].to_visit
      /\ DOMAIN frames = 1 .. n /\ DOMAIN frames' = 1 .. n + 1
  BY VisitFrames, LenProperties DEF SearchTypeOK
<1>3. /\ Len(cycle_path') = m + 1 /\ cycle_path' \in Seq(Lock)
      /\ \A i \in 1 .. m : cycle_path'[i] = cycle_path[i]
      /\ cycle_path'[m + 1] = c
      /\ DOMAIN cycle_path = 1 .. m /\ DOMAIN cycle_path' = 1 .. m + 1
  BY VisitPath
<1> HIDE DEF n, m
<1>4. SearchTypeOK'
  BY <1>1, <1>2, <1>3 DEF SearchTypeOK
<1>5. \A i \in 1 .. n : frames'[i].lock = frames[i].lock
  BY <1>1, <1>2
<1>6. <<frames[n].lock, c>> \in edges
  BY <1>1, <1>2 DEF CallsFollowEdges, Children
<1>7. CallsFollowEdges'
  <2>1. frames'[1].lock = lock'
    BY <1>1, <1>5 DEF CallsFollowEdges
  <2>2. ASSUME NEW i \in DOMAIN cycle_path'
        PROVE  /\ frames'[i + 1].lock = cycle_path'[i]
               /\ <<frames'[i].lock, cycle_path'[i]>> \in edges'
    <3>1. CASE i = m + 1
      BY <1>1, <1>2, <1>3, <1>5, <1>6, <3>1
    <3>2. CASE i \in 1 .. m
      BY <1>1, <1>3, <1>5, <3>2 DEF CallsFollowEdges
    <3> QED BY <1>1, <1>3, <3>1, <3>2
  <2>3. ASSUME NEW i \in DOMAIN frames'
        PROVE  frames'[i].to_visit \subseteq Children(edges', frames'[i].lock)
    <3>1. CASE i = n + 1
      BY <1>1, <1>2, <3>1
    <3>2. CASE i \in 1 .. n
      <4>1. frames[i].to_visit \subseteq Children(edges, frames[i].lock)
        BY <1>1, <1>2, <3>2 DEF CallsFollowEdges
      <4>2. frames'[i].to_visit \subseteq frames[i].to_visit
        BY <1>1, <1>2, <3>2
      <4> QED BY <1>1, <1>5, <3>2, <4>1, <4>2
    <3> QED BY <1>1, <1>2, <3>1, <3>2
  <2> QED BY <1>1, <1>2, <1>3, <2>1, <2>2, <2>3 DEF CallsFollowEdges
<1>8. MarksAreThePath'
  <2>1. \A i \in 1 .. m : cycle_path[i] # c
    BY <1>1, <1>3 DEF MarksAreThePath
  <2>2. ASSUME NEW l \in Lock
        PROVE  was_visited'[l] <=> \E i \in DOMAIN cycle_path' : cycle_path'[i] = l
    <3>1. CASE l = c
      BY <1>1, <1>3, <3>1 DEF SearchTypeOK
    <3>2. CASE l # c
      <4>1. was_visited'[l] <=> \E i \in 1 .. m : cycle_path[i] = l
        BY <1>1, <1>3, <3>2 DEF MarksAreThePath, SearchTypeOK
      <4>2. (\E i \in 1 .. m : cycle_path[i] = l) <=> \E i \in 1 .. m + 1 : cycle_path'[i] = l
        BY <1>1, <1>3, <3>2
      <4> QED BY <1>3, <4>1, <4>2
    <3> QED BY <3>1, <3>2
  <2>3. \A i, j \in DOMAIN cycle_path' : cycle_path'[i] = cycle_path'[j] => i = j
    BY <1>1, <1>3, <2>1 DEF MarksAreThePath
  <2> QED BY <2>2, <2>3 DEF MarksAreThePath
<1>9. SearchedIsAcyclic'
  <2> SUFFICES ASSUME NEW i \in DOMAIN frames',
                      NEW d \in Children(edges, frames'[i].lock) \ frames'[i].to_visit,
                      has_cycle(edges, d)
               PROVE  i < n + 1 /\ d = frames'[i + 1].lock
    BY <1>1, <1>2 DEF SearchedIsAcyclic
  <2>1. CASE i = n + 1
    BY <1>2, <2>1
  <2>2. CASE i = n
    <3>1. CASE d = c
      BY <1>1, <1>2, <2>2, <3>1
    <3>2. CASE d # c
      BY <1>1, <1>2, <2>2, <3>2 DEF SearchedIsAcyclic, n
    <3> QED BY <3>1, <3>2
  <2>3. CASE i \in 1 .. n - 1
    <3>1. d = frames[i + 1].lock
      BY <1>1, <1>2, <2>3 DEF SearchedIsAcyclic
    <3> QED BY <1>1, <1>5, <2>3, <3>1
  <2> QED BY <1>1, <1>2, <2>1, <2>2, <2>3
<1>10. FoundIsCycle' /\ SearchIsExact' /\ NoStaleMarks' /\ OnlyIdleIsAcyclic'
  BY <1>1, <1>2
  DEF FoundIsCycle, SearchIsExact, NoStaleMarks, OnlyIdleIsAcyclic,
      Searching
<1> QED BY <1>4, <1>7, <1>8, <1>9, <1>10

\* The locks of the calls in progress, when the last has a child among them.
LEMMA PrintStep ==
  ASSUME SearchInv, NEW c \in Lock, print_cycle(c)
  PROVE  SearchInv'
<1> USE DEF SearchInv
<1>1. /\ frames # <<>> /\ frames' = frames /\ edges' = edges /\ lock' = lock
      /\ cycle_path' = cycle_path /\ was_visited' = was_visited
      /\ answer' = "cycle" /\ printed' = Append(cycle_path, c)
  BY DEF print_cycle, Searching
<1>2. /\ Len(frames) = Len(cycle_path) + 1 /\ DOMAIN frames = 1 .. Len(frames)
      /\ DOMAIN cycle_path = 1 .. Len(cycle_path) /\ Len(cycle_path) \in Nat
      /\ \A i \in 1 .. Len(frames) : frames[i].lock \in Lock
  <2>1. frames \in Seq(Frame) /\ cycle_path \in Seq(Lock)
    BY DEF SearchTypeOK
  <2>2. \A i \in 1 .. Len(frames) : frames[i] \in Frame
    BY <2>1
  <2>3. \A i \in 1 .. Len(frames) : frames[i].lock \in Lock
    BY <2>2 DEF Frame
  <2> QED BY <1>1, <2>1, <2>3, LenProperties DEF CallsFollowEdges
<1>3. has_cycle(edges, lock)
  <2> DEFINE S == {frames[i].lock : i \in 1 .. Len(frames)}
  <2>1. PICK j \in DOMAIN cycle_path : cycle_path[j] = c
    BY <1>1 DEF print_cycle, MarksAreThePath
  <2>2. c \in S
    <3>1. frames[j + 1].lock = c
      BY <1>1, <2>1 DEF CallsFollowEdges
    <3>2. j + 1 \in 1 .. Len(frames)
      BY <1>2, <2>1
    <3> QED BY <3>1, <3>2
  <2>3. <<frames[Len(frames)].lock, c>> \in edges
    BY <1>1, <1>2 DEF print_cycle, Last, CallsFollowEdges, Children
  <2>4. ASSUME NEW i \in 1 .. Len(frames)
        PROVE  \E b \in S : <<frames[i].lock, b>> \in edges
    <3>1. CASE i = Len(frames)
      BY <2>2, <2>3, <3>1
    <3>2. CASE i < Len(frames)
      <4>1. i \in DOMAIN cycle_path /\ i + 1 \in 1 .. Len(frames)
        BY <1>1, <1>2, <3>2 DEF CallsFollowEdges
      <4>2. <<frames[i].lock, frames[i + 1].lock>> \in edges
        BY <1>1, <4>1 DEF CallsFollowEdges
      <4>3. frames[i + 1].lock \in S
        BY <4>1
      <4> QED BY <4>2, <4>3
    <3>3. i = Len(frames) \/ i < Len(frames)
      BY <1>2
    <3> QED BY <3>1, <3>2, <3>3
  <2>5. lock \in S
    BY <1>1, <1>2 DEF CallsFollowEdges
  <2>6. S \in SUBSET Lock
    BY <1>2
  <2>7. \A a \in S : \E b \in S : <<a, b>> \in edges
    BY <2>4
  <2> QED BY <2>5, <2>6, <2>7 DEF has_cycle
<1>4. SearchTypeOK'
  BY <1>1, AppendProperties DEF SearchTypeOK
<1>5. CallsFollowEdges' /\ MarksAreThePath'
  BY <1>1 DEF CallsFollowEdges, MarksAreThePath, Children
<1>6. /\ SearchedIsAcyclic' /\ FoundIsCycle' /\ SearchIsExact'
      /\ NoStaleMarks' /\ OnlyIdleIsAcyclic'
  BY <1>1, <1>3
  DEF SearchedIsAcyclic, FoundIsCycle, SearchIsExact, NoStaleMarks,
      OnlyIdleIsAcyclic, Searching
<1> QED BY <1>4, <1>5, <1>6

\* A call without children left leads to no cycle.
LEMMA ExhaustedIsAcyclic ==
  ASSUME SearchInv, Searching, Last(frames).to_visit = {}
  PROVE  ~has_cycle(edges, frames[Len(frames)].lock)
<1> DEFINE n == Len(frames)
<1>1. n \in Nat \ {0} /\ n \in DOMAIN frames /\ frames[n].lock \in Lock
  <2>1. frames \in Seq(Frame) /\ frames # <<>>
    BY DEF SearchInv, SearchTypeOK, Searching
  <2>2. n \in Nat \ {0} /\ DOMAIN frames = 1 .. n
    BY <2>1, LenProperties
  <2>3. frames[n] \in Frame
    BY <2>1, <2>2
  <2> QED BY <2>2, <2>3 DEF Frame
<1>2. \A c \in Children(edges, frames[n].lock) : ~has_cycle(edges, c)
  BY <1>1 DEF SearchInv, SearchedIsAcyclic, Last
<1> QED BY <1>1, <1>2, CycleByChild

LEMMA ReturnStep == SearchInv /\ Backtrack => SearchInv'
<1> SUFFICES ASSUME SearchInv, Backtrack PROVE SearchInv'
  OBVIOUS
<1> USE DEF SearchInv
<1> DEFINE n == Len(frames)
           m == Len(cycle_path)
           gone == frames[n].lock
<1>1. /\ n \in Nat /\ n > 1 /\ n = m + 1 /\ m \in Nat
      /\ frames \in Seq(Frame) /\ cycle_path \in Seq(Lock) /\ frames # <<>>
      /\ DOMAIN frames = 1 .. n /\ DOMAIN cycle_path = 1 .. m
      /\ UNCHANGED <<edges, lock, answer, printed>>
      /\ was_visited' = [was_visited EXCEPT ![gone] = FALSE]
  BY LenProperties DEF SearchTypeOK, CallsFollowEdges, Backtrack, Returning, Last
<1>2. /\ frames' \in Seq(Frame) /\ Len(frames') = m /\ frames' # <<>>
      /\ \A i \in 1 .. m : frames'[i] = frames[i]
      /\ DOMAIN frames' = 1 .. m
  <2>1. frames' = SubSeq(frames, 1, n - 1)
    BY DEF Backtrack, Front
  <2>2. \A i \in 1 .. n - 1 : frames[i] \in Frame
    BY <1>1
  <2>3. /\ frames' \in Seq(Frame) /\ Len(frames') = m
        /\ \A i \in 1 .. m : frames'[i] = frames[i]
    BY <1>1, <2>1, <2>2, SubSeqProperties
  <2> QED BY <1>1, <2>3, LenProperties
<1>3. /\ cycle_path' \in Seq(Lock) /\ Len(cycle_path') = m - 1
      /\ \A i \in 1 .. m - 1 : cycle_path'[i] = cycle_path[i]
      /\ DOMAIN cycle_path' = 1 .. m - 1
  <2>1. cycle_path' = SubSeq(cycle_path, 1, m - 1)
    BY DEF Backtrack, Front
  <2>2. \A i \in 1 .. m - 1 : cycle_path[i] \in Lock
    BY <1>1
  <2>3. /\ cycle_path' \in Seq(Lock) /\ Len(cycle_path') = m - 1
        /\ \A i \in 1 .. m - 1 : cycle_path'[i] = cycle_path[i]
    BY <1>1, <2>1, <2>2, SubSeqProperties
  <2> QED BY <1>1, <2>3, LenProperties
<1>4. gone = cycle_path[m] /\ gone \in Lock
  <2>1. m \in DOMAIN cycle_path /\ cycle_path[m] \in Lock
    BY <1>1
  <2>2. frames[m + 1].lock = cycle_path[m]
    BY <1>1, <2>1 DEF CallsFollowEdges
  <2> QED BY <1>1, <2>1, <2>2
<1> HIDE DEF n, m, gone
<1>5. SearchTypeOK'
  BY <1>1, <1>2, <1>3, <1>4 DEF SearchTypeOK
<1>6. CallsFollowEdges'
  <2>1. Len(frames') = Len(cycle_path') + 1 /\ frames'[1].lock = lock'
    BY <1>1, <1>2, <1>3 DEF CallsFollowEdges
  <2>2. ASSUME NEW i \in DOMAIN cycle_path'
        PROVE  /\ frames'[i + 1].lock = cycle_path'[i]
               /\ <<frames'[i].lock, cycle_path'[i]>> \in edges'
    <3>1. /\ i \in DOMAIN cycle_path /\ cycle_path'[i] = cycle_path[i]
          /\ frames'[i] = frames[i] /\ frames'[i + 1] = frames[i + 1]
      BY <1>1, <1>2, <1>3
    <3> QED BY <1>1, <3>1 DEF CallsFollowEdges
  <2>3. ASSUME NEW i \in DOMAIN frames'
        PROVE  frames'[i].to_visit \subseteq Children(edges', frames'[i].lock)
    <3>1. i \in DOMAIN frames /\ frames'[i] = frames[i]
      BY <1>1, <1>2
    <3> QED BY <1>1, <3>1 DEF CallsFollowEdges
  <2> QED BY <2>1, <2>2, <2>3 DEF CallsFollowEdges
<1>7. MarksAreThePath'
  <2>1. \A i \in 1 .. m - 1 : cycle_path[i] # gone
    BY <1>1, <1>4 DEF MarksAreThePath
  <2>2. ASSUME NEW l \in Lock
        PROVE  was_visited'[l] <=> \E i \in DOMAIN cycle_path' : cycle_path'[i] = l
    <3>1. CASE l = gone
      BY <1>1, <1>3, <2>1, <3>1 DEF SearchTypeOK
    <3>2. CASE l # gone
      <4>1. was_visited'[l] <=> \E i \in 1 .. m : cycle_path[i] = l
        BY <1>1, <3>2 DEF MarksAreThePath, SearchTypeOK
      <4>2. (\E i \in 1 .. m : cycle_path[i] = l) <=> \E i \in 1 .. m - 1 : cycle_path[i] = l
        BY <1>1, <1>4, <3>2
      <4> QED BY <1>3, <4>1, <4>2
    <3> QED BY <3>1, <3>2
  <2>3. \A i, j \in DOMAIN cycle_path' : cycle_path'[i] = cycle_path'[j] => i = j
    BY <1>1, <1>3 DEF MarksAreThePath
  <2> QED BY <2>2, <2>3 DEF MarksAreThePath
<1>8. SearchedIsAcyclic'
  <2> SUFFICES ASSUME Searching, NEW i \in DOMAIN frames',
                      NEW d \in Children(edges, frames'[i].lock) \ frames'[i].to_visit,
                      has_cycle(edges, d)
               PROVE  i < m /\ d = frames'[i + 1].lock
    BY <1>1, <1>2 DEF SearchedIsAcyclic, Searching
  <2>1. ~has_cycle(edges, gone)
    BY ExhaustedIsAcyclic DEF Backtrack, Returning, Searching, gone, n
  <2>2. d = frames[i + 1].lock
    BY <1>1, <1>2 DEF SearchedIsAcyclic, n
  <2>3. i # m
    BY <1>1, <2>1, <2>2 DEF gone
  <2> QED BY <1>1, <1>2, <2>2, <2>3
<1>9. FoundIsCycle' /\ SearchIsExact' /\ NoStaleMarks' /\ OnlyIdleIsAcyclic'
  BY <1>1, <1>2
  DEF FoundIsCycle, SearchIsExact, NoStaleMarks, OnlyIdleIsAcyclic
<1> QED BY <1>5, <1>6, <1>7, <1>8, <1>9

LEMMA FinishStep == SearchInv /\ Finish => SearchInv'
<1> SUFFICES ASSUME SearchInv, Finish PROVE SearchInv'
  OBVIOUS
<1> USE DEF SearchInv
<1>1. /\ frames # <<>> /\ Len(frames) = 1 /\ frames' = <<>>
      /\ UNCHANGED <<edges, lock, cycle_path, printed>>
      /\ Len(cycle_path) = 0 /\ DOMAIN cycle_path = {} /\ frames[1].lock = lock
  BY LenProperties DEF Finish, Returning, CallsFollowEdges, SearchTypeOK
<1>2. \A l \in Lock : ~was_visited'[l]
  BY <1>1 DEF Finish, MarksAreThePath
<1>3. answer' = "cycle" <=> has_cycle(edges, lock)
  <2>1. CASE answer = "cycle"
    BY <2>1 DEF Finish, FoundIsCycle
  <2>2. CASE answer # "cycle"
    <3>1. Last(frames).to_visit = {} /\ answer' = "acyclic"
      BY <2>2 DEF Finish, Returning
    <3>2. CASE answer = "searching"
      BY <1>1, <3>1, <3>2, ExhaustedIsAcyclic DEF Searching
    <3>3. CASE answer = "acyclic"
      BY <1>1, <3>3 DEF OnlyIdleIsAcyclic
    <3> QED BY <2>2, <3>2, <3>3 DEF SearchTypeOK
  <2> QED BY <2>1, <2>2
<1>4. SearchTypeOK'
  <2>1. frames' \in Seq(Frame)
    BY <1>1
  <2>2. was_visited' \in [Lock -> BOOLEAN] /\ answer' \in {"searching", "cycle", "acyclic"}
    BY DEF Finish, SearchTypeOK
  <2> QED BY <1>1, <2>1, <2>2 DEF SearchTypeOK
<1>5. CallsFollowEdges' /\ MarksAreThePath' /\ SearchedIsAcyclic'
  BY <1>1
  DEF CallsFollowEdges, MarksAreThePath, SearchedIsAcyclic, Searching
<1>6. FoundIsCycle' /\ SearchIsExact' /\ NoStaleMarks' /\ OnlyIdleIsAcyclic'
  BY <1>1, <1>2, <1>3
  DEF FoundIsCycle, SearchIsExact, NoStaleMarks, OnlyIdleIsAcyclic
<1> QED BY <1>4, <1>5, <1>6

LEMMA StepSearch == SearchInv /\ [SearchNext]_search_vars => SearchInv'
<1> SUFFICES ASSUME SearchInv, [SearchNext]_search_vars PROVE SearchInv'
  OBVIOUS
<1>1. CASE Acquire
  <2>1. \A l \in Lock : {} \in SUBSET (Lock \X Lock)
                        /\ \A k \in Lock : {<<k, l>>} \in SUBSET (Lock \X Lock)
    OBVIOUS
  <2> QED BY <1>1, <2>1, StartStep DEF Acquire
<1>2. CASE Step
  BY <1>2, VisitStep, PrintStep, ReturnStep, FinishStep DEF Step
<1>3. CASE UNCHANGED search_vars
  BY <1>3 DEF search_vars, SearchInv, SearchTypeOK, CallsFollowEdges, MarksAreThePath,
              SearchedIsAcyclic, FoundIsCycle, SearchIsExact, NoStaleMarks,
              Searching, OnlyIdleIsAcyclic
<1> QED BY <1>1, <1>2, <1>3 DEF SearchNext

THEOREM SearchInvariantHolds == SearchSpec => []SearchInv
  BY InitSearch, StepSearch, PTL DEF SearchSpec

\* Whatever the locks and the order of acquisitions, the depth-first search
\* answers true iff a cycle can be reached (SearchIsExact).
THEOREM SearchExact == SearchSpec => []SearchIsExact
<1>1. SearchInv => SearchIsExact
  BY DEF SearchInv
<1> QED BY <1>1, SearchInvariantHolds, PTL

\* No search leaves a mark for the next one (NoStaleMarks).
THEOREM MarksAreCleared == SearchSpec => []NoStaleMarks
<1>1. SearchInv => NoStaleMarks
  BY DEF SearchInv
<1> QED BY <1>1, SearchInvariantHolds, PTL

\* The report: the path follows the edges, and its last lock has an edge to the
\* closing one, which is marked, hence on the path.
LEMMA ReportStep == SearchInv /\ ReportIsCycle /\ [SearchNext]_search_vars => ReportIsCycle'
<1> SUFFICES ASSUME SearchInv, ReportIsCycle, [SearchNext]_search_vars PROVE ReportIsCycle'
  OBVIOUS
<1> USE DEF SearchInv
<1>1. ASSUME NEW c \in Lock, print_cycle(c) PROVE ReportIsCycle'
  <2> DEFINE m == Len(cycle_path)
  <2>1. /\ frames # <<>> /\ edges' = edges /\ lock' = lock
        /\ printed' = Append(cycle_path, c) /\ was_visited[c]
    BY <1>1 DEF print_cycle, Searching
  <2>2. /\ m \in Nat /\ DOMAIN cycle_path = 1 .. m /\ Len(printed') = m + 1
        /\ \A i \in 1 .. m : printed'[i] = cycle_path[i]
        /\ printed'[m + 1] = c
    BY <2>1, AppendProperties, LenProperties DEF SearchTypeOK
  <2>3. PICK j \in 1 .. m : cycle_path[j] = c
    BY <2>1, <2>2 DEF MarksAreThePath
  <2>4. <<lock, printed'[1]>> \in edges
    <3>1. 1 \in DOMAIN cycle_path
      BY <2>2, <2>3
    <3> QED BY <2>1, <2>2, <3>1 DEF CallsFollowEdges
  <2>5. ASSUME NEW i \in 1 .. m
        PROVE  <<printed'[i], printed'[i + 1]>> \in edges
    <3>1. frames[i + 1].lock = printed'[i]
      BY <2>1, <2>2 DEF CallsFollowEdges
    <3>2. CASE i = m
      <4>1. <<frames[m + 1].lock, c>> \in edges
        BY <1>1, <2>1, <2>2, LenProperties
        DEF print_cycle, Last, CallsFollowEdges, Children, SearchTypeOK
      <4> QED BY <2>2, <3>1, <3>2, <4>1
    <3>3. CASE i < m
      <4>1. i + 1 \in DOMAIN cycle_path
        BY <2>2, <3>3
      <4>2. <<frames[i + 1].lock, cycle_path[i + 1]>> \in edges
        BY <2>1, <4>1 DEF CallsFollowEdges
      <4> QED BY <2>2, <3>1, <4>1, <4>2
    <3>4. i = m \/ i < m
      <4>1. m \in Nat
        BY <2>2
      <4> HIDE DEF m
      <4> QED BY <4>1
    <3> QED BY <3>2, <3>3, <3>4
  <2>6. printed'[j] = Last(printed')
    BY <2>2, <2>3 DEF Last
  <2>7. Len(printed') - 1 = m
    BY <2>2
  <2> HIDE DEF m
  <2> QED BY <2>1, <2>4, <2>5, <2>6, <2>7 DEF ReportIsCycle
<1>2. ASSUME NEW l, NEW E, has_deadlock(l, E) PROVE ReportIsCycle'
  BY <1>2 DEF has_deadlock, ReportIsCycle
<1>3. CASE UNCHANGED <<printed, edges, lock>>
  BY <1>3 DEF ReportIsCycle, Last
<1> QED
  BY <1>1, <1>2, <1>3
  DEF SearchNext, Acquire, Step, search_vars, Visit, Backtrack, Finish

\* The locks of a deadlock report end in a cycle of the graph that the lock
\* asked for leads to (ReportIsCycle).
THEOREM ReportsAreCycles == SearchSpec => []ReportIsCycle
<1>1. SearchInit => ReportIsCycle
  BY DEF SearchInit, ReportIsCycle
<1> QED BY <1>1, SearchInvariantHolds, ReportStep, PTL DEF SearchSpec

----------------------------------------------------------------------------
(* The lists of the hub's copy: what a release leaves.                    *)

\* k is what is left of the first n elements of s without l: idx gives the
\* place in s of each element of k.
Left(s, l, n, k, idx) ==
  /\ k \in Seq(Lock)
  /\ idx \in [1 .. Len(k) -> 1 .. n]
  /\ \A i, j \in 1 .. Len(k) : i < j => idx[i] < idx[j]
  /\ \A i \in 1 .. Len(k) : k[i] = s[idx[i]]
  /\ \A j \in 1 .. n : s[j] # l <=> \E i \in 1 .. Len(k) : idx[i] = j

\* One element more is kept, or is a record of l and left out.
LEMMA LeftNext ==
  ASSUME NEW s \in Seq(Lock), NEW l, NEW n \in 1 .. Len(s), NEW k, NEW idx,
         Left(s, l, n - 1, k, idx)
  PROVE  \E x : Left(s, l, n, IF s[n] = l THEN k ELSE Append(k, s[n]), x)
<1> USE DEF Left
<1>0. s[n] \in Lock /\ n \in Nat /\ k \in Seq(Lock) /\ Len(k) \in Nat
  BY ElementOfSeq
<1>1. CASE s[n] = l
  <2>1. idx \in [1 .. Len(k) -> 1 .. n]
    BY <1>0
  <2>2. ASSUME NEW j \in 1 .. n PROVE s[j] # l <=> \E i \in 1 .. Len(k) : idx[i] = j
    <3>1. CASE j = n
      BY <1>0, <1>1, <3>1
    <3>2. CASE j # n
      <4>1. j \in 1 .. n - 1
        BY <1>0, <3>2
      <4> QED BY <4>1
    <3> QED BY <3>1, <3>2
  <2> QED BY <1>1, <2>1, <2>2
<1>2. CASE s[n] # l
  <2>1. PICK m : m = Append(k, s[n])
    OBVIOUS
  <2>2. /\ m \in Seq(Lock) /\ Len(m) = Len(k) + 1 /\ m[Len(k) + 1] = s[n]
        /\ \A i \in 1 .. Len(k) : m[i] = k[i]
    BY <1>0, <2>1
  <2>3. PICK x : x = [i \in 1 .. Len(k) + 1 |-> IF i <= Len(k) THEN idx[i] ELSE n]
    OBVIOUS
  <2>4. ASSUME NEW i \in 1 .. Len(k) + 1
        PROVE  \/ i \in 1 .. Len(k) /\ x[i] = idx[i] /\ idx[i] \in 1 .. n - 1
               \/ i = Len(k) + 1 /\ x[i] = n
    <3>1. x[i] = IF i <= Len(k) THEN idx[i] ELSE n
      BY <2>3
    <3>2. CASE i <= Len(k)
      <4>1. i \in 1 .. Len(k)
        BY <1>0, <3>2
      <4> QED BY <3>1, <3>2, <4>1
    <3>3. CASE ~(i <= Len(k))
      <4>1. i = Len(k) + 1
        BY <1>0, <3>3
      <4> QED BY <3>1, <3>3, <4>1
    <3> QED BY <3>2, <3>3
  <2>5. x \in [1 .. Len(m) -> 1 .. n]
    BY <1>0, <2>2, <2>3, <2>4
  <2>6. ASSUME NEW i \in 1 .. Len(m), NEW j \in 1 .. Len(m), i < j
        PROVE  x[i] < x[j]
    BY <1>0, <2>2, <2>4, <2>6
  <2>7. \A i \in 1 .. Len(m) : m[i] = s[x[i]]
    BY <1>0, <2>2, <2>4
  <2>8. ASSUME NEW j \in 1 .. n PROVE s[j] # l <=> \E i \in 1 .. Len(m) : x[i] = j
    <3>1. CASE j = n
      <4>1. Len(k) + 1 \in 1 .. Len(m) /\ x[Len(k) + 1] = n
        BY <1>0, <2>2, <2>3
      <4> QED BY <1>2, <3>1, <4>1
    <3>2. CASE j # n
      <4>1. j \in 1 .. n - 1
        BY <1>0, <3>2
      <4>2. s[j] # l <=> \E i \in 1 .. Len(k) : idx[i] = j
        BY <4>1
      <4>3. \A i \in 1 .. Len(m) : x[i] = j => i \in 1 .. Len(k) /\ idx[i] = j
        BY <1>0, <2>2, <2>4, <3>2
      <4>4. \A i \in 1 .. Len(k) : i \in 1 .. Len(m) /\ x[i] = idx[i]
        BY <1>0, <2>2, <2>3
      <4> QED BY <4>2, <4>3, <4>4
    <3> QED BY <3>1, <3>2
  <2>9. Left(s, l, n, m, x)
    BY <2>2, <2>5, <2>6, <2>7, <2>8
  <2>10. (IF s[n] = l THEN k ELSE Append(k, s[n])) = m
    BY <1>2, <2>1
  <2> HIDE DEF Left
  <2> QED BY <2>9, <2>10
<1> QED BY <1>1, <1>2

\* What without says of its function, for the first m elements; there is one.
Unlinks(s, l, m, f) ==
  f = [n \in 0 .. m |-> IF n = 0 THEN <<>>
                        ELSE IF s[n] = l THEN f[n - 1] ELSE Append(f[n - 1], s[n])]

\* The function of without exists: each value needs the one before.
LEMMA KeptExists ==
  ASSUME NEW s \in Seq(Lock), NEW l
  PROVE  \E f : Unlinks(s, l, Len(s), f)
<1> DEFINE S == {m \in Nat : ~\E f : Unlinks(s, l, m, f)}
<1>1. \E f : Unlinks(s, l, 0, f)
  <2>1. PICK f : f = [n \in 0 .. 0 |-> <<>>]
    OBVIOUS
  <2>2. \A n \in 0 .. 0 : n = 0
    OBVIOUS
  <2>3. Unlinks(s, l, 0, f)
    BY <2>1, <2>2 DEF Unlinks
  <2> QED BY <2>3
<1>2. ASSUME NEW m \in Nat, NEW f, Unlinks(s, l, m, f)
      PROVE  \E g : Unlinks(s, l, m + 1, g)
  <2> DEFINE Kept(h, n) == IF n = 0 THEN <<>>
                           ELSE IF s[n] = l THEN h[n - 1] ELSE Append(h[n - 1], s[n])
  <2>1. PICK g : g = [n \in 0 .. m + 1 |-> Kept(f, n)]
    OBVIOUS
  <2>2. \A n \in 0 .. m : g[n] = f[n]
    <3>1. f = [n \in 0 .. m |-> Kept(f, n)]
      BY <1>2 DEF Unlinks
    <3>2. ASSUME NEW n \in 0 .. m PROVE g[n] = f[n]
      <4>1. n \in 0 .. m + 1
        OBVIOUS
      <4> HIDE DEF Kept
      <4>2. f[n] = Kept(f, n)
        BY <3>1, Zenon
      <4> QED BY <2>1, <4>1, <4>2, Zenon
    <3> QED BY <3>2
  <2>3. \A n \in 0 .. m + 1 : n # 0 => n - 1 \in 0 .. m
    OBVIOUS
  <2>4. \A n \in 0 .. m + 1 : Kept(f, n) = Kept(g, n)
    BY <2>2, <2>3
  <2>5. g = [n \in 0 .. m + 1 |-> Kept(g, n)]
    BY <2>1, <2>4
  <2> QED BY <2>5 DEF Unlinks
<1>3. ASSUME S # {} PROVE FALSE
  <2>1. S \in SUBSET Nat
    OBVIOUS
  <2>2. PICK m \in S : \A x \in S : m <= x
    <3> HIDE DEF S
    <3> QED BY <1>3, <2>1, NatHasLeast
  <2>3. m \in Nat /\ ~\E f : Unlinks(s, l, m, f)
    OBVIOUS
  <2>4. m # 0
    BY <1>1, <2>3
  <2>5. m - 1 \in Nat /\ m - 1 \notin S
    BY <2>2, <2>3, <2>4
  <2>6. \E f : Unlinks(s, l, m - 1, f)
    BY <2>5
  <2>7. \E f : Unlinks(s, l, m - 1 + 1, f)
    BY <1>2, <2>5, <2>6
  <2>8. m - 1 + 1 = m
    BY <2>3
  <2> QED BY <2>3, <2>7, <2>8
<1>4. Len(s) \in Nat
  OBVIOUS
<1>5. \E f : Unlinks(s, l, Len(s), f)
  BY <1>3, <1>4
<1> QED BY <1>5

\* Releasing unlinks the records of the lock and keeps the others in order.
LEMMA WithoutKeeps ==
  ASSUME NEW s \in Seq(Lock), NEW l
  PROVE  \E idx : Left(s, l, Len(s), without(s, l), idx)
<1>1. PICK N \in Nat : N = Len(s)
  OBVIOUS
<1>2. PICK f : Unlinks(s, l, N, f) /\ without(s, l) = f[N]
  <2>1. \E f : Unlinks(s, l, Len(s), f)
    BY KeptExists
  <2>2. Unlinks(s, l, Len(s), CHOOSE f : Unlinks(s, l, Len(s), f))
    BY <2>1, Zenon
  <2>3. without(s, l) = (CHOOSE f : Unlinks(s, l, Len(s), f))[Len(s)]
    BY DEF without, Unlinks
  <2> QED BY <1>1, <2>2, <2>3
<1>3. f[0] = <<>> /\ \A n \in 1 .. N :
        f[n] = IF s[n] = l THEN f[n - 1] ELSE Append(f[n - 1], s[n])
  <2> DEFINE Kept(h, n) == IF n = 0 THEN <<>>
                           ELSE IF s[n] = l THEN h[n - 1] ELSE Append(h[n - 1], s[n])
  <2>1. f = [n \in 0 .. N |-> Kept(f, n)]
    BY <1>2 DEF Unlinks
  <2>2. \A n \in 0 .. N : f[n] = Kept(f, n)
    <3> HIDE DEF Kept
    <3> QED BY <2>1, Zenon
  <2> QED BY <2>2
<1> DEFINE S == {n \in 0 .. N : ~\E idx : Left(s, l, n, f[n], idx)}
<1>4. ASSUME S # {} PROVE FALSE
  <2>1. S \in SUBSET Nat
    OBVIOUS
  <2>2. PICK n \in S : \A x \in S : n <= x
    <3> HIDE DEF S
    <3> QED BY <1>4, <2>1, NatHasLeast
  <2>3. CASE n = 0
    <3>1. PICK z : z = <<>>
      OBVIOUS
    <3>2. PICK idx : idx = [i \in 1 .. 0 |-> i]
      OBVIOUS
    <3>3. Left(s, l, 0, z, idx)
      BY <3>1, <3>2 DEF Left
    <3> QED BY <1>3, <2>3, <3>1, <3>3
  <2>4. CASE n # 0
    <3>1. n \in 1 .. N /\ n - 1 \in 0 .. N /\ n - 1 \notin S
      BY <2>2, <2>4
    <3>2. PICK idx : Left(s, l, n - 1, f[n - 1], idx)
      BY <3>1
    <3>3. \E x : Left(s, l, n, IF s[n] = l THEN f[n - 1] ELSE Append(f[n - 1], s[n]), x)
      BY <1>1, <3>1, <3>2, LeftNext
    <3>4. f[n] = IF s[n] = l THEN f[n - 1] ELSE Append(f[n - 1], s[n])
      BY <1>3, <3>1
    <3>5. \E x : Left(s, l, n, f[n], x)
      BY <3>3, <3>4
    <3> QED BY <3>5
  <2> QED BY <2>3, <2>4
<1>5. N \in 0 .. N
  OBVIOUS
<1> QED BY <1>1, <1>2, <1>4, <1>5
----------------------------------------------------------------------------
(* The stacks.                                                            *)

\* A list with its stamps is the set in the order of the stamps.
LEMMA StampedAgrees ==
  ASSUME NEW s \in Seq(Lock), NEW H, NEW at, Stamped(s, H, at)
  PROVE  /\ Len(s) = Cardinality(H)
         /\ \A r \in H : s[1 + Cardinality({q \in H : q.at > r.at})] = r.lock
<1> USE LockdepAssumption
<1>1. PICK N \in Nat : N = Len(s)
  OBVIOUS
<1>2. PICK rec : rec = [i \in 1 .. N |-> [lock |-> s[i], at |-> at[i]]]
  OBVIOUS
<1>3. /\ \A i \in 1 .. N : at[i] \in Int
      /\ \A i, j \in 1 .. N : i < j => at[i] > at[j]
      /\ \A i \in 1 .. N : rec[i].at = at[i] /\ rec[i].lock = s[i]
      /\ H = {rec[i] : i \in 1 .. N}
  <2>1. /\ at \in [1 .. N -> Stamp]
        /\ \A i, j \in 1 .. N : i < j => at[i] > at[j]
        /\ H = {[lock |-> s[i], at |-> at[i]] : i \in 1 .. N}
    BY <1>1 DEF Stamped
  <2>2. \A i \in 1 .. N : rec[i] = [lock |-> s[i], at |-> at[i]]
    BY <1>2
  <2>3. H = {rec[i] : i \in 1 .. N}
    BY <2>1, <2>2
  <2>4. \A i \in 1 .. N : at[i] \in Int
    BY <2>1 DEF Stamp
  <2>5. ASSUME NEW i \in 1 .. N PROVE rec[i].at = at[i] /\ rec[i].lock = s[i]
    <3>1. rec[i] = [lock |-> s[i], at |-> at[i]]
      BY <2>2
    <3> QED BY <3>1
  <2> QED BY <2>1, <2>3, <2>4, <2>5
<1>4. \A i, j \in 1 .. N : rec[i] = rec[j] => i = j
  BY <1>1, <1>3
<1>5. ASSUME NEW m \in 0 .. N, NEW K, K = {rec[i] : i \in 1 .. m}
      PROVE  Cardinality(K) = m
  <2>1. PICK f : f = [i \in 1 .. m |-> rec[i]]
    OBVIOUS
  <2>2. f \in Bijection(1 .. m, K)
    <3>1. \A i \in 1 .. m : i \in 1 .. N
      BY <1>1
    <3>2. f \in [1 .. m -> K]
      BY <1>5, <2>1
    <3>3. \A i, j \in 1 .. m : f[i] = f[j] => i = j
      BY <1>4, <2>1, <3>1
    <3>4. \A k \in K : \E i \in 1 .. m : f[i] = k
      BY <1>5, <2>1
    <3> QED BY <3>2, <3>3, <3>4 DEF Bijection, Injection, IsInjective, Surjection
  <2>3. ExistsBijection(1 .. m, K) /\ m \in Nat
    BY <1>1, <2>2 DEF ExistsBijection
  <2> QED BY <2>3, FS_CountingElements
<1>6. Cardinality(H) = N
  BY <1>1, <1>3, <1>5
<1>7. ASSUME NEW r \in H
      PROVE  s[1 + Cardinality({q \in H : q.at > r.at})] = r.lock
  <2>1. PICK i \in 1 .. N : r = rec[i]
    BY <1>3
  <2>2. {q \in H : q.at > r.at} = {rec[j] : j \in 1 .. i - 1}
    <3>1. ASSUME NEW j \in 1 .. N PROVE rec[j].at > r.at <=> j \in 1 .. i - 1
      <4>1. rec[j].at = at[j] /\ r.at = at[i] /\ at[i] \in Int /\ at[j] \in Int
        BY <1>3, <2>1
      <4>2. CASE j < i
        BY <1>3, <4>1, <4>2
      <4>3. CASE j = i
        BY <4>1, <4>3
      <4>4. CASE i < j
        BY <1>3, <4>1, <4>4
      <4> QED BY <1>1, <4>2, <4>3, <4>4
    <3>2. \A j \in 1 .. i - 1 : j \in 1 .. N
      BY <1>1
    <3> QED BY <1>3, <3>1, <3>2
  <2>3. i - 1 \in 0 .. N
    BY <1>1
  <2>4. Cardinality({q \in H : q.at > r.at}) = i - 1
    BY <1>5, <2>2, <2>3
  <2>5. 1 + (i - 1) = i
    BY <1>1
  <2>6. s[i] = r.lock
    BY <1>3, <2>1
  <2> QED BY <2>4, <2>5, <2>6
<1> QED BY <1>1, <1>6, <1>7

\* The head of the list is the newest record.
LEMMA HeadIsNewest ==
  ASSUME NEW s \in Seq(Lock), NEW H, NEW at, Stamped(s, H, at)
  PROVE  {r.lock : r \in Newest(H)} = IF Len(s) = 0 THEN {} ELSE {s[1]}
<1> USE LockdepAssumption
<1>1. /\ \A i \in 1 .. Len(s) : at[i] \in Int
      /\ \A i, j \in 1 .. Len(s) : i < j => at[i] > at[j]
      /\ H = {[lock |-> s[i], at |-> at[i]] : i \in 1 .. Len(s)}
      /\ Len(s) \in Nat
  BY DEF Stamped, Stamp
<1>2. CASE Len(s) = 0
  BY <1>1, <1>2 DEF Newest
<1>3. CASE Len(s) # 0
  <2>1. 1 \in 1 .. Len(s) /\ \A i \in 1 .. Len(s) : i = 1 \/ 1 < i
    BY <1>1, <1>3
  <2>2. PICK head : head = [lock |-> s[1], at |-> at[1]]
    OBVIOUS
  <2>3. head \in H /\ head.lock = s[1] /\ head.at = at[1]
    BY <1>1, <2>1, <2>2
  <2>4. \A q \in H : q.at <= head.at
    BY <1>1, <2>1, <2>3
  <2>5. ASSUME NEW r \in Newest(H) PROVE r = head
    <3>1. r \in H /\ head.at <= r.at
      BY <2>3 DEF Newest
    <3>2. PICK i \in 1 .. Len(s) : r = [lock |-> s[i], at |-> at[i]]
      BY <1>1, <3>1
    <3>3. r.at = at[i] /\ at[i] \in Int /\ at[1] \in Int
      BY <1>1, <2>1, <3>2
    <3>4. i = 1
      BY <1>1, <2>1, <2>3, <3>1, <3>3
    <3> QED BY <2>2, <3>2, <3>4
  <2>6. head \in Newest(H)
    BY <2>3, <2>4 DEF Newest
  <2>7. Newest(H) = {head}
    BY <2>5, <2>6
  <2> QED BY <1>3, <2>3, <2>7
<1> QED BY <1>2, <1>3

\* A record pushed with a later stamp comes first.
LEMMA PushStamped ==
  ASSUME NEW s \in Seq(Lock), NEW H, NEW at, Stamped(s, H, at),
         NEW l \in Lock, NEW n \in Stamp, \A r \in H : r.at < n
  PROVE  \E x : Stamped(<<l>> \o s, H \cup {[lock |-> l, at |-> n]}, x)
<1> USE LockdepAssumption
<1>1. PICK N \in Nat : N = Len(s)
  OBVIOUS
<1>2. /\ at \in [1 .. N -> Stamp]
      /\ \A i, j \in 1 .. N : i < j => at[i] > at[j]
      /\ H = {[lock |-> s[i], at |-> at[i]] : i \in 1 .. N}
  BY <1>1 DEF Stamped
<1>3. PICK m : m = <<l>> \o s
  OBVIOUS
<1>4. /\ Len(m) = N + 1 /\ m[1] = l
      /\ \A i \in 1 .. N : m[i + 1] = s[i]
  BY <1>1, <1>3
<1>5. PICK x : x = [i \in 1 .. N + 1 |-> IF i = 1 THEN n ELSE at[i - 1]]
  OBVIOUS
<1>6. ASSUME NEW i \in 1 .. N + 1
      PROVE  \/ i = 1 /\ x[i] = n
             \/ i - 1 \in 1 .. N /\ x[i] = at[i - 1] /\ m[i] = s[i - 1]
  <2>1. CASE i = 1
    BY <1>5, <2>1
  <2>2. CASE i # 1
    <3>1. i - 1 \in 1 .. N /\ i - 1 + 1 = i
      BY <1>1, <2>2
    <3>2. x[i] = at[i - 1]
      BY <1>5, <2>2
    <3>3. m[i - 1 + 1] = s[i - 1]
      BY <1>4, <3>1
    <3> QED BY <3>1, <3>2, <3>3
  <2> QED BY <2>1, <2>2
<1>7. x \in [1 .. N + 1 -> Stamp]
  BY <1>2, <1>5, <1>6
<1>8. \A i \in 1 .. N : at[i] < n
  <2>1. ASSUME NEW i \in 1 .. N PROVE at[i] < n
    <3>1. PICK r : r = [lock |-> s[i], at |-> at[i]]
      OBVIOUS
    <3>2. r \in H /\ r.at = at[i]
      BY <1>2, <3>1
    <3> QED BY <3>2
  <2> QED BY <2>1
<1>9. ASSUME NEW i \in 1 .. N + 1, NEW j \in 1 .. N + 1, i < j
      PROVE  x[i] > x[j]
  <2>1. j - 1 \in 1 .. N /\ x[j] = at[j - 1] /\ at[j - 1] \in Int /\ n \in Int
    BY <1>2, <1>6, <1>9 DEF Stamp
  <2>2. CASE i = 1
    BY <1>6, <1>8, <2>1, <2>2
  <2>3. CASE i # 1
    <3>1. i - 1 \in 1 .. N /\ x[i] = at[i - 1] /\ i - 1 < j - 1
      BY <1>6, <1>9, <2>3
    <3> QED BY <1>2, <2>1, <3>1
  <2> QED BY <2>2, <2>3
<1>10. H \cup {[lock |-> l, at |-> n]} = {[lock |-> m[i], at |-> x[i]] : i \in 1 .. N + 1}
  <2>1. ASSUME NEW i \in 1 .. N + 1
        PROVE  [lock |-> m[i], at |-> x[i]] \in H \cup {[lock |-> l, at |-> n]}
    BY <1>2, <1>4, <1>6
  <2>2. ASSUME NEW r \in H
        PROVE  \E i \in 1 .. N + 1 : r = [lock |-> m[i], at |-> x[i]]
    <3>1. PICK i \in 1 .. N : r = [lock |-> s[i], at |-> at[i]]
      BY <1>2
    <3>2. i + 1 \in 1 .. N + 1 /\ i + 1 # 1 /\ i + 1 - 1 = i
      BY <1>1
    <3>3. m[i + 1] = s[i] /\ x[i + 1] = at[i]
      BY <1>4, <1>5, <3>2
    <3> QED BY <3>1, <3>2, <3>3
  <2>3. 1 \in 1 .. N + 1 /\ m[1] = l /\ x[1] = n
    BY <1>4, <1>5
  <2> QED BY <2>1, <2>2, <2>3
<1>11. Len(m) = N + 1 /\ Stamped(m, H \cup {[lock |-> l, at |-> n]}, x)
  BY <1>4, <1>7, <1>9, <1>10 DEF Stamped
<1> QED BY <1>3, <1>11

\* What a release leaves of a list is what it leaves of the set.
LEMMA ReleaseStamped ==
  ASSUME NEW s \in Seq(Lock), NEW H, NEW at, Stamped(s, H, at), NEW l
  PROVE  /\ \E x : Stamped(without(s, l), {r \in H : r.lock # l}, x)
         /\ without(s, l) \in Seq(Lock)
         /\ \A i \in 1 .. Len(without(s, l)) :
              \E j \in 1 .. Len(s) : without(s, l)[i] = s[j]
<1>1. PICK idx : Left(s, l, Len(s), without(s, l), idx)
  BY WithoutKeeps
<1>2. PICK k : k = without(s, l)
  OBVIOUS
<1>3. /\ k \in Seq(Lock)
      /\ idx \in [1 .. Len(k) -> 1 .. Len(s)]
      /\ \A i, j \in 1 .. Len(k) : i < j => idx[i] < idx[j]
      /\ \A i \in 1 .. Len(k) : k[i] = s[idx[i]]
      /\ \A j \in 1 .. Len(s) : s[j] # l <=> \E i \in 1 .. Len(k) : idx[i] = j
  BY <1>1, <1>2 DEF Left
<1>4. /\ at \in [1 .. Len(s) -> Stamp]
      /\ \A i, j \in 1 .. Len(s) : i < j => at[i] > at[j]
      /\ H = {[lock |-> s[i], at |-> at[i]] : i \in 1 .. Len(s)}
  BY DEF Stamped
<1>5. PICK x : x = [i \in 1 .. Len(k) |-> at[idx[i]]]
  OBVIOUS
<1>6. x \in [1 .. Len(k) -> Stamp]
  BY <1>3, <1>4, <1>5
<1>7. \A i, j \in 1 .. Len(k) : i < j => x[i] > x[j]
  BY <1>3, <1>4, <1>5
<1>8. {r \in H : r.lock # l} = {[lock |-> k[i], at |-> x[i]] : i \in 1 .. Len(k)}
  <2>1. ASSUME NEW r \in H, r.lock # l
        PROVE  \E i \in 1 .. Len(k) : r = [lock |-> k[i], at |-> x[i]]
    <3>1. PICK j \in 1 .. Len(s) : r = [lock |-> s[j], at |-> at[j]]
      BY <1>4
    <3>2. s[j] # l
      BY <2>1, <3>1
    <3>3. PICK i \in 1 .. Len(k) : idx[i] = j
      BY <1>3, <3>2
    <3>4. k[i] = s[j] /\ x[i] = at[j]
      BY <1>3, <1>5, <3>3
    <3> QED BY <3>1, <3>4
  <2>2. ASSUME NEW i \in 1 .. Len(k)
        PROVE  /\ [lock |-> k[i], at |-> x[i]] \in H
               /\ k[i] # l
    <3>1. idx[i] \in 1 .. Len(s) /\ k[i] = s[idx[i]] /\ x[i] = at[idx[i]]
      BY <1>3, <1>5
    <3>2. s[idx[i]] # l
      BY <1>3, <3>1
    <3> QED BY <1>4, <3>1, <3>2
  <2> QED BY <2>1, <2>2
<1>9. Stamped(k, {r \in H : r.lock # l}, x)
  BY <1>6, <1>7, <1>8 DEF Stamped
<1> QED BY <1>2, <1>3, <1>9
----------------------------------------------------------------------------
(* The search along the lists of children ends.                           *)

\* The lock whose children a search visits after a path from l.
EndOf(l, path) == IF path = <<>> THEN l ELSE Last(path)

\* What cycle_from says of its function, for the paths of D.
Searches(C, l, D, f) == f = [path \in D |-> first_cycle(f, path, C[EndOf(l, path)])]

\* The locks of R a path has not come to yet.
Unseen(R, path) == R \ ToSet(path)

\* A path prolonged by a new lock has one lock fewer to come to.
LEMMA UnseenShrinks ==
  ASSUME NEW R, IsFiniteSet(R), NEW path \in Seq(Lock), NEW c \in R, c \in Lock,
         ~Contains(path, c)
  PROVE  /\ Cardinality(Unseen(R, path)) \in Nat
         /\ Cardinality(Unseen(R, Append(path, c))) = Cardinality(Unseen(R, path)) - 1
<1>1. PICK m : m = Append(path, c)
  OBVIOUS
<1>2. /\ Len(path) \in Nat /\ DOMAIN path = 1 .. Len(path)
      /\ DOMAIN m = 1 .. Len(path) + 1
      /\ m[Len(path) + 1] = c
      /\ \A i \in 1 .. Len(path) : m[i] = path[i]
  BY <1>1
<1>3. ToSet(m) = ToSet(path) \cup {c}
  <2>1. \A i \in 1 .. Len(path) + 1 : i \in 1 .. Len(path) \/ i = Len(path) + 1
    BY <1>2
  <2>2. \A i \in 1 .. Len(path) : i \in 1 .. Len(path) + 1
    BY <1>2
  <2>3. Len(path) + 1 \in 1 .. Len(path) + 1
    BY <1>2
  <2> QED BY <1>2, <2>1, <2>2, <2>3 DEF ToSet
<1>4. c \in Unseen(R, path)
  BY <1>2 DEF Contains, ToSet, Unseen
<1>5. Unseen(R, m) = Unseen(R, path) \ {c}
  BY <1>3 DEF Unseen
<1>6. IsFiniteSet(Unseen(R, path))
  BY FS_Subset DEF Unseen
<1>7. Cardinality(Unseen(R, path) \ {c}) = Cardinality(Unseen(R, path)) - 1
  BY <1>4, <1>6, FS_RemoveElement
<1>8. Cardinality(Unseen(R, path)) \in Nat
  BY <1>6, FS_CardinalityType
<1> QED BY <1>1, <1>5, <1>7, <1>8

\* The first child of the list that leads to a cycle, if there is one, answers.
LEMMA FirstCycleFinds ==
  ASSUME NEW f, NEW path, NEW R, NEW cs \in Seq(R)
  PROVE  /\ (\E i \in 1 .. Len(cs) : visit(f, path, cs[i]) # <<>>)
              => first_cycle(f, path, cs) # <<>>
         /\ first_cycle(f, path, cs) # <<>>
              => \E i \in 1 .. Len(cs) :
                   /\ visit(f, path, cs[i]) # <<>>
                   /\ first_cycle(f, path, cs) = visit(f, path, cs[i])
<1>1. PICK found : found = {i \in DOMAIN cs : visit(f, path, cs[i]) # <<>>}
  OBVIOUS
<1>2. first_cycle(f, path, cs) = IF found = {} THEN <<>>
                                 ELSE visit(f, path, cs[Min(found)])
  BY <1>1 DEF first_cycle
<1>3. DOMAIN cs = 1 .. Len(cs) /\ Len(cs) \in Nat
  OBVIOUS
<1>4. ASSUME found # {} PROVE Min(found) \in found
  <2>1. found \in SUBSET Nat
    BY <1>1, <1>3
  <2>2. \E x \in found : \A y \in found : x <= y
    BY <1>4, <2>1, NatHasLeast
  <2> QED BY <2>2 DEF Min
<1> QED BY <1>1, <1>2, <1>3, <1>4

\* A search asks its function for the paths prolonged by new children alone.
LEMMA FirstCycleAsks ==
  ASSUME NEW f, NEW g, NEW path, NEW R, NEW cs \in Seq(R),
         \A c \in R : ~Contains(path, c) => f[Append(path, c)] = g[Append(path, c)]
  PROVE  first_cycle(f, path, cs) = first_cycle(g, path, cs)
<1>1. /\ DOMAIN cs = 1 .. Len(cs) /\ Len(cs) \in Nat
      /\ \A i \in DOMAIN cs : cs[i] \in R
  OBVIOUS
<1>2. ASSUME NEW i \in DOMAIN cs PROVE visit(f, path, cs[i]) = visit(g, path, cs[i])
  BY <1>1 DEF visit
<1>3. PICK found : found = {i \in DOMAIN cs : visit(f, path, cs[i]) # <<>>}
  OBVIOUS
<1>4. found = {i \in DOMAIN cs : visit(g, path, cs[i]) # <<>>}
  BY <1>2, <1>3
<1>5. /\ first_cycle(f, path, cs) = IF found = {} THEN <<>>
                                    ELSE visit(f, path, cs[Min(found)])
      /\ first_cycle(g, path, cs) = IF found = {} THEN <<>>
                                    ELSE visit(g, path, cs[Min(found)])
  BY <1>3, <1>4 DEF first_cycle
<1>6. ASSUME found # {} PROVE Min(found) \in DOMAIN cs
  <2>1. found \in SUBSET Nat
    BY <1>1, <1>3
  <2>2. \E x \in found : \A y \in found : x <= y
    BY <1>6, <2>1, NatHasLeast
  <2> QED BY <1>3, <2>2 DEF Min
<1> QED BY <1>2, <1>5, <1>6

\* Every search ends: each visit leaves one lock fewer to come to.
LEMMA SearchExists ==
  ASSUME NEW R \in SUBSET Lock, IsFiniteSet(R), NEW C \in [Lock -> Seq(R)], NEW l \in Lock
  PROVE  \E f : Searches(C, l, Seq(Lock), f)
<1> DEFINE D(n) == {p \in Seq(Lock) : Cardinality(Unseen(R, p)) < n}
           S == {n \in Nat : ~\E f : Searches(C, l, D(n), f)}
<1>1. \A p \in Seq(Lock) : /\ Cardinality(Unseen(R, p)) \in Nat
                           /\ Cardinality(Unseen(R, p)) <= Cardinality(R)
  <2>1. ASSUME NEW p PROVE /\ Cardinality(Unseen(R, p)) \in Nat
                           /\ Cardinality(Unseen(R, p)) <= Cardinality(R)
    <3>1. Unseen(R, p) \in SUBSET R
      BY DEF Unseen
    <3>2. IsFiniteSet(Unseen(R, p)) /\ Cardinality(Unseen(R, p)) <= Cardinality(R)
      BY <3>1, FS_Subset
    <3> QED BY <3>2, FS_CardinalityType
  <2> QED BY <2>1
<1>2. \A p \in Seq(Lock) : EndOf(l, p) \in Lock
  BY DEF EndOf, Last
<1>3. \E f : Searches(C, l, D(0), f)
  <2>1. D(0) = {}
    BY <1>1
  <2>2. PICK f : f = [p \in {} |-> p]
    OBVIOUS
  <2>3. f = [p \in {} |-> first_cycle(f, p, C[EndOf(l, p)])]
    BY <2>2
  <2>4. Searches(C, l, D(0), f)
    BY <2>1, <2>3 DEF Searches
  <2> QED BY <2>4
<1>4. ASSUME NEW n \in Nat, NEW f, Searches(C, l, D(n), f)
      PROVE  \E g : Searches(C, l, D(n + 1), g)
  <2>1. PICK g : g = [p \in D(n + 1) |-> first_cycle(f, p, C[EndOf(l, p)])]
    OBVIOUS
  <2>2. ASSUME NEW p \in D(n) PROVE g[p] = f[p]
    <3>1. p \in D(n + 1)
      BY <1>1
    <3> HIDE DEF D
    <3>2. f[p] = first_cycle(f, p, C[EndOf(l, p)])
      BY <1>4 DEF Searches
    <3> QED BY <2>1, <3>1, <3>2
  <2>3. ASSUME NEW p \in D(n + 1)
        PROVE  first_cycle(f, p, C[EndOf(l, p)]) = first_cycle(g, p, C[EndOf(l, p)])
    <3>1. p \in Seq(Lock) /\ Cardinality(Unseen(R, p)) < n + 1
      OBVIOUS
    <3>2. ASSUME NEW c \in R, ~Contains(p, c)
          PROVE  f[Append(p, c)] = g[Append(p, c)]
      <4>1. Cardinality(Unseen(R, Append(p, c))) = Cardinality(Unseen(R, p)) - 1
        BY <3>1, <3>2, UnseenShrinks
      <4>2. Append(p, c) \in Seq(Lock)
        BY <3>1, <3>2
      <4>3. Cardinality(Unseen(R, Append(p, c))) < n
        BY <1>1, <3>1, <4>1
      <4>4. Append(p, c) \in D(n)
        BY <4>2, <4>3
      <4> QED BY <2>2, <4>4
    <3>3. C[EndOf(l, p)] \in Seq(R)
      BY <1>2, <3>1
    <3> QED BY <3>2, <3>3, FirstCycleAsks
  <2>4. g = [p \in D(n + 1) |-> first_cycle(g, p, C[EndOf(l, p)])]
    <3> HIDE DEF D
    <3> QED BY <2>1, <2>3
  <2> QED BY <2>4 DEF Searches
<1>5. ASSUME S # {} PROVE FALSE
  <2> HIDE DEF D
  <2>1. S \in SUBSET Nat
    OBVIOUS
  <2>2. PICK n \in S : \A x \in S : n <= x
    <3> HIDE DEF S
    <3> QED BY <1>5, <2>1, NatHasLeast
  <2>3. n \in Nat /\ ~\E f : Searches(C, l, D(n), f)
    OBVIOUS
  <2>4. n # 0
    BY <1>3, <2>3
  <2>5. n - 1 \in Nat /\ n - 1 \notin S
    BY <2>2, <2>3, <2>4
  <2>6. \E f : Searches(C, l, D(n - 1), f)
    BY <2>5
  <2>7. \E f : Searches(C, l, D(n - 1 + 1), f)
    BY <1>4, <2>5, <2>6
  <2>8. n - 1 + 1 = n
    BY <2>3
  <2> QED BY <2>3, <2>7, <2>8
<1>6. Cardinality(R) + 1 \in Nat
  BY FS_CardinalityType
<1>7. \E f : Searches(C, l, D(Cardinality(R) + 1), f)
  <2> HIDE DEF D
  <2> QED BY <1>5, <1>6
<1>8. Cardinality(R) \in Nat
  BY FS_CardinalityType
<1>9. D(Cardinality(R) + 1) = Seq(Lock)
  BY <1>1, <1>8
<1> QED BY <1>7, <1>9

\* cycle_from is the answer of such a function for the empty path.
LEMMA CycleFromSearches ==
  ASSUME NEW R \in SUBSET Lock, IsFiniteSet(R), NEW C \in [Lock -> Seq(R)], NEW l \in Lock
  PROVE  \E f : /\ cycle_from(C, l) = f[<<>>]
                /\ \A p \in Seq(Lock) : f[p] = first_cycle(f, p, C[EndOf(l, p)])
<1>1. \E f : Searches(C, l, Seq(Lock), f)
  BY SearchExists
<1>2. Searches(C, l, Seq(Lock), CHOOSE f : Searches(C, l, Seq(Lock), f))
  BY <1>1, Zenon
<1>3. cycle_from(C, l) = (CHOOSE f : Searches(C, l, Seq(Lock), f))[<<>>]
  BY DEF cycle_from, Searches, EndOf
<1>4. PICK f : Searches(C, l, Seq(Lock), f) /\ cycle_from(C, l) = f[<<>>]
  BY <1>2, <1>3
<1>5. \A p \in Seq(Lock) : f[p] = first_cycle(f, p, C[EndOf(l, p)])
  <2>1. f = [p \in Seq(Lock) |-> first_cycle(f, p, C[EndOf(l, p)])]
    BY <1>4 DEF Searches
  <2> QED BY <2>1, Zenon
<1> QED BY <1>4, <1>5
----------------------------------------------------------------------------
(* The search along the lists of children is exact.                       *)

\* A path of the search from l: a child of l, then child after child.
Path(C, l, p) ==
  /\ \A i \in 1 .. Len(p) : i = 1 => Contains(C[l], p[i])
  /\ \A i \in 1 .. Len(p) - 1 : Contains(C[p[i]], p[i + 1])

\* The last lock of it was there before.
Closed(p) == \E i \in 1 .. Len(p) - 1 : p[i] = Last(p)

\* A visited child prolongs the path, or closes it.
LEMMA PathGrows ==
  ASSUME NEW R, NEW C, NEW l, NEW p \in Seq(R), Path(C, l, p),
         NEW c \in R, Contains(C[EndOf(l, p)], c)
  PROVE  /\ Append(p, c) \in Seq(R) /\ Append(p, c) # <<>>
         /\ Path(C, l, Append(p, c))
         /\ Contains(p, c) => Closed(Append(p, c))
<1>1. PICK m : m = Append(p, c)
  OBVIOUS
<1>2. /\ m \in Seq(R) /\ Len(p) \in Nat /\ Len(m) = Len(p) + 1
      /\ m[Len(p) + 1] = c /\ \A i \in 1 .. Len(p) : m[i] = p[i]
  BY <1>1
<1>3. m # <<>>
  BY <1>2
<1>4. ASSUME NEW i \in 1 .. Len(m), i = 1 PROVE Contains(C[l], m[i])
  <2>1. CASE Len(p) = 0
    <3>1. p = <<>>
      BY <2>1
    <3> QED BY <1>2, <1>4, <2>1, <3>1 DEF EndOf
  <2>2. CASE Len(p) # 0
    <3>1. 1 \in 1 .. Len(p)
      BY <1>2, <2>2
    <3> QED BY <1>2, <1>4, <3>1 DEF Path
  <2> QED BY <2>1, <2>2
<1>5. ASSUME NEW i \in 1 .. Len(m) - 1 PROVE Contains(C[m[i]], m[i + 1])
  <2>1. CASE i = Len(p)
    <3>1. Len(p) # 0 /\ p # <<>> /\ i \in 1 .. Len(p)
      BY <1>2, <2>1
    <3>2. m[i] = Last(p) /\ m[i + 1] = c
      BY <1>2, <2>1, <3>1 DEF Last
    <3> QED BY <3>1, <3>2 DEF EndOf
  <2>2. CASE i # Len(p)
    <3>1. i \in 1 .. Len(p) - 1 /\ i \in 1 .. Len(p) /\ i + 1 \in 1 .. Len(p)
      BY <1>2, <2>2
    <3> QED BY <1>2, <3>1 DEF Path
  <2> QED BY <2>1, <2>2
<1>6. ASSUME Contains(p, c) PROVE Closed(m)
  <2>1. PICK i \in 1 .. Len(p) : p[i] = c
    BY <1>6 DEF Contains
  <2>2. i \in 1 .. Len(m) - 1 /\ m[i] = c /\ Last(m) = c
    BY <1>2, <2>1 DEF Last
  <2> QED BY <2>2 DEF Closed
<1> QED BY <1>1, <1>2, <1>3, <1>4, <1>5, <1>6 DEF Path

\* What a search answers is a path from l that comes back to a lock on it.
LEMMA SearchFindsPaths ==
  ASSUME NEW R \in SUBSET Lock, IsFiniteSet(R), NEW C \in [Lock -> Seq(R)], NEW l \in Lock,
         NEW f, \A p \in Seq(Lock) : f[p] = first_cycle(f, p, C[EndOf(l, p)]),
         NEW path \in Seq(R), Path(C, l, path), f[path] # <<>>
  PROVE  f[path] \in Seq(R) /\ Path(C, l, f[path]) /\ Closed(f[path])
<1> DEFINE Good(q) == q \in Seq(R) /\ Path(C, l, q) /\ Closed(q)
           Bad(p) == p \in Seq(R) /\ Path(C, l, p) /\ f[p] # <<>> /\ ~Good(f[p])
           S == {Cardinality(Unseen(R, p)) : p \in {p \in Seq(R) : Bad(p)}}
<1> SUFFICES ASSUME Bad(path) PROVE FALSE
  OBVIOUS
<1>1. \A p \in Seq(R) : p \in Seq(Lock) /\ Cardinality(Unseen(R, p)) \in Nat
  <2>1. ASSUME NEW p PROVE Cardinality(Unseen(R, p)) \in Nat
    <3>1. IsFiniteSet(Unseen(R, p))
      BY FS_Subset DEF Unseen
    <3> QED BY <3>1, FS_CardinalityType
  <2> QED BY <2>1, SeqMonotonic
<1> HIDE DEF Good
<1>2. S \in SUBSET Nat /\ S # {}
  BY <1>1
<1>3. PICK n \in S : \A x \in S : n <= x
  <2> HIDE DEF S
  <2> QED BY <1>2, NatHasLeast
<1>4. PICK p \in Seq(R) : Bad(p) /\ n = Cardinality(Unseen(R, p))
  OBVIOUS
<1>5. EndOf(l, p) \in Lock
  BY <1>1, <1>4 DEF EndOf, Last
<1>6. PICK cs \in Seq(R) : cs = C[EndOf(l, p)]
  BY <1>5
<1>7. f[p] = first_cycle(f, p, cs) /\ first_cycle(f, p, cs) # <<>>
  BY <1>1, <1>4, <1>6
<1>8. PICK i \in 1 .. Len(cs) : /\ visit(f, p, cs[i]) # <<>>
                                /\ first_cycle(f, p, cs) = visit(f, p, cs[i])
  BY <1>7, FirstCycleFinds
<1>9. PICK c \in R : c = cs[i]
  BY ElementOfSeq
<1>10. Contains(C[EndOf(l, p)], c)
  BY <1>6, <1>9 DEF Contains
<1>11. /\ Append(p, c) \in Seq(R) /\ Append(p, c) # <<>>
       /\ Path(C, l, Append(p, c))
       /\ Contains(p, c) => Closed(Append(p, c))
  BY <1>4, <1>10, PathGrows
<1>12. CASE Contains(p, c)
  <2>1. f[p] = Append(p, c)
    BY <1>7, <1>8, <1>9, <1>12 DEF visit
  <2>2. Good(Append(p, c))
    BY <1>11, <1>12 DEF Good
  <2> QED BY <1>4, <2>1, <2>2
<1>13. CASE ~Contains(p, c)
  <2>1. f[p] = f[Append(p, c)]
    BY <1>7, <1>8, <1>9, <1>13 DEF visit
  <2>2. Bad(Append(p, c))
    BY <1>4, <1>11, <2>1
  <2>3. Cardinality(Unseen(R, Append(p, c))) = n - 1 /\ n \in Nat
    BY <1>1, <1>4, <1>13, UnseenShrinks
  <2>4. n - 1 \in S
    <3> HIDE DEF Bad
    <3> QED BY <1>11, <2>2, <2>3
  <2>5. n <= n - 1
    BY <1>3, <2>4
  <2> QED BY <2>3, <2>5
<1> QED BY <1>12, <1>13

\* A search from a lock that leads to a cycle answers.
LEMMA SearchFinds ==
  ASSUME NEW R \in SUBSET Lock, IsFiniteSet(R), NEW C \in [Lock -> Seq(R)], NEW l \in Lock,
         NEW f, \A p \in Seq(Lock) : f[p] = first_cycle(f, p, C[EndOf(l, p)]),
         NEW K \in SUBSET Lock, \A k \in K : \E c \in K : Contains(C[k], c),
         NEW path \in Seq(R), EndOf(l, path) \in K
  PROVE  f[path] # <<>>
<1> DEFINE Bad(p) == EndOf(l, p) \in K /\ f[p] = <<>>
           S == {Cardinality(Unseen(R, p)) : p \in {p \in Seq(R) : Bad(p)}}
<1> SUFFICES ASSUME Bad(path) PROVE FALSE
  OBVIOUS
<1>1. \A p \in Seq(R) : p \in Seq(Lock) /\ Cardinality(Unseen(R, p)) \in Nat
  <2>1. ASSUME NEW p PROVE Cardinality(Unseen(R, p)) \in Nat
    <3>1. IsFiniteSet(Unseen(R, p))
      BY FS_Subset DEF Unseen
    <3> QED BY <3>1, FS_CardinalityType
  <2> QED BY <2>1, SeqMonotonic
<1>2. S \in SUBSET Nat /\ S # {}
  BY <1>1
<1>3. PICK n \in S : \A x \in S : n <= x
  <2> HIDE DEF S
  <2> QED BY <1>2, NatHasLeast
<1>4. PICK p \in Seq(R) : Bad(p) /\ n = Cardinality(Unseen(R, p))
  OBVIOUS
<1>5. PICK cs \in Seq(R) : cs = C[EndOf(l, p)]
  BY <1>4
<1>6. first_cycle(f, p, cs) = <<>>
  BY <1>1, <1>4, <1>5
<1>7. PICK c \in K : Contains(cs, c)
  BY <1>4, <1>5
<1>8. PICK i \in 1 .. Len(cs) : cs[i] = c
  BY <1>7 DEF Contains
<1>9. c \in R
  BY <1>8, ElementOfSeq
<1>10. visit(f, p, c) = <<>>
  <2>1. (\E j \in 1 .. Len(cs) : visit(f, p, cs[j]) # <<>>) => first_cycle(f, p, cs) # <<>>
    BY FirstCycleFinds
  <2> QED BY <1>6, <1>8, <2>1
<1>11. Append(p, c) # <<>> /\ Append(p, c) \in Seq(R) /\ Last(Append(p, c)) = c
  <2>1. PICK m : m = Append(p, c)
    OBVIOUS
  <2>2. m \in Seq(R) /\ Len(p) \in Nat /\ Len(m) = Len(p) + 1 /\ m[Len(p) + 1] = c
    <3>1. m \in Seq(R) /\ Len(p) \in Nat /\ Len(m) = Len(p) + 1
      BY <1>9, <2>1
    <3>2. m[Len(p) + 1] = c
      BY <2>1
    <3> QED BY <3>1, <3>2
  <2>3. m # <<>>
    BY <2>2
  <2> QED BY <2>1, <2>2, <2>3 DEF Last
<1>12. ~Contains(p, c) /\ f[Append(p, c)] = <<>>
  BY <1>10, <1>11 DEF visit
<1>13. Bad(Append(p, c))
  BY <1>7, <1>11, <1>12 DEF EndOf
<1>14. Cardinality(Unseen(R, Append(p, c))) = n - 1 /\ n \in Nat
  BY <1>1, <1>4, <1>9, <1>12, UnseenShrinks
<1>15. n - 1 \in S
  <2> HIDE DEF Bad
  <2> QED BY <1>11, <1>13, <1>14
<1>16. n <= n - 1
  BY <1>3, <1>15
<1> QED BY <1>14, <1>16

\* The search of the lists is exact, and what it answers is a cycle.
LEMMA CycleFromExact ==
  ASSUME NEW R \in SUBSET Lock, IsFiniteSet(R), NEW C \in [Lock -> Seq(R)], NEW l \in Lock,
         NEW E, E = {e \in Lock \X Lock : Contains(C[e[1]], e[2])},
         NEW cycle, cycle = cycle_from(C, l)
  PROVE  /\ cycle # <<>> <=> has_cycle(E, l)
         /\ cycle # <<>> =>
              /\ cycle \in Seq(R)
              /\ Closed(cycle)
              /\ \A i \in 1 .. Len(cycle) - 1 : <<cycle[i], cycle[i + 1]>> \in E
<1>1. PICK f : /\ cycle = f[<<>>]
               /\ \A p \in Seq(Lock) : f[p] = first_cycle(f, p, C[EndOf(l, p)])
  BY CycleFromSearches
<1>2. PICK z \in Seq(R) : z = <<>>
  BY EmptySeq
<1>3. Path(C, l, z) /\ EndOf(l, z) = l
  BY <1>2 DEF Path, EndOf
<1>4. ASSUME cycle # <<>>
      PROVE  cycle \in Seq(R) /\ Path(C, l, cycle) /\ Closed(cycle)
  BY <1>1, <1>2, <1>3, <1>4, SearchFindsPaths
<1>5. ASSUME NEW a \in Lock, NEW b \in Lock PROVE <<a, b>> \in E <=> Contains(C[a], b)
  OBVIOUS
<1>6. ASSUME cycle # <<>>
      PROVE  \A i \in 1 .. Len(cycle) - 1 : <<cycle[i], cycle[i + 1]>> \in E
  <2>1. ASSUME NEW i \in 1 .. Len(cycle) - 1 PROVE <<cycle[i], cycle[i + 1]>> \in E
    <3>1. i \in 1 .. Len(cycle) /\ i + 1 \in 1 .. Len(cycle)
      BY <1>4, <1>6
    <3>2. cycle[i] \in Lock /\ cycle[i + 1] \in Lock
      BY <1>4, <1>6, <3>1, ElementOfSeq
    <3>3. Contains(C[cycle[i]], cycle[i + 1])
      BY <1>4, <1>6 DEF Path
    <3> QED BY <1>5, <3>2, <3>3
  <2> QED BY <2>1
<1>7. ASSUME cycle # <<>> PROVE has_cycle(E, l)
  <2>1. cycle \in Seq(R) /\ Path(C, l, cycle) /\ Closed(cycle)
    BY <1>4, <1>7
  <2>2. PICK N \in Nat : N = Len(cycle)
    BY <2>1
  <2>3. PICK j \in 1 .. N - 1 : cycle[j] = cycle[N]
    BY <2>1, <2>2 DEF Closed, Last
  <2>4. PICK K : K = {l} \cup {cycle[i] : i \in 1 .. N}
    OBVIOUS
  <2>5. \A i \in 1 .. N : cycle[i] \in Lock
    BY <2>1, <2>2, ElementOfSeq
  <2>6. K \in SUBSET Lock /\ l \in K
    BY <2>4, <2>5
  <2>7. ASSUME NEW i \in 1 .. N - 1
        PROVE  \E b \in K : <<cycle[i], b>> \in E
    <3>1. i + 1 \in 1 .. N
      BY <2>2
    <3>2. cycle[i + 1] \in K
      BY <2>4, <3>1
    <3>3. <<cycle[i], cycle[i + 1]>> \in E
      BY <1>6, <1>7, <2>2
    <3> QED BY <3>2, <3>3
  <2>8. ASSUME NEW a \in K PROVE \E b \in K : <<a, b>> \in E
    <3>1. CASE a = l
      <4>1. 1 \in 1 .. N
        BY <2>2, <2>3
      <4>2. Contains(C[l], cycle[1])
        BY <2>1, <2>2, <4>1 DEF Path
      <4>3. cycle[1] \in Lock /\ cycle[1] \in K
        BY <2>4, <2>5, <4>1
      <4>4. <<l, cycle[1]>> \in E
        BY <1>5, <4>2, <4>3
      <4> QED BY <3>1, <4>3, <4>4
    <3>2. ASSUME NEW i \in 1 .. N, a = cycle[i] PROVE \E b \in K : <<a, b>> \in E
      <4>1. CASE i = N
        BY <2>3, <2>7, <3>2, <4>1
      <4>2. CASE i # N
        <5>1. i \in 1 .. N - 1
          BY <2>2, <4>2
        <5> QED BY <2>7, <3>2, <5>1
      <4> QED BY <4>1, <4>2
    <3> QED BY <2>4, <3>1, <3>2
  <2> QED BY <2>6, <2>8 DEF has_cycle
<1>8. ASSUME has_cycle(E, l) PROVE cycle # <<>>
  <2>1. PICK K \in SUBSET Lock : l \in K /\ \A a \in K : \E b \in K : <<a, b>> \in E
    BY <1>8 DEF has_cycle
  <2>2. ASSUME NEW k \in K PROVE \E c \in K : Contains(C[k], c)
    <3>1. PICK c \in K : <<k, c>> \in E
      BY <2>1
    <3>2. Contains(C[k], c)
      BY <1>5, <3>1
    <3> QED BY <3>2
  <2>3. EndOf(l, z) \in K
    BY <1>3, <2>1
  <2>4. f[z] # <<>>
    BY <1>1, <2>2, <2>3, SearchFinds
  <2> QED BY <1>1, <1>2, <2>4
<1> QED BY <1>4, <1>6, <1>7, <1>8
----------------------------------------------------------------------------
(* The suggested order.                                                   *)

\* A list has finitely many elements.
LEMMA ElementsFinite ==
  ASSUME NEW S, NEW s \in Seq(S)
  PROVE  IsFiniteSet({s[i] : i \in 1 .. Len(s)})
<1>1. PICK K : K = {s[i] : i \in 1 .. Len(s)}
  OBVIOUS
<1>2. PICK f : f = [i \in 1 .. Len(s) |-> s[i]]
  OBVIOUS
<1>3. f \in Surjection(1 .. Len(s), K)
  BY <1>1, <1>2 DEF Surjection
<1>4. IsFiniteSet(1 .. Len(s))
  BY FS_Interval
<1> QED BY <1>1, <1>3, <1>4, FS_Surjection

\* With room for all, the suggested order has every registered lock.
LEMMA AllSuggested ==
  ASSUME NEW registry \in Seq(Lock), Len(registry) <= MAX_SUGGESTED,
         NEW l, Contains(registry, l)
  PROVE  l \in ToSet(suggest_lock_ordering(registry))
<1> USE LockdepListsAssumption
<1>1. PICK N \in Nat : N = Len(registry)
  OBVIOUS
<1>2. PICK locks : locks = {registry[i] : i \in 1 .. N}
  OBVIOUS
<1>3. (IF Len(registry) < MAX_SUGGESTED THEN Len(registry) ELSE MAX_SUGGESTED) = N
  BY <1>1
<1> DEFINE Rank(k) == Cardinality({m \in locks : Address[m] < Address[k]})
<1>4. suggest_lock_ordering(registry) =
        [i \in 1 .. Cardinality(locks) |-> CHOOSE k \in locks : Rank(k) = i - 1]
  <2> DEFINE room == IF Len(registry) < MAX_SUGGESTED THEN Len(registry) ELSE MAX_SUGGESTED
             Order(K) == [i \in 1 .. Cardinality(K) |->
                            CHOOSE k \in K :
                              Cardinality({m \in K : Address[m] < Address[k]}) = i - 1]
  <2>1. suggest_lock_ordering(registry) = Order({registry[i] : i \in 1 .. room})
    BY DEF suggest_lock_ordering
  <2>2. {registry[i] : i \in 1 .. room} = locks
    BY <1>2, <1>3
  <2>3. suggest_lock_ordering(registry) = Order(locks)
    <3> HIDE DEF Order, room
    <3> QED BY <2>1, <2>2
  <2> QED BY <2>3
<1>5. IsFiniteSet(locks) /\ locks \subseteq Lock /\ l \in locks
  <2>1. IsFiniteSet(locks)
    BY <1>1, <1>2, ElementsFinite
  <2>2. \A i \in 1 .. N : registry[i] \in Lock
    BY <1>1, ElementOfSeq
  <2> QED BY <1>1, <1>2, <2>1, <2>2 DEF Contains
<1>6. \A k \in locks : IsFiniteSet({m \in locks : Address[m] < Address[k]})
  BY <1>5, FS_Subset
<1>7. ASSUME NEW k \in locks
      PROVE  Rank(k) \in Nat /\ Rank(k) < Cardinality(locks)
  <2>1. PICK Lower : Lower = {m \in locks : Address[m] < Address[k]}
    OBVIOUS
  <2>2. Lower \in SUBSET (locks \ {k})
    BY <1>5, <2>1
  <2>3. IsFiniteSet(locks \ {k}) /\ Cardinality(locks \ {k}) = Cardinality(locks) - 1
    BY <1>5, FS_RemoveElement
  <2>4. IsFiniteSet(Lower) /\ Cardinality(Lower) <= Cardinality(locks \ {k})
    BY <2>2, <2>3, FS_Subset
  <2>5. Cardinality(Lower) \in Nat /\ Cardinality(locks) \in Nat
    BY <1>5, <2>4, FS_CardinalityType
  <2> QED BY <2>1, <2>3, <2>4, <2>5
<1>8. ASSUME NEW k \in locks, NEW m \in locks, Address[k] < Address[m]
      PROVE  Rank(k) < Rank(m)
  <2>1. PICK Lower, Upper : /\ Lower = {x \in locks : Address[x] < Address[k]}
                            /\ Upper = {x \in locks : Address[x] < Address[m]}
    OBVIOUS
  <2>2. /\ k \in Lock /\ m \in Lock /\ Address[k] \in Nat /\ Address[m] \in Nat
        /\ \A x \in locks : Address[x] \in Nat
    BY <1>5
  <2>3. Lower \in SUBSET Upper
    BY <1>8, <2>1, <2>2
  <2>4. k \in Upper /\ k \notin Lower
    BY <1>8, <2>1, <2>2
  <2>5. IsFiniteSet(Upper) /\ IsFiniteSet(Lower)
    BY <1>6, <2>1
  <2>6. Cardinality(Lower) <= Cardinality(Upper) /\ Cardinality(Lower) # Cardinality(Upper)
    BY <2>3, <2>4, <2>5, FS_Subset
  <2>7. Cardinality(Lower) \in Nat /\ Cardinality(Upper) \in Nat
    BY <2>5, FS_CardinalityType
  <2> QED BY <2>1, <2>6, <2>7
<1>9. ASSUME NEW k \in locks, Rank(k) = Rank(l) PROVE k = l
  <2>1. Address[k] \in Nat /\ Address[l] \in Nat /\ k \in Lock /\ l \in Lock
    BY <1>5
  <2>2. Rank(k) \in Nat /\ Rank(l) \in Nat
    BY <1>5, <1>7
  <2>3. ~(Address[k] < Address[l]) /\ ~(Address[l] < Address[k])
    <3>1. Address[k] < Address[l] => Rank(k) < Rank(l)
      BY <1>5, <1>8
    <3>2. Address[l] < Address[k] => Rank(l) < Rank(k)
      BY <1>5, <1>8
    <3> HIDE DEF Rank
    <3> QED BY <1>9, <2>2, <3>1, <3>2
  <2>4. Address[k] = Address[l]
    BY <2>1, <2>3
  <2> QED BY <2>1, <2>4
<1>10. PICK i : i = Rank(l) + 1
  OBVIOUS
<1>11. Rank(l) \in Nat /\ Rank(l) < Cardinality(locks) /\ Cardinality(locks) \in Nat
  BY <1>5, <1>7, FS_CardinalityType
<1> HIDE DEF Rank
<1>12. i \in 1 .. Cardinality(locks) /\ i - 1 = Rank(l)
  BY <1>10, <1>11
<1>13. (CHOOSE k \in locks : Rank(k) = i - 1) = l
  <2>1. \E k \in locks : Rank(k) = i - 1
    BY <1>5, <1>12
  <2>2. PICK x : x = (CHOOSE k \in locks : Rank(k) = i - 1)
    OBVIOUS
  <2>3. x \in locks /\ Rank(x) = i - 1
    BY <2>1, <2>2
  <2> QED BY <1>9, <1>12, <2>2, <2>3
<1>14. PICK order : order = suggest_lock_ordering(registry)
  OBVIOUS
<1>15. DOMAIN order = 1 .. Cardinality(locks) /\ order[i] = l
  BY <1>4, <1>12, <1>13, <1>14
<1> QED BY <1>12, <1>14, <1>15 DEF ToSet

\* A list prolonged at its front.
LEMMA Prolonged ==
  ASSUME NEW S, NEW s \in Seq(S), NEW x \in S, NEW m, m = <<x>> \o s
  PROVE  /\ m \in Seq(S) /\ Len(m) = Len(s) + 1 /\ m[1] = x /\ Len(s) \in Nat
         /\ \A i \in 1 .. Len(s) : m[i + 1] = s[i]
         /\ \A i \in 1 .. Len(m) : i = 1 \/ (i - 1 \in 1 .. Len(s) /\ m[i] = s[i - 1])
<1>1. /\ m \in Seq(S) /\ Len(m) = Len(s) + 1 /\ m[1] = x /\ Len(s) \in Nat
      /\ \A i \in 1 .. Len(s) : m[i + 1] = s[i]
  OBVIOUS
<1>2. ASSUME NEW i \in 1 .. Len(m), i # 1
      PROVE  i - 1 \in 1 .. Len(s) /\ m[i] = s[i - 1]
  <2>1. i - 1 \in 1 .. Len(s) /\ i - 1 + 1 = i
    BY <1>1, <1>2
  <2> QED BY <1>1, <2>1
<1> QED BY <1>1, <1>2

\* It contains what it did, and its new head.
LEMMA ProlongedHas ==
  ASSUME NEW S, NEW s \in Seq(S), NEW x \in S, NEW m, m = <<x>> \o s, NEW y
  PROVE  Contains(m, y) <=> y = x \/ Contains(s, y)
<1>1. /\ Len(m) = Len(s) + 1 /\ m[1] = x /\ Len(s) \in Nat
      /\ \A i \in 1 .. Len(s) : m[i + 1] = s[i]
      /\ \A i \in 1 .. Len(m) : i = 1 \/ (i - 1 \in 1 .. Len(s) /\ m[i] = s[i - 1])
  BY Prolonged
<1>2. ASSUME Contains(m, y) PROVE y = x \/ Contains(s, y)
  <2>1. PICK i \in 1 .. Len(m) : m[i] = y
    BY <1>2 DEF Contains
  <2>2. CASE i = 1
    BY <1>1, <2>1, <2>2
  <2>3. CASE i # 1
    BY <1>1, <2>1, <2>3 DEF Contains
  <2> QED BY <2>2, <2>3
<1>3. ASSUME y = x PROVE Contains(m, y)
  BY <1>1, <1>3 DEF Contains
<1>4. ASSUME Contains(s, y) PROVE Contains(m, y)
  <2>1. PICK i \in 1 .. Len(s) : s[i] = y
    BY <1>4 DEF Contains
  <2>2. i + 1 \in 1 .. Len(m) /\ m[i + 1] = y
    BY <1>1, <2>1
  <2> QED BY <2>2 DEF Contains
<1> QED BY <1>2, <1>3, <1>4
----------------------------------------------------------------------------
(* A request, in the lists.                                               *)

\* At the start every list is empty.
LEMMA ListsStart == ListsInit => ListsInv
<1> SUFFICES ASSUME ListsInit PROVE ListsInv
  OBVIOUS
<1> USE DEF ListsInit, Init
<1>1. PICK z : z = <<>>
  OBVIOUS
<1>2. z \in Seq(Lock) /\ z \in Seq(Thread) /\ Len(z) = 0 /\ \A y : ~Contains(z, y)
  BY <1>1 DEF Contains
<1>3. ListsTyped
  BY <1>1, <1>2 DEF ListsTyped
<1>4. StacksStamped
  <2>1. ASSUME NEW t \in Thread
        PROVE  \E at \in [1 .. Len(held_locks[t]) -> Stamp] :
                 Stamped(held_locks[t], held[t], at)
    <3>1. held_locks[t] = z /\ held[t] = {}
      BY <1>1
    <3>2. PICK at : at = [i \in 1 .. 0 |-> i]
      OBVIOUS
    <3>3. at \in [1 .. 0 -> Stamp] /\ Stamped(z, {}, at)
      BY <1>2, <3>2 DEF Stamped
    <3> QED BY <1>2, <3>1, <3>3
  <2> QED BY <2>1 DEF StacksStamped
<1>5. AllRegistered
  BY <1>1, <1>2 DEF AllRegistered, Registered
<1>6. ChildrenAgree
  <2>1. \A l \in Lock : children[l] = z
    BY <1>1
  <2>2. \A l \in Lock : IsInjective(children[l])
    BY <1>1, <2>1 DEF IsInjective
  <2> QED BY <1>2, <2>1, <2>2 DEF ChildrenAgree
<1>7. ReportsAgree
  BY DEF ReportsAgree
<1>8. ContextsKept
  BY LockdepAssumption DEF ContextsKept
<1> QED BY <1>3, <1>4, <1>5, <1>6, <1>7, <1>8 DEF ListsInv

\* The lists of registered locks and threads, and the stacks, after a request.
LEMMA AcquireStacks ==
  ASSUME TypeOK, ListsTyped, StacksStamped, AllRegistered,
         NEW t \in Thread, NEW l \in Lock,
         lockdep_acquire_lock(t, l), acquire_in_lists(t, l)
  PROVE  /\ lock_registry' \in Seq(Lock) /\ Len(lock_registry) <= Len(lock_registry')
         /\ Contains(lock_registry', l)
         /\ \A k : Contains(lock_registry, k) => Contains(lock_registry', k)
         /\ thread_registry' \in Seq(Thread)
         /\ \A u : find_thread_context(u) => find_thread_context(u)'
         /\ find_thread_context(t)'
         /\ held_locks' \in [Thread -> Seq(Lock)]
         /\ StacksStamped'
         /\ \A u \in Thread : Registered(held_locks[u])'
<1>1. /\ lock_registry \in Seq(Lock) /\ thread_registry \in Seq(Thread)
      /\ held_locks \in [Thread -> Seq(Lock)]
  BY DEF ListsTyped
<1>2. /\ lock_registry' \in Seq(Lock) /\ Len(lock_registry) <= Len(lock_registry')
      /\ Contains(lock_registry', l)
      /\ \A k : Contains(lock_registry, k) => Contains(lock_registry', k)
  <2>1. lock_registry' = IF Contains(lock_registry, l) THEN lock_registry
                                                       ELSE <<l>> \o lock_registry
    BY DEF acquire_in_lists, find_or_register_lock
  <2>2. PICK m : m = <<l>> \o lock_registry
    OBVIOUS
  <2>3. m \in Seq(Lock) /\ Len(m) = Len(lock_registry) + 1 /\ Len(lock_registry) \in Nat
    BY <1>1, <2>2, Prolonged
  <2>4. \A y : Contains(m, y) <=> y = l \/ Contains(lock_registry, y)
    BY <1>1, <2>2, ProlongedHas
  <2>5. CASE Contains(lock_registry, l)
    <3>1. lock_registry' = lock_registry
      BY <2>1, <2>5
    <3> QED BY <1>1, <2>3, <2>5, <3>1
  <2>6. CASE ~Contains(lock_registry, l)
    <3>1. lock_registry' = m
      BY <2>1, <2>2, <2>6
    <3> QED BY <2>3, <2>4, <3>1
  <2> QED BY <2>5, <2>6
<1>3. /\ thread_registry' \in Seq(Thread)
      /\ \A u : find_thread_context(u) => find_thread_context(u)'
      /\ find_thread_context(t)'
  <2>1. thread_registry' = IF Contains(thread_registry, t) THEN thread_registry
                                                           ELSE <<t>> \o thread_registry
    BY DEF acquire_in_lists, add_lock_to_thread_context, find_thread_context
  <2>2. PICK m : m = <<t>> \o thread_registry
    OBVIOUS
  <2>3. m \in Seq(Thread) /\ \A y : Contains(m, y) <=> y = t \/ Contains(thread_registry, y)
    BY <1>1, <2>2, Prolonged, ProlongedHas
  <2> QED BY <1>1, <2>1, <2>2, <2>3 DEF find_thread_context
<1>4. PICK s \in Seq(Lock) : s = held_locks[t]
  BY <1>1
<1>5. PICK m : m = <<l>> \o s
  OBVIOUS
<1>6. /\ m \in Seq(Lock) /\ Len(m) = Len(s) + 1 /\ m[1] = l /\ Len(s) \in Nat
      /\ \A i \in 1 .. Len(m) : i = 1 \/ (i - 1 \in 1 .. Len(s) /\ m[i] = s[i - 1])
  BY <1>5, Prolonged
<1>7. held_locks' = [held_locks EXCEPT ![t] = m]
  BY <1>4, <1>5 DEF acquire_in_lists, add_lock_to_thread_context
<1>8. /\ held_locks' \in [Thread -> Seq(Lock)] /\ held_locks'[t] = m
      /\ \A u \in Thread : u # t => held_locks'[u] = held_locks[u]
  BY <1>1, <1>6, <1>7
<1>9. PICK n \in Stamp : /\ \A r \in held[t] : r.at < n
                         /\ held' = [held EXCEPT ![t] = @ \cup {[lock |-> l, at |-> n]}]
  BY DEF lockdep_acquire_lock, NextStamp
<1>10. /\ held'[t] = held[t] \cup {[lock |-> l, at |-> n]}
       /\ \A u \in Thread : u # t => held'[u] = held[u]
  BY <1>9 DEF TypeOK
<1>11. ASSUME NEW u \in Thread
       PROVE  \E at \in [1 .. Len(held_locks'[u]) -> Stamp] :
                Stamped(held_locks'[u], held'[u], at)
  <2>1. PICK at : Stamped(held_locks[u], held[u], at)
    BY DEF StacksStamped
  <2>2. CASE u = t
    <3>1. Stamped(s, held[t], at)
      BY <1>4, <2>1, <2>2
    <3>2. PICK x : Stamped(<<l>> \o s, held[t] \cup {[lock |-> l, at |-> n]}, x)
      BY <1>9, <3>1, PushStamped
    <3>3. Stamped(held_locks'[u], held'[u], x)
      BY <1>5, <1>8, <1>10, <2>2, <3>2
    <3> QED BY <3>3 DEF Stamped
  <2>3. CASE u # t
    <3>1. Stamped(held_locks'[u], held'[u], at)
      BY <1>8, <1>10, <2>1, <2>3
    <3> QED BY <3>1 DEF Stamped
  <2> QED BY <2>2, <2>3
<1>12. StacksStamped'
  BY <1>11 DEF StacksStamped, Stamped
<1>13. ASSUME NEW u \in Thread PROVE Registered(held_locks[u])'
  <2>1. \A i \in 1 .. Len(held_locks[u]) : Contains(lock_registry', held_locks[u][i])
    BY <1>2 DEF AllRegistered, Registered
  <2>2. CASE u = t
    <3>1. ASSUME NEW i \in 1 .. Len(m) PROVE Contains(lock_registry', m[i])
      BY <1>2, <1>4, <1>6, <2>1, <2>2
    <3> QED BY <1>8, <2>2, <3>1 DEF Registered
  <2>3. CASE u # t
    BY <1>8, <2>1, <2>3 DEF Registered
  <2> QED BY <2>2, <2>3
<1> QED BY <1>2, <1>3, <1>8, <1>12, <1>13

\* The children after a request are the edges.
LEMMA AcquireChildren ==
  ASSUME TypeOK, ListsTyped, StacksStamped, AllRegistered, ChildrenAgree,
         NEW t \in Thread, NEW l \in Lock,
         lockdep_acquire_lock(t, l), acquire_in_lists(t, l)
  PROVE  /\ children' \in [Lock -> Seq(Lock)]
         /\ ChildrenAgree'
         /\ \A k \in Lock : Registered(children[k])'
<1>1. /\ children \in [Lock -> Seq(Lock)] /\ held_locks \in [Thread -> Seq(Lock)]
      /\ \A k : Contains(lock_registry, k) => Contains(lock_registry', k)
      /\ Contains(lock_registry', l)
  BY AcquireStacks DEF ListsTyped
<1>2. PICK s \in Seq(Lock) : s = held_locks[t]
  BY <1>1
<1>3. PICK m : m = <<l>> \o s
  OBVIOUS
<1>4. /\ m \in Seq(Lock) /\ Len(m) = Len(s) + 1 /\ Len(s) \in Nat
      /\ \A i \in 1 .. Len(m) : i = 1 \/ (i - 1 \in 1 .. Len(s) /\ m[i] = s[i - 1])
  BY <1>3, Prolonged
<1>5. held_locks'[t] = m
  BY <1>1, <1>2, <1>3 DEF acquire_in_lists, add_lock_to_thread_context
<1>6. edges' = edges \cup {<<r.lock, l>> : r \in Newest(held[t])}
  BY DEF lockdep_acquire_lock, add_dependency_to_graph
<1>7. {r.lock : r \in Newest(held[t])} = IF Len(s) = 0 THEN {} ELSE {s[1]}
  <2>1. PICK at : Stamped(s, held[t], at)
    BY <1>2 DEF StacksStamped
  <2> QED BY <2>1, HeadIsNewest
<1>8. edges' = edges \cup {<<k, l>> : k \in {r.lock : r \in Newest(held[t])}}
  BY <1>6
<1>9. children' = IF Len(m) > 1 /\ ~Contains(children[m[2]], l)
                  THEN [children EXCEPT ![m[2]] = <<l>> \o @] ELSE children
  BY <1>5 DEF acquire_in_lists, add_child_to_previous
<1>10. \A a, b \in Lock : <<a, b>> \in edges <=> Contains(children[a], b)
  BY DEF ChildrenAgree
<1>11. edges' \subseteq Lock \X Lock
  BY AcquireType
<1>12. \A k \in Lock : \A i \in 1 .. Len(children[k]) : Contains(lock_registry', children[k][i])
  BY <1>1 DEF AllRegistered, Registered
<1>13. CASE Len(m) > 1 /\ ~Contains(children[m[2]], l)
  <2>1. Len(s) # 0 /\ 1 \in 1 .. Len(s) /\ 2 \in 1 .. Len(m)
    BY <1>4, <1>13
  <2>2. PICK h \in Lock : h = s[1] /\ h = m[2]
    BY <1>2, <1>4, <2>1, ElementOfSeq
  <2>3. edges' = edges \cup {<<h, l>>}
    BY <1>7, <1>8, <2>1, <2>2
  <2>4. PICK c : c = <<l>> \o children[h]
    OBVIOUS
  <2>5. children[h] \in Seq(Lock)
    BY <1>1
  <2>6. /\ c \in Seq(Lock) /\ Len(c) = Len(children[h]) + 1 /\ c[1] = l
        /\ \A i \in 1 .. Len(c) : i = 1 \/ (i - 1 \in 1 .. Len(children[h])
                                            /\ c[i] = children[h][i - 1])
        /\ \A y : Contains(c, y) <=> y = l \/ Contains(children[h], y)
    <3>1. PICK s0 \in Seq(Lock) : s0 = children[h]
      BY <2>5
    <3>2. /\ c \in Seq(Lock) /\ Len(c) = Len(s0) + 1 /\ c[1] = l
          /\ \A i \in 1 .. Len(c) : i = 1 \/ (i - 1 \in 1 .. Len(s0) /\ c[i] = s0[i - 1])
      BY <2>4, <3>1, Prolonged
    <3>3. \A y : Contains(c, y) <=> y = l \/ Contains(s0, y)
      <4>1. c = <<l>> \o s0
        BY <2>4, <3>1
      <4>2. ASSUME NEW y PROVE Contains(c, y) <=> y = l \/ Contains(s0, y)
        BY <4>1, ProlongedHas
      <4> QED BY <4>2
    <3> QED BY <3>1, <3>2, <3>3
  <2>7. /\ children' \in [Lock -> Seq(Lock)] /\ children'[h] = c
        /\ \A k \in Lock : k # h => children'[k] = children[k]
    <3>1. children' = [children EXCEPT ![h] = c]
      BY <1>9, <1>13, <2>2, <2>4
    <3> QED BY <1>1, <2>6, <3>1
  <2>8. ASSUME NEW a \in Lock, NEW b \in Lock
        PROVE  <<a, b>> \in edges' <=> Contains(children'[a], b)
    <3>1. CASE a = h
      BY <1>10, <2>3, <2>6, <2>7, <3>1
    <3>2. CASE a # h
      BY <1>10, <2>3, <2>7, <3>2
    <3> QED BY <3>1, <3>2
  <2>9. ASSUME NEW k \in Lock PROVE IsInjective(children'[k])
    <3>1. IsInjective(children[k])
      BY DEF ChildrenAgree
    <3>2. CASE k # h
      BY <2>7, <3>1, <3>2
    <3>3. CASE k = h
      <4>1. ASSUME NEW i \in 1 .. Len(c), NEW j \in 1 .. Len(c), c[i] = c[j]
            PROVE  i = j
        <5>1. ~Contains(children[h], l) /\ DOMAIN children[h] = 1 .. Len(children[h])
          BY <1>13, <2>2, <2>5
        <5>2. \A x \in 1 .. Len(children[h]) : children[h][x] # l
          BY <5>1 DEF Contains
        <5>3. \A x, y \in 1 .. Len(children[h]) :
                children[h][x] = children[h][y] => x = y
          BY <3>1, <3>3, <5>1 DEF IsInjective
        <5>4. CASE i = 1 \/ j = 1
          BY <2>6, <4>1, <5>2, <5>4
        <5>5. CASE i # 1 /\ j # 1
          <6>1. i - 1 = j - 1
            BY <2>6, <4>1, <5>3, <5>5
          <6> QED BY <6>1
        <5> QED BY <5>4, <5>5
      <4>2. DOMAIN c = 1 .. Len(c)
        BY <2>6
      <4>3. IsInjective(c)
        BY <4>1, <4>2 DEF IsInjective
      <4> QED BY <2>7, <3>3, <4>3
    <3> QED BY <3>2, <3>3
  <2>10. ASSUME NEW k \in Lock PROVE Registered(children[k])'
    <3>1. CASE k # h
      BY <1>12, <2>7, <3>1 DEF Registered
    <3>2. CASE k = h
      <4>1. ASSUME NEW i \in 1 .. Len(c) PROVE Contains(lock_registry', c[i])
        BY <1>1, <1>12, <2>6
      <4> QED BY <2>7, <3>2, <4>1 DEF Registered
    <3> QED BY <3>1, <3>2
  <2>11. edges' = {e \in Lock \X Lock : Contains(children'[e[1]], e[2])}
    BY <1>11, <2>8
  <2> QED BY <2>7, <2>9, <2>10, <2>11 DEF ChildrenAgree
<1>14. CASE ~(Len(m) > 1 /\ ~Contains(children[m[2]], l))
  <2>1. children' = children
    BY <1>9, <1>14
  <2>2. edges' = edges
    <3>1. CASE Len(s) = 0
      BY <1>7, <1>8, <3>1
    <3>2. CASE Len(s) # 0
      <4>1. 1 \in 1 .. Len(s) /\ 2 \in 1 .. Len(m) /\ Len(m) > 1
        BY <1>4, <3>2
      <4>2. PICK h \in Lock : h = s[1] /\ h = m[2]
        BY <1>2, <1>4, <4>1, ElementOfSeq
      <4>3. Contains(children[h], l)
        BY <1>14, <4>1, <4>2
      <4>4. <<h, l>> \in edges
        BY <1>10, <4>3
      <4> QED BY <1>7, <1>8, <3>2, <4>2, <4>4
    <3> QED BY <3>1, <3>2
  <2>3. ChildrenAgree'
    BY <2>1, <2>2 DEF ChildrenAgree
  <2>4. \A k \in Lock : Registered(children[k])'
    BY <1>12, <2>1 DEF Registered
  <2> QED BY <1>1, <2>1, <2>3, <2>4
<1> QED BY <1>13, <1>14

\* What is said of one report.
ReportAgrees(t) ==
  /\ warned[t] <=> report[t] # NoReport
  /\ warned[t] =>
       /\ Closed(report[t].cycle)
       /\ \A i \in 1 .. Len(report[t].cycle) - 1 :
            <<report[t].cycle[i], report[t].cycle[i + 1]>> \in edges
       /\ Len(lock_registry) <= MAX_SUGGESTED =>
            ToSet(report[t].cycle) \subseteq ToSet(report[t].order)

\* ReportsAgree is said of each thread alone.
LEMMA ReportsSplit == ReportsAgree <=> \A t \in Thread : ReportAgrees(t)
BY DEF ReportsAgree, ReportAgrees, Closed

\* A report stays true while the graph and the registry grow.
LEMMA ReportStays ==
  ASSUME NEW u \in Thread, ReportAgrees(u),
         Len(lock_registry) \in Nat, Len(lock_registry') \in Nat,
         Len(lock_registry) <= Len(lock_registry'), edges \subseteq edges',
         report'[u] = report[u], warned'[u] = warned[u]
  PROVE  ReportAgrees(u)'
<1>1. Len(lock_registry') <= MAX_SUGGESTED => Len(lock_registry) <= MAX_SUGGESTED
  BY LockdepListsAssumption
<1> QED BY <1>1 DEF ReportAgrees, Closed

\* A thread that was answered has nothing reported.
LEMMA ReportCleared ==
  ASSUME NEW u, report'[u] = NoReport, warned'[u] = FALSE
  PROVE  ReportAgrees(u)'
BY DEF ReportAgrees

\* The report of the request that closes a cycle.
LEMMA AcquireReports ==
  ASSUME TypeOK, ListsInv, NEW t \in Thread, NEW l \in Lock,
         lockdep_acquire_lock(t, l), acquire_in_lists(t, l)
  PROVE  DOMAIN report' = Thread /\ ReportsAgree'
<1>1. /\ lock_registry' \in Seq(Lock) /\ Len(lock_registry) <= Len(lock_registry')
      /\ children' \in [Lock -> Seq(Lock)]
      /\ ChildrenAgree'
      /\ \A k \in Lock : Registered(children[k])'
  BY AcquireStacks, AcquireChildren DEF ListsInv
<1>2. DOMAIN report = Thread /\ lock_registry \in Seq(Lock) /\ warned \in [Thread -> BOOLEAN]
  BY DEF ListsInv, ListsTyped, TypeOK
<1>3. PICK reg \in Seq(Lock) : reg = lock_registry'
  BY <1>1
<1>4. PICK C \in [Lock -> Seq(Lock)] : C = children'
  BY <1>1
<1>5. PICK R : R = {reg[i] : i \in 1 .. Len(reg)}
  OBVIOUS
<1>6. IsFiniteSet(R) /\ R \in SUBSET Lock /\ \A k \in R : Contains(reg, k)
  <2>1. \A i \in 1 .. Len(reg) : reg[i] \in Lock
    BY ElementOfSeq
  <2> QED BY <1>5, <2>1, ElementsFinite DEF Contains
<1>7. C \in [Lock -> Seq(R)]
  <2>1. ASSUME NEW k \in Lock PROVE C[k] \in Seq(R)
    <3>1. PICK s \in Seq(Lock) : s = C[k]
      OBVIOUS
    <3>2. \A i \in 1 .. Len(s) : Contains(reg, s[i])
      BY <1>1, <1>3, <1>4, <3>1 DEF Registered
    <3>3. \A i \in 1 .. Len(s) : s[i] \in R
      BY <1>5, <3>2 DEF Contains
    <3>4. s = [i \in 1 .. Len(s) |-> s[i]] /\ Len(s) \in Nat
      BY LenProperties
    <3>5. s \in [1 .. Len(s) -> R]
      BY <3>3, <3>4
    <3>6. s \in Seq(R)
      <4>1. Len(s) \in Nat
        BY <3>4
      <4>2. Seq(R) = UNION {[1 .. n -> R] : n \in Nat}
        BY SeqDef
      <4> QED BY <3>5, <4>1, <4>2
    <3> QED BY <3>1, <3>6
  <2> QED BY <2>1
<1>8. PICK cycle : cycle = cycle_from(C, l)
  OBVIOUS
<1>9. edges' = {e \in Lock \X Lock : Contains(C[e[1]], e[2])}
  BY <1>1, <1>4 DEF ChildrenAgree
<1>10. /\ cycle # <<>> <=> has_cycle(edges', l)
       /\ cycle # <<>> =>
            /\ cycle \in Seq(R)
            /\ Closed(cycle)
            /\ \A i \in 1 .. Len(cycle) - 1 : <<cycle[i], cycle[i + 1]>> \in edges'
  BY <1>6, <1>7, <1>8, <1>9, CycleFromExact
<1>11. report' = [report EXCEPT ![t] = IF cycle = <<>> THEN NoReport
                                       ELSE print_report(cycle, reg)]
  BY <1>3, <1>4, <1>8 DEF acquire_in_lists
<1>12. DOMAIN report' = Thread
  BY <1>2, <1>11
<1>13. /\ warned'[t] = has_cycle(edges', l)
       /\ \A u \in Thread : u # t => warned'[u] = warned[u]
  BY <1>2 DEF lockdep_acquire_lock
<1>14. \A u \in Thread : u # t => report'[u] = report[u]
  BY <1>2, <1>11
<1>15. edges \subseteq edges'
  BY DEF lockdep_acquire_lock, add_dependency_to_graph
<1>16. ASSUME NEW u \in Thread, u # t PROVE ReportAgrees(u)'
  <2>1. ReportAgrees(u)
    BY ReportsSplit DEF ListsInv
  <2>2. Len(lock_registry) \in Nat /\ Len(lock_registry') \in Nat
    BY <1>1, <1>2
  <2> QED BY <1>1, <1>13, <1>14, <1>15, <1>16, <2>1, <2>2, ReportStays
<1>17. ReportAgrees(t)'
  <2>1. CASE cycle = <<>>
    <3>1. report'[t] = NoReport
      BY <1>2, <1>11, <2>1
    <3>2. warned'[t] = FALSE
      BY <1>10, <1>13, <2>1
    <3> QED BY <3>1, <3>2, ReportCleared
  <2>2. CASE cycle # <<>>
    <3>1. PICK rep : rep = print_report(cycle, reg)
      OBVIOUS
    <3>2. report'[t] = rep
      BY <1>2, <1>11, <2>2, <3>1
    <3>3. rep.cycle = cycle /\ rep.order = suggest_lock_ordering(reg)
      BY <3>1 DEF print_report
    <3>4. rep # NoReport
      <4>1. DOMAIN rep = {"cycle", "order"}
        BY <3>1 DEF print_report
      <4>2. DOMAIN NoReport = 1 .. 0
        BY DEF NoReport
      <4>3. 1 .. 0 = {}
        OBVIOUS
      <4> QED BY <4>1, <4>2, <4>3
    <3>5. warned'[t]
      BY <1>10, <1>13, <2>2
    <3>6. ASSUME Len(reg) <= MAX_SUGGESTED, NEW k \in ToSet(cycle)
          PROVE  k \in ToSet(suggest_lock_ordering(reg))
      <4>1. k \in R
        <5>1. PICK i \in DOMAIN cycle : k = cycle[i]
          BY DEF ToSet
        <5>2. cycle \in Seq(R)
          BY <1>10, <2>2
        <5> QED BY <5>1, <5>2
      <4> QED BY <1>6, <3>6, <4>1, AllSuggested
    <3> QED BY <1>3, <1>10, <2>2, <3>2, <3>3, <3>4, <3>5, <3>6 DEF ReportAgrees
  <2> QED BY <2>1, <2>2
<1> QED BY <1>12, <1>16, <1>17, ReportsSplit DEF ReportsAgree, ReportAgrees, Closed
----------------------------------------------------------------------------
(* The invariant of the lists.                                            *)

\* Every step of the lists is a step of Lockdep.
LEMMA ListsSteps == [ListsNext]_listVars => [Next]_vars
BY DEF ListsNext, listVars, Next

\* A context stays, and what a thread owns without one it owned before.
LEMMA ContextsStay ==
  ASSUME ContextsKept, NEW t \in Thread,
         \A u : find_thread_context(u) => find_thread_context(u)',
         find_thread_context(t)' \/ pc'[t] = "trying",
         \A u \in Thread : u # t => pc'[u] = pc[u],
         \A u \in Thread, l \in Lock : u # t /\ owner'[l] = u => owner[l] = u
  PROVE  ContextsKept'
BY DEF ContextsKept

\* The lists after a request, whatever the call it is part of.
LEMMA AcquireLists ==
  ASSUME TypeOK, ListsInv, NEW t \in Thread, NEW l \in Lock,
         lockdep_acquire_lock(t, l), acquire_in_lists(t, l)
  PROVE  /\ ListsTyped' /\ StacksStamped' /\ AllRegistered' /\ ChildrenAgree' /\ ReportsAgree'
         /\ \A u : find_thread_context(u) => find_thread_context(u)'
         /\ find_thread_context(t)'
<1>1. /\ lock_registry' \in Seq(Lock)
      /\ thread_registry' \in Seq(Thread)
      /\ \A u : find_thread_context(u) => find_thread_context(u)'
      /\ find_thread_context(t)'
      /\ held_locks' \in [Thread -> Seq(Lock)]
      /\ StacksStamped'
      /\ \A u \in Thread : Registered(held_locks[u])'
  BY AcquireStacks DEF ListsInv
<1>2. /\ children' \in [Lock -> Seq(Lock)]
      /\ ChildrenAgree'
      /\ \A k \in Lock : Registered(children[k])'
  BY AcquireChildren DEF ListsInv
<1>3. DOMAIN report' = Thread /\ ReportsAgree'
  BY AcquireReports
<1> QED BY <1>1, <1>2, <1>3 DEF ListsTyped, AllRegistered

\* A step of the mutexes leaves the lists what they are, and what is reported
\* to the threads that are not answered.
LEMMA OthersKeepLists ==
  ASSUME ListsInv, UNCHANGED lists, UNCHANGED <<held, edges>>,
         DOMAIN report' = Thread,
         \A u \in Thread : \/ report'[u] = report[u] /\ warned'[u] = warned[u]
                           \/ report'[u] = NoReport /\ warned'[u] = FALSE
  PROVE  ListsTyped' /\ StacksStamped' /\ AllRegistered' /\ ChildrenAgree' /\ ReportsAgree'
<1> USE DEF ListsInv, lists
<1>1. ListsTyped' /\ AllRegistered' /\ ChildrenAgree'
  BY DEF ListsTyped, AllRegistered, Registered, ChildrenAgree
<1>2. StacksStamped'
  BY DEF StacksStamped, Stamped
<1>3. ASSUME NEW u \in Thread PROVE ReportAgrees(u)'
  <2>1. CASE report'[u] = NoReport /\ warned'[u] = FALSE
    BY <2>1, ReportCleared
  <2>2. CASE report'[u] = report[u] /\ warned'[u] = warned[u]
    <3>1. ReportAgrees(u)
      BY ReportsSplit
    <3> QED BY <2>2, <3>1 DEF ReportAgrees, Closed
  <2> QED BY <2>1, <2>2
<1>4. ReportsAgree'
  BY <1>3 DEF ReportsAgree, ReportAgrees, Closed
<1> QED BY <1>1, <1>2, <1>4

\* The lists after a release: one stack loses the records of the lock.
LEMMA ReleaseLists ==
  ASSUME TypeOK, ListsInv, NEW t \in Thread, NEW l \in Lock,
         lockdep_release_lock(t, l), release_in_lists(t, l)
  PROVE  ListsTyped' /\ StacksStamped' /\ AllRegistered' /\ ChildrenAgree' /\ ReportsAgree'
<1> USE DEF ListsInv
<1>1. UNCHANGED <<lock_registry, thread_registry, children, report, edges, warned>>
  BY DEF release_in_lists, lockdep_release_lock
<1>2. PICK s \in Seq(Lock) : s = held_locks[t]
  BY DEF ListsTyped
<1>3. PICK at : Stamped(s, held[t], at)
  BY <1>2 DEF StacksStamped
<1>4. PICK k : k = without(s, l)
  OBVIOUS
<1>5. /\ \E x : Stamped(k, {r \in held[t] : r.lock # l}, x)
      /\ k \in Seq(Lock)
      /\ \A i \in 1 .. Len(k) : \E j \in 1 .. Len(s) : k[i] = s[j]
  <2>1. /\ \E x : Stamped(without(s, l), {r \in held[t] : r.lock # l}, x)
        /\ without(s, l) \in Seq(Lock)
        /\ \A i \in 1 .. Len(without(s, l)) :
             \E j \in 1 .. Len(s) : without(s, l)[i] = s[j]
    <3>1. \E x : Stamped(without(s, l), {r \in held[t] : r.lock # l}, x)
      BY <1>3, ReleaseStamped
    <3>2. /\ without(s, l) \in Seq(Lock)
          /\ \A i \in 1 .. Len(without(s, l)) :
               \E j \in 1 .. Len(s) : without(s, l)[i] = s[j]
      BY <1>3, ReleaseStamped
    <3> QED BY <3>1, <3>2
  <2> QED BY <1>4, <2>1
<1>6. /\ held_locks' \in [Thread -> Seq(Lock)] /\ held_locks'[t] = k
      /\ \A u \in Thread : u # t => held_locks'[u] = held_locks[u]
  <2>1. held_locks' = [held_locks EXCEPT ![t] = k]
    BY <1>2, <1>4 DEF release_in_lists, release_lock_from_thread_context
  <2> QED BY <1>5, <2>1 DEF ListsTyped
<1>7. /\ held'[t] = {r \in held[t] : r.lock # l}
      /\ \A u \in Thread : u # t => held'[u] = held[u]
  BY DEF TypeOK, lockdep_release_lock
<1>8. ListsTyped'
  BY <1>1, <1>6 DEF ListsTyped
<1>9. StacksStamped'
  <2>1. ASSUME NEW u \in Thread PROVE \E x : Stamped(held_locks'[u], held'[u], x)
    <3>1. CASE u = t
      BY <1>5, <1>6, <1>7, <3>1
    <3>2. CASE u # t
      BY <1>6, <1>7, <3>2 DEF StacksStamped
    <3> QED BY <3>1, <3>2
  <2> QED BY <2>1 DEF StacksStamped, Stamped
<1>10. AllRegistered'
  <2>1. ASSUME NEW u \in Thread PROVE Registered(held_locks[u])'
    <3>1. \A j \in 1 .. Len(held_locks[u]) : Contains(lock_registry, held_locks[u][j])
      BY DEF AllRegistered, Registered
    <3>2. CASE u = t
      <4>1. \A i \in 1 .. Len(k) : Contains(lock_registry, k[i])
        BY <1>2, <1>5, <3>1, <3>2
      <4> QED BY <1>1, <1>6, <3>2, <4>1 DEF Registered
    <3>3. CASE u # t
      BY <1>1, <1>6, <3>1, <3>3 DEF Registered
    <3> QED BY <3>2, <3>3
  <2>2. \A c \in Lock : Registered(children[c])'
    BY <1>1 DEF AllRegistered, Registered
  <2> QED BY <2>1, <2>2 DEF AllRegistered
<1>11. ChildrenAgree'
  BY <1>1 DEF ChildrenAgree
<1>12. ReportsAgree'
  BY <1>1 DEF ReportsAgree
<1> QED BY <1>8, <1>9, <1>10, <1>11, <1>12

\* Every step keeps the invariant of the lists, on top of that of the calls.
LEMMA ListsStep == Base /\ ListsInv /\ [ListsNext]_listVars => ListsInv'
<1> SUFFICES ASSUME Base, ListsInv, [ListsNext]_listVars PROVE ListsInv'
  OBVIOUS
<1> USE LockdepAssumption
<1>0. TypeOK /\ CallsSound /\ ContextsKept /\ DOMAIN report = Thread
  BY DEF Base, ListsInv, ListsTyped
<1>1. ASSUME NEW t \in Thread, NEW l \in Lock,
             pthread_mutex_lock(t, l), acquire_in_lists(t, l)
      PROVE  ListsInv'
  <2>1. lockdep_acquire_lock(t, l)
    BY <1>1 DEF pthread_mutex_lock
  <2>2. /\ ListsTyped' /\ StacksStamped' /\ AllRegistered' /\ ChildrenAgree' /\ ReportsAgree'
        /\ \A u : find_thread_context(u) => find_thread_context(u)'
        /\ find_thread_context(t)'
    BY <1>0, <1>1, <2>1, AcquireLists
  <2>3. /\ \A u \in Thread : u # t => pc'[u] = pc[u]
        /\ \A u \in Thread, k \in Lock : u # t /\ owner'[k] = u => owner[k] = u
    BY <1>0, <1>1 DEF pthread_mutex_lock, Call, TypeOK
  <2>4. ContextsKept'
    BY <1>0, <2>2, <2>3, ContextsStay
  <2> QED BY <2>2, <2>4 DEF ListsInv
<1>2. ASSUME NEW t \in Thread, NEW l \in Lock,
             pthread_mutex_trylock(t, l), UNCHANGED <<lists, report>>
      PROVE  ListsInv'
  <2>1. UNCHANGED <<held, edges, warned>>
    BY <1>2 DEF pthread_mutex_trylock
  <2>2. /\ ListsTyped' /\ StacksStamped' /\ AllRegistered' /\ ChildrenAgree' /\ ReportsAgree'
    BY <1>0, <1>2, <2>1, OthersKeepLists
  <2>3. /\ pc'[t] = "trying"
        /\ \A u \in Thread : u # t => pc'[u] = pc[u]
        /\ \A u \in Thread, k \in Lock : u # t /\ owner'[k] = u => owner[k] = u
    BY <1>0, <1>2 DEF pthread_mutex_trylock, real_pthread_mutex_lock, Call, TypeOK
  <2>4. \A u : find_thread_context(u) => find_thread_context(u)'
    BY <1>2 DEF find_thread_context, lists
  <2>5. ContextsKept'
    BY <1>0, <2>3, <2>4, ContextsStay
  <2> QED BY <2>2, <2>5 DEF ListsInv
<1>3. ASSUME NEW t \in Thread, NEW l \in Lock,
             pthread_mutex_unlock(t, l), UNCHANGED <<lists, report>>
      PROVE  ListsInv'
  <2>1. UNCHANGED <<held, edges, warned>>
    BY <1>3 DEF pthread_mutex_unlock
  <2>2. /\ ListsTyped' /\ StacksStamped' /\ AllRegistered' /\ ChildrenAgree' /\ ReportsAgree'
    BY <1>0, <1>3, <2>1, OthersKeepLists
  <2>3. /\ \A u \in Thread : u # t => pc'[u] = pc[u]
        /\ \A u \in Thread, k \in Lock : u # t /\ owner'[k] = u => owner[k] = u
    BY <1>0, <1>3 DEF pthread_mutex_unlock, real_pthread_mutex_unlock, Call, TypeOK
  <2>4. \A u : find_thread_context(u) => find_thread_context(u)'
    BY <1>3 DEF find_thread_context, lists
  <2>5. find_thread_context(t)
    BY <1>0, <1>3 DEF pthread_mutex_unlock, ContextsKept
  <2>6. ContextsKept'
    BY <1>0, <2>3, <2>4, <2>5, ContextsStay
  <2> QED BY <2>2, <2>6 DEF ListsInv
<1>4. ASSUME NEW t \in Thread, Locked(t), Answered(t)
      PROVE  ListsInv'
  <2>1. UNCHANGED <<held, edges>> /\ UNCHANGED lists
    BY <1>4 DEF Locked, Answered
  <2>2. DOMAIN report' = Thread /\ \A u \in Thread :
          \/ report'[u] = report[u] /\ warned'[u] = warned[u]
          \/ report'[u] = NoReport /\ warned'[u] = FALSE
    BY <1>0, <1>4 DEF Locked, Answered, TypeOK
  <2>3. /\ ListsTyped' /\ StacksStamped' /\ AllRegistered' /\ ChildrenAgree' /\ ReportsAgree'
    BY <1>0, <2>1, <2>2, OthersKeepLists
  <2>4. /\ \A u \in Thread : u # t => pc'[u] = pc[u]
        /\ \A u \in Thread, k \in Lock : u # t /\ owner'[k] = u => owner[k] = u
    BY <1>0, <1>4 DEF Locked, real_pthread_mutex_lock, Return, Call, TypeOK
  <2>5. \A u : find_thread_context(u) => find_thread_context(u)'
    BY <2>1 DEF find_thread_context, lists
  <2>6. find_thread_context(t)
    BY <1>0, <1>4 DEF Locked, ContextsKept
  <2>7. ContextsKept'
    BY <1>0, <2>4, <2>5, <2>6, ContextsStay
  <2> QED BY <2>3, <2>7 DEF ListsInv
<1>5. ASSUME NEW t \in Thread, TryRecorded(t), acquire_in_lists(t, op[t])
      PROVE  ListsInv'
  <2>1. lockdep_acquire_lock(t, op[t]) /\ op[t] \in Lock
    BY <1>0, <1>5 DEF TryRecorded, CallsSound
  <2>2. /\ ListsTyped' /\ StacksStamped' /\ AllRegistered' /\ ChildrenAgree' /\ ReportsAgree'
        /\ \A u : find_thread_context(u) => find_thread_context(u)'
        /\ find_thread_context(t)'
    BY <1>0, <1>5, <2>1, AcquireLists
  <2>3. /\ \A u \in Thread : u # t => pc'[u] = pc[u]
        /\ \A u \in Thread, k \in Lock : u # t /\ owner'[k] = u => owner[k] = u
    BY <1>0, <1>5 DEF TryRecorded, Return, Call, TypeOK
  <2>4. ContextsKept'
    BY <1>0, <2>2, <2>3, ContextsStay
  <2> QED BY <2>2, <2>4 DEF ListsInv
<1>6. ASSUME NEW t \in Thread, TryRefused(t), Answered(t)
      PROVE  ListsInv'
  <2>1. UNCHANGED <<held, edges>> /\ UNCHANGED lists
    BY <1>6 DEF TryRefused, Answered
  <2>2. DOMAIN report' = Thread /\ \A u \in Thread :
          \/ report'[u] = report[u] /\ warned'[u] = warned[u]
          \/ report'[u] = NoReport /\ warned'[u] = FALSE
    BY <1>0, <1>6 DEF TryRefused, Answered, TypeOK
  <2>3. /\ ListsTyped' /\ StacksStamped' /\ AllRegistered' /\ ChildrenAgree' /\ ReportsAgree'
    BY <1>0, <2>1, <2>2, OthersKeepLists
  <2>4. /\ \A u \in Thread : u # t => pc'[u] = pc[u]
        /\ \A u \in Thread, k \in Lock : u # t /\ owner'[k] = u => owner[k] = u
    BY <1>0, <1>6 DEF TryRefused, real_pthread_mutex_unlock, Return, Call, TypeOK
  <2>5. \A u : find_thread_context(u) => find_thread_context(u)'
    BY <2>1 DEF find_thread_context, lists
  <2>6. find_thread_context(t)
    BY <1>0, <1>6 DEF TryRefused, ContextsKept
  <2>7. ContextsKept'
    BY <1>0, <2>4, <2>5, <2>6, ContextsStay
  <2> QED BY <2>3, <2>7 DEF ListsInv
<1>7. ASSUME NEW t \in Thread, Unlocked(t), release_in_lists(t, op[t])
      PROVE  ListsInv'
  <2>1. lockdep_release_lock(t, op[t]) /\ op[t] \in Lock
    BY <1>0, <1>7 DEF Unlocked, CallsSound
  <2>2. /\ ListsTyped' /\ StacksStamped' /\ AllRegistered' /\ ChildrenAgree' /\ ReportsAgree'
    BY <1>0, <1>7, <2>1, ReleaseLists
  <2>3. /\ \A u \in Thread : u # t => pc'[u] = pc[u]
        /\ \A u \in Thread, k \in Lock : u # t /\ owner'[k] = u => owner[k] = u
    BY <1>0, <1>7 DEF Unlocked, Return, Call, TypeOK
  <2>4. \A u : find_thread_context(u) => find_thread_context(u)'
    BY <1>7 DEF find_thread_context, release_in_lists
  <2>5. find_thread_context(t)
    BY <1>7 DEF release_in_lists
  <2>6. ContextsKept'
    BY <1>0, <2>3, <2>4, <2>5, ContextsStay
  <2> QED BY <2>2, <2>6 DEF ListsInv
<1>8. CASE UNCHANGED listVars
  <2>1. UNCHANGED <<lists, held, edges, report, warned, pc, owner>>
    BY <1>8 DEF listVars, vars
  <2>2. /\ ListsTyped' /\ StacksStamped' /\ AllRegistered' /\ ChildrenAgree' /\ ReportsAgree'
    BY <1>0, <2>1, OthersKeepLists
  <2>3. ContextsKept'
    BY <1>0, <2>1 DEF ContextsKept, find_thread_context, lists
  <2> QED BY <2>2, <2>3 DEF ListsInv
<1> QED BY <1>1, <1>2, <1>3, <1>4, <1>5, <1>6, <1>7, <1>8 DEF ListsNext

\* The invariant of the lists gives what ListsAgree says of them.
LEMMA ListsImply == Base /\ ListsInv => ListsAgree
<1> SUFFICES ASSUME Base, ListsInv PROVE ListsAgree
  OBVIOUS
<1>1. StacksAgree
  <2>1. ASSUME NEW t \in Thread
        PROVE  /\ Len(held_locks[t]) = Cardinality(held[t])
               /\ \A r \in held[t] :
                    held_locks[t][1 + Cardinality({q \in held[t] : q.at > r.at})] = r.lock
    <3>1. held_locks[t] \in Seq(Lock)
      BY DEF ListsInv, ListsTyped
    <3>2. PICK at : Stamped(held_locks[t], held[t], at)
      BY DEF ListsInv, StacksStamped
    <3> QED BY <3>1, <3>2, StampedAgrees
  <2> QED BY <2>1 DEF StacksAgree
<1>2. ContextsExist
  BY DEF ListsInv, ContextsKept, ContextsExist
<1> QED BY <1>1, <1>2 DEF ListsInv, ListsAgree

\* ListsSpec, of the detector with its lists, is Spec of the sets as well.
LEMMA ListsAreLockdep == ListsSpec => Spec
<1>1. ListsInit => Init
  BY DEF ListsInit
<1> QED BY <1>1, ListsSteps, PTL DEF ListsSpec, Spec

\* The linked lists of lockdep_core.c hold what the sets and relations of
\* Lockdep say, in the right order and once each; the search along them answers
\* exactly where the graph has a cycle, with a path that is one; the order it
\* suggests has every lock of the cycle if there is room; and a release finds
\* the context of its thread (ListsAgree).
THEOREM ListsAgreeAlways == ListsSpec => []ListsAgree
<1>1. ListsSpec => []Base
  <2>1. Spec => []Base
    BY InitBase, BaseStep, PTL DEF Spec
  <2> QED BY <2>1, ListsAreLockdep, PTL
<1>2. ListsSpec => []ListsInv
  BY <1>1, ListsStart, ListsStep, PTL DEF ListsSpec
<1> QED BY <1>1, <1>2, ListsImply, PTL

============================================================================
