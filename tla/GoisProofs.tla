----------------------------- MODULE GoisProofs -----------------------------
(***************************************************************************)
(* Proofs about module Gois, for any threads and mutexes: the stacks hold  *)
(* what is owned, a request is refused only for what was let pass before,  *)
(* the destructor's never, and threads deadlock with one another never.    *)
(***************************************************************************)
EXTENDS Gois, LockGraphProofs, FiniteSetTheorems

RecordType == [lock : Lock \cup {None}, at : Stamp]

GoisTypeOK ==
  /\ pc \in [Thread -> {"run", "locking", "trying", "releasing", "exit",
                     "destructor", "cleanup"}]
  /\ op \in [Thread -> Lock \cup {None}]
  /\ owner \in [Lock -> Thread \cup {None}]
  /\ depth \in [Lock -> Nat]
  /\ held \in [Thread -> SUBSET RecordType]
  /\ nodes \subseteq Lock
  /\ edges \subseteq nodes \X nodes
  /\ process \in {"running", "exiting", "cleaning", "cleaned", "ended"}
  /\ nested \subseteq Lock \X Lock

\* A mutex is owned while it is taken at least once. The thread in a call about
\* a mutex is in it by name, and only the destructor takes lockdep_mutex for long.
MutexesSound ==
  /\ \A l \in Lock : owner[l] = None <=> depth[l] = 0
  /\ depth[lockdep_mutex] \in {0, 1}
CallsSound ==
  \A t \in Thread : /\ pc[t] \in {"locking", "trying", "releasing"} => op[t] \in Mutex
                    /\ pc[t] = "trying" => owner[op[t]] = t
                    /\ pc[t] \in {"destructor", "cleanup"} => op[t] = lockdep_mutex
                    /\ pc[t] = "cleanup" <=> owner[lockdep_mutex] = t

Base == GoisTypeOK /\ MutexesSound /\ CallsSound

----------------------------------------------------------------------------
(* The inductive invariant, part by part.  The graph and the stacks mean   *)
(* something until the destructor has run.                                 *)

\* The records of one stack have stamps of their own, and nodes.
StacksSound ==
  /\ \A t \in Thread : \A r, s \in held[t] : r.at = s.at => r = s
  /\ Initialised => \A t \in Thread : \A r \in held[t] : r.lock \in nodes

\* A stack has as many records of a mutex as its thread owns it times, give or
\* take the call the thread is in.
RecordsOf(t, l) == {r \in held[t] : r.lock = l}
Times(t, l) == IF owner[l] = t THEN depth[l] ELSE 0
Told(t, l) ==
  IF op[t] = l /\ pc[t] \in {"locking", "releasing", "destructor"} THEN Times(t, l) + 1
  ELSE IF op[t] = l /\ pc[t] = "trying" THEN Times(t, l) - 1
  ELSE Times(t, l)
StacksCount ==
  Initialised => \A t \in Thread, l \in Lock :
    IsFiniteSet(RecordsOf(t, l)) /\ Cardinality(RecordsOf(t, l)) = Told(t, l)

\* The graph, but for the locks that follow themselves: a held lock leads in it
\* to the locks taken after it, and it has no cycle.
Loopless(E) == {e \in E : e[1] # e[2]}
OlderLeadsToNewer ==
  Initialised => \A t \in Thread : \A r, s \in held[t] :
    r.at < s.at => r.lock = s.lock \/ Reaches(Loopless(edges), r.lock, s.lock)
GraphAcyclic == \A l \in Lock : ~has_cycle(Loopless(edges), l)

\* The request of a thread that is in the real lock is its newest record.
OnTop(t) ==
  \E q \in held[t] : q.lock = op[t] /\ \A p \in held[t] \ {q} : p.at < q.at
RequestOnTop ==
  Initialised => \A t \in Thread : pc[t] = "locking" => OnTop(t)

\* Every edge is a nesting that was let pass, and none leaves lockdep_mutex.
EdgesAreNestings == edges \subseteq nested
NothingAfterDetector == \A l \in Lock : <<lockdep_mutex, l>> \notin edges

IInv ==
  /\ Base
  /\ StacksSound
  /\ StacksCount
  /\ OlderLeadsToNewer
  /\ GraphAcyclic
  /\ RequestOnTop
  /\ EdgesAreNestings
  /\ NothingAfterDetector
  /\ RecordsLive
  /\ RefusalHasPrecedent

----------------------------------------------------------------------------
(* Types, mutexes and calls.                                               *)

LEMMA InitBase == Init => Base
  BY GoisAssumption
  DEF Init, Base, GoisTypeOK, MutexesSound, CallsSound, Mutex

\* An acquisition that is answered true adds the lock's node, at most one edge
\* from the newest record, and one record newer than all.
LEMMA AcquiredIs ==
  ASSUME GoisTypeOK, StacksSound, NEW t \in Thread, NEW l \in Lock, Acquired(t, l)
  PROVE  /\ nodes' = nodes \cup {l}
         /\ edges \subseteq edges'
         /\ edges' \subseteq edges \cup {<<r.lock, l>> : r \in Newest(held[t])}
         /\ \E n \in Stamp : /\ \A r \in held[t] : r.at < n
                             /\ held' = [held EXCEPT ![t] = @ \cup {[lock |-> l, at |-> n]}]
  BY DEF Acquired, graph_find_or_create_node, graph_add_edge, Previous, Record,
         NextStamp, Push

LEMMA UntrackedIs ==
  ASSUME NEW t \in Thread, Untracked(t)
  PROVE  /\ process = "cleaned"
         /\ UNCHANGED <<nodes, edges>>
         /\ \/ UNCHANGED held
            \/ \E n \in Stamp : /\ \A r \in held[t] : r.at < n
                                /\ held' = [held EXCEPT ![t] = @ \cup {[lock |-> None, at |-> n]}]
  BY DEF Untracked, Record, NextStamp, Push

\* The detector's variables keep their types, whatever it answers.
LEMMA DetectorTypes ==
  ASSUME GoisTypeOK, StacksSound, NEW t \in Thread, NEW l \in Lock,
         Acquired(t, l) \/ Untracked(t) \/ Refused(t, l)
  PROVE  /\ held' \in [Thread -> SUBSET RecordType]
         /\ nodes' \subseteq Lock
         /\ edges' \subseteq nodes' \X nodes'
<1> USE DEF GoisTypeOK
<1>1. CASE Acquired(t, l)
  <2>1. \A r \in Newest(held[t]) : r.lock \in nodes
    BY <1>1 DEF Acquired, StacksSound, Newest
  <2>2. nodes' \subseteq Lock /\ edges' \subseteq nodes' \X nodes'
    BY <1>1, <2>1, AcquiredIs
  <2>3. PICK n \in Stamp : held' = [held EXCEPT ![t] = @ \cup {[lock |-> l, at |-> n]}]
    BY <1>1, AcquiredIs
  <2>4. [lock |-> l, at |-> n] \in RecordType
    BY DEF RecordType
  <2> QED BY <2>2, <2>3, <2>4
<1>2. CASE Untracked(t)
  <2>1. nodes' \subseteq Lock /\ edges' \subseteq nodes' \X nodes'
    BY <1>2, UntrackedIs
  <2>2. \A n \in Stamp : [lock |-> None, at |-> n] \in RecordType
    BY DEF RecordType
  <2> QED BY <1>2, <2>1, <2>2, UntrackedIs
<1>3. CASE Refused(t, l)
  BY <1>3 DEF Refused, graph_find_or_create_node
<1> QED BY <1>1, <1>2, <1>3

LEMMA BaseStep == Base /\ StacksSound /\ [Next]_vars => Base'
<1> SUFFICES ASSUME Base, StacksSound, [Next]_vars PROVE Base'
  OBVIOUS
<1> USE GoisAssumption DEF Base, Call, Return, Mutex
<1>1. ASSUME NEW t \in Thread, NEW l \in Mutex,
             pthread_mutex_lock(t, l) \/ pthread_mutex_lock_refused(t, l)
      PROVE  Base'
  <2>1. /\ held' \in [Thread -> SUBSET RecordType]
        /\ nodes' \subseteq Lock
        /\ edges' \subseteq nodes' \X nodes'
    BY <1>1, DetectorTypes DEF pthread_mutex_lock, pthread_mutex_lock_refused
  <2>2. nested' \subseteq Lock \X Lock
    BY <1>1 DEF GoisTypeOK, pthread_mutex_lock, pthread_mutex_lock_refused, Nest, Owned
  <2>3. GoisTypeOK'
    BY <1>1, <2>1, <2>2 DEF GoisTypeOK, pthread_mutex_lock, pthread_mutex_lock_refused
  <2>4. MutexesSound' /\ CallsSound'
    BY <1>1 DEF GoisTypeOK, MutexesSound, CallsSound, pthread_mutex_lock,
                pthread_mutex_lock_refused, InProgram
  <2> QED BY <2>3, <2>4
<1>2. ASSUME NEW t \in Thread, Locked(t) PROVE Base'
  <2>1. op[t] \in Lock /\ op[t] # lockdep_mutex /\ pc[t] = "locking"
    BY <1>2 DEF CallsSound, Locked, InCall, Mutex
  <2> USE <2>1 DEF Locked, real_pthread_mutex_lock
  <2>2. GoisTypeOK'
    BY <1>2 DEF GoisTypeOK
  <2>3. MutexesSound'
    BY <1>2 DEF GoisTypeOK, MutexesSound
  <2>4. CallsSound'
    BY <1>2 DEF GoisTypeOK, CallsSound, Available
  <2> QED BY <2>2, <2>3, <2>4
<1>3. ASSUME NEW t \in Thread, NEW l \in Mutex, pthread_mutex_trylock(t, l)
      PROVE  Base'
  <2> USE DEF pthread_mutex_trylock, real_pthread_mutex_lock
  <2>1. GoisTypeOK'
    BY <1>3 DEF GoisTypeOK
  <2>2. MutexesSound'
    BY <1>3 DEF GoisTypeOK, MutexesSound
  <2>3. CallsSound'
    BY <1>3 DEF GoisTypeOK, CallsSound, Available, InProgram
  <2> QED BY <2>1, <2>2, <2>3
<1>4. ASSUME NEW t \in Thread, TryRecorded(t) PROVE Base'
  <2> USE DEF TryRecorded
  <2>1. op[t] \in Lock
    BY <1>4 DEF CallsSound, InCall, Mutex
  <2>2. /\ held' \in [Thread -> SUBSET RecordType]
        /\ nodes' \subseteq Lock
        /\ edges' \subseteq nodes' \X nodes'
    BY <1>4, <2>1, DetectorTypes
  <2>5. nested' \subseteq Lock \X Lock
    BY <1>4, <2>1 DEF GoisTypeOK, Nest, OwnedBefore, Owned
  <2>3. GoisTypeOK'
    BY <1>4, <2>1, <2>2, <2>5 DEF GoisTypeOK
  <2>4. MutexesSound' /\ CallsSound'
    BY <1>4 DEF GoisTypeOK, MutexesSound, CallsSound, InCall
  <2> QED BY <2>3, <2>4
<1>5. ASSUME NEW t \in Thread, TryRefused(t) PROVE Base'
  <2> USE DEF TryRefused, real_pthread_mutex_unlock
  <2>1. op[t] \in Lock /\ owner[op[t]] = t /\ pc[t] = "trying"
    BY <1>5 DEF CallsSound, InCall
  <2>2. /\ held' \in [Thread -> SUBSET RecordType]
        /\ nodes' \subseteq Lock
        /\ edges' \subseteq nodes' \X nodes'
    BY <1>5, <2>1, DetectorTypes
  <2>3. depth[op[t]] \in Nat \ {0}
    BY <2>1 DEF GoisTypeOK, MutexesSound
  <2>4. GoisTypeOK'
    <3>1. depth' \in [Lock -> Nat] /\ owner' \in [Lock -> Thread \cup {None}]
      BY <1>5, <2>1, <2>3 DEF GoisTypeOK
    <3> QED BY <1>5, <2>2, <3>1 DEF GoisTypeOK
  <2>5. MutexesSound'
    BY <1>5, <2>1, <2>3 DEF GoisTypeOK, MutexesSound
  <2>6. CallsSound'
    BY <1>5, <2>1 DEF GoisTypeOK, CallsSound
  <2> QED BY <2>4, <2>5, <2>6
<1>6. ASSUME NEW t \in Thread, NEW l \in Mutex, pthread_mutex_unlock(t, l)
      PROVE  Base'
  <2> USE DEF pthread_mutex_unlock, real_pthread_mutex_unlock
  <2>1. depth[l] \in Nat \ {0}
    BY <1>6 DEF GoisTypeOK, MutexesSound
  <2>2. GoisTypeOK'
    BY <1>6, <2>1 DEF GoisTypeOK
  <2>3. MutexesSound'
    BY <1>6, <2>1 DEF GoisTypeOK, MutexesSound
  <2>4. CallsSound'
    BY <1>6 DEF GoisTypeOK, CallsSound, InProgram
  <2> QED BY <2>2, <2>3, <2>4
<1>7. ASSUME NEW t \in Thread, Unlocked(t) PROVE Base'
  <2> USE DEF Unlocked, lockdep_release_lock
  <2>1. GoisTypeOK'
    BY <1>7 DEF GoisTypeOK
  <2>2. MutexesSound' /\ CallsSound'
    BY <1>7 DEF GoisTypeOK, MutexesSound, CallsSound, InCall
  <2> QED BY <2>1, <2>2
<1>8. ASSUME NEW t \in Thread, exit(t) PROVE Base'
  BY <1>8 DEF exit, GoisTypeOK, MutexesSound, CallsSound, InProgram
<1>9. ASSUME NEW t \in Thread, lockdep_destructor(t) PROVE Base'
  <2>1. /\ held' \in [Thread -> SUBSET RecordType]
        /\ nodes' \subseteq Lock
        /\ edges' \subseteq nodes' \X nodes'
    BY <1>9, DetectorTypes DEF lockdep_destructor
  <2>2. nested' \subseteq Lock \X Lock
    BY <1>9 DEF GoisTypeOK, lockdep_destructor, Nest, Owned
  <2>3. GoisTypeOK'
    BY <1>9, <2>1, <2>2 DEF GoisTypeOK, lockdep_destructor
  <2>4. MutexesSound' /\ CallsSound'
    BY <1>9 DEF GoisTypeOK, MutexesSound, CallsSound, lockdep_destructor, InCall
  <2> QED BY <2>3, <2>4
<1>10. ASSUME NEW t \in Thread, DestructorLocked(t) PROVE Base'
  <2> USE DEF DestructorLocked, real_pthread_mutex_lock
  <2>1. GoisTypeOK'
    BY <1>10 DEF GoisTypeOK
  <2>2. MutexesSound'
    BY <1>10, GoisAssumption DEF GoisTypeOK, MutexesSound, Available, Mutex
  <2>3. CallsSound'
    BY <1>10 DEF GoisTypeOK, CallsSound, Available, InCall
  <2> QED BY <2>1, <2>2, <2>3
<1>11. ASSUME NEW t \in Thread, DestructorCleaned(t) PROVE Base'
  <2> USE DEF DestructorCleaned, lockdep_cleanup, real_pthread_mutex_unlock
  <2>1. owner[lockdep_mutex] = t /\ pc[t] = "cleanup"
    BY <1>11 DEF CallsSound, InCall
  <2>2. depth[lockdep_mutex] = 1
    BY <2>1 DEF GoisTypeOK, MutexesSound
  <2>3. GoisTypeOK'
    BY <1>11, <2>2 DEF GoisTypeOK
  <2>4. MutexesSound'
    BY <1>11, <2>1, <2>2 DEF GoisTypeOK, MutexesSound
  <2>5. CallsSound'
    BY <1>11, <2>1, <2>2 DEF GoisTypeOK, CallsSound, InCall
  <2> QED BY <2>3, <2>4, <2>5
<1>12. CASE Ended
  BY <1>12 DEF Ended, GoisTypeOK, MutexesSound, CallsSound
<1>13. CASE UNCHANGED vars
  BY <1>13 DEF vars, GoisTypeOK, MutexesSound, CallsSound
<1> QED
  BY <1>1, <1>2, <1>3, <1>4, <1>5, <1>6, <1>7, <1>8, <1>9, <1>10, <1>11, <1>12, <1>13
  DEF Next, Destructor

----------------------------------------------------------------------------
(* The graph and the stacks, whatever call changed them.                   *)

\* A non-empty stack has a newest record; so has the set of those of one mutex.
LEMMA NewestExists ==
  ASSUME NEW H \in SUBSET RecordType, H # {}
  PROVE  Newest(H) # {}
<1> USE GoisAssumption
<1> DEFINE S == {MaxHeld + 1 - r.at : r \in H}
<1>1. S \in SUBSET Nat /\ S # {}
  BY DEF RecordType, Stamp
<1>2. PICK x \in S : \A y \in S : x <= y
  BY <1>1, NatHasLeast
<1>3. PICK r \in H : x = MaxHeld + 1 - r.at
  OBVIOUS
<1>4. ASSUME NEW q \in H PROVE q.at <= r.at
  <2>1. x <= MaxHeld + 1 - q.at
    BY <1>2
  <2> QED BY <1>3, <2>1 DEF RecordType, Stamp
<1> QED BY <1>4 DEF Newest

Drop(t, l) == lockdep_release_lock(t, l) /\ UNCHANGED <<nodes, edges>>
Cleaned == lockdep_cleanup /\ process' = "cleaned"
Untouched == UNCHANGED <<held, edges>> /\ nodes \subseteq nodes'

\* The threads that acquire: their stacks hold what they own.
Asking == {"run", "trying", "exit"}

\* A step acquires, or pushes onto a stack nobody reads any more, releases,
\* cleans up, or leaves stacks and edges alone; the graph does not come back.
LEMMA DetectorSteps ==
  ASSUME Base, [Next]_vars
  PROVE  /\ \/ \E t \in Thread, l \in Lock : Acquired(t, l) /\ pc[t] \in Asking
            \/ \E t \in Thread : Untracked(t) /\ UNCHANGED process
            \/ \E t \in Thread, l \in Lock : Drop(t, l)
            \/ Cleaned
            \/ Untouched
         /\ Initialised' => Initialised
<1> DEFINE Kinds == \/ \E t \in Thread, l \in Lock : Acquired(t, l) /\ pc[t] \in Asking
                    \/ \E t \in Thread : Untracked(t) /\ UNCHANGED process
                    \/ \E t \in Thread, l \in Lock : Drop(t, l)
                    \/ Cleaned
                    \/ Untouched
<1> USE DEF Base, Mutex
<1>1. ASSUME NEW t \in Thread, NEW l \in Mutex, pthread_mutex_lock(t, l)
      PROVE  Kinds /\ UNCHANGED process
  BY <1>1 DEF pthread_mutex_lock, InProgram, Asking
<1>2. ASSUME NEW t \in Thread, NEW l \in Mutex, pthread_mutex_lock_refused(t, l)
      PROVE  Untouched /\ Initialised
  BY <1>2 DEF pthread_mutex_lock_refused, Refused, graph_find_or_create_node, Untouched
<1>3. ASSUME NEW t \in Thread, NEW l \in Mutex,
             pthread_mutex_trylock(t, l) \/ pthread_mutex_unlock(t, l)
      PROVE  Untouched /\ UNCHANGED process
  BY <1>3 DEF pthread_mutex_trylock, pthread_mutex_unlock, Untouched
<1>4. ASSUME NEW t \in Thread, Locked(t) PROVE Untouched /\ UNCHANGED process
  BY <1>4 DEF Locked, Untouched
<1>5. ASSUME NEW t \in Thread, TryRecorded(t) PROVE Kinds /\ UNCHANGED process
  BY <1>5 DEF TryRecorded, InCall, CallsSound, Asking
<1>6. ASSUME NEW t \in Thread, TryRefused(t) PROVE Untouched /\ UNCHANGED process
  BY <1>6 DEF TryRefused, Refused, graph_find_or_create_node, Untouched
<1>7. ASSUME NEW t \in Thread, Unlocked(t) PROVE Kinds /\ UNCHANGED process
  BY <1>7 DEF Unlocked, InCall, CallsSound, Drop
<1>8. ASSUME NEW t \in Thread, exit(t) PROVE Untouched /\ (Initialised' => Initialised)
  BY <1>8 DEF exit, Untouched, Initialised
<1>9. ASSUME NEW t \in Thread, lockdep_destructor(t) PROVE Kinds /\ Initialised
  <2>1. CASE Acquired(t, lockdep_mutex)
    BY <1>9, <2>1, GoisAssumption DEF lockdep_destructor, InCall, Acquired, Asking
  <2>2. CASE Refused(t, lockdep_mutex)
    BY <2>2 DEF Refused, graph_find_or_create_node, Untouched
  <2> QED BY <1>9, <2>1, <2>2 DEF lockdep_destructor
<1>10. ASSUME NEW t \in Thread, DestructorLocked(t) PROVE Untouched /\ UNCHANGED process
  BY <1>10 DEF DestructorLocked, Untouched
<1>11. ASSUME NEW t \in Thread, DestructorCleaned(t) PROVE Cleaned /\ ~Initialised'
  BY <1>11 DEF DestructorCleaned, Cleaned, Initialised
<1>12. CASE Ended
  BY <1>12 DEF Ended, Untouched, Initialised
<1>13. CASE UNCHANGED vars
  BY <1>13 DEF vars, Untouched, Initialised
<1> QED
  BY <1>1, <1>2, <1>3, <1>4, <1>5, <1>6, <1>7, <1>8, <1>9, <1>10, <1>11, <1>12, <1>13
  DEF Next, Destructor, Initialised

\* A new record is newer than all that are there.
LEMMA PushKeepsStamps ==
  ASSUME GoisTypeOK, StacksSound, NEW t \in Thread, NEW x, NEW n \in Stamp,
         \A r \in held[t] : r.at < n,
         held' = [held EXCEPT ![t] = @ \cup {[lock |-> x, at |-> n]}]
  PROVE  \A u \in Thread : \A r, s \in held'[u] : r.at = s.at => r = s
<1> SUFFICES ASSUME NEW u \in Thread, NEW r \in held'[u], NEW s \in held'[u], r.at = s.at
             PROVE  r = s
  OBVIOUS
<1>1. \A q \in held[t] : q.at \in Int /\ n \in Int /\ q.at # n
  BY DEF GoisTypeOK, RecordType, Stamp
<1>2. CASE u = t
  BY <1>1, <1>2 DEF GoisTypeOK, StacksSound
<1>3. CASE u # t
  BY <1>3 DEF GoisTypeOK, StacksSound
<1> QED BY <1>2, <1>3

LEMMA StacksStep ==
  ASSUME Base, StacksSound, RecordsLive, [Next]_vars
  PROVE  StacksSound' /\ RecordsLive'
<1> USE DEF Base
<1>1. ASSUME NEW t \in Thread, NEW l \in Lock, Acquired(t, l)
      PROVE  StacksSound' /\ RecordsLive'
  <2>1. PICK n \in Stamp :
          /\ \A r \in held[t] : r.at < n
          /\ held' = [held EXCEPT ![t] = @ \cup {[lock |-> l, at |-> n]}]
    BY <1>1, AcquiredIs
  <2>2. nodes' = nodes \cup {l} /\ Initialised
    BY <1>1, AcquiredIs DEF Acquired
  <2>3. \A u \in Thread : \A r \in held'[u] : r.lock \in nodes'
    BY <2>1, <2>2 DEF GoisTypeOK, StacksSound
  <2> QED BY <2>1, <2>3, PushKeepsStamps DEF StacksSound, RecordsLive
<1>2. ASSUME NEW t \in Thread, Untracked(t), UNCHANGED process
      PROVE  StacksSound' /\ RecordsLive'
  <2>1. ~Initialised' /\ UNCHANGED nodes
    BY <1>2, UntrackedIs DEF Initialised
  <2>2. CASE UNCHANGED held
    BY <2>1, <2>2 DEF StacksSound, RecordsLive
  <2>3. CASE \E n \in Stamp : /\ \A r \in held[t] : r.at < n
                              /\ held' = [held EXCEPT ![t] = @ \cup {[lock |-> None, at |-> n]}]
    <3>1. PICK n \in Stamp : /\ \A r \in held[t] : r.at < n
                             /\ held' = [held EXCEPT ![t] = @ \cup {[lock |-> None, at |-> n]}]
      BY <2>3
    <3>2. \A u \in Thread : \A r \in held'[u] : r.lock \in nodes' \cup {None}
      BY <2>1, <3>1 DEF GoisTypeOK, RecordsLive
    <3> QED BY <2>1, <3>1, <3>2, PushKeepsStamps DEF StacksSound, RecordsLive
  <2> QED BY <1>2, <2>2, <2>3, UntrackedIs
<1>3. ASSUME NEW t \in Thread, NEW l \in Lock, Drop(t, l), Initialised' => Initialised
      PROVE  StacksSound' /\ RecordsLive'
  <2>1. \A u \in Thread : held'[u] \subseteq held[u]
    BY <1>3 DEF Drop, lockdep_release_lock, GoisTypeOK
  <2> QED BY <1>3, <2>1 DEF StacksSound, RecordsLive, Drop
<1>4. CASE Cleaned
  BY <1>4 DEF Cleaned, lockdep_cleanup, StacksSound, RecordsLive
<1>5. ASSUME Untouched, Initialised' => Initialised
      PROVE  StacksSound' /\ RecordsLive'
  BY <1>5 DEF Untouched, StacksSound, RecordsLive
<1> QED BY <1>1, <1>2, <1>3, <1>4, <1>5, DetectorSteps

\* The edge of an acquisition is refused where it would close a cycle; from a
\* lock to itself it is left out of account.
LEMMA GraphStep ==
  ASSUME Base, StacksSound, GraphAcyclic, [Next]_vars
  PROVE  GraphAcyclic'
<1> USE DEF Base
<1>1. ASSUME NEW t \in Thread, NEW l \in Lock, Acquired(t, l)
      PROVE  GraphAcyclic'
  <2>1. CASE edges' = edges
    BY <2>1 DEF GraphAcyclic
  <2>2. ASSUME NEW k \in Previous(t), graph_add_edge(k, l)
        PROVE  GraphAcyclic'
    <3>1. k \in Lock
      BY <1>1 DEF Previous, Newest, StacksSound, Acquired, GoisTypeOK
    <3>2. edges' = edges \cup {<<k, l>>}
      BY <2>2 DEF graph_add_edge
    <3>3. CASE k = l
      <4>1. Loopless(edges') = Loopless(edges)
        BY <3>2, <3>3 DEF Loopless
      <4> QED BY <4>1 DEF GraphAcyclic
    <3>4. CASE k # l
      <4>1. ~Reaches(edges, l, k)
        BY <1>1, <2>2 DEF Acquired, Refuses, graph_would_create_cycle, dfs_has_cycle
      <4>2. ~Reaches(Loopless(edges), l, k)
        BY <4>1, ReachesGrows DEF Loopless
      <4>3. Loopless(edges') = Loopless(edges) \cup {<<k, l>>}
        BY <3>2, <3>4 DEF Loopless
      <4> QED BY <3>1, <3>4, <4>2, <4>3, EdgeKeepsAcyclic DEF GraphAcyclic
    <3> QED BY <3>3, <3>4
  <2> QED BY <1>1, <2>1, <2>2 DEF Acquired
<1>2. ASSUME NEW t \in Thread, Untracked(t) PROVE GraphAcyclic'
  BY <1>2, UntrackedIs DEF GraphAcyclic
<1>3. ASSUME NEW t \in Thread, NEW l \in Lock, Drop(t, l) PROVE GraphAcyclic'
  BY <1>3 DEF Drop, GraphAcyclic
<1>4. CASE Cleaned
  <2>1. Loopless(edges') = {}
    BY <1>4 DEF Cleaned, lockdep_cleanup, Loopless
  <2> QED BY <2>1, NoEdgesAcyclic DEF GraphAcyclic
<1>5. CASE Untouched
  BY <1>5 DEF Untouched, GraphAcyclic
<1> QED BY <1>1, <1>2, <1>3, <1>4, <1>5, DetectorSteps

\* The edge from the newest record prolongs the paths that led to it.
LEMMA OrderStep ==
  ASSUME Base, StacksSound, OlderLeadsToNewer, [Next]_vars
  PROVE  OlderLeadsToNewer'
<1> USE DEF Base
<1>1. ASSUME NEW t \in Thread, NEW l \in Lock, Acquired(t, l)
      PROVE  OlderLeadsToNewer'
  <2>1. PICK n \in Stamp :
          /\ \A r \in held[t] : r.at < n
          /\ held' = [held EXCEPT ![t] = @ \cup {[lock |-> l, at |-> n]}]
    BY <1>1, AcquiredIs
  <2>2. Initialised /\ Loopless(edges) \subseteq Loopless(edges')
    BY <1>1, AcquiredIs DEF Acquired, Loopless
  <2>3. ASSUME NEW r \in held[t]
        PROVE  r.lock = l \/ Reaches(Loopless(edges'), r.lock, l)
    <3>1. Newest(held[t]) # {}
      BY NewestExists DEF GoisTypeOK
    <3>2. PICK p \in Newest(held[t]) : <<p.lock, l>> \in edges'
      BY <1>1, <3>1 DEF Acquired, Previous, graph_add_edge
    <3>3. p \in held[t] /\ r.lock \in Lock /\ p.lock \in Lock
      BY <2>2, <3>2 DEF Newest, StacksSound, GoisTypeOK
    <3>4. r.at <= p.at /\ r.at \in Int /\ p.at \in Int
      BY <3>2, <3>3 DEF Newest, GoisTypeOK, RecordType, Stamp
    <3>5. r.lock = p.lock \/ Reaches(Loopless(edges), r.lock, p.lock)
      <4>1. CASE r.at = p.at
        BY <3>3, <4>1 DEF StacksSound
      <4>2. CASE r.at < p.at
        BY <2>2, <3>3, <4>2 DEF OlderLeadsToNewer
      <4> QED BY <3>4, <4>1, <4>2
    <3>6. r.lock = p.lock \/ Reaches(Loopless(edges'), r.lock, p.lock)
      BY <2>2, <3>5, ReachesGrows
    <3>7. p.lock # l => <<p.lock, l>> \in Loopless(edges')
      BY <3>2 DEF Loopless
    <3> QED BY <3>3, <3>6, <3>7, EdgeReaches, ReachesThenEdge
  <2>4. ASSUME NEW u \in Thread, NEW r \in held'[u], NEW s \in held'[u], r.at < s.at
        PROVE  r.lock = s.lock \/ Reaches(Loopless(edges'), r.lock, s.lock)
    <3>1. CASE r \in held[u] /\ s \in held[u]
      BY <2>2, <2>4, <3>1, ReachesGrows DEF OlderLeadsToNewer
    <3>2. CASE u = t /\ r \in held[t] /\ s = [lock |-> l, at |-> n]
      BY <2>3, <3>2
    <3>3. CASE u = t /\ r = [lock |-> l, at |-> n]
      <4>1. \A q \in held[t] : q.at \in Int /\ q.at < n /\ n \in Int
        BY <2>1 DEF GoisTypeOK, RecordType, Stamp
      <4>2. s \in held[t] \/ s = r
        BY <2>1, <3>3 DEF GoisTypeOK
      <4> QED BY <2>4, <3>3, <4>1, <4>2
    <3> QED BY <2>1, <3>1, <3>2, <3>3 DEF GoisTypeOK
  <2> QED BY <2>4 DEF OlderLeadsToNewer
<1>2. ASSUME NEW t \in Thread, Untracked(t), UNCHANGED process PROVE OlderLeadsToNewer'
  BY <1>2, UntrackedIs DEF OlderLeadsToNewer, Initialised
<1>3. ASSUME NEW t \in Thread, NEW l \in Lock, Drop(t, l), Initialised' => Initialised
      PROVE  OlderLeadsToNewer'
  <2>1. \A u \in Thread : held'[u] \subseteq held[u]
    BY <1>3 DEF Drop, lockdep_release_lock, GoisTypeOK
  <2> QED BY <1>3, <2>1 DEF OlderLeadsToNewer, Drop
<1>4. CASE Cleaned
  BY <1>4 DEF Cleaned, Initialised, OlderLeadsToNewer
<1>5. ASSUME Untouched, Initialised' => Initialised PROVE OlderLeadsToNewer'
  BY <1>5 DEF Untouched, OlderLeadsToNewer
<1> QED BY <1>1, <1>2, <1>3, <1>4, <1>5, DetectorSteps

----------------------------------------------------------------------------
(* The stacks hold what is owned.                                          *)

Counted(t, l, n) == IsFiniteSet(RecordsOf(t, l)) /\ Cardinality(RecordsOf(t, l)) = n

\* An acquisition adds one record of the mutex.
LEMMA PushCounts ==
  ASSUME Base, StacksSound, NEW t \in Thread, NEW l \in Lock, Acquired(t, l),
         NEW u \in Thread, NEW m \in Lock, NEW n \in Int, Counted(u, m, n)
  PROVE  Counted(u, m, IF u = t /\ m = l THEN n + 1 ELSE n)'
<1> USE DEF Base, GoisTypeOK
<1>1. PICK a \in Stamp :
        /\ \A r \in held[t] : r.at < a
        /\ held' = [held EXCEPT ![t] = @ \cup {[lock |-> l, at |-> a]}]
  BY AcquiredIs
<1> DEFINE new == [lock |-> l, at |-> a]
<1>2. new \notin held[t]
  <2>1. ~(a < a)
    BY DEF Stamp
  <2> QED BY <1>1, <2>1
<1>3. CASE u = t /\ m = l
  <2>1. RecordsOf(u, m)' = RecordsOf(u, m) \cup {new} /\ new \notin RecordsOf(u, m)
    BY <1>1, <1>2, <1>3 DEF RecordsOf
  <2> HIDE DEF new
  <2> QED BY <1>3, <2>1, FS_AddElement DEF Counted
<1>4. CASE ~(u = t /\ m = l)
  <2>1. RecordsOf(u, m)' = RecordsOf(u, m)
    BY <1>1, <1>4 DEF RecordsOf
  <2> QED BY <1>4, <2>1 DEF Counted
<1> QED BY <1>3, <1>4

\* A release removes one record of the mutex, if there is one.
LEMMA DropCounts ==
  ASSUME Base, StacksSound, NEW t \in Thread, NEW l \in Lock, lockdep_release_lock(t, l),
         NEW u \in Thread, NEW m \in Lock, NEW n \in Int, Counted(u, m, n),
         u = t /\ m = l => n # 0
  PROVE  Counted(u, m, IF u = t /\ m = l THEN n - 1 ELSE n)'
<1> USE DEF Base, GoisTypeOK
<1>1. held' = [held EXCEPT ![t] = @ \ Newest(RecordsOf(t, l))]
  BY DEF lockdep_release_lock, RecordsOf
<1>2. CASE u = t /\ m = l
  <2>1. RecordsOf(t, l) # {}
    BY <1>2, FS_EmptySet DEF Counted
  <2>2. RecordsOf(t, l) \in SUBSET RecordType
    BY DEF RecordsOf
  <2>3. PICK r : r \in Newest(RecordsOf(t, l))
    BY <2>1, <2>2, NewestExists
  <2>4. r \in RecordsOf(t, l)
    BY <2>3 DEF Newest
  <2>5. ASSUME NEW q \in Newest(RecordsOf(t, l)) PROVE q = r
    <3>1. q.at <= r.at /\ r.at <= q.at /\ q \in held[t] /\ r \in held[t]
      BY <2>3, <2>5 DEF Newest, RecordsOf
    <3>2. q.at \in Int /\ r.at \in Int
      BY <3>1 DEF RecordType, Stamp
    <3>3. q.at = r.at
      BY <3>1, <3>2
    <3> QED BY <3>1, <3>3 DEF StacksSound
  <2>6. Newest(RecordsOf(t, l)) = {r}
    BY <2>3, <2>5
  <2>7. RecordsOf(u, m)' = RecordsOf(t, l) \ {r}
    BY <1>1, <1>2, <2>6 DEF RecordsOf
  <2> QED BY <1>2, <2>4, <2>7, FS_RemoveElement DEF Counted
<1>3. CASE ~(u = t /\ m = l)
  <2>1. \A r \in Newest(RecordsOf(t, l)) : r.lock = l
    BY DEF Newest, RecordsOf
  <2>2. RecordsOf(u, m)' = RecordsOf(u, m)
    BY <1>1, <1>3, <2>1 DEF RecordsOf
  <2> QED BY <1>3, <2>2 DEF Counted
<1> QED BY <1>2, <1>3

\* What the count ought to be is a number, and one at least before a release.
LEMMA ToldIs ==
  ASSUME Base, NEW t \in Thread, NEW l \in Lock
  PROVE  /\ Told(t, l) \in Int
         /\ op[t] = l /\ pc[t] = "releasing" => Told(t, l) # 0
  BY DEF Base, GoisTypeOK, Told, Times

LEMMA CountStep ==
  ASSUME Base, StacksSound, StacksCount, [Next]_vars
  PROVE  StacksCount'
<1> SUFFICES ASSUME Initialised', NEW u \in Thread, NEW m \in Lock
             PROVE  Counted(u, m, Told(u, m))'
  BY DEF StacksCount, Counted
<1>0. Initialised /\ Counted(u, m, Told(u, m)) /\ Told(u, m) \in Int
  BY DetectorSteps, ToldIs DEF StacksCount, Counted
<1> USE GoisAssumption DEF Base, Call, Return, Mutex
\* Steps that leave the stacks alone.
<1>1. ASSUME UNCHANGED held, Told(u, m)' = Told(u, m)
      PROVE  Counted(u, m, Told(u, m))'
  BY <1>0, <1>1 DEF Counted, RecordsOf
<1>2. ASSUME NEW t \in Thread, NEW l \in Mutex, pthread_mutex_lock(t, l)
      PROVE  Counted(u, m, Told(u, m))'
  <2>1. Acquired(t, l)
    BY <1>0, <1>2, UntrackedIs DEF pthread_mutex_lock, Initialised
  <2>2. Told(u, m)' = IF u = t /\ m = l THEN Told(u, m) + 1 ELSE Told(u, m)
    BY <1>2 DEF pthread_mutex_lock, InProgram, Told, Times, GoisTypeOK
  <2> QED BY <1>0, <2>1, <2>2, PushCounts DEF Counted
<1>3. ASSUME NEW t \in Thread, NEW l \in Mutex, pthread_mutex_lock_refused(t, l)
      PROVE  Counted(u, m, Told(u, m))'
  <2>1. Told(u, m)' = Told(u, m)
    BY <1>3 DEF pthread_mutex_lock_refused, InProgram, Told, Times, GoisTypeOK
  <2> QED BY <1>1, <1>3, <2>1 DEF pthread_mutex_lock_refused, Refused
<1>4. ASSUME NEW t \in Thread, Locked(t) PROVE Counted(u, m, Told(u, m))'
  <2>1. op[t] \in Lock /\ pc[t] = "locking"
    BY <1>4 DEF CallsSound, Locked, InCall
  <2>2. Told(u, m)' = Told(u, m)
    BY <1>4, <2>1 DEF Locked, real_pthread_mutex_lock, Available, Told, Times,
                      GoisTypeOK, MutexesSound
  <2> QED BY <1>1, <1>4, <2>2 DEF Locked
<1>5. ASSUME NEW t \in Thread, NEW l \in Mutex, pthread_mutex_trylock(t, l)
      PROVE  Counted(u, m, Told(u, m))'
  <2>1. Told(u, m)' = Told(u, m)
    BY <1>5 DEF pthread_mutex_trylock, InProgram, real_pthread_mutex_lock, Available,
                Told, Times, GoisTypeOK, MutexesSound
  <2> QED BY <1>1, <1>5, <2>1 DEF pthread_mutex_trylock
<1>6. ASSUME NEW t \in Thread, TryRecorded(t) PROVE Counted(u, m, Told(u, m))'
  <2>1. op[t] \in Lock /\ pc[t] = "trying"
    BY <1>6 DEF CallsSound, TryRecorded, InCall
  <2>2. Acquired(t, op[t])
    BY <1>0, <1>6, UntrackedIs DEF TryRecorded, Initialised
  <2>3. Told(u, m)' = IF u = t /\ m = op[t] THEN Told(u, m) + 1 ELSE Told(u, m)
    BY <1>6, <2>1 DEF TryRecorded, Told, Times, GoisTypeOK
  <2> QED BY <1>0, <2>1, <2>2, <2>3, PushCounts DEF Counted
<1>7. ASSUME NEW t \in Thread, TryRefused(t) PROVE Counted(u, m, Told(u, m))'
  <2>1. op[t] \in Lock /\ pc[t] = "trying" /\ owner[op[t]] = t
    BY <1>7 DEF CallsSound, TryRefused, InCall
  <2>2. Told(u, m)' = Told(u, m)
    BY <1>7, <2>1 DEF TryRefused, real_pthread_mutex_unlock, Told, Times, GoisTypeOK,
                      MutexesSound
  <2> QED BY <1>1, <1>7, <2>2 DEF TryRefused, Refused
<1>8. ASSUME NEW t \in Thread, NEW l \in Mutex, pthread_mutex_unlock(t, l)
      PROVE  Counted(u, m, Told(u, m))'
  <2>1. Told(u, m)' = Told(u, m)
    BY <1>8 DEF pthread_mutex_unlock, InProgram, real_pthread_mutex_unlock,
                Told, Times, GoisTypeOK, MutexesSound
  <2> QED BY <1>1, <1>8, <2>1 DEF pthread_mutex_unlock
<1>9. ASSUME NEW t \in Thread, Unlocked(t) PROVE Counted(u, m, Told(u, m))'
  <2>1. op[t] \in Lock /\ pc[t] = "releasing"
    BY <1>9 DEF CallsSound, Unlocked, InCall
  <2>2. u = t /\ m = op[t] => Told(u, m) # 0
    BY <2>1, ToldIs
  <2>3. Told(u, m)' = IF u = t /\ m = op[t] THEN Told(u, m) - 1 ELSE Told(u, m)
    BY <1>9, <2>1 DEF Unlocked, Told, Times, GoisTypeOK
  <2> QED BY <1>0, <1>9, <2>1, <2>2, <2>3, DropCounts DEF Counted, Unlocked
<1>10. ASSUME NEW t \in Thread, exit(t) PROVE Counted(u, m, Told(u, m))'
  <2>1. Told(u, m)' = Told(u, m)
    BY <1>10 DEF exit, InProgram, Told, Times, GoisTypeOK
  <2> QED BY <1>1, <1>10, <2>1 DEF exit
<1>11. ASSUME NEW t \in Thread, lockdep_destructor(t) PROVE Counted(u, m, Told(u, m))'
  <2>1. pc[t] = "exit"
    BY <1>11 DEF lockdep_destructor, InCall
  <2>2. CASE Refused(t, lockdep_mutex)
    BY <1>11, <2>2 DEF lockdep_destructor, Refused, Initialised
  <2>3. CASE Acquired(t, lockdep_mutex)
    <3>1. Call(t, lockdep_mutex, "destructor") /\ UNCHANGED <<owner, depth>>
      BY <1>11, <2>3 DEF lockdep_destructor, Acquired
    <3>2. Told(u, m)' = IF u = t /\ m = lockdep_mutex THEN Told(u, m) + 1 ELSE Told(u, m)
      BY <2>1, <3>1 DEF Told, Times, GoisTypeOK
    <3> QED BY <1>0, <2>3, <3>2, PushCounts DEF Counted
  <2> QED BY <1>11, <2>2, <2>3 DEF lockdep_destructor
<1>12. ASSUME NEW t \in Thread, DestructorLocked(t) PROVE Counted(u, m, Told(u, m))'
  <2>1. op[t] = lockdep_mutex /\ pc[t] = "destructor"
    BY <1>12 DEF CallsSound, DestructorLocked, InCall
  <2>2. Told(u, m)' = Told(u, m)
    BY <1>12, <2>1 DEF DestructorLocked, real_pthread_mutex_lock, Available, Told, Times,
                       GoisTypeOK, MutexesSound
  <2> QED BY <1>1, <1>12, <2>2 DEF DestructorLocked
<1>13. CASE (\E t \in Thread : DestructorCleaned(t)) \/ Ended
  BY <1>13 DEF DestructorCleaned, Ended, Initialised
<1>14. CASE UNCHANGED vars
  BY <1>1, <1>14 DEF vars, Told, Times
<1> QED
  BY <1>2, <1>3, <1>4, <1>5, <1>6, <1>7, <1>8, <1>9, <1>10, <1>11, <1>12, <1>13, <1>14
  DEF Next, Destructor

----------------------------------------------------------------------------
(* Requests, and what the program nested.                                  *)

\* A request is pushed last, and its thread's stack waits with it.
LEMMA TopStep ==
  ASSUME Base, StacksSound, RequestOnTop, [Next]_vars
  PROVE  RequestOnTop'
<1> SUFFICES ASSUME Initialised', NEW u \in Thread, pc'[u] = "locking"
             PROVE  OnTop(u)'
  BY DEF RequestOnTop
<1>0. Initialised
  BY DetectorSteps
<1> USE DEF Base, GoisTypeOK, OnTop, Call, Return, Mutex
\* A thread whose call and stack the step left alone.
<1>1. ASSUME pc[u] = "locking", op'[u] = op[u], held'[u] = held[u]
      PROVE  OnTop(u)'
  BY <1>0, <1>1 DEF RequestOnTop
<1>2. ASSUME NEW t \in Thread, NEW l \in Mutex, pthread_mutex_lock(t, l)
      PROVE  OnTop(u)'
  <2>1. Acquired(t, l)
    BY <1>0, <1>2, UntrackedIs DEF pthread_mutex_lock, Initialised
  <2>2. PICK n \in Stamp :
          /\ \A r \in held[t] : r.at < n
          /\ held' = [held EXCEPT ![t] = @ \cup {[lock |-> l, at |-> n]}]
    BY <2>1, AcquiredIs
  <2>3. CASE u = t
    <3>1. op'[t] = l /\ held'[t] = held[t] \cup {[lock |-> l, at |-> n]}
      BY <1>2, <2>2 DEF pthread_mutex_lock
    <3> QED BY <2>2, <2>3, <3>1
  <2>4. CASE u # t
    BY <1>1, <1>2, <2>2, <2>4 DEF pthread_mutex_lock
  <2> QED BY <2>3, <2>4
\* The thread of any other step is not asleep after it.
<1>3. ASSUME NEW t \in Thread, pc'[t] # "locking",
             \A v \in Thread \ {t} : /\ pc'[v] = pc[v] /\ op'[v] = op[v]
                                     /\ held'[v] = held[v]
      PROVE  OnTop(u)'
  BY <1>1, <1>3
<1>4. ASSUME NEW t \in Thread, NEW l \in Mutex, pthread_mutex_lock_refused(t, l)
      PROVE  OnTop(u)'
  BY <1>3, <1>4 DEF pthread_mutex_lock_refused, Refused
<1>5. ASSUME NEW t \in Thread, Locked(t)
      PROVE  OnTop(u)'
  BY <1>3, <1>5 DEF Locked
<1>6. ASSUME NEW t \in Thread, NEW l \in Mutex,
             pthread_mutex_trylock(t, l) \/ pthread_mutex_unlock(t, l)
      PROVE  OnTop(u)'
  BY <1>3, <1>6 DEF pthread_mutex_trylock, pthread_mutex_unlock
<1>7. ASSUME NEW t \in Thread, TryRecorded(t)
      PROVE  OnTop(u)'
  <2>1. Acquired(t, op[t]) /\ op[t] \in Lock
    BY <1>0, <1>7, UntrackedIs DEF TryRecorded, InCall, CallsSound, Initialised
  <2>2. \A v \in Thread \ {t} : held'[v] = held[v]
    BY <2>1, AcquiredIs
  <2> QED BY <1>3, <1>7, <2>2 DEF TryRecorded
<1>8. ASSUME NEW t \in Thread, TryRefused(t)
      PROVE  OnTop(u)'
  BY <1>3, <1>8 DEF TryRefused, Refused
<1>9. ASSUME NEW t \in Thread, Unlocked(t)
      PROVE  OnTop(u)'
  BY <1>3, <1>9 DEF Unlocked, lockdep_release_lock
<1>10. ASSUME NEW t \in Thread, exit(t)
       PROVE  OnTop(u)'
  BY <1>3, <1>10 DEF exit
<1>11. ASSUME NEW t \in Thread, lockdep_destructor(t)
       PROVE  OnTop(u)'
  <2>1. Acquired(t, lockdep_mutex)
    BY <1>11 DEF lockdep_destructor, Initialised
  <2>2. \A v \in Thread \ {t} : held'[v] = held[v]
    BY <2>1, AcquiredIs, GoisAssumption
  <2>3. Call(t, lockdep_mutex, "destructor")
    BY <1>11, <2>1 DEF lockdep_destructor, Acquired
  <2> QED BY <1>3, <2>2, <2>3
<1>12. ASSUME NEW t \in Thread, DestructorLocked(t)
       PROVE  OnTop(u)'
  BY <1>3, <1>12 DEF DestructorLocked
<1>13. CASE (\E t \in Thread : DestructorCleaned(t)) \/ Ended
  BY <1>13 DEF DestructorCleaned, Ended, Initialised
<1>14. CASE UNCHANGED vars
  BY <1>1, <1>14 DEF vars
<1> QED
  BY <1>2, <1>4, <1>5, <1>6, <1>7, <1>8, <1>9, <1>10, <1>11, <1>12, <1>13, <1>14
  DEF Next, Destructor

\* A thread that asks owns the mutexes its stack has records of: the program's,
\* and the one it tries only if it owned it before.
LEMMA RecordedIsOwned ==
  ASSUME Base, StacksSound, StacksCount, Initialised,
         NEW t \in Thread, pc[t] \in Asking, NEW r \in held[t]
  PROVE  /\ r.lock \in Mutex /\ owner[r.lock] = t
         /\ pc[t] = "trying" /\ r.lock = op[t] => depth[r.lock] > 1
<1> USE DEF Base
<1>1. r.lock \in Lock
  BY DEF StacksSound, GoisTypeOK
<1>2. RecordsOf(t, r.lock) # {}
  BY DEF RecordsOf
<1>3. Told(t, r.lock) # 0
  BY <1>1, <1>2, FS_EmptySet DEF StacksCount
<1>4. Told(t, r.lock) = IF op[t] = r.lock /\ pc[t] = "trying" THEN Times(t, r.lock) - 1
                                                             ELSE Times(t, r.lock)
  BY DEF Told, Asking
<1>5. pc[t] = "trying" => owner[op[t]] = t
  BY DEF CallsSound
<1>6. owner[r.lock] = t
  BY <1>3, <1>4, <1>5 DEF Times
<1>7. r.lock # lockdep_mutex
  BY <1>6 DEF CallsSound, Asking
<1>8. depth[r.lock] \in Nat \ {0}
  BY <1>1, <1>6, GoisAssumption DEF GoisTypeOK, MutexesSound
<1> QED BY <1>1, <1>3, <1>4, <1>6, <1>7, <1>8 DEF Times, Mutex

\* What the program nested stays in the history.
LEMMA NestedGrows ==
  ASSUME [Next]_vars
  PROVE  nested \subseteq nested'
BY DEF Next, vars, pthread_mutex_lock, pthread_mutex_lock_refused, Locked,
       pthread_mutex_trylock, TryRecorded, TryRefused, pthread_mutex_unlock, Unlocked,
       exit, Destructor, lockdep_destructor, DestructorLocked, DestructorCleaned, Ended, Nest

\* An acquisition is entered into the history with all its thread holds.
LEMMA AcquiredIsNested ==
  ASSUME Base, StacksSound, StacksCount, EdgesAreNestings, [Next]_vars,
         NEW t \in Thread, NEW l \in Lock, Acquired(t, l), pc[t] \in Asking,
         \A k \in Mutex :
           owner[k] = t /\ (pc[t] = "trying" /\ k = op[t] => depth[k] > 1) => <<k, l>> \in nested'
  PROVE  EdgesAreNestings'
<1>1. \A r \in Newest(held[t]) : r \in held[t] /\ Initialised
  BY DEF Newest, Acquired
<1>2. \A r \in Newest(held[t]) : <<r.lock, l>> \in nested'
  BY <1>1, RecordedIsOwned
<1> QED BY <1>2, AcquiredIs, NestedGrows DEF Base, EdgesAreNestings

LEMMA NestingStep ==
  ASSUME Base, StacksSound, StacksCount, EdgesAreNestings, [Next]_vars
  PROVE  EdgesAreNestings'
<1> USE GoisAssumption DEF Base, Mutex
\* Steps that add no edge.
<1>1. ASSUME edges' \subseteq edges PROVE EdgesAreNestings'
  BY <1>1, NestedGrows DEF EdgesAreNestings
<1>2. ASSUME NEW t \in Thread, NEW l \in Mutex, pthread_mutex_lock(t, l)
      PROVE  EdgesAreNestings'
  <2>1. CASE Untracked(t)
    BY <1>1, <2>1, UntrackedIs
  <2>2. CASE Acquired(t, l)
    <3>1. pc[t] = "run" /\ pc[t] \in Asking
      BY <1>2 DEF pthread_mutex_lock, InProgram, Asking
    <3>2. \A k \in Mutex : owner[k] = t => <<k, l>> \in nested'
      BY <1>2 DEF pthread_mutex_lock, Nest, Owned
    <3> QED BY <2>2, <3>1, <3>2, AcquiredIsNested
  <2> QED BY <1>2, <2>1, <2>2 DEF pthread_mutex_lock
<1>3. ASSUME NEW t \in Thread, TryRecorded(t) PROVE EdgesAreNestings'
  <2>1. op[t] \in Mutex /\ pc[t] = "trying" /\ pc[t] \in Asking
    BY <1>3 DEF TryRecorded, InCall, CallsSound, Asking
  <2>2. CASE Untracked(t)
    BY <1>1, <2>2, UntrackedIs
  <2>3. CASE Acquired(t, op[t])
    <3>1. \A k \in Mutex : owner[k] = t /\ (k = op[t] => depth[k] > 1)
                             => <<k, op[t]>> \in nested'
      BY <1>3 DEF TryRecorded, Nest, OwnedBefore, Owned
    <3> QED BY <2>1, <2>3, <3>1, AcquiredIsNested
  <2> QED BY <1>3, <2>2, <2>3 DEF TryRecorded
<1>4. ASSUME NEW t \in Thread, lockdep_destructor(t) PROVE EdgesAreNestings'
  <2>1. pc[t] = "exit" /\ pc[t] \in Asking
    BY <1>4 DEF lockdep_destructor, InCall, Asking
  <2>2. CASE Refused(t, lockdep_mutex)
    BY <1>1, <2>2 DEF Refused
  <2>3. CASE Acquired(t, lockdep_mutex)
    <3>1. Nest(t, lockdep_mutex, Owned(t))
      BY <1>4, <2>3 DEF lockdep_destructor, Acquired
    <3>2. \A k \in Mutex : owner[k] = t => <<k, lockdep_mutex>> \in nested'
      BY <3>1 DEF Nest, Owned
    <3> QED BY <2>1, <2>3, <3>2, AcquiredIsNested
  <2> QED BY <1>4, <2>2, <2>3 DEF lockdep_destructor
<1>5. ASSUME NEW t \in Thread, NEW l \in Mutex,
             \/ pthread_mutex_lock_refused(t, l)
             \/ pthread_mutex_trylock(t, l)
             \/ pthread_mutex_unlock(t, l)
      PROVE  EdgesAreNestings'
  BY <1>1, <1>5
  DEF pthread_mutex_lock_refused, Refused, pthread_mutex_trylock, pthread_mutex_unlock
<1>6. ASSUME NEW t \in Thread,
             \/ Locked(t) \/ TryRefused(t) \/ Unlocked(t) \/ exit(t)
             \/ DestructorLocked(t) \/ DestructorCleaned(t)
      PROVE  EdgesAreNestings'
  BY <1>1, <1>6
  DEF Locked, TryRefused, Refused, Unlocked, exit, DestructorLocked, DestructorCleaned,
      lockdep_cleanup
<1>7. CASE Ended \/ UNCHANGED vars
  BY <1>1, <1>7 DEF Ended, vars
<1> QED BY <1>2, <1>3, <1>4, <1>5, <1>6, <1>7 DEF Next, Destructor

\* Whoever asks for a mutex has no record of lockdep_mutex, so that no edge
\* begins there.
LEMMA DetectorStep ==
  ASSUME Base, StacksSound, StacksCount, NothingAfterDetector, [Next]_vars
  PROVE  NothingAfterDetector'
<1>1. ASSUME NEW t \in Thread, NEW l \in Lock, Acquired(t, l), pc[t] \in Asking
      PROVE  NothingAfterDetector'
  <2>1. \A r \in Newest(held[t]) : r \in held[t] /\ Initialised
    BY <1>1 DEF Newest, Acquired
  <2>2. \A r \in Newest(held[t]) : r.lock # lockdep_mutex
    BY <1>1, <2>1, RecordedIsOwned DEF Mutex
  <2> QED BY <1>1, <2>2, AcquiredIs DEF Base, NothingAfterDetector
<1>2. ASSUME edges' \subseteq edges PROVE NothingAfterDetector'
  BY <1>2 DEF NothingAfterDetector
<1>3. ASSUME NEW t \in Thread, Untracked(t) PROVE NothingAfterDetector'
  BY <1>2, <1>3, UntrackedIs
<1>4. CASE Cleaned
  BY <1>2, <1>4 DEF Cleaned, lockdep_cleanup
<1>5. CASE Untouched
  BY <1>2, <1>5 DEF Untouched
<1>6. ASSUME NEW t \in Thread, NEW l \in Lock, Drop(t, l) PROVE NothingAfterDetector'
  BY <1>2, <1>6 DEF Drop
<1> QED BY <1>1, <1>3, <1>4, <1>5, <1>6, DetectorSteps

LEMMA DestructorLast ==
  ASSUME Base, StacksSound, NothingAfterDetector, NEW t \in Thread
  PROVE  ~Refuses(t, lockdep_mutex)
<1> SUFFICES ASSUME NEW r \in Newest(held[t]), Reaches(edges, lockdep_mutex, r.lock)
             PROVE  FALSE
  BY DEF Refuses, Previous, graph_would_create_cycle, dfs_has_cycle
<1>1. CASE r.lock \in Lock
  BY <1>1, ReachesByChild, GoisAssumption DEF NothingAfterDetector
\* The record without a node, of a graph that is gone.
<1>2. CASE r.lock \notin Lock
  BY <1>2, {} \in SUBSET Lock DEF Reaches, NothingAfterDetector
<1> QED BY <1>1, <1>2

\* A lock that reaches itself follows itself, if the rest has no cycle.
LEMMA ReachesWithoutLoops ==
  ASSUME NEW E, NEW a \in Lock, NEW b \in Lock, a # b, Reaches(E, a, b)
  PROVE  Reaches(Loopless(E), a, b)
<1> SUFFICES ASSUME NEW C \in SUBSET Lock,
                    \A x \in Lock : <<a, x>> \in Loopless(E) => x \in C,
                    \A x \in C, y \in Lock : <<x, y>> \in Loopless(E) => y \in C
             PROVE  b \in C
  BY DEF Reaches
<1> DEFINE D == C \cup {a}
<1>1. D \in SUBSET Lock /\ \A x \in Lock : <<a, x>> \in E => x \in D
  BY DEF Loopless
<1>2. \A x \in D, y \in Lock : <<x, y>> \in E => y \in D
  BY DEF Loopless
<1>3. b \in D
  BY <1>1, <1>2 DEF Reaches
<1> QED BY <1>3

LEMMA LoopOnly ==
  ASSUME GraphAcyclic, NEW l \in Lock, Reaches(edges, l, l)
  PROVE  <<l, l>> \in edges
<1> SUFFICES ASSUME <<l, l>> \notin edges PROVE FALSE
  OBVIOUS
<1>1. PICK m \in Lock : <<l, m>> \in edges /\ (m = l \/ Reaches(edges, m, l))
  BY ReachesByChild
<1>2. m # l /\ <<l, m>> \in Loopless(edges)
  BY <1>1 DEF Loopless
<1>3. Reaches(Loopless(edges), m, l)
  BY <1>1, <1>2, ReachesWithoutLoops
<1>4. Reaches(Loopless(edges), l, m)
  BY <1>2, EdgeReaches
<1>5. Reaches(Loopless(edges), l, l)
  BY <1>3, <1>4, ReachesTransitive
<1> QED BY <1>5, LoopIsCycle DEF GraphAcyclic

\* The reason of a refusal, in the history before it; it is kept after it.
Precedent(u, l) ==
  \/ \E k \in Lock \ {l} : owner[k] = u /\ Reaches(nested, l, k)
  \/ owner[l] = u /\ <<l, l>> \in nested

LEMMA RefusedHasPrecedent ==
  ASSUME Base, StacksSound, StacksCount, EdgesAreNestings, GraphAcyclic,
         NEW u \in Thread, NEW l \in Lock, pc[u] \in Asking, Refused(u, l)
  PROVE  Precedent(u, l)
<1>1. PICK r \in Newest(held[u]) : Reaches(edges, l, r.lock)
  BY DEF Refused, Refuses, Previous, graph_would_create_cycle, dfs_has_cycle
<1>2. r \in held[u] /\ Initialised
  BY <1>1 DEF Newest, Refused
<1>3. r.lock \in Lock /\ owner[r.lock] = u
  BY <1>2, RecordedIsOwned DEF Mutex
<1>4. CASE r.lock = l
  BY <1>1, <1>3, <1>4, LoopOnly DEF Precedent, EdgesAreNestings
<1>5. CASE r.lock # l
  <2>1. Reaches(nested, l, r.lock)
    BY <1>1, ReachesGrows DEF EdgesAreNestings
  <2> QED BY <1>3, <1>5, <2>1 DEF Precedent
<1> QED BY <1>4, <1>5

\* A refused thread keeps its mutexes, and what was nested stays nested.
LEMMA RefusalStep ==
  ASSUME Base, StacksSound, StacksCount, EdgesAreNestings, GraphAcyclic,
         RefusalHasPrecedent, [Next]_vars
  PROVE  RefusalHasPrecedent'
<1> USE GoisAssumption DEF Base, Call, Return, Mutex
<1> SUFFICES ASSUME NEW u \in Thread, pc'[u] = "exit", op'[u] # None
             PROVE  Precedent(u, op[u])'
  BY DEF RefusalHasPrecedent, Precedent
\* A reason is kept by a step that takes no mutex from u.
<1>1. ASSUME NEW l \in Lock, Precedent(u, l),
             \A k \in Lock : owner[k] = u => owner'[k] = u
      PROVE  /\ \/ \E k \in Lock \ {l} : owner'[k] = u /\ Reaches(nested', l, k)
                \/ owner'[l] = u /\ <<l, l>> \in nested'
  BY <1>1, NestedGrows, ReachesGrows DEF Precedent
<1>2. CASE \E l \in Mutex : pthread_mutex_lock_refused(u, l)
  <2>1. PICK l \in Mutex : pthread_mutex_lock_refused(u, l)
    BY <1>2
  <2>2. Precedent(u, l)
    BY <2>1, RefusedHasPrecedent DEF pthread_mutex_lock_refused, InProgram, Asking
  <2>3. op'[u] = l /\ owner' = owner
    BY <2>1 DEF pthread_mutex_lock_refused, GoisTypeOK
  <2> QED BY <1>1, <2>2, <2>3 DEF Precedent
<1>3. CASE ~\E l \in Mutex : pthread_mutex_lock_refused(u, l)
  <2>1. pc[u] = "exit" /\ op'[u] = op[u]
    BY <1>3 DEF Next, vars, pthread_mutex_lock, pthread_mutex_lock_refused, Locked,
       pthread_mutex_trylock, TryRecorded, TryRefused, pthread_mutex_unlock, Unlocked,
       exit, Destructor, lockdep_destructor, DestructorLocked, DestructorCleaned, Ended,
       GoisTypeOK
  <2>2. \A k \in Lock : owner[k] = u => owner'[k] = u
    BY <2>1 DEF Next, vars, pthread_mutex_lock, pthread_mutex_lock_refused, Locked,
       pthread_mutex_trylock, TryRecorded, TryRefused, pthread_mutex_unlock, Unlocked,
       exit, Destructor, lockdep_destructor, DestructorLocked, DestructorCleaned, Ended,
       GoisTypeOK, CallsSound, InCall, InProgram, real_pthread_mutex_lock,
       real_pthread_mutex_unlock, Available
  <2>3. op[u] \in Lock /\ Precedent(u, op[u])
    BY <2>1 DEF RefusalHasPrecedent, Precedent, GoisTypeOK
  <2> QED BY <1>1, <2>1, <2>2, <2>3 DEF Precedent
<1> QED BY <1>2, <1>3

----------------------------------------------------------------------------
(* The theorems.                                                           *)

LEMMA InitInv == Init => IInv
<1> SUFFICES ASSUME Init PROVE IInv
  OBVIOUS
<1>1. Base
  BY InitBase
<1>2. StacksSound /\ OlderLeadsToNewer /\ RequestOnTop /\ EdgesAreNestings
      /\ NothingAfterDetector /\ RecordsLive /\ RefusalHasPrecedent
  BY DEF Init, StacksSound, OlderLeadsToNewer, RequestOnTop, EdgesAreNestings,
         NothingAfterDetector, RecordsLive, RefusalHasPrecedent
<1>3. StacksCount
  <2>1. ASSUME NEW t \in Thread, NEW l \in Lock PROVE RecordsOf(t, l) = {} /\ Told(t, l) = 0
    BY GoisAssumption DEF Init, RecordsOf, Told, Times
  <2> QED BY <2>1, FS_EmptySet DEF StacksCount
<1>4. GraphAcyclic
  <2>1. Loopless(edges) = {}
    BY DEF Init, Loopless
  <2> QED BY <2>1, NoEdgesAcyclic DEF GraphAcyclic
<1> QED BY <1>1, <1>2, <1>3, <1>4 DEF IInv

THEOREM InvariantHolds == Spec => []IInv
<1>1. IInv /\ [Next]_vars => IInv'
  BY BaseStep, StacksStep, CountStep, OrderStep, GraphStep, TopStep, NestingStep,
     DetectorStep, RefusalStep DEF IInv
<1> QED BY <1>1, InitInv, PTL DEF Spec

\* No record outlives the node it points to (RecordsLive).
THEOREM NoDanglingRecord == Spec => []RecordsLive
  BY InvariantHolds, PTL DEF IInv

\* Who is refused owns another mutex that comes after the one it asks for, by
\* what was let pass before and not only by the graph, or asks once more for one
\* it owns, that was let be taken twice (RefusalHasPrecedent).
THEOREM RefusalsHavePrecedent == Spec => []RefusalHasPrecedent
  BY InvariantHolds, PTL DEF IInv

\* Whatever a thread holds when it exits, the destructor's request for
\* lockdep_mutex is not refused: exit does not call exit again.
THEOREM DestructorIsNotRefused ==
  Spec => [](\A t \in Thread : ~Refuses(t, lockdep_mutex))
<1>1. IInv => \A t \in Thread : ~Refuses(t, lockdep_mutex)
  BY DestructorLast DEF IInv
<1> QED BY <1>1, InvariantHolds, PTL

\* Between calls the stacks say what is owned, and what is owned twice
\* (StackIsWhatIsOwned).
THEOREM StacksTellTheTruth == Spec => []StackIsWhatIsOwned
<1>1. IInv => StackIsWhatIsOwned
  <2> SUFFICES ASSUME IInv, Initialised, NEW t \in Thread, NEW l \in Lock, pc[t] = "run"
               PROVE  /\ RecordsOf(t, l) = {} <=> owner[l] # t
                      /\ depth[l] > 1 /\ owner[l] = t
                           <=> \E r, s \in RecordsOf(t, l) : r # s
    BY DEF StackIsWhatIsOwned, RecordsOf
  <2> USE GoisAssumption DEF IInv, Base
  <2>1. IsFiniteSet(RecordsOf(t, l)) /\ Cardinality(RecordsOf(t, l)) = Times(t, l)
    BY DEF StacksCount, Told
  <2>2. owner[l] = t => depth[l] \in Nat \ {0}
    BY DEF GoisTypeOK, MutexesSound
  <2>3. RecordsOf(t, l) = {} <=> owner[l] # t
    BY <2>1, <2>2, FS_EmptySet DEF Times
  <2>4. (\E r, s \in RecordsOf(t, l) : r # s)
          <=> RecordsOf(t, l) # {} /\ Cardinality(RecordsOf(t, l)) # 1
    <3>1. Cardinality(RecordsOf(t, l)) = 1 <=> \E x : RecordsOf(t, l) = {x}
      BY <2>1, FS_Singleton
    <3> QED BY <3>1
  <2> QED BY <2>1, <2>2, <2>3, <2>4 DEF Times
<1> QED BY <1>1, InvariantHolds, PTL

(***************************************************************************)
(* In a circular wait of threads none of which waits for itself, each      *)
(* requested mutex leads to the request of its owner: a cycle, and not of  *)
(* loops only.                                                             *)
(***************************************************************************)
LEMMA WaitsLead ==
  ASSUME IInv, Initialised, NEW D \in SUBSET Thread, CircularWait(D),
         \A t \in D : owner[op[t]] # t
  PROVE  FALSE
<1> USE GoisAssumption DEF IInv, Base
<1>1. \A t \in D : pc[t] = "locking" /\ op[t] \in Lock /\ owner[op[t]] \in D
  BY DEF CircularWait, CallsSound, Mutex
<1> DEFINE S == {op[t] : t \in D}
           E == Loopless(edges)
<1>2. ASSUME NEW t \in D PROVE Reaches(E, op[t], op[owner[op[t]]])
  <2> DEFINE u == owner[op[t]]
  <2>1. u \in D /\ op[u] # op[t]
    BY <1>1
  <2>2. Told(u, op[t]) = depth[op[t]] /\ depth[op[t]] # 0
    BY <1>1, <2>1 DEF Told, Times, MutexesSound
  <2>3. PICK r \in held[u] : r.lock = op[t]
    BY <1>1, <2>1, <2>2, FS_EmptySet DEF StacksCount, RecordsOf
  <2>4. PICK q \in held[u] : q.lock = op[u] /\ \A p \in held[u] \ {q} : p.at < q.at
    BY <1>1, <2>1 DEF RequestOnTop, OnTop
  <2>5. r.at < q.at
    BY <2>1, <2>3, <2>4
  <2> QED BY <2>1, <2>3, <2>4, <2>5 DEF OlderLeadsToNewer
<1>3. PICK t \in D : TRUE
  BY DEF CircularWait
<1>4. \A x \in S : \E y \in S : Reaches(E, x, y)
  BY <1>1, <1>2
<1>5. S \in SUBSET Lock /\ op[t] \in S
  BY <1>1
<1> HIDE DEF S, E
<1>6. has_cycle(E, op[t])
  BY <1>4, <1>5, MutualReachIsCycle
<1> QED BY <1>1, <1>6 DEF GraphAcyclic, E

\* While the detector is there no two threads ever deadlock, and only a mutex
\* taken twice can make a cycle of the graph (OnlySelfDeadlocks).
THEOREM ThreadsNeverDeadlock == Spec => []OnlySelfDeadlocks
<1>1. IInv => OnlySelfDeadlocks
  <2> SUFFICES ASSUME IInv PROVE OnlySelfDeadlocks
    OBVIOUS
  <2>1. Initialised => \A D \in SUBSET Thread :
          CircularWait(D) => \E t \in D : owner[op[t]] = t
    BY WaitsLead
  <2>2. ASSUME lockdep_check_deadlock, \A l \in nodes : <<l, l>> \notin edges PROVE FALSE
    <3>1. PICK l \in nodes : Reaches(edges, l, l)
      BY <2>2 DEF lockdep_check_deadlock, graph_has_cycle, dfs_has_cycle
    <3>2. Loopless(edges) = edges /\ l \in Lock
      BY <2>2 DEF IInv, Base, GoisTypeOK, Loopless
    <3> QED BY <3>1, <3>2, LoopIsCycle DEF IInv, GraphAcyclic
  <2> QED BY <2>1, <2>2 DEF OnlySelfDeadlocks
<1> QED BY <1>1, InvariantHolds, PTL
============================================================================
