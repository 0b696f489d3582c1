-------------------------------- MODULE Gois --------------------------------
(***************************************************************************)
(* The detector of z_atividade/projeto/gois: src/lockdep/lockdep_core.c    *)
(* over the library src/graph/graph.c, called by the pthread functions of  *)
(* src/interpose/pthread_interpose.c.  It asks before it adds: a request   *)
(* that would close a cycle ends the process, and the graph never gets the *)
(* edge.                                                                   *)
(*                                                                         *)
(* Calls of the core run under lockdep_mutex and are one step that waits   *)
(* for it; the real pthread calls are steps of their own.  exit() runs the *)
(* destructor of the library, which takes lockdep_mutex as a program takes *)
(* its mutexes, by the interposed function, and frees graph and contexts   *)
(* while the other threads go on.  malloc does not fail.                   *)
(***************************************************************************)
EXTENDS LockGraph, Integers

CONSTANTS
  Thread,         \* the pthread_t values in use
  lockdep_mutex,  \* the detector's own mutex
  Recursive,      \* the mutexes of type PTHREAD_MUTEX_RECURSIVE
  Tried,          \* the mutexes the program calls trylock on
  MaxHeld,        \* bound: the longest history of one thread's stack
  None            \* NULL

\* The mutexes of the program.
Mutex == Lock \ {lockdep_mutex}

ASSUME GoisAssumption ==
  /\ lockdep_mutex \in Lock
  /\ Recursive \cup Tried \subseteq Mutex
  /\ MaxHeld \in Nat \ {0}
  /\ None \notin Thread \cup Lock

VARIABLES
  pc,       \* where each thread is in the interposed function it called
  op,       \* the mutex of that call
  owner,    \* the real mutexes: who owns each one ...
  depth,    \* ... and how many times
  held,     \* ctx->held_locks, each thread's stack of records
  nodes,    \* dependency_graph: the locks it has nodes for ...
  edges,    \* ... and its edges
  process,  \* running, exiting, cleaning (the destructor is under way),
            \* cleaned (it is done), ended
  nested    \* history: <<k, l>> once a thread that owned k was let have l

vars == <<pc, op, owner, depth, held, nodes, edges, process, nested>>

\* A stack is a set of records stamped in the order they were pushed.
\* The last stamp is kept for the destructor.
Stamp == 1 .. MaxHeld + 1
Newest(H) == {r \in H : \A q \in H : q.at <= r.at}
NextStamp(H, n) ==
  /\ \A r \in H : r.at < n
  /\ \A m \in Stamp : (\A r \in H : r.at < m) => n <= m
Push(H, l, n) == H \cup {[lock |-> l, at |-> n]}

----------------------------------------------------------------------------
(* src/graph/graph.c.                                                      *)

graph_find_or_create_node(l) == nodes' = nodes \cup {l}

\* Each pair of nodes has one edge at most.
graph_add_edge(from, to) == edges' = edges \cup {<<from, to>>}

\* Faulty variant: only direct edges are looked at.
dfs_has_cycle_shallow(E, node, target) == <<node, target>> \in E

\* Is the target met on a path of one edge or more from the node?  (Module
\* GraphLists has the search itself.)
dfs_has_cycle(E, node, target) == Reaches(E, node, target)

\* Faulty variant: the path is looked for in the direction of the new edge.
graph_would_create_cycle_forward(from, to) == dfs_has_cycle(edges, from, to)

graph_would_create_cycle(from, to) == dfs_has_cycle(edges, to, from)

graph_has_cycle ==
  \E l \in nodes : dfs_has_cycle(edges, l, l)

----------------------------------------------------------------------------
(* src/lockdep/lockdep_core.c.                                             *)

Initialised == process \in {"running", "exiting", "cleaning"}

\* A call of the core waits for lockdep_mutex.
Free == owner[lockdep_mutex] = None

\* The head of the stack, to which the new lock would be subordinate.
Previous(t) == {r.lock : r \in Newest(held[t])}

Refuses(t, l) == \E k \in Previous(t) : graph_would_create_cycle(k, l)

Record(t, l) ==
  \E n \in Stamp : /\ NextStamp(held[t], n)
                   /\ held' = [held EXCEPT ![t] = Push(@, l, n)]

\* lockdep_acquire_lock that answers true: the edge, then the record.
Acquired(t, l) ==
  /\ Initialised /\ Free
  /\ ~Refuses(t, l)
  /\ graph_find_or_create_node(l)
  /\ \/ Previous(t) = {} /\ UNCHANGED edges
     \/ \E k \in Previous(t) : graph_add_edge(k, l)
  /\ Record(t, l)

\* ... and that answers false.  The lock keeps its node.
Refused(t, l) ==
  /\ Initialised /\ Free
  /\ Refuses(t, l)
  /\ graph_find_or_create_node(l)
  /\ UNCHANGED <<edges, held>>

\* Without a graph it answers true; a caller that looked before the clean-up
\* and got lockdep_mutex after it pushes a record without a node.
Untracked(t) ==
  /\ process = "cleaned"
  /\ \/ UNCHANGED held
     \/ Record(t, None)
  /\ UNCHANGED <<nodes, edges>>

\* Faulty variant: every record of the lock goes.
lockdep_release_lock_all(t, l) == held' = [held EXCEPT ![t] = {r \in @ : r.lock # l}]

\* The newest record of the lock goes.
lockdep_release_lock(t, l) ==
  Free /\ held' = [held EXCEPT ![t] = @ \ Newest({r \in @ : r.lock = l})]

\* Faulty variant: the contexts survive the graph.
lockdep_cleanup_graph == nodes' = {} /\ edges' = {} /\ UNCHANGED held

lockdep_check_deadlock == graph_has_cycle

lockdep_cleanup ==
  /\ nodes' = {}
  /\ edges' = {}
  /\ held' = [t \in Thread |-> {}]

----------------------------------------------------------------------------
(* src/interpose/pthread_interpose.c over the real mutexes.                *)

Available(t, l) == owner[l] = None \/ (owner[l] = t /\ l \in Recursive)

real_pthread_mutex_lock(t, l) ==
  /\ Available(t, l)
  /\ depth[l] < MaxHeld
  /\ owner' = [owner EXCEPT ![l] = t]
  /\ depth' = [depth EXCEPT ![l] = @ + 1]

real_pthread_mutex_unlock(l) ==
  /\ owner' = [owner EXCEPT ![l] = IF depth[l] = 1 THEN None ELSE @]
  /\ depth' = [depth EXCEPT ![l] = @ - 1]

Call(t, l, label) ==
  /\ pc' = [pc EXCEPT ![t] = label]
  /\ op' = [op EXCEPT ![t] = l]
Return(t) == Call(t, None, "run")

\* In the program, and the program still runs.
InProgram(t) == pc[t] = "run" /\ process # "ended"
InCall(t, label) == pc[t] = label /\ process # "ended"

\* The locks t holds when it asks for l, in the history.
Nest(t, l, K) == nested' = nested \cup {<<k, l>> : k \in K}
Owned(t) == {k \in Lock : owner[k] = t}

\* Bound: the stack has room for a record of the program.
Room(t) == \A r \in held[t] : r.at < MaxHeld

\* pthread_mutex_lock, up to the real call.
pthread_mutex_lock(t, l) ==
  /\ InProgram(t) /\ Room(t)
  /\ Acquired(t, l) \/ Untracked(t)
  /\ Nest(t, l, Owned(t))
  /\ Call(t, l, "locking")
  /\ UNCHANGED <<owner, depth, process>>

\* Faulty variant: the answer false is given with lockdep_mutex still locked.
pthread_mutex_lock_refused_locked(t, l) ==
  /\ InProgram(t)
  /\ Refused(t, l)
  /\ Call(t, l, "exit")
  /\ process' = IF process = "running" THEN "exiting" ELSE process
  /\ owner' = [owner EXCEPT ![lockdep_mutex] = t]
  /\ UNCHANGED <<depth, nested>>

\* A refused request calls exit(EDEADLK).
pthread_mutex_lock_refused(t, l) ==
  /\ InProgram(t)
  /\ Refused(t, l)
  /\ Call(t, l, "exit")
  /\ process' = IF process = "running" THEN "exiting" ELSE process
  /\ UNCHANGED <<owner, depth, nested>>

Locked(t) ==
  /\ InCall(t, "locking")
  /\ real_pthread_mutex_lock(t, op[t])
  /\ Return(t)
  /\ UNCHANGED <<held, nodes, edges, process, nested>>

\* pthread_mutex_trylock takes the mutex first and asks then.
pthread_mutex_trylock(t, l) ==
  /\ InProgram(t)
  /\ l \in Tried
  /\ real_pthread_mutex_lock(t, l)
  /\ Call(t, l, "trying")
  /\ UNCHANGED <<held, nodes, edges, process, nested>>

\* What t owned before it took l.
OwnedBefore(t, l) == {k \in Owned(t) : k = l => depth[l] > 1}

TryRecorded(t) ==
  /\ InCall(t, "trying") /\ Room(t)
  /\ Acquired(t, op[t]) \/ Untracked(t)
  /\ Nest(t, op[t], OwnedBefore(t, op[t]))
  /\ Return(t)
  /\ UNCHANGED <<owner, depth, process>>

\* Faulty variant: a refused trylock keeps the mutex.
TryRefused_keeping(t) ==
  /\ InCall(t, "trying")
  /\ Refused(t, op[t])
  /\ Return(t)
  /\ UNCHANGED <<owner, depth, process, nested>>

\* A refused trylock gives the mutex back and answers EBUSY.
TryRefused(t) ==
  /\ InCall(t, "trying")
  /\ Refused(t, op[t])
  /\ real_pthread_mutex_unlock(op[t])
  /\ Return(t)
  /\ UNCHANGED <<process, nested>>

\* pthread_mutex_unlock; programs unlock what they own.
pthread_mutex_unlock(t, l) ==
  /\ InProgram(t)
  /\ owner[l] = t
  /\ real_pthread_mutex_unlock(l)
  /\ Call(t, l, "releasing")
  /\ UNCHANGED <<held, nodes, edges, process, nested>>

Unlocked(t) ==
  /\ InCall(t, "releasing")
  /\ lockdep_release_lock(t, op[t])
  /\ Return(t)
  /\ UNCHANGED <<owner, depth, nodes, edges, process, nested>>

----------------------------------------------------------------------------
(* The end of the process.                                                 *)

\* main returns, or a thread calls exit.
exit(t) ==
  /\ InProgram(t)
  /\ Call(t, None, "exit")
  /\ process' = IF process = "running" THEN "exiting" ELSE process
  /\ UNCHANGED <<owner, depth, held, nodes, edges, nested>>

\* The destructor runs in a thread that exits.  It asks for lockdep_mutex as a
\* program would; refused, it would call exit inside exit, and the process end
\* as it is.
lockdep_destructor(t) ==
  /\ InCall(t, "exit")
  /\ process = "exiting"
  /\ IF Refuses(t, lockdep_mutex)
     THEN /\ Refused(t, lockdep_mutex)
          /\ process' = "ended"
          /\ UNCHANGED <<pc, op, nested>>
     ELSE /\ Acquired(t, lockdep_mutex)
          /\ process' = "cleaning"
          /\ Nest(t, lockdep_mutex, Owned(t))
          /\ Call(t, lockdep_mutex, "destructor")
  /\ UNCHANGED <<owner, depth>>

\* Then it takes it, ...
DestructorLocked(t) ==
  /\ InCall(t, "destructor")
  /\ real_pthread_mutex_lock(t, lockdep_mutex)
  /\ Call(t, lockdep_mutex, "cleanup")
  /\ UNCHANGED <<held, nodes, edges, process, nested>>

\* ... cleans up and gives it back.  Without a graph the release is not noted.
DestructorCleaned(t) ==
  /\ InCall(t, "cleanup")
  /\ lockdep_cleanup
  /\ real_pthread_mutex_unlock(lockdep_mutex)
  /\ Call(t, None, "exit")
  /\ process' = "cleaned"
  /\ UNCHANGED nested

Destructor(t) == lockdep_destructor(t) \/ DestructorLocked(t) \/ DestructorCleaned(t)

InExit(t) == pc[t] \in {"exit", "destructor", "cleanup"}
SeveralExit == \E t, u \in Thread : t # u /\ InExit(t) /\ InExit(u)

\* With two threads in exit() the second need not wait for the destructor.
Ended ==
  /\ process = "cleaned" \/ (process \in {"exiting", "cleaning"} /\ SeveralExit)
  /\ process' = "ended"
  /\ UNCHANGED <<pc, op, owner, depth, held, nodes, edges, nested>>

----------------------------------------------------------------------------
Init ==
  /\ pc = [t \in Thread |-> "run"]
  /\ op = [t \in Thread |-> None]
  /\ owner = [l \in Lock |-> None]
  /\ depth = [l \in Lock |-> 0]
  /\ held = [t \in Thread |-> {}]
  /\ nodes = {}
  /\ edges = {}
  /\ process = "running"
  /\ nested = {}

Next ==
  \/ \E t \in Thread :
       \/ \E l \in Mutex : \/ pthread_mutex_lock(t, l)
                           \/ pthread_mutex_lock_refused(t, l)
                           \/ pthread_mutex_trylock(t, l)
                           \/ pthread_mutex_unlock(t, l)
       \/ Locked(t)
       \/ TryRecorded(t)
       \/ TryRefused(t)
       \/ Unlocked(t)
       \/ exit(t)
       \/ Destructor(t)
  \/ Ended

\* A thread in exit() goes on.
Spec ==
  /\ Init /\ [][Next]_vars
  /\ \A t \in Thread : WF_vars(Destructor(t))
  /\ WF_vars(Ended)

----------------------------------------------------------------------------
(* Properties.                                                             *)

\* Every thread of D sleeps in the real lock, on a mutex a thread of D owns.
CircularWait(D) ==
  /\ D # {}
  /\ \A t \in D : /\ pc[t] = "locking"
                  /\ owner[op[t]] \in D
                  /\ ~Available(t, op[t])

(***************************************************************************)
(* Deadlocks between threads are prevented: while the detector is there,   *)
(* every circular wait is some thread's wait for itself (the first request *)
(* of a mutex already held is answered true: there is no path yet). And    *)
(* lockdep_check_deadlock can only ever tell of a lock that was so taken:  *)
(* every cycle of the graph goes through one that follows itself.          *)
(***************************************************************************)
OnlySelfDeadlocks ==
  /\ Initialised => \A D \in SUBSET Thread :
       CircularWait(D) => \E t \in D : owner[op[t]] = t
  /\ lockdep_check_deadlock => \E l \in nodes : <<l, l>> \in edges

(***************************************************************************)
(* A request is refused, and the process ended, only for what was let pass *)
(* before: the thread owns another lock that, by what threads owned when   *)
(* they were let have the next, comes after the one it asks for; or it     *)
(* owns the very mutex it asks for, and some thread was let have that one  *)
(* twice at a time before. In the second case the program need have broken *)
(* no order: the third request of a recursive mutex is refused, of which   *)
(* src/tests/t07_recursive_locks.c:66 says "This should succeed for all    *)
(* recursive calls".                                                       *)
(***************************************************************************)
RefusalHasPrecedent ==
  \A t \in Thread : pc[t] = "exit" /\ op[t] # None =>
    \/ \E k \in Lock \ {op[t]} : owner[k] = t /\ Reaches(nested, op[t], k)
    \/ owner[op[t]] = t /\ <<op[t], op[t]>> \in nested

(***************************************************************************)
(* The stacks tell the truth: between calls a thread has a record for each *)
(* time it owns a mutex, and no other, whatever was refused, taken again   *)
(* or given back in another order.                                         *)
(***************************************************************************)
StackIsWhatIsOwned ==
  Initialised => \A t \in Thread, l \in Lock : pc[t] = "run" =>
    LET H == {r \in held[t] : r.lock = l} IN
    /\ H = {} <=> owner[l] # t
    /\ depth[l] > 1 /\ owner[l] = t <=> \E r, s \in H : r # s

\* No record points to a node that was freed with the graph.
RecordsLive == \A t \in Thread : \A r \in held[t] : r.lock \in nodes \cup {None}

(***************************************************************************)
(* Whoever exits, refused or on its own, ends the process, and unless two  *)
(* threads exit at once the graph is freed first: the destructor's request *)
(* for lockdep_mutex, made with the stack the thread leaves behind, is not *)
(* refused, and nobody keeps lockdep_mutex from it.                        *)
(***************************************************************************)
ExitEnds ==
  (\E t \in Thread : InExit(t)) ~> process = "ended" /\ (nodes = {} \/ SeveralExit)
============================================================================
