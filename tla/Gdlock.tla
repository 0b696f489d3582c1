------------------------------- MODULE Gdlock -------------------------------
(***************************************************************************)
(* The wait-for detector of z_atividade/projeto/gdlock: approach_1.c,      *)
(* called by hook.c before (pre) and after (pos) each real pthread call,   *)
(* with the graph of graph.c.  The lists of the code (nodes, edges,        *)
(* waiters) are sets here: their order decides no answer, and module       *)
(* GraphLists has the lists of the graph and its search.                   *)
(*                                                                         *)
(* What runs under meta_lock is one step.  get_mutex_info makes its record *)
(* in a section of its own; an empty record says what no record says, so   *)
(* that the section is not told apart from the one that follows.  The      *)
(* owner that pthread_mutex_unlock compares is read outside meta_lock, and *)
(* that read is a step.                                                    *)
(***************************************************************************)
EXTENDS Naturals

CONSTANTS
  Thread,     \* the pthread_t values in use
  Lock,       \* the mutexes of the program
  Recursive,  \* those whose type is PTHREAD_MUTEX_RECURSIVE
  MaxDepth,   \* bound: how often a mutex is taken by its owner
  None        \* 0, NULL

ASSUME GdlockAssumption ==
  /\ Recursive \subseteq Lock
  /\ MaxDepth \in Nat \ {0}
  /\ None \notin Thread \cup Lock

VARIABLES
  pc,          \* where each thread is in the hooked function it called
  op,          \* the mutex of that call
  owner,       \* the real mutexes: who owns each one ...
  depth,       \* ... and how many times
  mutex_list,  \* mutex_info by mutex: owner, is_recursive, waiters
  nodes,       \* wait_graph: the threads that have a node, and ...
  edges,       \* ... an edge from each waiter to the owner it was told of
  reported,    \* the thread that called exit(EDEADLOCK), None before
  unseen,      \* history: the threads whose wait has no edge, because they found
               \* no owner, or because the next owner had no node
  overwritten  \* history: an unlock wiped out the next owner

vars == <<pc, op, owner, depth, mutex_list, nodes, edges, reported, unseen, overwritten>>

NewInfo == [owner |-> None, is_recursive |-> FALSE, waiters |-> {}]

----------------------------------------------------------------------------
(* The real pthread mutexes and the calls.                                 *)

Available(t, l) == owner[l] = None \/ (owner[l] = t /\ l \in Recursive)

real_lock(t, l) ==
  /\ Available(t, l)
  /\ depth[l] < MaxDepth
  /\ owner' = [owner EXCEPT ![l] = t]
  /\ depth' = [depth EXCEPT ![l] = @ + 1]

real_unlock(l) ==
  /\ owner' = [owner EXCEPT ![l] = IF depth[l] = 1 THEN None ELSE @]
  /\ depth' = [depth EXCEPT ![l] = @ - 1]

At(t, label) == pc[t] = label /\ reported = None
Goto(t, l, label) ==
  /\ pc' = [pc EXCEPT ![t] = label]
  /\ op' = [op EXCEPT ![t] = l]
Return(t) == Goto(t, None, "run")

Info(l) == mutex_list[l]

----------------------------------------------------------------------------
(* wait_graph: what the calls of graph.c do and answer.                    *)

WaitFor == INSTANCE LockGraph WITH Lock <- Thread

\* Edges from each thread of S; one that lacks a node (NULL) has none.
graph_add_edges(E, S, to) == E \cup ((S \cap nodes) \X ({to} \cap nodes))
graph_remove_edges(E, S, to) == E \ (S \X {to})

\* Faulty variant: from the wrong end.
would_create_cycle_forward(from, to) == WaitFor!Reaches(edges, from, to)

\* graph_would_create_cycle: is there a path back from `to' to `from'?
would_create_cycle(from, to) == WaitFor!Reaches(edges, to, from)

\* graph_has_cycle: does a node lead back to itself?
wait_graph_has_cycle == \E n \in nodes : WaitFor!Reaches(edges, n, n)

----------------------------------------------------------------------------
(* pml_pre: before the real lock.                                          *)

\* The mutex has no owner on record, or its owner may take it again.
pml_pre_free(t, l) ==
  /\ At(t, "run")
  /\ \/ Info(l).owner = None
     \/ Info(l).owner = t /\ Info(l).is_recursive
  /\ unseen' = IF Info(l).owner = None THEN unseen \cup {t} ELSE unseen
  /\ Goto(t, l, "locking")
  /\ UNCHANGED <<owner, depth, mutex_list, nodes, edges, reported, overwritten>>

\* Relock of a mutex not known to be recursive: a self-loop, hence a cycle.
pml_pre_self(t, l) ==
  /\ At(t, "run")
  /\ Info(l).owner = t /\ ~Info(l).is_recursive
  /\ nodes' = nodes \cup {t}
  /\ edges' = edges \cup {<<t, t>>}
  /\ reported' = IF wait_graph_has_cycle' THEN t ELSE None
  /\ Goto(t, l, "locking")
  /\ UNCHANGED <<owner, depth, mutex_list, unseen, overwritten>>

add_waiter(l, t) == mutex_list' = [mutex_list EXCEPT ![l].waiters = @ \cup {t}]

\* Faulty variant: the edge is added whatever the search says.
pml_pre_wait_unasked(t, l) ==
  LET o == Info(l).owner
  IN  /\ At(t, "run")
      /\ o \notin {None, t}
      /\ add_waiter(l, t)
      /\ nodes' = nodes \cup {t, o}
      /\ edges' = edges \cup {<<t, o>>}
      /\ Goto(t, l, "locking")
      /\ UNCHANGED <<owner, depth, reported, unseen, overwritten>>

\* Owned by another: the caller waits, if that closes no cycle.
pml_pre_wait(t, l) ==
  LET o == Info(l).owner
      cycle == would_create_cycle(t, o)
  IN  /\ At(t, "run")
      /\ o \notin {None, t}
      /\ add_waiter(l, t)
      /\ nodes' = nodes \cup {t, o}
      /\ edges' = IF cycle THEN edges ELSE edges \cup {<<t, o>>}
      /\ reported' = IF cycle THEN t ELSE None
      /\ Goto(t, l, "locking")
      /\ UNCHANGED <<owner, depth, unseen, overwritten>>

\* The real lock, between the hooks.
Locked(t) ==
  /\ At(t, "locking")
  /\ real_lock(t, op[t])
  /\ Goto(t, op[t], "locked")
  /\ unseen' = unseen \ {t}
  /\ UNCHANGED <<mutex_list, nodes, edges, reported, overwritten>>

----------------------------------------------------------------------------
(* pml_pos: the caller owns the mutex, and those that wait wait for it.    *)

remove_waiter(W, t) == W \ {t}

\* The edges of the waiters move from the owner before to the owner now; they
\* are lost if the owner now never waited before, for then it has no node.
Repoint(E, W, prev, new) == graph_add_edges(graph_remove_edges(E, W, prev), W, new)

pml_pos(t) ==
  LET l == op[t]
      prev == Info(l).owner
      rest == remove_waiter(Info(l).waiters, t)
  IN  /\ At(t, "locked")
      /\ mutex_list' = [mutex_list EXCEPT ![l].owner = t, ![l].waiters = rest]
      /\ edges' = Repoint(graph_remove_edges(edges, {t}, prev), rest, prev, t)
      /\ unseen' = IF t \in nodes THEN unseen \ rest ELSE unseen \cup rest
      /\ Return(t)
      /\ UNCHANGED <<owner, depth, nodes, reported, overwritten>>

----------------------------------------------------------------------------
(* pthread_mutex_unlock: programs unlock what they own.                    *)

Unlocked(t, l) ==
  /\ At(t, "run")
  /\ owner[l] = t
  /\ real_unlock(l)
  /\ Goto(t, l, "unlocked")
  /\ UNCHANGED <<mutex_list, nodes, edges, reported, unseen, overwritten>>

\* pmu_pos looks at the owner, without meta_lock ...
pmu_pos_owner(t) ==
  /\ At(t, "unlocked")
  /\ IF Info(op[t]).owner = t THEN Goto(t, op[t], "releasing") ELSE Return(t)
  /\ UNCHANGED <<owner, depth, mutex_list, nodes, edges, reported, unseen, overwritten>>

\* Faulty variant: the edges to the caller stay.
pmu_pos_keeping(t) ==
  LET l == op[t] IN
  /\ At(t, "releasing")
  /\ mutex_list' = [mutex_list EXCEPT ![l].owner = None]
  /\ overwritten' = (overwritten \/ Info(l).owner # t)
  /\ Return(t)
  /\ UNCHANGED <<owner, depth, nodes, edges, reported, unseen>>

\* ... and forgets it: nobody waits for the caller because of this mutex.
pmu_pos(t) ==
  LET l == op[t] IN
  /\ At(t, "releasing")
  /\ edges' = graph_remove_edges(edges, Info(l).waiters, t)
  /\ mutex_list' = [mutex_list EXCEPT ![l].owner = None]
  /\ overwritten' = (overwritten \/ Info(l).owner # t)
  /\ Return(t)
  /\ UNCHANGED <<owner, depth, nodes, reported, unseen>>

----------------------------------------------------------------------------
(* pthread_mutex_init and pthread_mutex_destroy, of a mutex that nobody    *)
(* uses.                                                                   *)

Unused(l) == owner[l] = None /\ \A t \in Thread : op[t] # l

\* The type is learnt here only: a static initialiser is not seen.
pmi_pos(t, l) ==
  /\ At(t, "run")
  /\ Unused(l)
  /\ mutex_list' = [mutex_list EXCEPT ![l].is_recursive = (l \in Recursive)]
  /\ UNCHANGED <<pc, op, owner, depth, nodes, edges, reported, unseen, overwritten>>

pmd_pos(t, l) ==
  /\ At(t, "run")
  /\ Unused(l)
  /\ mutex_list' = [mutex_list EXCEPT ![l] = NewInfo]
  /\ UNCHANGED <<pc, op, owner, depth, nodes, edges, reported, unseen, overwritten>>

----------------------------------------------------------------------------
Init ==
  /\ pc = [t \in Thread |-> "run"]
  /\ op = [t \in Thread |-> None]
  /\ owner = [l \in Lock |-> None]
  /\ depth = [l \in Lock |-> 0]
  /\ mutex_list = [l \in Lock |-> NewInfo]
  /\ nodes = {} /\ edges = {}
  /\ reported = None
  /\ unseen = {}
  /\ overwritten = FALSE

Next ==
  \E t \in Thread :
    \/ \E l \in Lock : \/ pml_pre_free(t, l)
                       \/ pml_pre_self(t, l)
                       \/ pml_pre_wait(t, l)
                       \/ Unlocked(t, l)
                       \/ pmi_pos(t, l)
                       \/ pmd_pos(t, l)
    \/ Locked(t)
    \/ pml_pos(t)
    \/ pmu_pos_owner(t)
    \/ pmu_pos(t)

Spec == Init /\ [][Next]_vars

----------------------------------------------------------------------------
(* Properties.                                                             *)

\* Every thread of D is about to sleep, or sleeps, on a mutex of a thread of D.
CircularWait(D) ==
  /\ D # {}
  /\ \A t \in D : /\ pc[t] = "locking"
                  /\ owner[op[t]] \in D
                  /\ ~Available(t, op[t])

(***************************************************************************)
(* A report is true: the process is ended only in a deadlock the caller    *)
(* completes, for mutexes whose type the detector knows, unless an unlock  *)
(* wiped out an owner: its comparison of the owner is stale by the time it *)
(* has meta_lock, and the edges to that owner are then never removed.      *)
(***************************************************************************)
TypesKnown == \A l \in Recursive : Info(l).is_recursive
ReportIsDeadlock ==
  reported # None /\ TypesKnown /\ ~overwritten =>
    \E D \in SUBSET Thread : reported \in D /\ CircularWait(D)

(***************************************************************************)
(* The graph never holds a cycle nobody was told of, although pml_pos      *)
(* moves the edges of all who wait without asking.                         *)
(***************************************************************************)
NoUntoldCycle == reported = None /\ ~overwritten => ~wait_graph_has_cycle

(***************************************************************************)
(* The ways past the detector: in a deadlock that is not reported, one of  *)
(* the threads asked while the mutex had no owner on record, lost its edge *)
(* to an owner without a node, or waits for an owner the record has lost.  *)
(***************************************************************************)
OwnerLost(l) == owner[l] # None /\ Info(l).owner # owner[l]
SilentOnlyWhenUnseen ==
  \A D \in SUBSET Thread : reported = None /\ CircularWait(D) =>
    \E t \in D : t \in unseen \/ OwnerLost(op[t])

----------------------------------------------------------------------------
(* The inductive invariant behind them.                                    *)

TypeOK ==
  /\ pc \in [Thread -> {"run", "locking", "locked", "unlocked", "releasing"}]
  /\ op \in [Thread -> Lock \cup {None}]
  /\ owner \in [Lock -> Thread \cup {None}]
  /\ depth \in [Lock -> Nat]
  /\ mutex_list \in [Lock -> [owner : Thread \cup {None}, is_recursive : BOOLEAN,
                              waiters : SUBSET Thread]]
  /\ nodes \subseteq Thread
  /\ edges \subseteq Thread \X Thread
  /\ reported \in Thread \cup {None}
  /\ unseen \subseteq Thread
  /\ overwritten \in BOOLEAN

\* The calls in progress, and the real mutexes: who is back from the real lock
\* owns the mutex.
CallsSound ==
  /\ \A t \in Thread : pc[t] = "run" <=> op[t] = None
  /\ \A t \in Thread : pc[t] = "locked" => owner[op[t]] = t
  /\ \A l \in Lock : owner[l] # None => depth[l] > 0

\* What the records say: waiters have a node, and are between the hooks of the
\* call; an owner on record owns the mutex, or has unlocked it and is about to
\* be forgotten; no type is made up.
RecordsSound ==
  \A l \in Lock :
    /\ \A w \in Info(l).waiters :
         w \in nodes /\ op[w] = l /\ pc[w] \in {"locking", "locked"}
    /\ Info(l).owner # None =>
         \/ owner[l] = Info(l).owner
         \/ op[Info(l).owner] = l /\ pc[Info(l).owner] \in {"unlocked", "releasing"}
    /\ Info(l).is_recursive => l \in Recursive

\* The edges that say what the records say.
Waits(x, y) == \E l \in Lock : /\ op[x] = l
                               /\ x \in Info(l).waiters
                               /\ Info(l).owner = y
CurrentEdges == {e \in edges : Waits(e[1], e[2])}

\* All do, until an unlock wipes out an owner.
EdgesAreCurrent ==
  reported = None /\ ~overwritten =>
    \A e \in edges : Waits(e[1], e[2]) /\ e[1] # e[2]

\* A thread in the real lock has its edge, or relocks a recursive mutex.
SeenHaveEdges ==
  reported = None =>
    \A t \in Thread \ unseen : pc[t] = "locking" =>
      IF t \in Info(op[t]).waiters
      THEN Info(op[t]).owner # None => <<t, Info(op[t]).owner>> \in edges
      ELSE owner[op[t]] = t /\ op[t] \in Recursive

\* The edges that are current never close a cycle unasked, even when others
\* are out of date.
CurrentAcyclic ==
  reported = None => \A t \in Thread : ~WaitFor!has_cycle(CurrentEdges, t)

IInv ==
  /\ TypeOK
  /\ CallsSound
  /\ RecordsSound
  /\ EdgesAreCurrent
  /\ SeenHaveEdges
  /\ CurrentAcyclic
=============================================================================
