----------------------------- MODULE LockdepDfs -----------------------------
(***************************************************************************)
(* The search of lockdep_core.c for a cycle in the dependency graph: the   *)
(* recursive has_cycle as a stack of frames, and what print_cycle is given *)
(* to print.  It runs under lockdep_mutex once per acquisition, on a graph *)
(* that grows between two searches, and with the marks the previous search *)
(* left.  The order of the children in their list is left open.            *)
(***************************************************************************)
EXTENDS DependencyGraph, Naturals, Sequences, SequencesExt

ASSUME LockdepDfsAssumption == None \notin Lock

VARIABLES
  lock,         \* the lock of the acquisition the search is for, None before
  frames,       \* the calls of has_cycle in progress, the innermost last
  was_visited,  \* lock->was_visited
  cycle_path,   \* cycle_path[0 .. cycle_path_size - 1]
  answer,       \* of has_cycle: "searching" until it is known
  printed       \* what print_cycle printed: the path, then the closing lock

search_vars == <<edges, lock, frames, was_visited, cycle_path, answer, printed>>

Children(E, l) == {c \in Lock : <<l, c>> \in E}

\* A call of has_cycle, with the children it has not looked at yet.
Frame == [lock : Lock, to_visit : SUBSET Lock]
has_cycle_of(E, l) == [lock |-> l, to_visit |-> Children(E, l)]

Searching == frames # <<>> /\ answer = "searching"

----------------------------------------------------------------------------
(***************************************************************************)
(* lockdep_acquire_lock adds at most one edge to the lock and calls        *)
(* has_deadlock, which forgets the path but not the marks.                 *)
(***************************************************************************)
has_deadlock(l, E) ==
  /\ frames = <<>>
  /\ edges' = edges \cup E
  /\ lock' = l
  /\ frames' = <<has_cycle_of(edges', l)>>
  /\ cycle_path' = <<>>
  /\ answer' = "searching"
  /\ printed' = <<>>
  /\ UNCHANGED was_visited

\* The innermost call has the child c behind it.
Advance(c) == [frames EXCEPT ![Len(frames)].to_visit = @ \ {c}]

\* A child that is not on the path is marked, put on it and searched from.
Visit(c) ==
  /\ Searching
  /\ c \in Last(frames).to_visit
  /\ ~was_visited[c]
  /\ was_visited' = [was_visited EXCEPT ![c] = TRUE]
  /\ cycle_path' = Append(cycle_path, c)
  /\ frames' = Append(Advance(c), has_cycle_of(edges, c))
  /\ UNCHANGED <<edges, lock, answer, printed>>

\* A child that is closes a cycle: it is printed, and every call returns true.
print_cycle(c) ==
  /\ Searching
  /\ c \in Last(frames).to_visit
  /\ was_visited[c]
  /\ printed' = Append(cycle_path, c)
  /\ answer' = "cycle"
  /\ UNCHANGED <<edges, lock, frames, was_visited, cycle_path>>

\* A call returns when a cycle was found or no child is left.
Returning == frames # <<>> /\ (answer = "cycle" \/ Last(frames).to_visit = {})

\* Faulty variants: the mark stays, after any call; after one that returns
\* true; the path keeps the lock.
BacktrackMarked ==
  /\ Returning
  /\ Len(frames) > 1
  /\ frames' = Front(frames)
  /\ cycle_path' = Front(cycle_path)
  /\ UNCHANGED <<was_visited, edges, lock, answer, printed>>
BacktrackMarkedFromCycle ==
  /\ Returning
  /\ Len(frames) > 1
  /\ frames' = Front(frames)
  /\ cycle_path' = Front(cycle_path)
  /\ was_visited' = [was_visited EXCEPT ![Last(frames).lock] = answer = "cycle"]
  /\ UNCHANGED <<edges, lock, answer, printed>>
BacktrackOnPath ==
  /\ Returning
  /\ Len(frames) > 1
  /\ frames' = Front(frames)
  /\ was_visited' = [was_visited EXCEPT ![Last(frames).lock] = FALSE]
  /\ UNCHANGED <<cycle_path, edges, lock, answer, printed>>

\* A recursive call returns: its caller takes the lock off the path and
\* unmarks it, whatever the answer.
Backtrack ==
  /\ Returning
  /\ Len(frames) > 1
  /\ frames' = Front(frames)
  /\ cycle_path' = Front(cycle_path)
  /\ was_visited' = [was_visited EXCEPT ![Last(frames).lock] = FALSE]
  /\ UNCHANGED <<edges, lock, answer, printed>>

\* The first call returns to lockdep_acquire_lock, which calls unvisit_locks
\* when there is no cycle, only.
Finish ==
  /\ Returning
  /\ Len(frames) = 1
  /\ frames' = <<>>
  /\ IF answer = "cycle"
       THEN UNCHANGED <<was_visited, answer>>
       ELSE /\ was_visited' = [l \in Lock |-> FALSE]
            /\ answer' = "acyclic"
  /\ UNCHANGED <<edges, lock, cycle_path, printed>>

SearchInit ==
  /\ edges = {}
  /\ lock = None
  /\ frames = <<>>
  /\ was_visited = [l \in Lock |-> FALSE]
  /\ cycle_path = <<>>
  /\ answer = "acyclic"
  /\ printed = <<>>

Acquire ==
  \E l \in Lock : \/ has_deadlock(l, {})
                  \/ \E k \in Lock : has_deadlock(l, {<<k, l>>})

Step == (\E c \in Lock : Visit(c) \/ print_cycle(c)) \/ Backtrack \/ Finish

SearchNext == Acquire \/ Step

SearchSpec == SearchInit /\ [][SearchNext]_search_vars

----------------------------------------------------------------------------
(* Properties.                                                             *)

SearchTypeOK ==
  /\ edges \subseteq Lock \X Lock
  /\ lock \in Lock \cup {None}
  /\ frames \in Seq(Frame)
  /\ was_visited \in [Lock -> BOOLEAN]
  /\ cycle_path \in Seq(Lock)
  /\ answer \in {"searching", "cycle", "acyclic"}
  /\ printed \in Seq(Lock)

(***************************************************************************)
(* The search is exact: it answers true iff a cycle can be reached from    *)
(* the lock, although it forgets what it has searched already.             *)
(***************************************************************************)
SearchIsExact ==
  frames = <<>> /\ lock # None => (answer = "cycle" <=> has_cycle(edges, lock))

(***************************************************************************)
(* Every search starts without marks: one that finds a cycle clears them   *)
(* on its way back, for unvisit_locks is not called then.                  *)
(***************************************************************************)
NoStaleMarks == frames = <<>> => \A l \in Lock : ~was_visited[l]

\* During a search the marked locks are those of the path, each there once.
MarksAreThePath ==
  /\ frames # <<>> =>
       \A l \in Lock : was_visited[l] <=> \E i \in DOMAIN cycle_path : cycle_path[i] = l
  /\ \A i, j \in DOMAIN cycle_path : cycle_path[i] = cycle_path[j] => i = j

(***************************************************************************)
(* What is printed ends in a cycle of the graph, reached from the lock     *)
(* that was asked for: each lock depends on the next, and the closing lock *)
(* stands earlier in the list.                                             *)
(***************************************************************************)
ReportIsCycle ==
  printed # <<>> =>
    /\ <<lock, printed[1]>> \in edges
    /\ \A i \in 1 .. Len(printed) - 1 : <<printed[i], printed[i + 1]>> \in edges
    /\ \E i \in 1 .. Len(printed) - 1 : printed[i] = Last(printed)

----------------------------------------------------------------------------
(* The inductive invariant behind SearchIsExact and NoStaleMarks.          *)

\* The calls in progress lead along the edges from the lock, and the path has
\* the lock of every call but the first.
CallsFollowEdges ==
  frames # <<>> =>
    /\ Len(frames) = Len(cycle_path) + 1
    /\ frames[1].lock = lock
    /\ \A i \in DOMAIN cycle_path :
         /\ frames[i + 1].lock = cycle_path[i]
         /\ <<frames[i].lock, cycle_path[i]>> \in edges
    /\ \A i \in DOMAIN frames : frames[i].to_visit \subseteq Children(edges, frames[i].lock)

\* A child a call has behind it is that of the next call, or leads to no cycle.
SearchedIsAcyclic ==
  Searching =>
    \A i \in DOMAIN frames :
      \A c \in Children(edges, frames[i].lock) \ frames[i].to_visit :
        ~has_cycle(edges, c) \/ (i < Len(frames) /\ c = frames[i + 1].lock)

\* A search in progress has no answer, or a true one.
OnlyIdleIsAcyclic == frames # <<>> => answer # "acyclic"
FoundIsCycle == answer = "cycle" => has_cycle(edges, lock)

SearchInv ==
  /\ SearchTypeOK
  /\ CallsFollowEdges
  /\ MarksAreThePath
  /\ SearchedIsAcyclic
  /\ OnlyIdleIsAcyclic
  /\ FoundIsCycle
  /\ SearchIsExact
  /\ NoStaleMarks
=============================================================================
