----------------------------- MODULE LockGraph -----------------------------
(***************************************************************************)
(* The dependency graph of lockdep_core.c: the locks, and what the search  *)
(* for a cycle computes, as sets (module LockdepDfs has the search).       *)
(***************************************************************************)
CONSTANT Lock  \* the mutexes of the program (lock_addr)

(***************************************************************************)
(* has_cycle(l): the search from l closes a cycle iff l belongs to a set   *)
(* of locks each of which has a child in the set.                          *)
(***************************************************************************)
has_cycle(E, l) ==
  \E S \in SUBSET Lock : /\ l \in S
                         /\ \A a \in S : \E b \in S : <<a, b>> \in E

\* b is reached from a by one edge of E or more: every set closed under the
\* edges that holds the children of a holds b.
Reaches(E, a, b) ==
  \A C \in SUBSET Lock :
    /\ \A x \in Lock : <<a, x>> \in E => x \in C
    /\ \A x \in C, y \in Lock : <<x, y>> \in E => y \in C
    => b \in C
============================================================================
