-------------------------- MODULE DependencyGraph --------------------------
(***************************************************************************)
(* What lockdep_core.c and its search for a cycle share.                   *)
(***************************************************************************)
EXTENDS LockGraph

CONSTANT None   \* NULL

VARIABLE edges  \* lock->children, for all locks: the dependency graph
============================================================================
