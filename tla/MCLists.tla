------------------------------ MODULE MCLists ------------------------------
(* Instances of LockdepLists for TLC. *)
EXTENDS MCLockdep, LockdepLists

AnyNesting == Lock \X Lock

\* Locks by address; a has the greatest.
Addresses == [l \in Lock |-> IF l = a THEN 2 ELSE 1]
============================================================================
