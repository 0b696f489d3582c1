----------------------------- MODULE MCLockdep -----------------------------
(* Instances of Lockdep for TLC. *)
EXTENDS LockdepRefinement, LockdepClaims, TLC

CONSTANTS t1, t2, t3, a, b, c

Threads2 == {t1, t2}
Threads3 == {t1, t2, t3}
Locks2 == {a, b}
Locks3 == {a, b, c}

NoLocks == {}
AllLocks == Lock
OnlyA == {a}

\* Programs, by what they nest in what.
TwoInAnyOrder == {<<a, b>>, <<b, a>>, <<a, c>>}
OppositeNesting == {<<a, b>>, <<b, a>>}

ThreadSymmetry == Permutations(Thread)
============================================================================
