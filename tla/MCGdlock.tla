------------------------------ MODULE MCGdlock ------------------------------
(* An instance of Gdlock for TLC. *)
EXTENDS Gdlock, GraphLists, TLC

CONSTANTS t1, t2, t3, a, b

Threads3 == {t1, t2, t3}
Locks2 == {a, b}
OnlyA == {a}

ThreadSymmetry == Permutations(Thread)
============================================================================
