------------------------------- MODULE MCGois -------------------------------
(* Instances of Gois for TLC. *)
EXTENDS Gois, TLC

CONSTANTS t1, t2, a, b, c, m

Threads2 == {t1, t2}
Locks3 == {a, b, c, m}
OnlyA == {a}
============================================================================
