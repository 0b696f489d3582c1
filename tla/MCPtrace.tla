------------------------------ MODULE MCPtrace ------------------------------
(* An instance of PtraceMonitor and Backtrace for TLC. *)
EXTENDS Backtrace, TLC

CONSTANTS p, q, r, a, b

Pids == {p, q, r}
Locks == {a, b}
============================================================================
