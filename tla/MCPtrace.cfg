SPECIFICATION Spec
CONSTANTS
  p = p
  q = q
  r = r
  a = a
  b = b
  None = None
  Pid <- Pids
  Lock <- Locks
  target_pid = p
  MaxCount = 2
  MaxThreads = 2
INVARIANT OrderIsAcyclic
INVARIANT HolderIsOwner
INVARIANT WaitCycleIsExact
INVARIANT FindsNothing
INVARIANT BacktraceTellsWaiters
PROPERTY EndsIfTargetStops
CHECK_DEADLOCK FALSE
