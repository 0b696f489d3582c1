SPECIFICATION Spec
CONSTANTS
  t1 = t1
  t2 = t2
  t3 = t3
  a = a
  b = b
  c = c
  None = None
  Thread <- Threads2
  Lock <- Locks2
  Recursive <- NoLocks
  Tried <- NoLocks
  Nesting <- OppositeNesting
  MaxHeld = 2
INVARIANT DeadlockPrevented
CHECK_DEADLOCK FALSE
