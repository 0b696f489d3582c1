SPECIFICATION Spec
CONSTANTS
  t1 = t1
  t2 = t2
  t3 = t3
  a = a
  b = b
  c = c
  None = None
  Thread <- Threads2
  Lock <- Locks3
  Recursive <- NoLocks
  Tried <- AllLocks
  Nesting <- TwoInAnyOrder
  MaxHeld = 3
SYMMETRY ThreadSymmetry
INVARIANT NoFalseAlarm
CHECK_DEADLOCK FALSE
