SPECIFICATION Spec
SYMMETRY ThreadSymmetry
CONSTANTS
  t1 = t1
  t2 = t2
  t3 = t3
  a = a
  b = b
  None = None
  Thread <- Threads3
  Lock <- Locks2
  Recursive <- OnlyA
  MaxDepth = 2
  Id <- Threads3
  MaxEdges = 5
INVARIANT ReportIsDeadlock
INVARIANT NoUntoldCycle
INVARIANT SilentOnlyWhenUnseen
CHECK_DEADLOCK FALSE
