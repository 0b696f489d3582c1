SPECIFICATION ListsSpec
SYMMETRY ThreadSymmetry
CONSTANTS
  t1 = t1
  t2 = t2
  t3 = t3
  a = a
  b = b
  c = c
  None = None
  Thread <- Threads2
  Lock <- Locks2
  Recursive <- OnlyA
  Tried <- OnlyA
  Nesting <- AnyNesting
  MaxHeld = 3
  Address <- Addresses
  MAX_SUGGESTED = 2
INVARIANT TypeOK
INVARIANT OlderReachesNewer
INVARIANT OwnerReferenceLive
INVARIANT NoSilentDeadlock
INVARIANT ListsAgree
PROPERTY ImplementsMonitor
CHECK_DEADLOCK FALSE
