SPECIFICATION Spec
CONSTANTS
  t1 = t1
  t2 = t2
  a = a
  b = b
  c = c
  m = m
  None = None
  Thread <- Threads2
  Lock <- Locks3
  lockdep_mutex = m
  Recursive <- OnlyA
  Tried <- OnlyA
  MaxHeld = 3
INVARIANT OnlySelfDeadlocks
INVARIANT RefusalHasPrecedent
INVARIANT StackIsWhatIsOwned
INVARIANT RecordsLive
PROPERTY ExitEnds
CHECK_DEADLOCK FALSE
