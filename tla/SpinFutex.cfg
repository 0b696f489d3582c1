SPECIFICATION SpinFairSpec
CONSTANTS
  Thread = {t1, t2, t3}
  Rounds = 2
  SPIN_LIMIT = 2
  None = None
INVARIANT NoLostWakeup
PROPERTY GuardsTheCounter
PROPERTY AllCounted
