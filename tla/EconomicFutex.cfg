SPECIFICATION EconomicFairSpec
CONSTANTS
  Thread = {t1, t2, t3}
  Rounds = 2
  None = None
INVARIANT NoWakeupSkipped
PROPERTY GuardsTheCounter
PROPERTY AllCounted
