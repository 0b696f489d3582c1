SPECIFICATION FairSpec
CONSTANTS
  MAX_COUNT = 2
  N_THREADS = 3
INVARIANT PassedOnce
INVARIANT CountedAtTheEnd
PROPERTY GuardsTheCounter
PROPERTY AllCounted
