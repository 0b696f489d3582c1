SPECIFICATION FairSpec
CONSTANTS
  TAMANHO = 3
  N_CONSUMERS = 2
  MAX_ITEMS = 4
  MAX_SPURIOUS = 1
INVARIANT SignalsReachSleepers
PROPERTY IsBoundedBuffer
PROPERTY AllConsumed
