SPECIFICATION FairProcesses
CONSTANTS
  np = 1
  no = 1
  MAX_FAILURES = 4
  OUTPUT = 3
  PIPE = 2
  REPETITIONS = 2
INVARIANT CleansUp
INVARIANT OutputIsOrderly
PROPERTY MainEnds
CHECK_DEADLOCK FALSE
