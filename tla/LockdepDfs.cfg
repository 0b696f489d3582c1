SPECIFICATION SearchSpec
CONSTANTS
  Lock = {a, b, c}
  None = None
INVARIANT SearchIsExact
INVARIANT NoStaleMarks
INVARIANT ReportIsCycle
