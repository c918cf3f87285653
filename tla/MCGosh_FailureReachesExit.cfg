CONSTANTS
  NTests <- MCNTests
  MaxLines = 0
  PipeCap <- MCPipeCap
SPECIFICATION Spec
INVARIANT FailureReachesExit
