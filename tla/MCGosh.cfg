CONSTANTS
  NTests <- MCNTests
  MaxLines <- MCMaxLines
  PipeCap <- MCPipeCap
SPECIFICATION FairSpec
INVARIANT
  TypeOK
  EndIsHeard
  VerdictEarned
  OutputKept
  ExitEarned
PROPERTY
  RunsSerially
  Terminates
CHECK_DEADLOCK FALSE
