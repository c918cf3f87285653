CONSTANTS
  DB <- MCDB
  Beside <- MCBeside
  Sanitize <- MCSanitize
  Base <- MCBase
  Extra <- MCExtra
  Suites <- MCSuites
  MaxFaults <- MCMaxFaults
SPECIFICATION Spec
INVARIANT
  TypeOK
  ExitEarned
CHECK_DEADLOCK FALSE
