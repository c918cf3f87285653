CONSTANTS
  Targets <- MCTargets
  Attempts <- MCAttempts
  UintMax <- MCUintMax
  MaxFlips <- MCMaxFlips
  MaxAttempts <- MCMaxAttempts
SPECIFICATION Spec
INVARIANT
  TypeOK
  RunsWhenReady
  ExitEarned
PROPERTY
  Terminates
CHECK_DEADLOCK FALSE
