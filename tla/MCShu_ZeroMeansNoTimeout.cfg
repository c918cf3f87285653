CONSTANTS
  Targets <- MCTargets
  Attempts <- MCAttempts
  UintMax <- MCUintMax
  MaxFlips <- MCMaxFlips
  MaxAttempts <- MCMaxAttempts
SPECIFICATION Spec
INVARIANT
  ZeroMeansNoTimeout
CHECK_DEADLOCK FALSE
