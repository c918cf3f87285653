CONSTANTS
  NProcs <- MCNProcs
  QueueCap <- MCQueueCap
  MaxCalls <- MCMaxCalls
  MaxKills = 0
  MaxSignals <- MCMaxSignals
SPECIFICATION Spec
INVARIANT ExitCodeReported
