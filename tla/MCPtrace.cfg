CONSTANTS
  NProcs <- MCNProcs
  QueueCap <- MCQueueCap
  MaxCalls <- MCMaxCalls
  MaxKills <- MCMaxKills
  MaxSignals <- MCMaxSignals
SPECIFICATION FairRun
INVARIANT
  TypeOK
  NobodyFrozen
  EventsAccounted
  ExitCodeHonest
  DoneMeansFinished
PROPERTY
  Terminates
CHECK_DEADLOCK FALSE
