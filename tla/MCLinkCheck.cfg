CONSTANTS
  Workers <- MCWorkers
  Cap <- MCCap
  Entries <- MCEntries
  Runs <- MCRuns
  MaxGone <- MCMaxGone
SPECIFICATION Spec
INVARIANT
  TypeOK
  AllJudged
  ExitEarned
PROPERTY
  Terminates
CHECK_DEADLOCK FALSE
