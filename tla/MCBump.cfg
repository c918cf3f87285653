CONSTANTS
  Packages <- MCPackages
  Versions <- MCVersions
  MaxLines <- MCMaxLines
  MaxUpdates <- MCMaxUpdates
  MaxRuns <- MCMaxRuns
SPECIFICATION Spec
INVARIANT
  TypeOK
  Recoverable
  AllOrNothing
  UpdatesHold
CHECK_DEADLOCK FALSE
