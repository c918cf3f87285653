CONSTANTS
  Names <- MCNames
  Texts <- MCTexts
  Root <- MCRoot
  NewDir <- MCNewDir
  Sources <- MCSources
  Commands <- MCCommands
  MaxEntries <- MCMaxEntries
  MaxRuns <- MCMaxRuns
SPECIFICATION Spec
INVARIANT
  TypeOK
  EntriesKept
  LeadsAsBefore
  FailsForAReason
PROPERTY MergedStays
CHECK_DEADLOCK FALSE
