CONSTANTS
  Patterns <- MCPatterns
  Streams <- MCStreams
  Stdout <- MCStdout
  MaxExpected <- MCMaxExpected
  MaxLines <- MCMaxLines
  MaxRetry <- MCMaxRetry
SPECIFICATION GrepSpec
INVARIANT
  GrepTypeOK
  PassEarned
  FailureExplained
CHECK_DEADLOCK FALSE
