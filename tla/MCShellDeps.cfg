CONSTANTS
  Builtins <- MCBuiltins
  Absolute <- MCAbsolute
  Relative <- MCRelative
  Patterned <- MCPatterned
  AliasName <- MCAliasName
  BaseName <- MCBaseName
  Place <- MCPlace
  GnuFlags <- MCGnuFlags
  FlagValue <- MCFlagValue
  Clusters <- MCClusters
  Dirs <- MCDirs
  Givens <- MCGivens
  Trees <- MCTrees
  ApkOutputs <- MCApkOutputs
  Means <- MCMeans
  MaxDepth <- MCMaxDepth
SPECIFICATION Spec
INVARIANT
  TypeOK
  NothingMissed
  PassMeansUsable
  ShownAgrees
CHECK_DEADLOCK FALSE
