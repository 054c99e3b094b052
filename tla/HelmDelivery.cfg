SPECIFICATION FairHelmSpec
CONSTANTS
  Commits = {1, 2, 3}
  History <- SmallHistory
  Touching = {1, 2}
  MayHappen = {"crash", "provider", "delete"}
  MaxMoves = 3
  Defaults <- SmallDefaults
  Values <- SmallValues
  Options <- AllOptions
  FaultSets <- SmallFaultSets
  None = None
INVARIANTS HelmTypeOK ReleaseIsItsRevision
PROPERTIES HelmConverges HelmUninstallCleans
CHECK_DEADLOCK FALSE
