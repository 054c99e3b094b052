SPECIFICATION FairSpec
CONSTANTS
  r1 = r1
  a1 = a1
  a2 = a2
  Repos = {r1}
  Apps = {a1, a2}
  RepoOf <- OneRepository
  Slots = {s1}
  Scenarios <- SmallScenarios
  MaxMoves = 3
  None = None
INVARIANTS TypeOK GoneIsUninstalled ListedOnce
PROPERTIES GoneGetsUninstalled Delivered RepositoryGoes
CHECK_DEADLOCK FALSE
