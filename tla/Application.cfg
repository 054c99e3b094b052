SPECIFICATION FairSpec
CONSTANTS
  Commits = {1, 2, 3, 4, 5}
  History <- OrphanHistory
  Touching = {1, 3, 4}
  MayHappen = {"crash", "clone", "provider", "fetch", "reset", "checkout", "pull", "delete"}
  MaxMoves = 4
INVARIANTS TypeOK DeliversWorktree
PROPERTIES NewRevisionIsFetched FollowsUnlessLeftBehind
CHECK_DEADLOCK FALSE
