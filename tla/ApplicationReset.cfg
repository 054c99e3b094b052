SPECIFICATION FairSpec
CONSTANTS
  Commits = {1, 2, 3, 4}
  History <- SmallHistory
  Touching = {1, 3, 4}
  MayHappen = {"reset", "late failure"}
  MaxMoves = 1
PROPERTIES FollowsUpstream
CHECK_DEADLOCK FALSE
