SPECIFICATION FairRawSpec
CONSTANTS
  r1 = r1
  r2 = r2
  Commits = {1, 2}
  History <- LineHistory
  Touching = {1, 2}
  MayHappen = {"crash", "deliver", "clean", "delete"}
  MaxMoves = 2
  Resources = {r1, r2}
  Manifest <- LineManifest
  Cleaners = {1}
  Absent = Absent
  Foreign = Foreign
  Nested = {}
PROPERTIES Converges UninstallCleans
CHECK_DEADLOCK FALSE
