SPECIFICATION RawSpec
CONSTANTS
  r1 = r1
  r2 = r2
  Commits = {1, 2, 3}
  History <- SmallHistory
  Touching = {1, 2, 3}
  MayHappen = {"crash", "crash in clone", "clone", "provider", "fetch", "reset", "checkout", "pull", "late failure", "deliver", "clean", "uninstall", "delete"}
  MaxMoves = 2
  Resources = {r1, r2}
  Manifest <- SmallManifest
  Cleaners = {1, 2}
  Absent = Absent
  Foreign = Foreign
  Nested = {3}
INVARIANTS RawTypeOK DeliveryUnderMutex
CHECK_DEADLOCK FALSE
