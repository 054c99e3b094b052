SPECIFICATION Spec
CONSTANTS
  RepoCallers = {rc1, rc2}
  AppCallers = {ac1}
  Ops <- AllOps
  RepoNames = {rn1, rn2}
  URLs = {u1, u2}
  AppNames = {n1}
  Settings = {s1, s2}
  RepoAddrs = {r1, r2}
  AppAddrs = {a1, a2}
  MaxRepos = 2
  MaxApps = 2
  Nil = Nil
SYMMETRY Alike
INVARIANTS TypeOK StorageExclusive LifeRegistered UniqueURL RemovalIndexValid
PROPERTIES ImplementsRegistry
CHECK_DEADLOCK FALSE
