SPECIFICATION Spec
CONSTANTS
  RepoCallers = {rc1}
  AppCallers = {ac1}
  Ops <- AddingOps
  RepoNames = {rn1}
  URLs = {u1}
  AppNames = {n1}
  Settings = {s1, s2}
  RepoAddrs = {r1}
  AppAddrs = {a1, a2, a3}
  MaxRepos = 1
  MaxApps = 3
  Nil = Nil
SYMMETRY Addresses
INVARIANTS NoNilApps
CHECK_DEADLOCK FALSE
