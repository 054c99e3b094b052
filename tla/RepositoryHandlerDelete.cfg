SPECIFICATION FairSpec
CONSTANTS
  RepoCallers = {rc1}
  AppCallers = {ac1}
  Ops <- ApplicationOps
  RepoNames = {rn1}
  URLs = {u1}
  AppNames = {n1, n2}
  Settings = {s1}
  RepoAddrs = {r1}
  AppAddrs = {a1, a2}
  MaxRepos = 1
  MaxApps = 2
  Nil = Nil
PROPERTIES DeleteCompletes
CHECK_DEADLOCK FALSE
