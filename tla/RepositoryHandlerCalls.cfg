SPECIFICATION FairSpec
CONSTANTS
  RepoCallers = {rc1}
  AppCallers = {ac1, ac2}
  Ops <- AllOps
  RepoNames = {rn1}
  URLs = {u1}
  AppNames = {n1}
  Settings = {s1, s2}
  RepoAddrs = {r1}
  AppAddrs = {a1, a2}
  MaxRepos = 1
  MaxApps = 3
  Nil = Nil
PROPERTIES CallsReturn TickFinishes
CHECK_DEADLOCK FALSE
