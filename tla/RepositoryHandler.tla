------------------------- MODULE RepositoryHandler -------------------------
(***************************************************************************)
(* The in-memory registry of the dummy-cd server and the goroutines that   *)
(* share it: the gRPC handlers (server.go, repository.go), the check loop  *)
(* Handle with the RunLifeCycle goroutines it starts, and the uninstall    *)
(* goroutines of DeleteRepository (handler.go).                            *)
(*                                                                         *)
(* Every lock is taken by a TryLock loop, modelled as an action guarded by *)
(* the lock being free.  h.Repos and r.Apps are Go slices: a backing array *)
(* and a length.  append publishes the longer length before it stores the  *)
(* element, so the handlers that scan a slice without its lock may meet a  *)
(* slot that still holds nil, or what an earlier truncation left in it.    *)
(* What delivery does to the cluster is the business of other modules.     *)
(***************************************************************************)
EXTENDS Naturals, FiniteSets

CONSTANTS
  RepoCallers,  \* clients with one repository request in flight at a time
  AppCallers,   \* clients with one application request in flight at a time
  Ops,          \* the requests the clients send
  RepoNames, URLs, AppNames,
  Settings,     \* what cmp.Equal compares of an Application besides its name
  RepoAddrs,    \* addresses of RepositoryConfig objects
  AppAddrs,     \* addresses of Application objects
  MaxRepos,     \* bound: slots of h.Repos
  MaxApps,      \* bound: slots of one r.Apps
  Nil

Callers == RepoCallers \cup AppCallers
Free == "free"
\* Holders of an Application's mutex besides the callers.
LifeCycle == "life cycle"
Uninstaller == "uninstaller"
Ticker == "ticker"

ASSUME DisjointAssumption ==
  /\ RepoCallers \cap AppCallers = {}
  /\ Callers \cap {Free, LifeCycle, Uninstaller, Ticker} = {}
  /\ Nil \notin RepoAddrs \cup AppAddrs
  /\ Nil \notin [name : RepoNames, url : URLs]
  /\ Nil \notin [repo : RepoAddrs, name : AppNames, settings : Settings]

ASSUME BoundAssumption == MaxRepos \in Nat /\ MaxApps \in Nat

VARIABLES
  serverState,   \* "up", or the panic that ended the process
  handlerLock,   \* RepositoryHandler.Mutex
  repos, nRepos, \* RepositoryHandler.Repos
  config,        \* RepositoryConfig objects: name and URL
  repoLock,      \* RepositoryConfig.Mutex
  apps, nApps,   \* RepositoryConfig.Apps
  application,   \* Application objects: repository, name and settings
  appLock,       \* Application.mutex
  pc, req, loc,  \* of each caller's handler: control, request, locals
  tick,          \* the check loop: control and its two range indexes
  life,          \* the RunLifeCycle goroutine of each Application object
  uninst,        \* the DeleteRepository goroutine of each Application object
  wg             \* the WaitGroup counter of Handle

listVars == <<repos, nRepos, config>>
repoVars == <<repoLock, apps, nApps>>
appVars  == <<application, appLock>>
callVars == <<pc, req, loc>>
goVars   == <<tick, life, uninst, wg>>
vars == <<serverState, handlerLock, listVars, repoVars, appVars, callVars, goVars>>

-----------------------------------------------------------------------------
Request(op, name, url, settings) ==
  [op |-> op, name |-> name, url |-> url, settings |-> settings]
\* A handler's locals, with the objects the request allocates.
Frame(repo, app) == [repo |-> repo, idx |-> 0, app |-> app, old |-> Nil]
NoReq == Request("none", Nil, Nil, Nil)
NoLoc == Frame(Nil, Nil)

\* The memory of a process that has just started.
NoRepos == [i \in 1..MaxRepos |-> Nil]
NoApps == [r \in RepoAddrs |-> [i \in 1..MaxApps |-> Nil]]
NoCheck == [at |-> "idle", i |-> 1, j |-> 1]

Init ==
  /\ serverState = "up"
  /\ handlerLock = Free
  /\ repos = NoRepos /\ nRepos = 0
  /\ config = [r \in RepoAddrs |-> Nil]
  /\ repoLock = [r \in RepoAddrs |-> Free]
  /\ apps = NoApps /\ nApps = [r \in RepoAddrs |-> 0]
  /\ application = [a \in AppAddrs |-> Nil]
  /\ appLock = [a \in AppAddrs |-> Free]
  /\ pc = [c \in Callers |-> "idle"]
  /\ req = [c \in Callers |-> NoReq]
  /\ loc = [c \in Callers |-> NoLoc]
  /\ tick = NoCheck
  /\ life = [a \in AppAddrs |-> "none"]
  /\ uninst = [a \in AppAddrs |-> "none"]
  /\ wg = 0

\* A panic in any goroutine ends the process: grpc-go recovers none of them.
Panic(cause) ==
  /\ serverState' = cause
  /\ handlerLock' = Free
  /\ repos' = NoRepos /\ nRepos' = 0
  /\ config' = [r \in RepoAddrs |-> Nil]
  /\ repoLock' = [r \in RepoAddrs |-> Free]
  /\ apps' = NoApps /\ nApps' = [r \in RepoAddrs |-> 0]
  /\ application' = [a \in AppAddrs |-> Nil]
  /\ appLock' = [a \in AppAddrs |-> Free]
  /\ pc' = [c \in Callers |-> "idle"]
  /\ req' = [c \in Callers |-> NoReq]
  /\ loc' = [c \in Callers |-> NoLoc]
  /\ tick' = NoCheck
  /\ life' = [a \in AppAddrs |-> "none"]
  /\ uninst' = [a \in AppAddrs |-> "none"]
  /\ wg' = 0

\* restartPolicy: Always; the registry is only in memory and starts empty.
Restart ==
  /\ serverState # "up"
  /\ serverState' = "up"
  /\ UNCHANGED <<handlerLock, listVars, repoVars, appVars, callVars, goVars>>

Goto(c, label) == pc' = [pc EXCEPT ![c] = label] /\ UNCHANGED <<req, loc>>

Return(c) ==
  /\ pc' = [pc EXCEPT ![c] = "idle"]
  /\ req' = [req EXCEPT ![c] = NoReq]
  /\ loc' = [loc EXCEPT ![c] = NoLoc]

Begin(c, request, locals) ==
  /\ pc[c] = "idle"
  /\ request.op \in Ops
  /\ pc' = [pc EXCEPT ![c] = request.op]
  /\ req' = [req EXCEPT ![c] = request]
  /\ loc' = [loc EXCEPT ![c] = locals]

First(indexes) == {i \in indexes : \A j \in indexes : i <= j}
Last(indexes) == {i \in indexes : \A j \in indexes : j <= i}

\* What the range loop over h.Repos returns for a URL, if anything.  Nil: it
\* met an empty slot.
GetRepositoryConfig(url) ==
  {repos[i] : i \in First({i \in 1..nRepos : repos[i] = Nil \/ config[repos[i]].url = url})}

\* The slots of r.Apps that hold an application of that name.
AppSlots(r, name) ==
  {i \in 1..nApps[r] : apps[r][i] # Nil /\ application[apps[r][i]].name = name}
EmptySlots(r) == {i \in 1..nApps[r] : apps[r][i] = Nil}

-----------------------------------------------------------------------------
(* Server.AddRepository and RepositoryHandler.AddRepository                *)

CallAddRepository(c) ==
  \E name \in RepoNames, url \in URLs, r \in RepoAddrs :
    /\ config[r] = Nil /\ \A d \in Callers : loc[d].repo # r
    /\ Begin(c, Request("AddRepository", name, url, Nil), Frame(r, Nil))
    /\ UNCHANGED <<serverState, handlerLock, listVars, repoVars, appVars, goVars>>

\* The first check takes no lock.
AddRepositoryCheck(c) ==
  /\ pc[c] = "AddRepository"
  /\ LET found == GetRepositoryConfig(req[c].url) IN
     \/ Nil \in found /\ Panic("nil dereference")
     \/ /\ found # {} /\ Nil \notin found /\ Return(c)
        /\ UNCHANGED <<serverState, handlerLock, listVars, repoVars, appVars, goVars>>
     \/ /\ found = {} /\ Goto(c, "addRepoLock")
        /\ UNCHANGED <<serverState, handlerLock, listVars, repoVars, appVars, goVars>>

AddRepositoryLock(c) ==
  /\ pc[c] = "addRepoLock"
  /\ handlerLock = Free
  /\ handlerLock' = c
  /\ Goto(c, "addRepoNew")
  /\ UNCHANGED <<serverState, listVars, repoVars, appVars, goVars>>

\* Mutant: the error path keeps the handler's mutex.
AddRepositoryRefuseLocked(c) ==
  /\ pc[c] = "addRepoNew"
  /\ Return(c)
  /\ UNCHANGED <<serverState, handlerLock, listVars, repoVars, appVars, goVars>>

\* NewRepositoryConfig fails (no secret, bad key), or the second check finds
\* the URL: nothing is added.
AddRepositoryRefuse(c) ==
  /\ pc[c] = "addRepoNew"
  /\ handlerLock' = Free
  /\ Return(c)
  /\ UNCHANGED <<serverState, listVars, repoVars, appVars, goVars>>

\* Mutant: no second check for the URL under the lock.
AddRepositoryUnchecked(c) ==
  LET r == loc[c].repo IN
  /\ pc[c] = "addRepoNew"
  /\ nRepos < MaxRepos
  /\ config' = [config EXCEPT ![r] = [name |-> req[c].name, url |-> req[c].url]]
  /\ repoLock' = [repoLock EXCEPT ![r] = c]
  /\ nRepos' = nRepos + 1
  /\ Goto(c, "addRepoStore")
  /\ UNCHANGED <<serverState, handlerLock, repos, apps, nApps, appVars, goVars>>

\* The new object, locked by AddRepository, enters h.Repos: first the length.
AddRepositoryGrow(c) ==
  LET r == loc[c].repo IN
  /\ pc[c] = "addRepoNew"
  /\ \A i \in 1..nRepos : config[repos[i]].url # req[c].url
  /\ nRepos < MaxRepos
  /\ config' = [config EXCEPT ![r] = [name |-> req[c].name, url |-> req[c].url]]
  /\ repoLock' = [repoLock EXCEPT ![r] = c]
  /\ nRepos' = nRepos + 1
  /\ Goto(c, "addRepoStore")
  /\ UNCHANGED <<serverState, handlerLock, repos, apps, nApps, appVars, goVars>>

AddRepositoryStore(c) ==
  LET r == loc[c].repo IN
  /\ pc[c] = "addRepoStore"
  /\ repos' = [repos EXCEPT ![nRepos] = r]
  /\ repoLock' = [repoLock EXCEPT ![r] = Free]
  /\ handlerLock' = Free
  /\ Return(c)
  /\ UNCHANGED <<serverState, nRepos, config, apps, nApps, appVars, goVars>>

-----------------------------------------------------------------------------
(* Server.DeleteRepository and RepositoryHandler.DeleteRepository          *)

CallDeleteRepository(c) ==
  \E name \in RepoNames :
    /\ Begin(c, Request("DeleteRepository", name, Nil, Nil), NoLoc)
    /\ UNCHANGED <<serverState, handlerLock, listVars, repoVars, appVars, goVars>>

DeleteRepositoryLock(c) ==
  /\ pc[c] = "DeleteRepository"
  /\ handlerLock = Free
  /\ handlerLock' = c
  /\ Goto(c, "delRepoFind")
  /\ UNCHANGED <<serverState, listVars, repoVars, appVars, goVars>>

\* Mutant: the handler's mutex covers only the search.
DeleteRepositoryFindOnly(c) ==
  LET named == {i \in 1..nRepos : config[repos[i]].name = req[c].name} IN
  /\ pc[c] = "delRepoFind"
  /\ handlerLock' = Free
  /\ \/ named = {} /\ Return(c)
     \/ \E i \in Last(named) :
          /\ pc' = [pc EXCEPT ![c] = "delRepoLock"]
          /\ loc' = [loc EXCEPT ![c].idx = i, ![c].repo = repos[i]]
          /\ UNCHANGED req
  /\ UNCHANGED <<serverState, listVars, repoVars, appVars, goVars>>

\* The last repository of that name; none: ErrRepositoryConfigNotFound.
DeleteRepositoryFind(c) ==
  LET named == {i \in 1..nRepos : config[repos[i]].name = req[c].name} IN
  /\ pc[c] = "delRepoFind"
  /\ \/ /\ named = {} /\ Return(c)
        /\ handlerLock' = Free
     \/ \E i \in Last(named) :
          /\ pc' = [pc EXCEPT ![c] = "delRepoLock"]
          /\ loc' = [loc EXCEPT ![c].idx = i, ![c].repo = repos[i]]
          /\ UNCHANGED <<req, handlerLock>>
  /\ UNCHANGED <<serverState, listVars, repoVars, appVars, goVars>>

\* With the repository locked, one goroutine per application.
DeleteRepositorySpawn(c) ==
  LET r == loc[c].repo IN
  /\ pc[c] = "delRepoLock"
  /\ repoLock[r] = Free
  /\ repoLock' = [repoLock EXCEPT ![r] = c]
  /\ uninst' = [a \in AppAddrs |->
                  IF \E i \in 1..nApps[r] : apps[r][i] = a THEN "waiting" ELSE uninst[a]]
  /\ Goto(c, "delRepoWait")
  /\ UNCHANGED <<serverState, handlerLock, listVars, apps, nApps, appVars, tick, life, wg>>

\* Mutant: does not wait for the life cycle.
UninstallUnlocked(a) ==
  /\ uninst[a] = "waiting"
  /\ appLock' = [appLock EXCEPT ![a] = Uninstaller]
  /\ uninst' = [uninst EXCEPT ![a] = "running"]
  /\ UNCHANGED <<serverState, handlerLock, listVars, repoVars, application, callVars,
                 tick, life, wg>>

\* app.mutex.TryLock() succeeds; nothing in the goroutine unlocks it again.
UninstallLock(a) ==
  /\ uninst[a] = "waiting" /\ appLock[a] = Free
  /\ appLock' = [appLock EXCEPT ![a] = Uninstaller]
  /\ uninst' = [uninst EXCEPT ![a] = "running"]
  /\ UNCHANGED <<serverState, handlerLock, listVars, repoVars, application, callVars,
                 tick, life, wg>>

\* Uninstall returned, with or without an error, which is only logged.
UninstallDone(a) ==
  /\ uninst[a] = "running"
  /\ uninst' = [uninst EXCEPT ![a] = "none"]
  /\ UNCHANGED <<serverState, handlerLock, listVars, repoVars, appVars, callVars,
                 tick, life, wg>>

\* A goroutine started for an empty slot dereferences nil.
DeleteRepositoryNil(c) ==
  /\ pc[c] = "delRepoWait"
  /\ EmptySlots(loc[c].repo) # {}
  /\ Panic("nil dereference")

\* Mutant: no wg.Wait() before the removal.
DeleteRepositoryNoWait(c) ==
  LET r == loc[c].repo IN
  /\ pc[c] = "delRepoWait"
  /\ EmptySlots(r) = {}
  /\ repos' = [repos EXCEPT ![loc[c].idx] = repos[nRepos]]
  /\ nRepos' = nRepos - 1
  /\ repoLock' = [repoLock EXCEPT ![r] = Free]
  /\ handlerLock' = Free
  /\ Return(c)
  /\ UNCHANGED <<serverState, config, apps, nApps, appVars, goVars>>

\* Mutant: cuts the last slot off, whichever was found.
DeleteRepositoryCutLast(c) ==
  LET r == loc[c].repo IN
  /\ pc[c] = "delRepoWait"
  /\ EmptySlots(r) = {}
  /\ \A a \in AppAddrs : uninst[a] = "none"
  /\ nRepos' = nRepos - 1
  /\ repoLock' = [repoLock EXCEPT ![r] = Free]
  /\ handlerLock' = Free
  /\ Return(c)
  /\ UNCHANGED <<serverState, repos, config, apps, nApps, appVars, goVars>>

\* wg.Wait() returns; the last repository takes the place of the removed one.
DeleteRepositoryRemove(c) ==
  LET r == loc[c].repo IN
  /\ pc[c] = "delRepoWait"
  /\ EmptySlots(r) = {}
  /\ \A a \in AppAddrs : uninst[a] = "none"
  /\ repos' = [repos EXCEPT ![loc[c].idx] = repos[nRepos]]
  /\ nRepos' = nRepos - 1
  /\ repoLock' = [repoLock EXCEPT ![r] = Free]
  /\ handlerLock' = Free
  /\ Return(c)
  /\ UNCHANGED <<serverState, config, apps, nApps, appVars, goVars>>

-----------------------------------------------------------------------------
(* Server.AddOrUpdateApplication and RepositoryConfig.AddOrUpdateApplication *)

CallAddOrUpdateApplication(c) ==
  \E name \in AppNames, url \in URLs, s \in Settings, a \in AppAddrs :
    /\ application[a] = Nil /\ \A d \in Callers : loc[d].app # a
    /\ Begin(c, Request("AddOrUpdateApplication", name, url, s), Frame(Nil, a))
    /\ UNCHANGED <<serverState, handlerLock, listVars, repoVars, appVars, goVars>>

\* h.Repos is read without its lock; the request becomes a new Application.
AddOrUpdateApplication(c) ==
  /\ pc[c] = "AddOrUpdateApplication"
  /\ LET found == GetRepositoryConfig(req[c].url) IN
     \/ Nil \in found /\ Panic("nil dereference")
     \/ /\ found = {} /\ Return(c)
        /\ UNCHANGED <<serverState, handlerLock, listVars, repoVars, appVars, goVars>>
     \/ /\ \E r \in found \ {Nil} :
             /\ loc' = [loc EXCEPT ![c].repo = r]
             /\ application' = [application EXCEPT ![loc[c].app] =
                  [repo |-> r, name |-> req[c].name, settings |-> req[c].settings]]
        /\ pc' = [pc EXCEPT ![c] = "updScan"]
        /\ UNCHANGED <<serverState, handlerLock, listVars, repoVars, appLock, req, goVars>>

\* Objects nothing refers to any more are garbage.
Drop(garbage) ==
  application' = [a \in AppAddrs |-> IF a \in garbage THEN Nil ELSE application[a]]

\* r.Apps is scanned without its lock up to the first match.
AddOrUpdateScan(c) ==
  LET r == loc[c].repo
      stops == AppSlots(r, req[c].name) \cup EmptySlots(r)
  IN
  /\ pc[c] = "updScan"
  /\ \/ /\ stops = {} /\ Goto(c, "addAppNew")
        /\ UNCHANGED <<serverState, handlerLock, listVars, repoVars, appVars, goVars>>
     \/ \E i \in First(stops) :
          \/ i \in EmptySlots(r) /\ Panic("nil dereference")
          \/ /\ i \notin EmptySlots(r)
             /\ pc' = [pc EXCEPT ![c] = "updCompare"]
             /\ loc' = [loc EXCEPT ![c].idx = i]
             /\ UNCHANGED <<serverState, handlerLock, listVars, repoVars, appVars, req, goVars>>

\* Still without the lock, the slot at that index is read again: the slice may
\* have become shorter, and the slot may hold another object or none.
AddOrUpdateCompare(c) ==
  LET r == loc[c].repo
      listed == apps[r][loc[c].idx]
      Same == /\ listed # Nil
              /\ application[listed].name = req[c].name
              /\ application[listed].settings = req[c].settings
  IN
  /\ pc[c] = "updCompare"
  /\ \/ loc[c].idx > nApps[r] /\ Panic("index out of range")
     \/ /\ loc[c].idx <= nApps[r] /\ Same  \* NoErrAlreadyUpTodate
        /\ Drop({loc[c].app}) /\ Return(c)
        /\ UNCHANGED <<serverState, handlerLock, listVars, repoVars, appLock, goVars>>
     \/ /\ loc[c].idx <= nApps[r] /\ ~Same
        /\ Goto(c, "updRepoLock")
        /\ UNCHANGED <<serverState, handlerLock, listVars, repoVars, appVars, goVars>>

\* NewApplication clones and reads the cluster; no lock of r is held meanwhile.
AddApplicationNew(c) ==
  /\ pc[c] = "addAppNew"
  /\ \/ Goto(c, "addAppLock") /\ UNCHANGED application
     \/ Return(c) /\ Drop({loc[c].app})
  /\ UNCHANGED <<serverState, handlerLock, listVars, repoVars, appLock, goVars>>

AddApplicationGrow(c) ==
  LET r == loc[c].repo IN
  /\ pc[c] = "addAppLock"
  /\ repoLock[r] = Free
  /\ nApps[r] < MaxApps
  /\ repoLock' = [repoLock EXCEPT ![r] = c]
  /\ nApps' = [nApps EXCEPT ![r] = @ + 1]
  /\ Goto(c, "addAppStore")
  /\ UNCHANGED <<serverState, handlerLock, listVars, apps, appVars, goVars>>

AddApplicationStore(c) ==
  LET r == loc[c].repo IN
  /\ pc[c] = "addAppStore"
  /\ apps' = [apps EXCEPT ![r][nApps[r]] = loc[c].app]
  /\ repoLock' = [repoLock EXCEPT ![r] = Free]
  /\ Return(c)
  /\ UNCHANGED <<serverState, handlerLock, listVars, nApps, appVars, goVars>>

UpdateLockRepo(c) ==
  LET r == loc[c].repo IN
  /\ pc[c] = "updRepoLock"
  /\ repoLock[r] = Free
  /\ repoLock' = [repoLock EXCEPT ![r] = c]
  /\ Goto(c, "updAppLock")
  /\ UNCHANGED <<serverState, handlerLock, listVars, apps, nApps, appVars, goVars>>

\* Mutant: does not wait for the application's mutex.
UpdateBusyApp(c) ==
  LET old == apps[loc[c].repo][loc[c].idx] IN
  /\ pc[c] = "updAppLock"
  /\ \/ old = Nil /\ Panic("nil dereference")
     \/ /\ old \in AppAddrs
        /\ appLock' = [appLock EXCEPT ![old] = c]
        /\ pc' = [pc EXCEPT ![c] = "updApp"]
        /\ loc' = [loc EXCEPT ![c].old = old]
        /\ UNCHANGED <<serverState, handlerLock, listVars, repoVars, application, req, goVars>>

\* The index comes from the unlocked scan, the object from the slot now.
UpdateLockApp(c) ==
  LET old == apps[loc[c].repo][loc[c].idx] IN
  /\ pc[c] = "updAppLock"
  /\ \/ old = Nil /\ Panic("nil dereference")
     \/ /\ old \in AppAddrs /\ appLock[old] = Free
        /\ appLock' = [appLock EXCEPT ![old] = c]
        /\ pc' = [pc EXCEPT ![c] = "updApp"]
        /\ loc' = [loc EXCEPT ![c].old = old]
        /\ UNCHANGED <<serverState, handlerLock, listVars, repoVars, application, req, goVars>>

\* Mutant: the application that was found stays locked.
UpdateAppStaysLocked(c) ==
  LET r == loc[c].repo
      Put(a) == apps' = [apps EXCEPT ![r][loc[c].idx] = a]
      replaced == {a \in AppAddrs : a = loc[c].old /\ \A d \in Callers \ {c} : loc[d].old # a}
  IN
  /\ pc[c] = "updApp"
  /\ \/ Drop({loc[c].app}) /\ UNCHANGED apps
     \/ Put(loc[c].app) /\ Drop(replaced)
     \/ Put(Nil) /\ Drop(replaced \cup {loc[c].app})
  /\ repoLock' = [repoLock EXCEPT ![r] = Free]
  /\ Return(c)
  /\ UNCHANGED <<serverState, handlerLock, listVars, nApps, appLock, goVars>>

\* Removing the old clone may fail.  Then the slot takes what NewApplication
\* returns: the new object, or nil with an error.
UpdateApp(c) ==
  LET r == loc[c].repo
      Put(a) == apps' = [apps EXCEPT ![r][loc[c].idx] = a]
      replaced == {a \in AppAddrs : a = loc[c].old /\ \A d \in Callers \ {c} : loc[d].old # a}
  IN
  /\ pc[c] = "updApp"
  /\ \/ Drop({loc[c].app}) /\ UNCHANGED apps
     \/ Put(loc[c].app) /\ Drop(replaced)
     \/ Put(Nil) /\ Drop(replaced \cup {loc[c].app})
  /\ appLock' = [appLock EXCEPT ![loc[c].old] = Free]
  /\ repoLock' = [repoLock EXCEPT ![r] = Free]
  /\ Return(c)
  /\ UNCHANGED <<serverState, handlerLock, listVars, nApps, goVars>>

-----------------------------------------------------------------------------
(* Server.DeleteApplication and RepositoryConfig.DeleteApplication         *)

CallDeleteApplication(c) ==
  \E name \in AppNames, url \in URLs :
    /\ Begin(c, Request("DeleteApplication", name, url, Nil), NoLoc)
    /\ UNCHANGED <<serverState, handlerLock, listVars, repoVars, appVars, goVars>>

DeleteApplication(c) ==
  /\ pc[c] = "DeleteApplication"
  /\ LET found == GetRepositoryConfig(req[c].url) IN
     \/ Nil \in found /\ Panic("nil dereference")
     \/ /\ found = {} /\ Return(c)
        /\ UNCHANGED <<serverState, handlerLock, listVars, repoVars, appVars, goVars>>
     \/ /\ \E r \in found \ {Nil} : loc' = [loc EXCEPT ![c].repo = r]
        /\ pc' = [pc EXCEPT ![c] = "delAppScan"]
        /\ UNCHANGED <<serverState, handlerLock, listVars, repoVars, appVars, req, goVars>>

\* The unlocked scan does not break: the last application of that name.
DeleteApplicationScan(c) ==
  LET r == loc[c].repo
      slots == AppSlots(r, req[c].name)
  IN
  /\ pc[c] = "delAppScan"
  /\ \/ EmptySlots(r) # {} /\ Panic("nil dereference")
     \/ /\ EmptySlots(r) = {} /\ slots = {} /\ Return(c)
        /\ UNCHANGED <<serverState, handlerLock, listVars, repoVars, appVars, goVars>>
     \/ /\ EmptySlots(r) = {}
        /\ \E i \in Last(slots) :
             loc' = [loc EXCEPT ![c].idx = i, ![c].old = apps[r][i]]
        /\ pc' = [pc EXCEPT ![c] = "delAppLock"]
        /\ UNCHANGED <<serverState, handlerLock, listVars, repoVars, appVars, req, goVars>>

DeleteApplicationLockRepo(c) ==
  LET r == loc[c].repo IN
  /\ pc[c] = "delAppLock"
  /\ repoLock[r] = Free
  /\ repoLock' = [repoLock EXCEPT ![r] = c]
  /\ Goto(c, "delAppLockApp")
  /\ UNCHANGED <<serverState, handlerLock, listVars, apps, nApps, appVars, goVars>>

DeleteApplicationLockApp(c) ==
  LET a == loc[c].old IN
  /\ pc[c] = "delAppLockApp"
  /\ appLock[a] = Free
  /\ appLock' = [appLock EXCEPT ![a] = c]
  /\ Goto(c, "delApp")
  /\ UNCHANGED <<serverState, handlerLock, listVars, repoVars, application, goVars>>

\* Mutant: the deferred calls are Unlock, not TryLock.
DeleteApplicationUnlocks(c) ==
  LET r == loc[c].repo IN
  /\ pc[c] = "delApp"
  /\ apps' = [apps EXCEPT ![r][loc[c].idx] = apps[r][nApps[r]]]
  /\ nApps' = [nApps EXCEPT ![r] = @ - 1]
  /\ repoLock' = [repoLock EXCEPT ![r] = Free]
  /\ appLock' = [appLock EXCEPT ![loc[c].old] = Free]
  /\ Return(c)
  /\ UNCHANGED <<serverState, handlerLock, listVars, application, goVars>>

\* After Uninstall, whose error is only logged, the last slot moves to the
\* index of the scan.  What is deferred is TryLock: both locks stay taken.
DeleteApplicationRemove(c) ==
  LET r == loc[c].repo IN
  /\ pc[c] = "delApp"
  /\ apps' = [apps EXCEPT ![r][loc[c].idx] = apps[r][nApps[r]]]
  /\ nApps' = [nApps EXCEPT ![r] = @ - 1]
  /\ Return(c)
  /\ UNCHANGED <<serverState, handlerLock, listVars, repoLock, appVars, goVars>>

-----------------------------------------------------------------------------
(* Server.GetApplications and Server.GetApplicationRevisions only read,    *)
(* without a lock.  All they can do to the state is to meet an empty slot. *)

ReadApplications ==
  /\ "GetApplications" \in Ops
  /\ \E i \in 1..nRepos :
       \/ repos[i] = Nil
       \/ repos[i] \in RepoAddrs /\ EmptySlots(repos[i]) # {}
  /\ Panic("nil dereference")

-----------------------------------------------------------------------------
(* RepositoryHandler.Handle and the RunLifeCycle goroutines                *)

TickStart ==
  /\ serverState = "up" /\ tick.at = "idle"
  /\ handlerLock = Free
  /\ handlerLock' = Ticker
  /\ tick' = [at |-> "repos", i |-> 1, j |-> 1]
  /\ UNCHANGED <<serverState, listVars, repoVars, appVars, callVars, life, uninst, wg>>

\* A busy repository is skipped until the next tick.
TickRepo ==
  LET r == repos[tick.i] IN
  /\ tick.at = "repos" /\ tick.i <= nRepos
  /\ \/ /\ repoLock[r] = Free
        /\ repoLock' = [repoLock EXCEPT ![r] = Ticker]
        /\ tick' = [at |-> "apps", i |-> tick.i, j |-> 1]
     \/ /\ repoLock[r] # Free
        /\ tick' = [tick EXCEPT !.i = @ + 1]
        /\ UNCHANGED repoLock
  /\ UNCHANGED <<serverState, handlerLock, listVars, apps, nApps, appVars, callVars,
                 life, uninst, wg>>

\* A busy application is charged to the WaitGroup by a Done without an Add.
TickApp ==
  LET r == repos[tick.i]
      a == apps[r][tick.j]
  IN
  /\ tick.at = "apps" /\ tick.j <= nApps[r]
  /\ \/ a = Nil /\ Panic("nil dereference")
     \/ /\ a \in AppAddrs /\ appLock[a] = Free
        /\ appLock' = [appLock EXCEPT ![a] = LifeCycle]
        /\ life' = [life EXCEPT ![a] = "running"]
        /\ wg' = wg + 1
        /\ tick' = [tick EXCEPT !.j = @ + 1]
        /\ UNCHANGED <<serverState, handlerLock, listVars, repoVars, application, callVars,
                       uninst>>
     \/ /\ a \in AppAddrs /\ appLock[a] # Free /\ wg > 0
        /\ wg' = wg - 1
        /\ tick' = [tick EXCEPT !.j = @ + 1]
        /\ UNCHANGED <<serverState, handlerLock, listVars, repoVars, appVars, callVars,
                       life, uninst>>
     \/ a \in AppAddrs /\ appLock[a] # Free /\ wg = 0 /\ Panic("negative WaitGroup counter")

TickRepoDone ==
  LET r == repos[tick.i] IN
  /\ tick.at = "apps" /\ tick.j > nApps[r]
  /\ repoLock' = [repoLock EXCEPT ![r] = Free]
  /\ tick' = [at |-> "repos", i |-> tick.i + 1, j |-> 1]
  /\ UNCHANGED <<serverState, handlerLock, listVars, apps, nApps, appVars, callVars,
                 life, uninst, wg>>

TickWait ==
  /\ tick.at = "repos" /\ tick.i > nRepos
  /\ wg = 0
  /\ handlerLock' = Free
  /\ tick' = NoCheck
  /\ UNCHANGED <<serverState, listVars, repoVars, appVars, callVars, life, uninst, wg>>

\* Mutant: the life cycle forgets wg.Done().
LifeNeverDone(a) ==
  /\ life[a] = "running"
  /\ \/ /\ wg > 0
        /\ life' = [life EXCEPT ![a] = "done"]
        /\ UNCHANGED <<serverState, handlerLock, listVars, repoVars, appVars, callVars,
                       tick, uninst, wg>>
     \/ wg = 0 /\ Panic("negative WaitGroup counter")

\* Mutant: Done does not check the counter.
LifeDoneUnchecked(a) ==
  /\ life[a] = "running"
  /\ wg' = wg - 1
  /\ life' = [life EXCEPT ![a] = "done"]
  /\ UNCHANGED <<serverState, handlerLock, listVars, repoVars, appVars, callVars,
                 tick, uninst>>

\* The deferred calls run last to first: Done, then Unlock.
LifeDone(a) ==
  /\ life[a] = "running"
  /\ \/ /\ wg > 0
        /\ wg' = wg - 1
        /\ life' = [life EXCEPT ![a] = "done"]
        /\ UNCHANGED <<serverState, handlerLock, listVars, repoVars, appVars, callVars,
                       tick, uninst>>
     \/ wg = 0 /\ Panic("negative WaitGroup counter")

LifeUnlock(a) ==
  /\ life[a] = "done"
  /\ life' = [life EXCEPT ![a] = "none"]
  /\ appLock' = [appLock EXCEPT ![a] = Free]
  /\ UNCHANGED <<serverState, handlerLock, listVars, repoVars, application, callVars,
                 tick, uninst, wg>>

-----------------------------------------------------------------------------
Call(c) ==
  /\ serverState = "up"
  /\ \/ c \in RepoCallers /\ (CallAddRepository(c) \/ CallDeleteRepository(c))
     \/ c \in AppCallers /\ (CallAddOrUpdateApplication(c) \/ CallDeleteApplication(c))

AddRepositoryStep(c) ==
  \/ AddRepositoryCheck(c) \/ AddRepositoryLock(c) \/ AddRepositoryRefuse(c)
  \/ AddRepositoryGrow(c) \/ AddRepositoryStore(c)
DeleteRepositoryStep(c) ==
  \/ DeleteRepositoryLock(c) \/ DeleteRepositoryFind(c) \/ DeleteRepositorySpawn(c)
  \/ DeleteRepositoryNil(c) \/ DeleteRepositoryRemove(c)
AddOrUpdateApplicationStep(c) ==
  \/ AddOrUpdateApplication(c) \/ AddOrUpdateScan(c) \/ AddOrUpdateCompare(c)
  \/ AddApplicationNew(c) \/ AddApplicationGrow(c) \/ AddApplicationStore(c)
  \/ UpdateLockRepo(c) \/ UpdateLockApp(c) \/ UpdateApp(c)
DeleteApplicationStep(c) ==
  \/ DeleteApplication(c) \/ DeleteApplicationScan(c) \/ DeleteApplicationLockRepo(c)
  \/ DeleteApplicationLockApp(c) \/ DeleteApplicationRemove(c)

CallerStep(c) ==
  \/ AddRepositoryStep(c) \/ DeleteRepositoryStep(c)
  \/ AddOrUpdateApplicationStep(c) \/ DeleteApplicationStep(c)
GoroutineStep(a) == UninstallLock(a) \/ UninstallDone(a) \/ LifeDone(a) \/ LifeUnlock(a)
TickStep == TickStart \/ TickRepo \/ TickApp \/ TickRepoDone \/ TickWait

Next ==
  \/ \E c \in Callers : Call(c) \/ CallerStep(c)
  \/ \E a \in AppAddrs : GoroutineStep(a)
  \/ TickStep
  \/ ReadApplications
  \/ Restart

Spec == Init /\ [][Next]_vars

\* Every goroutine is scheduled, the git and cluster calls a step stands for
\* return, and a goroutine that keeps trying a lock gets it if the lock is free
\* again and again.  A tick that finds the handler busy does nothing, so
\* starting a check is not promised.
Fairness ==
  /\ \A c \in Callers : SF_vars(CallerStep(c))
  /\ \A a \in AppAddrs : SF_vars(GoroutineStep(a))
  /\ WF_vars(TickStep /\ ~TickStart)
  /\ WF_vars(Restart)

FairSpec == Spec /\ Fairness

-----------------------------------------------------------------------------
(* Properties                                                              *)

Labels ==
  {"idle", "AddRepository", "addRepoLock", "addRepoNew", "addRepoStore",
   "DeleteRepository", "delRepoFind", "delRepoLock", "delRepoWait",
   "AddOrUpdateApplication", "updScan", "addAppNew", "addAppLock", "addAppStore",
   "updCompare", "updRepoLock", "updAppLock", "updApp",
   "DeleteApplication", "delAppScan", "delAppLock", "delAppLockApp", "delApp"}
States == {"up", "nil dereference", "index out of range", "negative WaitGroup counter"}
Requests == [op : Ops \cup {"none"}, name : RepoNames \cup AppNames \cup {Nil},
             url : URLs \cup {Nil}, settings : Settings \cup {Nil}]
Locals == [repo : RepoAddrs \cup {Nil}, idx : Nat, app : AppAddrs \cup {Nil},
           old : AppAddrs \cup {Nil}]
Configs == [name : RepoNames, url : URLs]
Applications == [repo : RepoAddrs, name : AppNames, settings : Settings]

RegistryTypes ==
  /\ serverState \in States
  /\ handlerLock \in Callers \cup {Free, Ticker}
  /\ repos \in [1..MaxRepos -> RepoAddrs \cup {Nil}] /\ nRepos \in 0..MaxRepos
  /\ config \in [RepoAddrs -> Configs \cup {Nil}]
  /\ repoLock \in [RepoAddrs -> Callers \cup {Free, Ticker}]
  /\ apps \in [RepoAddrs -> [1..MaxApps -> AppAddrs \cup {Nil}]]
  /\ nApps \in [RepoAddrs -> 0..MaxApps]
  /\ application \in [AppAddrs -> Applications \cup {Nil}]
  /\ appLock \in [AppAddrs -> Callers \cup {Free, LifeCycle, Uninstaller}]
CallTypes ==
  /\ pc \in [Callers -> Labels]
  /\ req \in [Callers -> Requests]
  /\ loc \in [Callers -> Locals]
CheckTypes ==
  /\ tick \in [at : {"idle", "repos", "apps"}, i : Nat \ {0}, j : Nat \ {0}]
  /\ life \in [AppAddrs -> {"none", "running", "done"}]
  /\ uninst \in [AppAddrs -> {"none", "waiting", "running"}]
  /\ wg \in Nat

\* The shape of the registry, of the handlers' locals and of the check loop:
\* no slice grows past its slots, no counter goes below zero (handler.go:36-91).
TypeOK == RegistryTypes /\ CallTypes /\ CheckTypes

\* While a repository is being appended, the last slot is not filled in yet.
Settled == {i \in 1..nRepos : i = nRepos => \A c \in Callers : pc[c] # "addRepoStore"}

\* Two registered repositories never have the same URL, although the first
\* check of Server.AddRepository takes no lock (server.go:26, handler.go:175):
\* every lookup by URL would reach only the first of them.
UniqueURL ==
  \A i, j \in Settled : config[repos[i]].url = config[repos[j]].url => i = j

\* The goroutines working on an Application object: the handlers that replace
\* or remove it, its life cycle and its uninstallation.
WorkingOn(a) ==
  {c \in Callers : pc[c] \in {"updApp", "delApp"} /\ loc[c].old = a}
    \cup {w \in {LifeCycle} : life[a] = "running"}
    \cup {w \in {Uninstaller} : uninst[a] = "running"}

\* One goroutine at a time works on an Application, whoever locked it
\* (handler.go:63 and 214, repository.go:233 and 274).
AppExclusive == \A a \in AppAddrs : \A x, y \in WorkingOn(a) : x = y

\* The goroutines working in the directory of a name, each as the repository it
\* works for: the path of a clone is the workspace and the application's name.
Cloning(name) ==
  {c \in Callers : pc[c] \in {"addAppNew", "updApp"} /\ req[c].name = name}
InClone(name) ==
  {a \in AppAddrs : /\ application[a] # Nil /\ application[a].name = name
                    /\ life[a] = "running" \/ uninst[a] = "running"}

\* With one client sending application requests, two goroutines use the
\* directory of one application name at once only for repositories of different
\* URLs, which nothing keeps apart: a request clones only what no slot of a
\* repository of its URL holds, or what it has locked, even if the repository is
\* deleted and added again meanwhile (application.go:49, repository.go:208).
StorageExclusive ==
  LET url(r) == config[r].url IN
  \A name \in AppNames :
    /\ \A c, d \in Cloning(name) : url(loc[c].repo) = url(loc[d].repo) => c = d
    /\ \A a, b \in InClone(name) : url(application[a].repo) = url(application[b].repo) => a = b
    /\ \A c \in Cloning(name), a \in InClone(name) :
         url(loc[c].repo) # url(application[a].repo)

\* The index DeleteRepository found before it waited for the repository's
\* mutex and for the uninstallations still is the repository's when the slot
\* is overwritten (handler.go:190-230).
RemovalIndexValid ==
  \A c \in Callers : pc[c] \in {"delRepoLock", "delRepoWait"} =>
    loc[c].idx \in 1..nRepos /\ repos[loc[c].idx] = loc[c].repo

\* The labels inside the critical section of a repository's mutex, and the
\* repositories whose mutex stays locked because its holder has left it.
RepoLabels == {"addRepoStore", "delRepoWait", "addAppStore", "updAppLock", "updApp",
               "delAppLockApp", "delApp"}
LeakedRepos ==
  {r \in RepoAddrs :
     \E c \in Callers : repoLock[r] = c /\ ~ (pc[c] \in RepoLabels /\ loc[c].repo = r)}

\* The index AddOrUpdateApplication found by an unlocked scan is that of a slot
\* of the slice, empty or of the same application, when it reads the slot again
\* for the comparison and as long as it waits for the repository's mutex, unless
\* a deletion has left that mutex locked; and always when it locks and replaces
\* what is in the slot (repository.go:200-244).
UpdateIndexValid ==
  \A c \in Callers :
    LET r == loc[c].repo
        fits == loc[c].idx \in AppSlots(r, req[c].name) \cup EmptySlots(r)
    IN  /\ pc[c] \in {"updCompare", "updRepoLock"} => fits \/ r \in LeakedRepos
        /\ pc[c] \in {"updAppLock", "updApp"} => fits

\* With one client sending application requests, a life cycle runs only for an
\* application that is listed in a registered repository: what DeleteRepository
\* or DeleteApplication has removed is not delivered again (handler.go:206-230).
LifeRegistered ==
  \A a \in AppAddrs : life[a] = "running" =>
    \E i \in 1..nRepos : repos[i] # Nil /\ \E j \in 1..nApps[repos[i]] : apps[repos[i]][j] = a

\* The object whose mutex a handler waits for with its repository's held.
Wanted(c) == IF pc[c] = "updAppLock" THEN apps[loc[c].repo][loc[c].idx] ELSE loc[c].old

\* Nobody who holds a mutex waits for somebody who waits for him: the three
\* kinds of mutex are taken in one order (handler.go:57-85 and 190-230,
\* repository.go:222-236 and 270-278).  With the handler's held, a deletion waits
\* for a repository's only from a client of applications; with a repository's
\* held, for an application's only from its life cycle, unless an uninstallation
\* that is over has left it locked; and a life cycle that the check loop waits
\* for, or that holds an application's mutex, still runs.
NoDeadlock ==
  /\ \A c \in Callers : pc[c] = "delRepoLock" => repoLock[loc[c].repo] \in AppCallers \cup {Free}
  /\ \A c \in Callers : pc[c] \in {"updAppLock", "delAppLockApp"} /\ Wanted(c) # Nil =>
       appLock[Wanted(c)] \notin Callers /\ uninst[Wanted(c)] = "none"
  /\ \A a \in AppAddrs : uninst[a] = "waiting" => appLock[a] \in {Free, LifeCycle}
  /\ \A a \in AppAddrs : appLock[a] = LifeCycle => life[a] # "none"
  /\ wg > 0 => \E a \in AppAddrs : life[a] = "running"

\* A mutex that somebody needs was left locked by a deletion: a repository's by
\* DeleteApplication, which never releases it, or an application's by the
\* goroutine that uninstalled it.
Abandoned ==
  \/ \E r \in RepoAddrs :
       /\ repoLock[r] \in Callers
       /\ pc[repoLock[r]] \notin RepoLabels
  \/ \E a \in AppAddrs : appLock[a] = Uninstaller /\ uninst[a] = "none"

\* Every request is answered, although its handler spins on TryLock against the
\* others and the check loop, unless the process ends or a deletion has left a
\* mutex locked for ever (server.go:20-140, repository.go:272, handler.go:217).
CallsReturn == \A c \in Callers : pc[c] # "idle" ~> pc[c] = "idle" \/ Abandoned

\* A check that started ends, whatever the clients do: the loop only tries
\* locks and its life cycles wait for nobody (handler.go:57-85).
TickFinishes == tick.at # "idle" ~> tick.at = "idle"

-----------------------------------------------------------------------------
(* What comments promise and the code does not do                          *)

\* "RepositoryConfig holds repository settings and slice of Application"
\* (repository.go:79): once the mutex is free, every slot holds one.
NoNilApps ==
  \A r \in RepoAddrs : repoLock[r] = Free => EmptySlots(r) = {}

\* "DeleteApplication deleting the application if it exists" (repository.go:253):
\* a request to delete is answered.
DeleteCompletes ==
  \A c \in AppCallers :
    req[c].op = "DeleteApplication" ~> req[c].op # "DeleteApplication"

=============================================================================
