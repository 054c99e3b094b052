----------------------------- MODULE WorkProofs -----------------------------
(***************************************************************************)
(* Who works on what, and who waits for whom, for every number of clients  *)
(* and objects.  On top of the two inductive invariants of                 *)
(* RepositoryHandlerProofs and SlotProofs: whose label tells whose mutex   *)
(* is held or has leaked (HolderInv), which repository an object belongs   *)
(* to (ObjectInv), and what the goroutines work on (GoInv).  As long as    *)
(* the clients work on different applications (Apart), in addition: whose  *)
(* name is in which slot (NameInv), and what the life cycles deliver       *)
(* (LifeListed).                                                           *)
(***************************************************************************)
EXTENDS SlotProofs, FiniteSetTheorems

-----------------------------------------------------------------------------
(* The holders of the mutexes                                              *)

RepoSideLabels == NewRepoLabels \cup HandlerLabels \cup {"DeleteRepository"}
AppSideLabels == Labels \ (RepoSideLabels \cup {"idle"})

Side(c) ==
  /\ pc[c] \in RepoSideLabels => c \in RepoCallers
  /\ pc[c] \in AppSideLabels => c \in AppCallers

\* The handler's mutex does not leak, nor does the one of a repository that the
\* check loop or a client of repositories has locked.
HandlerHolder ==
  /\ handlerLock \in Callers => pc[handlerLock] \in HandlerLabels
  /\ handlerLock = Ticker => tick.at # "idle"
RepoHolders ==
  \A r \in RepoAddrs :
    /\ repoLock[r] = Ticker => tick.at = "apps" /\ repos[tick.i] = r
    /\ repoLock[r] \in RepoCallers =>
         pc[repoLock[r]] \in RepoLabels /\ loc[repoLock[r]].repo = r

HolderInv == (\A c \in Callers : Side(c)) /\ HandlerHolder /\ RepoHolders

LEMMA PanicHolders ==
  ASSUME NEW cause, Panic(cause)
  PROVE  HolderInv'
<1>1. /\ \A c \in Callers : pc'[c] = "idle"
      /\ handlerLock' = Free /\ \A r \in RepoAddrs : repoLock'[r] = Free
  BY DEF Panic
<1>2. Free \notin RepoCallers
  BY Holders DEF Callers
<1> QED BY <1>1, <1>2, Holders DEF HolderInv, Side, HandlerHolder, RepoHolders, RepoSideLabels,
           NewRepoLabels, HandlerLabels, AppSideLabels

\* A step of a handler takes or gives back mutexes in its own name.
OwnHandlerLock(c) ==
  \/ handlerLock' = handlerLock /\ (pc[c] \in HandlerLabels => pc'[c] \in HandlerLabels)
  \/ handlerLock' = Free
  \/ handlerLock' = c /\ pc'[c] \in HandlerLabels
OwnRepoLock(c, r) ==
  \/ /\ repoLock'[r] = repoLock[r]
     /\ c \in RepoCallers /\ pc[c] \in RepoLabels /\ loc[c].repo = r =>
          pc'[c] \in RepoLabels /\ loc'[c].repo = r
  \/ repoLock'[r] = Free
  \/ repoLock'[r] = c /\ (c \in RepoCallers => pc'[c] \in RepoLabels /\ loc'[c].repo = r)
OwnLocks(c) ==
  /\ Others(c) /\ Side(c)' /\ tick' = tick
  /\ tick.at = "apps" => repos' = repos
  /\ OwnHandlerLock(c) /\ \A r \in RepoAddrs : OwnRepoLock(c, r)

LEMMA HandlerHolders ==
  ASSUME IInv, HolderInv, NEW c \in Callers, OwnLocks(c)
  PROVE  HolderInv'
<1> USE DEF OwnLocks, OwnHandlerLock, OwnRepoLock
<1>1. \A d \in Callers : Side(d)'
  BY DEF HolderInv, Side, Others
<1>2. HandlerHolder'
  BY Holders DEF HolderInv, HandlerHolder, Others
<1>3. RepoHolders'
  <2>1. RepoCallers \subseteq Callers /\ RepoCallers \cap AppCallers = {}
    BY DisjointAssumption DEF Callers
  <2> QED BY <2>1, Holders DEF HolderInv, RepoHolders, Others
<1> QED BY <1>1, <1>2, <1>3 DEF HolderInv

LEMMA AddRepositoryHolders ==
  ASSUME IInv, IInv', HolderInv, NEW c \in Callers, AddRepositoryStep(c)
  PROVE  HolderInv'
<1> USE DEF RepoSideLabels, AppSideLabels, NewRepoLabels, HandlerLabels, RepoLabels, Labels,
            repoVars, goVars, listVars
<1>0. /\ CallTypes /\ RegistryTypes /\ Side(c) /\ LocksHeld(c)
  BY DEF IInv, TypeOK, HolderInv, CallerInv
<1>1. ASSUME Return(c) PROVE Others(c) /\ pc'[c] = "idle" /\ Side(c)'
  BY <1>0, <1>1, ReturnEffect DEF Side
<1>2. CASE AddRepositoryCheck(c)
  <2>1. CASE Panic("nil dereference")
    BY <2>1, PanicHolders
  <2>2. CASE Return(c) /\ UNCHANGED <<handlerLock, listVars, repoVars, goVars>>
    <3>1. OwnLocks(c)
      BY <1>0, <1>1, <1>2, <2>2 DEF OwnLocks, OwnHandlerLock, OwnRepoLock, AddRepositoryCheck
    <3> QED BY <3>1, HandlerHolders
  <2>3. CASE Goto(c, "addRepoLock") /\ UNCHANGED <<handlerLock, listVars, repoVars, goVars>>
    <3>1. Others(c) /\ pc'[c] = "addRepoLock" /\ pc[c] = "AddRepository"
      BY <1>0, <1>2, <2>3, GotoEffect DEF AddRepositoryCheck
    <3>9. OwnLocks(c)
      BY <1>0, <2>3, <3>1 DEF OwnLocks, OwnHandlerLock, OwnRepoLock, Side
    <3> QED BY <3>9, HandlerHolders
  <2> QED BY <1>2, <2>1, <2>2, <2>3 DEF AddRepositoryCheck
<1>3. CASE AddRepositoryLock(c)
  <2>1. Others(c) /\ pc'[c] = "addRepoNew" /\ pc[c] = "addRepoLock"
    BY <1>0, <1>3, GotoEffect DEF AddRepositoryLock
  <2>9. OwnLocks(c)
    BY <1>0, <1>3, <2>1 DEF OwnLocks, OwnHandlerLock, OwnRepoLock, AddRepositoryLock, Side
  <2> QED BY <2>9, HandlerHolders
<1>4. CASE AddRepositoryRefuse(c)
  <2>1. OwnLocks(c)
    BY <1>0, <1>1, <1>4 DEF OwnLocks, OwnHandlerLock, OwnRepoLock, AddRepositoryRefuse
  <2> QED BY <2>1, HandlerHolders
<1>5. CASE AddRepositoryGrow(c)
  <2>1. /\ Others(c) /\ pc'[c] = "addRepoStore" /\ pc[c] = "addRepoNew" /\ loc'[c] = loc[c]
    BY <1>0, <1>5, GotoEffect DEF AddRepositoryGrow
  <2>2. \A r \in RepoAddrs : \/ repoLock'[r] = repoLock[r]
                             \/ repoLock'[r] = c /\ loc'[c].repo = r
    BY <1>0, <1>5, <2>1 DEF AddRepositoryGrow, RegistryTypes
  <2>3. Side(c)' /\ UNCHANGED <<tick, repos, handlerLock>>
    BY <1>0, <1>5, <2>1 DEF AddRepositoryGrow, Side
  <2>4. OwnLocks(c)
    BY <2>1, <2>2, <2>3 DEF OwnLocks, OwnHandlerLock, OwnRepoLock
  <2> QED BY <2>4, HandlerHolders
<1>6. CASE AddRepositoryStore(c)
  <2>1. tick.at # "apps"
    BY <1>0, <1>6, Holders DEF AddRepositoryStore, LocksHeld, IInv, CheckInv
  <2>9. OwnLocks(c)
    BY <1>0, <1>1, <1>6, <2>1 DEF OwnLocks, OwnHandlerLock, OwnRepoLock, AddRepositoryStore,
       RegistryTypes
  <2> QED BY <2>9, HandlerHolders
<1> QED BY <1>2, <1>3, <1>4, <1>5, <1>6 DEF AddRepositoryStep

LEMMA DeleteRepositoryHolders ==
  ASSUME IInv, IInv', HolderInv, NEW c \in Callers, DeleteRepositoryStep(c)
  PROVE  HolderInv'
<1> USE DEF RepoSideLabels, AppSideLabels, NewRepoLabels, HandlerLabels, RepoLabels, Labels,
            repoVars, goVars, listVars
<1>0. /\ CallTypes /\ RegistryTypes /\ Side(c) /\ LocksHeld(c)
  BY DEF IInv, TypeOK, HolderInv, CallerInv
<1>1. ASSUME Return(c) PROVE Others(c) /\ pc'[c] = "idle" /\ Side(c)'
  BY <1>0, <1>1, ReturnEffect DEF Side
<1>2. CASE DeleteRepositoryLock(c)
  <2>1. Others(c) /\ pc'[c] = "delRepoFind" /\ pc[c] = "DeleteRepository"
    BY <1>0, <1>2, GotoEffect DEF DeleteRepositoryLock
  <2>9. OwnLocks(c)
    BY <1>0, <1>2, <2>1 DEF OwnLocks, OwnHandlerLock, OwnRepoLock, DeleteRepositoryLock, Side
  <2> QED BY <2>9, HandlerHolders
<1>3. CASE DeleteRepositoryFind(c)
  <2>1. CASE Return(c) /\ handlerLock' = Free
    <3>1. OwnLocks(c)
      BY <1>0, <1>1, <1>3, <2>1 DEF OwnLocks, OwnHandlerLock, OwnRepoLock, DeleteRepositoryFind
    <3> QED BY <3>1, HandlerHolders
  <2>2. CASE pc' = [pc EXCEPT ![c] = "delRepoLock"] /\ UNCHANGED <<req, handlerLock>>
             /\ \E i : loc' = [loc EXCEPT ![c].idx = i, ![c].repo = repos[i]]
    <3>1. Others(c) /\ pc'[c] = "delRepoLock" /\ pc[c] = "delRepoFind"
      BY <1>0, <1>3, <2>2 DEF CallTypes, Others, DeleteRepositoryFind
    <3>2. OwnLocks(c)
      BY <1>0, <1>3, <2>2, <3>1 DEF OwnLocks, OwnHandlerLock, OwnRepoLock, DeleteRepositoryFind, Side
    <3> QED BY <3>2, HandlerHolders
  <2> QED BY <1>3, <2>1, <2>2 DEF DeleteRepositoryFind, Last
<1>4. CASE DeleteRepositorySpawn(c)
  <2>1. Others(c) /\ pc'[c] = "delRepoWait" /\ pc[c] = "delRepoLock" /\ loc'[c] = loc[c]
    BY <1>0, <1>4, GotoEffect DEF DeleteRepositorySpawn
  <2>2. \A r \in RepoAddrs : \/ repoLock'[r] = repoLock[r]
                             \/ repoLock'[r] = c /\ loc'[c].repo = r
    BY <1>0, <1>4, <2>1 DEF DeleteRepositorySpawn, RegistryTypes
  <2>3. Side(c)' /\ UNCHANGED <<tick, repos, handlerLock>>
    BY <1>0, <1>4, <2>1 DEF DeleteRepositorySpawn, Side
  <2>4. OwnLocks(c)
    BY <2>1, <2>2, <2>3 DEF OwnLocks, OwnHandlerLock, OwnRepoLock
  <2> QED BY <2>4, HandlerHolders
<1>5. CASE DeleteRepositoryNil(c)
  BY <1>5, PanicHolders DEF DeleteRepositoryNil
<1>6. CASE DeleteRepositoryRemove(c)
  <2>1. tick.at # "apps"
    BY <1>0, <1>6, Holders DEF DeleteRepositoryRemove, LocksHeld, IInv, CheckInv
  <2>9. OwnLocks(c)
    BY <1>0, <1>1, <1>6, <2>1 DEF OwnLocks, OwnHandlerLock, OwnRepoLock, DeleteRepositoryRemove,
       RegistryTypes
  <2> QED BY <2>9, HandlerHolders
<1> QED BY <1>2, <1>3, <1>4, <1>5, <1>6 DEF DeleteRepositoryStep

\* The clients of applications never touch the handler's mutex.
LEMMA ClientHolders ==
  ASSUME IInv, HolderInv, NEW c \in AppCallers, Others(c), Side(c)',
         UNCHANGED <<handlerLock, repos, tick>>, pc[c] \in AppSideLabels \cup {"idle"},
         \A r \in RepoAddrs : repoLock'[r] \in {repoLock[r], Free, c}
  PROVE  HolderInv'
<1>1. c \in Callers /\ pc[c] \notin HandlerLabels
  BY DEF Callers, AppSideLabels, RepoSideLabels, HandlerLabels
<1>2. RepoCallers \cap AppCallers = {}
  BY DisjointAssumption
<1>3. OwnLocks(c)
  BY <1>1, <1>2 DEF OwnLocks, OwnHandlerLock, OwnRepoLock
<1> QED BY <1>1, <1>3, HandlerHolders

LEMMA CallHolders ==
  ASSUME IInv, IInv', HolderInv, NEW c \in Callers, Call(c)
  PROVE  HolderInv'
<1> USE DEF RepoSideLabels, AppSideLabels, NewRepoLabels, HandlerLabels, RepoLabels, Labels
<1>0. /\ CallTypes /\ UNCHANGED <<handlerLock, repoLock, repos, tick>>
  BY DEF IInv, TypeOK, Call, CallAddRepository, CallDeleteRepository, repoVars, goVars,
         CallAddOrUpdateApplication, CallDeleteApplication, listVars
<1>1. ASSUME NEW op \in {"AddRepository", "DeleteRepository", "AddOrUpdateApplication",
                         "DeleteApplication"},
             NEW q, NEW l, q.op = op, Begin(c, q, l),
             \/ c \in RepoCallers /\ op \in {"AddRepository", "DeleteRepository"}
             \/ c \in AppCallers /\ op \in {"AddOrUpdateApplication", "DeleteApplication"}
      PROVE  HolderInv'
  <2>1. Others(c) /\ pc'[c] = op /\ pc[c] = "idle"
    BY <1>0, <1>1 DEF Begin, CallTypes, Others
  <2>2. Side(c)'
    BY <1>1, <2>1 DEF Side
  <2>3. OwnLocks(c)
    BY <1>0, <2>1, <2>2 DEF OwnLocks, OwnHandlerLock, OwnRepoLock
  <2> QED BY <2>3, HandlerHolders
<1>2. ASSUME c \in RepoCallers, CallAddRepository(c) PROVE HolderInv'
  <2>1. PICK name \in RepoNames, url \in URLs, r \in RepoAddrs :
          Begin(c, Request("AddRepository", name, url, Nil), Frame(r, Nil))
    BY <1>2 DEF CallAddRepository
  <2>2. Request("AddRepository", name, url, Nil).op = "AddRepository"
    BY DEF Request
  <2> QED BY <1>1, <1>2, <2>1, <2>2
<1>3. ASSUME c \in RepoCallers, CallDeleteRepository(c) PROVE HolderInv'
  <2>1. PICK name \in RepoNames : Begin(c, Request("DeleteRepository", name, Nil, Nil), NoLoc)
    BY <1>3 DEF CallDeleteRepository
  <2>2. Request("DeleteRepository", name, Nil, Nil).op = "DeleteRepository"
    BY DEF Request
  <2> QED BY <1>1, <1>3, <2>1, <2>2
<1>4. ASSUME c \in AppCallers, CallAddOrUpdateApplication(c) PROVE HolderInv'
  <2>1. PICK name \in AppNames, url \in URLs, s \in Settings, a \in AppAddrs :
          Begin(c, Request("AddOrUpdateApplication", name, url, s), Frame(Nil, a))
    BY <1>4 DEF CallAddOrUpdateApplication
  <2>2. Request("AddOrUpdateApplication", name, url, s).op = "AddOrUpdateApplication"
    BY DEF Request
  <2> QED BY <1>1, <1>4, <2>1, <2>2
<1>5. ASSUME c \in AppCallers, CallDeleteApplication(c) PROVE HolderInv'
  <2>1. PICK name \in AppNames, url \in URLs :
          Begin(c, Request("DeleteApplication", name, url, Nil), NoLoc)
    BY <1>5 DEF CallDeleteApplication
  <2>2. Request("DeleteApplication", name, url, Nil).op = "DeleteApplication"
    BY DEF Request
  <2> QED BY <1>1, <1>5, <2>1, <2>2
<1> QED BY <1>2, <1>3, <1>4, <1>5 DEF Call

\* A handler that works for a repository has just found it, or did before.
FindsRepo(c) ==
  pc'[c] \in MadeLabels =>
    /\ req'[c] = req[c]
    /\ \/ pc[c] \in MadeLabels /\ loc'[c].repo = loc[c].repo
       \/ /\ pc[c] = "AddOrUpdateApplication"
          /\ loc'[c].repo \in GetRepositoryConfig(req[c].url) \ {Nil}

\* A step of a handler of an application request, unless it panics.
ClientMoves(c) ==
  /\ Others(c) /\ TakesFree(c) /\ FindsRepo(c)
  /\ pc[c] \in AppSideLabels /\ pc'[c] \in AppSideLabels \cup {"idle"}
  /\ UNCHANGED <<serverState, handlerLock, repos, nRepos, config, goVars>>
  /\ \A r \in RepoAddrs : repoLock'[r] \in {repoLock[r], Free, c}

LEMMA FoundRepo ==
  ASSUME IInv, NEW c \in Callers,
         AddOrUpdateApplicationStep(c) \/ DeleteApplicationStep(c)
  PROVE  FindsRepo(c) \/ \E cause \in States : Panic(cause)
<1> USE DEF FindsRepo, MadeLabels, Labels, States
<1>0. CallTypes
  BY DEF IInv, TypeOK
<1>1. ASSUME NEW label \in Labels, Goto(c, label), pc[c] \in MadeLabels PROVE FindsRepo(c)
  BY <1>0, <1>1, GotoEffect
<1>2. ASSUME pc'[c] \notin MadeLabels PROVE FindsRepo(c)
  BY <1>2
<1>3. ASSUME Return(c) PROVE FindsRepo(c)
  BY <1>0, <1>3, ReturnEffect
<1>4. CASE AddOrUpdateApplication(c)
  <2>1. ASSUME NEW r \in GetRepositoryConfig(req[c].url) \ {Nil},
               loc' = [loc EXCEPT ![c].repo = r], UNCHANGED req, pc[c] = "AddOrUpdateApplication"
        PROVE  FindsRepo(c)
    BY <1>0, <2>1 DEF CallTypes, Locals
  <2>2. \/ Panic("nil dereference") \/ Return(c)
        \/ /\ UNCHANGED req /\ pc[c] = "AddOrUpdateApplication"
           /\ \E r \in GetRepositoryConfig(req[c].url) \ {Nil} : loc' = [loc EXCEPT ![c].repo = r]
    BY <1>4 DEF AddOrUpdateApplication
  <2> HIDE DEF FindsRepo
  <2> QED BY <1>3, <2>1, <2>2
<1>5. CASE AddOrUpdateScan(c)
  <2>1. CASE \E i : loc' = [loc EXCEPT ![c].idx = i] /\ UNCHANGED req
    BY <1>0, <1>5, <2>1 DEF AddOrUpdateScan, CallTypes, Locals
  <2> QED BY <1>1, <1>5, <2>1 DEF AddOrUpdateScan
<1>6. CASE AddOrUpdateCompare(c)
  BY <1>1, <1>3, <1>6 DEF AddOrUpdateCompare
<1>7. CASE AddApplicationNew(c) \/ AddApplicationGrow(c) \/ AddApplicationStore(c)
  BY <1>1, <1>3, <1>7 DEF AddApplicationNew, AddApplicationGrow, AddApplicationStore
<1>8. CASE UpdateLockRepo(c) \/ UpdateApp(c)
  BY <1>1, <1>3, <1>8 DEF UpdateLockRepo, UpdateApp
<1>9. CASE UpdateLockApp(c)
  <2>1. ASSUME NEW old, loc' = [loc EXCEPT ![c].old = old], UNCHANGED req, pc[c] = "updAppLock"
        PROVE  FindsRepo(c)
    BY <1>0, <2>1 DEF CallTypes, Locals
  <2> HIDE DEF FindsRepo
  <2> QED BY <1>9, <2>1 DEF UpdateLockApp
<1>10. CASE DeleteApplicationStep(c)
  <2>1. \/ Return(c) \/ \E cause \in States : Panic(cause)
        \/ \E label \in {"delAppScan", "delAppLock", "delAppLockApp", "delApp"} :
             pc' = [pc EXCEPT ![c] = label]
    BY <1>10 DEF DeleteApplicationStep, DeleteApplication, DeleteApplicationScan,
       DeleteApplicationLockRepo, DeleteApplicationLockApp, DeleteApplicationRemove, Goto
  <2>2. ASSUME NEW label \in {"delAppScan", "delAppLock", "delAppLockApp", "delApp"},
               pc' = [pc EXCEPT ![c] = label]
        PROVE  pc'[c] \notin MadeLabels
    BY <1>0, <2>2 DEF CallTypes
  <2> QED BY <1>2, <1>3, <2>1, <2>2
<1> QED BY <1>4, <1>5, <1>6, <1>7, <1>8, <1>9, <1>10 DEF AddOrUpdateApplicationStep

LEMMA ClientStep ==
  ASSUME IInv, NEW c \in Callers,
         AddOrUpdateApplicationStep(c) \/ DeleteApplicationStep(c)
  PROVE  ClientMoves(c) \/ \E cause \in States : Panic(cause)
<1> SUFFICES ASSUME FindsRepo(c)
             PROVE  ClientMoves(c) \/ \E cause \in States : Panic(cause)
  BY FoundRepo
<1> USE DEF ClientMoves, AppSideLabels, RepoSideLabels, NewRepoLabels, HandlerLabels, Labels,
            listVars, States, TakesFree, RepoLabels
<1>0. CallTypes /\ RegistryTypes
  BY DEF IInv, TypeOK
<1>1. ASSUME NEW label \in Labels, pc' = [pc EXCEPT ![c] = label], req' = req,
             \E r : loc' = [loc EXCEPT ![c].repo = r]
      PROVE  Others(c) /\ pc'[c] = label
  BY <1>0, <1>1 DEF CallTypes, Others
<1>2. ASSUME NEW label \in Labels, Goto(c, label)
      PROVE  Others(c) /\ pc'[c] = label /\ loc'[c] = loc[c]
  BY <1>0, <1>2, GotoEffect
<1>3. ASSUME Return(c) PROVE Others(c) /\ pc'[c] = "idle"
  BY <1>0, <1>3, ReturnEffect
<1>4. CASE AddOrUpdateApplication(c)
  BY <1>1, <1>3, <1>4 DEF AddOrUpdateApplication, repoVars
<1>5. CASE AddOrUpdateScan(c)
  <2>1. CASE \E i : /\ pc' = [pc EXCEPT ![c] = "updCompare"]
                    /\ loc' = [loc EXCEPT ![c].idx = i]
                    /\ UNCHANGED <<serverState, handlerLock, listVars, repoVars, req, goVars>>
    BY <1>0, <1>5, <2>1 DEF CallTypes, Others, AddOrUpdateScan, repoVars
  <2> QED BY <1>2, <1>5, <2>1 DEF AddOrUpdateScan, repoVars
<1>17. CASE AddOrUpdateCompare(c)
  BY <1>2, <1>3, <1>17 DEF AddOrUpdateCompare, repoVars
<1>6. CASE AddApplicationNew(c)
  BY <1>2, <1>3, <1>6 DEF AddApplicationNew, repoVars
<1>7. CASE AddApplicationGrow(c)
  BY <1>0, <1>2, <1>7 DEF AddApplicationGrow, RegistryTypes
<1>8. CASE AddApplicationStore(c)
  BY <1>0, <1>3, <1>8 DEF AddApplicationStore, RegistryTypes
<1>9. CASE UpdateLockRepo(c)
  BY <1>0, <1>2, <1>9 DEF UpdateLockRepo, RegistryTypes
<1>10. CASE UpdateLockApp(c)
  <2>1. CASE /\ pc' = [pc EXCEPT ![c] = "updApp"] /\ pc[c] = "updAppLock"
             /\ \E old : loc' = [loc EXCEPT ![c].old = old]
             /\ UNCHANGED <<serverState, handlerLock, listVars, repoVars, req, goVars>>
    BY <1>0, <2>1 DEF CallTypes, Locals, Others, repoVars
  <2> QED BY <1>10, <2>1 DEF UpdateLockApp
<1>11. CASE UpdateApp(c)
  BY <1>0, <1>3, <1>11 DEF UpdateApp, RegistryTypes
<1>12. CASE DeleteApplication(c)
  BY <1>1, <1>3, <1>12 DEF DeleteApplication, repoVars
<1>13. CASE DeleteApplicationScan(c)
  <2>1. CASE \E i, old : /\ pc' = [pc EXCEPT ![c] = "delAppLock"] /\ pc[c] = "delAppScan"
                         /\ loc' = [loc EXCEPT ![c].idx = i, ![c].old = old]
                         /\ UNCHANGED <<serverState, handlerLock, listVars, repoVars, req, goVars>>
    BY <1>0, <2>1 DEF CallTypes, Others, repoVars
  <2> QED BY <1>3, <1>13, <2>1 DEF DeleteApplicationScan, repoVars
<1>14. CASE DeleteApplicationLockRepo(c)
  BY <1>0, <1>2, <1>14 DEF DeleteApplicationLockRepo, RegistryTypes
<1>15. CASE DeleteApplicationLockApp(c)
  BY <1>2, <1>15 DEF DeleteApplicationLockApp, repoVars
<1>16. CASE DeleteApplicationRemove(c)
  BY <1>3, <1>16 DEF DeleteApplicationRemove
<1> QED BY <1>4, <1>5, <1>6, <1>7, <1>8, <1>9, <1>10, <1>11, <1>12, <1>13, <1>14, <1>15, <1>16,
           <1>17 DEF AddOrUpdateApplicationStep, DeleteApplicationStep

LEMMA ApplicationHolders ==
  ASSUME IInv, HolderInv, NEW c \in Callers,
         AddOrUpdateApplicationStep(c) \/ DeleteApplicationStep(c)
  PROVE  HolderInv'
<1>1. CASE ClientMoves(c)
  <2>1. c \in AppCallers /\ Side(c)'
    BY <1>1 DEF HolderInv, Side, ClientMoves, AppSideLabels, RepoSideLabels, NewRepoLabels,
       HandlerLabels
  <2>2. UNCHANGED <<handlerLock, repos, tick>>
    BY <1>1 DEF ClientMoves, goVars
  <2> QED BY <1>1, <2>1, <2>2, ClientHolders DEF ClientMoves
<1>2. CASE \E cause \in States : Panic(cause)
  BY <1>2, PanicHolders
<1> QED BY <1>1, <1>2, ClientStep

LEMMA BackgroundHolders ==
  ASSUME IInv, IInv', HolderInv,
         \/ \E a \in AppAddrs : GoroutineStep(a)
         \/ TickStep \/ ReadApplications \/ Restart \/ UNCHANGED vars
  PROVE  HolderInv'
<1> USE Holders DEF HolderInv, Side, HandlerHolder, RepoHolders
<1>0. RegistryTypes /\ CheckTypes /\ CheckInv /\ RepoCallers \subseteq Callers
  BY DEF IInv, TypeOK, Callers
<1>1. CASE UNCHANGED <<handlerLock, repoLock, repos, tick, callVars>>
  BY <1>1 DEF callVars
<1>2. CASE \E cause \in States : Panic(cause)
  BY <1>2, PanicHolders
<1>3. ASSUME NEW a \in AppAddrs, GoroutineStep(a) PROVE HolderInv'
  BY <1>1, <1>2, <1>3 DEF GoroutineStep, UninstallLock, UninstallDone, LifeDone, LifeUnlock,
     States, listVars, repoVars
<1>4. CASE TickStart
  BY <1>0, <1>4 DEF TickStart, callVars, repoVars, listVars, CheckInv
<1>5. CASE TickRepo
  BY <1>0, <1>5 DEF TickRepo, callVars, listVars, CheckInv, RegistryTypes, CheckTypes
<1>6. CASE TickApp
  <2>1. CASE Panic("nil dereference") \/ Panic("negative WaitGroup counter")
    BY <1>2, <2>1 DEF States
  <2>2. CASE tick' = [tick EXCEPT !.j = @ + 1]
             /\ UNCHANGED <<handlerLock, repoVars, listVars, callVars>>
    BY <1>0, <2>2 DEF callVars, repoVars, listVars, CheckTypes
  <2> QED BY <1>6, <2>1, <2>2 DEF TickApp
<1>7. CASE TickRepoDone
  BY <1>0, <1>7 DEF TickRepoDone, callVars, listVars, CheckInv, RegistryTypes, CheckTypes
<1>8. CASE TickWait
  BY <1>0, <1>8 DEF TickWait, callVars, repoVars, listVars, CheckInv
<1>9. CASE ReadApplications
  BY <1>2, <1>9 DEF ReadApplications, States
<1>10. CASE Restart \/ UNCHANGED vars
  BY <1>1, <1>10 DEF Restart, vars, repoVars, listVars, goVars
<1> QED BY <1>3, <1>4, <1>5, <1>6, <1>7, <1>8, <1>9, <1>10 DEF TickStep

LEMMA StepHolders ==
  ASSUME IInv, IInv', HolderInv, [Next]_vars
  PROVE  HolderInv'
BY AddRepositoryHolders, DeleteRepositoryHolders, CallHolders, ApplicationHolders,
   BackgroundHolders DEF Next, CallerStep

LEMMA InitHolders == Init => HolderInv
<1> SUFFICES ASSUME Init PROVE HolderInv
  OBVIOUS
<1>1. /\ \A c \in Callers : pc[c] = "idle"
      /\ handlerLock = Free /\ \A r \in RepoAddrs : repoLock[r] = Free
  BY DEF Init
<1>2. Free \notin RepoCallers
  BY Holders DEF Callers
<1> QED BY <1>1, <1>2, Holders DEF HolderInv, Side, HandlerHolder, RepoHolders, RepoSideLabels,
           NewRepoLabels, HandlerLabels, AppSideLabels

-----------------------------------------------------------------------------
(* The repository of an object                                             *)

Homes ==
  \A r \in RepoAddrs : \A i \in 1..nApps[r] :
    apps[r][i] # Nil => application[apps[r][i]].repo = r

\* What a handler knows of its new object, and of the one it found in a slot:
\* it is not garbage as long as a handler refers to it.
HomeInv(c) ==
  /\ loc[c].app # Nil => appLock[loc[c].app] = Free
  /\ pc[c] \in MadeLabels => application[loc[c].app].repo = loc[c].repo
  /\ pc[c] \in OldAppLabels =>
       /\ application[loc[c].old] # Nil /\ application[loc[c].old].repo = loc[c].repo
       /\ \A d \in Callers : loc[d].app # loc[c].old

\* A handler has left an application's mutex locked only if it has left the
\* one of its repository locked.
AppHolders ==
  \A a \in AppAddrs, d \in Callers :
    appLock[a] = d =>
      \/ pc[d] \in AppLabels /\ loc[d].old = a
      \/ application[a] # Nil /\ application[a].repo \in LeakedRepos

Garbage == \A a \in AppAddrs : application[a] = Nil => appLock[a] = Free

ObjectInv == Homes /\ (\A c \in Callers : HomeInv(c)) /\ AppHolders /\ Garbage

\* What DeleteRepository uninstalls stays in the slots of the repository that
\* it has locked, until it removes the repository.
Listed(a, r) == \E i \in 1..nApps[r] : apps[r][i] = a
Deleting ==
  \A a \in AppAddrs : uninst[a] # "none" =>
    \E c \in Callers : pc[c] = "delRepoWait" /\ Listed(a, loc[c].repo)

\* What a step of c does to the objects of the others and to their mutexes.
ObjectsGuarded(c) ==
  /\ \A a \in AppAddrs :
       \/ application'[a] = application[a] \/ a = loc[c].app
       \/ /\ pc[c] = "updApp" /\ a = loc[c].old /\ appLock'[a] = Free
          /\ \A d \in Callers \ {c} : loc[d].old # a
  /\ loc'[c].app \in {loc[c].app, Nil} \/ application[loc'[c].app] = Nil
  /\ \A a \in AppAddrs :
       \/ appLock'[a] \in {Free, appLock[a]}
       \/ /\ appLock'[a] = c /\ application'[a] # Nil
          /\ \A d \in Callers : loc[d].app # a
  /\ \A a \in AppAddrs :
       appLock'[a] = c =>
         \/ pc'[c] \in AppLabels /\ loc'[c].old = a
         \/ application'[a] # Nil /\ application'[a].repo \in LeakedRepos'
         \/ appLock[a] = c /\ ~ (pc[c] \in AppLabels /\ loc[c].old = a)

LEMMA StableHome ==
  ASSUME IInv, SInv, ObjectInv, NEW c \in Callers, NEW d \in Callers, d # c,
         Others(c), ObjectsGuarded(c)
  PROVE  HomeInv(d)'
<1> SUFFICES ASSUME NEW new, new = loc[d].app, NEW old, old = loc[d].old
             PROVE  HomeInv(d)'
  OBVIOUS
<1>1. /\ pc'[d] = pc[d] /\ req'[d] = req[d] /\ loc'[d] = loc[d]
      /\ HomeInv(d) /\ HomeInv(c) /\ OwnInv(d) /\ OwnInv(c)
      /\ new \in AppAddrs \cup {Nil} /\ old \in AppAddrs \cup {Nil}
      /\ loc[c].old \in AppAddrs \cup {Nil}
  BY DEF Others, SInv, ObjectInv, IInv, TypeOK, CallTypes, Locals
<1>2. new # Nil => appLock'[new] = Free
  BY <1>1 DEF ObjectsGuarded, HomeInv
<1>3. ASSUME pc[d] \in MadeLabels PROVE application'[new].repo = loc[d].repo
  <2>1. new \in AppAddrs /\ new # loc[c].app /\ application[new].repo = loc[d].repo
    BY <1>1, <1>3, Nils DEF OwnInv, HomeInv
  <2>2. pc[c] = "updApp" => new # loc[c].old
    BY <1>1 DEF HomeInv, OldAppLabels
  <2> QED BY <2>1, <2>2 DEF ObjectsGuarded
<1>4. ASSUME pc[d] \in OldAppLabels
      PROVE  /\ application'[old] # Nil /\ application'[old].repo = loc[d].repo
             /\ \A e \in Callers : loc'[e].app # old
  <2>1. /\ old \in AppAddrs /\ application[old] # Nil /\ application[old].repo = loc[d].repo
        /\ \A e \in Callers : loc[e].app # old
    BY <1>1, <1>4 DEF HomeInv, IInv, CallerInv, AppKnown
  <2>2. application'[old] = application[old]
    BY <2>1 DEF ObjectsGuarded
  <2>3. loc'[c].app # old
    BY <2>1, Nils DEF ObjectsGuarded
  <2> QED BY <2>1, <2>2, <2>3 DEF Others
<1> QED BY <1>1, <1>2, <1>3, <1>4 DEF HomeInv

LEMMA StableHolders ==
  ASSUME IInv, SInv, ObjectInv, NEW c \in Callers,
         Others(c), ObjectsGuarded(c), LeakedRepos \subseteq LeakedRepos'
  PROVE  AppHolders'
<1> SUFFICES ASSUME NEW a \in AppAddrs, NEW d \in Callers, appLock'[a] = d,
                    d = c => appLock[a] = c /\ ~ (pc[c] \in AppLabels /\ loc[c].old = a)
             PROVE  \/ pc'[d] \in AppLabels /\ loc'[d].old = a
                    \/ application'[a] # Nil /\ application'[a].repo \in LeakedRepos'
  BY DEF AppHolders, ObjectsGuarded
<1>1. appLock[a] = d
  BY Holders DEF ObjectsGuarded
<1>2. CASE pc[d] \in AppLabels /\ loc[d].old = a
  BY <1>2 DEF Others
<1>3. CASE application[a] # Nil /\ application[a].repo \in LeakedRepos
  <2>1. a # loc[c].app
    BY <1>1, Nils, Holders DEF ObjectInv, HomeInv
  <2>2. d # Free
    BY Holders
  <2> QED BY <1>3, <2>1, <2>2 DEF ObjectsGuarded
<1> QED BY <1>1, <1>2, <1>3 DEF ObjectInv, AppHolders

LEMMA StableGarbage ==
  ASSUME ObjectInv, NEW c \in Callers, ObjectsGuarded(c)
  PROVE  Garbage'
<1> SUFFICES ASSUME NEW a \in AppAddrs, application'[a] = Nil
             PROVE  appLock'[a] = Free
  BY DEF Garbage
<1>1. CASE application[a] = Nil \/ a = loc[c].app
  <2>1. appLock[a] = Free
    BY <1>1, Nils DEF ObjectInv, Garbage, HomeInv
  <2> QED BY <2>1 DEF ObjectsGuarded
<1>2. CASE application[a] # Nil /\ a # loc[c].app
  BY <1>2 DEF ObjectsGuarded
<1> QED BY <1>1, <1>2

LEMMA HandlerObjects ==
  ASSUME IInv, SInv, ObjectInv, NEW c \in Callers, Others(c), ObjectsGuarded(c),
         LeakedRepos \subseteq LeakedRepos', Homes', HomeInv(c)'
  PROVE  ObjectInv'
BY StableHome, StableHolders, StableGarbage DEF ObjectInv

LEMMA PanicObjects ==
  ASSUME NEW cause, Panic(cause)
  PROVE  ObjectInv'
<1>1. /\ \A r \in RepoAddrs : nApps'[r] = 0
      /\ \A a \in AppAddrs : appLock'[a] = Free
      /\ \A c \in Callers : pc'[c] = "idle" /\ loc'[c].app = Nil
  BY DEF Panic, NoLoc, Frame
<1> QED BY <1>1, Holders DEF ObjectInv, Homes, HomeInv, AppHolders, Garbage, MadeLabels,
           OldAppLabels

LEMMA InitObjects == Init => ObjectInv
<1> SUFFICES ASSUME Init PROVE ObjectInv
  OBVIOUS
<1>1. /\ \A r \in RepoAddrs : nApps[r] = 0
      /\ \A a \in AppAddrs : appLock[a] = Free
      /\ \A c \in Callers : pc[c] = "idle" /\ loc[c].app = Nil
  BY DEF Init, NoLoc, Frame
<1> QED BY <1>1, Holders DEF ObjectInv, Homes, HomeInv, AppHolders, Garbage, MadeLabels,
           OldAppLabels

LEMMA ListedHome ==
  ASSUME IInv, SInv, ObjectInv, NEW r \in RepoAddrs, NEW i \in 1..nApps[r],
         NEW a, a = apps[r][i], a # Nil
  PROVE  /\ a \in AppAddrs /\ application[a] # Nil /\ application[a].repo = r
         /\ \A d \in Callers : loc[d].app # a
BY ListedObject DEF ObjectInv, Homes, SInv, ListInv, Made

\* The check loop and an uninstallation lock what is in a slot.
LocksListed(a) ==
  \/ appLock'[a] \in {Free, appLock[a]}
  \/ application[a] # Nil /\ \A d \in Callers : loc[d].app # a

LEMMA BackgroundLocks ==
  ASSUME IInv, SInv, ObjectInv, Deleting,
         \/ \E a \in AppAddrs : GoroutineStep(a)
         \/ TickStep \/ ReadApplications \/ Restart \/ UNCHANGED vars
  PROVE  \/ \E cause \in States : Panic(cause)
         \/ \A a \in AppAddrs : LocksListed(a)
<1> USE DEF LocksListed
<1>0. RegistryTypes
  BY DEF IInv, TypeOK
<1>1. ASSUME NEW a \in AppAddrs, UninstallLock(a)
      PROVE  /\ application[a] # Nil /\ \A d \in Callers : loc[d].app # a
             /\ \A b \in AppAddrs : b # a => appLock'[b] = appLock[b]
  <2>1. PICK c \in Callers : pc[c] = "delRepoWait" /\ Listed(a, loc[c].repo)
    BY <1>1 DEF UninstallLock, Deleting
  <2>2. loc[c].repo \in RepoAddrs /\ a # Nil
    BY <2>1, HeldRepo, Nils DEF RepoLabels
  <2>3. application[a] # Nil /\ \A d \in Callers : loc[d].app # a
    BY <2>1, <2>2, ListedHome DEF Listed
  <2> QED BY <1>0, <1>1, <2>3 DEF UninstallLock, RegistryTypes
<1>2. ASSUME NEW a \in AppAddrs, UninstallDone(a) \/ LifeDone(a) \/ LifeUnlock(a)
      PROVE  \/ \E cause \in States : Panic(cause)
             \/ \A b \in AppAddrs : appLock'[b] \in {Free, appLock[b]}
  BY <1>0, <1>2 DEF UninstallDone, LifeDone, LifeUnlock, RegistryTypes, appVars, States
<1>3. ASSUME TickApp, ~ \E cause \in States : Panic(cause), NEW a \in AppAddrs
      PROVE  LocksListed(a)
  <2> SUFFICES ASSUME NEW r, r = repos[tick.i], NEW b, b = apps[r][tick.j]
               PROVE  LocksListed(a)
    OBVIOUS
  <2>1. r \in RepoAddrs /\ tick.j \in 1..nApps[r]
    <3>1. r \in RepoAddrs
      BY <1>3 DEF TickApp, IInv, CheckInv
    <3>2. tick.j \in Nat \ {0} /\ tick.j <= nApps[r]
      BY <1>3 DEF TickApp, IInv, TypeOK, CheckTypes
    <3> QED BY <3>1, <3>2, Slots
  <2>2. CASE b \in AppAddrs /\ appLock' = [appLock EXCEPT ![b] = LifeCycle]
    <3>1. application[b] # Nil /\ \A d \in Callers : loc[d].app # b
      BY <2>1, <2>2, ListedHome, Nils
    <3> QED BY <1>0, <2>2, <3>1 DEF RegistryTypes
  <2> QED BY <1>3, <2>2 DEF TickApp, States, appVars
<1>4. CASE TickStart \/ TickRepo \/ TickRepoDone \/ TickWait
  BY <1>4 DEF TickStart, TickRepo, TickRepoDone, TickWait, appVars
<1>5. CASE ReadApplications
  BY <1>5 DEF ReadApplications, States
<1>6. CASE Restart \/ UNCHANGED vars
  BY <1>6 DEF Restart, vars, appVars
<1> QED BY <1>1, <1>2, <1>3, <1>4, <1>5, <1>6 DEF GoroutineStep, TickStep

LEMMA BackgroundObjects ==
  ASSUME IInv, SInv, ObjectInv, Deleting,
         \/ \E a \in AppAddrs : GoroutineStep(a)
         \/ TickStep \/ ReadApplications \/ Restart \/ UNCHANGED vars
  PROVE  ObjectInv'
<1>1. CASE BackgroundMoves /\ \A a \in AppAddrs : LocksListed(a)
  <2>1. LeakedRepos \subseteq LeakedRepos'
    BY <1>1, Holders DEF BackgroundMoves, LeakedRepos, callVars
  <2>2. \A a \in AppAddrs : appLock'[a] = appLock[a] \/ appLock'[a] \notin Callers
    BY <1>1, Holders DEF BackgroundMoves
  <2>3. \A c \in Callers : loc[c].app \in AppAddrs \cup {Nil}
    BY DEF IInv, TypeOK, CallTypes, Locals
  <2>4. Homes' /\ AppHolders'
    BY <1>1, <2>1, <2>2 DEF BackgroundMoves, ObjectInv, Homes, AppHolders, callVars
  <2>5. ASSUME NEW c \in Callers PROVE HomeInv(c)'
    BY <1>1, <2>3 DEF BackgroundMoves, LocksListed, ObjectInv, HomeInv, callVars
  <2>6. Garbage'
    BY <1>1 DEF BackgroundMoves, LocksListed, ObjectInv, Garbage
  <2> QED BY <2>4, <2>5, <2>6 DEF ObjectInv
<1>2. CASE \E cause \in States : Panic(cause)
  BY <1>2, PanicObjects
<1> QED BY <1>1, <1>2, BackgroundQuiet, BackgroundLocks

\* The handler keeps or drops its new object, or is given one by its request;
\* what it found is what it knew, or is in a slot now; and if it leaves the
\* critical section of an application, the mutex has leaked.
KeepsObjects(c) ==
  /\ UNCHANGED <<application, appLock>>
  /\ \/ loc'[c].app \in {loc[c].app, Nil}
     \/ loc'[c].app \in AppAddrs /\ application[loc'[c].app] = Nil
  /\ pc'[c] \in MadeLabels =>
       pc[c] \in MadeLabels /\ loc'[c].app = loc[c].app /\ loc'[c].repo = loc[c].repo
  /\ pc'[c] \in OldAppLabels =>
       \/ pc[c] \in OldAppLabels /\ loc'[c].old = loc[c].old /\ loc'[c].repo = loc[c].repo
       \/ /\ loc'[c].repo \in RepoAddrs /\ loc'[c].old # Nil
          /\ \E i \in 1..nApps[loc'[c].repo] : apps[loc'[c].repo][i] = loc'[c].old
  /\ pc[c] \in AppLabels => loc[c].repo \in LeakedRepos'

LEMMA QuietObjects ==
  ASSUME IInv, SInv, ObjectInv, NEW c \in Callers, Others(c), TakesFree(c), KeepsObjects(c),
         Homes'
  PROVE  ObjectInv'
<1> SUFFICES ASSUME NEW new, new = loc'[c].app, NEW old, old = loc'[c].old,
                    NEW r, r = loc'[c].repo
             PROVE  ObjectInv'
  OBVIOUS
<1>0. HomeInv(c) /\ OwnInv(c) /\ UNCHANGED <<application, appLock>>
  BY DEF ObjectInv, SInv, KeepsObjects
<1>1. LeakedRepos \subseteq LeakedRepos'
  BY StaysLeaked
<1>2. ObjectsGuarded(c)
  <2>1. ASSUME NEW a \in AppAddrs, appLock[a] = c
        PROVE  \/ application'[a] # Nil /\ application'[a].repo \in LeakedRepos'
               \/ appLock[a] = c /\ ~ (pc[c] \in AppLabels /\ loc[c].old = a)
    <3>1. CASE pc[c] \in AppLabels /\ loc[c].old = a
      <4>1. application[a] # Nil /\ application[a].repo = loc[c].repo
        BY <1>0, <3>1 DEF HomeInv, AppLabels, OldAppLabels
      <4> QED BY <1>0, <3>1, <4>1 DEF KeepsObjects
    <3> QED BY <2>1, <3>1
  <2>2. loc'[c].app \in {loc[c].app, Nil} \/ application[loc'[c].app] = Nil
    BY DEF KeepsObjects
  <2> QED BY <1>0, <2>1, <2>2 DEF ObjectsGuarded
<1>3. HomeInv(c)'
  <2>1. new # Nil => appLock[new] = Free
    BY <1>0 DEF KeepsObjects, HomeInv, ObjectInv, Garbage
  <2>2. pc'[c] \in MadeLabels => application[new].repo = r
    BY <1>0 DEF KeepsObjects, HomeInv
  <2>3. ASSUME pc'[c] \in OldAppLabels
        PROVE  /\ application[old] # Nil /\ application[old].repo = r
               /\ \A d \in Callers : loc[d].app # old
    <3>1. CASE pc[c] \in OldAppLabels /\ old = loc[c].old /\ r = loc[c].repo
      BY <1>0, <3>1 DEF HomeInv
    <3>2. CASE /\ r \in RepoAddrs /\ old # Nil
               /\ \E i \in 1..nApps[r] : apps[r][i] = old
      BY <3>2, ListedHome
    <3> QED BY <2>3, <3>1, <3>2 DEF KeepsObjects
  <2>4. ASSUME pc'[c] \in OldAppLabels PROVE \A d \in Callers : loc'[d].app # old
    <3>1. old \in AppAddrs
      <4>1. IInv /\ (pc[c] \in OldAppLabels => loc[c].old \in AppAddrs)
        BY DEF IInv, CallerInv, AppKnown
      <4> QED BY <2>4, <4>1, ListedHome DEF KeepsObjects
    <3>2. application[old] # Nil /\ \A d \in Callers : loc[d].app # old
      BY <2>3, <2>4
    <3>3. loc'[c].app # old
      BY <3>1, <3>2, Nils DEF KeepsObjects
    <3> QED BY <3>2, <3>3 DEF Others
  <2> QED BY <1>0, <2>1, <2>2, <2>3, <2>4 DEF HomeInv
<1> QED BY <1>1, <1>2, <1>3, HandlerObjects

-----------------------------------------------------------------------------
(* The objects along the steps of the handlers                             *)

\* A step of a handler of a repository request, unless it panics.
RepositoryMoves(c) ==
  /\ Others(c) /\ TakesFree(c)
  /\ pc[c] \in RepoSideLabels /\ pc'[c] \in RepoSideLabels \cup {"idle"}
  /\ UNCHANGED <<serverState, apps, nApps, application, appLock, tick, life, wg>>
  /\ loc'[c].app \in {loc[c].app, Nil}

LEMMA RepositoryStep ==
  ASSUME IInv, NEW c \in Callers, AddRepositoryStep(c) \/ DeleteRepositoryStep(c)
  PROVE  RepositoryMoves(c) \/ \E cause \in States : Panic(cause)
<1> USE DEF RepositoryMoves, RepoSideLabels, NewRepoLabels, HandlerLabels, RepoLabels, Labels,
            repoVars, appVars, goVars, States, TakesFree
<1>0. CallTypes /\ RegistryTypes
  BY DEF IInv, TypeOK
<1>1. ASSUME NEW label \in Labels, Goto(c, label)
      PROVE  Others(c) /\ pc'[c] = label /\ loc'[c] = loc[c]
  BY <1>0, <1>1, GotoEffect
<1>2. ASSUME Return(c) PROVE Others(c) /\ pc'[c] = "idle" /\ loc'[c].app = Nil
  BY <1>2, ReturnSlots
<1>3. CASE AddRepositoryCheck(c)
  BY <1>1, <1>2, <1>3 DEF AddRepositoryCheck
<1>4. CASE AddRepositoryLock(c)
  BY <1>1, <1>4 DEF AddRepositoryLock
<1>5. CASE AddRepositoryRefuse(c)
  BY <1>2, <1>5 DEF AddRepositoryRefuse
<1>6. CASE AddRepositoryGrow(c)
  <2>1. repoLock[loc[c].repo] = Free
    BY <1>6 DEF AddRepositoryGrow, IInv, CallerInv, RepoKnown, RegistryInv
  <2> QED BY <1>0, <1>1, <1>6, <2>1 DEF AddRepositoryGrow, RegistryTypes
<1>7. CASE AddRepositoryStore(c)
  BY <1>0, <1>2, <1>7 DEF AddRepositoryStore, RegistryTypes
<1>8. CASE DeleteRepositoryLock(c)
  BY <1>1, <1>8 DEF DeleteRepositoryLock
<1>9. CASE DeleteRepositoryFind(c)
  <2>1. CASE \E i : /\ pc' = [pc EXCEPT ![c] = "delRepoLock"]
                    /\ loc' = [loc EXCEPT ![c].idx = i, ![c].repo = repos[i]]
                    /\ UNCHANGED req
    <3>1. Others(c) /\ pc'[c] = "delRepoLock" /\ loc'[c].app = loc[c].app
      BY <1>0, <2>1 DEF CallTypes, Locals, Others
    <3> QED BY <1>9, <3>1 DEF DeleteRepositoryFind
  <2> QED BY <1>2, <1>9, <2>1 DEF DeleteRepositoryFind
<1>10. CASE DeleteRepositorySpawn(c)
  BY <1>0, <1>1, <1>10 DEF DeleteRepositorySpawn, RegistryTypes
<1>11. CASE DeleteRepositoryNil(c)
  BY <1>11 DEF DeleteRepositoryNil
<1>12. CASE DeleteRepositoryRemove(c)
  BY <1>0, <1>2, <1>12 DEF DeleteRepositoryRemove, RegistryTypes
<1> QED BY <1>3, <1>4, <1>5, <1>6, <1>7, <1>8, <1>9, <1>10, <1>11, <1>12
        DEF AddRepositoryStep, DeleteRepositoryStep

\* The arrival of a request.
CallMoves(c) ==
  /\ Others(c) /\ TakesFree(c)
  /\ pc[c] = "idle"
  /\ pc'[c] \in {"AddRepository", "DeleteRepository", "AddOrUpdateApplication", "DeleteApplication"}
  /\ UNCHANGED <<serverState, handlerLock, listVars, repoVars, appVars, goVars>>
  /\ \/ loc'[c].app = Nil
     \/ loc'[c].app \in AppAddrs /\ application[loc'[c].app] = Nil

LEMMA CallStep ==
  ASSUME IInv, NEW c \in Callers, Call(c)
  PROVE  CallMoves(c)
<1>0. /\ CallTypes
      /\ UNCHANGED <<serverState, handlerLock, listVars, repoVars, appVars, goVars>>
  BY DEF IInv, TypeOK, Call, CallAddRepository, CallDeleteRepository,
         CallAddOrUpdateApplication, CallDeleteApplication
<1>1. ASSUME NEW q, NEW l, Begin(c, q, l), q.op = "AddOrUpdateApplication",
             l.app \in AppAddrs, application[l.app] = Nil
      PROVE  CallMoves(c)
  BY <1>0, <1>1 DEF Begin, CallTypes, Others, TakesFree, CallMoves, repoVars, RepoLabels
<1>2. ASSUME NEW q, NEW l, Begin(c, q, l), l.app = Nil,
             q.op \in {"AddRepository", "DeleteRepository", "DeleteApplication"}
      PROVE  CallMoves(c)
  BY <1>0, <1>2 DEF Begin, CallTypes, Others, TakesFree, CallMoves, repoVars, RepoLabels
<1>3. CASE CallAddRepository(c)
  <2>1. PICK name \in RepoNames, url \in URLs, r \in RepoAddrs :
          Begin(c, Request("AddRepository", name, url, Nil), Frame(r, Nil))
    BY <1>3 DEF CallAddRepository
  <2>2. /\ Request("AddRepository", name, url, Nil).op = "AddRepository"
        /\ Frame(r, Nil).app = Nil
    BY DEF Request, Frame
  <2> QED BY <1>2, <2>1, <2>2
<1>4. CASE CallDeleteRepository(c)
  <2>1. PICK name \in RepoNames : Begin(c, Request("DeleteRepository", name, Nil, Nil), NoLoc)
    BY <1>4 DEF CallDeleteRepository
  <2>2. Request("DeleteRepository", name, Nil, Nil).op = "DeleteRepository" /\ NoLoc.app = Nil
    BY DEF Request, NoLoc, Frame
  <2> QED BY <1>2, <2>1, <2>2
<1>5. CASE CallAddOrUpdateApplication(c)
  <2>1. PICK name \in AppNames, url \in URLs, s \in Settings, a \in AppAddrs :
          /\ application[a] = Nil
          /\ Begin(c, Request("AddOrUpdateApplication", name, url, s), Frame(Nil, a))
    BY <1>5 DEF CallAddOrUpdateApplication
  <2>2. /\ Request("AddOrUpdateApplication", name, url, s).op = "AddOrUpdateApplication"
        /\ Frame(Nil, a).app = a
    BY DEF Request, Frame
  <2> QED BY <1>1, <2>1, <2>2
<1>6. CASE CallDeleteApplication(c)
  <2>1. PICK name \in AppNames, url \in URLs :
          Begin(c, Request("DeleteApplication", name, url, Nil), NoLoc)
    BY <1>6 DEF CallDeleteApplication
  <2>2. Request("DeleteApplication", name, url, Nil).op = "DeleteApplication" /\ NoLoc.app = Nil
    BY DEF Request, NoLoc, Frame
  <2> QED BY <1>2, <2>1, <2>2
<1> QED BY <1>3, <1>4, <1>5, <1>6 DEF Call

LEMMA MoveObjects ==
  ASSUME IInv, SInv, ObjectInv, NEW c \in Callers,
         Call(c) \/ AddRepositoryStep(c) \/ DeleteRepositoryStep(c)
  PROVE  ObjectInv'
<1> USE DEF RepoSideLabels, NewRepoLabels, HandlerLabels, MadeLabels, OldAppLabels, AppLabels
<1>1. CASE RepositoryMoves(c)
  <2>1. KeepsObjects(c) /\ Homes'
    BY <1>1 DEF RepositoryMoves, KeepsObjects, ObjectInv, Homes
  <2> QED BY <1>1, <2>1, QuietObjects DEF RepositoryMoves
<1>2. CASE CallMoves(c)
  <2>1. KeepsObjects(c) /\ Homes'
    BY <1>2 DEF CallMoves, KeepsObjects, ObjectInv, Homes, repoVars, appVars
  <2> QED BY <1>2, <2>1, QuietObjects DEF CallMoves
<1>3. CASE \E cause \in States : Panic(cause)
  BY <1>3, PanicObjects
<1> QED BY <1>1, <1>2, <1>3, RepositoryStep, CallStep

\* The request becomes a new Application of the repository that was found.
LEMMA MakeObjects ==
  ASSUME IInv, SInv, ObjectInv, NEW c \in Callers, ClientMoves(c), AddOrUpdateApplication(c)
  PROVE  ObjectInv'
<1> USE DEF MadeLabels, OldAppLabels, AppLabels
<1>0. /\ CallTypes /\ RegistryTypes /\ Others(c) /\ TakesFree(c)
      /\ pc[c] = "AddOrUpdateApplication" /\ OwnInv(c) /\ AppKnown(c) /\ HomeInv(c)
  BY DEF IInv, TypeOK, CallerInv, SInv, ObjectInv, ClientMoves, AddOrUpdateApplication
<1>1. CASE Panic("nil dereference")
  BY <1>1, PanicObjects
<1>2. CASE Return(c) /\ UNCHANGED <<repoVars, appVars>>
  <2>1. pc'[c] = "idle" /\ loc'[c].app = Nil
    BY <1>2, ReturnSlots
  <2>2. KeepsObjects(c) /\ Homes'
    BY <1>0, <1>2, <2>1 DEF KeepsObjects, ObjectInv, Homes, repoVars, appVars
  <2> QED BY <1>0, <2>2, QuietObjects
<1>3. CASE /\ \E r \in GetRepositoryConfig(req[c].url) \ {Nil} :
                /\ loc' = [loc EXCEPT ![c].repo = r]
                /\ application' = [application EXCEPT ![loc[c].app] =
                     [repo |-> r, name |-> req[c].name, settings |-> req[c].settings]]
           /\ pc' = [pc EXCEPT ![c] = "updScan"]
           /\ UNCHANGED <<repoVars, appLock>>
  <2>1. PICK r \in GetRepositoryConfig(req[c].url) \ {Nil} :
          /\ loc' = [loc EXCEPT ![c].repo = r]
          /\ application' = [application EXCEPT ![loc[c].app] =
               [repo |-> r, name |-> req[c].name, settings |-> req[c].settings]]
    BY <1>3
  <2>2. /\ pc'[c] = "updScan" /\ loc'[c].repo = r /\ loc'[c].app = loc[c].app
        /\ loc[c].app \in AppAddrs /\ application'[loc[c].app].repo = r
        /\ \A a \in AppAddrs : a # loc[c].app => application'[a] = application[a]
    BY <1>0, <1>3, <2>1 DEF CallTypes, RegistryTypes, Locals, OwnInv
  <2>3. ObjectsGuarded(c)
    BY <1>0, <1>3, <2>2 DEF ObjectsGuarded
  <2>4. HomeInv(c)'
    BY <1>0, <1>3, <2>2 DEF HomeInv
  <2>5. Homes'
    BY <1>3, <2>2, ListedObject DEF ObjectInv, Homes, repoVars
  <2> QED BY <1>0, <2>3, <2>4, <2>5, StaysLeaked, HandlerObjects
<1> QED BY <1>1, <1>2, <1>3 DEF AddOrUpdateApplication, appVars

\* A handler that drops its object and answers.
LEMMA DropObjects ==
  ASSUME IInv, SInv, ObjectInv, NEW c \in Callers, ClientMoves(c), Return(c),
         Drop({loc[c].app}), UNCHANGED <<apps, nApps, appLock>>, pc[c] \notin AppLabels
  PROVE  ObjectInv'
<1>1. /\ pc'[c] = "idle" /\ loc'[c].app = Nil /\ Others(c)
      /\ LeakedRepos \subseteq LeakedRepos'
  BY ReturnSlots, StaysLeaked DEF ClientMoves
<1>2. \A a \in AppAddrs : a # loc[c].app => application'[a] = application[a]
  BY DEF Drop
<1>3. ObjectsGuarded(c)
  BY <1>1, <1>2 DEF ObjectsGuarded
<1>4. HomeInv(c)'
  BY <1>1 DEF HomeInv, MadeLabels, OldAppLabels
<1>5. Homes'
  BY <1>2, ListedObject DEF ObjectInv, Homes
<1> QED BY <1>1, <1>3, <1>4, <1>5, HandlerObjects

LEMMA ScanObjects ==
  ASSUME IInv, SInv, ObjectInv, NEW c \in Callers, ClientMoves(c), AddOrUpdateScan(c)
  PROVE  ObjectInv'
<1> USE DEF MadeLabels, OldAppLabels, AppLabels
<1>0. CallTypes /\ Others(c) /\ TakesFree(c) /\ pc[c] = "updScan"
  BY DEF IInv, TypeOK, ClientMoves, AddOrUpdateScan
<1>1. CASE Goto(c, "addAppNew") /\ UNCHANGED <<repoVars, appVars>>
  <2>1. pc'[c] = "addAppNew" /\ loc'[c] = loc[c]
    BY <1>0, <1>1, GotoEffect DEF Labels
  <2>2. KeepsObjects(c) /\ Homes'
    BY <1>0, <1>1, <2>1 DEF KeepsObjects, ObjectInv, Homes, repoVars, appVars
  <2> QED BY <1>0, <2>2, QuietObjects
<1>2. CASE Panic("nil dereference")
  BY <1>2, PanicObjects
<1>3. CASE \E i : /\ pc' = [pc EXCEPT ![c] = "updCompare"]
                  /\ loc' = [loc EXCEPT ![c].idx = i]
                  /\ UNCHANGED <<repoVars, appVars>>
  <2>1. /\ pc'[c] = "updCompare"
        /\ loc'[c].repo = loc[c].repo /\ loc'[c].app = loc[c].app
    BY <1>0, <1>3 DEF CallTypes, Locals
  <2>2. KeepsObjects(c) /\ Homes'
    BY <1>0, <1>3, <2>1 DEF KeepsObjects, ObjectInv, Homes, repoVars, appVars
  <2> QED BY <1>0, <2>2, QuietObjects
<1> QED BY <1>1, <1>2, <1>3 DEF AddOrUpdateScan, appVars

LEMMA CompareObjects ==
  ASSUME IInv, SInv, ObjectInv, NEW c \in Callers, ClientMoves(c), AddOrUpdateCompare(c)
  PROVE  ObjectInv'
<1> USE DEF MadeLabels, OldAppLabels, AppLabels
<1>0. CallTypes /\ Others(c) /\ TakesFree(c) /\ pc[c] = "updCompare"
  BY DEF IInv, TypeOK, ClientMoves, AddOrUpdateCompare
<1>1. CASE Goto(c, "updRepoLock") /\ UNCHANGED <<repoVars, appVars>>
  <2>1. pc'[c] = "updRepoLock" /\ loc'[c] = loc[c]
    BY <1>0, <1>1, GotoEffect DEF Labels
  <2>2. KeepsObjects(c) /\ Homes'
    BY <1>0, <1>1, <2>1 DEF KeepsObjects, ObjectInv, Homes, repoVars, appVars
  <2> QED BY <1>0, <2>2, QuietObjects
<1>2. CASE Panic("index out of range")
  BY <1>2, PanicObjects
<1>3. CASE Drop({loc[c].app}) /\ Return(c) /\ UNCHANGED <<repoVars, appLock>>
  BY <1>0, <1>3, DropObjects DEF repoVars
<1> QED BY <1>1, <1>2, <1>3 DEF AddOrUpdateCompare, appVars

LEMMA NewApplicationObjects ==
  ASSUME IInv, SInv, ObjectInv, NEW c \in Callers, ClientMoves(c), AddApplicationNew(c)
  PROVE  ObjectInv'
<1> USE DEF MadeLabels, OldAppLabels, AppLabels
<1>0. /\ CallTypes /\ Others(c) /\ TakesFree(c) /\ pc[c] = "addAppNew"
      /\ UNCHANGED <<repoVars, appLock>>
  BY DEF IInv, TypeOK, ClientMoves, AddApplicationNew
<1>1. CASE Goto(c, "addAppLock") /\ UNCHANGED application
  <2>1. pc'[c] = "addAppLock" /\ loc'[c] = loc[c]
    BY <1>0, <1>1, GotoEffect DEF Labels
  <2>2. KeepsObjects(c) /\ Homes'
    BY <1>0, <1>1, <2>1 DEF KeepsObjects, ObjectInv, Homes, repoVars
  <2> QED BY <1>0, <2>2, QuietObjects
<1>2. CASE Return(c) /\ Drop({loc[c].app})
  BY <1>0, <1>2, DropObjects DEF repoVars
<1> QED BY <1>1, <1>2 DEF AddApplicationNew

LEMMA GrowObjects ==
  ASSUME IInv, SInv, SInv', ObjectInv, NEW c \in Callers, ClientMoves(c), AddApplicationGrow(c)
  PROVE  ObjectInv'
<1> SUFFICES ASSUME NEW r, r = loc[c].repo, NEW n, n = nApps[r]
             PROVE  ObjectInv'
  OBVIOUS
<1>0. /\ CallTypes /\ Others(c) /\ TakesFree(c) /\ pc[c] = "addAppLock" /\ r \in RepoAddrs
      /\ nApps' = [nApps EXCEPT ![r] = n + 1]
      /\ Goto(c, "addAppStore") /\ UNCHANGED <<apps, appVars>>
  BY AtKnownRepo DEF KnownRepoLabels, ClientMoves, AddApplicationGrow
<1>1. pc'[c] = "addAppStore" /\ loc'[c] = loc[c]
  BY <1>0, GotoEffect DEF Labels
<1>2. KeepsObjects(c)
  BY <1>0, <1>1 DEF KeepsObjects, appVars, MadeLabels, OldAppLabels, AppLabels
<1>3. apps[r][n + 1] = Nil /\ nApps'[r] = n + 1
  BY <1>0, <1>1, Slots DEF SInv, SlotInv
<1>4. Homes'
  <2>1. \A s \in RepoAddrs : \A i \in 1..nApps'[s] : apps[s][i] # Nil => i \in 1..nApps[s]
    BY <1>0, <1>3, Slots
  <2> QED BY <1>0, <2>1 DEF ObjectInv, Homes, appVars
<1> QED BY <1>0, <1>2, <1>4, QuietObjects

LEMMA StoreObjects ==
  ASSUME IInv, SInv, ObjectInv, NEW c \in Callers, ClientMoves(c), AddApplicationStore(c)
  PROVE  ObjectInv'
<1> SUFFICES ASSUME NEW r, r = loc[c].repo, NEW n, n = nApps[r], NEW new, new = loc[c].app
             PROVE  ObjectInv'
  OBVIOUS
<1>0. /\ Others(c) /\ TakesFree(c) /\ pc[c] = "addAppStore" /\ r \in RepoAddrs
      /\ apps' = [apps EXCEPT ![r][n] = new] /\ nApps' = nApps
      /\ Return(c) /\ UNCHANGED appVars
  BY HeldRepo DEF RepoLabels, ClientMoves, AddApplicationStore
<1>1. pc'[c] = "idle" /\ loc'[c].app = Nil
  BY <1>0, ReturnSlots
<1>2. KeepsObjects(c)
  BY <1>0, <1>1 DEF KeepsObjects, appVars, MadeLabels, OldAppLabels, AppLabels
<1>3. application[new].repo = r /\ n > 0
  BY <1>0 DEF ObjectInv, HomeInv, MadeLabels, SInv, SlotInv
<1>4. Homes'
  <2>1. \A s \in RepoAddrs : \A i \in 1..nApps[s] :
          apps'[s][i] = apps[s][i] \/ (s = r /\ apps'[s][i] = new)
    <3>1. n \in 1..nApps[r] /\ SetsSlot(r, n, new)
      BY <1>0, <1>3, Slots DEF SetsSlot
    <3> QED BY <1>0, <3>1, SlotSet
  <2>2. nApps' = nApps /\ application' = application
    BY <1>0 DEF appVars
  <2> QED BY <1>3, <2>1, <2>2 DEF ObjectInv, Homes
<1> QED BY <1>0, <1>2, <1>4, QuietObjects

\* A handler that has the repository's mutex gets the one of an application.
LEMMA LockObjects ==
  ASSUME IInv, SInv, ObjectInv, NEW c \in Callers, ClientMoves(c),
         NEW old \in AppAddrs, appLock' = [appLock EXCEPT ![old] = c],
         application[old] # Nil, application[old].repo = loc[c].repo,
         \A d \in Callers : loc[d].app # old,
         UNCHANGED <<apps, nApps, application>>,
         pc[c] \notin AppLabels, pc'[c] \in AppLabels,
         pc'[c] \in MadeLabels => pc[c] \in MadeLabels,
         loc'[c].old = old, loc'[c].app = loc[c].app, loc'[c].repo = loc[c].repo
  PROVE  ObjectInv'
<1>0. RegistryTypes /\ Others(c) /\ HomeInv(c) /\ LeakedRepos \subseteq LeakedRepos'
  BY StaysLeaked DEF IInv, TypeOK, ObjectInv, ClientMoves
<1>1. appLock'[old] = c /\ \A a \in AppAddrs : a # old => appLock'[a] = appLock[a]
  BY <1>0 DEF RegistryTypes
<1>2. ObjectsGuarded(c)
  BY <1>1 DEF ObjectsGuarded
<1>3. HomeInv(c)'
  <2>1. loc[c].app \in AppAddrs \cup {Nil} /\ loc[c].app # old
    BY DEF IInv, TypeOK, CallTypes, Locals
  <2>2. loc'[c].app # Nil => appLock'[loc'[c].app] = Free
    BY <1>0, <1>1, <2>1 DEF HomeInv
  <2> QED BY <1>0, <2>2 DEF HomeInv, Others
<1>4. Homes'
  BY DEF ObjectInv, Homes
<1> QED BY <1>0, <1>2, <1>3, <1>4, HandlerObjects

LEMMA UpdateLockAppObjects ==
  ASSUME IInv, SInv, ObjectInv, NEW c \in Callers, ClientMoves(c), UpdateLockApp(c)
  PROVE  ObjectInv'
<1> SUFFICES ASSUME NEW r, r = loc[c].repo, NEW i, i = loc[c].idx,
                    NEW old, old = apps[r][i]
             PROVE  ObjectInv'
  OBVIOUS
<1>0. CallTypes /\ pc[c] = "updAppLock"
  BY DEF IInv, TypeOK, UpdateLockApp
<1>1. CASE Panic("nil dereference")
  BY <1>1, PanicObjects
<1>2. CASE /\ old \in AppAddrs /\ appLock' = [appLock EXCEPT ![old] = c]
           /\ pc' = [pc EXCEPT ![c] = "updApp"]
           /\ loc' = [loc EXCEPT ![c].old = old]
           /\ UNCHANGED <<repoVars, application>>
  <2>1. /\ pc'[c] = "updApp" /\ loc'[c].repo = r
        /\ loc'[c].app = loc[c].app /\ loc'[c].old = old
    BY <1>0, <1>2 DEF CallTypes, Locals
  <2>2. r \in RepoAddrs /\ i \in 1..nApps[r]
    BY <1>0, HeldRepo DEF RepoLabels, SInv, SlotInv, Good
  <2>3. /\ application[old] # Nil /\ application[old].repo = r
        /\ \A d \in Callers : loc[d].app # old
    BY <1>2, <2>2, Nils, ListedHome
  <2>4. /\ pc[c] \notin AppLabels /\ pc'[c] \in AppLabels
        /\ pc'[c] \in MadeLabels => pc[c] \in MadeLabels
        /\ UNCHANGED <<apps, nApps>>
    BY <1>0, <1>2, <2>1 DEF AppLabels, MadeLabels, repoVars
  <2> QED BY <1>2, <2>1, <2>3, <2>4, LockObjects
<1> QED BY <1>1, <1>2 DEF UpdateLockApp

LEMMA LockRepoObjects ==
  ASSUME IInv, SInv, ObjectInv, NEW c \in Callers, ClientMoves(c),
         UpdateLockRepo(c) \/ DeleteApplicationLockRepo(c)
  PROVE  ObjectInv'
<1> USE DEF MadeLabels, OldAppLabels, AppLabels
<1>0. /\ CallTypes /\ Others(c) /\ TakesFree(c)
      /\ UNCHANGED <<apps, nApps, appVars>>
  BY DEF IInv, TypeOK, ClientMoves, UpdateLockRepo, DeleteApplicationLockRepo
<1>1. \/ pc[c] = "updRepoLock" /\ pc'[c] = "updAppLock" /\ loc'[c] = loc[c]
      \/ pc[c] = "delAppLock" /\ pc'[c] = "delAppLockApp" /\ loc'[c] = loc[c]
  BY <1>0, GotoEffect DEF UpdateLockRepo, DeleteApplicationLockRepo, Labels
<1>2. KeepsObjects(c) /\ Homes'
  BY <1>0, <1>1 DEF KeepsObjects, ObjectInv, Homes, appVars
<1> QED BY <1>0, <1>2, QuietObjects

\* The slot keeps the old application, gets the new one or is emptied; what is
\* dropped is in no slot afterwards, and no other handler has found it.
LEMMA UpdateAppObjects ==
  ASSUME IInv, SInv, SInv', ObjectInv, NEW c \in Callers, ClientMoves(c), UpdateApp(c)
  PROVE  ObjectInv'
<1> SUFFICES ASSUME NEW r, r = loc[c].repo, NEW i, i = loc[c].idx,
                    NEW old, old = loc[c].old, NEW new, new = loc[c].app
             PROVE  ObjectInv'
  OBVIOUS
<1>0. /\ RegistryTypes /\ Others(c) /\ pc[c] = "updApp" /\ r \in RepoAddrs
      /\ appLock' = [appLock EXCEPT ![old] = Free]
      /\ nApps' = nApps /\ Return(c) /\ LeakedRepos \subseteq LeakedRepos'
  BY HeldRepo, StaysLeaked DEF IInv, TypeOK, RepoLabels, ClientMoves, UpdateApp
<1>1. pc'[c] = "idle" /\ loc'[c].app = Nil
  BY <1>0, ReturnSlots
<1>2. /\ old \in AppAddrs /\ new \in AppAddrs /\ i \in 1..nApps[r] /\ apps[r][i] = old
      /\ application[new].repo = r /\ application[old].repo = r /\ Unlisted(new)
  BY <1>0, Nils DEF IInv, CallerInv, AppKnown, OldAppLabels, SInv, OwnInv, SlotInv, Good,
     MadeLabels, ObjectInv, HomeInv
<1>3. /\ appLock'[old] = Free /\ Free \notin Callers
      /\ \A a \in AppAddrs : a # old => appLock'[a] = appLock[a]
  BY <1>0, <1>2, Holders DEF RegistryTypes
<1>4. \A a \in AppAddrs :
        \/ application'[a] = application[a] \/ a = new
        \/ a = old /\ \A d \in Callers \ {c} : loc[d].old # a
  BY DEF UpdateApp, Drop
<1>5. ObjectsGuarded(c)
  <2>1. \A a \in AppAddrs : appLock'[a] = c => appLock[a] = c /\ ~ (pc[c] \in AppLabels /\ loc[c].old = a)
    BY <1>3
  <2> QED BY <1>0, <1>1, <1>3, <1>4, <2>1 DEF ObjectsGuarded
<1>6. HomeInv(c)'
  BY <1>1 DEF HomeInv, MadeLabels, OldAppLabels
<1>7. Homes'
  <2> SUFFICES ASSUME NEW s \in RepoAddrs, NEW j \in 1..nApps[s], apps'[s][j] # Nil
               PROVE  application'[apps'[s][j]].repo = s
    BY <1>0 DEF Homes
  <2>1. /\ application'[apps'[s][j]] = application[apps'[s][j]]
        /\ apps'[s][j] = apps[s][j] \/ (s = r /\ apps'[s][j] = new)
    <3>1. /\ apps[s][j] # Nil => apps[s][j] \in AppAddrs
          /\ apps[s][j] # new
          /\ apps[s][j] = old /\ old # Nil => s = r /\ j = i
      BY <1>0, <1>2, ListedObject DEF SInv, ListInv, Unshared, Unlisted
    <3>2. old # Nil /\ new # Nil /\ old # new
      BY <1>0, <1>2, Nils DEF Unlisted
    <3>3. CASE Drop({new}) /\ UNCHANGED apps
      BY <3>1, <3>3 DEF Drop
    <3>4. CASE /\ apps' = [apps EXCEPT ![r][i] = new]
               /\ Drop({a \in AppAddrs : a = old /\ \A d \in Callers \ {c} : loc[d].old # a})
      <4>1. /\ apps'[r][i] = new
            /\ s # r \/ j # i => apps'[s][j] = apps[s][j]
        <5>1. SetsSlot(r, i, new)
          BY <3>4 DEF SetsSlot
        <5> QED BY <1>0, <1>2, <5>1, SlotSet
      <4>2. \A a \in AppAddrs : a # old => application'[a] = application[a]
        BY <3>4 DEF Drop
      <4>3. CASE s = r /\ j = i
        BY <1>2, <3>2, <4>1, <4>2, <4>3
      <4>4. CASE s # r \/ j # i
        <5>1. apps'[s][j] = apps[s][j] /\ apps[s][j] # old
          BY <3>1, <3>2, <4>1, <4>4
        <5>2. apps[s][j] \in AppAddrs
          BY <3>1, <5>1
        <5> QED BY <4>2, <5>1, <5>2
      <4> QED BY <4>3, <4>4
    <3>5. CASE /\ apps' = [apps EXCEPT ![r][i] = Nil]
               /\ Drop({a \in AppAddrs : a = old /\ \A d \in Callers \ {c} : loc[d].old # a} \cup {new})
      <4>1. /\ apps'[r][i] = Nil
            /\ s # r \/ j # i => apps'[s][j] = apps[s][j]
        <5>1. SetsSlot(r, i, Nil)
          BY <3>5 DEF SetsSlot
        <5> QED BY <1>0, <1>2, <5>1, SlotSet
      <4>2. \A a \in AppAddrs : a # old /\ a # new => application'[a] = application[a]
        BY <3>5 DEF Drop
      <4>3. s # r \/ j # i
        BY <4>1
      <4>4. apps'[s][j] = apps[s][j] /\ apps[s][j] # old /\ apps[s][j] # new
        BY <3>1, <3>2, <4>1, <4>3
      <4>5. apps[s][j] \in AppAddrs
        BY <3>1, <4>4
      <4> QED BY <4>2, <4>4, <4>5
    <3> QED BY <3>3, <3>4, <3>5 DEF UpdateApp
  <2> QED BY <1>2, <2>1 DEF ObjectInv, Homes
<1> QED BY <1>0, <1>5, <1>6, <1>7, HandlerObjects

LEMMA DeleteScanObjects ==
  ASSUME IInv, SInv, ObjectInv, NEW c \in Callers, ClientMoves(c),
         DeleteApplication(c) \/ DeleteApplicationScan(c)
  PROVE  ObjectInv'
<1> USE DEF MadeLabels, OldAppLabels, AppLabels
<1> SUFFICES ASSUME NEW r, r = loc[c].repo
             PROVE  ObjectInv'
  OBVIOUS
<1>0. CallTypes /\ Others(c) /\ TakesFree(c) /\ pc[c] \in {"DeleteApplication", "delAppScan"}
  BY DEF IInv, TypeOK, ClientMoves, DeleteApplication, DeleteApplicationScan
<1>1. CASE Panic("nil dereference")
  BY <1>1, PanicObjects
<1>2. CASE Return(c) /\ UNCHANGED <<repoVars, appVars>>
  <2>1. pc'[c] = "idle" /\ loc'[c].app = Nil
    BY <1>2, ReturnSlots
  <2>2. KeepsObjects(c) /\ Homes'
    BY <1>0, <1>2, <2>1 DEF KeepsObjects, ObjectInv, Homes, repoVars, appVars
  <2> QED BY <1>0, <2>2, QuietObjects
<1>3. CASE /\ \E found : loc' = [loc EXCEPT ![c].repo = found]
           /\ pc' = [pc EXCEPT ![c] = "delAppScan"]
           /\ UNCHANGED <<repoVars, appVars>>
  <2>1. pc'[c] = "delAppScan" /\ loc'[c].app = loc[c].app
    BY <1>0, <1>3 DEF CallTypes, Locals
  <2>2. KeepsObjects(c) /\ Homes'
    BY <1>0, <1>3, <2>1 DEF KeepsObjects, ObjectInv, Homes, repoVars, appVars
  <2> QED BY <1>0, <2>2, QuietObjects
<1>4. CASE /\ pc[c] = "delAppScan"
           /\ \E i \in AppSlots(r, req[c].name) :
                loc' = [loc EXCEPT ![c].idx = i, ![c].old = apps[r][i]]
           /\ pc' = [pc EXCEPT ![c] = "delAppLock"]
           /\ UNCHANGED <<repoVars, appVars>>
  <2>1. PICK i \in AppSlots(r, req[c].name) :
          loc' = [loc EXCEPT ![c].idx = i, ![c].old = apps[r][i]]
    BY <1>4
  <2>2. /\ pc'[c] = "delAppLock" /\ loc'[c].app = loc[c].app
        /\ loc'[c].repo = r /\ loc'[c].old = apps[r][i]
    BY <1>0, <1>4, <2>1 DEF CallTypes, Locals
  <2>3. r \in RepoAddrs /\ i \in 1..nApps[r] /\ apps[r][i] # Nil
    BY <1>4, AtKnownRepo DEF KnownRepoLabels, AppSlots
  <2>4. KeepsObjects(c) /\ Homes'
    BY <1>0, <1>4, <2>2, <2>3 DEF KeepsObjects, ObjectInv, Homes, repoVars, appVars
  <2> QED BY <1>0, <2>4, QuietObjects
<1> QED BY <1>1, <1>2, <1>3, <1>4 DEF DeleteApplication, DeleteApplicationScan, Last

LEMMA DeleteLockAppObjects ==
  ASSUME IInv, SInv, ObjectInv, NEW c \in Callers, ClientMoves(c), DeleteApplicationLockApp(c)
  PROVE  ObjectInv'
<1> SUFFICES ASSUME NEW old, old = loc[c].old
             PROVE  ObjectInv'
  OBVIOUS
<1>0. /\ CallTypes /\ pc[c] = "delAppLockApp" /\ HomeInv(c)
      /\ appLock' = [appLock EXCEPT ![old] = c]
      /\ Goto(c, "delApp") /\ UNCHANGED <<apps, nApps, application>>
  BY DEF IInv, TypeOK, ObjectInv, DeleteApplicationLockApp, repoVars
<1>1. pc'[c] = "delApp" /\ loc'[c] = loc[c]
  BY <1>0, GotoEffect DEF Labels
<1>2. /\ old \in AppAddrs /\ application[old] # Nil /\ application[old].repo = loc[c].repo
      /\ \A d \in Callers : loc[d].app # old
  BY <1>0 DEF IInv, CallerInv, AppKnown, HomeInv, OldAppLabels
<1>3. /\ pc[c] \notin AppLabels /\ pc'[c] \in AppLabels
      /\ pc'[c] \in MadeLabels => pc[c] \in MadeLabels
  BY <1>0, <1>1 DEF AppLabels, MadeLabels
<1> QED BY <1>0, <1>1, <1>2, <1>3, LockObjects

LEMMA RemoveObjects ==
  ASSUME IInv, SInv, ObjectInv, NEW c \in Callers, ClientMoves(c), DeleteApplicationRemove(c)
  PROVE  ObjectInv'
<1> SUFFICES ASSUME NEW r, r = loc[c].repo, NEW i, i = loc[c].idx, NEW n, n = nApps[r]
             PROVE  ObjectInv'
  OBVIOUS
<1>0. /\ Others(c) /\ TakesFree(c) /\ pc[c] = "delApp" /\ r \in RepoAddrs /\ repoLock[r] = c
      /\ apps' = [apps EXCEPT ![r][i] = apps[r][n]]
      /\ nApps' = [nApps EXCEPT ![r] = n - 1]
      /\ UNCHANGED <<repoLock, appVars>> /\ Return(c)
  BY HeldRepo DEF RepoLabels, ClientMoves, DeleteApplicationRemove
<1>1. pc'[c] = "idle" /\ loc'[c].app = Nil /\ pc'[c] \notin RepoLabels
  BY <1>0, ReturnSlots
<1>2. r \in LeakedRepos'
  BY <1>0, <1>1 DEF LeakedRepos
<1>3. KeepsObjects(c)
  BY <1>0, <1>1, <1>2 DEF KeepsObjects, appVars, MadeLabels, OldAppLabels
<1>4. i \in 1..n /\ n \in 1..MaxApps
  <2>1. i > 0 /\ i <= n /\ i \in Nat
    BY <1>0 DEF IInv, TypeOK, CallTypes, Locals, CallerInv, AppIndex
  <2> QED BY <1>0, <2>1, Slots
<1>5. Homes'
  <2>1. r \in RepoAddrs /\ i \in 1..nApps[r] /\ RemovesSlot(r, i)
    BY <1>0, <1>4 DEF RemovesSlot, SetsSlot
  <2>2. \A s \in RepoAddrs : \A j \in 1..nApps'[s] :
          /\ Origin(r, i, s, j) \in 1..nApps[s]
          /\ apps'[s][j] = apps[s][Origin(r, i, s, j)]
    BY <2>1, SlotOrigin
  <2>3. SUFFICES ASSUME NEW s \in RepoAddrs, NEW j \in 1..nApps'[s], apps'[s][j] # Nil
                 PROVE  application'[apps'[s][j]].repo = s
    BY DEF Homes
  <2>4. PICK k \in 1..nApps[s] : apps'[s][j] = apps[s][k]
    BY <2>2
  <2>5. application' = application
    BY <1>0 DEF appVars
  <2> QED BY <2>3, <2>4, <2>5 DEF ObjectInv, Homes
<1> QED BY <1>0, <1>3, <1>5, QuietObjects

LEMMA StepObjects ==
  ASSUME IInv, SInv, SInv', ObjectInv, Deleting, [Next]_vars
  PROVE  ObjectInv'
<1>1. ASSUME NEW c \in Callers, AddOrUpdateApplicationStep(c) \/ DeleteApplicationStep(c)
      PROVE  ObjectInv'
  <2>1. CASE ClientMoves(c)
    BY <1>1, <2>1, MakeObjects, ScanObjects, CompareObjects, NewApplicationObjects, GrowObjects, StoreObjects,
       LockRepoObjects, UpdateLockAppObjects, UpdateAppObjects, DeleteScanObjects,
       DeleteLockAppObjects, RemoveObjects DEF AddOrUpdateApplicationStep, DeleteApplicationStep
  <2>2. CASE \E cause \in States : Panic(cause)
    BY <2>2, PanicObjects
  <2> QED BY <1>1, <2>1, <2>2, ClientStep
<1>2. ASSUME NEW c \in Callers, Call(c) \/ AddRepositoryStep(c) \/ DeleteRepositoryStep(c)
      PROVE  ObjectInv'
  BY <1>2, MoveObjects
<1> QED BY <1>1, <1>2, BackgroundObjects DEF Next, CallerStep

-----------------------------------------------------------------------------
(* What the goroutines work on                                             *)

InRegistry(r) == \E i \in Settled : repos[i] = r
Running == {a \in AppAddrs : life[a] = "running"}

\* The counter of Handle never exceeds the life cycles that will decrement it.
Counter == IsFiniteSet(Running) /\ wg <= Cardinality(Running)

\* The mutex of an application does not leak from its life cycle.
LifeLock == \A a \in AppAddrs : appLock[a] = LifeCycle => life[a] # "none"

\* DeleteRepository removes a repository only once every application in its
\* slots has been uninstalled, and an uninstalled application is in no slot of
\* a repository that is still registered.
Doomed ==
  \A c \in Callers : pc[c] = "delRepoWait" =>
    \A a \in AppAddrs : Listed(a, loc[c].repo) =>
      uninst[a] = "waiting" \/ appLock[a] = Uninstaller
Retired ==
  \A r \in RepoAddrs, a \in AppAddrs :
    InRegistry(r) /\ Listed(a, r) /\ appLock[a] = Uninstaller =>
      \E c \in Callers : pc[c] = "delRepoWait" /\ loc[c].repo = r

\* An uninstallation that has not begun can still get the mutex.
Pending == \A a \in AppAddrs : uninst[a] = "waiting" => appLock[a] # Uninstaller

\* A repository has no applications before AddRepository has stored it.
Untouched ==
  /\ \A r \in RepoAddrs : config[r] = Nil => nApps[r] = 0
  /\ \A c \in Callers : pc[c] = "addRepoStore" => nApps[loc[c].repo] = 0

GoInv == Counter /\ LifeLock /\ Deleting /\ Doomed /\ Retired /\ Pending /\ Untouched

\* A step of a handler of an application request changes the slots of the
\* repositories, and takes the mutexes, that nobody else has locked.
ClientKeeps(c) ==
  /\ \A r \in RepoAddrs :
       \/ apps'[r] = apps[r] /\ nApps'[r] = nApps[r]
       \/ repoLock[r] \in {Free, c} /\ config[r] # Nil
  /\ \A a \in AppAddrs :
       \/ appLock'[a] = appLock[a]
       \/ appLock[a] \in {Free, c} /\ appLock'[a] \in {Free, c}

LEMMA ClientStepKeeps ==
  ASSUME IInv, NEW c \in Callers,
         AddOrUpdateApplicationStep(c) \/ DeleteApplicationStep(c)
  PROVE  ClientKeeps(c) \/ \E cause \in States : Panic(cause)
<1> USE DEF ClientKeeps, repoVars, appVars, States
<1>0. RegistryTypes /\ LocksHeld(c) /\ RepoKnown(c)
  BY DEF IInv, TypeOK, CallerInv
<1>1. UNCHANGED <<apps, nApps, appLock>> => ClientKeeps(c)
  OBVIOUS
<1>2. CASE AddOrUpdateApplication(c)
  BY <1>1, <1>2 DEF AddOrUpdateApplication
<1>3. CASE AddOrUpdateScan(c) \/ AddOrUpdateCompare(c)
  BY <1>1, <1>3 DEF AddOrUpdateScan, AddOrUpdateCompare
<1>4. CASE AddApplicationNew(c)
  BY <1>1, <1>4 DEF AddApplicationNew
<1>5. CASE AddApplicationGrow(c)
  <2>1. config[loc[c].repo] # Nil
    BY <1>0, <1>5 DEF AddApplicationGrow, RepoKnown, KnownRepoLabels
  <2> QED BY <1>0, <1>5, <2>1 DEF AddApplicationGrow, RegistryTypes
<1>6. CASE AddApplicationStore(c)
  <2>1. repoLock[loc[c].repo] = c /\ config[loc[c].repo] # Nil
    BY <1>0, <1>6 DEF AddApplicationStore, LocksHeld, RepoLabels, RepoKnown, KnownRepoLabels
  <2> QED BY <1>0, <1>6, <2>1 DEF AddApplicationStore, RegistryTypes
<1>7. CASE UpdateLockRepo(c) \/ DeleteApplicationLockRepo(c)
  BY <1>1, <1>7 DEF UpdateLockRepo, DeleteApplicationLockRepo
<1>8. CASE UpdateLockApp(c)
  <2>1. CASE \E old \in AppAddrs : appLock[old] = Free /\ appLock' = [appLock EXCEPT ![old] = c]
    BY <1>0, <1>8, <2>1 DEF UpdateLockApp, RegistryTypes
  <2> QED BY <1>8, <2>1 DEF UpdateLockApp
<1>9. CASE UpdateApp(c)
  <2>1. /\ repoLock[loc[c].repo] = c /\ appLock[loc[c].old] = c
        /\ config[loc[c].repo] # Nil
    BY <1>0, <1>9 DEF UpdateApp, LocksHeld, RepoLabels, AppLabels, RepoKnown, KnownRepoLabels
  <2>2. \A r \in RepoAddrs : (apps'[r] = apps[r] /\ nApps'[r] = nApps[r]) \/ r = loc[c].repo
    BY <1>0, <1>9 DEF UpdateApp, RegistryTypes
  <2>3. \A a \in AppAddrs : appLock'[a] = appLock[a] \/ (a = loc[c].old /\ appLock'[a] = Free)
    BY <1>0, <1>9 DEF UpdateApp, RegistryTypes
  <2> QED BY <2>1, <2>2, <2>3
<1>10. CASE DeleteApplication(c)
  BY <1>1, <1>10 DEF DeleteApplication
<1>11. CASE DeleteApplicationScan(c)
  BY <1>1, <1>11 DEF DeleteApplicationScan
<1>12. CASE DeleteApplicationLockApp(c)
  BY <1>0, <1>12 DEF DeleteApplicationLockApp, RegistryTypes
<1>13. CASE DeleteApplicationRemove(c)
  <2>1. repoLock[loc[c].repo] = c /\ config[loc[c].repo] # Nil
    BY <1>0, <1>13 DEF DeleteApplicationRemove, LocksHeld, RepoLabels, RepoKnown, KnownRepoLabels
  <2> QED BY <1>0, <1>13, <2>1 DEF DeleteApplicationRemove, RegistryTypes
<1> QED BY <1>2, <1>3, <1>4, <1>5, <1>6, <1>7, <1>8, <1>9, <1>10, <1>11, <1>12, <1>13
        DEF AddOrUpdateApplicationStep, DeleteApplicationStep

\* What is in a slot after the step was in one of the same repository before.
NothingNew(c) ==
  \A r \in RepoAddrs, a \in AppAddrs : Listed(a, r)' => Listed(a, r) \/ a = loc[c].app

LEMMA ClientLists ==
  ASSUME IInv, SInv, SInv', NEW c \in Callers,
         AddOrUpdateApplicationStep(c) \/ DeleteApplicationStep(c)
  PROVE  NothingNew(c) \/ \E cause \in States : Panic(cause)
<1> SUFFICES ASSUME NEW s, s = loc[c].repo, NEW i, i = loc[c].idx, NEW n, n = nApps[s],
                    NEW new, new = loc[c].app
             PROVE  NothingNew(c) \/ \E cause \in States : Panic(cause)
  OBVIOUS
<1> USE DEF NothingNew, Listed
<1>1. CASE UNCHANGED <<apps, nApps>>
  BY <1>1
<1>2. CASE AddApplicationGrow(c)
  <2>1. /\ CallTypes /\ s \in RepoAddrs /\ nApps' = [nApps EXCEPT ![s] = n + 1]
        /\ Goto(c, "addAppStore") /\ UNCHANGED apps
    BY <1>2, AtKnownRepo DEF KnownRepoLabels, AddApplicationGrow
  <2>2. pc'[c] = "addAppStore" /\ loc'[c] = loc[c]
    BY <2>1, GotoEffect DEF Labels
  <2>3. apps[s][n + 1] = Nil /\ nApps'[s] = n + 1
    BY <2>1, <2>2, Slots DEF SInv, SlotInv
  <2>4. \A r \in RepoAddrs : \A j \in 1..nApps'[r] : apps[r][j] # Nil => j \in 1..nApps[r]
    BY <2>1, <2>3, Slots
  <2> QED BY <2>1, <2>4, Nils
<1>3. CASE AddApplicationStore(c)
  <2>1. /\ s \in RepoAddrs /\ n > 0
        /\ apps' = [apps EXCEPT ![s][n] = new] /\ nApps' = nApps
    BY <1>3, HeldRepo DEF AddApplicationStore, RepoLabels, SInv, SlotInv
  <2>2. \A r \in RepoAddrs : \A j \in 1..nApps[r] : apps'[r][j] \in {apps[r][j], new}
    BY <2>1, Slots
  <2> QED BY <2>1, <2>2
<1>4. CASE UpdateApp(c)
  <2>1. s \in RepoAddrs /\ i \in 1..n /\ nApps' = nApps
    BY <1>4, HeldRepo DEF UpdateApp, RepoLabels, SInv, SlotInv, Good
  <2>2. \A r \in RepoAddrs : \A j \in 1..nApps[r] : apps'[r][j] \in {apps[r][j], new, Nil}
    <3>1. CASE UNCHANGED apps
      BY <3>1
    <3>2. CASE \E v \in {new, Nil} : apps' = [apps EXCEPT ![s][i] = v]
      BY <2>1, <3>2, Slots
    <3> QED BY <1>4, <3>1, <3>2 DEF UpdateApp
  <2> QED BY <2>1, <2>2, Nils
<1>5. CASE DeleteApplicationRemove(c)
  <2>1. /\ s \in RepoAddrs /\ i \in 1..n /\ n \in 1..MaxApps
        /\ apps' = [apps EXCEPT ![s][i] = apps[s][n]]
        /\ nApps' = [nApps EXCEPT ![s] = n - 1]
    <3>1. s \in RepoAddrs
      BY <1>5, HeldRepo DEF DeleteApplicationRemove, RepoLabels
    <3>2. i > 0 /\ i <= n /\ i \in Nat
      BY <1>5 DEF DeleteApplicationRemove, IInv, TypeOK, CallTypes, Locals, CallerInv, AppIndex
    <3> QED BY <1>5, <3>1, <3>2, Slots DEF DeleteApplicationRemove
  <2>2. \A r \in RepoAddrs : \A j \in 1..nApps'[r] :
          \E k \in 1..nApps[r] : apps'[r][j] = apps[r][k]
    BY <2>1, Slots
  <2> QED BY <2>2
<1>6. \/ UNCHANGED <<apps, nApps>> \/ \E cause \in States : Panic(cause)
      \/ AddApplicationGrow(c) \/ AddApplicationStore(c) \/ UpdateApp(c)
      \/ DeleteApplicationRemove(c)
  BY DEF AddOrUpdateApplicationStep, DeleteApplicationStep, AddOrUpdateApplication,
     AddOrUpdateScan, AddOrUpdateCompare, AddApplicationNew, UpdateLockRepo, UpdateLockApp,
     DeleteApplication, DeleteApplicationScan, DeleteApplicationLockRepo, DeleteApplicationLockApp, repoVars, States
<1> QED BY <1>1, <1>2, <1>3, <1>4, <1>5, <1>6

LEMMA ClientGo ==
  ASSUME IInv, SInv, ObjectInv, GoInv, NEW c \in Callers,
         ClientMoves(c), ClientKeeps(c), NothingNew(c)
  PROVE  GoInv'
<1>0. /\ Others(c) /\ pc[c] \notin {"delRepoWait", "addRepoStore"}
      /\ pc'[c] \notin {"delRepoWait", "addRepoStore"}
      /\ UNCHANGED <<repos, nRepos, config, life, uninst, wg>>
  BY DEF ClientMoves, AppSideLabels, RepoSideLabels, HandlerLabels, goVars
<1>1. ASSUME NEW d \in Callers, pc[d] = "delRepoWait"
      PROVE  apps'[loc[d].repo] = apps[loc[d].repo] /\ nApps'[loc[d].repo] = nApps[loc[d].repo]
  <2>1. loc[d].repo \in RepoAddrs /\ repoLock[loc[d].repo] = d /\ d # c /\ d # Free
    BY <1>0, <1>1, HeldRepo, Holders DEF RepoLabels
  <2> QED BY <2>1 DEF ClientKeeps
<1>2. \A a \in AppAddrs : \A w \in {LifeCycle, Uninstaller} : appLock'[a] = w <=> appLock[a] = w
  BY Holders DEF ClientKeeps
<1>3. Counter' /\ LifeLock' /\ Pending'
  BY <1>0, <1>2 DEF GoInv, Counter, LifeLock, Pending, Running
<1>4. Deleting'
  BY <1>0, <1>1 DEF GoInv, Deleting, Others, Listed
<1>5. Doomed'
  BY <1>0, <1>1, <1>2 DEF GoInv, Doomed, Others, Listed
<1>6. Retired'
  <2> SUFFICES ASSUME NEW r \in RepoAddrs, NEW a \in AppAddrs,
                      InRegistry(r)', Listed(a, r)', appLock'[a] = Uninstaller
               PROVE  \E d \in Callers : pc'[d] = "delRepoWait" /\ loc'[d].repo = r
    BY DEF Retired
  <2>1. InRegistry(r)
    BY <1>0 DEF InRegistry, Settled, Others
  <2>2. appLock[a] = Uninstaller
    BY <1>2
  <2>3. a # loc[c].app
    BY <2>2, Holders, Nils DEF ObjectInv, HomeInv
  <2>4. PICK d \in Callers : pc[d] = "delRepoWait" /\ loc[d].repo = r
    BY <2>1, <2>2, <2>3 DEF NothingNew, GoInv, Retired
  <2> QED BY <1>0, <2>4 DEF Others
<1>7. Untouched'
  <2>1. \A d \in Callers : pc[d] = "addRepoStore" =>
          loc[d].repo \in RepoAddrs /\ repoLock[loc[d].repo] = d
    BY HeldRepo DEF RepoLabels
  <2> QED BY <1>0, <2>1, Holders DEF GoInv, Untouched, ClientKeeps, Others
<1> QED BY <1>3, <1>4, <1>5, <1>6, <1>7 DEF GoInv

\* Only one handler is in a critical section of the registry.
LEMMA OneHandler ==
  ASSUME IInv, NEW c \in Callers, NEW d \in Callers,
         pc[c] \in HandlerLabels, pc[d] \in HandlerLabels
  PROVE  c = d
BY DEF IInv, CallerInv, LocksHeld

\* A step of a handler of a repository request that neither starts nor ends
\* the uninstallations of DeleteRepository.
LEMMA RegistryGo ==
  ASSUME GoInv, NEW c \in Callers, Others(c),
         pc[c] # "delRepoWait", pc'[c] # "delRepoWait",
         UNCHANGED <<apps, nApps, appLock, life, uninst, wg>>,
         \A r \in RepoAddrs : InRegistry(r)' => InRegistry(r) \/ nApps[r] = 0,
         Untouched'
  PROVE  GoInv'
<1>1. Counter' /\ LifeLock' /\ Pending'
  BY DEF GoInv, Counter, LifeLock, Pending, Running
<1>2. Deleting' /\ Doomed'
  BY DEF GoInv, Deleting, Doomed, Others, Listed
<1>3. Retired'
  BY DEF GoInv, Retired, Others, Listed
<1> QED BY <1>1, <1>2, <1>3 DEF GoInv

\* Neither the registry nor the handler's place in its critical section changes.
LEMMA SameRegistry ==
  ASSUME NEW c \in Callers, Others(c), UNCHANGED <<repos, nRepos>>,
         pc[c] # "addRepoStore", pc'[c] # "addRepoStore"
  PROVE  \A r \in RepoAddrs : InRegistry(r)' <=> InRegistry(r)
<1>1. Settled' = Settled
  BY DEF Settled, Others
<1> QED BY <1>1 DEF InRegistry

\* The registry gains a repository when its slot is stored, and loses one when
\* its slot is overwritten.
LEMMA GrowRegistry ==
  ASSUME IInv, NEW c \in Callers, AddRepositoryGrow(c)
  PROVE  \A r \in RepoAddrs : InRegistry(r)' => InRegistry(r)
<1>0. /\ CallTypes /\ pc[c] = "addRepoNew" /\ Goto(c, "addRepoStore")
      /\ nRepos' = nRepos + 1 /\ repos' = repos /\ nRepos \in Nat
  BY BoundAssumption DEF IInv, TypeOK, RegistryTypes, AddRepositoryGrow
<1>1. Others(c) /\ pc'[c] = "addRepoStore"
  BY <1>0, GotoEffect DEF Labels
<1>2. \A d \in Callers : pc[d] # "addRepoStore"
  BY <1>0, OneHandler DEF HandlerLabels
<1>3. \A i \in Settled' : i \in Settled
  BY <1>0, <1>1, <1>2 DEF Settled
<1> QED BY <1>0, <1>3 DEF InRegistry

LEMMA StoreRegistry ==
  ASSUME IInv, NEW c \in Callers, AddRepositoryStore(c)
  PROVE  \A r \in RepoAddrs : InRegistry(r)' => InRegistry(r) \/ r = loc[c].repo
<1>0. /\ RegistryTypes /\ repos' = [repos EXCEPT ![nRepos] = loc[c].repo] /\ nRepos' = nRepos
      /\ nRepos \in 1..MaxRepos
  BY BoundAssumption DEF IInv, TypeOK, RegistryTypes, CallerInv, Appending, AddRepositoryStore
<1>1. \A i \in Settled' : i = nRepos \/ (i \in Settled /\ repos'[i] = repos[i])
  BY <1>0 DEF Settled, RegistryTypes
<1>2. repos'[nRepos] = loc[c].repo
  BY <1>0 DEF RegistryTypes
<1> QED BY <1>1, <1>2 DEF InRegistry

LEMMA RemoveRegistry ==
  ASSUME IInv, NEW c \in Callers, DeleteRepositoryRemove(c)
  PROVE  \A r \in RepoAddrs : InRegistry(r)' => InRegistry(r) /\ r # loc[c].repo
<1> SUFFICES ASSUME NEW s, s = loc[c].repo, NEW i, i = loc[c].idx
             PROVE  \A r \in RepoAddrs : InRegistry(r)' => InRegistry(r) /\ r # s
  OBVIOUS
<1>0. /\ RegistryTypes /\ pc[c] = "delRepoWait"
      /\ repos' = [repos EXCEPT ![i] = repos[nRepos]] /\ nRepos' = nRepos - 1
      /\ i \in 1..nRepos /\ repos[i] = s /\ nRepos \in 0..MaxRepos /\ MaxRepos \in Nat
  BY BoundAssumption DEF IInv, TypeOK, RegistryTypes, CallerInv, RemovalIndex,
     DeleteRepositoryRemove
<1>1. \A d \in Callers : pc[d] # "addRepoStore"
  BY <1>0, OneHandler DEF HandlerLabels
<1>2. Settled = 1..nRepos /\ Settled' \subseteq 1..(nRepos - 1)
  BY <1>0, <1>1 DEF Settled
<1>3. ASSUME NEW j \in Settled'
      PROVE  \E k \in Settled : k # i /\ repos'[j] = repos[k]
  <2>1. j \in 1..(nRepos - 1) /\ j \in 1..nRepos /\ nRepos \in 1..nRepos
    BY <1>0, <1>2, <1>3
  <2>2. CASE j = i
    BY <1>0, <1>2, <2>1, <2>2 DEF RegistryTypes
  <2>3. CASE j # i
    BY <1>0, <1>2, <2>1, <2>3 DEF RegistryTypes
  <2> QED BY <2>2, <2>3
<1>4. \A k \in Settled : k # i => repos[k] # s
  BY <1>0, <1>2 DEF IInv, RegistryInv, UniqueURL
<1> QED BY <1>3, <1>4 DEF InRegistry

LEMMA PanicGo ==
  ASSUME NEW cause, Panic(cause)
  PROVE  GoInv'
<1>1. /\ \A r \in RepoAddrs : nApps'[r] = 0
      /\ \A a \in AppAddrs : appLock'[a] = Free /\ life'[a] = "none" /\ uninst'[a] = "none"
      /\ \A c \in Callers : pc'[c] = "idle"
      /\ wg' = 0
  BY DEF Panic
<1>2. Running' = {}
  BY <1>1 DEF Running
<1>3. Counter'
  BY <1>1, <1>2, FS_EmptySet DEF Counter
<1> QED BY <1>1, <1>3, Holders DEF GoInv, LifeLock, Deleting, Doomed, Retired, Pending, Untouched

LEMMA InitGo == Init => GoInv
<1> SUFFICES ASSUME Init PROVE GoInv
  OBVIOUS
<1>1. /\ \A r \in RepoAddrs : nApps[r] = 0
      /\ \A a \in AppAddrs : appLock[a] = Free /\ life[a] = "none" /\ uninst[a] = "none"
      /\ \A c \in Callers : pc[c] = "idle"
      /\ wg = 0
  BY DEF Init
<1>2. Running = {}
  BY <1>1 DEF Running
<1>3. Counter
  BY <1>1, <1>2, FS_EmptySet DEF Counter
<1> QED BY <1>1, <1>3, Holders DEF GoInv, LifeLock, Deleting, Doomed, Retired, Pending, Untouched

LEMMA GrowGo ==
  ASSUME IInv, GoInv, NEW c \in Callers, AddRepositoryGrow(c)
  PROVE  GoInv'
<1> SUFFICES ASSUME NEW s, s = loc[c].repo
             PROVE  GoInv'
  OBVIOUS
<1>0. /\ RegistryTypes /\ pc[c] = "addRepoNew" /\ Goto(c, "addRepoStore")
      /\ s \in RepoAddrs /\ config[s] = Nil
      /\ \A d \in Callers : d # c => loc[d].repo # s
      /\ nRepos' = nRepos + 1 /\ repos' = repos /\ nRepos \in Nat
      /\ \A r \in RepoAddrs : r # s => config'[r] = config[r]
      /\ UNCHANGED <<apps, nApps, appLock, life, uninst, wg>>
  BY BoundAssumption DEF IInv, TypeOK, RegistryTypes, CallerInv, RepoKnown, NewRepoLabels,
     AddRepositoryGrow, goVars, appVars
<1>1. Others(c) /\ pc'[c] = "addRepoStore" /\ loc'[c] = loc[c]
  BY <1>0, GotoEffect DEF IInv, TypeOK, Labels
<1>2. Untouched'
  BY <1>0, <1>1 DEF GoInv, Untouched, Others
<1> QED BY <1>0, <1>1, <1>2, GrowRegistry, RegistryGo

LEMMA StoreGo ==
  ASSUME IInv, GoInv, NEW c \in Callers, AddRepositoryStore(c)
  PROVE  GoInv'
<1> SUFFICES ASSUME NEW s, s = loc[c].repo
             PROVE  GoInv'
  OBVIOUS
<1>0. /\ RegistryTypes /\ pc[c] = "addRepoStore" /\ Return(c)
      /\ repos' = [repos EXCEPT ![nRepos] = s] /\ nRepos' = nRepos /\ config' = config
      /\ nRepos \in Nat /\ nRepos > 0 /\ nRepos \in 1..MaxRepos
      /\ UNCHANGED <<apps, nApps, appLock, life, uninst, wg>>
  BY BoundAssumption DEF IInv, TypeOK, RegistryTypes, CallerInv, Appending,
     AddRepositoryStore, goVars, appVars
<1>1. Others(c) /\ pc'[c] = "idle"
  BY <1>0, ReturnSlots
<1>2. Untouched' /\ nApps[s] = 0
  BY <1>0, <1>1 DEF GoInv, Untouched, Others
<1> QED BY <1>0, <1>1, <1>2, StoreRegistry, RegistryGo

LEMMA SpawnGo ==
  ASSUME IInv, GoInv, NEW c \in Callers, DeleteRepositorySpawn(c)
  PROVE  GoInv'
<1> SUFFICES ASSUME NEW s, s = loc[c].repo
             PROVE  GoInv'
  OBVIOUS
<1>0. /\ pc[c] = "delRepoLock" /\ Goto(c, "delRepoWait")
      /\ uninst' = [a \in AppAddrs |->
                      IF \E i \in 1..nApps[s] : apps[s][i] = a THEN "waiting" ELSE uninst[a]]
      /\ UNCHANGED <<repos, nRepos, config, apps, nApps, appLock, life, wg>>
  BY DEF DeleteRepositorySpawn, listVars, appVars
<1>1. Others(c) /\ pc'[c] = "delRepoWait" /\ loc'[c] = loc[c]
  BY <1>0, GotoEffect DEF IInv, TypeOK, Labels
<1>2. \A d \in Callers : pc[d] # "delRepoWait" /\ (pc'[d] = "delRepoWait" => d = c)
  <2>1. \A d \in Callers : pc[d] # "delRepoWait"
    BY <1>0, OneHandler DEF HandlerLabels
  <2> QED BY <1>1, <2>1 DEF Others
<1>3. \A a \in AppAddrs : uninst[a] = "none"
  BY <1>2 DEF GoInv, Deleting
<1>4. Deleting' /\ Doomed'
  BY <1>0, <1>1, <1>2, <1>3 DEF Deleting, Doomed, Listed
<1>5. Retired'
  <2>1. \A r \in RepoAddrs : InRegistry(r)' <=> InRegistry(r)
    BY <1>0, <1>1, SameRegistry
  <2>2. \A r \in RepoAddrs, a \in AppAddrs : Listed(a, r)' <=> Listed(a, r)
    BY <1>0 DEF Listed
  <2> QED BY <1>0, <1>2, <2>1, <2>2 DEF GoInv, Retired
<1>6. Counter' /\ LifeLock' /\ Untouched'
  BY <1>0, <1>1 DEF GoInv, Counter, LifeLock, Untouched, Running, Others
<1>7. Pending'
  <2>1. InRegistry(s)
    <3>1. loc[c].idx \in 1..nRepos /\ repos[loc[c].idx] = s
      BY <1>0 DEF IInv, CallerInv, RemovalIndex
    <3>2. loc[c].idx \in Settled
      BY <1>0, <3>1, OneHandler DEF Settled, HandlerLabels
    <3> QED BY <3>1, <3>2 DEF InRegistry
  <2>2. s \in RepoAddrs
    BY <1>0, AtKnownRepo DEF KnownRepoLabels
  <2>3. \A a \in AppAddrs : Listed(a, s) => appLock[a] # Uninstaller
    BY <1>2, <2>1, <2>2 DEF GoInv, Retired
  <2> QED BY <1>0, <1>3, <2>3 DEF Pending, Listed
<1> QED BY <1>4, <1>5, <1>6, <1>7 DEF GoInv

\* The repository that is removed is in no slot of the registry any more.
LEMMA RemoveGo ==
  ASSUME IInv, GoInv, NEW c \in Callers, DeleteRepositoryRemove(c)
  PROVE  GoInv'
<1> SUFFICES ASSUME NEW s, s = loc[c].repo, NEW i, i = loc[c].idx
             PROVE  GoInv'
  OBVIOUS
<1>0. /\ RegistryTypes /\ pc[c] = "delRepoWait" /\ Return(c)
      /\ \A a \in AppAddrs : uninst[a] = "none"
      /\ repos' = [repos EXCEPT ![i] = repos[nRepos]] /\ nRepos' = nRepos - 1
      /\ i \in 1..nRepos /\ repos[i] = s /\ nRepos \in 0..MaxRepos /\ MaxRepos \in Nat
      /\ UNCHANGED <<config, apps, nApps, appLock, life, uninst, wg>>
  BY BoundAssumption DEF IInv, TypeOK, RegistryTypes, CallerInv, RemovalIndex,
     DeleteRepositoryRemove, goVars, appVars
<1>1. Others(c) /\ pc'[c] = "idle"
  BY <1>0, ReturnSlots
<1>2. \A d \in Callers : /\ pc[d] = "delRepoWait" => d = c
                         /\ pc[d] # "addRepoStore" /\ pc'[d] # "delRepoWait"
  <2>1. \A d \in Callers : /\ pc[d] = "delRepoWait" => d = c
                           /\ pc[d] # "addRepoStore"
    BY <1>0, OneHandler DEF HandlerLabels
  <2> QED BY <1>1, <2>1 DEF Others
<1>3. \A r \in RepoAddrs : InRegistry(r)' => InRegistry(r) /\ r # s
  BY RemoveRegistry
<1>4. Retired'
  <2>1. \A r \in RepoAddrs, a \in AppAddrs : Listed(a, r)' <=> Listed(a, r)
    BY <1>0 DEF Listed
  <2> QED BY <1>0, <1>2, <1>3, <2>1 DEF GoInv, Retired
<1>5. Deleting' /\ Doomed' /\ Pending'
  BY <1>0, <1>2 DEF Deleting, Doomed, Pending
<1>6. Counter' /\ LifeLock' /\ Untouched'
  BY <1>0, <1>1 DEF GoInv, Counter, LifeLock, Untouched, Running, Others
<1> QED BY <1>4, <1>5, <1>6 DEF GoInv

\* A step that leaves the registry alone, of a handler that is neither storing
\* a repository nor uninstalling one.
LEMMA IdleGo ==
  ASSUME GoInv, NEW c \in Callers, Others(c),
         pc[c] \notin {"delRepoWait", "addRepoStore"},
         pc'[c] \notin {"delRepoWait", "addRepoStore"},
         UNCHANGED <<repos, nRepos, config, apps, nApps, appLock, life, uninst, wg>>
  PROVE  GoInv'
<1>1. Untouched'
  BY DEF GoInv, Untouched, Others
<1> QED BY <1>1, SameRegistry, RegistryGo

LEMMA RepositoryGo ==
  ASSUME IInv, GoInv, NEW c \in Callers,
         Call(c) \/ AddRepositoryStep(c) \/ DeleteRepositoryStep(c)
  PROVE  GoInv'
<1> USE DEF listVars, repoVars, appVars, goVars
<1>0. CallTypes
  BY DEF IInv, TypeOK
<1>1. ASSUME CallMoves(c) PROVE GoInv'
  BY <1>1, IdleGo DEF CallMoves
<1>2. ASSUME NEW label \in Labels \ {"addRepoStore", "delRepoWait"}, Goto(c, label),
             pc[c] \notin {"delRepoWait", "addRepoStore"},
             UNCHANGED <<listVars, repoVars, appVars, goVars>>
      PROVE  GoInv'
  <2>1. Others(c) /\ pc'[c] = label
    BY <1>0, <1>2, GotoEffect
  <2> QED BY <1>2, <2>1, IdleGo
<1>3. ASSUME Return(c), pc[c] \notin {"delRepoWait", "addRepoStore"},
             UNCHANGED <<listVars, repoVars, appVars, goVars>>
      PROVE  GoInv'
  <2>1. Others(c) /\ pc'[c] = "idle"
    BY <1>3, ReturnSlots
  <2> QED BY <1>3, <2>1, IdleGo
<1>4. CASE AddRepositoryCheck(c)
  BY <1>2, <1>3, <1>4, PanicGo DEF AddRepositoryCheck, Labels
<1>5. CASE AddRepositoryLock(c)
  BY <1>2, <1>5 DEF AddRepositoryLock, Labels
<1>6. CASE AddRepositoryRefuse(c)
  BY <1>3, <1>6 DEF AddRepositoryRefuse
<1>7. CASE DeleteRepositoryLock(c)
  BY <1>2, <1>7 DEF DeleteRepositoryLock, Labels
<1>8. CASE DeleteRepositoryFind(c)
  <2>1. pc[c] = "delRepoFind" /\ UNCHANGED <<listVars, repoVars, appVars, goVars>>
    BY <1>8 DEF DeleteRepositoryFind
  <2>2. CASE \E i : /\ pc' = [pc EXCEPT ![c] = "delRepoLock"]
                    /\ loc' = [loc EXCEPT ![c].idx = i, ![c].repo = repos[i]]
                    /\ UNCHANGED req
    <3>1. Others(c) /\ pc'[c] = "delRepoLock"
      BY <1>0, <2>2 DEF CallTypes, Locals, Others
    <3> QED BY <2>1, <3>1, IdleGo
  <2> QED BY <1>3, <1>8, <2>1, <2>2 DEF DeleteRepositoryFind
<1>9. CASE DeleteRepositoryNil(c)
  BY <1>9, PanicGo DEF DeleteRepositoryNil
<1> QED BY <1>1, <1>4, <1>5, <1>6, <1>7, <1>8, <1>9, CallStep, GrowGo, StoreGo, SpawnGo, RemoveGo
        DEF AddRepositoryStep, DeleteRepositoryStep

\* The check loop and the other goroutines leave the registry alone.
LEMMA BackgroundRegistry ==
  ASSUME IInv,
         \/ \E a \in AppAddrs : GoroutineStep(a)
         \/ TickStep \/ ReadApplications \/ Restart \/ UNCHANGED vars
  PROVE  \/ \E cause \in States : Panic(cause)
         \/ /\ UNCHANGED <<callVars, repos, nRepos, config, apps, nApps>>
            /\ Untouched => Untouched'
            /\ \A r \in RepoAddrs : InRegistry(r)' <=> InRegistry(r)
            /\ \A a \in AppAddrs, r \in RepoAddrs : Listed(a, r)' <=> Listed(a, r)
<1>1. \/ \E cause \in States : Panic(cause)
      \/ UNCHANGED <<callVars, repos, nRepos, config, apps, nApps>>
  <2> USE DEF listVars, repoVars, callVars, States
  <2>1. ASSUME NEW a \in AppAddrs, GoroutineStep(a)
        PROVE  \/ \E cause \in States : Panic(cause)
               \/ UNCHANGED <<callVars, repos, nRepos, config, apps, nApps>>
    BY <2>1 DEF GoroutineStep, UninstallLock, UninstallDone, LifeDone, LifeUnlock
  <2>2. CASE TickStep
    BY <2>2 DEF TickStep, TickStart, TickRepo, TickApp, TickRepoDone, TickWait
  <2> QED BY <2>1, <2>2 DEF ReadApplications, Restart, vars
<1>2. CASE UNCHANGED <<callVars, repos, nRepos, config, apps, nApps>>
  <2>1. Settled' = Settled
    BY <1>2 DEF Settled, callVars
  <2> QED BY <1>2, <2>1 DEF InRegistry, Listed, Untouched, callVars
<1> QED BY <1>1, <1>2

LEMMA GoroutineGo ==
  ASSUME IInv, SInv, GoInv, NEW a \in AppAddrs, GoroutineStep(a)
  PROVE  GoInv'
<1>0. RegistryTypes /\ CheckTypes /\ GoroutineInv
  BY DEF IInv, TypeOK
<1>1. CASE \E cause \in States : Panic(cause)
  BY <1>1, PanicGo
<1> SUFFICES ASSUME ~ \E cause \in States : Panic(cause)
             PROVE  GoInv'
  BY <1>1
<1>2. /\ UNCHANGED <<callVars, repos, nRepos, config, apps, nApps>>
      /\ Untouched'
      /\ \A r \in RepoAddrs : InRegistry(r)' <=> InRegistry(r)
      /\ \A b \in AppAddrs, r \in RepoAddrs : Listed(b, r)' <=> Listed(b, r)
  BY BackgroundRegistry DEF GoInv
<1>3. \A d \in Callers : pc[d] = "delRepoWait" => loc[d].repo \in RepoAddrs
  BY HeldRepo DEF RepoLabels
<1>4. CASE UninstallLock(a)
  <2>1. /\ uninst[a] = "waiting" /\ appLock[a] = Free
        /\ \A b \in AppAddrs :
             /\ appLock'[b] = (IF b = a THEN Uninstaller ELSE appLock[b])
             /\ uninst'[b] = (IF b = a THEN "running" ELSE uninst[b])
        /\ UNCHANGED <<life, wg>>
    BY <1>0, <1>4 DEF UninstallLock, RegistryTypes, CheckTypes
  <2>2. PICK c \in Callers : pc[c] = "delRepoWait" /\ Listed(a, loc[c].repo)
    BY <2>1 DEF GoInv, Deleting
  <2>3. Counter' /\ LifeLock'
    BY <2>1, Holders DEF GoInv, Counter, LifeLock, Running
  <2>4. Deleting' /\ Doomed' /\ Pending'
    BY <1>2, <1>3, <2>1 DEF GoInv, Deleting, Doomed, Pending, callVars
  <2>5. \A r \in RepoAddrs : Listed(a, r) => r = loc[c].repo
    BY <1>3, <2>2, Nils DEF SInv, ListInv, Unshared, Listed
  <2>6. Retired'
    BY <1>2, <2>1, <2>2, <2>5 DEF GoInv, Retired, callVars
  <2> QED BY <1>2, <2>3, <2>4, <2>6 DEF GoInv
<1>5. CASE UninstallDone(a)
  <2>1. /\ appLock[a] = Uninstaller
        /\ \A b \in AppAddrs : uninst'[b] = (IF b = a THEN "none" ELSE uninst[b])
        /\ UNCHANGED <<life, wg, appLock>>
    BY <1>0, <1>5 DEF UninstallDone, CheckTypes, GoroutineInv, appVars
  <2>2. Counter' /\ LifeLock' /\ Retired'
    BY <1>2, <2>1 DEF GoInv, Counter, LifeLock, Running, Retired, callVars
  <2>3. Deleting' /\ Doomed' /\ Pending'
    BY <1>2, <1>3, <2>1 DEF GoInv, Deleting, Doomed, Pending, callVars
  <2> QED BY <1>2, <2>2, <2>3 DEF GoInv
<1>6. CASE LifeDone(a)
  <2>1. /\ life[a] = "running" /\ wg > 0 /\ wg' = wg - 1 /\ wg \in Nat
        /\ \A b \in AppAddrs : life'[b] = (IF b = a THEN "done" ELSE life[b])
        /\ UNCHANGED <<uninst, appLock>>
    BY <1>0, <1>6 DEF LifeDone, CheckTypes, appVars, States
  <2>2. Running' = Running \ {a} /\ a \in Running
    BY <2>1 DEF Running
  <2>3. Counter'
    <3>1. /\ IsFiniteSet(Running) /\ IsFiniteSet(Running')
          /\ Cardinality(Running') = Cardinality(Running) - 1
      BY <2>2, FS_RemoveElement DEF GoInv, Counter
    <3>2. Cardinality(Running) \in Nat /\ wg <= Cardinality(Running)
      BY <3>1, FS_CardinalityType DEF GoInv, Counter
    <3> QED BY <2>1, <3>1, <3>2 DEF Counter
  <2>4. LifeLock' /\ Retired'
    BY <1>2, <2>1 DEF GoInv, LifeLock, Retired, callVars
  <2>5. Deleting' /\ Doomed' /\ Pending'
    BY <1>2, <1>3, <2>1 DEF GoInv, Deleting, Doomed, Pending, callVars
  <2> QED BY <1>2, <2>3, <2>4, <2>5 DEF GoInv
<1>7. CASE LifeUnlock(a)
  <2>1. /\ life[a] = "done" /\ appLock[a] = LifeCycle
        /\ \A b \in AppAddrs :
             /\ life'[b] = (IF b = a THEN "none" ELSE life[b])
             /\ appLock'[b] = (IF b = a THEN Free ELSE appLock[b])
        /\ UNCHANGED <<uninst, wg>>
    BY <1>0, <1>7 DEF LifeUnlock, RegistryTypes, CheckTypes, GoroutineInv
  <2>2. Running' = Running
    BY <2>1 DEF Running
  <2>3. Counter' /\ LifeLock' /\ Retired'
    BY <1>2, <2>1, <2>2, Holders DEF GoInv, Counter, LifeLock, Retired, callVars
  <2>4. Deleting' /\ Doomed' /\ Pending'
    BY <1>2, <1>3, <2>1, Holders DEF GoInv, Deleting, Doomed, Pending, callVars
  <2> QED BY <1>2, <2>3, <2>4 DEF GoInv
<1> QED BY <1>4, <1>5, <1>6, <1>7 DEF GoroutineStep

LEMMA TickGo ==
  ASSUME IInv, GoInv, TickStep \/ ReadApplications \/ Restart \/ UNCHANGED vars
  PROVE  GoInv'
<1>0. RegistryTypes /\ CheckTypes /\ GoroutineInv
  BY DEF IInv, TypeOK
<1>1. CASE \E cause \in States : Panic(cause)
  BY <1>1, PanicGo
<1> SUFFICES ASSUME ~ \E cause \in States : Panic(cause)
             PROVE  GoInv'
  BY <1>1
<1>2. /\ UNCHANGED <<callVars, repos, nRepos, config, apps, nApps>>
      /\ Untouched'
      /\ \A r \in RepoAddrs : InRegistry(r)' <=> InRegistry(r)
      /\ \A b \in AppAddrs, r \in RepoAddrs : Listed(b, r)' <=> Listed(b, r)
  BY BackgroundRegistry DEF GoInv
<1>3. \A d \in Callers : pc[d] = "delRepoWait" => loc[d].repo \in RepoAddrs
  BY HeldRepo DEF RepoLabels
<1>4. CASE UNCHANGED <<appLock, life, uninst>> /\ (wg' = wg \/ wg' = wg - 1)
  <2>1. Counter'
    <3>1. Running' = Running /\ wg \in Nat
      BY <1>0, <1>4 DEF Running, CheckTypes
    <3>2. Cardinality(Running) \in Nat
      BY FS_CardinalityType DEF GoInv, Counter
    <3> QED BY <1>4, <3>1, <3>2 DEF GoInv, Counter
  <2>2. LifeLock' /\ Retired'
    BY <1>2, <1>4 DEF GoInv, LifeLock, Retired, callVars
  <2>3. Deleting' /\ Doomed' /\ Pending'
    BY <1>2, <1>3, <1>4 DEF GoInv, Deleting, Doomed, Pending, callVars
  <2> QED BY <1>2, <2>1, <2>2, <2>3 DEF GoInv
<1>5. CASE /\ wg' = wg + 1 /\ uninst' = uninst
           /\ \E a \in AppAddrs :
                /\ appLock[a] = Free /\ appLock' = [appLock EXCEPT ![a] = LifeCycle]
                /\ life' = [life EXCEPT ![a] = "running"]
  <2>1. PICK a \in AppAddrs :
          /\ appLock[a] = Free
          /\ \A b \in AppAddrs :
               /\ appLock'[b] = (IF b = a THEN LifeCycle ELSE appLock[b])
               /\ life'[b] = (IF b = a THEN "running" ELSE life[b])
    BY <1>0, <1>5 DEF RegistryTypes, CheckTypes
  <2>2. Running' = Running \cup {a} /\ a \notin Running
    BY <1>0, <2>1, Holders DEF Running, GoroutineInv
  <2>3. Counter'
    <3>1. /\ IsFiniteSet(Running) /\ IsFiniteSet(Running')
          /\ Cardinality(Running') = Cardinality(Running) + 1
      BY <2>2, FS_AddElement DEF GoInv, Counter
    <3>2. Cardinality(Running) \in Nat /\ wg <= Cardinality(Running) /\ wg \in Nat
      BY <1>0, <3>1, FS_CardinalityType DEF GoInv, Counter, CheckTypes
    <3> QED BY <1>5, <3>1, <3>2 DEF Counter
  <2>4. LifeLock' /\ Retired'
    BY <1>2, <2>1, Holders DEF GoInv, LifeLock, Retired, callVars
  <2>5. Deleting' /\ Doomed' /\ Pending'
    BY <1>2, <1>3, <1>5, <2>1, Holders DEF GoInv, Deleting, Doomed, Pending, callVars
  <2> QED BY <1>2, <2>3, <2>4, <2>5 DEF GoInv
<1>6. CASE TickApp
  BY <1>4, <1>5, <1>6 DEF TickApp, States, appVars
<1>7. CASE TickStart \/ TickRepo \/ TickRepoDone \/ TickWait
  BY <1>4, <1>7 DEF TickStart, TickRepo, TickRepoDone, TickWait, appVars
<1>8. CASE ReadApplications
  BY <1>8 DEF ReadApplications, States
<1>9. CASE Restart \/ UNCHANGED vars
  BY <1>4, <1>9 DEF Restart, vars, appVars, goVars
<1> QED BY <1>6, <1>7, <1>8, <1>9 DEF TickStep

LEMMA StepGo ==
  ASSUME IInv, SInv, SInv', ObjectInv, GoInv, [Next]_vars
  PROVE  GoInv'
<1>1. ASSUME NEW c \in Callers, AddOrUpdateApplicationStep(c) \/ DeleteApplicationStep(c)
      PROVE  GoInv'
  <2>1. CASE ClientMoves(c) /\ ClientKeeps(c) /\ NothingNew(c)
    BY <2>1, ClientGo
  <2>2. CASE \E cause \in States : Panic(cause)
    BY <2>2, PanicGo
  <2> QED BY <1>1, <2>1, <2>2, ClientStep, ClientStepKeeps, ClientLists
<1>2. ASSUME NEW c \in Callers, Call(c) \/ AddRepositoryStep(c) \/ DeleteRepositoryStep(c)
      PROVE  GoInv'
  BY <1>2, RepositoryGo
<1> QED BY <1>1, <1>2, GoroutineGo, TickGo DEF Next, CallerStep

-----------------------------------------------------------------------------
(* Nobody waits in a circle                                                *)

WorkInv == IInv /\ SInv /\ HolderInv /\ ObjectInv /\ GoInv

LEMMA StepWork ==
  ASSUME WorkInv, [Next]_vars
  PROVE  WorkInv'
<1>1. IInv' /\ SInv'
  BY StepInv, StepSlots DEF WorkInv
<1>2. HolderInv'
  BY <1>1, StepHolders DEF WorkInv
<1>3. ObjectInv'
  BY <1>1, StepObjects DEF WorkInv, GoInv
<1>4. GoInv'
  BY <1>1, StepGo DEF WorkInv
<1> QED BY <1>1, <1>2, <1>3, <1>4 DEF WorkInv

LEMMA WorkInvariance == Spec => []WorkInv
<1>1. Init => WorkInv
  BY InitInv, InitSlots, InitHolders, InitObjects, InitGo DEF WorkInv
<1>2. WorkInv /\ [Next]_vars => WorkInv'
  BY StepWork
<1> QED BY <1>1, <1>2, PTL DEF Spec

\* While a handler has the mutex of a repository and none of an application's,
\* no handler has one of that repository's applications'.
LEMMA LockedRepo ==
  ASSUME WorkInv, NEW c \in Callers, pc[c] \in RepoLabels \ AppLabels,
         NEW a \in AppAddrs, application[a] # Nil, application[a].repo = loc[c].repo
  PROVE  appLock[a] \notin Callers
<1> SUFFICES ASSUME NEW d \in Callers, appLock[a] = d
             PROVE  FALSE
  OBVIOUS
<1>1. repoLock[loc[c].repo] = c /\ loc[c].repo \notin LeakedRepos
  BY HeldRepo DEF WorkInv
<1>2. pc[d] \in AppLabels /\ loc[d].old = a
  BY <1>1 DEF WorkInv, ObjectInv, AppHolders
<1>3. loc[d].repo = loc[c].repo
  BY <1>2 DEF WorkInv, ObjectInv, HomeInv, AppLabels, OldAppLabels
<1>4. repoLock[loc[d].repo] = d
  BY <1>2, HeldRepo DEF WorkInv, AppLabels, RepoLabels
<1> QED BY <1>1, <1>2, <1>3, <1>4

\* A deletion of a repository uninstalls the applications of that repository.
LEMMA UninstalledHome ==
  ASSUME WorkInv, NEW a \in AppAddrs, uninst[a] # "none"
  PROVE  \E c \in Callers :
           /\ pc[c] = "delRepoWait" /\ Listed(a, loc[c].repo)
           /\ application[a] # Nil /\ application[a].repo = loc[c].repo
<1>1. PICK c \in Callers : pc[c] = "delRepoWait" /\ Listed(a, loc[c].repo)
  BY DEF WorkInv, GoInv, Deleting
<1>2. loc[c].repo \in RepoAddrs
  BY <1>1, HeldRepo DEF WorkInv, RepoLabels
<1>3. application[a] # Nil /\ application[a].repo = loc[c].repo
  BY <1>1, <1>2, ListedHome, Nils DEF WorkInv, Listed
<1> QED BY <1>1, <1>3

LEMMA WantedHome ==
  ASSUME WorkInv, NEW c \in Callers, pc[c] \in {"updAppLock", "delAppLockApp"},
         NEW a, a = Wanted(c), a # Nil
  PROVE  a \in AppAddrs /\ application[a] # Nil /\ application[a].repo = loc[c].repo
<1>1. CASE pc[c] = "updAppLock"
  <2>1. loc[c].repo \in RepoAddrs /\ loc[c].idx \in 1..nApps[loc[c].repo]
    BY <1>1, HeldRepo DEF WorkInv, RepoLabels, SInv, SlotInv, Good
  <2> QED BY <1>1, <2>1, ListedHome DEF WorkInv, Wanted
<1>2. CASE pc[c] = "delAppLockApp"
  BY <1>2 DEF WorkInv, IInv, CallerInv, AppKnown, ObjectInv, HomeInv, OldAppLabels, Wanted
<1> QED BY <1>1, <1>2

\* A handler or a goroutine that waits for a mutex waits for somebody who can
\* move, or for a mutex that a deletion has left locked: the TryLock loops of
\* the handlers, of the uninstallations and of the check loop form no circle
\* (handler.go:57-85 and 190-230, repository.go:222-236 and 270-278).
THEOREM NoCircularWait == Spec => []NoDeadlock
<1> SUFFICES ASSUME WorkInv PROVE NoDeadlock
  <2>1. WorkInv => NoDeadlock
    OBVIOUS
  <2> QED BY <2>1, WorkInvariance, PTL
<1>1. ASSUME NEW c \in Callers, pc[c] = "delRepoLock"
      PROVE  repoLock[loc[c].repo] \in AppCallers \cup {Free}
  <2> SUFFICES ASSUME NEW r, r = loc[c].repo
               PROVE  repoLock[r] \in AppCallers \cup {Free}
    OBVIOUS
  <2>1. r \in RepoAddrs /\ handlerLock = c
    BY <1>1 DEF WorkInv, IInv, CallerInv, RepoKnown, LocksHeld, HandlerLabels, KnownRepoLabels
  <2>2. repoLock[r] \in RepoCallers \cup AppCallers \cup {Free, Ticker}
    BY <2>1 DEF WorkInv, IInv, TypeOK, RegistryTypes, Callers
  <2>3. repoLock[r] # Ticker
    BY <2>1, Holders DEF WorkInv, HolderInv, RepoHolders, IInv, CheckInv
  <2>4. ASSUME NEW d \in RepoCallers, repoLock[r] = d PROVE FALSE
    <3>1. d \in Callers /\ d \notin AppCallers
      BY DisjointAssumption DEF Callers
    <3>2. pc[d] \in RepoLabels /\ pc[d] \notin AppSideLabels
      BY <2>1, <2>4, <3>1 DEF WorkInv, HolderInv, RepoHolders, Side
    <3>3. pc[d] \in {"addRepoStore", "delRepoWait"}
      BY <3>2 DEF RepoLabels, AppSideLabels, RepoSideLabels, NewRepoLabels, HandlerLabels, Labels
    <3> QED BY <1>1, <3>1, <3>3, OneHandler DEF WorkInv, HandlerLabels
  <2> QED BY <2>2, <2>3, <2>4
<1>2. ASSUME NEW c \in Callers, pc[c] \in {"updAppLock", "delAppLockApp"}, Wanted(c) # Nil
      PROVE  appLock[Wanted(c)] \notin Callers /\ uninst[Wanted(c)] = "none"
  <2> SUFFICES ASSUME NEW a, a = Wanted(c)
               PROVE  appLock[a] \notin Callers /\ uninst[a] = "none"
    OBVIOUS
  <2>1. a \in AppAddrs /\ application[a] # Nil /\ application[a].repo = loc[c].repo
    BY <1>2, WantedHome
  <2>2. appLock[a] \notin Callers
    BY <1>2, <2>1, LockedRepo DEF RepoLabels, AppLabels
  <2>3. ASSUME uninst[a] # "none" PROVE FALSE
    <3>1. PICK d \in Callers : pc[d] = "delRepoWait" /\ application[a].repo = loc[d].repo
      BY <2>1, <2>3, UninstalledHome
    <3>2. repoLock[loc[d].repo] = d /\ repoLock[loc[c].repo] = c
      BY <1>2, <3>1, HeldRepo DEF WorkInv, RepoLabels
    <3> QED BY <1>2, <2>1, <3>1, <3>2
  <2> QED BY <2>2, <2>3
<1>3. ASSUME NEW a \in AppAddrs, uninst[a] = "waiting"
      PROVE  appLock[a] \in {Free, LifeCycle}
  <2>1. PICK c \in Callers :
          /\ pc[c] = "delRepoWait"
          /\ application[a] # Nil /\ application[a].repo = loc[c].repo
    BY <1>3, UninstalledHome
  <2>2. appLock[a] \notin Callers
    BY <2>1, LockedRepo DEF RepoLabels, AppLabels
  <2>3. appLock[a] # Uninstaller
    BY <1>3 DEF WorkInv, GoInv, Pending
  <2> QED BY <2>2, <2>3 DEF WorkInv, IInv, TypeOK, RegistryTypes
<1>4. \A a \in AppAddrs : appLock[a] = LifeCycle => life[a] # "none"
  BY DEF WorkInv, GoInv, LifeLock
<1>5. ASSUME wg > 0 PROVE \E a \in AppAddrs : life[a] = "running"
  <2>1. Running # {}
    <3>1. wg \in Nat /\ wg <= Cardinality(Running)
      BY DEF WorkInv, IInv, TypeOK, CheckTypes, GoInv, Counter
    <3>2. Cardinality({}) = 0
      BY FS_EmptySet
    <3> QED BY <1>5, <3>1, <3>2
  <2> QED BY <2>1 DEF Running
<1> QED BY <1>1, <1>2, <1>3, <1>4, <1>5 DEF NoDeadlock

-----------------------------------------------------------------------------
(* Clients that work on different applications                             *)

\* Two clients never work at a time on applications of one name for one URL.
AtWork == AppSideLabels \ {"AddOrUpdateApplication", "DeleteApplication"}
Apart ==
  \A c, d \in AppCallers :
    /\ pc[c] \in AtWork /\ pc[d] \in AtWork /\ req[c].name = req[d].name
    /\ config[loc[c].repo].url = config[loc[d].repo].url
    => c = d
Subject(c, r, name) == pc[c] \in AtWork /\ loc[c].repo = r /\ req[c].name = name

\* A name is in one slot of a repository at most, for the only handler that
\* could put it into another one has seen that it is in none; and nobody moves
\* the slots between the scan of a deletion and the removal, unless the mutex
\* of the repository leaks, and then the deletion never gets it.
NamesUnique ==
  \A r \in RepoAddrs : \A i, j \in 1..nApps[r] :
    /\ apps[r][i] # Nil /\ apps[r][j] # Nil
    /\ application[apps[r][i]].name = application[apps[r][j]].name
    => i = j
AddLabels == {"addAppNew", "addAppLock", "addAppStore"}
RemovalLabels == {"delAppLock", "delAppLockApp", "delApp"}
NameFree(c) == pc[c] \in AddLabels => AppSlots(loc[c].repo, req[c].name) = {}
Holds(r, i, a, name) ==
  i \in 1..nApps[r] /\ apps[r][i] = a /\ a # Nil /\ application[a].name = name
RemovalSlot(c) ==
  pc[c] \in RemovalLabels /\ loc[c].repo \notin LeakedRepos =>
    Holds(loc[c].repo, loc[c].idx, loc[c].old, req[c].name)

\* A repository that was added for the URL after the one a handler works for
\* was deleted does not hold the application.
Elsewhere(c) ==
  pc[c] \in MadeLabels =>
    \A s \in RepoAddrs \ {loc[c].repo} :
      InRegistry(s) /\ config[s].url = config[loc[c].repo].url =>
        AppSlots(s, req[c].name) = {}

NameInv ==
  NamesUnique /\ \A c \in Callers : NameFree(c) /\ RemovalSlot(c) /\ Elsewhere(c)

\* What a life cycle works on is in a slot of a registered repository.
LifeListed ==
  \A a \in AppAddrs : life[a] = "running" =>
    \E r \in RepoAddrs : InRegistry(r) /\ Listed(a, r)

LEMMA PanicNames ==
  ASSUME NEW cause, Panic(cause)
  PROVE  NameInv' /\ LifeListed'
<1>1. /\ \A r \in RepoAddrs : nApps'[r] = 0
      /\ \A a \in AppAddrs : life'[a] = "none"
      /\ \A c \in Callers : pc'[c] = "idle"
  BY DEF Panic
<1>2. NamesUnique' /\ LifeListed'
  BY <1>1 DEF NamesUnique, LifeListed
<1> QED BY <1>1, <1>2 DEF NameInv, NameFree, RemovalSlot, Elsewhere, AddLabels, RemovalLabels,
          MadeLabels

LEMMA InitNames == Init => NameInv /\ LifeListed
<1> SUFFICES ASSUME Init PROVE NameInv /\ LifeListed
  OBVIOUS
<1>1. /\ \A r \in RepoAddrs : nApps[r] = 0
      /\ \A a \in AppAddrs : life[a] = "none"
      /\ \A c \in Callers : pc[c] = "idle"
  BY DEF Init
<1>2. NamesUnique /\ LifeListed
  BY <1>1 DEF NamesUnique, LifeListed
<1> QED BY <1>1, <1>2 DEF NameInv, NameFree, RemovalSlot, Elsewhere, AddLabels, RemovalLabels,
          MadeLabels

\* A repository is registered with no applications, and keeps its URL.
RegistryKept ==
  \A r \in RepoAddrs :
    /\ InRegistry(r)' => InRegistry(r) \/ nApps[r] = 0
    /\ config[r] # Nil => config'[r] = config[r]

LEMMA RegistryKeeps ==
  ASSUME WorkInv, NEW c \in Callers, Call(c) \/ AddRepositoryStep(c) \/ DeleteRepositoryStep(c)
  PROVE  RegistryKept \/ \E cause \in States : Panic(cause)
<1>1. CASE AddRepositoryGrow(c)
  <2>1. RegistryTypes /\ config[loc[c].repo] = Nil
    BY <1>1 DEF WorkInv, IInv, TypeOK, CallerInv, RepoKnown, NewRepoLabels, AddRepositoryGrow
  <2>2. \A r \in RepoAddrs : r # loc[c].repo => config'[r] = config[r]
    BY <1>1, <2>1 DEF AddRepositoryGrow, RegistryTypes
  <2>3. \A r \in RepoAddrs : InRegistry(r)' => InRegistry(r)
    BY <1>1, GrowRegistry DEF WorkInv
  <2> QED BY <2>1, <2>2, <2>3 DEF RegistryKept
<1>2. CASE AddRepositoryStore(c)
  <2>1. nApps[loc[c].repo] = 0 /\ config' = config
    BY <1>2 DEF AddRepositoryStore, WorkInv, GoInv, Untouched
  <2> QED BY <1>2, <2>1, StoreRegistry DEF RegistryKept, WorkInv
<1>3. CASE DeleteRepositoryRemove(c)
  <2>1. config' = config
    BY <1>3 DEF DeleteRepositoryRemove
  <2> QED BY <1>3, <2>1, RemoveRegistry DEF RegistryKept, WorkInv
<1>4. ASSUME RepositoryMoves(c) \/ CallMoves(c), UNCHANGED <<repos, nRepos, config>>,
             pc[c] # "addRepoStore", pc'[c] # "addRepoStore"
      PROVE  RegistryKept
  <2>1. Others(c)
    BY <1>4 DEF RepositoryMoves, CallMoves
  <2> QED BY <1>4, <2>1, SameRegistry DEF RegistryKept
<1>5. CASE Call(c)
  BY <1>4, <1>5, CallStep DEF WorkInv, CallMoves, listVars
<1>6. CASE \/ AddRepositoryCheck(c) \/ AddRepositoryLock(c) \/ AddRepositoryRefuse(c)
           \/ DeleteRepositoryLock(c) \/ DeleteRepositoryFind(c) \/ DeleteRepositorySpawn(c)
           \/ DeleteRepositoryNil(c)
  <2>1. \/ \E cause \in States : Panic(cause)
        \/ /\ UNCHANGED <<repos, nRepos, config>> /\ pc[c] # "addRepoStore"
           /\ Return(c) \/ \E label \in Labels \ {"addRepoStore"} : pc' = [pc EXCEPT ![c] = label]
    BY <1>6 DEF AddRepositoryCheck, AddRepositoryLock, AddRepositoryRefuse, DeleteRepositoryLock,
       DeleteRepositoryFind, DeleteRepositorySpawn, DeleteRepositoryNil, Goto, Labels, States,
       listVars
  <2>2. CallTypes
    BY DEF WorkInv, IInv, TypeOK
  <2>3. ASSUME Return(c) \/ \E label \in Labels \ {"addRepoStore"} : pc' = [pc EXCEPT ![c] = label]
        PROVE  pc'[c] # "addRepoStore"
    BY <2>2, <2>3 DEF Return, CallTypes
  <2>4. AddRepositoryStep(c) \/ DeleteRepositoryStep(c)
    BY <1>6 DEF AddRepositoryStep, DeleteRepositoryStep
  <2> QED BY <1>4, <2>1, <2>3, <2>4, RepositoryStep DEF WorkInv
<1> QED BY <1>1, <1>2, <1>3, <1>5, <1>6 DEF AddRepositoryStep, DeleteRepositoryStep

\* A step that leaves the slots and the objects alone.
LEMMA QuietNames ==
  ASSUME NameInv, UNCHANGED <<apps, nApps, application>>, LeakedRepos \subseteq LeakedRepos',
         \A d \in Callers :
           \/ pc'[d] = pc[d] /\ req'[d] = req[d] /\ loc'[d] = loc[d]
           \/ pc'[d] \notin MadeLabels \cup RemovalLabels,
         RegistryKept, IInv
  PROVE  NameInv'
<1>1. NamesUnique'
  BY DEF NameInv, NamesUnique
<1>2. ASSUME NEW d \in Callers PROVE NameFree(d)' /\ RemovalSlot(d)'
  <2>1. CASE pc'[d] \notin MadeLabels \cup RemovalLabels
    BY <2>1 DEF NameFree, RemovalSlot, AddLabels, MadeLabels
  <2>2. CASE pc'[d] = pc[d] /\ req'[d] = req[d] /\ loc'[d] = loc[d]
    BY <2>2 DEF NameInv, NameFree, RemovalSlot, Holds, AppSlots
  <2> QED BY <2>1, <2>2
<1>3. ASSUME NEW d \in Callers, pc'[d] \in MadeLabels,
             NEW s \in RepoAddrs, s # loc'[d].repo, InRegistry(s)',
             config'[s].url = config'[loc'[d].repo].url
      PROVE  AppSlots(s, req[d].name)' = {}
  <2>1. pc'[d] = pc[d] /\ req'[d] = req[d] /\ loc'[d] = loc[d]
    BY <1>3
  <2>2. CASE nApps[s] = 0
    BY <2>2 DEF AppSlots
  <2>3. CASE InRegistry(s)
    <3>1. config[s] # Nil /\ config[loc[d].repo] # Nil /\ loc[d].repo \in RepoAddrs
      <4>1. config[s] # Nil
        BY <2>3, BoundAssumption DEF InRegistry, Settled, IInv, RegistryInv, TypeOK, RegistryTypes
      <4> QED BY <1>3, <2>1, <4>1, AtKnownRepo DEF MadeLabels, KnownRepoLabels
    <3>2. config'[s] = config[s] /\ config'[loc[d].repo] = config[loc[d].repo]
      BY <3>1 DEF RegistryKept
    <3>3. AppSlots(s, req[d].name) = {}
      BY <1>3, <2>1, <2>3, <3>2 DEF NameInv, Elsewhere
    <3> QED BY <2>1, <3>3 DEF AppSlots
  <2> QED BY <1>3, <2>2, <2>3 DEF RegistryKept
<1> QED BY <1>1, <1>2, <1>3 DEF NameInv, Elsewhere

\* What a handler of an application leaves to the others: a name that is in a
\* slot was in one before, or is the one it works on; and a slot keeps its
\* application, unless it has that name or the mutex of the repository leaks.
NamesFrom(c) ==
  \A r \in RepoAddrs : \A i \in 1..nApps'[r] : apps'[r][i] # Nil =>
    \/ Subject(c, r, application'[apps'[r][i]].name)
    \/ AppSlots(r, application'[apps'[r][i]].name) # {}
NamesStay(c) ==
  \A r \in RepoAddrs : \A i \in 1..nApps[r] : apps[r][i] # Nil =>
    \/ Subject(c, r, application[apps[r][i]].name) \/ r \in LeakedRepos'
    \/ /\ i \in 1..nApps'[r] /\ apps'[r][i] = apps[r][i]
       /\ application'[apps[r][i]].name = application[apps[r][i]].name
NamesKept(c) == NamesFrom(c) /\ NamesStay(c)

LEMMA StableNames ==
  ASSUME Apart, WorkInv, NameInv, NEW c \in Callers, NEW d \in Callers, d # c,
         ClientMoves(c), NamesKept(c)
  PROVE  NameFree(d)' /\ RemovalSlot(d)'
<1> SUFFICES ASSUME NEW r, r = loc[d].repo, NEW name, name = req[d].name
             PROVE  NameFree(d)' /\ RemovalSlot(d)'
  OBVIOUS
<1>1. /\ pc'[d] = pc[d] /\ loc'[d] = loc[d] /\ req'[d] = req[d]
      /\ NameFree(d) /\ RemovalSlot(d) /\ Side(d) /\ c \in AppCallers
  BY DEF ClientMoves, Others, NameInv, WorkInv, HolderInv, Side
<1>2. ASSUME pc[d] \in AddLabels \cup RemovalLabels
      PROVE  r \in RepoAddrs /\ ~ Subject(c, r, name)
  <2>1. pc[d] \in AtWork /\ pc[d] \in KnownRepoLabels
    BY <1>2 DEF AddLabels, RemovalLabels, AtWork, AppSideLabels, RepoSideLabels, NewRepoLabels,
       HandlerLabels, Labels, KnownRepoLabels
  <2>2. d \in AppCallers
    BY <1>1, <2>1 DEF Side, AtWork
  <2>3. r \in RepoAddrs
    BY <2>1, AtKnownRepo DEF WorkInv
  <2>4. Subject(d, r, name)
    BY <2>1 DEF Subject
  <2>5. ~ Subject(c, r, name)
    BY <1>1, <2>2, <2>4 DEF Apart, Subject
  <2> QED BY <2>3, <2>5
<1>3. ASSUME pc[d] \in AddLabels PROVE AppSlots(r, name)' = {}
  <2> SUFFICES ASSUME NEW i \in 1..nApps'[r], apps'[r][i] # Nil,
                      application'[apps'[r][i]].name = name
               PROVE  FALSE
    BY DEF AppSlots
  <2>1. r \in RepoAddrs /\ ~ Subject(c, r, name)
    BY <1>2, <1>3
  <2>2. AppSlots(r, name) = {}
    BY <1>1, <1>3 DEF NameFree
  <2> QED BY <2>1, <2>2 DEF NamesKept, NamesFrom
<1>4. ASSUME pc[d] \in RemovalLabels, r \notin LeakedRepos'
      PROVE  Holds(r, loc[d].idx, loc[d].old, name)'
  <2> SUFFICES ASSUME NEW i, i = loc[d].idx, NEW a, a = loc[d].old
               PROVE  Holds(r, i, a, name)'
    BY <1>1
  <2>1. r \in RepoAddrs /\ ~ Subject(c, r, name)
    BY <1>2, <1>4
  <2>2. r \notin LeakedRepos
    BY <1>4, StaysLeaked DEF ClientMoves, WorkInv
  <2>3. Holds(r, i, a, name)
    BY <1>1, <1>4, <2>2 DEF RemovalSlot
  <2>4. i \in 1..nApps[r] /\ apps[r][i] = a /\ a # Nil /\ application[a].name = name
    BY <2>3 DEF Holds
  <2> QED BY <1>4, <2>1, <2>4 DEF NamesKept, NamesStay, Holds
<1> QED BY <1>1, <1>3, <1>4 DEF NameFree, RemovalSlot

\* The repository a request finds is the only one registered for the URL; later
\* only the client itself could list the name in another one.
LEMMA StableElsewhere ==
  ASSUME Apart, WorkInv, NameInv, NEW c \in Callers, NEW d \in Callers,
         ClientMoves(c), NamesFrom(c)
  PROVE  Elsewhere(d)'
<1> SUFFICES ASSUME NEW r, r = loc'[d].repo, NEW name, name = req'[d].name,
                    pc'[d] \in MadeLabels, NEW s \in RepoAddrs, s # r,
                    InRegistry(s)', config'[s].url = config'[r].url
             PROVE  AppSlots(s, name)' = {}
  BY DEF Elsewhere
<1>1. /\ Others(c) /\ FindsRepo(c) /\ config' = config /\ c \in AppCallers
      /\ InRegistry(s)
  <2>1. /\ Others(c) /\ FindsRepo(c) /\ UNCHANGED <<repos, nRepos, config>> /\ c \in AppCallers
        /\ pc[c] # "addRepoStore" /\ pc'[c] # "addRepoStore"
    BY DEF ClientMoves, WorkInv, HolderInv, Side, AppSideLabels, RepoSideLabels, HandlerLabels
  <2> QED BY <2>1, SameRegistry
<1> SUFFICES ASSUME AppSlots(s, name)' # {} PROVE FALSE
  OBVIOUS
<1>2. Subject(c, s, name) \/ AppSlots(s, name) # {}
  <2>1. PICK i \in 1..nApps'[s] : apps'[s][i] # Nil /\ application'[apps'[s][i]].name = name
    BY DEF AppSlots
  <2> QED BY <2>1 DEF NamesFrom
<1>3. ASSUME pc[d] \in MadeLabels, loc[d].repo = r, req[d].name = name PROVE FALSE
  <2>1. AppSlots(s, name) = {}
    BY <1>1, <1>3 DEF NameInv, Elsewhere
  <2>2. pc[d] \in AtWork /\ d \in AppCallers
    BY <1>3 DEF MadeLabels, AtWork, AppSideLabels, RepoSideLabels, NewRepoLabels, HandlerLabels,
       Labels, WorkInv, HolderInv, Side
  <2>3. c = d
    BY <1>1, <1>2, <1>3, <2>1, <2>2 DEF Apart, Subject
  <2> QED BY <1>2, <1>3, <2>1, <2>3 DEF Subject
<1>4. CASE d # c
  BY <1>1, <1>3, <1>4 DEF Others
<1>5. CASE d = c /\ pc[c] = "AddOrUpdateApplication"
  <2>1. r \in GetRepositoryConfig(req[c].url) \ {Nil}
    BY <1>1, <1>5 DEF FindsRepo, MadeLabels
  <2>2. PICK i \in 1..nRepos :
          /\ repos[i] = r /\ config[r].url = req[c].url
          /\ \A j \in 1..nRepos : config[repos[j]].url = req[c].url => i <= j
    BY <2>1 DEF GetRepositoryConfig, First
  <2>3. PICK k \in Settled : repos[k] = s
    BY <1>1 DEF InRegistry
  <2>4. i <= k /\ i \in Settled
    BY <1>1, <2>2, <2>3 DEF Settled
  <2> QED BY <1>1, <2>2, <2>3, <2>4 DEF WorkInv, IInv, RegistryInv, UniqueURL
<1>6. CASE d = c /\ pc[c] \in MadeLabels
  BY <1>1, <1>3, <1>6 DEF FindsRepo, MadeLabels
<1> QED BY <1>1, <1>4, <1>5, <1>6 DEF FindsRepo

\* A step of a handler of an application.
LEMMA HandlerNames ==
  ASSUME Apart, WorkInv, NameInv, NEW c \in Callers, ClientMoves(c), NamesKept(c),
         NamesUnique', NameFree(c)', RemovalSlot(c)'
  PROVE  NameInv'
BY StableNames, StableElsewhere DEF NameInv, NamesKept

\* Objects that are in no slot may change their names.
LEMMA SameNames ==
  ASSUME IInv, SInv, NameInv, NEW new, Unlisted(new), UNCHANGED <<apps, nApps>>,
         \A a \in AppAddrs : a # new => application'[a] = application[a]
  PROVE  NamesUnique' /\ \A c \in Callers : NamesKept(c)
<1>1. \A r \in RepoAddrs : \A i \in 1..nApps[r] :
        apps[r][i] # Nil => application'[apps[r][i]] = application[apps[r][i]]
  BY ListedObject DEF Unlisted
<1>2. NamesUnique'
  BY <1>1 DEF NameInv, NamesUnique
<1>3. \A c \in Callers : NamesKept(c)
  BY <1>1 DEF NamesKept, NamesFrom, NamesStay, AppSlots
<1> QED BY <1>2, <1>3

\* A step of the handler that leaves the slots and the objects alone.
LEMMA MoveNames ==
  ASSUME Apart, WorkInv, NameInv, NEW c \in Callers, ClientMoves(c),
         UNCHANGED <<apps, nApps, application>>, NameFree(c)', RemovalSlot(c)'
  PROVE  NameInv'
<1>1. NamesUnique'
  BY DEF NameInv, NamesUnique
<1>2. NamesKept(c)
  BY DEF NamesKept, NamesFrom, NamesStay, AppSlots
<1> QED BY <1>1, <1>2, HandlerNames

\* A handler that drops the object of its request and answers.
LEMMA DropNames ==
  ASSUME Apart, WorkInv, NameInv, NEW c \in Callers, ClientMoves(c),
         pc[c] \in MadeLabels, Return(c), Drop({loc[c].app}), UNCHANGED <<apps, nApps>>
  PROVE  NameInv'
<1>1. Unlisted(loc[c].app)
  BY Nils DEF WorkInv, SInv, OwnInv
<1>2. NamesUnique' /\ NamesKept(c)
  BY <1>1, SameNames DEF WorkInv, Drop
<1>3. NameFree(c)' /\ RemovalSlot(c)'
  BY ReturnSlots DEF WorkInv, NameFree, RemovalSlot, AddLabels, RemovalLabels
<1> QED BY <1>2, <1>3, HandlerNames

LEMMA MakeNames ==
  ASSUME Apart, WorkInv, NameInv, NEW c \in Callers, ClientMoves(c),
         AddOrUpdateApplication(c)
  PROVE  NameInv'
<1> USE DEF AddLabels, RemovalLabels
<1>0. CallTypes /\ pc[c] = "AddOrUpdateApplication"
  BY DEF WorkInv, IInv, TypeOK, AddOrUpdateApplication
<1>1. CASE Panic("nil dereference")
  BY <1>1, PanicNames
<1>2. CASE Return(c) /\ UNCHANGED <<repoVars, appVars>>
  <2>1. NameFree(c)' /\ RemovalSlot(c)'
    BY <1>2, ReturnSlots DEF WorkInv, NameFree, RemovalSlot
  <2> QED BY <1>2, <2>1, MoveNames DEF WorkInv, repoVars, appVars
<1>3. CASE /\ \E new : application' = [application EXCEPT ![loc[c].app] = new]
           /\ pc' = [pc EXCEPT ![c] = "updScan"]
           /\ UNCHANGED repoVars
  <2>1. NameFree(c)' /\ RemovalSlot(c)'
    BY <1>0, <1>3 DEF NameFree, RemovalSlot, CallTypes
  <2>2. Unlisted(loc[c].app)
    BY <1>0, Nils DEF WorkInv, SInv, OwnInv
  <2>3. \A a \in AppAddrs : a # loc[c].app => application'[a] = application[a]
    BY <1>3 DEF WorkInv, IInv, TypeOK, RegistryTypes
  <2>4. NamesUnique' /\ NamesKept(c)
    BY <1>3, <2>2, <2>3, SameNames DEF WorkInv, repoVars
  <2> QED BY <2>1, <2>4, HandlerNames
<1> QED BY <1>1, <1>2, <1>3 DEF AddOrUpdateApplication

LEMMA ScanNames ==
  ASSUME Apart, WorkInv, NameInv, NEW c \in Callers, ClientMoves(c), AddOrUpdateScan(c)
  PROVE  NameInv'
<1> USE DEF AddLabels, RemovalLabels
<1>0. CallTypes /\ pc[c] = "updScan"
  BY DEF WorkInv, IInv, TypeOK, AddOrUpdateScan
<1>1. CASE /\ AppSlots(loc[c].repo, req[c].name) = {} /\ Goto(c, "addAppNew")
           /\ UNCHANGED <<repoVars, appVars>>
  <2>1. pc'[c] = "addAppNew" /\ loc'[c] = loc[c] /\ req'[c] = req[c]
    BY <1>0, <1>1, GotoEffect DEF Labels
  <2>2. NameFree(c)' /\ RemovalSlot(c)'
    BY <1>1, <2>1 DEF NameFree, RemovalSlot, AppSlots, repoVars, appVars
  <2> QED BY <1>1, <2>2, MoveNames DEF WorkInv, repoVars, appVars
<1>2. CASE Panic("nil dereference")
  BY <1>2, PanicNames
<1>3. CASE pc' = [pc EXCEPT ![c] = "updCompare"] /\ UNCHANGED <<repoVars, appVars>>
  <2>1. NameFree(c)' /\ RemovalSlot(c)'
    BY <1>0, <1>3 DEF NameFree, RemovalSlot, CallTypes
  <2> QED BY <1>3, <2>1, MoveNames DEF WorkInv, repoVars, appVars
<1> QED BY <1>1, <1>2, <1>3 DEF AddOrUpdateScan, appVars

LEMMA CompareNames ==
  ASSUME Apart, WorkInv, NameInv, NEW c \in Callers, ClientMoves(c), AddOrUpdateCompare(c)
  PROVE  NameInv'
<1> USE DEF AddLabels, RemovalLabels
<1>0. CallTypes /\ pc[c] = "updCompare"
  BY DEF WorkInv, IInv, TypeOK, AddOrUpdateCompare
<1>1. CASE Goto(c, "updRepoLock") /\ UNCHANGED <<repoVars, appVars>>
  <2>1. NameFree(c)' /\ RemovalSlot(c)'
    BY <1>0, <1>1, GotoEffect DEF NameFree, RemovalSlot, Labels
  <2> QED BY <1>1, <2>1, MoveNames DEF WorkInv, repoVars, appVars
<1>2. CASE Panic("index out of range")
  BY <1>2, PanicNames
<1>3. CASE Drop({loc[c].app}) /\ Return(c) /\ UNCHANGED repoVars
  BY <1>0, <1>3, DropNames DEF MadeLabels, repoVars
<1> QED BY <1>1, <1>2, <1>3 DEF AddOrUpdateCompare, appVars

LEMMA NewApplicationNames ==
  ASSUME Apart, WorkInv, NameInv, NEW c \in Callers, ClientMoves(c), AddApplicationNew(c)
  PROVE  NameInv'
<1> USE DEF AddLabels, RemovalLabels
<1>0. CallTypes /\ pc[c] = "addAppNew" /\ UNCHANGED <<apps, nApps>> /\ NameFree(c)
  BY DEF WorkInv, IInv, TypeOK, AddApplicationNew, repoVars, NameInv
<1>1. CASE Goto(c, "addAppLock") /\ UNCHANGED application
  <2>1. pc'[c] = "addAppLock" /\ loc'[c] = loc[c] /\ req'[c] = req[c]
    BY <1>0, <1>1, GotoEffect DEF Labels
  <2>2. NameFree(c)' /\ RemovalSlot(c)'
    BY <1>0, <1>1, <2>1 DEF NameFree, RemovalSlot, AppSlots
  <2> QED BY <1>0, <1>1, <2>2, MoveNames DEF WorkInv
<1>2. CASE Return(c) /\ Drop({loc[c].app})
  BY <1>0, <1>2, DropNames DEF MadeLabels
<1> QED BY <1>1, <1>2 DEF AddApplicationNew

LEMMA GrowNames ==
  ASSUME Apart, WorkInv, SInv', NameInv, NEW c \in Callers, ClientMoves(c),
         AddApplicationGrow(c)
  PROVE  NameInv'
<1> SUFFICES ASSUME NEW r, r = loc[c].repo, NEW n, n = nApps[r]
             PROVE  NameInv'
  OBVIOUS
<1>0. /\ CallTypes /\ pc[c] = "addAppLock" /\ r \in RepoAddrs /\ NameFree(c)
      /\ nApps' = [nApps EXCEPT ![r] = n + 1]
      /\ Goto(c, "addAppStore") /\ UNCHANGED <<apps, application>>
  BY AtKnownRepo DEF WorkInv, KnownRepoLabels, AddApplicationGrow, NameInv, appVars
<1>1. pc'[c] = "addAppStore" /\ loc'[c] = loc[c] /\ req'[c] = req[c]
  BY <1>0, GotoEffect DEF Labels
<1>2. apps[r][n + 1] = Nil /\ nApps'[r] = n + 1
  BY <1>0, <1>1, Slots DEF WorkInv, SInv, SlotInv
<1>3. \A s \in RepoAddrs : \A i \in 1..nApps'[s] : apps[s][i] # Nil => i \in 1..nApps[s]
  BY <1>0, <1>2, Slots DEF WorkInv
<1>4. NamesUnique'
  BY <1>0, <1>3 DEF NameInv, NamesUnique
<1>5. NameFree(c)' /\ RemovalSlot(c)'
  BY <1>0, <1>1, <1>3 DEF NameFree, RemovalSlot, AppSlots, AddLabels, RemovalLabels
<1>6. \A s \in RepoAddrs : \A i \in 1..nApps[s] : i \in 1..nApps'[s]
  BY <1>0, Slots DEF WorkInv
<1>7. NamesKept(c)
  BY <1>0, <1>3, <1>6 DEF NamesKept, NamesFrom, NamesStay, AppSlots
<1> QED BY <1>4, <1>5, <1>7, HandlerNames

LEMMA StoreNames ==
  ASSUME Apart, WorkInv, NameInv, NEW c \in Callers, ClientMoves(c), AddApplicationStore(c)
  PROVE  NameInv'
<1> SUFFICES ASSUME NEW r, r = loc[c].repo, NEW n, n = nApps[r], NEW new, new = loc[c].app
             PROVE  NameInv'
  OBVIOUS
<1>0. /\ pc[c] = "addAppStore" /\ r \in RepoAddrs /\ NameFree(c)
      /\ apps' = [apps EXCEPT ![r][n] = new] /\ nApps' = nApps
      /\ Return(c) /\ application' = application
  BY HeldRepo DEF WorkInv, RepoLabels, AddApplicationStore, NameInv, appVars
<1>1. n > 0 /\ apps[r][n] = Nil /\ application[new].name = req[c].name
  BY <1>0 DEF WorkInv, SInv, SlotInv, OwnInv, MadeLabels
<1>2. /\ n \in 1..nApps[r] /\ apps'[r][n] = new
      /\ \A s \in RepoAddrs : \A i \in 1..nApps[s] : s # r \/ i # n => apps'[s][i] = apps[s][i]
  <2>1. SetsSlot(r, n, new)
    BY <1>0 DEF SetsSlot
  <2>2. IInv /\ r \in RepoAddrs /\ n \in 1..nApps[r]
    BY <1>0, <1>1, Slots DEF WorkInv
  <2> QED BY <2>1, <2>2, SlotSet
<1>3. \A i \in 1..nApps[r] : apps[r][i] # Nil => application[apps[r][i]].name # req[c].name
  BY <1>0 DEF NameFree, AppSlots, AddLabels
<1>4. NamesUnique'
  <2> SUFFICES ASSUME NEW s \in RepoAddrs, NEW i \in 1..nApps[s], NEW j \in 1..nApps[s],
                      apps'[s][i] # Nil, apps'[s][j] # Nil,
                      application[apps'[s][i]].name = application[apps'[s][j]].name
               PROVE  i = j
    <3>1. nApps' = nApps /\ application' = application
      BY <1>0
    <3> QED BY <3>1 DEF NamesUnique
  \* No other slot of the repository holds an application of that name.
  <2>1. ASSUME NEW k \in 1..nApps[r], k # n, apps'[r][k] # Nil
        PROVE  application[apps'[r][k]].name # application[apps'[r][n]].name
    <3>1. apps'[r][k] = apps[r][k]
      BY <1>0, <1>2, <2>1
    <3>2. application[apps[r][k]].name # req[c].name
      BY <1>3, <2>1, <3>1
    <3>3. application[apps'[r][n]].name = req[c].name
      BY <1>1, <1>2
    <3> QED BY <3>1, <3>2, <3>3
  <2>2. CASE s = r /\ (i = n \/ j = n)
    BY <2>1, <2>2
  <2>3. CASE s # r \/ (i # n /\ j # n)
    <3>1. apps'[s][i] = apps[s][i] /\ apps'[s][j] = apps[s][j]
      BY <1>2, <2>3
    <3> QED BY <3>1 DEF NameInv, NamesUnique
  <2> QED BY <2>2, <2>3
<1>5. NameFree(c)' /\ RemovalSlot(c)'
  BY <1>0, ReturnSlots DEF WorkInv, NameFree, RemovalSlot, AddLabels, RemovalLabels
<1>6. \A s \in RepoAddrs : \A i \in 1..nApps[s] :
        apps'[s][i] # apps[s][i] => s = r /\ i = n /\ apps[s][i] = Nil
  BY <1>1, <1>2
<1>7. Subject(c, r, application[new].name)
  BY <1>0, <1>1 DEF Subject, AtWork, AppSideLabels, RepoSideLabels, NewRepoLabels, HandlerLabels,
     Labels
<1>8. NamesKept(c)
  <2>1. ASSUME NEW s \in RepoAddrs, NEW i \in 1..nApps[s], apps'[s][i] # Nil
        PROVE  \/ Subject(c, s, application[apps'[s][i]].name)
               \/ AppSlots(s, application[apps'[s][i]].name) # {}
    <3>1. CASE s = r /\ i = n
      BY <1>2, <1>7, <3>1
    <3>2. CASE s # r \/ i # n
      <4>1. i \in AppSlots(s, application[apps'[s][i]].name)
        BY <1>2, <2>1, <3>2 DEF AppSlots
      <4> QED BY <4>1
    <3> QED BY <3>1, <3>2
  <2>2. nApps' = nApps /\ application' = application
    BY <1>0
  <2>3. NamesFrom(c)
    BY <2>1, <2>2 DEF NamesFrom
  <2>4. NamesStay(c)
    BY <1>6, <2>2 DEF NamesStay
  <2> QED BY <2>3, <2>4 DEF NamesKept
<1> QED BY <1>4, <1>5, <1>8, HandlerNames

LEMMA UpdateNames ==
  ASSUME Apart, WorkInv, NameInv, NEW c \in Callers, ClientMoves(c),
         UpdateLockRepo(c) \/ UpdateLockApp(c)
  PROVE  NameInv'
<1>0. CallTypes
  BY DEF WorkInv, IInv, TypeOK
<1>1. CASE Panic("nil dereference")
  BY <1>1, PanicNames
<1>2. CASE \E label \in {"updAppLock", "updApp"} :
             pc' = [pc EXCEPT ![c] = label] /\ UNCHANGED <<apps, nApps, application>>
  <2>1. NameFree(c)' /\ RemovalSlot(c)'
    BY <1>0, <1>2 DEF NameFree, RemovalSlot, CallTypes, AddLabels, RemovalLabels
  <2> QED BY <1>2, <2>1, MoveNames DEF WorkInv
<1> QED BY <1>1, <1>2 DEF UpdateLockRepo, UpdateLockApp, Goto, repoVars, appVars

\* The slot keeps its application, gets one of the same name or is emptied.
LEMMA UpdateAppNames ==
  ASSUME Apart, WorkInv, NameInv, NEW c \in Callers, ClientMoves(c), UpdateApp(c)
  PROVE  NameInv'
<1> SUFFICES ASSUME NEW r, r = loc[c].repo, NEW i, i = loc[c].idx,
                    NEW old, old = loc[c].old, NEW new, new = loc[c].app
             PROVE  NameInv'
  OBVIOUS
<1>0. pc[c] = "updApp" /\ r \in RepoAddrs /\ nApps' = nApps /\ Return(c)
  BY HeldRepo DEF WorkInv, RepoLabels, UpdateApp
<1>1. /\ old \in AppAddrs /\ new \in AppAddrs /\ i \in 1..nApps[r] /\ apps[r][i] = old
      /\ application[old].name = req[c].name /\ application[new].name = req[c].name
      /\ Unlisted(new)
  <2>1. old \in AppAddrs
    BY <1>0 DEF WorkInv, IInv, CallerInv, AppKnown, OldAppLabels
  <2>2. Good(r, i, req[c].name) /\ apps[r][i] = old
    BY <1>0 DEF WorkInv, SInv, SlotInv
  <2>3. new \in AppAddrs /\ Unlisted(new) /\ application[new].name = req[c].name
    BY <1>0, Nils DEF WorkInv, SInv, OwnInv, MadeLabels
  <2> QED BY <2>1, <2>2, <2>3, Nils DEF Good
<1>2. ASSUME NEW s \in RepoAddrs, NEW j \in 1..nApps[s], apps'[s][j] # Nil
      PROVE  /\ apps[s][j] # Nil
             /\ application'[apps'[s][j]].name = application[apps[s][j]].name
  <2>1. /\ apps[s][j] # Nil => apps[s][j] \in AppAddrs
        /\ apps[s][j] # new
        /\ apps[s][j] = old => s = r /\ j = i
    BY <1>0, <1>1, ListedObject, Nils DEF WorkInv, SInv, ListInv, Unshared, Unlisted
  <2>2. old # Nil /\ new # Nil /\ old # new
    BY <1>0, <1>1, Nils DEF Unlisted
  <2>3. CASE Drop({new}) /\ UNCHANGED apps
    BY <1>2, <2>1, <2>3 DEF Drop
  <2>4. CASE /\ apps' = [apps EXCEPT ![r][i] = new]
             /\ Drop({a \in AppAddrs : a = old /\ \A d \in Callers \ {c} : loc[d].old # a})
    <3>1. /\ apps'[r][i] = new
          /\ s # r \/ j # i => apps'[s][j] = apps[s][j]
      <4>1. SetsSlot(r, i, new)
        BY <2>4 DEF SetsSlot
      <4> QED BY <1>0, <1>1, <4>1, SlotSet DEF WorkInv
    <3>2. \A a \in AppAddrs : a # old => application'[a] = application[a]
      BY <2>4 DEF Drop
    <3>3. CASE s = r /\ j = i
      <4>1. application'[new] = application[new]
        BY <1>1, <2>2, <3>2
      <4> QED BY <1>1, <2>2, <3>1, <3>3, <4>1
    <3>4. CASE s # r \/ j # i
      <4>1. apps'[s][j] = apps[s][j] /\ apps[s][j] # old
        BY <2>1, <3>1, <3>4
      <4>2. apps[s][j] \in AppAddrs
        BY <1>2, <2>1, <4>1
      <4> QED BY <1>2, <3>2, <4>1, <4>2
    <3> QED BY <3>3, <3>4
  <2>5. CASE /\ apps' = [apps EXCEPT ![r][i] = Nil]
             /\ Drop({a \in AppAddrs : a = old /\ \A d \in Callers \ {c} : loc[d].old # a} \cup {new})
    <3>1. /\ apps'[r][i] = Nil
          /\ s # r \/ j # i => apps'[s][j] = apps[s][j]
      <4>1. SetsSlot(r, i, Nil)
        BY <2>5 DEF SetsSlot
      <4> QED BY <1>0, <1>1, <4>1, SlotSet DEF WorkInv
    <3>2. \A a \in AppAddrs : a # old /\ a # new => application'[a] = application[a]
      BY <2>5 DEF Drop
    <3>3. s # r \/ j # i
      BY <1>2, <3>1
    <3>4. apps'[s][j] = apps[s][j] /\ apps[s][j] # old /\ apps[s][j] # new
      BY <2>1, <3>1, <3>3
    <3>5. apps[s][j] \in AppAddrs
      BY <1>2, <2>1, <3>4
    <3> QED BY <1>2, <3>2, <3>4, <3>5
  <2> QED BY <2>3, <2>4, <2>5 DEF UpdateApp
<1>3. ASSUME NEW s \in RepoAddrs, NEW j \in 1..nApps[s], s # r \/ j # i, apps[s][j] # Nil
      PROVE  apps'[s][j] = apps[s][j] /\ application'[apps[s][j]] = application[apps[s][j]]
  <2>1. apps[s][j] \in AppAddrs /\ apps[s][j] # new /\ apps[s][j] # old
    BY <1>0, <1>1, <1>3, ListedObject, Nils DEF WorkInv, SInv, ListInv, Unshared, Unlisted
  <2>2. \A a \in AppAddrs : a # old /\ a # new => application'[a] = application[a]
    BY DEF UpdateApp, Drop
  <2>3. apps' = apps \/ SetsSlot(r, i, new) \/ SetsSlot(r, i, Nil)
    BY DEF UpdateApp, SetsSlot
  <2>4. apps'[s][j] = apps[s][j]
    BY <1>0, <1>1, <1>3, <2>3, SlotSet DEF WorkInv
  <2> QED BY <2>1, <2>2, <2>4
<1>4. NamesUnique'
  BY <1>0, <1>2 DEF NameInv, NamesUnique
<1>5. NameFree(c)' /\ RemovalSlot(c)'
  BY <1>0, ReturnSlots DEF WorkInv, NameFree, RemovalSlot, AddLabels, RemovalLabels
<1>6. Subject(c, r, application[old].name)
  BY <1>0, <1>1 DEF Subject, AtWork, AppSideLabels, RepoSideLabels, NewRepoLabels, HandlerLabels,
     Labels
<1>7. NamesKept(c)
  <2>1. NamesFrom(c)
    BY <1>0, <1>2 DEF NamesFrom, AppSlots
  <2>2. NamesStay(c)
    BY <1>0, <1>1, <1>3, <1>6 DEF NamesStay
  <2> QED BY <2>1, <2>2 DEF NamesKept
<1> QED BY <1>4, <1>5, <1>7, HandlerNames

LEMMA DeleteNames ==
  ASSUME Apart, WorkInv, NameInv, NEW c \in Callers, ClientMoves(c),
         \/ DeleteApplication(c) \/ DeleteApplicationScan(c)
         \/ DeleteApplicationLockRepo(c) \/ DeleteApplicationLockApp(c)
  PROVE  NameInv'
<1> USE DEF AddLabels, RemovalLabels
<1>0. CallTypes
  BY DEF WorkInv, IInv, TypeOK
<1>1. CASE Panic("nil dereference")
  BY <1>1, PanicNames
<1>2. CASE Return(c) /\ UNCHANGED <<repoVars, appVars>>
  <2>1. NameFree(c)' /\ RemovalSlot(c)'
    BY <1>2, ReturnSlots DEF WorkInv, NameFree, RemovalSlot
  <2> QED BY <1>2, <2>1, MoveNames DEF WorkInv, repoVars, appVars
<1>3. CASE pc' = [pc EXCEPT ![c] = "delAppScan"] /\ UNCHANGED <<repoVars, appVars>>
  <2>1. NameFree(c)' /\ RemovalSlot(c)'
    BY <1>0, <1>3 DEF NameFree, RemovalSlot, CallTypes
  <2> QED BY <1>3, <2>1, MoveNames DEF WorkInv, repoVars, appVars
<1>4. CASE /\ \E i \in AppSlots(loc[c].repo, req[c].name) :
                loc' = [loc EXCEPT ![c].idx = i, ![c].old = apps[loc[c].repo][i]]
           /\ pc' = [pc EXCEPT ![c] = "delAppLock"] /\ UNCHANGED <<req, repoVars, appVars>>
  <2>1. PICK i \in AppSlots(loc[c].repo, req[c].name) :
          loc' = [loc EXCEPT ![c].idx = i, ![c].old = apps[loc[c].repo][i]]
    BY <1>4
  <2>2. /\ pc'[c] = "delAppLock" /\ loc'[c].repo = loc[c].repo /\ loc'[c].idx = i
        /\ loc'[c].old = apps[loc[c].repo][i] /\ req' = req
    BY <1>0, <1>4, <2>1 DEF CallTypes, Locals
  <2>3. NameFree(c)' /\ RemovalSlot(c)'
    BY <1>4, <2>1, <2>2 DEF NameFree, RemovalSlot, Holds, AppSlots, repoVars, appVars
  <2> QED BY <1>4, <2>3, MoveNames DEF WorkInv, repoVars, appVars
<1>5. CASE DeleteApplicationLockRepo(c) \/ DeleteApplicationLockApp(c)
  <2>1. /\ pc[c] \in RemovalLabels /\ pc'[c] \in RemovalLabels
        /\ loc'[c] = loc[c] /\ req'[c] = req[c]
        /\ UNCHANGED <<apps, nApps, application>>
    BY <1>0, <1>5, GotoEffect DEF DeleteApplicationLockRepo, DeleteApplicationLockApp, Labels,
       repoVars, appVars
  <2>2. LeakedRepos \subseteq LeakedRepos'
    BY StaysLeaked DEF WorkInv, ClientMoves
  <2>3. NameFree(c)' /\ RemovalSlot(c)'
    BY <2>1, <2>2 DEF NameInv, NameFree, RemovalSlot, Holds
  <2> QED BY <2>1, <2>3, MoveNames
<1> QED BY <1>1, <1>2, <1>3, <1>4, <1>5 DEF DeleteApplication, DeleteApplicationScan, Last

\* The last slot moves to the index of the one that is removed.
LEMMA RemoveNames ==
  ASSUME Apart, WorkInv, NameInv, NEW c \in Callers, ClientMoves(c),
         DeleteApplicationRemove(c)
  PROVE  NameInv'
<1> SUFFICES ASSUME NEW r, r = loc[c].repo, NEW i, i = loc[c].idx, NEW n, n = nApps[r]
             PROVE  NameInv'
  OBVIOUS
<1>0. /\ pc[c] = "delApp" /\ r \in RepoAddrs /\ i \in 1..n
      /\ apps' = [apps EXCEPT ![r][i] = apps[r][n]]
      /\ nApps' = [nApps EXCEPT ![r] = n - 1]
      /\ application' = application /\ Return(c)
  BY HeldRepo DEF WorkInv, RepoLabels, DeleteApplicationRemove, NameInv, RemovalSlot, Holds,
     appVars, RemovalLabels
<1>1. r \in RepoAddrs /\ i \in 1..nApps[r] /\ RemovesSlot(r, i)
  BY <1>0 DEF RemovesSlot, SetsSlot
\* Each slot holds what one slot held before, and no two hold the same one.
<1>2. \A s \in RepoAddrs : \A j \in 1..nApps'[s] :
        /\ Origin(r, i, s, j) \in 1..nApps[s]
        /\ apps'[s][j] = apps[s][Origin(r, i, s, j)]
        /\ \A k \in 1..nApps'[s] : Origin(r, i, s, j) = Origin(r, i, s, k) => j = k
  BY <1>1, SlotOrigin DEF WorkInv
<1>3. NamesUnique'
  <2> SUFFICES ASSUME NEW s \in RepoAddrs, NEW j \in 1..nApps'[s], NEW k \in 1..nApps'[s],
                      apps'[s][j] # Nil, apps'[s][k] # Nil,
                      application'[apps'[s][j]].name = application'[apps'[s][k]].name
               PROVE  j = k
    BY DEF NamesUnique
  <2>1. PICK x \in 1..nApps[s] : x = Origin(r, i, s, j) /\ apps'[s][j] = apps[s][x]
    BY <1>2
  <2>2. PICK y \in 1..nApps[s] : y = Origin(r, i, s, k) /\ apps'[s][k] = apps[s][y]
    BY <1>2
  <2>3. /\ apps[s][x] # Nil /\ apps[s][y] # Nil
        /\ application[apps[s][x]].name = application[apps[s][y]].name
    BY <1>0, <2>1, <2>2
  <2>4. x = y
    BY <2>3 DEF NameInv, NamesUnique
  <2>5. Origin(r, i, s, j) = Origin(r, i, s, k)
    BY <2>1, <2>2, <2>4
  <2> QED BY <1>2, <2>5
<1>4. NameFree(c)' /\ RemovalSlot(c)'
  BY <1>0, ReturnSlots DEF WorkInv, NameFree, RemovalSlot, AddLabels, RemovalLabels
<1>5. NamesFrom(c)
  <2> SUFFICES ASSUME NEW s \in RepoAddrs, NEW j \in 1..nApps'[s], apps'[s][j] # Nil
               PROVE  AppSlots(s, application'[apps'[s][j]].name) # {}
    BY DEF NamesFrom
  <2>1. PICK x \in 1..nApps[s] : apps'[s][j] = apps[s][x]
    BY <1>2
  <2>2. x \in AppSlots(s, application'[apps'[s][j]].name)
    BY <1>0, <2>1 DEF AppSlots
  <2> QED BY <2>2
\* What is deferred does not give the mutex of the repository back.
<1>6. r \in LeakedRepos'
  <2>1. repoLock[r] = c /\ repoLock' = repoLock
    BY <1>0, HeldRepo DEF WorkInv, RepoLabels, DeleteApplicationRemove
  <2>2. pc'[c] \notin RepoLabels
    BY <1>0, ReturnSlots DEF WorkInv
  <2> QED BY <1>0, <2>1, <2>2 DEF LeakedRepos
<1>7. NamesStay(c)
  <2>1. ASSUME NEW s \in RepoAddrs, s # r PROVE nApps'[s] = nApps[s] /\ apps'[s] = apps[s]
    BY <1>0, <2>1 DEF WorkInv, IInv, TypeOK, RegistryTypes
  <2> QED BY <1>0, <1>6, <2>1 DEF NamesStay
<1> QED BY <1>3, <1>4, <1>5, <1>7, HandlerNames DEF NamesKept

LEMMA ClientNames ==
  ASSUME Apart, WorkInv, SInv', NameInv, NEW c \in Callers,
         AddOrUpdateApplicationStep(c) \/ DeleteApplicationStep(c)
  PROVE  NameInv'
<1>1. CASE ClientMoves(c)
  BY <1>1, MakeNames, ScanNames, CompareNames, NewApplicationNames, GrowNames, StoreNames, UpdateNames,
     UpdateAppNames, DeleteNames, RemoveNames
     DEF AddOrUpdateApplicationStep, DeleteApplicationStep
<1>2. CASE \E cause \in States : Panic(cause)
  BY <1>2, PanicNames
<1> QED BY <1>1, <1>2, ClientStep DEF WorkInv

LEMMA StepNames ==
  ASSUME Apart, WorkInv, SInv', NameInv, [Next]_vars
  PROVE  NameInv'
<1>1. ASSUME NEW c \in Callers, Call(c) \/ AddRepositoryStep(c) \/ DeleteRepositoryStep(c)
      PROVE  NameInv'
  <2>0. CASE \E cause \in States : Panic(cause)
    BY <2>0, PanicNames
  <2> SUFFICES ASSUME RegistryKept PROVE NameInv'
    BY <1>1, <2>0, RegistryKeeps
  <2>1. CASE RepositoryMoves(c)
    <3>1. LeakedRepos \subseteq LeakedRepos'
      BY <2>1, StaysLeaked DEF RepositoryMoves, WorkInv
    <3> QED BY <2>1, <3>1, QuietNames DEF WorkInv, RepositoryMoves, Others, MadeLabels,
               RemovalLabels, RepoSideLabels, NewRepoLabels, HandlerLabels
  <2>2. CASE CallMoves(c)
    <3>1. LeakedRepos \subseteq LeakedRepos'
      BY <2>2, StaysLeaked DEF CallMoves, WorkInv
    <3> QED BY <2>2, <3>1, QuietNames DEF WorkInv, CallMoves, Others, MadeLabels, RemovalLabels,
               repoVars, appVars
  <2> QED BY <1>1, <2>0, <2>1, <2>2, RepositoryStep, CallStep DEF WorkInv
<1>2. CASE \/ \E a \in AppAddrs : GoroutineStep(a)
           \/ TickStep \/ ReadApplications \/ Restart \/ UNCHANGED vars
  <2>1. CASE \E cause \in States : Panic(cause)
    BY <2>1, PanicNames
  <2> SUFFICES ASSUME ~ \E cause \in States : Panic(cause)
               PROVE  NameInv'
    BY <2>1
  <2>2. BackgroundMoves /\ RegistryKept
    BY <1>2, BackgroundQuiet, BackgroundRegistry DEF WorkInv, RegistryKept
  <2>3. LeakedRepos \subseteq LeakedRepos'
    BY <2>2, Holders DEF BackgroundMoves, LeakedRepos, callVars
  <2> QED BY <2>2, <2>3, QuietNames DEF WorkInv, BackgroundMoves, callVars
<1> QED BY <1>1, <1>2, ClientNames DEF Next, CallerStep

\* What a life cycle has locked stays in its slot: an update and a deletion
\* take the slot of the application that they have locked themselves.
LEMMA ClientLifeListed ==
  ASSUME WorkInv, SInv', NameInv, LifeListed, NEW c \in Callers,
         AddOrUpdateApplicationStep(c) \/ DeleteApplicationStep(c)
  PROVE  LifeListed'
<1> SUFFICES ASSUME NEW s, s = loc[c].repo, NEW i, i = loc[c].idx, NEW n, n = nApps[s],
                    NEW new, new = loc[c].app, NEW old, old = loc[c].old
             PROVE  LifeListed'
  OBVIOUS
<1>1. CASE \E cause \in States : Panic(cause)
  BY <1>1, PanicNames
<1> SUFFICES ASSUME ClientMoves(c) PROVE LifeListed'
  BY <1>1, ClientStep DEF WorkInv
<1>2. ASSUME NEW a \in AppAddrs, NEW r \in RepoAddrs, life[a] = "running", Listed(a, r)
      PROVE  Listed(a, r)' \/ \E cause \in States : Panic(cause)
  <2> USE DEF Listed
  <2>0. appLock[a] = LifeCycle
    BY <1>2 DEF WorkInv, IInv, GoroutineInv
  <2>1. CASE UNCHANGED <<apps, nApps>>
    BY <1>2, <2>1
  <2>2. CASE AddApplicationGrow(c)
    <3>1. s \in RepoAddrs /\ nApps' = [nApps EXCEPT ![s] = n + 1] /\ apps' = apps
      BY <2>2, AtKnownRepo DEF WorkInv, KnownRepoLabels, AddApplicationGrow
    <3>2. \A j \in 1..nApps[r] : j \in 1..nApps'[r]
      BY <3>1, Slots DEF WorkInv
    <3> QED BY <1>2, <3>1, <3>2
  <2>3. CASE AddApplicationStore(c)
    <3>1. /\ s \in RepoAddrs /\ n > 0 /\ apps[s][n] = Nil
          /\ apps' = [apps EXCEPT ![s][n] = new] /\ nApps' = nApps
      BY <2>3, HeldRepo DEF WorkInv, AddApplicationStore, RepoLabels, SInv, SlotInv
    <3>2. \A j \in 1..nApps[r] : apps[r][j] = Nil \/ apps'[r][j] = apps[r][j]
      BY <3>1, Slots DEF WorkInv
    <3> QED BY <1>2, <3>1, <3>2, Nils
  <2>4. CASE UpdateApp(c)
    <3>1. /\ s \in RepoAddrs /\ i \in 1..n /\ apps[s][i] = old /\ appLock[old] = c
          /\ nApps' = nApps
      BY <2>4, HeldRepo DEF WorkInv, UpdateApp, RepoLabels, SInv, SlotInv, Good, IInv, CallerInv,
         LocksHeld, AppLabels
    <3>2. \A j \in 1..nApps[r] : apps[r][j] = old \/ apps'[r][j] = apps[r][j]
      <4>1. CASE UNCHANGED apps
        BY <4>1
      <4>2. CASE \E v \in {new, Nil} : apps' = [apps EXCEPT ![s][i] = v]
        BY <3>1, <4>2, Slots DEF WorkInv
      <4> QED BY <2>4, <4>1, <4>2 DEF UpdateApp
    <3> QED BY <1>2, <2>0, <3>1, <3>2, Holders
  <2>5. CASE DeleteApplicationRemove(c)
    <3>1. /\ s \in RepoAddrs /\ i \in 1..n /\ apps[s][i] = old /\ appLock[old] = c
          /\ apps' = [apps EXCEPT ![s][i] = apps[s][n]]
          /\ nApps' = [nApps EXCEPT ![s] = n - 1]
      BY <2>5, HeldRepo DEF WorkInv, DeleteApplicationRemove, RepoLabels, IInv, CallerInv,
         LocksHeld, AppLabels, NameInv, RemovalSlot, Holds, RemovalLabels
    <3>2. PICK j \in 1..nApps[r] : apps[r][j] = a
      BY <1>2
    <3>3. ~ (r = s /\ j = i)
      BY <2>0, <3>1, <3>2, Holders
    <3>4. CASE r = s /\ j = n
      <4>1. i \in 1..(n - 1) /\ nApps'[r] = n - 1 /\ apps'[r][i] = a
        BY <3>1, <3>2, <3>3, <3>4, Slots DEF WorkInv
      <4> QED BY <4>1
    <3>5. CASE ~ (r = s /\ j = n)
      <4>1. j \in 1..nApps'[r] /\ apps'[r][j] = a
        BY <3>1, <3>2, <3>3, <3>5, Slots DEF WorkInv
      <4> QED BY <4>1
    <3> QED BY <3>4, <3>5
  <2>6. \/ UNCHANGED <<apps, nApps>> \/ \E cause \in States : Panic(cause)
        \/ AddApplicationGrow(c) \/ AddApplicationStore(c) \/ UpdateApp(c)
        \/ DeleteApplicationRemove(c)
    BY DEF AddOrUpdateApplicationStep, DeleteApplicationStep, AddOrUpdateApplication,
       AddOrUpdateScan, AddOrUpdateCompare, AddApplicationNew, UpdateLockRepo, UpdateLockApp,
       DeleteApplication, DeleteApplicationScan, DeleteApplicationLockRepo, DeleteApplicationLockApp, repoVars, States
  <2> QED BY <2>1, <2>2, <2>3, <2>4, <2>5, <2>6
<1>3. \A r \in RepoAddrs : InRegistry(r)' <=> InRegistry(r)
  <2>1. /\ Others(c) /\ UNCHANGED <<repos, nRepos>>
        /\ pc[c] # "addRepoStore" /\ pc'[c] # "addRepoStore"
    BY DEF ClientMoves, AppSideLabels, RepoSideLabels, HandlerLabels
  <2> QED BY <2>1, SameRegistry
<1>4. life' = life
  BY DEF ClientMoves, goVars
<1> QED BY <1>1, <1>2, <1>3, <1>4 DEF LifeListed

\* A step of the registry that keeps every repository whose applications are
\* delivered.
LEMMA RegistryLifeListed ==
  ASSUME LifeListed, UNCHANGED <<apps, nApps, life>>,
         \A r \in RepoAddrs, a \in AppAddrs :
           InRegistry(r) /\ Listed(a, r) /\ life[a] = "running" => InRegistry(r)'
  PROVE  LifeListed'
<1>1. \A r \in RepoAddrs, a \in AppAddrs : Listed(a, r)' <=> Listed(a, r)
  BY DEF Listed
<1> QED BY <1>1 DEF LifeListed

LEMMA GrowLifeListed ==
  ASSUME WorkInv, LifeListed, NEW c \in Callers, AddRepositoryGrow(c)
  PROVE  LifeListed'
<1>0. /\ pc[c] = "addRepoNew" /\ Goto(c, "addRepoStore")
      /\ nRepos' = nRepos + 1 /\ repos' = repos /\ nRepos \in Nat
      /\ UNCHANGED <<apps, nApps, life>>
  BY BoundAssumption DEF WorkInv, IInv, TypeOK, RegistryTypes, AddRepositoryGrow, goVars
<1>1. \A i \in Settled : i \in Settled'
  BY <1>0 DEF Settled
<1> QED BY <1>0, <1>1, RegistryLifeListed DEF InRegistry

LEMMA StoreLifeListed ==
  ASSUME WorkInv, LifeListed, NEW c \in Callers, AddRepositoryStore(c)
  PROVE  LifeListed'
<1>0. /\ RegistryTypes /\ pc[c] = "addRepoStore" /\ Return(c)
      /\ repos' = [repos EXCEPT ![nRepos] = loc[c].repo] /\ nRepos' = nRepos
      /\ UNCHANGED <<apps, nApps, life>>
  BY DEF WorkInv, IInv, TypeOK, AddRepositoryStore, goVars
<1>1. Others(c) /\ pc'[c] = "idle"
  BY <1>0, ReturnSlots DEF WorkInv
<1>2. \A i \in Settled : i \in Settled' /\ repos'[i] = repos[i]
  <2>1. \A d \in Callers : pc'[d] # "addRepoStore"
    BY <1>0, <1>1, OneHandler DEF WorkInv, HandlerLabels, Others
  <2>2. \A i \in Settled : i # nRepos
    BY <1>0 DEF Settled
  <2> QED BY <1>0, <2>1, <2>2 DEF Settled, RegistryTypes
<1> QED BY <1>0, <1>2, RegistryLifeListed DEF InRegistry

\* DeleteRepository removes a repository with no application that a life cycle
\* works on; the last repository moves to its slot.
LEMMA RemoveLifeListed ==
  ASSUME WorkInv, LifeListed, NEW c \in Callers, DeleteRepositoryRemove(c)
  PROVE  LifeListed'
<1> SUFFICES ASSUME NEW s, s = loc[c].repo, NEW i, i = loc[c].idx
             PROVE  LifeListed'
  OBVIOUS
<1>0. /\ RegistryTypes /\ pc[c] = "delRepoWait" /\ Return(c)
      /\ \A a \in AppAddrs : uninst[a] = "none"
      /\ repos' = [repos EXCEPT ![i] = repos[nRepos]] /\ nRepos' = nRepos - 1
      /\ i \in 1..nRepos /\ repos[i] = s /\ nRepos \in 0..MaxRepos /\ MaxRepos \in Nat
      /\ UNCHANGED <<apps, nApps, life>>
  BY BoundAssumption DEF WorkInv, IInv, TypeOK, RegistryTypes, CallerInv, RemovalIndex,
     DeleteRepositoryRemove, goVars
<1>1. ASSUME NEW a \in AppAddrs, Listed(a, s), life[a] = "running" PROVE FALSE
  <2>1. appLock[a] = Uninstaller
    BY <1>0, <1>1 DEF WorkInv, GoInv, Doomed
  <2>2. appLock[a] = LifeCycle
    BY <1>1 DEF WorkInv, IInv, GoroutineInv
  <2> QED BY <2>1, <2>2, Holders
<1>2. ASSUME NEW r \in RepoAddrs, InRegistry(r), r # s PROVE InRegistry(r)'
  <2>1. \A d \in Callers : pc'[d] # "addRepoStore"
    <3>1. Others(c) /\ pc'[c] = "idle"
      BY <1>0, ReturnSlots DEF WorkInv
    <3>2. \A d \in Callers : pc[d] # "addRepoStore"
      BY <1>0, OneHandler DEF WorkInv, HandlerLabels
    <3> QED BY <3>1, <3>2 DEF Others
  <2>2. Settled' = 1..(nRepos - 1)
    BY <1>0, <2>1 DEF Settled
  <2>3. PICK k \in 1..nRepos : repos[k] = r /\ k # i
    BY <1>0, <1>2 DEF InRegistry, Settled
  <2>4. CASE k = nRepos
    <3>1. i \in 1..(nRepos - 1) /\ repos'[i] = r
      BY <1>0, <2>3, <2>4 DEF RegistryTypes
    <3> QED BY <2>2, <3>1 DEF InRegistry
  <2>5. CASE k # nRepos
    <3>1. k \in 1..(nRepos - 1) /\ repos'[k] = r
      BY <1>0, <2>3, <2>5 DEF RegistryTypes
    <3> QED BY <2>2, <3>1 DEF InRegistry
  <2> QED BY <2>4, <2>5
<1> QED BY <1>0, <1>1, <1>2, RegistryLifeListed

LEMMA RepositoryLifeListed ==
  ASSUME WorkInv, LifeListed, NEW c \in Callers,
         Call(c) \/ AddRepositoryStep(c) \/ DeleteRepositoryStep(c)
  PROVE  LifeListed'
<1>1. CASE \E cause \in States : Panic(cause)
  BY <1>1, PanicNames
<1>2. CASE CallMoves(c)
  <2>1. /\ Others(c) /\ pc[c] # "addRepoStore" /\ pc'[c] # "addRepoStore"
        /\ UNCHANGED <<repos, nRepos, apps, nApps, life>>
    BY <1>2 DEF CallMoves, listVars, repoVars, goVars
  <2> QED BY <2>1, SameRegistry, RegistryLifeListed
<1>3. CASE RepositoryMoves(c) /\ repos' = repos /\ nRepos' = nRepos /\ pc[c] # "addRepoStore"
           /\ ~ AddRepositoryGrow(c)
  <2>1. pc'[c] # "addRepoStore"
    <3>1. ASSUME NEW label, label # "addRepoStore", Goto(c, label) \/ pc' = [pc EXCEPT ![c] = label]
          PROVE  pc'[c] # "addRepoStore"
      BY <1>3, <3>1 DEF WorkInv, IInv, TypeOK, CallTypes, Goto
    <3>2. ASSUME Return(c) PROVE pc'[c] # "addRepoStore"
      BY <3>1, <3>2 DEF Return
    <3>3. CASE AddRepositoryStep(c)
      BY <1>3, <3>1, <3>2, <3>3, PanicHolders DEF AddRepositoryStep, AddRepositoryCheck,
         AddRepositoryLock, AddRepositoryRefuse, AddRepositoryStore, Panic
    <3>4. CASE DeleteRepositoryStep(c)
      BY <1>3, <3>1, <3>2, <3>4 DEF DeleteRepositoryStep, DeleteRepositoryLock,
         DeleteRepositoryFind, DeleteRepositorySpawn, DeleteRepositoryNil, DeleteRepositoryRemove,
         Panic
    <3>5. CASE Call(c)
      BY <3>5, CallStep DEF WorkInv, CallMoves
    <3> QED BY <3>3, <3>4, <3>5
  <2>2. Others(c) /\ UNCHANGED <<apps, nApps, life>>
    BY <1>3 DEF RepositoryMoves
  <2> QED BY <1>3, <2>1, <2>2, SameRegistry, RegistryLifeListed
<1>4. \/ AddRepositoryGrow(c) \/ AddRepositoryStore(c) \/ DeleteRepositoryRemove(c)
      \/ \E cause \in States : Panic(cause)
      \/ Call(c)
      \/ repos' = repos /\ nRepos' = nRepos /\ pc[c] # "addRepoStore" /\ ~ AddRepositoryGrow(c)
  BY DEF AddRepositoryStep, DeleteRepositoryStep, AddRepositoryCheck, AddRepositoryLock,
     AddRepositoryRefuse, DeleteRepositoryLock, DeleteRepositoryFind, DeleteRepositorySpawn,
     DeleteRepositoryNil, listVars, States
<1> QED BY <1>1, <1>2, <1>3, <1>4, RepositoryStep, CallStep, GrowLifeListed, StoreLifeListed,
           RemoveLifeListed DEF WorkInv

\* The check loop starts the life cycle of what is in a slot of a repository
\* that it has locked, with the handler's mutex held.
LEMMA BackgroundLifeListed ==
  ASSUME WorkInv, LifeListed,
         \/ \E a \in AppAddrs : GoroutineStep(a)
         \/ TickStep \/ ReadApplications \/ Restart \/ UNCHANGED vars
  PROVE  LifeListed'
<1>1. CASE \E cause \in States : Panic(cause)
  BY <1>1, PanicNames
<1> SUFFICES ASSUME ~ \E cause \in States : Panic(cause)
             PROVE  LifeListed'
  BY <1>1
<1>2. /\ \A r \in RepoAddrs : InRegistry(r)' <=> InRegistry(r)
      /\ \A a \in AppAddrs, r \in RepoAddrs : Listed(a, r)' <=> Listed(a, r)
  BY BackgroundRegistry DEF WorkInv
<1>3. CASE \A a \in AppAddrs : life'[a] = "running" => life[a] = "running"
  BY <1>2, <1>3 DEF LifeListed
<1>4. CASE TickApp
  <2> SUFFICES ASSUME NEW r, r = repos[tick.i], NEW b, b = apps[r][tick.j]
               PROVE  LifeListed'
    OBVIOUS
  <2>1. /\ tick.at = "apps" /\ tick.j \in 1..nApps[r]
        /\ r \in RepoAddrs /\ tick.i \in 1..nRepos /\ handlerLock = Ticker
    <3>1. tick.at = "apps" /\ tick.j <= nApps[r] /\ tick.i \in Nat \ {0} /\ tick.j \in Nat \ {0}
      BY <1>4 DEF TickApp, WorkInv, IInv, TypeOK, CheckTypes
    <3>2. /\ r \in RepoAddrs /\ tick.i <= nRepos /\ handlerLock = Ticker
          /\ nRepos \in Nat /\ nApps[r] \in Nat
      BY <3>1, BoundAssumption DEF WorkInv, IInv, TypeOK, RegistryTypes, CheckInv
    <3> QED BY <3>1, <3>2
  <2>2. \A d \in Callers : pc[d] # "addRepoStore"
    BY <2>1, Holders DEF WorkInv, IInv, CallerInv, LocksHeld, HandlerLabels
  <2>3. InRegistry(r) /\ Listed(b, r)
    BY <2>1, <2>2 DEF InRegistry, Settled, Listed
  <2>4. \A a \in AppAddrs : life'[a] = "running" => life[a] = "running" \/ a = b
    BY <1>4 DEF TickApp, States, WorkInv, IInv, TypeOK, CheckTypes
  <2> QED BY <1>2, <2>1, <2>3, <2>4 DEF LifeListed
<1>5. ASSUME NEW b \in AppAddrs, GoroutineStep(b)
      PROVE  \A a \in AppAddrs : life'[a] = "running" => life[a] = "running"
  BY <1>5 DEF GoroutineStep, UninstallLock, UninstallDone, LifeDone, LifeUnlock, States,
     WorkInv, IInv, TypeOK, CheckTypes
<1>6. CASE TickStart \/ TickRepo \/ TickRepoDone \/ TickWait \/ ReadApplications
           \/ Restart \/ UNCHANGED vars
  BY <1>3, <1>6 DEF TickStart, TickRepo, TickRepoDone, TickWait, ReadApplications, Restart,
     vars, goVars, States
<1> QED BY <1>3, <1>4, <1>5, <1>6 DEF TickStep

ClientInv == WorkInv /\ NameInv /\ LifeListed

LEMMA ClientInvariance == Spec /\ []Apart => []ClientInv
<1>1. Init => ClientInv
  BY InitInv, InitSlots, InitHolders, InitObjects, InitGo, InitNames DEF ClientInv, WorkInv
<1>2. ClientInv /\ Apart /\ [Next]_vars => ClientInv'
  <2> SUFFICES ASSUME ClientInv, Apart, [Next]_vars PROVE ClientInv'
    OBVIOUS
  <2>1. WorkInv'
    BY StepWork DEF ClientInv
  <2>2. SInv'
    BY <2>1 DEF WorkInv
  <2>3. NameInv'
    BY <2>2, StepNames DEF ClientInv
  <2>4. LifeListed'
    BY <2>2, ClientLifeListed, RepositoryLifeListed, BackgroundLifeListed
       DEF ClientInv, Next, CallerStep
  <2> QED BY <2>1, <2>3, <2>4 DEF ClientInv
<1> QED BY <1>1, <1>2, PTL DEF Spec

\* As long as no two clients work on one application at a time, no life cycle
\* delivers an application that DeleteApplication or DeleteRepository has
\* removed, and none of a repository that is not registered (handler.go:57-85
\* and 206-230).
THEOREM LivesApart == Spec /\ []Apart => []LifeRegistered
<1>1. ClientInv => LifeRegistered
  <2> SUFFICES ASSUME ClientInv, NEW a \in AppAddrs, life[a] = "running"
               PROVE  \E i \in 1..nRepos :
                        repos[i] # Nil /\ \E j \in 1..nApps[repos[i]] : apps[repos[i]][j] = a
    BY DEF LifeRegistered
  <2>1. PICK r \in RepoAddrs : InRegistry(r) /\ Listed(a, r)
    BY DEF ClientInv, LifeListed
  <2>2. PICK i \in 1..nRepos : repos[i] = r
    BY <2>1 DEF InRegistry, Settled
  <2> QED BY <2>1, <2>2, Nils DEF Listed
<1> QED BY <1>1, ClientInvariance, PTL

LEMMA OneApart ==
  ASSUME \A c, d \in AppCallers : c = d
  PROVE  Apart
BY DEF Apart

\* In particular when one client sends all the application requests.
THEOREM OnlyRegisteredLives ==
  ASSUME \A c, d \in AppCallers : c = d
  PROVE  Spec => []LifeRegistered
<1>1. Apart
  BY OneApart
<1> QED BY <1>1, LivesApart, PTL

\* What is being delivered or uninstalled is in a slot of its repository, and
\* the repository is registered.
LEMMA WorkListed ==
  ASSUME ClientInv, NEW name, NEW a \in InClone(name), NEW r, r = application[a].repo
  PROVE  /\ r \in RepoAddrs /\ InRegistry(r) /\ Listed(a, r)
         /\ a # Nil /\ application[a].name = name /\ appLock[a] \in {LifeCycle, Uninstaller}
<1>0. /\ a \in AppAddrs /\ a # Nil /\ application[a].name = name
      /\ life[a] = "running" \/ uninst[a] = "running"
  BY Nils DEF InClone
<1>1. CASE life[a] = "running"
  <2>1. PICK s \in RepoAddrs : InRegistry(s) /\ Listed(a, s)
    BY <1>0, <1>1 DEF ClientInv, LifeListed
  <2>2. s = r
    BY <1>0, <2>1, ListedHome DEF ClientInv, WorkInv, Listed
  <2> QED BY <1>0, <1>1, <2>1, <2>2 DEF ClientInv, WorkInv, IInv, GoroutineInv
<1>2. CASE uninst[a] = "running"
  <2>1. PICK c \in Callers : pc[c] = "delRepoWait" /\ Listed(a, loc[c].repo)
    BY <1>0, <1>2 DEF ClientInv, WorkInv, GoInv, Deleting
  <2>2. loc[c].repo \in RepoAddrs
    BY <2>1, AtKnownRepo DEF ClientInv, WorkInv, KnownRepoLabels
  <2>3. loc[c].repo = r
    BY <1>0, <2>1, <2>2, ListedHome DEF ClientInv, WorkInv, Listed
  <2>4. loc[c].idx \in Settled /\ repos[loc[c].idx] = r
    <3>1. loc[c].idx \in 1..nRepos /\ repos[loc[c].idx] = r
      BY <2>1, <2>3 DEF ClientInv, WorkInv, IInv, CallerInv, RemovalIndex
    <3> QED BY <2>1, <3>1, OneHandler DEF ClientInv, WorkInv, Settled, HandlerLabels
  <2> QED BY <1>0, <1>2, <2>1, <2>2, <2>3, <2>4
             DEF ClientInv, WorkInv, IInv, GoroutineInv, InRegistry
<1> QED BY <1>0, <1>1, <1>2

\* A client clones for a name that no slot of the repository holds, or for the
\* application that it has locked.
LEMMA CloningFree ==
  ASSUME ClientInv, NEW name, NEW c \in Cloning(name), NEW a \in AppAddrs,
         NEW r, r = loc[c].repo, Listed(a, r), a # Nil, application[a].name = name
  PROVE  appLock[a] = c
<1>1. PICK i \in 1..nApps[r] : apps[r][i] = a
  BY DEF Listed
<1>2. c \in Callers /\ pc[c] \in {"addAppNew", "updApp"} /\ req[c].name = name
  BY DEF Cloning
<1>3. r \in RepoAddrs
  BY <1>2, AtKnownRepo DEF ClientInv, WorkInv, KnownRepoLabels
<1>4. CASE pc[c] = "addAppNew"
  BY <1>1, <1>2, <1>4 DEF ClientInv, NameInv, NameFree, AddLabels, AppSlots
<1>5. CASE pc[c] = "updApp"
  <2>1. appLock[loc[c].old] = c /\ loc[c].old \in AppAddrs
    BY <1>2, <1>5 DEF ClientInv, WorkInv, IInv, CallerInv, LocksHeld, AppKnown, AppLabels,
       OldAppLabels
  <2>2. Good(r, loc[c].idx, name) /\ apps[r][loc[c].idx] = loc[c].old
    BY <1>2, <1>5 DEF ClientInv, WorkInv, SInv, SlotInv
  <2>3. a = loc[c].old
    BY <1>1, <1>3, <2>1, <2>2, Nils DEF Good, ClientInv, NameInv, NamesUnique
  <2> QED BY <2>1, <2>3
<1> QED BY <1>2, <1>4, <1>5

\* As long as no two clients work on one application at a time, two goroutines
\* are in the clone directory of one application name only for repositories of
\* different URLs.  The path of the directory is made of the name alone and no
\* mutex covers it: a client clones for a name that no slot of a repository of
\* its URL holds, or for the application that it has locked; the others work on
\* what is in the slots (application.go:49, repository.go:208-244,
\* handler.go:57-85 and 206-230).
THEOREM ClonesApart == Spec /\ []Apart => []StorageExclusive
<1>1. ASSUME ClientInv, Apart, NEW name,
             NEW c \in Cloning(name), NEW d \in Cloning(name),
             config[loc[c].repo].url = config[loc[d].repo].url
      PROVE  c = d
  <2>1. \A e \in Cloning(name) : e \in AppCallers /\ pc[e] \in AtWork /\ req[e].name = name
    BY <1>1 DEF Cloning, ClientInv, WorkInv, HolderInv, Side, AtWork, AppSideLabels,
       RepoSideLabels, NewRepoLabels, HandlerLabels, Labels
  <2> QED BY <1>1, <2>1 DEF Apart
<1>2. ASSUME ClientInv, NEW name, NEW a \in InClone(name), NEW b \in InClone(name),
             config[application[a].repo].url = config[application[b].repo].url
      PROVE  a = b
  <2> SUFFICES ASSUME NEW r, r = application[a].repo, NEW s, s = application[b].repo
               PROVE  a = b
    OBVIOUS
  <2>1. /\ r \in RepoAddrs /\ InRegistry(r) /\ Listed(a, r) /\ a # Nil /\ application[a].name = name
        /\ s \in RepoAddrs /\ InRegistry(s) /\ Listed(b, s) /\ b # Nil /\ application[b].name = name
    BY <1>2, WorkListed
  <2>2. r = s
    BY <1>2, <2>1 DEF ClientInv, WorkInv, IInv, RegistryInv, UniqueURL, InRegistry
  <2> QED BY <1>2, <2>1, <2>2 DEF ClientInv, NameInv, NamesUnique, Listed
<1>3. ASSUME ClientInv, NEW name, NEW c \in Cloning(name), NEW a \in InClone(name),
             config[loc[c].repo].url = config[application[a].repo].url
      PROVE  FALSE
  <2> SUFFICES ASSUME NEW r, r = loc[c].repo, NEW s, s = application[a].repo
               PROVE  FALSE
    OBVIOUS
  <2>1. /\ s \in RepoAddrs /\ InRegistry(s) /\ Listed(a, s) /\ a \in AppAddrs /\ a # Nil
        /\ application[a].name = name /\ appLock[a] \in {LifeCycle, Uninstaller}
    BY <1>3, WorkListed DEF InClone
  <2>2. c \in Callers /\ pc[c] \in MadeLabels /\ req[c].name = name
    BY DEF Cloning, MadeLabels
  <2>3. CASE r = s
    <3>1. appLock[a] = c
      BY <1>3, <2>1, <2>3, CloningFree
    <3> QED BY <2>1, <2>2, <3>1, Holders
  <2>4. CASE r # s
    <3>1. AppSlots(s, name) = {}
      BY <1>3, <2>1, <2>2, <2>4 DEF ClientInv, NameInv, Elsewhere
    <3> QED BY <2>1, <3>1 DEF Listed, AppSlots
  <2> QED BY <2>3, <2>4
<1>4. ClientInv /\ Apart => StorageExclusive
  BY <1>1, <1>2, <1>3 DEF StorageExclusive
<1> QED BY <1>4, ClientInvariance, PTL

\* In particular when one client sends all the application requests.
THEOREM OneCloneAtATime ==
  ASSUME \A c, d \in AppCallers : c = d
  PROVE  Spec => []StorageExclusive
<1>1. Apart
  BY OneApart
<1> QED BY <1>1, ClonesApart, PTL
=============================================================================
