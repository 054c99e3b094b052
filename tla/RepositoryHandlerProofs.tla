---------------------- MODULE RepositoryHandlerProofs ----------------------
(***************************************************************************)
(* Theorems about RepositoryHandler for every number of clients, objects,  *)
(* names and URLs.  The inductive invariant says, label by label, what a   *)
(* handler knows and which mutexes it holds.  The argument is that of      *)
(* rely and guarantee: a step keeps what the mutexes of the others protect *)
(* (Keeps), which is all that the others' knowledge rests on (StableCaller). *)
(***************************************************************************)
EXTENDS RepositoryHandler, TLAPS

-----------------------------------------------------------------------------
(* The inductive invariant                                                 *)

\* The labels of a handler that has not yet stored the object it allocated,
\* the labels of one that took its repository from the registry, and the
\* labels at which a handler has an application's object.
NewRepoLabels == {"AddRepository", "addRepoLock", "addRepoNew"}
KnownRepoLabels ==
  {"addRepoStore", "delRepoLock", "delRepoWait", "updScan", "addAppNew", "addAppLock",
   "addAppStore", "updCompare", "updRepoLock", "updAppLock", "updApp", "delAppScan",
   "delAppLock", "delAppLockApp", "delApp"}
OldAppLabels == {"updApp", "delAppLock", "delAppLockApp", "delApp"}

\* The labels inside the critical sections of h.Mutex and app.mutex.
HandlerLabels == {"addRepoNew", "addRepoStore", "delRepoFind", "delRepoLock", "delRepoWait"}
AppLabels == {"updApp", "delApp"}

LocksHeld(c) ==
  /\ pc[c] \in HandlerLabels => handlerLock = c
  /\ pc[c] \in RepoLabels => repoLock[loc[c].repo] = c
  /\ pc[c] \in AppLabels => appLock[loc[c].old] = c

\* A new object belongs to one handler; every other pointer is to a known one.
RepoKnown(c) ==
  /\ pc[c] \in NewRepoLabels =>
       /\ loc[c].repo \in RepoAddrs /\ config[loc[c].repo] = Nil
       /\ req[c].name \in RepoNames /\ req[c].url \in URLs
       /\ \A d \in Callers : d # c => loc[d].repo # loc[c].repo
  /\ pc[c] \in KnownRepoLabels => loc[c].repo \in RepoAddrs /\ config[loc[c].repo] # Nil

AppKnown(c) ==
  /\ pc[c] = "AddOrUpdateApplication" => req[c].name \in AppNames /\ req[c].settings \in Settings
  /\ pc[c] \in OldAppLabels => loc[c].old \in AppAddrs

Appending(c) ==
  pc[c] = "addRepoStore" =>
    /\ nRepos > 0
    /\ \A i \in 1..nRepos : i # nRepos => config[repos[i]].url # config[loc[c].repo].url

RemovalIndex(c) ==
  pc[c] \in {"delRepoLock", "delRepoWait"} =>
    loc[c].idx \in 1..nRepos /\ repos[loc[c].idx] = loc[c].repo

\* An index found by an unlocked scan may be stale only if nobody can lock the
\* repository any more.
AppIndex(c) ==
  /\ pc[c] \in {"updCompare", "updRepoLock", "updAppLock", "updApp", "delAppLock",
                "delAppLockApp", "delApp"} => loc[c].idx > 0
  /\ pc[c] \in {"updCompare", "updRepoLock", "delAppLock"} =>
       loc[c].idx <= nApps[loc[c].repo] \/ loc[c].repo \in LeakedRepos
  /\ pc[c] \in {"updAppLock", "updApp", "delAppLockApp", "delApp"} =>
       loc[c].idx <= nApps[loc[c].repo]

CallerInv(c) ==
  /\ LocksHeld(c) /\ RepoKnown(c) /\ AppKnown(c)
  /\ Appending(c) /\ RemovalIndex(c) /\ AppIndex(c)

CheckInv ==
  /\ tick.at # "idle" => handlerLock = Ticker
  /\ tick.at = "apps" =>
       tick.i <= nRepos /\ repos[tick.i] \in RepoAddrs /\ repoLock[repos[tick.i]] = Ticker

GoroutineInv ==
  /\ \A a \in AppAddrs : life[a] # "none" => appLock[a] = LifeCycle
  /\ \A a \in AppAddrs : uninst[a] = "running" => appLock[a] = Uninstaller

\* Only the slot that is being appended to may be empty.
RegistryInv ==
  /\ \A i \in Settled : repos[i] # Nil
  /\ \A i \in 1..MaxRepos : repos[i] # Nil => config[repos[i]] # Nil
  /\ \A r \in RepoAddrs : config[r] = Nil => repoLock[r] = Free
  /\ UniqueURL

IInv == TypeOK /\ (\A c \in Callers : CallerInv(c)) /\ CheckInv /\ GoroutineInv /\ RegistryInv

-----------------------------------------------------------------------------
(* Rely and guarantee                                                      *)

Others(c) ==
  \A d \in Callers : d # c => pc'[d] = pc[d] /\ req'[d] = req[d] /\ loc'[d] = loc[d]

\* A step keeps what w has locked, and what only the holder may change.
Keeps(w) ==
  /\ handlerLock = w => handlerLock' = w /\ repos' = repos /\ nRepos' = nRepos
  /\ \A r \in RepoAddrs : repoLock[r] = w => repoLock'[r] = w /\ nApps'[r] = nApps[r]
  /\ \A a \in AppAddrs : appLock[a] = w => appLock'[a] = w

KeepsConfig == \A r \in RepoAddrs : config[r] # Nil => config'[r] = config[r]

\* The repository a handler allocated stays its own.
KeepsNew(d) ==
  pc[d] \in NewRepoLabels =>
    /\ config'[loc[d].repo] = Nil
    /\ \A e \in Callers : e # d => loc'[e].repo # loc[d].repo

KeepsIndexes ==
  /\ LeakedRepos \subseteq LeakedRepos'
  /\ \A r \in RepoAddrs : nApps'[r] >= nApps[r] \/ r \in LeakedRepos'

\* Nobody but the owner of its name holds a mutex.
LEMMA Holders ==
  /\ Free \notin Callers /\ Ticker \notin Callers
  /\ LifeCycle \notin Callers /\ Uninstaller \notin Callers
  /\ Free # Ticker /\ Free # LifeCycle /\ Free # Uninstaller /\ LifeCycle # Uninstaller
BY DisjointAssumption DEF Free, Ticker, LifeCycle, Uninstaller

\* What a handler that does not move knows survives the steps of the others.
LEMMA StableCaller ==
  ASSUME IInv, RegistryTypes', NEW d \in Callers,
         pc'[d] = pc[d], req'[d] = req[d], loc'[d] = loc[d],
         Keeps(d), KeepsConfig, KeepsNew(d), KeepsIndexes
  PROVE  CallerInv(d)'
<1>1. CallerInv(d) /\ CallTypes /\ RegistryTypes
  BY DEF IInv, TypeOK
<1>2. LocksHeld(d)'
  <2>1. (pc[d] \in HandlerLabels => handlerLock' = d)
    BY <1>1 DEF CallerInv, LocksHeld, Keeps
  <2>2. pc[d] \in RepoLabels => repoLock'[loc[d].repo] = d
    BY <1>1 DEF CallerInv, LocksHeld, Keeps, RepoKnown, RepoLabels, KnownRepoLabels
  <2>3. pc[d] \in AppLabels => appLock'[loc[d].old] = d
    BY <1>1 DEF CallerInv, LocksHeld, Keeps, AppKnown, AppLabels, OldAppLabels
  <2> QED BY <2>1, <2>2, <2>3 DEF LocksHeld
<1>3. RepoKnown(d)'
  BY <1>1 DEF CallerInv, RepoKnown, KeepsConfig, KeepsNew
<1>4. AppKnown(d)'
  BY <1>1 DEF CallerInv, AppKnown
<1>5. Appending(d)'
  <2> SUFFICES ASSUME pc[d] = "addRepoStore" PROVE Appending(d)'
    BY DEF Appending
  <2>1. nRepos' = nRepos /\ repos' = repos
    BY <1>1 DEF CallerInv, LocksHeld, Keeps, HandlerLabels
  <2>2. \A i \in 1..nRepos : i # nRepos => repos[i] \in RepoAddrs /\ config[repos[i]] # Nil
    BY <1>1, BoundAssumption DEF IInv, RegistryInv, Settled, RegistryTypes
  <2>3. loc[d].repo \in RepoAddrs /\ config[loc[d].repo] # Nil
    BY <1>1 DEF CallerInv, RepoKnown, KnownRepoLabels
  <2> QED BY <1>1, <2>1, <2>2, <2>3 DEF CallerInv, Appending, KeepsConfig
<1>6. RemovalIndex(d)'
  BY <1>1 DEF CallerInv, RemovalIndex, LocksHeld, Keeps, HandlerLabels
<1>7. AppIndex(d)'
  <2>1. loc[d].repo \in RepoAddrs \/ pc[d] \notin KnownRepoLabels
    BY <1>1 DEF CallerInv, RepoKnown
  <2>2. pc[d] \in {"updCompare", "updRepoLock", "delAppLock"} =>
          loc[d].idx <= nApps'[loc[d].repo] \/ loc[d].repo \in LeakedRepos'
    <3> SUFFICES ASSUME pc[d] \in {"updCompare", "updRepoLock", "delAppLock"}
                 PROVE loc[d].idx <= nApps'[loc[d].repo] \/ loc[d].repo \in LeakedRepos'
      OBVIOUS
    <3>1. loc[d].repo \in RepoAddrs
      BY <2>1 DEF KnownRepoLabels
    <3>2. loc[d].idx <= nApps[loc[d].repo] \/ loc[d].repo \in LeakedRepos
      BY <1>1 DEF CallerInv, AppIndex
    <3>3. loc[d].idx \in Nat /\ nApps[loc[d].repo] \in Nat /\ nApps'[loc[d].repo] \in Nat
      BY <1>1, <3>1, BoundAssumption DEF CallTypes, Locals, RegistryTypes
    <3>4. nApps'[loc[d].repo] >= nApps[loc[d].repo] \/ loc[d].repo \in LeakedRepos'
      BY <3>1 DEF KeepsIndexes
    <3> QED BY <3>1, <3>2, <3>3, <3>4 DEF KeepsIndexes
  <2>3. pc[d] \in {"updAppLock", "updApp", "delAppLockApp", "delApp"} =>
          loc[d].idx <= nApps'[loc[d].repo]
    BY <1>1, <2>1 DEF CallerInv, LocksHeld, AppIndex, Keeps, KnownRepoLabels, RepoLabels
  <2> QED BY <1>1, <2>2, <2>3 DEF CallerInv, AppIndex
<1> QED BY <1>2, <1>3, <1>4, <1>5, <1>6, <1>7 DEF CallerInv

LEMMA IdleCaller ==
  ASSUME NEW c, pc'[c] = "idle"
  PROVE  CallerInv(c)'
BY DEF CallerInv, LocksHeld, RepoKnown, AppKnown, Appending, RemovalIndex, AppIndex,
       HandlerLabels, RepoLabels, AppLabels, NewRepoLabels, KnownRepoLabels, OldAppLabels

\* A step of one handler outside the appending of a repository: what it owes
\* the others.
CallerStepKeeps(c) ==
  /\ Others(c)
  /\ UNCHANGED <<listVars, tick, life>>
  /\ \A a \in AppAddrs : uninst'[a] = "running" => uninst[a] = "running"
  /\ handlerLock' = handlerLock \/ {handlerLock, handlerLock'} \subseteq {c, Free}
  /\ \A r \in RepoAddrs :
       \/ repoLock'[r] = repoLock[r] /\ nApps'[r] = nApps[r]
       \/ repoLock[r] \in {c, Free} /\ config[r] # Nil
  /\ \A a \in AppAddrs : appLock'[a] = appLock[a] \/ appLock[a] \in {c, Free}
  /\ \/ loc'[c].repo \in {loc[c].repo, Nil}
     \/ config[loc'[c].repo] # Nil
     \/ \A d \in Callers : loc[d].repo # loc'[c].repo
  /\ KeepsIndexes
  /\ pc[c] # "addRepoStore" /\ pc'[c] # "addRepoStore"

LEMMA CallerStepInv ==
  ASSUME IInv, NEW c \in Callers, CallerStepKeeps(c), TypeOK', CallerInv(c)'
  PROVE  IInv'
<1> USE DisjointAssumption, Holders
<1>1. /\ \A d \in Callers : CallerInv(d)
      /\ CheckInv /\ GoroutineInv /\ RegistryInv /\ RegistryTypes /\ RegistryTypes' /\ CheckTypes
  BY DEF IInv, TypeOK
<1>2. repos' = repos /\ nRepos' = nRepos /\ config' = config /\ tick' = tick /\ life' = life
  BY DEF CallerStepKeeps, listVars
<1>3. \A w : w # c /\ w # Free => Keeps(w)
  BY <1>2 DEF CallerStepKeeps, Keeps
<1>4. KeepsConfig
  BY <1>2 DEF KeepsConfig
<1>5. ASSUME NEW d \in Callers, d # c
      PROVE  CallerInv(d)'
  <2>1. pc'[d] = pc[d] /\ req'[d] = req[d] /\ loc'[d] = loc[d]
    BY <1>5 DEF CallerStepKeeps, Others
  <2>2. KeepsNew(d)
    <3> SUFFICES ASSUME pc[d] \in NewRepoLabels
                 PROVE  /\ config'[loc[d].repo] = Nil
                        /\ \A e \in Callers : e # d => loc'[e].repo # loc[d].repo
      BY DEF KeepsNew
    <3>1. /\ loc[d].repo \in RepoAddrs /\ config[loc[d].repo] = Nil
          /\ \A e \in Callers : e # d => loc[e].repo # loc[d].repo
      BY <1>1 DEF CallerInv, RepoKnown
    <3>2. loc'[c].repo # loc[d].repo
      BY <1>5, <3>1 DEF CallerStepKeeps
    <3> QED BY <1>2, <3>1, <3>2 DEF CallerStepKeeps, Others
  <2>3. Keeps(d)
    BY <1>3, <1>5
  <2>4. KeepsIndexes
    BY DEF CallerStepKeeps
  <2> QED BY <1>1, <1>4, <2>1, <2>2, <2>3, <2>4, StableCaller
<1>6. CheckInv'
  <2>1. Keeps(Ticker)
    BY <1>3
  <2> QED BY <1>1, <1>2, <2>1 DEF CheckInv, Keeps
<1>7. GoroutineInv'
  <2>1. Keeps(LifeCycle) /\ Keeps(Uninstaller)
    BY <1>3
  <2> QED BY <1>1, <1>2, <2>1 DEF GoroutineInv, Keeps, CallerStepKeeps
<1>8. RegistryInv'
  <2>1. \A d \in Callers : pc'[d] = "addRepoStore" <=> pc[d] = "addRepoStore"
    BY DEF CallerStepKeeps, Others
  <2>2. \A r \in RepoAddrs : config'[r] = Nil => repoLock'[r] = Free
    BY <1>1, <1>2 DEF RegistryInv, CallerStepKeeps
  <2>3. Settled' = Settled
    BY <1>2, <2>1 DEF Settled
  <2> QED BY <1>1, <1>2, <2>2, <2>3 DEF RegistryInv, UniqueURL
<1> QED BY <1>1, <1>5, <1>6, <1>7, <1>8 DEF IInv

-----------------------------------------------------------------------------
(* Control: what Goto, Return and Begin do to the caller and to the others *)

LEMMA GotoEffect ==
  ASSUME CallTypes, NEW c \in Callers, NEW label \in Labels, Goto(c, label)
  PROVE  /\ CallTypes' /\ Others(c)
         /\ pc'[c] = label /\ loc'[c] = loc[c] /\ req'[c] = req[c]
BY DEF Goto, CallTypes, Others

LEMMA ReturnEffect ==
  ASSUME CallTypes, NEW c \in Callers, Return(c)
  PROVE  CallTypes' /\ Others(c) /\ pc'[c] = "idle" /\ loc'[c].repo = Nil
<1>1. NoReq \in Requests
  BY DEF NoReq, Request, Requests
<1>2. NoLoc \in Locals /\ NoLoc.repo = Nil
  BY DEF NoLoc, Frame, Locals
<1> QED BY <1>1, <1>2 DEF Return, CallTypes, Labels, Others

LEMMA BeginEffect ==
  ASSUME CallTypes, NEW c \in Callers, NEW q \in Requests, NEW l \in Locals,
         q.op \in Labels, Begin(c, q, l)
  PROVE  /\ CallTypes' /\ Others(c) /\ pc[c] = "idle"
         /\ pc'[c] = q.op /\ req'[c] = q /\ loc'[c] = l
BY DEF Begin, CallTypes, Labels, Others

\* A handler that touches nothing but its own control and locals, and moves
\* into no critical section of a repository.
LEMMA QuietStep ==
  ASSUME IInv, NEW c \in Callers, CallTypes', Others(c), CallerInv(c)',
         UNCHANGED <<serverState, listVars, repoVars, appLock, goVars>>,
         application' \in [AppAddrs -> Applications \cup {Nil}],
         \/ handlerLock' = handlerLock
         \/ {handlerLock, handlerLock'} \subseteq {c, Free},
         \/ loc'[c].repo \in {loc[c].repo, Nil}
         \/ config[loc'[c].repo] # Nil
         \/ \A d \in Callers : loc[d].repo # loc'[c].repo,
         pc[c] \notin RepoLabels, pc'[c] \notin RepoLabels
  PROVE  IInv'
<1>1. TypeOK'
  BY DEF IInv, TypeOK, RegistryTypes, CheckTypes, listVars, repoVars, goVars
<1>2. KeepsIndexes
  <2>1. nApps' = nApps /\ repoLock' = repoLock
    BY DEF repoVars
  <2>2. LeakedRepos \subseteq LeakedRepos'
    BY <2>1 DEF LeakedRepos, Others
  <2>3. nApps \in [RepoAddrs -> Nat]
    BY BoundAssumption DEF IInv, TypeOK, RegistryTypes
  <2> QED BY <2>1, <2>2, <2>3 DEF KeepsIndexes
<1>3. CallerStepKeeps(c)
  BY <1>2 DEF CallerStepKeeps, listVars, repoVars, goVars, RepoLabels
<1> QED BY <1>1, <1>3, CallerStepInv

-----------------------------------------------------------------------------
(* Init, a panic and a restart                                             *)

LEMMA InitInv == Init => IInv
<1> SUFFICES ASSUME Init PROVE IInv
  OBVIOUS
<1> USE DisjointAssumption, BoundAssumption DEF Init
<1>1. TypeOK
  <2>1. RegistryTypes
    BY DEF RegistryTypes, NoRepos, NoApps, States
  <2>2. CallTypes
    BY DEF CallTypes, NoReq, NoLoc, Request, Frame, Labels, Requests, Locals
  <2>3. CheckTypes
    BY DEF CheckTypes, NoCheck
  <2> QED BY <2>1, <2>2, <2>3 DEF TypeOK
<1>2. ASSUME NEW c \in Callers PROVE CallerInv(c)
  BY DEF CallerInv, LocksHeld, RepoKnown, AppKnown, Appending, RemovalIndex, AppIndex,
         HandlerLabels, RepoLabels, AppLabels, NewRepoLabels, KnownRepoLabels, OldAppLabels
<1>3. CheckInv /\ GoroutineInv
  BY DEF CheckInv, GoroutineInv, NoCheck
<1>4. RegistryInv
  BY DEF RegistryInv, Settled, UniqueURL, NoRepos
<1> QED BY <1>1, <1>2, <1>3, <1>4 DEF IInv

LEMMA PanicInv ==
  ASSUME NEW s \in States, Panic(s)
  PROVE  IInv'
<1> USE DisjointAssumption, BoundAssumption DEF Panic, NoRepos, NoApps, NoReq, NoLoc, NoCheck
<1>1. RegistryTypes'
  BY DEF RegistryTypes
<1>2. CallTypes' /\ CheckTypes'
  <2>1. pc' \in [Callers -> Labels]
    BY DEF Labels
  <2>2. req' \in [Callers -> Requests]
    BY DEF Requests, Request
  <2>3. loc' \in [Callers -> Locals]
    BY DEF Locals, Frame
  <2>4. CheckTypes'
    BY DEF CheckTypes
  <2> QED BY <2>1, <2>2, <2>3, <2>4 DEF CallTypes
<1>3. ASSUME NEW c \in Callers PROVE CallerInv(c)'
  BY IdleCaller
<1>4. CheckInv' /\ GoroutineInv'
  BY DEF CheckInv, GoroutineInv
<1>5. RegistryInv'
  BY DEF RegistryInv, Settled, UniqueURL
<1> QED BY <1>1, <1>2, <1>3, <1>4, <1>5 DEF IInv, TypeOK

\* What does not change keeps the invariant.
LEMMA StutterInv ==
  ASSUME IInv, serverState' \in States,
         UNCHANGED <<handlerLock, listVars, repoVars, appVars, callVars, goVars>>
  PROVE  IInv'
BY DEF IInv, TypeOK, RegistryTypes, CallTypes, CheckTypes, CallerInv, CheckInv, GoroutineInv,
       RegistryInv, LocksHeld, RepoKnown, AppKnown, Appending, RemovalIndex, AppIndex,
       LeakedRepos, Settled, UniqueURL, listVars, repoVars, appVars, callVars, goVars

-----------------------------------------------------------------------------
(* Requests                                                                *)

LEMMA RequestTypes ==
  ASSUME NEW op \in Ops, NEW name \in RepoNames \cup AppNames, NEW url \in URLs \cup {Nil},
         NEW s \in Settings \cup {Nil}
  PROVE  LET q == Request(op, name, url, s)
         IN  q \in Requests /\ q.op = op /\ q.name = name /\ q.url = url /\ q.settings = s
BY DEF Request, Requests

LEMMA FrameTypes ==
  ASSUME NEW r \in RepoAddrs \cup {Nil}, NEW a \in AppAddrs \cup {Nil}
  PROVE  Frame(r, a) \in Locals /\ Frame(r, a).repo = r
BY DEF Frame, Locals

\* Every request starts outside every critical section.
LEMMA BeginInv ==
  ASSUME IInv, NEW c \in Callers, NEW q \in Requests, NEW l \in Locals, Begin(c, q, l),
         q.op \in {"AddRepository", "DeleteRepository", "AddOrUpdateApplication",
                   "DeleteApplication"},
         q.op = "AddRepository" =>
           /\ l.repo \in RepoAddrs /\ config[l.repo] = Nil
           /\ \A d \in Callers : loc[d].repo # l.repo
           /\ q.name \in RepoNames /\ q.url \in URLs,
         q.op # "AddRepository" => l.repo = Nil,
         q.op = "AddOrUpdateApplication" => q.name \in AppNames /\ q.settings \in Settings,
         UNCHANGED <<serverState, handlerLock, listVars, repoVars, appVars, goVars>>
  PROVE  IInv'
<1>1. /\ CallTypes' /\ Others(c) /\ pc[c] = "idle"
      /\ pc'[c] = q.op /\ req'[c] = q /\ loc'[c] = l
  BY BeginEffect DEF IInv, TypeOK, Labels
<1>2. CallerInv(c)'
  <2>1. RepoKnown(c)'
    BY <1>1 DEF RepoKnown, NewRepoLabels, KnownRepoLabels, listVars, Others
  <2>2. LocksHeld(c)' /\ Appending(c)' /\ RemovalIndex(c)' /\ AppIndex(c)'
    BY <1>1 DEF LocksHeld, Appending, RemovalIndex, AppIndex,
                HandlerLabels, RepoLabels, AppLabels
  <2>3. AppKnown(c)'
    BY <1>1 DEF AppKnown, OldAppLabels
  <2> QED BY <2>1, <2>2, <2>3 DEF CallerInv
<1>3. UNCHANGED <<serverState, listVars, repoVars, appLock, goVars>>
  BY DEF appVars
<1>4. application' \in [AppAddrs -> Applications \cup {Nil}]
  BY DEF IInv, TypeOK, RegistryTypes, appVars
<1>5. pc[c] \notin RepoLabels /\ pc'[c] \notin RepoLabels
  BY <1>1 DEF RepoLabels
<1> QED BY <1>1, <1>2, <1>3, <1>4, <1>5, QuietStep

LEMMA CallInv ==
  ASSUME IInv, NEW c \in Callers, Call(c)
  PROVE  IInv'
<1>1. CASE CallAddRepository(c)
  <2>1. PICK name \in RepoNames, url \in URLs, r \in RepoAddrs :
          /\ config[r] = Nil /\ \A d \in Callers : loc[d].repo # r
          /\ Begin(c, Request("AddRepository", name, url, Nil), Frame(r, Nil))
          /\ UNCHANGED <<serverState, handlerLock, listVars, repoVars, appVars, goVars>>
    BY <1>1 DEF CallAddRepository
  <2> DEFINE q == Request("AddRepository", name, url, Nil)
             l == Frame(r, Nil)
  <2>2. "AddRepository" \in Ops
    BY <2>1 DEF Begin, Request
  <2>3. q \in Requests /\ q.op = "AddRepository" /\ q.name = name /\ q.url = url
    BY <2>2, RequestTypes
  <2>4. l \in Locals /\ l.repo = r
    BY FrameTypes
  <2> HIDE DEF q, l
  <2> QED BY <2>1, <2>3, <2>4, BeginInv DEF q, l
<1>2. CASE CallDeleteRepository(c)
  <2>1. PICK name \in RepoNames :
          /\ Begin(c, Request("DeleteRepository", name, Nil, Nil), NoLoc)
          /\ UNCHANGED <<serverState, handlerLock, listVars, repoVars, appVars, goVars>>
    BY <1>2 DEF CallDeleteRepository
  <2> DEFINE q == Request("DeleteRepository", name, Nil, Nil)
  <2>2. "DeleteRepository" \in Ops
    BY <2>1 DEF Begin, Request
  <2>3. q \in Requests /\ q.op = "DeleteRepository"
    BY <2>2, RequestTypes
  <2>4. NoLoc \in Locals /\ NoLoc.repo = Nil
    BY FrameTypes DEF NoLoc
  <2> HIDE DEF q
  <2> QED BY <2>1, <2>3, <2>4, BeginInv DEF q
<1>3. CASE CallAddOrUpdateApplication(c)
  <2>1. PICK name \in AppNames, url \in URLs, s \in Settings, a \in AppAddrs :
          /\ Begin(c, Request("AddOrUpdateApplication", name, url, s), Frame(Nil, a))
          /\ UNCHANGED <<serverState, handlerLock, listVars, repoVars, appVars, goVars>>
    BY <1>3 DEF CallAddOrUpdateApplication
  <2> DEFINE q == Request("AddOrUpdateApplication", name, url, s)
             l == Frame(Nil, a)
  <2>2. "AddOrUpdateApplication" \in Ops
    BY <2>1 DEF Begin, Request
  <2>3. q \in Requests /\ q.op = "AddOrUpdateApplication" /\ q.name = name /\ q.settings = s
    BY <2>2, RequestTypes
  <2>4. l \in Locals /\ l.repo = Nil
    BY FrameTypes
  <2> HIDE DEF q, l
  <2> QED BY <2>1, <2>3, <2>4, BeginInv DEF q, l
<1>4. CASE CallDeleteApplication(c)
  <2>1. PICK name \in AppNames, url \in URLs :
          /\ Begin(c, Request("DeleteApplication", name, url, Nil), NoLoc)
          /\ UNCHANGED <<serverState, handlerLock, listVars, repoVars, appVars, goVars>>
    BY <1>4 DEF CallDeleteApplication
  <2> DEFINE q == Request("DeleteApplication", name, url, Nil)
  <2>2. "DeleteApplication" \in Ops
    BY <2>1 DEF Begin, Request
  <2>3. q \in Requests /\ q.op = "DeleteApplication"
    BY <2>2, RequestTypes
  <2>4. NoLoc \in Locals /\ NoLoc.repo = Nil
    BY FrameTypes DEF NoLoc
  <2> HIDE DEF q
  <2> QED BY <2>1, <2>3, <2>4, BeginInv DEF q
<1> QED BY <1>1, <1>2, <1>3, <1>4 DEF Call

-----------------------------------------------------------------------------
(* The handlers that only read the registry                                *)

\* What a lookup without the lock returns is nil or a stored repository.
LEMMA Lookup ==
  ASSUME IInv, NEW url, NEW r \in GetRepositoryConfig(url), r # Nil
  PROVE  r \in RepoAddrs /\ config[r] # Nil
<1>1. PICK i \in 1..nRepos : r = repos[i]
  BY DEF GetRepositoryConfig, First
<1>2. i \in 1..MaxRepos
  BY BoundAssumption DEF IInv, TypeOK, RegistryTypes
<1> QED BY <1>1, <1>2 DEF IInv, TypeOK, RegistryTypes, RegistryInv

\* A handler that answers outside every repository's critical section.
LEMMA QuietReturn ==
  ASSUME IInv, NEW c \in Callers, Return(c), pc[c] \notin RepoLabels,
         UNCHANGED <<serverState, listVars, repoVars, appLock, goVars>>,
         application' \in [AppAddrs -> Applications \cup {Nil}],
         \/ handlerLock' = handlerLock
         \/ {handlerLock, handlerLock'} \subseteq {c, Free}
  PROVE  IInv'
<1>1. CallTypes' /\ Others(c) /\ pc'[c] = "idle" /\ loc'[c].repo = Nil
  BY ReturnEffect DEF IInv, TypeOK
<1>2. CallerInv(c)'
  BY <1>1, IdleCaller
<1>3. pc'[c] \notin RepoLabels
  BY <1>1 DEF RepoLabels
<1> QED BY <1>1, <1>2, <1>3, QuietStep

\* A handler that moves on with what it had.
LEMMA QuietGoto ==
  ASSUME IInv, NEW c \in Callers, NEW label \in Labels \ RepoLabels, Goto(c, label),
         pc[c] \notin RepoLabels, CallerInv(c)',
         UNCHANGED <<serverState, listVars, repoVars, appLock, goVars>>,
         application' \in [AppAddrs -> Applications \cup {Nil}],
         \/ handlerLock' = handlerLock
         \/ {handlerLock, handlerLock'} \subseteq {c, Free}
  PROVE  IInv'
<1>1. CallTypes' /\ Others(c) /\ pc'[c] = label /\ loc'[c] = loc[c]
  BY GotoEffect DEF IInv, TypeOK
<1> QED BY <1>1, QuietStep

LEMMA ApplicationTypes ==
  ASSUME IInv
  PROVE  /\ application \in [AppAddrs -> Applications \cup {Nil}]
         /\ \A g : Drop(g) => application' \in [AppAddrs -> Applications \cup {Nil}]
BY DEF IInv, TypeOK, RegistryTypes, Drop

LEMMA AddRepositoryCheckInv ==
  ASSUME IInv, NEW c \in Callers, AddRepositoryCheck(c)
  PROVE  IInv'
<1>1. pc[c] = "AddRepository" /\ CallerInv(c)
  BY DEF AddRepositoryCheck, IInv
<1>2. CASE Panic("nil dereference")
  BY <1>2, PanicInv DEF States
<1>3. CASE /\ Return(c)
           /\ UNCHANGED <<serverState, handlerLock, listVars, repoVars, appVars, goVars>>
  BY <1>1, <1>3, QuietReturn, ApplicationTypes DEF appVars, RepoLabels
<1>4. CASE /\ Goto(c, "addRepoLock")
           /\ UNCHANGED <<serverState, handlerLock, listVars, repoVars, appVars, goVars>>
  <2>1. /\ Others(c) /\ pc'[c] = "addRepoLock" /\ loc'[c] = loc[c] /\ req'[c] = req[c]
    BY <1>4, GotoEffect DEF Labels, IInv, TypeOK
  <2>2. CallerInv(c)'
    BY <1>1, <1>4, <2>1 DEF CallerInv, LocksHeld, RepoKnown, AppKnown, Appending, RemovalIndex,
       AppIndex, HandlerLabels, RepoLabels, AppLabels, NewRepoLabels, KnownRepoLabels,
       OldAppLabels, listVars, Others
  <2> QED BY <1>1, <1>4, <2>2, QuietGoto, ApplicationTypes DEF appVars, RepoLabels, Labels
<1> QED BY <1>2, <1>3, <1>4 DEF AddRepositoryCheck

LEMMA AddRepositoryLockInv ==
  ASSUME IInv, NEW c \in Callers, AddRepositoryLock(c)
  PROVE  IInv'
<1>1. /\ pc[c] = "addRepoLock" /\ CallerInv(c) /\ handlerLock = Free /\ handlerLock' = c
      /\ Goto(c, "addRepoNew")
      /\ UNCHANGED <<serverState, listVars, repoVars, appVars, goVars>>
  BY DEF AddRepositoryLock, IInv
<1>2. /\ Others(c) /\ pc'[c] = "addRepoNew" /\ loc'[c] = loc[c] /\ req'[c] = req[c]
  BY <1>1, GotoEffect DEF Labels, IInv, TypeOK
<1>3. CallerInv(c)'
  BY <1>1, <1>2 DEF CallerInv, LocksHeld, RepoKnown, AppKnown, Appending, RemovalIndex,
     AppIndex, HandlerLabels, RepoLabels, AppLabels, NewRepoLabels, KnownRepoLabels,
     OldAppLabels, listVars, Others
<1> QED BY <1>1, <1>3, QuietGoto, ApplicationTypes DEF appVars, RepoLabels, Labels

LEMMA AddRepositoryRefuseInv ==
  ASSUME IInv, NEW c \in Callers, AddRepositoryRefuse(c)
  PROVE  IInv'
<1>1. pc[c] = "addRepoNew" /\ handlerLock = c
  BY DEF AddRepositoryRefuse, IInv, CallerInv, LocksHeld, HandlerLabels
<1> QED BY <1>1, QuietReturn, ApplicationTypes DEF AddRepositoryRefuse, appVars, RepoLabels

LEMMA DeleteRepositoryLockInv ==
  ASSUME IInv, NEW c \in Callers, DeleteRepositoryLock(c)
  PROVE  IInv'
<1>1. /\ pc[c] = "DeleteRepository" /\ handlerLock = Free /\ handlerLock' = c
      /\ Goto(c, "delRepoFind")
      /\ UNCHANGED <<serverState, listVars, repoVars, appVars, goVars>>
  BY DEF DeleteRepositoryLock
<1>2. /\ pc'[c] = "delRepoFind" /\ loc'[c] = loc[c] /\ req'[c] = req[c]
  BY <1>1, GotoEffect DEF Labels, IInv, TypeOK
<1>3. CallerInv(c)'
  BY <1>1, <1>2 DEF CallerInv, LocksHeld, RepoKnown, AppKnown, Appending, RemovalIndex,
     AppIndex, HandlerLabels, RepoLabels, AppLabels, NewRepoLabels, KnownRepoLabels, OldAppLabels
<1> QED BY <1>1, <1>3, QuietGoto, ApplicationTypes DEF appVars, RepoLabels, Labels

LEMMA DeleteRepositoryFindInv ==
  ASSUME IInv, NEW c \in Callers, DeleteRepositoryFind(c)
  PROVE  IInv'
<1>1. /\ pc[c] = "delRepoFind" /\ handlerLock = c
      /\ UNCHANGED <<serverState, listVars, repoVars, appVars, goVars>>
  BY DEF DeleteRepositoryFind, IInv, CallerInv, LocksHeld, HandlerLabels
<1>2. CASE Return(c) /\ handlerLock' = Free
  BY <1>1, <1>2, QuietReturn, ApplicationTypes DEF appVars, RepoLabels
<1>3. CASE \E i \in Last({i \in 1..nRepos : config[repos[i]].name = req[c].name}) :
             /\ pc' = [pc EXCEPT ![c] = "delRepoLock"]
             /\ loc' = [loc EXCEPT ![c].idx = i, ![c].repo = repos[i]]
             /\ UNCHANGED <<req, handlerLock>>
  <2>1. PICK i \in 1..nRepos :
          /\ pc' = [pc EXCEPT ![c] = "delRepoLock"]
          /\ loc' = [loc EXCEPT ![c].idx = i, ![c].repo = repos[i]]
          /\ UNCHANGED <<req, handlerLock>>
    BY <1>3 DEF Last
  <2>2. \A d \in Callers : pc[d] # "addRepoStore"
    BY <1>1, Holders DEF IInv, CallerInv, LocksHeld, HandlerLabels
  <2>3. i \in 1..MaxRepos /\ repos[i] \in RepoAddrs /\ config[repos[i]] # Nil
    BY <2>2, BoundAssumption DEF IInv, TypeOK, RegistryTypes, RegistryInv, Settled
  <2>4. CallTypes' /\ Others(c)
    <3>1. pc' \in [Callers -> Labels] /\ req' \in [Callers -> Requests]
      BY <2>1 DEF IInv, TypeOK, CallTypes, Labels
    <3>2. i \in Nat /\ loc \in [Callers -> Locals]
      BY <2>3, BoundAssumption DEF IInv, TypeOK, CallTypes
    <3>3. loc' \in [Callers -> Locals]
      BY <2>1, <2>3, <3>2 DEF Locals
    <3>4. Others(c)
      BY <2>1 DEF IInv, TypeOK, CallTypes, Others
    <3> QED BY <3>1, <3>3, <3>4 DEF CallTypes
  <2>5. pc'[c] = "delRepoLock" /\ loc'[c].idx = i /\ loc'[c].repo = repos[i]
    BY <2>1 DEF IInv, TypeOK, CallTypes, Locals
  <2>6. CallerInv(c)'
    BY <1>1, <2>1, <2>3, <2>5 DEF CallerInv, LocksHeld, RepoKnown, AppKnown, Appending,
       RemovalIndex, AppIndex, HandlerLabels, RepoLabels, AppLabels, NewRepoLabels,
       KnownRepoLabels, OldAppLabels, listVars
  <2> QED BY <1>1, <2>1, <2>3, <2>4, <2>5, <2>6, QuietStep, ApplicationTypes
          DEF appVars, RepoLabels
<1> QED BY <1>2, <1>3 DEF DeleteRepositoryFind

LEMMA AddOrUpdateApplicationInv ==
  ASSUME IInv, NEW c \in Callers, AddOrUpdateApplication(c)
  PROVE  IInv'
<1>1. pc[c] = "AddOrUpdateApplication" /\ CallerInv(c)
  BY DEF AddOrUpdateApplication, IInv
<1>2. CASE Panic("nil dereference")
  BY <1>2, PanicInv DEF States
<1>3. CASE /\ Return(c)
           /\ UNCHANGED <<serverState, handlerLock, listVars, repoVars, appVars, goVars>>
  BY <1>1, <1>3, QuietReturn, ApplicationTypes DEF appVars, RepoLabels
<1>4. CASE /\ \E r \in GetRepositoryConfig(req[c].url) \ {Nil} :
                /\ loc' = [loc EXCEPT ![c].repo = r]
                /\ application' = [application EXCEPT ![loc[c].app] =
                     [repo |-> r, name |-> req[c].name, settings |-> req[c].settings]]
           /\ pc' = [pc EXCEPT ![c] = "updScan"]
           /\ UNCHANGED <<serverState, handlerLock, listVars, repoVars, appLock, req, goVars>>
  <2>1. PICK r \in GetRepositoryConfig(req[c].url) \ {Nil} :
          /\ loc' = [loc EXCEPT ![c].repo = r]
          /\ application' = [application EXCEPT ![loc[c].app] =
               [repo |-> r, name |-> req[c].name, settings |-> req[c].settings]]
    BY <1>4
  <2>2. r \in RepoAddrs /\ config[r] # Nil
    BY Lookup
  <2>3. CallTypes' /\ Others(c)
    BY <1>4, <2>1, <2>2 DEF IInv, TypeOK, CallTypes, Labels, Locals, Others
  <2>4. pc'[c] = "updScan" /\ loc'[c].repo = r
    BY <1>4, <2>1 DEF IInv, TypeOK, CallTypes, Locals
  <2>5. application' \in [AppAddrs -> Applications \cup {Nil}]
    <3>1. [repo |-> r, name |-> req[c].name, settings |-> req[c].settings] \in Applications
      BY <1>1, <2>2 DEF CallerInv, AppKnown, Applications
    <3> QED BY <2>1, <3>1, ApplicationTypes
  <2>6. CallerInv(c)'
    BY <1>4, <2>2, <2>4 DEF CallerInv, LocksHeld, RepoKnown, AppKnown, Appending, RemovalIndex,
       AppIndex, HandlerLabels, RepoLabels, AppLabels, NewRepoLabels, KnownRepoLabels,
       OldAppLabels, listVars
  <2> QED BY <1>1, <1>4, <2>2, <2>3, <2>4, <2>5, <2>6, QuietStep DEF RepoLabels
<1> QED BY <1>2, <1>3, <1>4 DEF AddOrUpdateApplication

LEMMA AddOrUpdateScanInv ==
  ASSUME IInv, NEW c \in Callers, AddOrUpdateScan(c)
  PROVE  IInv'
<1>1. pc[c] = "updScan" /\ CallerInv(c) /\ loc[c].repo \in RepoAddrs
  BY DEF AddOrUpdateScan, IInv, CallerInv, RepoKnown, KnownRepoLabels
<1> DEFINE stops == AppSlots(loc[c].repo, req[c].name) \cup EmptySlots(loc[c].repo)
<1>2. CASE /\ Goto(c, "addAppNew")
           /\ UNCHANGED <<serverState, handlerLock, listVars, repoVars, appVars, goVars>>
  <2>1. pc'[c] = "addAppNew" /\ loc'[c] = loc[c]
    BY <1>2, GotoEffect DEF Labels, IInv, TypeOK
  <2>2. CallerInv(c)'
    BY <1>1, <1>2, <2>1 DEF CallerInv, LocksHeld, RepoKnown, AppKnown, Appending, RemovalIndex,
       AppIndex, HandlerLabels, RepoLabels, AppLabels, NewRepoLabels, KnownRepoLabels,
       OldAppLabels, listVars
  <2> QED BY <1>1, <1>2, <2>2, QuietGoto, ApplicationTypes DEF appVars, RepoLabels, Labels
<1>3. CASE Panic("nil dereference")
  BY <1>3, PanicInv DEF States
<1>4. ASSUME NEW i \in stops,
             pc' = [pc EXCEPT ![c] = "updCompare"],
             loc' = [loc EXCEPT ![c].idx = i],
             UNCHANGED <<serverState, handlerLock, listVars, repoVars, appVars, req, goVars>>
      PROVE  IInv'
  <2>1. i \in 1..nApps[loc[c].repo] /\ nApps[loc[c].repo] \in Nat /\ i \in Nat
    BY <1>1, BoundAssumption DEF AppSlots, EmptySlots, IInv, TypeOK, RegistryTypes
  <2>2. CallTypes' /\ Others(c)
    BY <1>4, <2>1 DEF IInv, TypeOK, CallTypes, Labels, Locals, Others
  <2>3. pc'[c] = "updCompare" /\ loc'[c].idx = i /\ loc'[c].repo = loc[c].repo
    BY <1>4 DEF IInv, TypeOK, CallTypes, Locals
  <2>4. AppIndex(c)'
    BY <1>4, <2>1, <2>3 DEF AppIndex, repoVars
  <2>5. CallerInv(c)'
    BY <1>1, <1>4, <2>3, <2>4 DEF CallerInv, LocksHeld, RepoKnown, AppKnown, Appending,
       RemovalIndex, HandlerLabels, RepoLabels, AppLabels, NewRepoLabels, KnownRepoLabels,
       OldAppLabels, listVars
  <2> QED BY <1>1, <1>4, <2>2, <2>3, <2>5, QuietStep, ApplicationTypes DEF RepoLabels, appVars
<1>5. \A i \in First(stops) : i \in stops
  BY DEF First
<1> QED BY <1>2, <1>3, <1>4, <1>5 DEF AddOrUpdateScan

LEMMA AddOrUpdateCompareInv ==
  ASSUME IInv, NEW c \in Callers, AddOrUpdateCompare(c)
  PROVE  IInv'
<1>1. pc[c] = "updCompare" /\ CallerInv(c) /\ loc[c].repo \in RepoAddrs
  BY DEF AddOrUpdateCompare, IInv, CallerInv, RepoKnown, KnownRepoLabels
<1>2. CASE Panic("index out of range")
  BY <1>2, PanicInv DEF States
<1>3. CASE /\ Drop({loc[c].app}) /\ Return(c)
           /\ UNCHANGED <<serverState, handlerLock, listVars, repoVars, appLock, goVars>>
  BY <1>1, <1>3, QuietReturn, ApplicationTypes DEF RepoLabels
<1>4. CASE /\ Goto(c, "updRepoLock")
           /\ UNCHANGED <<serverState, handlerLock, listVars, repoVars, appVars, goVars>>
  <2>1. pc'[c] = "updRepoLock" /\ loc'[c] = loc[c]
    BY <1>4, GotoEffect DEF Labels, IInv, TypeOK
  <2>2. loc[c].repo \in LeakedRepos => loc[c].repo \in LeakedRepos'
    BY <1>1, <1>4, <2>1, GotoEffect DEF LeakedRepos, RepoLabels, repoVars, Goto, IInv, TypeOK, Others
  <2>3. AppIndex(c)'
    BY <1>1, <1>4, <2>1, <2>2 DEF CallerInv, AppIndex, repoVars
  <2>4. CallerInv(c)'
    BY <1>1, <1>4, <2>1, <2>3 DEF CallerInv, LocksHeld, RepoKnown, AppKnown, Appending,
       RemovalIndex, HandlerLabels, RepoLabels, AppLabels, NewRepoLabels, KnownRepoLabels,
       OldAppLabels, listVars
  <2> QED BY <1>1, <1>4, <2>4, QuietGoto, ApplicationTypes DEF RepoLabels, Labels, appVars
<1> QED BY <1>2, <1>3, <1>4 DEF AddOrUpdateCompare

LEMMA AddApplicationNewInv ==
  ASSUME IInv, NEW c \in Callers, AddApplicationNew(c)
  PROVE  IInv'
<1>1. /\ pc[c] = "addAppNew" /\ CallerInv(c)
      /\ UNCHANGED <<serverState, handlerLock, listVars, repoVars, appLock, goVars>>
  BY DEF AddApplicationNew, IInv
<1>2. CASE Goto(c, "addAppLock") /\ UNCHANGED application
  <2>1. pc'[c] = "addAppLock" /\ loc'[c] = loc[c]
    BY <1>2, GotoEffect DEF Labels, IInv, TypeOK
  <2>2. CallerInv(c)'
    BY <1>1, <1>2, <2>1 DEF CallerInv, LocksHeld, RepoKnown, AppKnown, Appending, RemovalIndex,
       AppIndex, HandlerLabels, RepoLabels, AppLabels, NewRepoLabels, KnownRepoLabels,
       OldAppLabels, listVars
  <2> QED BY <1>1, <1>2, <2>2, QuietGoto, ApplicationTypes DEF RepoLabels, Labels
<1>3. CASE Return(c) /\ Drop({loc[c].app})
  BY <1>1, <1>3, QuietReturn, ApplicationTypes DEF RepoLabels
<1> QED BY <1>2, <1>3 DEF AddApplicationNew

LEMMA DeleteApplicationInv ==
  ASSUME IInv, NEW c \in Callers, DeleteApplication(c)
  PROVE  IInv'
<1>1. pc[c] = "DeleteApplication"
  BY DEF DeleteApplication
<1>2. CASE Panic("nil dereference")
  BY <1>2, PanicInv DEF States
<1>3. CASE /\ Return(c)
           /\ UNCHANGED <<serverState, handlerLock, listVars, repoVars, appVars, goVars>>
  BY <1>1, <1>3, QuietReturn, ApplicationTypes DEF appVars, RepoLabels
<1>4. CASE /\ \E r \in GetRepositoryConfig(req[c].url) \ {Nil} : loc' = [loc EXCEPT ![c].repo = r]
           /\ pc' = [pc EXCEPT ![c] = "delAppScan"]
           /\ UNCHANGED <<serverState, handlerLock, listVars, repoVars, appVars, req, goVars>>
  <2>1. PICK r \in GetRepositoryConfig(req[c].url) \ {Nil} : loc' = [loc EXCEPT ![c].repo = r]
    BY <1>4
  <2>2. r \in RepoAddrs /\ config[r] # Nil
    BY Lookup
  <2>3. CallTypes' /\ Others(c)
    BY <1>4, <2>1, <2>2 DEF IInv, TypeOK, CallTypes, Labels, Locals, Others
  <2>4. pc'[c] = "delAppScan" /\ loc'[c].repo = r
    BY <1>4, <2>1 DEF IInv, TypeOK, CallTypes, Locals
  <2>5. CallerInv(c)'
    BY <1>4, <2>2, <2>4 DEF CallerInv, LocksHeld, RepoKnown, AppKnown, Appending, RemovalIndex,
       AppIndex, HandlerLabels, RepoLabels, AppLabels, NewRepoLabels, KnownRepoLabels,
       OldAppLabels, listVars
  <2> QED BY <1>1, <1>4, <2>2, <2>3, <2>4, <2>5, QuietStep, ApplicationTypes
          DEF RepoLabels, appVars
<1> QED BY <1>2, <1>3, <1>4 DEF DeleteApplication

LEMMA DeleteApplicationScanInv ==
  ASSUME IInv, NEW c \in Callers, DeleteApplicationScan(c)
  PROVE  IInv'
<1>1. pc[c] = "delAppScan" /\ CallerInv(c) /\ loc[c].repo \in RepoAddrs
  BY DEF DeleteApplicationScan, IInv, CallerInv, RepoKnown, KnownRepoLabels
<1> DEFINE slots == AppSlots(loc[c].repo, req[c].name)
<1>2. CASE Panic("nil dereference")
  BY <1>2, PanicInv DEF States
<1>3. CASE /\ Return(c)
           /\ UNCHANGED <<serverState, handlerLock, listVars, repoVars, appVars, goVars>>
  BY <1>1, <1>3, QuietReturn, ApplicationTypes DEF appVars, RepoLabels
<1>4. ASSUME NEW i \in slots,
             loc' = [loc EXCEPT ![c].idx = i, ![c].old = apps[loc[c].repo][i]],
             pc' = [pc EXCEPT ![c] = "delAppLock"],
             UNCHANGED <<serverState, handlerLock, listVars, repoVars, appVars, req, goVars>>
      PROVE  IInv'
  <2>1. /\ i \in 1..nApps[loc[c].repo] /\ nApps[loc[c].repo] \in Nat /\ i \in Nat
        /\ apps[loc[c].repo][i] \in AppAddrs
    BY <1>1, BoundAssumption DEF AppSlots, IInv, TypeOK, RegistryTypes
  <2>2. CallTypes' /\ Others(c)
    <3>1. pc' \in [Callers -> Labels] /\ req' \in [Callers -> Requests]
      BY <1>4 DEF IInv, TypeOK, CallTypes, Labels
    <3>2. loc \in [Callers -> Locals]
      BY DEF IInv, TypeOK, CallTypes
    <3>3. loc' \in [Callers -> Locals]
      BY <1>4, <2>1, <3>2 DEF Locals
    <3>4. Others(c)
      BY <1>4 DEF IInv, TypeOK, CallTypes, Others
    <3> QED BY <3>1, <3>3, <3>4 DEF CallTypes
  <2>3. /\ pc'[c] = "delAppLock" /\ loc'[c].idx = i /\ loc'[c].repo = loc[c].repo
        /\ loc'[c].old = apps[loc[c].repo][i]
    BY <1>4 DEF IInv, TypeOK, CallTypes, Locals
  <2>4. AppIndex(c)'
    BY <1>4, <2>1, <2>3 DEF AppIndex, repoVars
  <2>5. CallerInv(c)'
    BY <1>1, <1>4, <2>1, <2>3, <2>4 DEF CallerInv, LocksHeld, RepoKnown, AppKnown, Appending,
       RemovalIndex, HandlerLabels, RepoLabels, AppLabels, NewRepoLabels, KnownRepoLabels,
       OldAppLabels, listVars
  <2> QED BY <1>1, <1>4, <2>2, <2>3, <2>5, QuietStep, ApplicationTypes DEF RepoLabels, appVars
<1>5. \A i \in Last(slots) : i \in slots
  BY DEF Last
<1> QED BY <1>2, <1>3, <1>4, <1>5 DEF DeleteApplicationScan

-----------------------------------------------------------------------------
(* The critical sections of the repositories and of the applications       *)

\* A caller at a label where it knows its repository.
LEMMA AtKnownRepo ==
  ASSUME IInv, NEW c \in Callers, pc[c] \in KnownRepoLabels
  PROVE  /\ CallerInv(c) /\ RegistryTypes /\ CallTypes /\ CheckTypes
         /\ loc[c].repo \in RepoAddrs /\ config[loc[c].repo] # Nil
         /\ nApps[loc[c].repo] \in Nat
BY BoundAssumption DEF IInv, TypeOK, CallerInv, RepoKnown, RegistryTypes

\* A handler locks its repository, and may only lengthen the slice.
LEMMA LockRepoInv ==
  ASSUME IInv, NEW c \in Callers, NEW label \in Labels, Goto(c, label),
         pc[c] \in {"delRepoLock", "addAppLock", "updRepoLock", "delAppLock"},
         label \in RepoLabels \ {"addRepoStore"},
         repoLock[loc[c].repo] = Free, repoLock' = [repoLock EXCEPT ![loc[c].repo] = c],
         CallerInv(c)',
         nApps' \in [RepoAddrs -> 0..MaxApps],
         \A r \in RepoAddrs : nApps'[r] >= nApps[r],
         \A r \in RepoAddrs : r # loc[c].repo => nApps'[r] = nApps[r],
         uninst' \in [AppAddrs -> {"none", "waiting", "running"}],
         \A a \in AppAddrs : uninst'[a] = "running" => uninst[a] = "running",
         UNCHANGED <<serverState, handlerLock, listVars, apps, appVars, tick, life, wg>>
  PROVE  IInv'
<1>1. /\ CallerInv(c) /\ RegistryTypes /\ CallTypes /\ CheckTypes
      /\ loc[c].repo \in RepoAddrs /\ config[loc[c].repo] # Nil
  BY AtKnownRepo DEF KnownRepoLabels
<1>2. /\ CallTypes' /\ Others(c) /\ pc'[c] = label /\ loc'[c] = loc[c]
  BY <1>1, GotoEffect
<1>3. TypeOK'
  <2>1. RegistryTypes'
    BY <1>1 DEF RegistryTypes, listVars, appVars
  <2>2. CheckTypes'
    BY <1>1 DEF CheckTypes
  <2> QED BY <1>2, <2>1, <2>2 DEF TypeOK
<1>4. \A r \in RepoAddrs : r # loc[c].repo => repoLock'[r] = repoLock[r]
  BY <1>1 DEF RegistryTypes
<1>5. KeepsIndexes
  <2>1. LeakedRepos \subseteq LeakedRepos'
    BY <1>1, <1>2, <1>4, Holders DEF LeakedRepos, Others
  <2> QED BY <2>1 DEF KeepsIndexes
<1>6. CallerStepKeeps(c)
  BY <1>1, <1>2, <1>4, <1>5 DEF CallerStepKeeps, appVars, listVars
<1> QED BY <1>3, <1>6, CallerStepInv

LEMMA DeleteRepositorySpawnInv ==
  ASSUME IInv, NEW c \in Callers, DeleteRepositorySpawn(c)
  PROVE  IInv'
<1>1. /\ pc[c] = "delRepoLock" /\ repoLock[loc[c].repo] = Free
      /\ repoLock' = [repoLock EXCEPT ![loc[c].repo] = c]
      /\ Goto(c, "delRepoWait")
      /\ UNCHANGED <<serverState, handlerLock, listVars, apps, nApps, appVars, tick, life, wg>>
  BY DEF DeleteRepositorySpawn
<1>2. /\ CallerInv(c) /\ RegistryTypes /\ CallTypes /\ CheckTypes
      /\ loc[c].repo \in RepoAddrs /\ config[loc[c].repo] # Nil /\ nApps[loc[c].repo] \in Nat
  BY <1>1, AtKnownRepo DEF KnownRepoLabels
<1>3. pc'[c] = "delRepoWait" /\ loc'[c] = loc[c]
  BY <1>1, <1>2, GotoEffect DEF Labels
<1>4. CallerInv(c)'
  BY <1>1, <1>2, <1>3 DEF RegistryTypes, CallerInv, LocksHeld, RepoKnown, AppKnown, Appending,
     RemovalIndex, AppIndex, HandlerLabels, RepoLabels, AppLabels, NewRepoLabels,
     KnownRepoLabels, OldAppLabels, listVars
<1>5. /\ uninst' \in [AppAddrs -> {"none", "waiting", "running"}]
      /\ \A a \in AppAddrs : uninst'[a] = "running" => uninst[a] = "running"
  BY <1>2 DEF DeleteRepositorySpawn, CheckTypes
<1>6. nApps' \in [RepoAddrs -> 0..MaxApps] /\ \A r \in RepoAddrs : nApps'[r] >= nApps[r]
  BY <1>1, <1>2, BoundAssumption DEF RegistryTypes
<1> QED BY <1>1, <1>4, <1>5, <1>6, LockRepoInv DEF RepoLabels, Labels

LEMMA AddApplicationGrowInv ==
  ASSUME IInv, NEW c \in Callers, AddApplicationGrow(c)
  PROVE  IInv'
<1>1. /\ pc[c] = "addAppLock" /\ repoLock[loc[c].repo] = Free
      /\ nApps[loc[c].repo] < MaxApps
      /\ repoLock' = [repoLock EXCEPT ![loc[c].repo] = c]
      /\ nApps' = [nApps EXCEPT ![loc[c].repo] = @ + 1]
      /\ Goto(c, "addAppStore")
      /\ UNCHANGED <<serverState, handlerLock, listVars, apps, appVars, goVars>>
  BY DEF AddApplicationGrow
<1>2. /\ CallerInv(c) /\ RegistryTypes /\ CallTypes /\ CheckTypes
      /\ loc[c].repo \in RepoAddrs /\ config[loc[c].repo] # Nil /\ nApps[loc[c].repo] \in Nat
  BY <1>1, AtKnownRepo DEF KnownRepoLabels
<1>3. pc'[c] = "addAppStore" /\ loc'[c] = loc[c]
  BY <1>1, <1>2, GotoEffect DEF Labels
<1>4. CallerInv(c)'
  BY <1>1, <1>2, <1>3 DEF RegistryTypes, CallerInv, LocksHeld, RepoKnown, AppKnown, Appending,
     RemovalIndex, AppIndex, HandlerLabels, RepoLabels, AppLabels, NewRepoLabels,
     KnownRepoLabels, OldAppLabels, listVars
<1>5. /\ nApps' \in [RepoAddrs -> 0..MaxApps]
      /\ \A r \in RepoAddrs : nApps'[r] >= nApps[r]
      /\ \A r \in RepoAddrs : r # loc[c].repo => nApps'[r] = nApps[r]
  BY <1>1, <1>2, BoundAssumption DEF RegistryTypes
<1>6. uninst' = uninst /\ UNCHANGED <<tick, life, wg>>
  BY <1>1 DEF goVars
<1> QED BY <1>1, <1>2, <1>4, <1>5, <1>6, LockRepoInv DEF RepoLabels, Labels, CheckTypes

\* An update or a deletion that locks its repository.
LEMMA LockScannedRepo ==
  ASSUME IInv, NEW c \in Callers, NEW label, Goto(c, label),
         \/ pc[c] = "updRepoLock" /\ label = "updAppLock"
         \/ pc[c] = "delAppLock" /\ label = "delAppLockApp",
         repoLock[loc[c].repo] = Free, repoLock' = [repoLock EXCEPT ![loc[c].repo] = c],
         UNCHANGED <<serverState, handlerLock, listVars, apps, nApps, appVars, goVars>>
  PROVE  IInv'
<1>1. /\ CallerInv(c) /\ RegistryTypes /\ CallTypes /\ CheckTypes
      /\ loc[c].repo \in RepoAddrs /\ config[loc[c].repo] # Nil /\ nApps[loc[c].repo] \in Nat
  BY AtKnownRepo DEF KnownRepoLabels
<1>2. label \in Labels /\ label \in RepoLabels \ {"addRepoStore"}
  BY DEF Labels, RepoLabels
<1>3. pc'[c] = label /\ loc'[c] = loc[c]
  BY <1>1, <1>2, GotoEffect
<1>4. loc[c].repo \notin LeakedRepos
  BY Holders DEF LeakedRepos
<1>5. AppIndex(c)'
  BY <1>1, <1>3, <1>4 DEF AppIndex, CallerInv
<1>6. CallerInv(c)'
  BY <1>1, <1>3, <1>5 DEF RegistryTypes, CallerInv, LocksHeld, RepoKnown, AppKnown, Appending,
     RemovalIndex, HandlerLabels, RepoLabels, AppLabels, NewRepoLabels, KnownRepoLabels,
     OldAppLabels, listVars
<1>7. nApps' \in [RepoAddrs -> 0..MaxApps] /\ \A r \in RepoAddrs : nApps'[r] >= nApps[r]
  BY <1>1, BoundAssumption DEF RegistryTypes
<1>8. uninst' = uninst /\ UNCHANGED <<tick, life, wg>>
  BY DEF goVars
<1> QED BY <1>1, <1>2, <1>6, <1>7, <1>8, LockRepoInv DEF CheckTypes

LEMMA UpdateLockRepoInv ==
  ASSUME IInv, NEW c \in Callers, UpdateLockRepo(c)
  PROVE  IInv'
BY LockScannedRepo DEF UpdateLockRepo

LEMMA DeleteApplicationLockRepoInv ==
  ASSUME IInv, NEW c \in Callers, DeleteApplicationLockRepo(c)
  PROVE  IInv'
BY LockScannedRepo DEF DeleteApplicationLockRepo

\* A handler answers from inside the critical section of its repository.
LEMMA AnswerInv ==
  ASSUME IInv, NEW c \in Callers, Return(c),
         pc[c] \in {"addAppStore", "updApp", "delApp"},
         \A r \in RepoAddrs : r # loc[c].repo => repoLock'[r] = repoLock[r] /\ nApps'[r] = nApps[r],
         \/ repoLock'[loc[c].repo] = Free /\ nApps' = nApps
         \/ repoLock'[loc[c].repo] = c,
         \A a \in AppAddrs : appLock'[a] = appLock[a] \/ appLock[a] = c,
         RegistryTypes',
         UNCHANGED <<handlerLock, listVars, goVars>>
  PROVE  IInv'
<1>1. /\ CallerInv(c) /\ RegistryTypes /\ CallTypes /\ CheckTypes
      /\ loc[c].repo \in RepoAddrs /\ config[loc[c].repo] # Nil
      /\ repoLock[loc[c].repo] = c
  BY AtKnownRepo DEF KnownRepoLabels, RepoLabels, CallerInv, LocksHeld
<1>2. CallTypes' /\ Others(c) /\ pc'[c] = "idle" /\ loc'[c].repo = Nil
  BY <1>1, ReturnEffect
<1>3. CallerInv(c)'
  BY <1>2, IdleCaller
<1>4. KeepsIndexes
  <2>1. ASSUME NEW r \in LeakedRepos PROVE r \in LeakedRepos'
    <3>1. r # loc[c].repo \/ repoLock[r] = c
      BY <1>1
    <3>2. PICK d \in Callers : repoLock[r] = d /\ ~ (pc[d] \in RepoLabels /\ loc[d].repo = r)
      BY DEF LeakedRepos
    <3>3. r \in RepoAddrs /\ r # loc[c].repo
      BY <1>1, <3>2 DEF LeakedRepos, RepoLabels
    <3>4. CASE d = c
      BY <1>2, <3>2, <3>3, <3>4 DEF LeakedRepos, RepoLabels
    <3>5. CASE d # c
      BY <1>2, <3>2, <3>3, <3>5 DEF LeakedRepos, Others
    <3> QED BY <3>4, <3>5
  <2>2. \A r \in RepoAddrs : nApps'[r] = nApps[r] \/ r \in LeakedRepos'
    BY <1>1, <1>2 DEF LeakedRepos, RepoLabels
  <2>3. \A r \in RepoAddrs : nApps[r] \in Nat
    BY <1>1, BoundAssumption DEF RegistryTypes
  <2> QED BY <2>1, <2>2, <2>3 DEF KeepsIndexes
<1>5. TypeOK'
  <2>1. CheckTypes'
    BY <1>1 DEF CheckTypes, goVars
  <2> QED BY <1>2, <2>1 DEF TypeOK
<1>6. CallerStepKeeps(c)
  BY <1>1, <1>2, <1>4 DEF CallerStepKeeps, listVars, goVars
<1> QED BY <1>3, <1>5, <1>6, CallerStepInv

LEMMA AddApplicationStoreInv ==
  ASSUME IInv, NEW c \in Callers, AddApplicationStore(c)
  PROVE  IInv'
<1>1. /\ pc[c] = "addAppStore" /\ Return(c)
      /\ apps' = [apps EXCEPT ![loc[c].repo][nApps[loc[c].repo]] = loc[c].app]
      /\ repoLock' = [repoLock EXCEPT ![loc[c].repo] = Free]
      /\ UNCHANGED <<serverState, handlerLock, listVars, nApps, appVars, goVars>>
  BY DEF AddApplicationStore
<1>2. /\ RegistryTypes /\ CallTypes /\ loc[c].repo \in RepoAddrs
  BY <1>1, AtKnownRepo DEF KnownRepoLabels
<1>3. loc[c].app \in AppAddrs \cup {Nil}
  BY <1>2 DEF CallTypes, Locals
<1>4. RegistryTypes'
  BY <1>1, <1>2, <1>3 DEF RegistryTypes, listVars, appVars
<1> QED BY <1>1, <1>2, <1>4, AnswerInv DEF RegistryTypes, appVars

LEMMA UpdateAppInv ==
  ASSUME IInv, NEW c \in Callers, UpdateApp(c)
  PROVE  IInv'
<1>1. /\ pc[c] = "updApp" /\ Return(c)
      /\ appLock' = [appLock EXCEPT ![loc[c].old] = Free]
      /\ repoLock' = [repoLock EXCEPT ![loc[c].repo] = Free]
      /\ UNCHANGED <<serverState, handlerLock, listVars, nApps, goVars>>
  BY DEF UpdateApp
<1>2. /\ RegistryTypes /\ CallTypes /\ CallerInv(c) /\ loc[c].repo \in RepoAddrs
  BY <1>1, AtKnownRepo DEF KnownRepoLabels
<1>3. loc[c].app \in AppAddrs \cup {Nil}
  BY <1>2 DEF CallTypes, Locals
<1>4. application' \in [AppAddrs -> Applications \cup {Nil}]
  BY ApplicationTypes DEF UpdateApp
<1>5. apps' \in [RepoAddrs -> [1..MaxApps -> AppAddrs \cup {Nil}]]
  <2>1. ASSUME NEW a \in AppAddrs \cup {Nil}, apps' = [apps EXCEPT ![loc[c].repo][loc[c].idx] = a]
        PROVE  apps' \in [RepoAddrs -> [1..MaxApps -> AppAddrs \cup {Nil}]]
    BY <1>2, <2>1 DEF RegistryTypes
  <2>2. CASE apps' = apps
    BY <1>2, <2>2 DEF RegistryTypes
  <2> QED BY <1>3, <2>1, <2>2 DEF UpdateApp
<1>6. RegistryTypes'
  BY <1>1, <1>2, <1>4, <1>5 DEF RegistryTypes, listVars
<1>7. \A a \in AppAddrs : appLock'[a] = appLock[a] \/ appLock[a] = c
  BY <1>1, <1>2 DEF CallerInv, LocksHeld, AppLabels, RegistryTypes
<1> QED BY <1>1, <1>2, <1>6, <1>7, AnswerInv DEF RegistryTypes

LEMMA DeleteApplicationRemoveInv ==
  ASSUME IInv, NEW c \in Callers, DeleteApplicationRemove(c)
  PROVE  IInv'
<1> DEFINE r == loc[c].repo
<1>1. /\ pc[c] = "delApp" /\ Return(c)
      /\ apps' = [apps EXCEPT ![r][loc[c].idx] = apps[r][nApps[r]]]
      /\ nApps' = [nApps EXCEPT ![r] = @ - 1]
      /\ UNCHANGED <<serverState, handlerLock, listVars, repoLock, appVars, goVars>>
  BY DEF DeleteApplicationRemove
<1>2. /\ RegistryTypes /\ CallTypes /\ CallerInv(c) /\ r \in RepoAddrs /\ repoLock[r] = c
  BY <1>1, AtKnownRepo DEF KnownRepoLabels, CallerInv, LocksHeld, RepoLabels
<1>3. nApps[r] \in 1..MaxApps
  <2>1. loc[c].idx > 0 /\ loc[c].idx <= nApps[r] /\ loc[c].idx \in Nat
    BY <1>1, <1>2 DEF CallerInv, AppIndex, CallTypes, Locals
  <2>2. nApps[r] \in 0..MaxApps
    BY <1>2 DEF RegistryTypes
  <2> QED BY <2>1, <2>2, BoundAssumption
<1>4. nApps' \in [RepoAddrs -> 0..MaxApps]
  BY <1>1, <1>2, <1>3, BoundAssumption DEF RegistryTypes
<1>5. apps' \in [RepoAddrs -> [1..MaxApps -> AppAddrs \cup {Nil}]]
  <2>1. apps[r] \in [1..MaxApps -> AppAddrs \cup {Nil}]
    BY <1>2 DEF RegistryTypes
  <2>2. apps[r][nApps[r]] \in AppAddrs \cup {Nil}
    BY <1>3, <2>1
  <2> QED BY <1>1, <1>2, <2>2 DEF RegistryTypes
<1>6. RegistryTypes'
  BY <1>1, <1>2, <1>4, <1>5 DEF RegistryTypes, listVars, appVars
<1>7. \A s \in RepoAddrs : s # r => nApps'[s] = nApps[s]
  BY <1>1, <1>2 DEF RegistryTypes
<1> QED BY <1>1, <1>2, <1>6, <1>7, AnswerInv DEF appVars

\* A handler locks an application inside the critical section of its repository.
LEMMA LockAppInv ==
  ASSUME IInv, NEW c \in Callers, NEW old \in AppAddrs, NEW label,
         \/ pc[c] = "updAppLock" /\ label = "updApp"
         \/ pc[c] = "delAppLockApp" /\ label = "delApp",
         CallTypes', Others(c), pc'[c] = label,
         loc'[c].repo = loc[c].repo, loc'[c].idx = loc[c].idx, loc'[c].old = old,
         appLock[old] = Free, appLock' = [appLock EXCEPT ![old] = c],
         UNCHANGED <<serverState, handlerLock, listVars, repoVars, application, goVars>>
  PROVE  IInv'
<1>1. /\ CallerInv(c) /\ RegistryTypes /\ CheckTypes
      /\ loc[c].repo \in RepoAddrs /\ config[loc[c].repo] # Nil
      /\ repoLock[loc[c].repo] = c
  BY AtKnownRepo DEF KnownRepoLabels, RepoLabels, CallerInv, LocksHeld
<1>2. UNCHANGED <<repoLock, nApps, apps>>
  BY DEF repoVars
<1>3. CallerInv(c)'
  BY <1>1, <1>2 DEF RegistryTypes, CallerInv, LocksHeld, RepoKnown, AppKnown, Appending,
     RemovalIndex, AppIndex, HandlerLabels, RepoLabels, AppLabels, NewRepoLabels,
     KnownRepoLabels, OldAppLabels, listVars
<1>4. KeepsIndexes
  <2>1. LeakedRepos \subseteq LeakedRepos'
    BY <1>1, <1>2 DEF LeakedRepos, Others, RepoLabels
  <2>2. \A r \in RepoAddrs : nApps[r] \in Nat
    BY <1>1, BoundAssumption DEF RegistryTypes
  <2> QED BY <1>2, <2>1, <2>2 DEF KeepsIndexes
<1>5. TypeOK'
  <2>1. RegistryTypes'
    BY <1>1, <1>2 DEF RegistryTypes, listVars
  <2>2. CheckTypes'
    BY <1>1 DEF CheckTypes, goVars
  <2> QED BY <2>1, <2>2 DEF TypeOK
<1>6. CallerStepKeeps(c)
  BY <1>1, <1>2, <1>4 DEF CallerStepKeeps, listVars, goVars, RegistryTypes
<1> QED BY <1>3, <1>5, <1>6, CallerStepInv

LEMMA UpdateLockAppInv ==
  ASSUME IInv, NEW c \in Callers, UpdateLockApp(c)
  PROVE  IInv'
<1> DEFINE old == apps[loc[c].repo][loc[c].idx]
<1>1. CASE Panic("nil dereference")
  BY <1>1, PanicInv DEF States
<1>2. CASE /\ old \in AppAddrs /\ appLock[old] = Free
           /\ appLock' = [appLock EXCEPT ![old] = c]
           /\ pc' = [pc EXCEPT ![c] = "updApp"]
           /\ loc' = [loc EXCEPT ![c].old = old]
           /\ UNCHANGED <<serverState, handlerLock, listVars, repoVars, application, req, goVars>>
  <2> HIDE DEF old
  <2>1. pc[c] = "updAppLock"
    BY DEF UpdateLockApp
  <2>2. CallTypes' /\ Others(c) /\ pc'[c] = "updApp"
    BY <1>2 DEF IInv, TypeOK, CallTypes, Labels, Locals, Others
  <2>3. loc'[c].repo = loc[c].repo /\ loc'[c].idx = loc[c].idx /\ loc'[c].old = old
    BY <1>2 DEF IInv, TypeOK, CallTypes, Locals
  <2> QED BY <1>2, <2>1, <2>2, <2>3, LockAppInv
<1> QED BY <1>1, <1>2 DEF UpdateLockApp

LEMMA DeleteApplicationLockAppInv ==
  ASSUME IInv, NEW c \in Callers, DeleteApplicationLockApp(c)
  PROVE  IInv'
<1>1. pc[c] = "delAppLockApp" /\ Goto(c, "delApp")
  BY DEF DeleteApplicationLockApp
<1>2. CallTypes /\ loc[c].old \in AppAddrs
  BY <1>1 DEF IInv, TypeOK, CallerInv, AppKnown, OldAppLabels
<1>3. CallTypes' /\ Others(c) /\ pc'[c] = "delApp" /\ loc'[c] = loc[c]
  BY <1>1, <1>2, GotoEffect DEF Labels
<1> QED BY <1>1, <1>2, <1>3, LockAppInv DEF DeleteApplicationLockApp

-----------------------------------------------------------------------------
(* The critical section of the registry                                    *)

\* While a handler holds h.Mutex, no other one appends, and no check runs.
LEMMA HandlerMutex ==
  ASSUME IInv, NEW c \in Callers, pc[c] \in HandlerLabels
  PROVE  /\ CallerInv(c) /\ RegistryTypes /\ CallTypes /\ CheckTypes /\ RegistryInv
         /\ handlerLock = c /\ tick.at = "idle"
         /\ \A d \in Callers : d # c => pc[d] # "addRepoStore"
         /\ nRepos \in Nat /\ MaxRepos \in Nat /\ nRepos <= MaxRepos
BY Holders, BoundAssumption
   DEF IInv, TypeOK, CallerInv, LocksHeld, HandlerLabels, CheckInv, RegistryTypes

\* What a step inside that critical section owes the others.
LEMMA RegistryStep ==
  ASSUME IInv, NEW c \in Callers, pc[c] \in HandlerLabels,
         Others(c), TypeOK', CallerInv(c)', RegistryInv',
         handlerLock' \in {c, Free},
         KeepsConfig, \A d \in Callers : d # c => KeepsNew(d),
         \A r \in RepoAddrs : repoLock'[r] = repoLock[r] \/ repoLock[r] \in {c, Free},
         LeakedRepos \subseteq LeakedRepos',
         UNCHANGED <<nApps, appVars, goVars>>
  PROVE  IInv'
<1>1. /\ RegistryTypes /\ handlerLock = c /\ tick.at = "idle"
  BY HandlerMutex
<1>2. UNCHANGED <<appLock, tick, life, uninst>>
  BY DEF appVars, goVars
<1>3. KeepsIndexes
  BY <1>1, BoundAssumption DEF KeepsIndexes, RegistryTypes
<1>4. ASSUME NEW d \in Callers, d # c
      PROVE  CallerInv(d)'
  <2>1. Keeps(d)
    BY <1>1, <1>2, <1>4, Holders DEF Keeps
  <2>2. pc'[d] = pc[d] /\ req'[d] = req[d] /\ loc'[d] = loc[d]
    BY <1>4 DEF Others
  <2> QED BY <1>3, <1>4, <2>1, <2>2, StableCaller DEF TypeOK
<1>5. CheckInv'
  BY <1>1, <1>2 DEF CheckInv
<1>6. GoroutineInv'
  BY <1>2 DEF GoroutineInv, IInv
<1> QED BY <1>4, <1>5, <1>6 DEF IInv

LEMMA AddRepositoryGrowInv ==
  ASSUME IInv, NEW c \in Callers, AddRepositoryGrow(c)
  PROVE  IInv'
<1> DEFINE r == loc[c].repo
           new == [name |-> req[c].name, url |-> req[c].url]
<1>1. /\ pc[c] = "addRepoNew" /\ nRepos < MaxRepos
      /\ \A i \in 1..nRepos : config[repos[i]].url # req[c].url
      /\ config' = [config EXCEPT ![r] = new]
      /\ repoLock' = [repoLock EXCEPT ![r] = c]
      /\ nRepos' = nRepos + 1
      /\ Goto(c, "addRepoStore")
      /\ UNCHANGED <<serverState, handlerLock, repos, apps, nApps, appVars, goVars>>
  BY DEF AddRepositoryGrow
<1>2. /\ CallerInv(c) /\ RegistryTypes /\ CallTypes /\ CheckTypes /\ RegistryInv
      /\ handlerLock = c /\ \A d \in Callers : pc[d] # "addRepoStore"
      /\ nRepos \in Nat /\ MaxRepos \in Nat
  BY <1>1, HandlerMutex DEF HandlerLabels
<1>3. /\ r \in RepoAddrs /\ config[r] = Nil /\ repoLock[r] = Free
      /\ new \in Configs /\ new # Nil /\ new.url = req[c].url
  BY <1>1, <1>2, DisjointAssumption
     DEF CallerInv, RepoKnown, NewRepoLabels, RegistryInv, Configs
<1>4. CallTypes' /\ Others(c) /\ pc'[c] = "addRepoStore" /\ loc'[c] = loc[c]
  BY <1>1, <1>2, GotoEffect DEF Labels
<1>5. ASSUME NEW i \in 1..nRepos
      PROVE  repos[i] \in RepoAddrs /\ config[repos[i]] # Nil /\ repos[i] # r
  <2>1. i \in Settled /\ i \in 1..MaxRepos
    BY <1>1, <1>2 DEF Settled
  <2> QED BY <1>2, <1>3, <2>1 DEF RegistryInv, RegistryTypes
<1> HIDE DEF new
<1>6. /\ config'[r] = new /\ repoLock'[r] = c
      /\ \A s \in RepoAddrs : s # r => config'[s] = config[s] /\ repoLock'[s] = repoLock[s]
  BY <1>1, <1>2, <1>3 DEF RegistryTypes
<1>7. TypeOK'
  <2>1. config' \in [RepoAddrs -> Configs \cup {Nil}] /\ nRepos' \in 0..MaxRepos
    BY <1>1, <1>2, <1>3 DEF RegistryTypes
  <2>2. RegistryTypes'
    BY <1>1, <1>2, <2>1 DEF RegistryTypes, appVars
  <2>3. CheckTypes'
    BY <1>1, <1>2 DEF CheckTypes, goVars
  <2> QED BY <1>4, <2>2, <2>3 DEF TypeOK
<1>8. CallerInv(c)'
  <2>1. Appending(c)'
    BY <1>1, <1>2, <1>3, <1>4, <1>5, <1>6 DEF Appending
  <2> QED BY <1>1, <1>2, <1>3, <1>4, <1>6, <2>1 DEF CallerInv, LocksHeld, RepoKnown, AppKnown,
       RemovalIndex, AppIndex, HandlerLabels, RepoLabels, AppLabels, NewRepoLabels,
       KnownRepoLabels, OldAppLabels
<1>9. RegistryInv'
  <2>1. Settled' = 1..nRepos /\ Settled = 1..nRepos
    BY <1>1, <1>2, <1>4 DEF Settled
  <2>2. \A i \in 1..MaxRepos : repos[i] # Nil => repos[i] \in RepoAddrs /\ config[repos[i]] # Nil
    BY <1>2 DEF RegistryInv, RegistryTypes
  <2>3. UniqueURL'
    BY <1>1, <1>2, <1>5, <1>6, <2>1 DEF UniqueURL, RegistryInv
  <2> QED BY <1>1, <1>2, <1>3, <1>5, <1>6, <2>1, <2>2, <2>3 DEF RegistryInv
<1>10. KeepsConfig
  BY <1>3, <1>6 DEF KeepsConfig
<1>11. ASSUME NEW d \in Callers, d # c, pc[d] \in NewRepoLabels
       PROVE  /\ config'[loc[d].repo] = Nil
              /\ \A e \in Callers : e # d => loc'[e].repo # loc[d].repo
  <2>1. /\ loc[d].repo \in RepoAddrs /\ config[loc[d].repo] = Nil
        /\ \A e \in Callers : e # d => loc[e].repo # loc[d].repo
    BY <1>11 DEF IInv, CallerInv, RepoKnown
  <2> QED BY <1>4, <1>6, <1>11, <2>1 DEF Others
<1>12. LeakedRepos \subseteq LeakedRepos'
  BY <1>2, <1>3, <1>4, <1>6, Holders DEF LeakedRepos, Others
<1> QED BY <1>1, <1>2, <1>3, <1>4, <1>6, <1>7, <1>8, <1>9, <1>10, <1>11, <1>12, RegistryStep
        DEF KeepsNew, HandlerLabels

\* A handler that returns from that critical section, having unlocked its repository.
LEMMA RegistryReturn ==
  ASSUME IInv, NEW c \in Callers, pc[c] \in {"addRepoStore", "delRepoWait"}, Return(c),
         repoLock' = [repoLock EXCEPT ![loc[c].repo] = Free], handlerLock' = Free,
         repos' \in [1..MaxRepos -> RepoAddrs \cup {Nil}], nRepos' \in 0..MaxRepos,
         RegistryInv',
         UNCHANGED <<serverState, config, apps, nApps, appVars, goVars>>
  PROVE  IInv'
<1>1. /\ CallerInv(c) /\ RegistryTypes /\ CallTypes /\ CheckTypes
      /\ loc[c].repo \in RepoAddrs
  BY AtKnownRepo DEF KnownRepoLabels
<1>2. CallTypes' /\ Others(c) /\ pc'[c] = "idle" /\ loc'[c].repo = Nil
  BY <1>1, ReturnEffect
<1>3. repoLock[loc[c].repo] = c
  BY <1>1 DEF CallerInv, LocksHeld, RepoLabels
<1>4. \A r \in RepoAddrs : r # loc[c].repo => repoLock'[r] = repoLock[r]
  BY <1>1 DEF RegistryTypes
<1>5. TypeOK'
  <2>1. RegistryTypes'
    BY <1>1 DEF RegistryTypes, appVars
  <2>2. CheckTypes'
    BY <1>1 DEF CheckTypes, goVars
  <2> QED BY <1>2, <2>1, <2>2 DEF TypeOK
<1>6. LeakedRepos \subseteq LeakedRepos'
  BY <1>2, <1>3, <1>4 DEF LeakedRepos, Others, RepoLabels
<1>7. ASSUME NEW d \in Callers, d # c
      PROVE  KeepsNew(d)
  <2> SUFFICES ASSUME pc[d] \in NewRepoLabels
               PROVE  /\ config'[loc[d].repo] = Nil
                      /\ \A e \in Callers : e # d => loc'[e].repo # loc[d].repo
    BY DEF KeepsNew
  <2>1. /\ loc[d].repo \in RepoAddrs /\ config[loc[d].repo] = Nil
        /\ \A e \in Callers : e # d => loc[e].repo # loc[d].repo
    BY <1>7 DEF IInv, CallerInv, RepoKnown
  <2> QED BY <1>2, <2>1, DisjointAssumption DEF Others
<1>8. KeepsConfig /\ CallerInv(c)'
  BY <1>2, IdleCaller DEF KeepsConfig
<1> QED BY <1>1, <1>2, <1>3, <1>4, <1>5, <1>6, <1>7, <1>8, RegistryStep DEF HandlerLabels

LEMMA AddRepositoryStoreInv ==
  ASSUME IInv, NEW c \in Callers, AddRepositoryStore(c)
  PROVE  IInv'
<1> DEFINE r == loc[c].repo
<1>1. /\ pc[c] = "addRepoStore" /\ Return(c)
      /\ repos' = [repos EXCEPT ![nRepos] = r]
      /\ repoLock' = [repoLock EXCEPT ![r] = Free] /\ handlerLock' = Free
      /\ UNCHANGED <<serverState, nRepos, config, apps, nApps, appVars, goVars>>
  BY DEF AddRepositoryStore
<1>2. /\ CallerInv(c) /\ RegistryTypes /\ CallTypes /\ RegistryInv
      /\ \A d \in Callers : d # c => pc[d] # "addRepoStore"
      /\ nRepos \in Nat /\ MaxRepos \in Nat /\ nRepos <= MaxRepos
  BY <1>1, HandlerMutex DEF HandlerLabels
<1>3. r \in RepoAddrs /\ config[r] # Nil
  BY <1>1, AtKnownRepo DEF KnownRepoLabels
<1>4. nRepos > 0 /\ \A i \in 1..nRepos : i # nRepos => config[repos[i]].url # config[r].url
  BY <1>1, <1>2 DEF CallerInv, Appending
<1>5. Others(c) /\ pc'[c] = "idle"
  BY <1>1, <1>2, ReturnEffect
<1>6. /\ repos' \in [1..MaxRepos -> RepoAddrs \cup {Nil}]
      /\ repos'[nRepos] = r /\ \A i \in 1..MaxRepos : i # nRepos => repos'[i] = repos[i]
  BY <1>1, <1>2, <1>3, <1>4 DEF RegistryTypes
<1>7. Settled' = 1..nRepos /\ Settled = 1..(nRepos - 1)
  BY <1>1, <1>2, <1>4, <1>5 DEF Settled, Others
<1>8. UniqueURL'
  <2> SUFFICES ASSUME NEW i \in 1..nRepos, NEW j \in 1..nRepos,
                      config[repos'[i]].url = config[repos'[j]].url
               PROVE  i = j
    BY <1>1, <1>7 DEF UniqueURL
  <2>1. CASE i # nRepos /\ j # nRepos
    <3>1. i \in Settled /\ j \in Settled
      BY <1>2, <1>7, <2>1
    <3> QED BY <1>2, <1>6, <2>1, <3>1 DEF UniqueURL, RegistryInv
  <2>2. CASE i = nRepos \/ j = nRepos
    BY <1>2, <1>4, <1>6, <2>2
  <2> QED BY <2>1, <2>2
<1>9. RegistryInv'
  <2>1. \A i \in Settled' : repos'[i] # Nil
    <3> SUFFICES ASSUME NEW i \in 1..nRepos, i # nRepos PROVE repos[i] # Nil
      BY <1>2, <1>3, <1>6, <1>7, DisjointAssumption
    <3>1. i \in Settled
      BY <1>2, <1>7
    <3> QED BY <1>2, <3>1 DEF RegistryInv
  <2>2. \A i \in 1..MaxRepos : repos'[i] # Nil => config[repos'[i]] # Nil
    BY <1>2, <1>3, <1>6 DEF RegistryInv
  <2>3. \A s \in RepoAddrs : config[s] = Nil => repoLock'[s] = Free
    BY <1>1, <1>2 DEF RegistryInv, RegistryTypes
  <2> QED BY <1>1, <1>8, <2>1, <2>2, <2>3 DEF RegistryInv
<1> QED BY <1>1, <1>2, <1>6, <1>9, RegistryReturn DEF RegistryTypes

LEMMA DeleteRepositoryRemoveInv ==
  ASSUME IInv, NEW c \in Callers, DeleteRepositoryRemove(c)
  PROVE  IInv'
<1> DEFINE k == loc[c].idx
<1>1. /\ pc[c] = "delRepoWait" /\ Return(c)
      /\ repos' = [repos EXCEPT ![k] = repos[nRepos]] /\ nRepos' = nRepos - 1
      /\ repoLock' = [repoLock EXCEPT ![loc[c].repo] = Free] /\ handlerLock' = Free
      /\ UNCHANGED <<serverState, config, apps, nApps, appVars, goVars>>
  BY DEF DeleteRepositoryRemove
<1>2. /\ CallerInv(c) /\ RegistryTypes /\ CallTypes /\ RegistryInv
      /\ \A d \in Callers : pc[d] # "addRepoStore"
      /\ nRepos \in Nat /\ MaxRepos \in Nat /\ nRepos <= MaxRepos
  BY <1>1, HandlerMutex DEF HandlerLabels
<1>3. k \in 1..nRepos
  BY <1>1, <1>2 DEF CallerInv, RemovalIndex
<1>4. Others(c) /\ pc'[c] = "idle"
  BY <1>1, <1>2, ReturnEffect
<1>5. Settled' = 1..nRepos' /\ Settled = 1..nRepos
  BY <1>1, <1>2, <1>4 DEF Settled, Others
<1>6. /\ repos' \in [1..MaxRepos -> RepoAddrs \cup {Nil}]
      /\ repos'[k] = repos[nRepos]
      /\ \A i \in 1..MaxRepos : i # k => repos'[i] = repos[i]
  BY <1>1, <1>2, <1>3 DEF RegistryTypes
<1>7. UniqueURL'
  <2> SUFFICES ASSUME NEW i \in 1..nRepos', NEW j \in 1..nRepos',
                      config[repos'[i]].url = config[repos'[j]].url
               PROVE  i = j
    BY <1>1, <1>5 DEF UniqueURL
  <2> DEFINE From(n) == IF n = k THEN nRepos ELSE n
  <2>1. repos'[i] = repos[From(i)] /\ repos'[j] = repos[From(j)]
    BY <1>1, <1>2, <1>6
  <2>2. From(i) \in Settled /\ From(j) \in Settled
    BY <1>1, <1>2, <1>3, <1>5
  <2>3. From(i) = From(j)
    BY <1>2, <2>1, <2>2 DEF UniqueURL, RegistryInv
  <2> QED BY <1>1, <1>2, <2>3
<1>8. RegistryInv'
  <2>1. \A i \in Settled' : repos'[i] # Nil
    BY <1>1, <1>2, <1>3, <1>5, <1>6 DEF RegistryInv
  <2>2. \A i \in 1..MaxRepos : repos'[i] # Nil => config[repos'[i]] # Nil
    BY <1>2, <1>3, <1>6 DEF RegistryInv
  <2>3. \A s \in RepoAddrs : config[s] = Nil => repoLock'[s] = Free
    BY <1>1, <1>2 DEF RegistryInv, RegistryTypes
  <2> QED BY <1>1, <1>7, <2>1, <2>2, <2>3 DEF RegistryInv
<1>9. nRepos' \in 0..MaxRepos
  BY <1>1, <1>2, <1>3
<1> QED BY <1>1, <1>6, <1>8, <1>9, RegistryReturn

-----------------------------------------------------------------------------
(* The check loop, the life cycles and the uninstallations                 *)

\* What a step outside the handlers owes them.
LEMMA BackgroundStep ==
  ASSUME IInv, TypeOK', CheckInv', GoroutineInv',
         UNCHANGED <<listVars, nApps, callVars>>,
         handlerLock' = handlerLock \/ handlerLock \in {Free, Ticker},
         \A r \in RepoAddrs :
           \/ repoLock'[r] = repoLock[r]
           \/ repoLock[r] \in {Free, Ticker} /\ config[r] # Nil,
         \A a \in AppAddrs : appLock'[a] = appLock[a] \/ appLock[a] \in {Free, LifeCycle}
  PROVE  IInv'
<1>1. /\ RegistryTypes /\ RegistryInv /\ TypeOK
      /\ UNCHANGED <<repos, nRepos, config, pc, req, loc>>
  BY DEF IInv, TypeOK, listVars, callVars
<1>2. KeepsIndexes
  <2>1. LeakedRepos \subseteq LeakedRepos'
    BY <1>1, Holders DEF LeakedRepos
  <2> QED BY <1>1, <2>1, BoundAssumption DEF KeepsIndexes, RegistryTypes
<1>3. ASSUME NEW d \in Callers
      PROVE  CallerInv(d)'
  <2>1. Keeps(d)
    BY <1>1, Holders DEF Keeps
  <2>2. KeepsNew(d) /\ KeepsConfig
    BY <1>1 DEF KeepsNew, KeepsConfig, IInv, CallerInv, RepoKnown
  <2> QED BY <1>1, <1>2, <2>1, <2>2, StableCaller DEF TypeOK
<1>4. RegistryInv'
  <2>1. Settled' = Settled
    BY <1>1 DEF Settled
  <2>2. UniqueURL'
    BY <1>1, <2>1 DEF UniqueURL, RegistryInv
  <2> QED BY <1>1, <2>1, <2>2 DEF RegistryInv
<1> QED BY <1>3, <1>4 DEF IInv

LEMMA UninstallInv ==
  ASSUME IInv, NEW a \in AppAddrs, UninstallLock(a) \/ UninstallDone(a)
  PROVE  IInv'
<1>1. RegistryTypes /\ CallTypes /\ CheckTypes /\ CheckInv /\ GoroutineInv
  BY DEF IInv, TypeOK
<1>2. /\ UNCHANGED <<serverState, handlerLock, listVars, repoVars, application, callVars,
                     tick, life, wg>>
      /\ UNCHANGED <<repoLock, apps, nApps, repos, nRepos, config, pc, req, loc>>
  BY DEF UninstallLock, UninstallDone, appVars, listVars, repoVars, callVars
<1>3. /\ uninst' \in [AppAddrs -> {"none", "waiting", "running"}]
      /\ appLock' \in [AppAddrs -> Callers \cup {Free, LifeCycle, Uninstaller}]
      /\ \A b \in AppAddrs : appLock'[b] = appLock[b] \/ appLock[b] = Free
  BY <1>1 DEF UninstallLock, UninstallDone, appVars, CheckTypes, RegistryTypes
<1>4. TypeOK'
  <2>1. RegistryTypes' /\ CallTypes'
    BY <1>1, <1>2, <1>3 DEF RegistryTypes, CallTypes
  <2>2. CheckTypes'
    BY <1>1, <1>2, <1>3 DEF CheckTypes
  <2> QED BY <2>1, <2>2 DEF TypeOK
<1>5. CheckInv'
  BY <1>1, <1>2 DEF CheckInv
<1>6. GoroutineInv'
  BY <1>1, <1>2, Holders
     DEF GoroutineInv, UninstallLock, UninstallDone, appVars, CheckTypes, RegistryTypes
<1> QED BY <1>2, <1>3, <1>4, <1>5, <1>6, BackgroundStep

LEMMA LifeInv ==
  ASSUME IInv, NEW a \in AppAddrs, LifeDone(a) \/ LifeUnlock(a)
  PROVE  IInv'
<1>1. RegistryTypes /\ CallTypes /\ CheckTypes /\ CheckInv /\ GoroutineInv
  BY DEF IInv, TypeOK
<1>2. CASE Panic("negative WaitGroup counter")
  BY <1>2, PanicInv DEF States
<1>3. CASE \/ /\ life[a] = "running" /\ wg > 0 /\ wg' = wg - 1
              /\ life' = [life EXCEPT ![a] = "done"]
              /\ UNCHANGED <<serverState, handlerLock, listVars, repoVars, appVars, callVars,
                             tick, uninst>>
           \/ LifeUnlock(a)
  <2>1. /\ UNCHANGED <<serverState, handlerLock, listVars, repoVars, application, callVars,
                       tick, uninst>>
        /\ UNCHANGED <<repoLock, apps, nApps, repos, nRepos, config, pc, req, loc>>
    BY <1>3 DEF LifeUnlock, appVars, listVars, repoVars, callVars
  <2>2. life[a] # "none" /\ appLock[a] = LifeCycle
    BY <1>1, <1>3 DEF LifeUnlock, GoroutineInv
  <2>3. /\ life' \in [AppAddrs -> {"none", "running", "done"}] /\ wg' \in Nat
        /\ appLock' \in [AppAddrs -> Callers \cup {Free, LifeCycle, Uninstaller}]
        /\ \A b \in AppAddrs : appLock'[b] = appLock[b] \/ appLock[b] = LifeCycle
    <3>1. life' \in [AppAddrs -> {"none", "running", "done"}]
      BY <1>1, <1>3 DEF LifeUnlock, CheckTypes
    <3>2. wg' \in Nat
      BY <1>1, <1>3 DEF LifeUnlock, CheckTypes
    <3>3. appLock' = appLock \/ appLock' = [appLock EXCEPT ![a] = Free]
      BY <1>3 DEF LifeUnlock, appVars
    <3> QED BY <1>1, <2>2, <3>1, <3>2, <3>3 DEF RegistryTypes
  <2>4. TypeOK'
    <3>1. RegistryTypes' /\ CallTypes'
      BY <1>1, <2>1, <2>3 DEF RegistryTypes, CallTypes
    <3>2. CheckTypes'
      BY <1>1, <2>1, <2>3 DEF CheckTypes
    <3> QED BY <3>1, <3>2 DEF TypeOK
  <2>5. CheckInv'
    BY <1>1, <2>1 DEF CheckInv
  <2>6. GoroutineInv'
    BY <1>1, <1>3, <2>1, <2>2, Holders
       DEF GoroutineInv, LifeUnlock, appVars, CheckTypes, RegistryTypes
  <2> QED BY <2>1, <2>3, <2>4, <2>5, <2>6, BackgroundStep
<1> QED BY <1>2, <1>3 DEF LifeDone

\* The steps of the check loop that start no life cycle.
LEMMA TickMoves ==
  ASSUME IInv, TickStart \/ TickRepo \/ TickRepoDone \/ TickWait
  PROVE  IInv'
<1>1. RegistryTypes /\ CallTypes /\ CheckTypes /\ CheckInv /\ GoroutineInv /\ RegistryInv
  BY DEF IInv, TypeOK
<1>2. /\ UNCHANGED <<serverState, listVars, appVars, callVars, life, uninst, wg>>
      /\ UNCHANGED <<apps, nApps, repos, nRepos, config, application, appLock, pc, req, loc>>
  BY DEF TickStart, TickRepo, TickRepoDone, TickWait, appVars, listVars, repoVars, callVars
<1>3. tick.i \in Nat \ {0} /\ tick.j \in Nat \ {0}
  BY <1>1 DEF CheckTypes
<1> DEFINE r == repos[tick.i]
<1>4. CASE TickStart
  <2>1. /\ handlerLock = Free /\ handlerLock' = Ticker /\ repoLock' = repoLock
        /\ tick' = [at |-> "repos", i |-> 1, j |-> 1]
    BY <1>4 DEF TickStart, repoVars
  <2>2. TypeOK'
    <3>1. RegistryTypes' /\ CallTypes'
      BY <1>1, <1>2, <2>1 DEF RegistryTypes, CallTypes
    <3>2. CheckTypes'
      BY <1>1, <1>2, <2>1 DEF CheckTypes
    <3> QED BY <3>1, <3>2 DEF TypeOK
  <2>3. CheckInv' /\ GoroutineInv'
    BY <1>1, <1>2, <2>1 DEF CheckInv, GoroutineInv
  <2> QED BY <1>2, <2>1, <2>2, <2>3, BackgroundStep
<1>5. CASE TickRepo
  <2>1. /\ tick.at = "repos" /\ tick.i <= nRepos /\ handlerLock = Ticker
        /\ handlerLock' = handlerLock
    BY <1>1, <1>5 DEF TickRepo, CheckInv
  <2>2. r \in RepoAddrs /\ config[r] # Nil
    <3>1. tick.i \in 1..nRepos /\ tick.i \in 1..MaxRepos
      BY <1>1, <1>3, <2>1, BoundAssumption DEF RegistryTypes
    <3>2. \A c \in Callers : pc[c] # "addRepoStore"
      BY <2>1, Holders DEF IInv, CallerInv, LocksHeld, HandlerLabels
    <3>3. tick.i \in Settled
      BY <3>1, <3>2 DEF Settled
    <3> QED BY <1>1, <3>1, <3>3 DEF RegistryInv, RegistryTypes
  <2>3. \/ /\ repoLock[r] = Free /\ repoLock' = [repoLock EXCEPT ![r] = Ticker]
           /\ tick' = [at |-> "apps", i |-> tick.i, j |-> 1]
        \/ /\ tick' = [tick EXCEPT !.i = @ + 1] /\ repoLock' = repoLock
    BY <1>5 DEF TickRepo
  <2>4. TypeOK'
    <3>1. RegistryTypes' /\ CallTypes'
      BY <1>1, <1>2, <2>1, <2>3 DEF RegistryTypes, CallTypes
    <3>2. tick' \in [at : {"idle", "repos", "apps"}, i : Nat \ {0}, j : Nat \ {0}]
      <4>1. tick \in [at : {"idle", "repos", "apps"}, i : Nat \ {0}, j : Nat \ {0}]
        BY <1>1 DEF CheckTypes
      <4>2. tick.i + 1 \in Nat \ {0}
        BY <1>3
      <4> QED BY <1>3, <2>3, <4>1, <4>2
    <3>3. CheckTypes'
      BY <1>1, <1>2, <3>2 DEF CheckTypes
    <3> QED BY <3>1, <3>3 DEF TypeOK
  <2>5. CheckInv'
    <3>1. \/ tick'.at = "apps" /\ tick'.i = tick.i /\ repoLock'[r] = Ticker
          \/ tick'.at = "repos"
      BY <1>1, <2>1, <2>2, <2>3 DEF CheckTypes, RegistryTypes
    <3> QED BY <1>2, <2>1, <2>2, <3>1 DEF CheckInv
  <2>6. GoroutineInv'
    BY <1>1, <1>2 DEF GoroutineInv
  <2>7. \A s \in RepoAddrs :
          \/ repoLock'[s] = repoLock[s]
          \/ repoLock[s] \in {Free, Ticker} /\ config[s] # Nil
    BY <1>1, <2>2, <2>3 DEF RegistryTypes
  <2> QED BY <1>2, <2>1, <2>4, <2>5, <2>6, <2>7, BackgroundStep
<1>6. CASE TickRepoDone
  <2>1. /\ tick.at = "apps" /\ handlerLock' = handlerLock
        /\ repoLock' = [repoLock EXCEPT ![r] = Free]
        /\ tick' = [at |-> "repos", i |-> tick.i + 1, j |-> 1]
    BY <1>6 DEF TickRepoDone
  <2>2. r \in RepoAddrs /\ repoLock[r] = Ticker /\ handlerLock = Ticker
    BY <1>1, <2>1 DEF CheckInv
  <2>3. config[r] # Nil
    BY <1>1, <2>2, Holders DEF RegistryInv
  <2>4. TypeOK'
    <3>1. RegistryTypes' /\ CallTypes'
      BY <1>1, <1>2, <2>1 DEF RegistryTypes, CallTypes
    <3>2. CheckTypes'
      BY <1>1, <1>2, <1>3, <2>1 DEF CheckTypes
    <3> QED BY <3>1, <3>2 DEF TypeOK
  <2>5. CheckInv' /\ GoroutineInv'
    BY <1>1, <1>2, <2>1, <2>2 DEF CheckInv, GoroutineInv
  <2>6. \A s \in RepoAddrs :
          \/ repoLock'[s] = repoLock[s]
          \/ repoLock[s] \in {Free, Ticker} /\ config[s] # Nil
    BY <1>1, <2>1, <2>2, <2>3 DEF RegistryTypes
  <2> QED BY <1>2, <2>1, <2>4, <2>5, <2>6, BackgroundStep
<1>7. CASE TickWait
  <2>1. /\ handlerLock = Ticker /\ handlerLock' = Free /\ repoLock' = repoLock
        /\ tick' = NoCheck
    BY <1>1, <1>7 DEF TickWait, repoVars, CheckInv
  <2>2. TypeOK'
    <3>1. RegistryTypes' /\ CallTypes'
      BY <1>1, <1>2, <2>1 DEF RegistryTypes, CallTypes
    <3>2. CheckTypes'
      BY <1>1, <1>2, <2>1 DEF CheckTypes, NoCheck
    <3> QED BY <3>1, <3>2 DEF TypeOK
  <2>3. CheckInv' /\ GoroutineInv'
    BY <1>1, <1>2, <2>1 DEF CheckInv, GoroutineInv, NoCheck
  <2> QED BY <1>2, <2>1, <2>2, <2>3, BackgroundStep
<1> QED BY <1>4, <1>5, <1>6, <1>7

LEMMA TickAppInv ==
  ASSUME IInv, TickApp
  PROVE  IInv'
<1> DEFINE a == apps[repos[tick.i]][tick.j]
<1>1. RegistryTypes /\ CallTypes /\ CheckTypes /\ CheckInv /\ GoroutineInv /\ RegistryInv
  BY DEF IInv, TypeOK
<1>2. CASE Panic("nil dereference") \/ Panic("negative WaitGroup counter")
  BY <1>2, PanicInv DEF States
<1>3. CASE \/ /\ a \in AppAddrs /\ appLock[a] = Free
              /\ appLock' = [appLock EXCEPT ![a] = LifeCycle]
              /\ life' = [life EXCEPT ![a] = "running"]
              /\ wg' = wg + 1
              /\ tick' = [tick EXCEPT !.j = @ + 1]
              /\ UNCHANGED <<serverState, handlerLock, listVars, repoVars, application,
                             callVars, uninst>>
           \/ /\ wg > 0 /\ wg' = wg - 1
              /\ tick' = [tick EXCEPT !.j = @ + 1]
              /\ UNCHANGED <<serverState, handlerLock, listVars, repoVars, appVars, callVars,
                             life, uninst>>
  <2> HIDE DEF a
  <2>1. /\ UNCHANGED <<serverState, handlerLock, listVars, repoVars, application, callVars,
                       uninst>>
        /\ UNCHANGED <<repoLock, apps, nApps, repos, nRepos, config, pc, req, loc>>
        /\ tick' = [tick EXCEPT !.j = @ + 1]
    BY <1>3 DEF appVars, listVars, repoVars, callVars
  <2>2. /\ life' \in [AppAddrs -> {"none", "running", "done"}] /\ wg' \in Nat
        /\ appLock' \in [AppAddrs -> Callers \cup {Free, LifeCycle, Uninstaller}]
        /\ \A b \in AppAddrs : appLock'[b] = appLock[b] \/ appLock[b] = Free
    <3>1. life' \in [AppAddrs -> {"none", "running", "done"}]
      BY <1>1, <1>3 DEF CheckTypes
    <3>2. wg' \in Nat
      BY <1>1, <1>3 DEF CheckTypes
    <3>3. appLock' = appLock \/ (appLock[a] = Free /\ appLock' = [appLock EXCEPT ![a] = LifeCycle])
      BY <1>3 DEF appVars
    <3> QED BY <1>1, <3>1, <3>2, <3>3 DEF RegistryTypes
  <2>3. TypeOK'
    <3>1. RegistryTypes' /\ CallTypes'
      BY <1>1, <2>1, <2>2 DEF RegistryTypes, CallTypes
    <3>2. CheckTypes'
      BY <1>1, <2>1, <2>2 DEF CheckTypes
    <3> QED BY <3>1, <3>2 DEF TypeOK
  <2>4. CheckInv'
    BY <1>1, <2>1 DEF CheckInv, CheckTypes
  <2>5. GoroutineInv'
    BY <1>1, <1>3, <2>1, Holders DEF GoroutineInv, appVars, CheckTypes, RegistryTypes
  <2> QED BY <2>1, <2>2, <2>3, <2>4, <2>5, BackgroundStep
<1> QED BY <1>2, <1>3 DEF TickApp

-----------------------------------------------------------------------------
(* The theorems                                                            *)

LEMMA StepInv ==
  ASSUME IInv, [Next]_vars
  PROVE  IInv'
<1>1. ASSUME NEW c \in Callers, AddRepositoryStep(c)
      PROVE  IInv'
  BY <1>1, AddRepositoryCheckInv, AddRepositoryLockInv, AddRepositoryRefuseInv,
     AddRepositoryGrowInv, AddRepositoryStoreInv DEF AddRepositoryStep
<1>2. ASSUME NEW c \in Callers, DeleteRepositoryStep(c)
      PROVE  IInv'
  <2>1. DeleteRepositoryNil(c) => IInv'
    BY PanicInv DEF DeleteRepositoryNil, States
  <2> QED BY <1>2, <2>1, DeleteRepositoryLockInv, DeleteRepositoryFindInv,
          DeleteRepositorySpawnInv, DeleteRepositoryRemoveInv DEF DeleteRepositoryStep
<1>3. ASSUME NEW c \in Callers, AddOrUpdateApplicationStep(c)
      PROVE  IInv'
  BY <1>3, AddOrUpdateApplicationInv, AddOrUpdateScanInv, AddOrUpdateCompareInv,
     AddApplicationNewInv, AddApplicationGrowInv, AddApplicationStoreInv, UpdateLockRepoInv, UpdateLockAppInv,
     UpdateAppInv DEF AddOrUpdateApplicationStep
<1>4. ASSUME NEW c \in Callers, DeleteApplicationStep(c)
      PROVE  IInv'
  BY <1>4, DeleteApplicationInv, DeleteApplicationScanInv, DeleteApplicationLockRepoInv,
     DeleteApplicationLockAppInv, DeleteApplicationRemoveInv DEF DeleteApplicationStep
<1>5. ASSUME NEW a \in AppAddrs, GoroutineStep(a)
      PROVE  IInv'
  BY <1>5, UninstallInv, LifeInv DEF GoroutineStep
<1>6. TickStep => IInv'
  BY TickMoves, TickAppInv DEF TickStep
<1>7. ReadApplications => IInv'
  BY PanicInv DEF ReadApplications, States
<1>8. Restart => IInv'
  BY StutterInv DEF Restart, States
<1>9. UNCHANGED vars => IInv'
  BY StutterInv DEF vars, IInv, TypeOK, RegistryTypes
<1>10. ASSUME NEW c \in Callers, Call(c) PROVE IInv'
  BY <1>10, CallInv
<1> QED BY <1>1, <1>2, <1>3, <1>4, <1>5, <1>6, <1>7, <1>8, <1>9, <1>10 DEF Next, CallerStep

LEMMA Invariance == Spec => []IInv
<1>1. Init => IInv
  BY InitInv
<1>2. IInv /\ [Next]_vars => IInv'
  BY StepInv
<1> QED BY <1>1, <1>2, PTL DEF Spec

\* No step of any handler, of the check loop or of a goroutine leaves the types:
\* in particular no slice's length and no WaitGroup counter goes below zero
\* (repository.go:285, handler.go:77).
THEOREM TypeCorrect == Spec => []TypeOK
<1>1. IInv => TypeOK
  BY DEF IInv
<1> QED BY <1>1, Invariance, PTL

\* The registry never holds two repositories with one URL, with any number of
\* clients adding and deleting them (server.go:26, handler.go:175).
THEOREM URLsUnique == Spec => []UniqueURL
<1>1. IInv => UniqueURL
  BY DEF IInv, RegistryInv
<1> QED BY <1>1, Invariance, PTL

\* DeleteRepository removes the slot of the repository it uninstalled, however
\* long it waited in between (handler.go:190-230).
THEOREM RemovalIndexCorrect == Spec => []RemovalIndexValid
<1>1. IInv => RemovalIndexValid
  BY DEF IInv, CallerInv, RemovalIndex, RemovalIndexValid
<1> QED BY <1>1, Invariance, PTL

\* An update, a deletion, a life cycle and an uninstallation never work on one
\* Application at once (handler.go:63 and 214, repository.go:233 and 274).
THEOREM ApplicationMutex == Spec => []AppExclusive
<1>1. IInv => AppExclusive
  <2> SUFFICES ASSUME IInv, NEW a \in AppAddrs PROVE \A x, y \in WorkingOn(a) : x = y
    BY DEF AppExclusive
  <2>1. \A x \in WorkingOn(a) : appLock[a] = x
    BY DEF WorkingOn, IInv, CallerInv, LocksHeld, AppLabels, GoroutineInv
  <2> QED BY <2>1
<1> QED BY <1>1, Invariance, PTL

=============================================================================
