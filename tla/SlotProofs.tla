----------------------------- MODULE SlotProofs -----------------------------
(***************************************************************************)
(* The slots of r.Apps, for every number of clients and objects: the index *)
(* that AddOrUpdateApplication takes from a scan without the mutex is that *)
(* of a good slot when it is used.  On top of the inductive invariant of   *)
(* RepositoryHandlerProofs, which knows the length of the slices only,     *)
(* what is in the slots (ListInv), who owns the objects that are in none   *)
(* (OwnInv), and what a handler knows of the slot it has found (SlotInv).  *)
(***************************************************************************)
EXTENDS RepositoryHandlerProofs

\* The labels of a handler that has made an Application of its request.
MadeLabels == {"updScan", "addAppNew", "addAppLock", "addAppStore",
               "updCompare", "updRepoLock", "updAppLock", "updApp"}

\* An object is in one slot at most and is not garbage; behind the slots there
\* is nothing, unless a deletion has shortened the slice and leaked the mutex.
Unshared ==
  \A r, s \in RepoAddrs : \A i \in 1..nApps[r], j \in 1..nApps[s] :
    apps[r][i] # Nil /\ apps[r][i] = apps[s][j] => r = s /\ i = j
Made ==
  \A r \in RepoAddrs : \A i \in 1..nApps[r] :
    apps[r][i] # Nil => application[apps[r][i]] # Nil
Tail ==
  \A r \in RepoAddrs \ LeakedRepos : \A i \in 1..MaxApps : i > nApps[r] => apps[r][i] = Nil

ListInv == Unshared /\ Made /\ Tail

Unlisted(a) == \A r \in RepoAddrs : \A i \in 1..nApps[r] : apps[r][i] # a

\* A new object belongs to one handler, and it is the one it asked for.
OwnInv(c) ==
  /\ loc[c].app # Nil =>
       Unlisted(loc[c].app) /\ \A d \in Callers : d # c => loc[d].app # loc[c].app
  /\ pc[c] = "AddOrUpdateApplication" => loc[c].app \in AppAddrs
  /\ pc[c] \in MadeLabels =>
       /\ loc[c].app \in AppAddrs
       /\ application[loc[c].app] # Nil /\ application[loc[c].app].name = req[c].name

\* Slot i of r is empty or holds an application of that name.
Good(r, i, name) ==
  i \in 1..nApps[r] /\ (apps[r][i] # Nil => application[apps[r][i]].name = name)

SlotInv(c) ==
  LET r == loc[c].repo
      i == loc[c].idx
  IN
  /\ pc[c] = "addAppStore" => nApps[r] > 0 /\ apps[r][nApps[r]] = Nil
  /\ pc[c] \in {"updCompare", "updRepoLock"} =>
       /\ r \in LeakedRepos \/ Good(r, i, req[c].name)
       /\ \A d \in Callers : pc[d] = "addAppStore" /\ loc[d].repo = r => i # nApps[r]
  /\ pc[c] \in {"updAppLock", "updApp"} => Good(r, i, req[c].name)
  /\ pc[c] = "updApp" => apps[r][i] = loc[c].old

SInv == ListInv /\ \A c \in Callers : OwnInv(c) /\ SlotInv(c)

-----------------------------------------------------------------------------
(* What a step of one handler leaves to the others                         *)

LEMMA Nils == Nil \notin AppAddrs /\ Nil \notin RepoAddrs /\ Nil \notin Applications
BY DisjointAssumption DEF Applications

\* The mutex of a handler in its critical section is not a leaked one.
LEMMA HeldRepo ==
  ASSUME IInv, NEW c \in Callers, pc[c] \in RepoLabels
  PROVE  /\ loc[c].repo \in RepoAddrs /\ repoLock[loc[c].repo] = c
         /\ loc[c].repo \notin LeakedRepos
BY AtKnownRepo DEF KnownRepoLabels, RepoLabels, CallerInv, LocksHeld, LeakedRepos

LEMMA FreeRepo ==
  ASSUME NEW r, repoLock[r] \in {Free, Ticker}
  PROVE  r \notin LeakedRepos
BY Holders DEF LeakedRepos

\* A handler takes mutexes that are free and gives back its own.
TakesFree(c) ==
  /\ \A r \in RepoAddrs :
       \/ repoLock'[r] = repoLock[r] \/ repoLock[r] = Free
       \/ pc[c] \in RepoLabels /\ loc[c].repo = r
  /\ pc'[c] \in RepoLabels =>
       \/ pc[c] \in RepoLabels /\ loc'[c].repo = loc[c].repo
       \/ repoLock[loc'[c].repo] = Free

LEMMA StaysLeaked ==
  ASSUME IInv, NEW c \in Callers, Others(c), TakesFree(c)
  PROVE  LeakedRepos \subseteq LeakedRepos'
<1> SUFFICES ASSUME NEW r \in LeakedRepos PROVE r \in LeakedRepos'
  OBVIOUS
<1>1. PICK d \in Callers : repoLock[r] = d /\ ~ (pc[d] \in RepoLabels /\ loc[d].repo = r)
  BY DEF LeakedRepos
<1>2. r \in RepoAddrs /\ d # Free
  BY Holders DEF LeakedRepos
<1>3. repoLock'[r] = d
  BY <1>1, <1>2, HeldRepo DEF TakesFree
<1>4. ~ (pc'[d] \in RepoLabels /\ loc'[d].repo = r)
  BY <1>1, <1>2 DEF TakesFree, Others
<1> QED BY <1>2, <1>3, <1>4 DEF LeakedRepos

\* A slot keeps its application, gets one of the same name or is emptied.
SlotStays(r, i) ==
  /\ i \in 1..nApps'[r]
  /\ apps'[r][i] # Nil =>
       apps[r][i] # Nil /\ application'[apps'[r][i]].name = application[apps[r][i]].name

LEMMA GoodStays ==
  ASSUME NEW r, NEW i, NEW name, Good(r, i, name), SlotStays(r, i)
  PROVE  Good(r, i, name)'
BY DEF Good, SlotStays

\* A step of c as far as the slots of the others go: it leaves what they have
\* locked, and every slot but the one it appends to stays good.
SlotsKept(c) ==
  /\ LeakedRepos \subseteq LeakedRepos'
  /\ \A r \in RepoAddrs : repoLock[r] \in Callers \ {c} =>
       apps'[r] = apps[r] /\ nApps'[r] = nApps[r]
  /\ \A r \in RepoAddrs : \A i \in 1..nApps[r] :
       \/ SlotStays(r, i) \/ r \in LeakedRepos'
       \/ pc[c] = "addAppStore" /\ loc[c].repo = r /\ i = nApps[r]
  /\ pc'[c] = "addAppStore" =>
       repoLock[loc'[c].repo] = Free /\ nApps'[loc'[c].repo] = nApps[loc'[c].repo] + 1

LEMMA StableSlot ==
  ASSUME IInv, IInv', SInv, NEW c \in Callers, NEW d \in Callers, d # c,
         Others(c), SlotsKept(c)
  PROVE  SlotInv(d)'
<1> SUFFICES ASSUME NEW r, r = loc[d].repo, NEW i, i = loc[d].idx,
                    NEW name, name = req[d].name
             PROVE  SlotInv(d)'
  OBVIOUS
<1>0. /\ pc'[d] = pc[d] /\ req'[d] = req[d] /\ loc'[d] = loc[d]
      /\ SlotInv(d)
  BY DEF Others, SInv
<1>1. ASSUME pc[d] \in RepoLabels
      PROVE  /\ r \in RepoAddrs /\ apps'[r] = apps[r] /\ nApps'[r] = nApps[r]
             /\ r \notin LeakedRepos' /\ ~ (pc[c] = "addAppStore" /\ loc[c].repo = r)
  <2>1. r \in RepoAddrs /\ repoLock[r] = d
    BY <1>1, HeldRepo
  <2>2. r \notin LeakedRepos'
    BY <1>0, <1>1 DEF IInv, CallerInv, LocksHeld, LeakedRepos
  <2>3. ~ (pc[c] = "addAppStore" /\ loc[c].repo = r)
    BY <2>1, HeldRepo DEF RepoLabels
  <2> QED BY <2>1, <2>2, <2>3 DEF SlotsKept
<1>2. pc[d] = "addAppStore" => nApps'[r] > 0 /\ apps'[r][nApps'[r]] = Nil
  BY <1>0, <1>1 DEF SlotInv, RepoLabels
<1>3. ASSUME pc[d] \in {"updCompare", "updRepoLock"}
      PROVE  /\ r \in LeakedRepos' \/ Good(r, i, name)'
             /\ \A e \in Callers : pc'[e] = "addAppStore" /\ loc'[e].repo = r => i # nApps'[r]
  <2>1. r \in RepoAddrs /\ nApps[r] \in Nat
    BY <1>3, AtKnownRepo, BoundAssumption DEF KnownRepoLabels, RegistryTypes
  <2>2. /\ r \in LeakedRepos \/ Good(r, i, name)
        /\ \A e \in Callers : pc[e] = "addAppStore" /\ loc[e].repo = r => i # nApps[r]
    BY <1>0, <1>3 DEF SlotInv
  <2>3. r \in LeakedRepos' \/ Good(r, i, name)'
    <3>1. CASE r \in LeakedRepos
      BY <3>1 DEF SlotsKept
    <3>2. CASE Good(r, i, name)
      <4>1. i \in 1..nApps[r]
        BY <3>2 DEF Good
      <4>2. SlotStays(r, i) \/ r \in LeakedRepos'
        BY <2>1, <2>2, <4>1 DEF SlotsKept
      <4> QED BY <3>2, <4>2, GoodStays
    <3> QED BY <2>2, <3>1, <3>2
  <2>4. ASSUME pc'[c] = "addAppStore", loc'[c].repo = r PROVE i # nApps'[r]
    <3>1. repoLock[r] = Free /\ nApps'[r] = nApps[r] + 1
      BY <2>4 DEF SlotsKept
    <3>2. i \in 1..nApps[r]
      BY <2>2, <3>1, FreeRepo DEF Good
    <3> QED BY <2>1, <3>1, <3>2
  <2>5. ASSUME NEW e \in Callers, e # c, pc'[e] = "addAppStore", loc'[e].repo = r
        PROVE  i # nApps'[r]
    <3>1. pc[e] = "addAppStore" /\ loc[e].repo = r
      BY <2>5 DEF Others
    <3>2. repoLock[r] = e
      BY <3>1, HeldRepo DEF RepoLabels
    <3>3. nApps'[r] = nApps[r]
      BY <2>1, <2>5, <3>2 DEF SlotsKept
    <3> QED BY <2>2, <3>1, <3>3
  <2> QED BY <2>3, <2>4, <2>5
<1>4. ASSUME pc[d] \in {"updAppLock", "updApp"}
      PROVE  /\ Good(r, i, name)'
             /\ pc[d] = "updApp" => apps'[r][i] = loc[d].old
  <2>1. /\ r \in RepoAddrs /\ apps'[r] = apps[r] /\ nApps'[r] = nApps[r]
        /\ r \notin LeakedRepos' /\ ~ (pc[c] = "addAppStore" /\ loc[c].repo = r)
    BY <1>1, <1>4 DEF RepoLabels
  <2>2. Good(r, i, name) /\ (pc[d] = "updApp" => apps[r][i] = loc[d].old)
    BY <1>0, <1>4 DEF SlotInv
  <2>3. SlotStays(r, i)
    BY <2>1, <2>2 DEF SlotsKept, Good
  <2> QED BY <2>1, <2>2, <2>3, GoodStays
<1> QED BY <1>0, <1>2, <1>3, <1>4 DEF SlotInv, Good

\* The same of the objects that are in no slot: c lists only its own.
ObjectsKept(c) ==
  /\ loc'[c].app \in {loc[c].app, Nil} \/ \A d \in Callers : loc[d].app # loc'[c].app
  /\ \A a \in AppAddrs : a # loc[c].app /\ Unlisted(a) =>
       Unlisted(a)' /\ application'[a] = application[a]

LEMMA StableOwn ==
  ASSUME IInv, SInv, NEW c \in Callers, NEW d \in Callers, d # c,
         Others(c), ObjectsKept(c)
  PROVE  OwnInv(d)'
<1>1. /\ pc'[d] = pc[d] /\ req'[d] = req[d] /\ loc'[d] = loc[d]
      /\ OwnInv(d) /\ OwnInv(c)
      /\ loc[d].app \in AppAddrs \cup {Nil}
  BY DEF Others, SInv, IInv, TypeOK, CallTypes, Locals
<1>2. CASE loc[d].app = Nil
  BY <1>1, <1>2, Nils DEF OwnInv
<1>3. CASE loc[d].app \in AppAddrs
  <2>1. Unlisted(loc[d].app) /\ \A e \in Callers : e # d => loc[e].app # loc[d].app
    BY <1>1, <1>3, Nils DEF OwnInv
  <2>2. Unlisted(loc[d].app)' /\ application'[loc[d].app] = application[loc[d].app]
    BY <1>1, <1>3, <2>1 DEF ObjectsKept
  <2>3. loc'[c].app # loc[d].app
    BY <1>3, <2>1, Nils DEF ObjectsKept
  <2> QED BY <1>1, <1>3, <2>1, <2>2, <2>3 DEF OwnInv, Others, Unlisted
<1> QED BY <1>1, <1>2, <1>3

LEMMA HandlerStep ==
  ASSUME IInv, IInv', SInv, NEW c \in Callers,
         Others(c), SlotsKept(c), ObjectsKept(c), ListInv', OwnInv(c)', SlotInv(c)'
  PROVE  SInv'
BY StableSlot, StableOwn DEF SInv

-----------------------------------------------------------------------------
(* Steps that change no slot                                               *)

LEMMA ListedObject ==
  ASSUME IInv, SInv, NEW r \in RepoAddrs, NEW i \in 1..nApps[r], apps[r][i] # Nil
  PROVE  /\ apps[r][i] \in AppAddrs /\ i \in 1..MaxApps
         /\ \A c \in Callers : apps[r][i] # loc[c].app
<1>1. i \in 1..MaxApps
  BY BoundAssumption DEF IInv, TypeOK, RegistryTypes
<1>2. apps[r] \in [1..MaxApps -> AppAddrs \cup {Nil}]
  BY DEF IInv, TypeOK, RegistryTypes
<1>3. apps[r][i] \in AppAddrs
  BY <1>1, <1>2
<1> QED BY <1>1, <1>3 DEF SInv, OwnInv, Unlisted

LEMMA SameLists ==
  ASSUME IInv, SInv, UNCHANGED <<apps, nApps>>, LeakedRepos \subseteq LeakedRepos',
         \A r \in RepoAddrs : \A i \in 1..nApps[r] :
           apps[r][i] # Nil => application'[apps[r][i]] = application[apps[r][i]]
  PROVE  ListInv' /\ \A r \in RepoAddrs : \A i \in 1..nApps[r] : SlotStays(r, i)
<1>1. Unshared' /\ Made'
  BY DEF SInv, ListInv, Unshared, Made
<1>2. Tail'
  BY DEF SInv, ListInv, Tail
<1> QED BY <1>1, <1>2 DEF ListInv, SlotStays

LEMMA QuietSlots ==
  ASSUME IInv, IInv', SInv, NEW c \in Callers, Others(c), TakesFree(c),
         UNCHANGED <<apps, nApps>>, pc'[c] # "addAppStore",
         \A a \in AppAddrs : a # loc[c].app => application'[a] = application[a],
         loc'[c].app \in {loc[c].app, Nil} \/ \A d \in Callers : loc[d].app # loc'[c].app,
         OwnInv(c)', SlotInv(c)'
  PROVE  SInv'
<1>1. LeakedRepos \subseteq LeakedRepos'
  BY StaysLeaked
<1>2. ListInv' /\ \A r \in RepoAddrs : \A i \in 1..nApps[r] : SlotStays(r, i)
  BY <1>1, SameLists, ListedObject
<1>3. SlotsKept(c)
  BY <1>1, <1>2 DEF SlotsKept
<1>4. ObjectsKept(c)
  BY DEF ObjectsKept, Unlisted
<1> QED BY <1>2, <1>3, <1>4, HandlerStep

SlotLabels == {"addAppStore", "updCompare", "updRepoLock", "updAppLock", "updApp"}

LEMMA NoSlot ==
  ASSUME NEW c, pc'[c] \notin SlotLabels
  PROVE  SlotInv(c)'
BY DEF SlotInv, SlotLabels

\* A handler that makes no new object keeps its own or drops it.
LEMMA KeepsOwn ==
  ASSUME SInv, NEW c \in Callers, Others(c), UNCHANGED <<apps, nApps>>,
         loc'[c].app \in {loc[c].app, Nil}, pc'[c] # "AddOrUpdateApplication",
         pc'[c] \in MadeLabels =>
           /\ pc[c] \in MadeLabels /\ loc'[c].app = loc[c].app /\ req'[c] = req[c]
           /\ application'[loc[c].app] = application[loc[c].app]
  PROVE  OwnInv(c)'
<1>1. OwnInv(c)
  BY DEF SInv
<1>2. loc'[c].app # Nil =>
        /\ \A r \in RepoAddrs : \A i \in 1..nApps'[r] : apps'[r][i] # loc'[c].app
        /\ \A d \in Callers : d # c => loc'[d].app # loc'[c].app
  BY <1>1 DEF OwnInv, Unlisted, Others
<1> QED BY <1>1, <1>2 DEF OwnInv, Unlisted

LEMMA ReturnSlots ==
  ASSUME IInv, NEW c \in Callers, Return(c)
  PROVE  /\ Others(c) /\ pc'[c] = "idle" /\ loc'[c].app = Nil
         /\ pc'[c] \notin RepoLabels \cup SlotLabels \cup MadeLabels
<1>1. Others(c) /\ pc'[c] = "idle" /\ loc'[c] = NoLoc
  BY ReturnEffect DEF Return, IInv, TypeOK, CallTypes
<1> QED BY <1>1 DEF NoLoc, Frame, RepoLabels, SlotLabels, MadeLabels

LEMMA PanicSlots ==
  ASSUME NEW cause, Panic(cause)
  PROVE  SInv'
<1>1. /\ \A r \in RepoAddrs : nApps'[r] = 0
      /\ apps' = NoApps
      /\ \A c \in Callers : pc'[c] = "idle" /\ loc'[c] = NoLoc
  BY DEF Panic
<1>2. ListInv'
  BY <1>1 DEF ListInv, Unshared, Made, Tail, NoApps
<1>3. \A c \in Callers : OwnInv(c)' /\ SlotInv(c)'
  BY <1>1 DEF OwnInv, SlotInv, NoLoc, Frame, MadeLabels
<1> QED BY <1>2, <1>3 DEF SInv

LEMMA InitSlots == Init => SInv
<1> SUFFICES ASSUME Init PROVE SInv
  OBVIOUS
<1>1. /\ \A r \in RepoAddrs : nApps[r] = 0
      /\ apps = NoApps
      /\ \A c \in Callers : pc[c] = "idle" /\ loc[c] = NoLoc
  BY DEF Init
<1>2. ListInv
  BY <1>1 DEF ListInv, Unshared, Made, Tail, NoApps
<1>3. \A c \in Callers : OwnInv(c) /\ SlotInv(c)
  BY <1>1 DEF OwnInv, SlotInv, NoLoc, Frame, MadeLabels
<1> QED BY <1>2, <1>3 DEF SInv

\* The check loop and the other goroutines leave the handlers and the slots
\* alone, and they take no mutex from a handler nor give one to it.
BackgroundMoves ==
  /\ UNCHANGED <<callVars, apps, nApps, application>>
  /\ \A r \in RepoAddrs :
       repoLock'[r] = repoLock[r] \/ repoLock[r] \in {Free, Ticker}
  /\ \A a \in AppAddrs :
       appLock'[a] = appLock[a] \/ appLock'[a] \in {Free, LifeCycle, Uninstaller}

LEMMA BackgroundQuiet ==
  ASSUME IInv,
         \/ \E a \in AppAddrs : GoroutineStep(a)
         \/ TickStep \/ ReadApplications \/ Restart \/ UNCHANGED vars
  PROVE  BackgroundMoves \/ \E cause \in States : Panic(cause)
<1> USE DEF BackgroundMoves
<1>0. RegistryTypes
  BY DEF IInv, TypeOK
<1>1. ASSUME NEW a \in AppAddrs, GoroutineStep(a)
      PROVE  BackgroundMoves \/ \E cause \in States : Panic(cause)
  BY <1>0, <1>1 DEF RegistryTypes, GoroutineStep, UninstallLock, UninstallDone, LifeDone,
     LifeUnlock, States, appVars, repoVars
<1>2. CASE TickStart \/ TickApp \/ TickWait
  BY <1>0, <1>2 DEF RegistryTypes, TickStart, TickApp, TickWait, States, appVars, repoVars
<1>3. CASE TickRepo \/ TickRepoDone
  BY <1>0, <1>3 DEF RegistryTypes, TickRepo, TickRepoDone, IInv, CheckInv, appVars
<1>4. CASE ReadApplications
  BY <1>4 DEF ReadApplications, States
<1>5. CASE Restart \/ UNCHANGED vars
  BY <1>5 DEF Restart, vars, repoVars, appVars
<1> QED BY <1>1, <1>2, <1>3, <1>4, <1>5 DEF TickStep

LEMMA BackgroundSlots ==
  ASSUME IInv, SInv,
         \/ \E a \in AppAddrs : GoroutineStep(a)
         \/ TickStep \/ ReadApplications \/ Restart \/ UNCHANGED vars
  PROVE  SInv'
<1>1. CASE BackgroundMoves
  <2>1. LeakedRepos \subseteq LeakedRepos'
    BY <1>1, Holders DEF BackgroundMoves, LeakedRepos, callVars
  <2>2. ListInv'
    BY <1>1, <2>1, SameLists DEF BackgroundMoves
  <2>3. ASSUME NEW c \in Callers PROVE OwnInv(c)' /\ SlotInv(c)'
    BY <1>1, <2>1 DEF BackgroundMoves, SInv, OwnInv, SlotInv, Unlisted, Good, callVars
  <2> QED BY <2>2, <2>3 DEF SInv
<1>2. CASE \E cause \in States : Panic(cause)
  BY <1>2, PanicSlots
<1> QED BY <1>1, <1>2, BackgroundQuiet

-----------------------------------------------------------------------------
(* Requests of repositories, and steps that only move on                   *)

OwnLabels == MadeLabels \cup {"AddOrUpdateApplication"}

\* A step to a label at which a handler needs to know nothing of slots.
LEMMA MoveSlots ==
  ASSUME IInv, IInv', SInv, NEW c \in Callers, Others(c), TakesFree(c),
         UNCHANGED <<apps, nApps, application>>,
         loc'[c].app \in {loc[c].app, Nil},
         pc'[c] \notin OwnLabels \cup SlotLabels
  PROVE  SInv'
<1>1. OwnInv(c)' /\ SlotInv(c)'
  BY KeepsOwn, NoSlot DEF OwnLabels
<1> QED BY <1>1, QuietSlots DEF SlotLabels

LEMMA AnswerSlots ==
  ASSUME IInv, IInv', SInv, NEW c \in Callers, Return(c),
         \A r \in RepoAddrs :
           repoLock'[r] = repoLock[r] \/ (pc[c] \in RepoLabels /\ loc[c].repo = r),
         UNCHANGED <<apps, nApps, application>>
  PROVE  SInv'
<1>1. TakesFree(c)
  BY ReturnSlots DEF TakesFree
<1> QED BY <1>1, ReturnSlots, MoveSlots DEF OwnLabels

LEMMA GotoSlots ==
  ASSUME IInv, IInv', SInv, NEW c \in Callers, NEW label \in Labels, Goto(c, label),
         TakesFree(c), UNCHANGED <<apps, nApps, application>>,
         label \notin OwnLabels \cup SlotLabels
  PROVE  SInv'
BY GotoEffect, MoveSlots DEF IInv, TypeOK

LEMMA AddRepositorySlots ==
  ASSUME IInv, IInv', SInv, NEW c \in Callers, AddRepositoryStep(c)
  PROVE  SInv'
<1> USE DEF RepoLabels, OwnLabels, SlotLabels, MadeLabels, Labels, repoVars, appVars
<1>0. CallTypes /\ RegistryTypes
  BY DEF IInv, TypeOK
<1>1. CASE AddRepositoryCheck(c)
  <2>1. CASE Panic("nil dereference")
    BY <2>1, PanicSlots
  <2>2. CASE Return(c) /\ UNCHANGED <<repoVars, appVars>>
    BY <2>2, AnswerSlots
  <2>3. CASE Goto(c, "addRepoLock") /\ UNCHANGED <<repoVars, appVars>>
    <3>1. TakesFree(c)
      BY <1>0, <2>3, GotoEffect DEF TakesFree
    <3> QED BY <2>3, <3>1, GotoSlots
  <2> QED BY <1>1, <2>1, <2>2, <2>3 DEF AddRepositoryCheck
<1>2. CASE AddRepositoryLock(c)
  <2>1. Goto(c, "addRepoNew") /\ UNCHANGED <<repoVars, appVars>>
    BY <1>2 DEF AddRepositoryLock
  <2>2. TakesFree(c)
    BY <1>0, <2>1, GotoEffect DEF TakesFree
  <2> QED BY <2>1, <2>2, GotoSlots
<1>3. CASE AddRepositoryRefuse(c)
  BY <1>3, AnswerSlots DEF AddRepositoryRefuse
<1>4. CASE AddRepositoryGrow(c)
  <2>1. /\ pc[c] = "addRepoNew" /\ Goto(c, "addRepoStore")
        /\ repoLock' = [repoLock EXCEPT ![loc[c].repo] = c]
        /\ UNCHANGED <<apps, nApps, appVars>>
    BY <1>4 DEF AddRepositoryGrow
  <2>2. repoLock[loc[c].repo] = Free
    BY <2>1 DEF IInv, CallerInv, RepoKnown, NewRepoLabels, RegistryInv
  <2>3. pc'[c] = "addRepoStore" /\ loc'[c] = loc[c]
    BY <1>0, <2>1, GotoEffect
  <2>4. TakesFree(c)
    BY <1>0, <2>1, <2>2, <2>3 DEF TakesFree, RegistryTypes
  <2> QED BY <2>1, <2>4, GotoSlots
<1>5. CASE AddRepositoryStore(c)
  BY <1>0, <1>5, AnswerSlots DEF AddRepositoryStore, RegistryTypes
<1> QED BY <1>1, <1>2, <1>3, <1>4, <1>5 DEF AddRepositoryStep

LEMMA DeleteRepositorySlots ==
  ASSUME IInv, IInv', SInv, NEW c \in Callers, DeleteRepositoryStep(c)
  PROVE  SInv'
<1> USE DEF RepoLabels, OwnLabels, SlotLabels, MadeLabels, Labels, repoVars, appVars
<1>0. CallTypes /\ RegistryTypes
  BY DEF IInv, TypeOK
<1>1. CASE DeleteRepositoryLock(c)
  <2>1. Goto(c, "delRepoFind") /\ UNCHANGED <<repoVars, appVars>>
    BY <1>1 DEF DeleteRepositoryLock
  <2>2. TakesFree(c)
    BY <1>0, <2>1, GotoEffect DEF TakesFree
  <2> QED BY <2>1, <2>2, GotoSlots
<1>2. CASE DeleteRepositoryFind(c)
  <2>1. CASE Return(c)
    BY <1>2, <2>1, AnswerSlots DEF DeleteRepositoryFind
  <2>2. CASE \E i \in Nat : /\ pc' = [pc EXCEPT ![c] = "delRepoLock"]
                            /\ loc' = [loc EXCEPT ![c].idx = i, ![c].repo = repos[i]]
                            /\ UNCHANGED req
    <3>1. Others(c) /\ pc'[c] = "delRepoLock" /\ loc'[c].app = loc[c].app
      BY <1>0, <2>2 DEF CallTypes, Locals, Others
    <3>2. UNCHANGED <<repoVars, appVars>>
      BY <1>2 DEF DeleteRepositoryFind
    <3>3. TakesFree(c)
      BY <3>1, <3>2 DEF TakesFree
    <3> QED BY <3>1, <3>2, <3>3, MoveSlots
  <2> QED BY <1>2, <2>1, <2>2 DEF DeleteRepositoryFind, Last
<1>3. CASE DeleteRepositorySpawn(c)
  <2>1. /\ Goto(c, "delRepoWait") /\ repoLock[loc[c].repo] = Free
        /\ repoLock' = [repoLock EXCEPT ![loc[c].repo] = c]
        /\ UNCHANGED <<apps, nApps, appVars>>
    BY <1>3 DEF DeleteRepositorySpawn
  <2>2. pc'[c] = "delRepoWait" /\ loc'[c] = loc[c]
    BY <1>0, <2>1, GotoEffect
  <2>3. TakesFree(c)
    BY <1>0, <2>1, <2>2 DEF TakesFree, RegistryTypes
  <2> QED BY <2>1, <2>3, GotoSlots
<1>4. CASE DeleteRepositoryNil(c)
  BY <1>4, PanicSlots DEF DeleteRepositoryNil
<1>5. CASE DeleteRepositoryRemove(c)
  BY <1>0, <1>5, AnswerSlots DEF DeleteRepositoryRemove, RegistryTypes
<1> QED BY <1>1, <1>2, <1>3, <1>4, <1>5 DEF DeleteRepositoryStep

-----------------------------------------------------------------------------
(* Requests of applications                                                *)

LEMMA CallSlots ==
  ASSUME IInv, IInv', SInv, NEW c \in Callers, Call(c)
  PROVE  SInv'
<1> USE DEF RepoLabels, OwnLabels, SlotLabels, MadeLabels
<1>0. CallTypes
  BY DEF IInv, TypeOK
<1>1. UNCHANGED <<repoVars, appVars>>
  BY DEF Call, CallAddRepository, CallDeleteRepository, CallAddOrUpdateApplication,
         CallDeleteApplication
<1>2. ASSUME NEW q, NEW l, Begin(c, q, l), q.op \in {"AddRepository", "DeleteRepository",
               "AddOrUpdateApplication", "DeleteApplication"}
      PROVE  Others(c) /\ pc'[c] = q.op /\ loc'[c] = l /\ TakesFree(c)
  BY <1>0, <1>1, <1>2 DEF Begin, CallTypes, Others, TakesFree, repoVars
<1>3. ASSUME NEW q, NEW l, Begin(c, q, l), l.app = Nil,
             q.op \in {"AddRepository", "DeleteRepository", "DeleteApplication"}
      PROVE  SInv'
  <2>1. Others(c) /\ TakesFree(c) /\ pc'[c] \notin OwnLabels \cup SlotLabels
    BY <1>2, <1>3
  <2>2. loc'[c].app = Nil
    BY <1>2, <1>3
  <2>3. UNCHANGED <<apps, nApps, application>>
    BY <1>1 DEF repoVars, appVars
  <2>4. loc'[c].app \in {loc[c].app, Nil}
    BY <2>2
  <2> HIDE DEF OwnLabels, SlotLabels, RepoLabels, MadeLabels
  <2> QED BY <2>1, <2>2, <2>3, <2>4, MoveSlots
<1>4. CASE CallAddRepository(c) \/ CallDeleteRepository(c) \/ CallDeleteApplication(c)
  <2>1. ASSUME CallAddRepository(c) PROVE SInv'
    <3>1. PICK name \in RepoNames, url \in URLs, r \in RepoAddrs :
            Begin(c, Request("AddRepository", name, url, Nil), Frame(r, Nil))
      BY <2>1 DEF CallAddRepository
    <3>2. /\ Request("AddRepository", name, url, Nil).op = "AddRepository"
          /\ Frame(r, Nil).app = Nil
      BY DEF Request, Frame
    <3> QED BY <1>3, <3>1, <3>2
  <2>2. ASSUME CallDeleteRepository(c) PROVE SInv'
    <3>1. PICK name \in RepoNames :
            Begin(c, Request("DeleteRepository", name, Nil, Nil), NoLoc)
      BY <2>2 DEF CallDeleteRepository
    <3>2. /\ Request("DeleteRepository", name, Nil, Nil).op = "DeleteRepository"
          /\ NoLoc.app = Nil
      BY DEF Request, NoLoc, Frame
    <3> QED BY <1>3, <3>1, <3>2
  <2>3. ASSUME CallDeleteApplication(c) PROVE SInv'
    <3>1. PICK name \in AppNames, url \in URLs :
            Begin(c, Request("DeleteApplication", name, url, Nil), NoLoc)
      BY <2>3 DEF CallDeleteApplication
    <3>2. /\ Request("DeleteApplication", name, url, Nil).op = "DeleteApplication"
          /\ NoLoc.app = Nil
      BY DEF Request, NoLoc, Frame
    <3> QED BY <1>3, <3>1, <3>2
  <2> QED BY <1>4, <2>1, <2>2, <2>3
<1>5. CASE CallAddOrUpdateApplication(c)
  <2>1. PICK name \in AppNames, url \in URLs, s \in Settings, a \in AppAddrs :
          /\ application[a] = Nil /\ \A d \in Callers : loc[d].app # a
          /\ Begin(c, Request("AddOrUpdateApplication", name, url, s), Frame(Nil, a))
    BY <1>5 DEF CallAddOrUpdateApplication
  <2>2. Others(c) /\ pc'[c] = "AddOrUpdateApplication" /\ loc'[c].app = a /\ TakesFree(c)
    BY <1>2, <2>1 DEF Request, Frame
  <2>3. Unlisted(a)
    BY <2>1, Nils DEF SInv, ListInv, Made, Unlisted
  <2>4. OwnInv(c)' /\ SlotInv(c)'
    BY <1>1, <2>1, <2>2, <2>3, NoSlot DEF OwnInv, Unlisted, Others, repoVars
  <2> QED BY <1>1, <2>1, <2>2, <2>4, QuietSlots DEF repoVars, appVars
<1> QED BY <1>4, <1>5 DEF Call

\* The request becomes a new Application.
LEMMA MakeSlots ==
  ASSUME IInv, IInv', SInv, NEW c \in Callers, AddOrUpdateApplication(c)
  PROVE  SInv'
<1> USE DEF RepoLabels, OwnLabels, SlotLabels, MadeLabels
<1>0. /\ CallTypes /\ RegistryTypes
      /\ pc[c] = "AddOrUpdateApplication" /\ OwnInv(c) /\ AppKnown(c)
  BY DEF IInv, TypeOK, CallerInv, SInv, AddOrUpdateApplication
<1>1. CASE Panic("nil dereference")
  BY <1>1, PanicSlots
<1>2. CASE Return(c) /\ UNCHANGED <<repoVars, appVars>>
  BY <1>2, AnswerSlots DEF repoVars, appVars
<1>3. CASE /\ \E r \in GetRepositoryConfig(req[c].url) \ {Nil} :
                /\ loc' = [loc EXCEPT ![c].repo = r]
                /\ application' = [application EXCEPT ![loc[c].app] =
                     [repo |-> r, name |-> req[c].name, settings |-> req[c].settings]]
           /\ pc' = [pc EXCEPT ![c] = "updScan"]
           /\ UNCHANGED <<repoVars, req>>
  <2>1. PICK r \in GetRepositoryConfig(req[c].url) \ {Nil} :
          /\ loc' = [loc EXCEPT ![c].repo = r]
          /\ application' = [application EXCEPT ![loc[c].app] =
               [repo |-> r, name |-> req[c].name, settings |-> req[c].settings]]
    BY <1>3
  <2>2. [repo |-> r, name |-> req[c].name, settings |-> req[c].settings] \in Applications
    BY <1>0, Lookup DEF AppKnown, Applications
  <2>3. /\ Others(c) /\ pc'[c] = "updScan" /\ req'[c] = req[c] /\ loc'[c].app = loc[c].app
        /\ loc[c].app \in AppAddrs
    BY <1>0, <1>3, <2>1 DEF CallTypes, Locals, Others, OwnInv
  <2>4. application'[loc[c].app] # Nil /\ application'[loc[c].app].name = req[c].name
    BY <1>0, <2>1, <2>2, <2>3, Nils DEF RegistryTypes
  <2>5. \A a \in AppAddrs : a # loc[c].app => application'[a] = application[a]
    BY <1>0, <2>1 DEF RegistryTypes
  <2>6. OwnInv(c)' /\ SlotInv(c)'
    <3>1. \A r1 \in RepoAddrs : \A i \in 1..nApps'[r1] : apps'[r1][i] # loc'[c].app
      BY <1>0, <1>3, <2>3, Nils DEF OwnInv, Unlisted, repoVars
    <3>2. \A d \in Callers : d # c => loc'[d].app # loc'[c].app
      BY <1>0, <2>3, Nils DEF OwnInv, Others
    <3> QED BY <2>3, <2>4, <3>1, <3>2, NoSlot DEF OwnInv, Unlisted
  <2>7. TakesFree(c)
    BY <1>3, <2>3 DEF TakesFree, repoVars
  <2> QED BY <1>3, <2>3, <2>5, <2>6, <2>7, QuietSlots DEF repoVars
<1> QED BY <1>1, <1>2, <1>3 DEF AddOrUpdateApplication

\* A handler that drops its object and answers, with no slot changed.
LEMMA DropSlots ==
  ASSUME IInv, IInv', SInv, NEW c \in Callers, Return(c), Drop({loc[c].app}),
         UNCHANGED <<repoLock, apps, nApps>>
  PROVE  SInv'
<1>1. /\ Others(c) /\ TakesFree(c) /\ loc'[c].app = Nil
      /\ pc'[c] \notin RepoLabels \cup SlotLabels \cup MadeLabels
      /\ pc'[c] = "idle"
  BY ReturnSlots DEF TakesFree
<1>2. OwnInv(c)' /\ SlotInv(c)'
  BY <1>1, KeepsOwn, NoSlot
<1>3. \A a \in AppAddrs : a # loc[c].app => application'[a] = application[a]
  BY DEF Drop
<1> QED BY <1>1, <1>2, <1>3, QuietSlots

\* A handler that has made its object moves on.
LEMMA MadeMoves ==
  ASSUME IInv, IInv', SInv, NEW c \in Callers, Others(c), TakesFree(c),
         UNCHANGED <<apps, nApps, application>>, pc[c] \in MadeLabels,
         pc'[c] \in MadeLabels \ {"addAppStore"},
         loc'[c].app = loc[c].app, req'[c] = req[c], SlotInv(c)'
  PROVE  SInv'
<1>1. OwnInv(c)'
  BY KeepsOwn DEF MadeLabels
<1> QED BY <1>1, QuietSlots

LEMMA ScanSlots ==
  ASSUME IInv, IInv', SInv, NEW c \in Callers, AddOrUpdateScan(c)
  PROVE  SInv'
<1> USE DEF RepoLabels, SlotLabels, MadeLabels
<1> SUFFICES ASSUME NEW r, r = loc[c].repo, NEW name, name = req[c].name
             PROVE  SInv'
  OBVIOUS
<1>0. CallTypes /\ pc[c] = "updScan" /\ r \in RepoAddrs
  BY AtKnownRepo DEF KnownRepoLabels, AddOrUpdateScan
<1>1. CASE Goto(c, "addAppNew") /\ UNCHANGED <<repoVars, appVars>>
  <2>1. Others(c) /\ pc'[c] = "addAppNew" /\ loc'[c] = loc[c] /\ req'[c] = req[c]
    BY <1>0, <1>1, GotoEffect DEF Labels
  <2>2. TakesFree(c)
    BY <1>1, <2>1 DEF TakesFree, repoVars
  <2> QED BY <1>0, <1>1, <2>1, <2>2, NoSlot, MadeMoves DEF repoVars, appVars
<1>2. CASE Panic("nil dereference")
  BY <1>2, PanicSlots
<1>3. CASE \E i \in AppSlots(r, name) :
             /\ pc' = [pc EXCEPT ![c] = "updCompare"]
             /\ loc' = [loc EXCEPT ![c].idx = i]
             /\ UNCHANGED <<repoVars, appVars, req>>
  <2>1. PICK i \in AppSlots(r, name) :
             /\ pc' = [pc EXCEPT ![c] = "updCompare"]
             /\ loc' = [loc EXCEPT ![c].idx = i]
             /\ UNCHANGED <<repoVars, appVars, req>>
    BY <1>3
  <2>2. /\ Others(c) /\ pc'[c] = "updCompare" /\ req'[c] = req[c]
        /\ loc'[c].idx = i /\ loc'[c].repo = r /\ loc'[c].app = loc[c].app
    BY <1>0, <2>1 DEF CallTypes, Locals, Others
  <2>3. Good(r, i, name) /\ apps[r][i] # Nil
    BY DEF AppSlots, Good
  <2>4. \A d \in Callers : pc'[d] = "addAppStore" /\ loc'[d].repo = r => i # nApps[r]
    BY <2>2, <2>3 DEF Others, SInv, SlotInv
  <2>5. SlotInv(c)'
    BY <2>1, <2>2, <2>3, <2>4 DEF SlotInv, Good, repoVars, appVars
  <2>6. TakesFree(c)
    BY <2>1, <2>2 DEF TakesFree, repoVars
  <2> QED BY <1>0, <2>1, <2>2, <2>5, <2>6, MadeMoves DEF repoVars, appVars
<1>4. First(AppSlots(r, name) \cup EmptySlots(r)) \subseteq AppSlots(r, name) \cup EmptySlots(r)
  BY DEF First
<1> QED BY <1>1, <1>2, <1>3, <1>4 DEF AddOrUpdateScan, appVars

LEMMA CompareSlots ==
  ASSUME IInv, IInv', SInv, NEW c \in Callers, AddOrUpdateCompare(c)
  PROVE  SInv'
<1> USE DEF RepoLabels, SlotLabels, MadeLabels
<1> SUFFICES ASSUME NEW r, r = loc[c].repo
             PROVE  SInv'
  OBVIOUS
<1>0. CallTypes /\ pc[c] = "updCompare" /\ r \in RepoAddrs
  BY AtKnownRepo DEF KnownRepoLabels, AddOrUpdateCompare
<1>1. CASE Panic("index out of range")
  BY <1>1, PanicSlots
<1>2. CASE Drop({loc[c].app}) /\ Return(c) /\ UNCHANGED repoVars
  BY <1>2, DropSlots DEF repoVars
<1>3. CASE Goto(c, "updRepoLock") /\ UNCHANGED <<repoVars, appVars>>
  <2>1. Others(c) /\ pc'[c] = "updRepoLock" /\ loc'[c] = loc[c] /\ req'[c] = req[c]
    BY <1>0, <1>3, GotoEffect DEF Labels
  <2>2. TakesFree(c)
    BY <1>3, <2>1 DEF TakesFree, repoVars
  <2>3. LeakedRepos \subseteq LeakedRepos'
    BY <2>1, <2>2, StaysLeaked
  <2>4. /\ r \in LeakedRepos \/ Good(r, loc[c].idx, req[c].name)
        /\ \A d \in Callers : pc[d] = "addAppStore" /\ loc[d].repo = r => loc[c].idx # nApps[r]
    BY <1>0 DEF SInv, SlotInv
  <2>5. SlotInv(c)'
    BY <1>3, <2>1, <2>3, <2>4 DEF SlotInv, Good, Others, repoVars, appVars
  <2> QED BY <1>0, <1>3, <2>1, <2>2, <2>5, MadeMoves DEF repoVars, appVars
<1> QED BY <1>1, <1>2, <1>3 DEF AddOrUpdateCompare, appVars

LEMMA NewApplicationSlots ==
  ASSUME IInv, IInv', SInv, NEW c \in Callers, AddApplicationNew(c)
  PROVE  SInv'
<1> USE DEF RepoLabels, SlotLabels, MadeLabels
<1>0. CallTypes /\ pc[c] = "addAppNew" /\ UNCHANGED repoVars
  BY DEF IInv, TypeOK, AddApplicationNew
<1>1. CASE Goto(c, "addAppLock") /\ UNCHANGED application
  <2>1. Others(c) /\ pc'[c] = "addAppLock" /\ loc'[c] = loc[c] /\ req'[c] = req[c]
    BY <1>0, <1>1, GotoEffect DEF Labels
  <2>2. TakesFree(c)
    BY <1>0, <2>1 DEF TakesFree, repoVars
  <2> QED BY <1>0, <1>1, <2>1, <2>2, NoSlot, MadeMoves DEF repoVars
<1>2. CASE Return(c) /\ Drop({loc[c].app})
  BY <1>0, <1>2, DropSlots DEF repoVars
<1> QED BY <1>1, <1>2 DEF AddApplicationNew

-----------------------------------------------------------------------------
(* Steps under the repository's mutex                                      *)

LEMMA AnswerOwn ==
  ASSUME IInv, NEW c \in Callers, Return(c)
  PROVE  OwnInv(c)' /\ SlotInv(c)'
<1>1. pc'[c] = "idle" /\ loc'[c].app = Nil
  BY ReturnSlots
<1> QED BY <1>1 DEF OwnInv, SlotInv, MadeLabels

\* What is known of the slots under the repository's mutex.
LEMMA Slots ==
  ASSUME IInv, NEW r \in RepoAddrs
  PROVE  /\ nApps[r] \in 0..MaxApps /\ nApps[r] \in Nat /\ MaxApps \in Nat
         /\ apps[r] \in [1..MaxApps -> AppAddrs \cup {Nil}]
         /\ DOMAIN apps = RepoAddrs /\ DOMAIN nApps = RepoAddrs
         /\ DOMAIN repoLock = RepoAddrs
BY BoundAssumption DEF IInv, TypeOK, RegistryTypes

\* What one slot holds is replaced.
SetsSlot(r, i, v) == apps' = [apps EXCEPT ![r][i] = v]

LEMMA SlotSet ==
  ASSUME IInv, NEW r \in RepoAddrs, NEW i \in 1..nApps[r], NEW v, SetsSlot(r, i, v)
  PROVE  /\ apps'[r][i] = v
         /\ \A s \in RepoAddrs : \A j \in 1..nApps[s] :
              s # r \/ j # i => apps'[s][j] = apps[s][j]
<1>1. /\ DOMAIN apps = RepoAddrs /\ DOMAIN apps[r] = 1..MaxApps /\ i \in 1..MaxApps
  BY Slots
<1>2. apps'[r] = [apps[r] EXCEPT ![i] = v]
  BY <1>1 DEF SetsSlot
<1>3. apps'[r][i] = v
  BY <1>1, <1>2
<1>4. ASSUME NEW s \in RepoAddrs, NEW j \in 1..nApps[s], s # r \/ j # i
      PROVE  apps'[s][j] = apps[s][j]
  <2>1. CASE s # r
    <3>1. apps'[s] = apps[s]
      BY <1>1, <2>1 DEF SetsSlot
    <3> QED BY <3>1
  <2>2. CASE s = r /\ j # i
    <3>1. j \in 1..MaxApps
      BY Slots
    <3> QED BY <1>1, <1>2, <2>2, <3>1
  <2> QED BY <1>4, <2>1, <2>2
<1> QED BY <1>3, <1>4

\* Slot i of r is removed by moving the last one there: where what slot j of s
\* holds afterwards has been before.
Origin(r, i, s, j) == IF s = r /\ j = i THEN nApps[r] ELSE j
RemovesSlot(r, i) ==
  /\ SetsSlot(r, i, apps[r][nApps[r]])
  /\ nApps' = [nApps EXCEPT ![r] = nApps[r] - 1]

LEMMA SlotOrigin ==
  ASSUME IInv, NEW r \in RepoAddrs, NEW i \in 1..nApps[r], RemovesSlot(r, i)
  PROVE  \A s \in RepoAddrs : \A j \in 1..nApps'[s] :
           /\ Origin(r, i, s, j) \in 1..nApps[s]
           /\ apps'[s][j] = apps[s][Origin(r, i, s, j)]
           /\ \A k \in 1..nApps'[s] : Origin(r, i, s, j) = Origin(r, i, s, k) => j = k
<1>1. /\ nApps[r] \in Nat /\ nApps'[r] = nApps[r] - 1
      /\ \A s \in RepoAddrs : s # r => nApps'[s] = nApps[s]
  BY Slots DEF RemovesSlot
<1>2. \A j \in 1..nApps'[r] : j \in 1..nApps[r] /\ j # nApps[r]
  BY <1>1
<1>3. /\ apps'[r][i] = apps[r][nApps[r]]
      /\ \A s \in RepoAddrs : \A j \in 1..nApps[s] : s # r \/ j # i => apps'[s][j] = apps[s][j]
  <2>1. PICK v : v = apps[r][nApps[r]]
    OBVIOUS
  <2>2. SetsSlot(r, i, v)
    BY <2>1 DEF RemovesSlot
  <2>3. /\ apps'[r][i] = v
        /\ \A s \in RepoAddrs : \A j \in 1..nApps[s] : s # r \/ j # i => apps'[s][j] = apps[s][j]
    BY <2>2, SlotSet
  <2> QED BY <2>1, <2>3
<1>4. ASSUME NEW s \in RepoAddrs, NEW j \in 1..nApps'[s]
      PROVE  /\ Origin(r, i, s, j) \in 1..nApps[s]
             /\ apps'[s][j] = apps[s][Origin(r, i, s, j)]
             /\ \A k \in 1..nApps'[s] : Origin(r, i, s, j) = Origin(r, i, s, k) => j = k
  <2>1. CASE s # r
    BY <1>1, <1>3, <2>1 DEF Origin
  <2>2. CASE s = r /\ j = i
    <3>1. Origin(r, i, s, j) = nApps[r] /\ nApps[r] \in 1..nApps[r]
      BY <1>1, <2>2 DEF Origin
    <3> QED BY <1>2, <1>3, <2>2, <3>1 DEF Origin
  <2>3. CASE s = r /\ j # i
    <3>1. Origin(r, i, s, j) = j
      BY <2>3 DEF Origin
    <3> QED BY <1>2, <1>3, <2>3, <3>1 DEF Origin
  <2> QED BY <2>1, <2>2, <2>3
<1> QED BY <1>4

LEMMA GrowSlots ==
  ASSUME IInv, IInv', SInv, NEW c \in Callers, AddApplicationGrow(c)
  PROVE  SInv'
<1> SUFFICES ASSUME NEW r, r = loc[c].repo, NEW n, n = nApps[r]
             PROVE  SInv'
  OBVIOUS
<1>0. /\ CallTypes /\ pc[c] = "addAppLock" /\ r \in RepoAddrs
      /\ repoLock[r] = Free /\ n < MaxApps
      /\ repoLock' = [repoLock EXCEPT ![r] = c]
      /\ nApps' = [nApps EXCEPT ![r] = n + 1]
      /\ Goto(c, "addAppStore") /\ UNCHANGED <<apps, appVars>>
  BY AtKnownRepo DEF KnownRepoLabels, AddApplicationGrow
<1>1. Others(c) /\ pc'[c] = "addAppStore" /\ loc'[c] = loc[c] /\ req'[c] = req[c]
  BY <1>0, GotoEffect DEF Labels
<1>2. TakesFree(c)
  BY <1>0, <1>1, Slots DEF TakesFree
<1>3. LeakedRepos \subseteq LeakedRepos'
  BY <1>1, <1>2, StaysLeaked
<1>4. /\ n \in Nat /\ nApps'[r] = n + 1 /\ apps[r][n + 1] = Nil
      /\ \A s \in RepoAddrs : s # r => nApps'[s] = nApps[s]
      /\ application' = application
  <2>1. r \in RepoAddrs \ LeakedRepos
    BY <1>0, FreeRepo
  <2>2. n \in Nat /\ n + 1 \in 1..MaxApps /\ n + 1 > n
    BY <1>0, Slots
  <2> QED BY <1>0, <2>1, <2>2, Slots DEF SInv, ListInv, Tail, appVars
<1>5. \A s \in RepoAddrs : \A i \in 1..nApps'[s] :
        apps[s][i] # Nil => i \in 1..nApps[s]
  BY <1>0, <1>4, Slots
<1>6. ListInv'
  <2>1. Unshared'
    BY <1>0, <1>5 DEF SInv, ListInv, Unshared
  <2>2. Made'
    BY <1>0, <1>4, <1>5 DEF SInv, ListInv, Made
  <2>3. Tail'
    <3>1. \A s \in RepoAddrs : \A i \in 1..MaxApps : i > nApps'[s] => i > nApps[s]
      BY <1>0, <1>4, Slots
    <3> QED BY <1>0, <1>3, <3>1 DEF SInv, ListInv, Tail
  <2> QED BY <2>1, <2>2, <2>3 DEF ListInv
<1>7. SlotsKept(c)
  <2>1. \A s \in RepoAddrs : repoLock[s] \in Callers \ {c} =>
          apps'[s] = apps[s] /\ nApps'[s] = nApps[s]
    BY <1>0, <1>4, Holders
  <2>2. \A s \in RepoAddrs : \A i \in 1..nApps[s] : SlotStays(s, i)
    BY <1>0, <1>4, Slots DEF SlotStays
  <2> QED BY <1>0, <1>1, <1>3, <1>4, <2>1, <2>2 DEF SlotsKept
<1>8. \A a \in AppAddrs : Unlisted(a) => Unlisted(a)'
  BY <1>0, <1>5, Nils DEF Unlisted
<1>9. ObjectsKept(c)
  BY <1>1, <1>4, <1>8 DEF ObjectsKept
<1>10. OwnInv(c)'
  <2>1. OwnInv(c) /\ loc[c].app \in AppAddrs \cup {Nil}
    BY <1>0 DEF SInv, CallTypes, Locals
  <2> QED BY <1>0, <1>1, <1>4, <1>8, <2>1 DEF OwnInv, Others, Unlisted, MadeLabels
<1>11. SlotInv(c)'
  BY <1>0, <1>1, <1>4 DEF SlotInv
<1> QED BY <1>1, <1>6, <1>7, <1>9, <1>10, <1>11, HandlerStep

LEMMA StoreSlots ==
  ASSUME IInv, IInv', SInv, NEW c \in Callers, AddApplicationStore(c)
  PROVE  SInv'
<1> SUFFICES ASSUME NEW r, r = loc[c].repo, NEW n, n = nApps[r], NEW new, new = loc[c].app
             PROVE  SInv'
  OBVIOUS
<1>0. /\ pc[c] = "addAppStore" /\ r \in RepoAddrs /\ repoLock[r] = c
      /\ apps' = [apps EXCEPT ![r][n] = new] /\ nApps' = nApps
      /\ repoLock' = [repoLock EXCEPT ![r] = Free]
      /\ Return(c) /\ UNCHANGED appVars
  BY HeldRepo DEF RepoLabels, AddApplicationStore
<1>1. /\ Others(c) /\ pc'[c] = "idle" /\ loc'[c].app = Nil
      /\ pc'[c] \notin RepoLabels
  BY <1>0, ReturnSlots
<1>2. LeakedRepos \subseteq LeakedRepos'
  <2>1. TakesFree(c)
    BY <1>0, <1>1, Slots DEF TakesFree, RepoLabels
  <2> QED BY <1>1, <2>1, StaysLeaked
<1>3. /\ new \in AppAddrs /\ Unlisted(new) /\ application[new] # Nil
      /\ n > 0 /\ apps[r][n] = Nil
  BY <1>0, Nils DEF SInv, OwnInv, SlotInv, MadeLabels
<1>4. /\ n \in 1..MaxApps /\ apps'[r][n] = new /\ application' = application
      /\ \A s \in RepoAddrs : \A i : s # r \/ i # n => apps'[s][i] = apps[s][i]
  BY <1>0, <1>3, Slots DEF appVars
<1>5. ListInv'
  <2>1. Unshared'
    <3> SUFFICES ASSUME NEW s \in RepoAddrs, NEW t \in RepoAddrs,
                        NEW j \in 1..nApps[s], NEW k \in 1..nApps[t],
                        apps'[s][j] # Nil, apps'[s][j] = apps'[t][k]
                 PROVE  s = t /\ j = k
      BY <1>0 DEF Unshared
    <3>1. /\ (s = r /\ j = n) \/ apps'[s][j] = apps[s][j]
          /\ (t = r /\ k = n) \/ apps'[t][k] = apps[t][k]
      BY <1>4
    <3>2. apps[s][j] # new /\ apps[t][k] # new
      BY <1>3 DEF Unlisted
    <3>3. CASE apps'[s][j] = new
      BY <3>1, <3>2, <3>3
    <3>4. CASE apps'[s][j] # new
      <4>1. apps'[s][j] = apps[s][j] /\ apps'[t][k] = apps[t][k]
        BY <1>4, <3>1, <3>4
      <4>2. apps[s][j] # Nil /\ apps[s][j] = apps[t][k]
        BY <4>1
      <4> QED BY <4>2 DEF SInv, ListInv, Unshared
    <3> QED BY <3>3, <3>4
  <2>2. Made'
    BY <1>0, <1>3, <1>4 DEF SInv, ListInv, Made
  <2>3. Tail'
    BY <1>0, <1>2, <1>4, Slots DEF SInv, ListInv, Tail
  <2> QED BY <2>1, <2>2, <2>3 DEF ListInv
<1>6. SlotsKept(c)
  <2>1. \A s \in RepoAddrs : s # r => apps'[s] = apps[s]
    BY <1>0, Slots
  <2>2. \A s \in RepoAddrs : \A i \in 1..nApps[s] : SlotStays(s, i) \/ (s = r /\ i = n)
    BY <1>0, <1>4 DEF SlotStays
  <2> QED BY <1>0, <1>1, <1>2, <2>1, <2>2 DEF SlotsKept
<1>7. ObjectsKept(c)
  BY <1>0, <1>1, <1>4 DEF ObjectsKept, Unlisted
<1> QED BY <1>0, <1>1, <1>5, <1>6, <1>7, AnswerOwn, HandlerStep

LEMMA UpdateLockRepoSlots ==
  ASSUME IInv, IInv', SInv, NEW c \in Callers, UpdateLockRepo(c)
  PROVE  SInv'
<1> USE DEF RepoLabels, MadeLabels
<1> SUFFICES ASSUME NEW r, r = loc[c].repo
             PROVE  SInv'
  OBVIOUS
<1>0. /\ CallTypes /\ pc[c] = "updRepoLock" /\ r \in RepoAddrs /\ repoLock[r] = Free
      /\ repoLock' = [repoLock EXCEPT ![r] = c]
      /\ Goto(c, "updAppLock") /\ UNCHANGED <<apps, nApps, appVars>>
  BY AtKnownRepo DEF KnownRepoLabels, UpdateLockRepo
<1>1. Others(c) /\ pc'[c] = "updAppLock" /\ loc'[c] = loc[c] /\ req'[c] = req[c]
  BY <1>0, GotoEffect DEF Labels
<1>2. TakesFree(c)
  BY <1>0, <1>1, Slots DEF TakesFree
<1>3. SlotInv(c)'
  <2>1. Good(r, loc[c].idx, req[c].name)
    BY <1>0, FreeRepo DEF SInv, SlotInv
  <2> QED BY <1>0, <1>1, <2>1 DEF SlotInv, Good, appVars
<1> QED BY <1>0, <1>1, <1>2, <1>3, MadeMoves DEF appVars

LEMMA UpdateLockAppSlots ==
  ASSUME IInv, IInv', SInv, NEW c \in Callers, UpdateLockApp(c)
  PROVE  SInv'
<1> USE DEF RepoLabels, MadeLabels
<1> SUFFICES ASSUME NEW old, old = apps[loc[c].repo][loc[c].idx]
             PROVE  SInv'
  OBVIOUS
<1>0. CallTypes /\ pc[c] = "updAppLock"
  BY DEF IInv, TypeOK, UpdateLockApp
<1>1. CASE Panic("nil dereference")
  BY <1>1, PanicSlots
<1>2. CASE /\ pc' = [pc EXCEPT ![c] = "updApp"]
           /\ loc' = [loc EXCEPT ![c].old = old]
           /\ UNCHANGED <<repoVars, application, req>>
  <2>1. /\ Others(c) /\ pc'[c] = "updApp" /\ req'[c] = req[c]
        /\ loc'[c].idx = loc[c].idx /\ loc'[c].repo = loc[c].repo
        /\ loc'[c].app = loc[c].app /\ loc'[c].old = old
    BY <1>0, <1>2 DEF CallTypes, Locals, Others
  <2>2. TakesFree(c)
    BY <1>0, <1>2, <2>1 DEF TakesFree, repoVars
  <2>3. SlotInv(c)'
    <3>1. Good(loc[c].repo, loc[c].idx, req[c].name)
      BY <1>0 DEF SInv, SlotInv
    <3> QED BY <1>2, <2>1, <3>1 DEF SlotInv, Good, repoVars
  <2> QED BY <1>0, <1>2, <2>1, <2>2, <2>3, MadeMoves DEF repoVars
<1> QED BY <1>1, <1>2 DEF UpdateLockApp

\* Whether it keeps the old application, stores the new one or empties the
\* slot, UpdateApp drops the objects that are in no slot afterwards.
LEMMA UpdateAppSlots ==
  ASSUME IInv, IInv', SInv, NEW c \in Callers, UpdateApp(c)
  PROVE  SInv'
<1> SUFFICES ASSUME NEW r, r = loc[c].repo, NEW i, i = loc[c].idx,
                    NEW old, old = loc[c].old, NEW new, new = loc[c].app
             PROVE  SInv'
  OBVIOUS
<1>0. /\ pc[c] = "updApp" /\ r \in RepoAddrs /\ repoLock[r] = c
      /\ nApps' = nApps /\ repoLock' = [repoLock EXCEPT ![r] = Free] /\ Return(c)
  BY HeldRepo DEF RepoLabels, UpdateApp
<1>1. /\ Others(c) /\ pc'[c] = "idle" /\ loc'[c].app = Nil
      /\ pc'[c] \notin RepoLabels
  BY <1>0, ReturnSlots
<1>2. LeakedRepos \subseteq LeakedRepos'
  <2>1. TakesFree(c)
    BY <1>0, <1>1, Slots DEF TakesFree, RepoLabels
  <2> QED BY <1>1, <2>1, StaysLeaked
<1>3. /\ new \in AppAddrs /\ Unlisted(new) /\ application[new] # Nil
      /\ old \in AppAddrs /\ apps[r][i] = old /\ old # Nil /\ i \in 1..nApps[r]
      /\ application[new].name = application[old].name
  <2>1. old \in AppAddrs
    BY <1>0 DEF IInv, CallerInv, AppKnown, OldAppLabels
  <2>2. Good(r, i, req[c].name) /\ apps[r][i] = old
    BY <1>0 DEF SInv, SlotInv
  <2>3. /\ new \in AppAddrs /\ Unlisted(new) /\ application[new] # Nil
        /\ application[new].name = req[c].name
    BY <1>0, Nils DEF SInv, OwnInv, MadeLabels
  <2> QED BY <2>1, <2>2, <2>3, Nils DEF Good
<1>4. PICK v \in {old, new, Nil} :
        /\ apps' = [apps EXCEPT ![r][i] = v]
        /\ \A a \in AppAddrs : a = v \/ a \notin {old, new} => application'[a] = application[a]
  <2> DEFINE replaced == {a \in AppAddrs : a = old /\ \A d \in Callers \ {c} : loc[d].old # a}
  <2>1. CASE Drop({new}) /\ UNCHANGED apps
    <3>1. old # new
      BY <1>0, <1>3 DEF Unlisted
    <3>2. apps' = [apps EXCEPT ![r][i] = old]
      <4>1. /\ apps \in [RepoAddrs -> [1..MaxApps -> AppAddrs \cup {Nil}]]
            /\ apps[r] \in [1..MaxApps -> AppAddrs \cup {Nil}]
        BY <1>0 DEF IInv, TypeOK, RegistryTypes
      <4>2. apps[r] = [apps[r] EXCEPT ![i] = old]
        BY <1>3, <4>1
      <4>3. apps = [apps EXCEPT ![r] = [apps[r] EXCEPT ![i] = old]]
        BY <1>0, <4>1, <4>2
      <4> QED BY <2>1, <4>3
    <3>3. \A a \in AppAddrs : a # new => application'[a] = application[a]
      BY <2>1 DEF Drop
    <3> QED BY <3>1, <3>2, <3>3
  <2>2. CASE apps' = [apps EXCEPT ![r][i] = new] /\ Drop(replaced)
    <3>1. old # new
      BY <1>0, <1>3 DEF Unlisted
    <3>2. \A a \in AppAddrs : a # old => application'[a] = application[a]
      BY <2>2 DEF Drop
    <3> QED BY <2>2, <3>1, <3>2
  <2>3. CASE apps' = [apps EXCEPT ![r][i] = Nil] /\ Drop(replaced \cup {new})
    <3>1. \A a \in AppAddrs : a \notin {old, new} => application'[a] = application[a]
      BY <2>3 DEF Drop
    <3> QED BY <2>3, <3>1, Nils
  <2> QED BY <2>1, <2>2, <2>3 DEF UpdateApp
<1>5. /\ i \in 1..MaxApps /\ apps'[r][i] = v
      /\ \A s \in RepoAddrs : \A j : s # r \/ j # i => apps'[s][j] = apps[s][j]
  BY <1>0, <1>3, <1>4, Slots
<1>6. \A s \in RepoAddrs : \A j \in 1..nApps[s] :
        apps'[s][j] # Nil =>
          /\ apps'[s][j] \in AppAddrs
          /\ application'[apps'[s][j]] = application[apps'[s][j]]
          /\ s # r \/ j # i => apps'[s][j] = apps[s][j] /\ apps[s][j] \notin {old, new}
  <2> SUFFICES ASSUME NEW s \in RepoAddrs, NEW j \in 1..nApps[s], apps'[s][j] # Nil
               PROVE  /\ apps'[s][j] \in AppAddrs
                      /\ application'[apps'[s][j]] = application[apps'[s][j]]
                      /\ s # r \/ j # i => apps'[s][j] = apps[s][j] /\ apps[s][j] \notin {old, new}
    OBVIOUS
  <2>1. CASE s = r /\ j = i
    BY <1>3, <1>4, <1>5, <2>1
  <2>2. CASE s # r \/ j # i
    <3>1. apps'[s][j] = apps[s][j]
      BY <1>5, <2>2
    <3>2. apps[s][j] \in AppAddrs
      BY <3>1, ListedObject
    <3>3. apps[s][j] # new
      BY <1>3 DEF Unlisted
    <3>4. apps[s][j] # old
      BY <1>0, <1>3, <2>2 DEF SInv, ListInv, Unshared
    <3> QED BY <1>4, <3>1, <3>2, <3>3, <3>4
  <2> QED BY <2>1, <2>2
<1>7. ListInv'
  <2>1. Unshared'
    <3> SUFFICES ASSUME NEW s \in RepoAddrs, NEW t \in RepoAddrs,
                        NEW j \in 1..nApps[s], NEW k \in 1..nApps[t],
                        apps'[s][j] # Nil, apps'[s][j] = apps'[t][k]
                 PROVE  s = t /\ j = k
      BY <1>0 DEF Unshared
    <3>1. CASE (s # r \/ j # i) /\ (t # r \/ k # i)
      <4>1. apps'[s][j] = apps[s][j] /\ apps'[t][k] = apps[t][k]
        BY <1>5, <3>1
      <4>2. apps[s][j] # Nil /\ apps[s][j] = apps[t][k]
        BY <4>1
      <4> QED BY <4>2 DEF SInv, ListInv, Unshared
    \* The slot that was replaced holds an object no other slot holds.
    <3>2. ASSUME NEW u \in RepoAddrs, NEW m \in 1..nApps[u],
                 apps'[u][m] # Nil, apps'[u][m] = v, u # r \/ m # i
          PROVE  FALSE
      <4>1. v # Nil /\ apps[u][m] = v /\ apps[u][m] \notin {old, new}
        BY <1>6, <3>2
      <4> QED BY <1>4, <4>1
    <3>3. CASE (s = r /\ j = i) /\ (t # r \/ k # i)
      <4>1. apps'[t][k] # Nil /\ apps'[t][k] = v
        BY <1>5, <3>3
      <4> QED BY <3>2, <3>3, <4>1
    <3>4. CASE (s # r \/ j # i) /\ (t = r /\ k = i)
      <4>1. apps'[s][j] = v
        BY <1>5, <3>4
      <4> QED BY <3>2, <3>4, <4>1
    <3> QED BY <3>1, <3>3, <3>4
  <2>2. Made'
    <3> SUFFICES ASSUME NEW s \in RepoAddrs, NEW j \in 1..nApps[s], apps'[s][j] # Nil
                 PROVE  application'[apps'[s][j]] # Nil
      BY <1>0 DEF Made
    <3>1. CASE s = r /\ j = i
      <4>1. application[old] # Nil
        BY <1>0, <1>3 DEF SInv, ListInv, Made
      <4>2. apps'[s][j] \in {old, new}
        BY <1>4, <1>5, <3>1
      <4>3. application'[apps'[s][j]] = application[apps'[s][j]]
        BY <1>6
      <4> QED BY <1>3, <4>1, <4>2, <4>3
    <3>2. CASE s # r \/ j # i
      <4>1. /\ application'[apps'[s][j]] = application[apps'[s][j]]
            /\ apps'[s][j] = apps[s][j]
        BY <1>6, <3>2
      <4> QED BY <4>1 DEF SInv, ListInv, Made
    <3> QED BY <3>1, <3>2
  <2>3. Tail'
    <3> SUFFICES ASSUME NEW s \in RepoAddrs \ LeakedRepos', NEW j \in 1..MaxApps, j > nApps[s]
                 PROVE  apps'[s][j] = Nil
      BY <1>0 DEF Tail
    <3>1. s \notin LeakedRepos
      BY <1>2
    <3>2. apps[s][j] = Nil
      BY <3>1 DEF SInv, ListInv, Tail
    <3>3. s # r \/ j # i
      BY <1>3, Slots
    <3> QED BY <1>5, <3>2, <3>3
  <2> QED BY <2>1, <2>2, <2>3 DEF ListInv
<1>8. SlotsKept(c)
  <2>1. \A s \in RepoAddrs : s # r => apps'[s] = apps[s]
    BY <1>0, <1>4, Slots
  <2>2. ASSUME NEW s \in RepoAddrs, NEW j \in 1..nApps[s] PROVE SlotStays(s, j)
    <3>0. SUFFICES ASSUME apps'[s][j] # Nil
                   PROVE  /\ apps[s][j] # Nil
                          /\ application'[apps'[s][j]].name = application[apps[s][j]].name
      BY <1>0 DEF SlotStays
    <3>1. application'[apps'[s][j]] = application[apps'[s][j]]
      BY <1>6, <3>0
    <3>2. CASE s = r /\ j = i
      <4>1. apps'[s][j] \in {old, new} /\ apps[s][j] = old
        BY <1>3, <1>4, <1>5, <3>0, <3>2
      <4> QED BY <1>3, <3>1, <4>1
    <3>3. CASE s # r \/ j # i
      <4>1. apps'[s][j] = apps[s][j]
        BY <1>5, <3>3
      <4> QED BY <3>0, <3>1, <4>1
    <3> QED BY <3>2, <3>3
  <2> QED BY <1>0, <1>1, <1>2, <2>1, <2>2 DEF SlotsKept
<1>9. ObjectsKept(c)
  <2> SUFFICES ASSUME NEW a \in AppAddrs, a # new, Unlisted(a)
               PROVE  Unlisted(a)' /\ application'[a] = application[a]
    BY <1>1 DEF ObjectsKept
  <2>1. a # old
    BY <1>0, <1>3 DEF Unlisted
  <2>2. Unlisted(a)'
    BY <1>0, <1>4, <1>5, <2>1, Nils DEF Unlisted
  <2> QED BY <1>4, <2>1, <2>2
<1> QED BY <1>0, <1>1, <1>7, <1>8, <1>9, AnswerOwn, HandlerStep

LEMMA AddOrUpdateApplicationSlots ==
  ASSUME IInv, IInv', SInv, NEW c \in Callers, AddOrUpdateApplicationStep(c)
  PROVE  SInv'
BY MakeSlots, ScanSlots, CompareSlots, NewApplicationSlots, GrowSlots, StoreSlots,
   UpdateLockRepoSlots, UpdateLockAppSlots, UpdateAppSlots DEF AddOrUpdateApplicationStep

\* The last slot moves to the index of the scan, whatever that holds by now.
LEMMA RemoveSlots ==
  ASSUME IInv, IInv', SInv, NEW c \in Callers, DeleteApplicationRemove(c)
  PROVE  SInv'
<1> SUFFICES ASSUME NEW r, r = loc[c].repo, NEW i, i = loc[c].idx, NEW n, n = nApps[r]
             PROVE  SInv'
  OBVIOUS
<1>0. /\ pc[c] = "delApp" /\ r \in RepoAddrs /\ repoLock[r] = c
      /\ apps' = [apps EXCEPT ![r][i] = apps[r][n]]
      /\ nApps' = [nApps EXCEPT ![r] = n - 1]
      /\ UNCHANGED <<repoLock, appVars>> /\ Return(c)
  BY HeldRepo DEF RepoLabels, DeleteApplicationRemove
<1>1. /\ Others(c) /\ pc'[c] = "idle" /\ loc'[c].app = Nil
      /\ pc'[c] \notin RepoLabels
  BY <1>0, ReturnSlots
<1>2. LeakedRepos \subseteq LeakedRepos' /\ r \in LeakedRepos'
  <2>1. TakesFree(c)
    BY <1>0, <1>1, Slots DEF TakesFree, RepoLabels
  <2>2. r \in LeakedRepos'
    BY <1>0, <1>1 DEF LeakedRepos
  <2> QED BY <1>1, <2>1, <2>2, StaysLeaked
<1>3. i \in 1..n /\ n \in 1..MaxApps
  <2>1. i > 0 /\ i <= n /\ i \in Nat
    BY <1>0 DEF IInv, TypeOK, CallTypes, Locals, CallerInv, AppIndex
  <2> QED BY <1>0, <2>1, Slots
<1>4. /\ nApps'[r] = n - 1 /\ apps'[r][i] = apps[r][n] /\ application' = application
      /\ \A s \in RepoAddrs : s # r => nApps'[s] = nApps[s] /\ apps'[s] = apps[s]
      /\ \A j : j # i => apps'[r][j] = apps[r][j]
  BY <1>0, <1>3, Slots DEF appVars
\* Each slot holds what one slot held before, and no two hold the same one.
<1>5. \A s \in RepoAddrs : \A j \in 1..nApps'[s] :
        /\ Origin(r, i, s, j) \in 1..nApps[s]
        /\ apps'[s][j] = apps[s][Origin(r, i, s, j)]
        /\ \A k \in 1..nApps'[s] : Origin(r, i, s, j) = Origin(r, i, s, k) => j = k
  <2>1. r \in RepoAddrs /\ i \in 1..nApps[r] /\ RemovesSlot(r, i)
    BY <1>0, <1>3 DEF RemovesSlot, SetsSlot
  <2> QED BY <2>1, SlotOrigin
<1>6. ListInv'
  <2>1. Unshared'
    <3> SUFFICES ASSUME NEW s \in RepoAddrs, NEW t \in RepoAddrs,
                        NEW j \in 1..nApps'[s], NEW k \in 1..nApps'[t],
                        apps'[s][j] # Nil, apps'[s][j] = apps'[t][k]
                 PROVE  s = t /\ j = k
      BY DEF Unshared
    <3>1. PICK x \in 1..nApps[s] : x = Origin(r, i, s, j) /\ apps'[s][j] = apps[s][x]
      BY <1>5
    <3>2. PICK y \in 1..nApps[t] : y = Origin(r, i, t, k) /\ apps'[t][k] = apps[t][y]
      BY <1>5
    <3>3. apps[s][x] # Nil /\ apps[s][x] = apps[t][y]
      BY <3>1, <3>2
    <3>4. s = t /\ x = y
      BY <3>3 DEF SInv, ListInv, Unshared
    <3> QED BY <1>5, <3>1, <3>2, <3>4
  <2>2. Made'
    <3> SUFFICES ASSUME NEW s \in RepoAddrs, NEW j \in 1..nApps'[s], apps'[s][j] # Nil
                 PROVE  application'[apps'[s][j]] # Nil
      BY DEF Made
    <3>1. Origin(r, i, s, j) \in 1..nApps[s] /\ apps'[s][j] = apps[s][Origin(r, i, s, j)]
      BY <1>5
    <3> QED BY <1>4, <3>1 DEF SInv, ListInv, Made
  <2>3. Tail'
    BY <1>2, <1>4 DEF SInv, ListInv, Tail
  <2> QED BY <2>1, <2>2, <2>3 DEF ListInv
<1>7. SlotsKept(c)
  <2>1. \A s \in RepoAddrs : \A j \in 1..nApps[s] : SlotStays(s, j) \/ s = r
    BY <1>4 DEF SlotStays
  <2> QED BY <1>0, <1>1, <1>2, <1>4, <2>1 DEF SlotsKept
<1>8. ObjectsKept(c)
  <2>1. ASSUME NEW a \in AppAddrs, Unlisted(a)
        PROVE  Unlisted(a)'
    <3> SUFFICES ASSUME NEW s \in RepoAddrs, NEW j \in 1..nApps'[s]
                 PROVE  apps'[s][j] # a
      BY DEF Unlisted
    <3> QED BY <1>5, <2>1 DEF Unlisted
  <2> QED BY <1>1, <1>4, <2>1 DEF ObjectsKept
<1> QED BY <1>0, <1>1, <1>6, <1>7, <1>8, AnswerOwn, HandlerStep

LEMMA DeleteApplicationSlots ==
  ASSUME IInv, IInv', SInv, NEW c \in Callers, DeleteApplicationStep(c)
  PROVE  SInv'
<1> USE DEF RepoLabels, OwnLabels, SlotLabels, MadeLabels, Labels, repoVars, appVars
<1>0. CallTypes /\ RegistryTypes
  BY DEF IInv, TypeOK
<1>1. CASE DeleteApplication(c)
  <2>1. CASE Panic("nil dereference")
    BY <2>1, PanicSlots
  <2>2. CASE Return(c) /\ UNCHANGED <<repoVars, appVars>>
    BY <2>2, AnswerSlots
  <2>3. CASE /\ \E r \in GetRepositoryConfig(req[c].url) \ {Nil} : loc' = [loc EXCEPT ![c].repo = r]
             /\ pc' = [pc EXCEPT ![c] = "delAppScan"]
             /\ UNCHANGED <<repoVars, appVars, req>>
    <3>1. Others(c) /\ pc'[c] = "delAppScan" /\ loc'[c].app = loc[c].app
      BY <1>0, <2>3 DEF CallTypes, Locals, Others
    <3>2. TakesFree(c)
      BY <2>3, <3>1 DEF TakesFree
    <3> QED BY <2>3, <3>1, <3>2, MoveSlots
  <2> QED BY <1>1, <2>1, <2>2, <2>3 DEF DeleteApplication
<1>2. CASE DeleteApplicationScan(c)
  <2>1. CASE Panic("nil dereference")
    BY <2>1, PanicSlots
  <2>2. CASE Return(c) /\ UNCHANGED <<repoVars, appVars>>
    BY <2>2, AnswerSlots
  <2>3. CASE /\ \E i \in Last(AppSlots(loc[c].repo, req[c].name)) :
                  loc' = [loc EXCEPT ![c].idx = i, ![c].old = apps[loc[c].repo][i]]
             /\ pc' = [pc EXCEPT ![c] = "delAppLock"]
             /\ UNCHANGED <<repoVars, appVars, req>>
    <3>1. Others(c) /\ pc'[c] = "delAppLock" /\ loc'[c].app = loc[c].app
      BY <1>0, <2>3 DEF CallTypes, Locals, Others
    <3>2. TakesFree(c)
      BY <2>3, <3>1 DEF TakesFree
    <3> QED BY <2>3, <3>1, <3>2, MoveSlots
  <2> QED BY <1>2, <2>1, <2>2, <2>3 DEF DeleteApplicationScan
<1>3. CASE DeleteApplicationLockRepo(c)
  <2>1. /\ Goto(c, "delAppLockApp") /\ repoLock[loc[c].repo] = Free
        /\ repoLock' = [repoLock EXCEPT ![loc[c].repo] = c]
        /\ UNCHANGED <<apps, nApps, appVars>>
    BY <1>3 DEF DeleteApplicationLockRepo
  <2>2. pc'[c] = "delAppLockApp" /\ loc'[c] = loc[c]
    BY <1>0, <2>1, GotoEffect
  <2>3. TakesFree(c)
    BY <1>0, <2>1, <2>2 DEF TakesFree, RegistryTypes
  <2> QED BY <2>1, <2>3, GotoSlots
<1>4. CASE DeleteApplicationLockApp(c)
  <2>1. /\ pc[c] = "delAppLockApp" /\ Goto(c, "delApp")
        /\ UNCHANGED <<repoVars, application>>
    BY <1>4 DEF DeleteApplicationLockApp
  <2>2. pc'[c] = "delApp" /\ loc'[c] = loc[c]
    BY <1>0, <2>1, GotoEffect
  <2>3. TakesFree(c)
    BY <2>1, <2>2 DEF TakesFree
  <2> QED BY <2>1, <2>3, GotoSlots
<1>5. CASE DeleteApplicationRemove(c)
  BY <1>5, RemoveSlots
<1> QED BY <1>1, <1>2, <1>3, <1>4, <1>5 DEF DeleteApplicationStep

-----------------------------------------------------------------------------
(* The theorem                                                             *)

LEMMA StepSlots ==
  ASSUME IInv, SInv, [Next]_vars
  PROVE  SInv'
<1>1. IInv'
  BY StepInv
<1>2. ASSUME NEW c \in Callers, Call(c) \/ CallerStep(c) PROVE SInv'
  BY <1>1, <1>2, CallSlots, AddRepositorySlots, DeleteRepositorySlots,
     AddOrUpdateApplicationSlots, DeleteApplicationSlots DEF CallerStep
<1> QED BY <1>2, BackgroundSlots DEF Next

\* The index AddOrUpdateApplication takes from a scan without the mutex is that
\* of a slot that is empty or holds an application of the name it was asked for:
\* when it replaces the slot always, and before, at the comparison and in the
\* wait for the mutex, as long as that mutex is not left locked by a deletion,
\* the only one to shorten the slice or to move an application in it
\* (repository.go:200-244, 272 and 285).
THEOREM UpdateIndexCorrect == Spec => []UpdateIndexValid
<1>1. Init => IInv /\ SInv
  BY InitInv, InitSlots
<1>2. IInv /\ SInv /\ [Next]_vars => (IInv /\ SInv)'
  BY StepInv, StepSlots
<1>3. SInv => UpdateIndexValid
  BY DEF SInv, SlotInv, Good, UpdateIndexValid, AppSlots, EmptySlots
<1> QED BY <1>1, <1>2, <1>3, PTL DEF Spec
=============================================================================
