--------------------------- MODULE RegistryProofs ---------------------------
(***************************************************************************)
(* RepositoryHandler implements Registry, for every number of clients and  *)
(* objects.  On top of its inductive invariant, what a handler works on is *)
(* what its request asked for (CallMatches): the object stored or removed  *)
(* at the end is not that of another request.                              *)
(***************************************************************************)
EXTENDS RegistryRefinement, RepositoryHandlerProofs

AddLabels == {"AddRepository", "addRepoLock", "addRepoNew", "addRepoStore"}
DeleteLabels == {"DeleteRepository", "delRepoFind", "delRepoLock", "delRepoWait"}

CallMatches(c) ==
  /\ pc[c] \in AddLabels <=> req[c].op = "AddRepository"
  /\ pc[c] \in DeleteLabels <=> req[c].op = "DeleteRepository"
  /\ pc[c] \in AddLabels => req[c].name \in RepoNames /\ req[c].url \in URLs
  /\ pc[c] \in DeleteLabels => req[c].name \in RepoNames /\ req[c].url = Nil
  /\ pc[c] = "idle" => req[c] = NoReq
  /\ pc[c] = "addRepoStore" => config[loc[c].repo] = Reg!Entry(req[c])
  /\ pc[c] \in {"delRepoLock", "delRepoWait"} => config[loc[c].repo].name = req[c].name

Matches == \A c \in Callers : CallMatches(c)

-----------------------------------------------------------------------------
(* What the handlers that do not move know                                 *)

LEMMA StableCall ==
  ASSUME IInv, NEW d \in Callers, CallMatches(d), KeepsConfig,
         pc'[d] = pc[d], req'[d] = req[d], loc'[d] = loc[d]
  PROVE  CallMatches(d)'
<1>1. pc[d] \in KnownRepoLabels => config'[loc[d].repo] = config[loc[d].repo]
  BY DEF IInv, CallerInv, RepoKnown, KeepsConfig
<1> QED BY <1>1 DEF CallMatches, KnownRepoLabels, Reg!Entry

LEMMA MovedCall ==
  ASSUME IInv, Matches, NEW c \in Callers, Others(c), KeepsConfig, CallMatches(c)'
  PROVE  Matches'
BY StableCall DEF Matches, Others

\* The registry does not change as long as the slices do not and nobody
\* begins or ends to append.
LEMMA SameRegistered ==
  ASSUME UNCHANGED listVars,
         \A d \in Callers : pc'[d] = "addRepoStore" <=> pc[d] = "addRepoStore"
  PROVE  Registered' = Registered
<1>1. Settled' = Settled
  BY DEF Settled, listVars
<1> QED BY <1>1 DEF Registered, listVars

LEMMA SameAsked ==
  ASSUME \A d \in Callers : req'[d] = req[d]
  PROVE  Asked' = Asked
BY DEF Asked

\* Steps that no client of the registry can notice.
LEMMA BackgroundQuiet ==
  ASSUME IInv, Matches, UNCHANGED <<listVars, callVars>>
  PROVE  Matches' /\ UNCHANGED Reg!vars
<1>1. pc' = pc /\ req' = req /\ loc' = loc /\ KeepsConfig
  BY DEF listVars, callVars, KeepsConfig
<1>2. Matches'
  BY <1>1, StableCall DEF Matches
<1>3. Registered' = Registered /\ Asked' = Asked
  BY <1>1, SameRegistered, SameAsked
<1> QED BY <1>2, <1>3 DEF Reg!vars

\* A handler moves on, but neither into nor out of the appending.
LEMMA CallQuiet ==
  ASSUME IInv, Matches, NEW c \in Callers, Others(c), UNCHANGED listVars,
         req'[c] = req[c], pc'[c] # "idle",
         pc[c] # "addRepoStore", pc'[c] # "addRepoStore",
         pc'[c] \in AddLabels <=> pc[c] \in AddLabels,
         pc'[c] \in DeleteLabels <=> pc[c] \in DeleteLabels,
         pc'[c] \in {"delRepoLock", "delRepoWait"} => config[loc'[c].repo].name = req[c].name
  PROVE  Matches' /\ UNCHANGED Reg!vars
<1>1. CallMatches(c)
  BY DEF Matches
<1>2. CallMatches(c)'
  BY <1>1 DEF CallMatches, listVars
<1>3. Matches'
  BY <1>2, MovedCall DEF KeepsConfig, listVars
<1>4. Registered' = Registered /\ Asked' = Asked
  BY SameRegistered, SameAsked DEF Others
<1> QED BY <1>3, <1>4 DEF Reg!vars

\* A handler returns.
LEMMA ReturnAsked ==
  ASSUME IInv, NEW c \in Callers, Return(c)
  PROVE  /\ Asked' = [Asked EXCEPT ![c] = Nil]
         /\ Others(c) /\ pc'[c] = "idle" /\ CallMatches(c)'
<1>1. Others(c) /\ pc'[c] = "idle" /\ req'[c] = NoReq
  BY ReturnEffect DEF IInv, TypeOK, CallTypes, Return
<1>2. NoReq.op = "none"
  BY DEF NoReq, Request
<1>3. CallMatches(c)'
  BY <1>1, <1>2 DEF CallMatches, AddLabels, DeleteLabels
<1>4. Asked' = [Asked EXCEPT ![c] = Nil]
  BY <1>1, <1>2 DEF Asked, Others
<1> QED BY <1>1, <1>3, <1>4

LEMMA AnswerMatches ==
  ASSUME IInv, Matches, NEW c \in Callers, Return(c), KeepsConfig
  PROVE  Matches'
BY ReturnAsked, MovedCall

\* It answers a request that left the registry alone.
LEMMA AnswerQuiet ==
  ASSUME IInv, Matches, NEW c \in Callers, Return(c), UNCHANGED listVars,
         pc[c] # "addRepoStore"
  PROVE  /\ Matches' /\ Registered' = Registered
         /\ Asked' = [Asked EXCEPT ![c] = Nil]
<1>1. Matches'
  BY AnswerMatches DEF KeepsConfig, listVars
<1>2. Registered' = Registered
  BY ReturnAsked, SameRegistered DEF Others
<1> QED BY <1>1, <1>2, ReturnAsked

\* The request a handler of AddRepository or DeleteRepository answers.
LEMMA AskedOf ==
  ASSUME Matches, NEW c \in Callers
  PROVE  /\ pc[c] \in AddLabels \cup DeleteLabels =>
              /\ Asked[c] # Nil
              /\ Asked[c] = [op |-> req[c].op, name |-> req[c].name, url |-> req[c].url]
              /\ Asked[c].name = req[c].name /\ Asked[c].url = req[c].url
         /\ pc[c] \in AddLabels => Asked[c].op = "AddRepository"
         /\ pc[c] \in DeleteLabels => Asked[c].op = "DeleteRepository"
         /\ pc[c] \notin AddLabels \cup DeleteLabels => Asked[c] = Nil
<1>1. CallMatches(c)
  BY DEF Matches
<1>2. CASE pc[c] \in AddLabels \cup DeleteLabels
  BY <1>1, <1>2, NoRequestAssumption DEF CallMatches, Asked
<1>3. CASE pc[c] \notin AddLabels \cup DeleteLabels
  BY <1>1, <1>3 DEF CallMatches, Asked
<1> QED BY <1>2, <1>3 DEF AddLabels, DeleteLabels

LEMMA PanicEnds ==
  ASSUME NEW cause, Panic(cause)
  PROVE  Matches' /\ Reg!End
<1>1. NoReq.op = "none"
  BY DEF NoReq, Request
<1>2. /\ \A c \in Callers : pc'[c] = "idle" /\ req'[c] = NoReq
      /\ nRepos' = 0
  BY DEF Panic
<1>3. Matches'
  BY <1>1, <1>2 DEF Matches, CallMatches, AddLabels, DeleteLabels
<1>4. Registered' = {}
  BY <1>2 DEF Registered, Settled
<1>5. Asked' = [c \in Callers |-> Nil]
  BY <1>1, <1>2 DEF Asked
<1> QED BY <1>3, <1>4, <1>5 DEF Reg!End

-----------------------------------------------------------------------------
(* AddRepository and DeleteRepository                                      *)

\* While a handler holds h.Mutex and appends nothing, every slot is settled.
LEMMA SettledSlots ==
  ASSUME IInv, NEW c \in Callers, pc[c] \in HandlerLabels, pc[c] # "addRepoStore"
  PROVE  /\ Settled = 1..nRepos
         /\ \A i \in 1..nRepos : repos[i] \in RepoAddrs /\ config[repos[i]] \in Configs
<1>1. Settled = 1..nRepos
  BY HandlerMutex DEF Settled
<1>2. /\ RegistryInv /\ nRepos \in Nat /\ MaxRepos \in Nat /\ nRepos <= MaxRepos
      /\ repos \in [1..MaxRepos -> RepoAddrs \cup {Nil}]
      /\ config \in [RepoAddrs -> Configs \cup {Nil}]
  BY HandlerMutex DEF RegistryTypes
<1>3. \A i \in 1..nRepos : repos[i] # Nil /\ i \in 1..MaxRepos
  BY <1>1, <1>2 DEF RegistryInv
<1>4. \A i \in 1..nRepos : config[repos[i]] # Nil
  BY <1>2, <1>3 DEF RegistryInv
<1> QED BY <1>1, <1>2, <1>3, <1>4

\* What each answer of the specification looks like in the model.
LEMMA AddRefines ==
  ASSUME IInv, Matches, NEW c \in Callers, AddRepositoryStep(c)
  PROVE  Matches' /\ [Reg!Next]_Reg!vars
<1>0. CallMatches(c) /\ CallTypes
  BY DEF Matches, IInv, TypeOK
<1>1. ASSUME pc[c] \in AddLabels, Return(c), UNCHANGED listVars, pc[c] # "addRepoStore"
      PROVE  Matches' /\ Reg!Refuse(c)
  BY <1>1, AnswerQuiet, AskedOf DEF Reg!Refuse, Reg!Answer
<1>2. CASE AddRepositoryCheck(c)
  <2>1. CASE Panic("nil dereference")
    BY <2>1, PanicEnds DEF Reg!Next
  <2>2. CASE Return(c) /\ UNCHANGED listVars
    BY <1>1, <1>2, <2>2 DEF AddRepositoryCheck, AddLabels, Reg!Next
  <2>3. CASE Goto(c, "addRepoLock") /\ UNCHANGED listVars
    BY <1>0, <1>2, <2>3, GotoEffect, CallQuiet
       DEF AddRepositoryCheck, AddLabels, DeleteLabels, Labels
  <2> QED BY <1>2, <2>1, <2>2, <2>3 DEF AddRepositoryCheck
<1>3. CASE AddRepositoryLock(c)
  BY <1>0, <1>3, GotoEffect, CallQuiet
     DEF AddRepositoryLock, AddLabels, DeleteLabels, Labels
<1>4. CASE AddRepositoryRefuse(c)
  BY <1>1, <1>4 DEF AddRepositoryRefuse, AddLabels, Reg!Next
<1>5. CASE AddRepositoryGrow(c)
  <2> DEFINE r == loc[c].repo
  <2>1. /\ pc[c] = "addRepoNew" /\ Goto(c, "addRepoStore")
        /\ config' = [config EXCEPT ![r] = Reg!Entry(req[c])]
        /\ repos' = repos /\ nRepos' = nRepos + 1
    BY <1>5 DEF AddRepositoryGrow, Reg!Entry
  <2>2. /\ Others(c) /\ pc'[c] = "addRepoStore" /\ req'[c] = req[c] /\ loc'[c] = loc[c]
    BY <1>0, <2>1, GotoEffect DEF Labels
  <2>3. r \in RepoAddrs /\ config[r] = Nil /\ config \in [RepoAddrs -> Configs \cup {Nil}]
    BY <2>1 DEF IInv, TypeOK, RegistryTypes, CallerInv, RepoKnown, NewRepoLabels
  <2>4. KeepsConfig
    BY <2>1, <2>3 DEF KeepsConfig
  <2>5. CallMatches(c)'
    BY <1>0, <2>1, <2>2, <2>3 DEF CallMatches, AddLabels, DeleteLabels, Reg!Entry
  <2>6. Settled = 1..nRepos /\ nRepos \in Nat
        /\ \A i \in 1..nRepos : repos[i] \in RepoAddrs /\ config[repos[i]] # Nil
    <3>1. Nil \notin Configs
      BY DisjointAssumption DEF Configs
    <3> QED BY <2>1, <3>1, SettledSlots, HandlerMutex DEF HandlerLabels
  <2>7. Settled' = 1..nRepos
    BY <2>1, <2>2, <2>6 DEF Settled
  <2>8. Registered' = Registered
    BY <2>1, <2>4, <2>6, <2>7 DEF Registered, KeepsConfig
  <2>9. Asked' = Asked
    BY <2>2, SameAsked DEF Others
  <2> QED BY <2>2, <2>4, <2>5, <2>8, <2>9, MovedCall DEF Reg!vars
<1>6. CASE AddRepositoryStore(c)
  <2> DEFINE r == loc[c].repo
  <2>1. /\ pc[c] = "addRepoStore" /\ Return(c)
        /\ repos' = [repos EXCEPT ![nRepos] = r]
        /\ nRepos' = nRepos /\ config' = config
    BY <1>6 DEF AddRepositoryStore
  <2>2. /\ Appending(c) /\ RegistryTypes /\ nRepos \in Nat /\ nRepos <= MaxRepos
        /\ nRepos > 0 /\ MaxRepos \in Nat
        /\ \A d \in Callers : d # c => pc[d] # "addRepoStore"
    BY <2>1, HandlerMutex DEF HandlerLabels, CallerInv, Appending
  <2>3. /\ Asked' = [Asked EXCEPT ![c] = Nil]
        /\ Others(c) /\ pc'[c] = "idle"
    BY <2>1, ReturnAsked
  <2>4. Settled = 1..nRepos \ {nRepos} /\ Settled' = 1..nRepos
    BY <2>1, <2>2, <2>3 DEF Settled, Others
  <2>5. repos'[nRepos] = r /\ \A i \in 1..nRepos \ {nRepos} : repos'[i] = repos[i]
    BY <2>1, <2>2 DEF RegistryTypes
  <2>6. Registered' = Registered \cup {config[r]}
    <3>1. Registered' = {config[repos'[i]] : i \in 1..nRepos}
      BY <2>1, <2>4 DEF Registered
    <3>2. Registered = {config[repos[i]] : i \in 1..nRepos \ {nRepos}}
      BY <2>4 DEF Registered
    <3>3. nRepos \in 1..nRepos
      BY <2>2
    <3> QED BY <3>1, <3>2, <3>3, <2>5
  <2>7. config[r] = Reg!Entry(Asked[c]) /\ config[r].url = Asked[c].url
    <3>1. config[r] = Reg!Entry(req[c])
      BY <1>0, <2>1 DEF CallMatches
    <3>2. Asked[c].name = req[c].name /\ Asked[c].url = req[c].url
      BY <2>1, AskedOf DEF AddLabels
    <3> QED BY <3>1, <3>2 DEF Reg!Entry
  <2>8. \A e \in Registered : e.url # Asked[c].url
    BY <2>1, <2>2, <2>4, <2>7 DEF Registered, Appending
  <2>9. Reg!Add(c)
    BY <2>1, <2>3, <2>6, <2>7, <2>8, AskedOf DEF Reg!Add, Reg!Answer, AddLabels
  <2>10. Matches'
    BY <2>1, AnswerMatches DEF KeepsConfig
  <2> QED BY <2>9, <2>10 DEF Reg!Next
<1> QED BY <1>2, <1>3, <1>4, <1>5, <1>6 DEF AddRepositoryStep

LEMMA DeleteRefines ==
  ASSUME IInv, Matches, NEW c \in Callers, DeleteRepositoryStep(c)
  PROVE  Matches' /\ [Reg!Next]_Reg!vars
<1>0. CallMatches(c) /\ CallTypes
  BY DEF Matches, IInv, TypeOK
<1>1. CASE DeleteRepositoryLock(c)
  BY <1>0, <1>1, GotoEffect, CallQuiet
     DEF DeleteRepositoryLock, AddLabels, DeleteLabels, Labels
<1>2. CASE DeleteRepositoryFind(c)
  <2> DEFINE named == {i \in 1..nRepos : config[repos[i]].name = req[c].name}
  <2>1. pc[c] = "delRepoFind" /\ UNCHANGED listVars
    BY <1>2 DEF DeleteRepositoryFind
  <2>2. Settled = 1..nRepos
    BY <2>1, SettledSlots DEF HandlerLabels
  <2>3. Asked[c] # Nil /\ Asked[c].op = "DeleteRepository" /\ Asked[c].name = req[c].name
    BY <2>1, AskedOf DEF DeleteLabels
  <2>4. CASE named = {} /\ Return(c)
    <3>1. Reg!Named(Asked[c].name) = {}
      BY <2>2, <2>3, <2>4 DEF Reg!Named, Registered
    <3>2. Matches' /\ Reg!NotFound(c)
      BY <2>1, <2>3, <2>4, <3>1, AnswerQuiet DEF Reg!NotFound, Reg!Answer
    <3> QED BY <3>2 DEF Reg!Next
  <2>5. CASE \E i \in Last(named) :
               /\ pc' = [pc EXCEPT ![c] = "delRepoLock"]
               /\ loc' = [loc EXCEPT ![c].idx = i, ![c].repo = repos[i]]
               /\ UNCHANGED <<req, handlerLock>>
    <3>1. PICK i \in Last(named) :
            /\ pc' = [pc EXCEPT ![c] = "delRepoLock"]
            /\ loc' = [loc EXCEPT ![c].idx = i, ![c].repo = repos[i]]
            /\ req' = req
      BY <2>5
    <3>2. config[repos[i]].name = req[c].name
      BY DEF Last
    <3>3. /\ Others(c) /\ pc'[c] = "delRepoLock" /\ req'[c] = req[c]
          /\ loc'[c].repo = repos[i]
      BY <1>0, <3>1 DEF CallTypes, Locals, Others
    <3> QED BY <2>1, <3>2, <3>3, CallQuiet DEF AddLabels, DeleteLabels
  <2> QED BY <1>2, <2>4, <2>5 DEF DeleteRepositoryFind
<1>3. CASE DeleteRepositorySpawn(c)
  <2>1. /\ pc[c] = "delRepoLock" /\ Goto(c, "delRepoWait") /\ UNCHANGED listVars
    BY <1>3 DEF DeleteRepositorySpawn
  <2>2. /\ Others(c) /\ pc'[c] = "delRepoWait" /\ req'[c] = req[c] /\ loc'[c] = loc[c]
    BY <1>0, <2>1, GotoEffect DEF Labels
  <2>3. config[loc'[c].repo].name = req[c].name
    BY <1>0, <2>1, <2>2 DEF CallMatches
  <2> QED BY <2>1, <2>2, <2>3, CallQuiet DEF AddLabels, DeleteLabels
<1>4. CASE DeleteRepositoryNil(c)
  BY <1>4, PanicEnds DEF DeleteRepositoryNil, Reg!Next
<1>5. CASE DeleteRepositoryRemove(c)
  <2> DEFINE k == loc[c].idx
             e == config[loc[c].repo]
  <2>1. /\ pc[c] = "delRepoWait" /\ Return(c)
        /\ repos' = [repos EXCEPT ![k] = repos[nRepos]]
        /\ nRepos' = nRepos - 1 /\ config' = config
    BY <1>5 DEF DeleteRepositoryRemove
  <2>2. /\ RemovalIndex(c) /\ RegistryTypes /\ UniqueURL
        /\ nRepos \in Nat /\ nRepos <= MaxRepos /\ MaxRepos \in Nat
        /\ \A d \in Callers : pc[d] # "addRepoStore"
    BY <2>1, HandlerMutex DEF HandlerLabels, CallerInv, RegistryInv
  <2>3. k \in 1..nRepos /\ repos[k] = loc[c].repo
    BY <2>1, <2>2 DEF RemovalIndex
  <2>4. /\ Asked' = [Asked EXCEPT ![c] = Nil]
        /\ Others(c) /\ pc'[c] = "idle"
    BY <2>1, ReturnAsked
  <2>5. Settled = 1..nRepos /\ Settled' = 1..(nRepos - 1)
    BY <2>1, <2>2, <2>4 DEF Settled, Others
  <2>6. \A i \in 1..(nRepos - 1) : repos'[i] = IF i = k THEN repos[nRepos] ELSE repos[i]
    BY <2>1, <2>2, <2>3 DEF RegistryTypes
  <2>7. \A i, j \in 1..nRepos : config[repos[i]] = config[repos[j]] => i = j
    BY <2>2, <2>5 DEF UniqueURL
  <2>8. Registered = {config[repos[i]] : i \in 1..nRepos}
    BY <2>5 DEF Registered
  <2>9. Registered' = {config[repos'[i]] : i \in 1..(nRepos - 1)}
    BY <2>1, <2>5 DEF Registered
  <2>10. Registered' \subseteq Registered \ {e}
    <3> SUFFICES ASSUME NEW i \in 1..(nRepos - 1)
                 PROVE  config[repos'[i]] \in Registered \ {e}
      BY <2>9
    <3>1. PICK j \in 1..nRepos : repos'[i] = repos[j] /\ j # k
      <4>1. CASE i = k
        BY <2>2, <2>3, <2>6, <4>1
      <4>2. CASE i # k
        BY <2>2, <2>6, <4>2
      <4> QED BY <4>1, <4>2
    <3> QED BY <2>3, <2>7, <2>8, <3>1
  <2>11. Registered \ {e} \subseteq Registered'
    <3> SUFFICES ASSUME NEW j \in 1..nRepos, config[repos[j]] # e
                 PROVE  config[repos[j]] \in Registered'
      BY <2>8
    <3>1. j # k
      BY <2>3
    <3>2. CASE j = nRepos
      <4>1. k \in 1..(nRepos - 1)
        BY <2>2, <2>3, <3>1, <3>2
      <4> QED BY <2>6, <2>9, <3>2, <4>1
    <3>3. CASE j # nRepos
      <4>1. j \in 1..(nRepos - 1)
        BY <2>2, <3>3
      <4> QED BY <2>6, <2>9, <3>1, <4>1
    <3> QED BY <3>2, <3>3
  <2>12. e \in Reg!Named(Asked[c].name)
    <3>1. e.name = Asked[c].name
      BY <1>0, <2>1, AskedOf DEF CallMatches, DeleteLabels
    <3> QED BY <2>3, <2>8, <3>1 DEF Reg!Named
  <2>13. Reg!Remove(c)
    BY <2>1, <2>4, <2>10, <2>11, <2>12, AskedOf DEF Reg!Remove, Reg!Answer, DeleteLabels
  <2>14. Matches'
    BY <2>1, AnswerMatches DEF KeepsConfig
  <2> QED BY <2>13, <2>14 DEF Reg!Next
<1> QED BY <1>1, <1>2, <1>3, <1>4, <1>5 DEF DeleteRepositoryStep

-----------------------------------------------------------------------------
(* Everything else                                                         *)

ApplicationLabels == Labels \ ({"idle"} \cup AddLabels \cup DeleteLabels)

\* A handler of an application request moves on.
ApplicationMove(c) ==
  /\ UNCHANGED <<listVars, req>>
  /\ \E label \in ApplicationLabels : pc' = [pc EXCEPT ![c] = label]
  /\ \A d \in Callers : d # c => loc'[d] = loc[d]

LEMMA ApplicationMoveQuiet ==
  ASSUME IInv, Matches, NEW c \in Callers, ApplicationMove(c), pc[c] \in ApplicationLabels
  PROVE  Matches' /\ UNCHANGED Reg!vars
<1>1. pc \in [Callers -> Labels]
  BY DEF IInv, TypeOK, CallTypes
<1>2. Others(c) /\ pc'[c] \in ApplicationLabels /\ req'[c] = req[c] /\ UNCHANGED listVars
  BY <1>1 DEF ApplicationMove, Others
<1> QED BY <1>2, CallQuiet DEF ApplicationLabels, AddLabels, DeleteLabels

LEMMA ApplicationReturnQuiet ==
  ASSUME IInv, Matches, NEW c \in Callers, Return(c), UNCHANGED listVars,
         pc[c] \in ApplicationLabels
  PROVE  Matches' /\ UNCHANGED Reg!vars
<1>1. /\ Matches' /\ Registered' = Registered
      /\ Asked' = [Asked EXCEPT ![c] = Nil]
  BY AnswerQuiet DEF ApplicationLabels, AddLabels
<1>2. Asked[c] = Nil
  BY AskedOf DEF ApplicationLabels
<1>3. Asked' = Asked
  BY <1>1, <1>2 DEF Asked
<1> QED BY <1>1, <1>3 DEF Reg!vars

\* The handlers of application requests do nothing else.
ApplicationEffect(c) ==
  \/ ApplicationMove(c)
  \/ Return(c) /\ UNCHANGED listVars
  \/ \E cause \in States : Panic(cause)

LEMMA GotoApplication ==
  ASSUME NEW c \in Callers, NEW label \in ApplicationLabels, Goto(c, label), UNCHANGED listVars
  PROVE  ApplicationEffect(c)
BY DEF Goto, ApplicationEffect, ApplicationMove

LEMMA UpdateEffect ==
  ASSUME IInv, NEW c \in Callers, AddOrUpdateApplicationStep(c)
  PROVE  pc[c] \in ApplicationLabels /\ ApplicationEffect(c)
<1> USE DEF ApplicationLabels, AddLabels, DeleteLabels, Labels
<1>0. CallTypes
  BY DEF IInv, TypeOK
<1>1. CASE AddOrUpdateApplication(c)
  BY <1>0, <1>1 DEF AddOrUpdateApplication, ApplicationEffect, ApplicationMove, CallTypes, States
<1>2. CASE AddOrUpdateScan(c)
  <2>1. CASE Goto(c, "addAppNew") /\ UNCHANGED listVars
    BY <1>2, <2>1, GotoApplication DEF AddOrUpdateScan
  <2>2. CASE Panic("nil dereference")
    BY <1>2, <2>2 DEF AddOrUpdateScan, ApplicationEffect, States
  <2>3. CASE \E i : /\ pc' = [pc EXCEPT ![c] = "updCompare"]
                    /\ loc' = [loc EXCEPT ![c].idx = i]
                    /\ UNCHANGED <<listVars, req>>
    BY <1>0, <1>2, <2>3 DEF AddOrUpdateScan, ApplicationEffect, ApplicationMove, CallTypes
  <2> QED BY <1>2, <2>1, <2>2, <2>3 DEF AddOrUpdateScan
<1>9. CASE AddOrUpdateCompare(c)
  BY <1>9, GotoApplication DEF AddOrUpdateCompare, ApplicationEffect, States
<1>3. CASE AddApplicationNew(c)
  BY <1>3, GotoApplication DEF AddApplicationNew, ApplicationEffect
<1>4. CASE AddApplicationGrow(c)
  BY <1>4, GotoApplication DEF AddApplicationGrow
<1>5. CASE AddApplicationStore(c)
  BY <1>5 DEF AddApplicationStore, ApplicationEffect
<1>6. CASE UpdateLockRepo(c)
  BY <1>6, GotoApplication DEF UpdateLockRepo
<1>7. CASE UpdateLockApp(c)
  BY <1>0, <1>7 DEF UpdateLockApp, ApplicationEffect, ApplicationMove, CallTypes, States
<1>8. CASE UpdateApp(c)
  BY <1>8 DEF UpdateApp, ApplicationEffect
<1> QED BY <1>1, <1>2, <1>3, <1>4, <1>5, <1>6, <1>7, <1>8, <1>9 DEF AddOrUpdateApplicationStep

LEMMA DeleteEffect ==
  ASSUME IInv, NEW c \in Callers, DeleteApplicationStep(c)
  PROVE  pc[c] \in ApplicationLabels /\ ApplicationEffect(c)
<1> USE DEF ApplicationLabels, AddLabels, DeleteLabels, Labels
<1>0. CallTypes
  BY DEF IInv, TypeOK
<1>1. CASE DeleteApplication(c)
  BY <1>0, <1>1 DEF DeleteApplication, ApplicationEffect, ApplicationMove, CallTypes, States
<1>2. CASE DeleteApplicationScan(c)
  BY <1>0, <1>2 DEF DeleteApplicationScan, ApplicationEffect, ApplicationMove, CallTypes, States
<1>3. CASE DeleteApplicationLockRepo(c)
  BY <1>3, GotoApplication DEF DeleteApplicationLockRepo
<1>4. CASE DeleteApplicationLockApp(c)
  BY <1>4, GotoApplication DEF DeleteApplicationLockApp
<1>5. CASE DeleteApplicationRemove(c)
  BY <1>5 DEF DeleteApplicationRemove, ApplicationEffect
<1> QED BY <1>1, <1>2, <1>3, <1>4, <1>5 DEF DeleteApplicationStep

LEMMA ApplicationRefines ==
  ASSUME IInv, Matches, NEW c \in Callers,
         AddOrUpdateApplicationStep(c) \/ DeleteApplicationStep(c)
  PROVE  Matches' /\ [Reg!Next]_Reg!vars
<1>1. pc[c] \in ApplicationLabels /\ ApplicationEffect(c)
  BY UpdateEffect, DeleteEffect
<1>2. CASE ApplicationMove(c)
  BY <1>1, <1>2, ApplicationMoveQuiet
<1>3. CASE Return(c) /\ UNCHANGED listVars
  BY <1>1, <1>3, ApplicationReturnQuiet
<1>4. CASE \E cause \in States : Panic(cause)
  BY <1>4, PanicEnds DEF Reg!Next
<1> QED BY <1>1, <1>2, <1>3, <1>4 DEF ApplicationEffect

LEMMA CallRefines ==
  ASSUME IInv, Matches, NEW c \in Callers, Call(c)
  PROVE  Matches' /\ [Reg!Next]_Reg!vars
<1>0. CallTypes /\ CallMatches(c)
  BY DEF IInv, TypeOK, Matches
<1>1. ASSUME NEW q, NEW l, Begin(c, q, l), UNCHANGED listVars,
             q.op \in {"AddRepository", "DeleteRepository", "AddOrUpdateApplication",
                       "DeleteApplication"},
             q.op = "AddRepository" => q.name \in RepoNames /\ q.url \in URLs,
             q.op = "DeleteRepository" => q.name \in RepoNames /\ q.url = Nil
      PROVE  Matches' /\ [Reg!Next]_Reg!vars
  <2>1. /\ Others(c) /\ pc[c] = "idle" /\ pc'[c] = q.op /\ req'[c] = q
    BY <1>0, <1>1 DEF Begin, CallTypes, Others
  <2>2. CallMatches(c)'
    BY <1>1, <2>1 DEF CallMatches, AddLabels, DeleteLabels
  <2>3. Matches'
    BY <1>1, <2>1, <2>2, MovedCall DEF KeepsConfig, listVars
  <2>4. Registered' = Registered
    BY <1>1, <2>1, SameRegistered DEF Others
  <2>5. Asked[c] = Nil
    BY <2>1, AskedOf DEF AddLabels, DeleteLabels
  <2>6. CASE q.op \in {"AddRepository", "DeleteRepository"}
    <3> DEFINE request == [op |-> q.op, name |-> q.name, url |-> q.url]
    <3>1. Asked' = [Asked EXCEPT ![c] = request]
      BY <2>1, <2>6 DEF Asked, Others
    <3>2. request \in Reg!Requests
      BY <1>1, <2>6 DEF Reg!Requests
    <3>3. Reg!Ask(c)
      BY <2>4, <2>5, <3>1, <3>2 DEF Reg!Ask
    <3> QED BY <2>3, <3>3 DEF Reg!Next
  <2>7. CASE q.op \notin {"AddRepository", "DeleteRepository"}
    <3>1. Asked' = Asked
      BY <2>1, <2>5, <2>7 DEF Asked, Others
    <3> QED BY <2>3, <2>4, <3>1 DEF Reg!vars
  <2> QED BY <2>6, <2>7
<1>2. CASE CallAddRepository(c)
  BY <1>1, <1>2 DEF CallAddRepository, Request
<1>3. CASE CallDeleteRepository(c)
  BY <1>1, <1>3 DEF CallDeleteRepository, Request
<1>4. CASE CallAddOrUpdateApplication(c)
  BY <1>1, <1>4 DEF CallAddOrUpdateApplication, Request
<1>5. CASE CallDeleteApplication(c)
  BY <1>1, <1>5 DEF CallDeleteApplication, Request
<1> QED BY <1>2, <1>3, <1>4, <1>5 DEF Call

LEMMA BackgroundRefines ==
  ASSUME IInv, Matches,
         \/ \E a \in AppAddrs : GoroutineStep(a)
         \/ TickStep \/ ReadApplications \/ Restart \/ UNCHANGED vars
  PROVE  Matches' /\ [Reg!Next]_Reg!vars
<1>1. \/ UNCHANGED <<listVars, callVars>>
      \/ \E cause \in States : Panic(cause)
  <2>1. ASSUME NEW a \in AppAddrs, GoroutineStep(a)
        PROVE  \/ UNCHANGED <<listVars, callVars>>
               \/ \E cause \in States : Panic(cause)
    BY <2>1 DEF GoroutineStep, UninstallLock, UninstallDone, LifeDone, LifeUnlock, States
  <2>2. CASE TickStep
    BY <2>2 DEF TickStep, TickStart, TickRepo, TickApp, TickRepoDone, TickWait, States
  <2>3. CASE ReadApplications
    BY <2>3 DEF ReadApplications, States
  <2>4. CASE Restart \/ UNCHANGED vars
    BY <2>4 DEF Restart, vars
  <2> QED BY <2>1, <2>2, <2>3, <2>4
<1>2. CASE UNCHANGED <<listVars, callVars>>
  BY <1>2, BackgroundQuiet
<1>3. CASE \E cause \in States : Panic(cause)
  BY <1>3, PanicEnds DEF Reg!Next
<1> QED BY <1>1, <1>2, <1>3

LEMMA StepRefines ==
  ASSUME IInv, Matches, [Next]_vars
  PROVE  Matches' /\ [Reg!Next]_Reg!vars
BY AddRefines, DeleteRefines, ApplicationRefines, CallRefines, BackgroundRefines
   DEF Next, CallerStep

LEMMA InitRefines ==
  ASSUME Init
  PROVE  Matches /\ Reg!Init
<1>1. NoReq.op = "none"
  BY DEF NoReq, Request
<1>2. Matches
  BY <1>1 DEF Init, Matches, CallMatches, AddLabels, DeleteLabels
<1>3. Registered = {}
  BY DEF Init, Registered, Settled
<1>4. Asked = [c \in Callers |-> Nil]
  BY <1>1 DEF Init, Asked
<1> QED BY <1>2, <1>3, <1>4 DEF Reg!Init

\* The handlers of AddRepository and DeleteRepository implement Registry with
\* any number of clients, repositories and applications: each changes the set
\* of repositories at most once and as it was asked to, whatever goes on
\* between its first look and its answer (server.go:20-74, handler.go:169-233).
THEOREM RegistryImplemented == Spec => ImplementsRegistry
<1>1. Init => Matches /\ Reg!Init
  BY InitRefines
<1>2. IInv /\ Matches /\ [Next]_vars => Matches' /\ [Reg!Next]_Reg!vars
  BY StepRefines
<1> QED BY <1>1, <1>2, Invariance, PTL DEF Spec, ImplementsRegistry, Reg!Spec
=============================================================================
