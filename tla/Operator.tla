------------------------------ MODULE Operator ------------------------------
(***************************************************************************)
(* The operator and the server together: the Reconcile loops of the two    *)
(* controllers (repository_controller.go, application_controller.go), the  *)
(* resources with their finalizers, and the requests they send.            *)
(*                                                                         *)
(* Each controller has one worker, but a request whose connection breaks   *)
(* is still handled while the worker repeats it: the handlers of server.go *)
(* do not look at their context.  The registry is what RepositoryHandler   *)
(* shows of it to callers who never update: which repositories are listed, *)
(* how often an application is, and which mutexes a deletion has left      *)
(* locked.  Two things outlive a request: the clean-up an uninstallation   *)
(* starts (raw.go:231-290), which the process that ends takes with it, and *)
(* the clone, on a volume that outlives the process.  An uninstallation by *)
(* Helm is over with the request; here it may also be later.  An update of *)
(* a resource, equal names and equal URLs are left out.                    *)
(***************************************************************************)
EXTENDS Naturals

CONSTANTS
  Repos, Apps,  \* resources, one URL for each Repository
  RepoOf,       \* the repository an Application's URL names
  Slots,        \* bound: handlers whose worker has gone on, at one time
  Scenarios,    \* what may happen in one behaviour: sets of events
  MaxMoves,     \* bound: what users do, failures, crashes
  None

Resources == Repos \cup Apps
Workers == {"repository", "application"}
Worker(x) == IF x \in Repos THEN "repository" ELSE "application"

ASSUME ResourcesAssumption ==
  /\ Repos \cap Apps = {}
  /\ RepoOf \in [Apps -> Repos]
  /\ Workers \cap Slots = {}
  /\ MaxMoves \in Nat

Requests ==
  [op : {"add", "delete"}, of : Resources,
   at : {"called", "holding", "scanned", "stale", "ok", "error"}]

ASSUME NoneAssumption == None \notin Requests

VARIABLES
  may,         \* a member of Scenarios, the same for ever
  moves,
  resource,    \* in the cluster: "gone", "new" without finalizer, "kept" with
               \* it, "deleting" with it and a deletion timestamp
  handler,     \* the request of a worker or an abandoned one, and how far it is
  registered,  \* repositories in RepositoryHandler.Repos
  entries,     \* how often an application is in its RepositoryConfig.Apps
  locked,      \* repositories whose mutex DeleteApplication has kept
  known,       \* applications listed with a revision: they were delivered
  installed,   \* applications that have something in the cluster
  cleaning,    \* clean-ups of an application that uninstallations have started
  clone        \* an application's directory: "none", "clone", or "partial",
               \* which is taken for a clone and cannot be checked out

worldVars == <<may, moves, resource>>
listVars == <<registered, entries, locked, known>>
clusterVars == <<installed, cleaning>>
serverVars == <<listVars, clusterVars, clone>>
vars == <<worldVars, handler, serverVars>>

Request(op, x, at) == [op |-> op, of |-> x, at |-> at]

Init ==
  /\ may \in Scenarios
  /\ moves = 0
  /\ resource = [x \in Resources |-> "new"]
  /\ handler = [k \in Workers \cup Slots |-> None]
  /\ registered = {}
  /\ entries = [a \in Apps |-> 0]
  /\ locked = {}
  /\ known = {}
  /\ installed = {}
  /\ cleaning = [a \in Apps |-> 0]
  /\ clone = [a \in Apps |-> "none"]

Move == moves < MaxMoves /\ moves' = moves + 1
Happens(event) == event \in may /\ Move /\ UNCHANGED may

-----------------------------------------------------------------------------
(***************************************************************************)
(* The users.                                                              *)
(***************************************************************************)
Create(x) ==
  /\ resource[x] = "gone"
  /\ Move /\ UNCHANGED may
  /\ resource' = [resource EXCEPT ![x] = "new"]
  /\ UNCHANGED <<handler, serverVars>>

Delete(x) ==
  /\ Happens(IF x \in Repos THEN "delete repository" ELSE "delete application")
  /\ resource[x] \in {"new", "kept"}
  /\ resource' = [resource EXCEPT ![x] = IF @ = "new" THEN "gone" ELSE "deleting"]
  /\ UNCHANGED <<handler, serverVars>>

-----------------------------------------------------------------------------
(***************************************************************************)
(* Reconcile.                                                              *)
(***************************************************************************)
\* Mutant: adds no finalizer.
SyncUnkept(x) ==
  /\ handler[Worker(x)] = None
  /\ resource[x] \in {"new", "kept"}
  /\ handler' = [handler EXCEPT ![Worker(x)] = Request("add", x, "called")]
  /\ UNCHANGED <<worldVars, serverVars>>

\* Mutant: does not come back after a minute.
SyncOnce(x) ==
  /\ handler[Worker(x)] = None
  /\ resource[x] = "new"
  /\ resource' = [resource EXCEPT ![x] = "kept"]
  /\ handler' = [handler EXCEPT ![Worker(x)] = Request("add", x, "called")]
  /\ UNCHANGED <<may, moves, serverVars>>

\* Add the finalizer if there is none, and send AddRepository or
\* AddOrUpdateApplication; every minute.
Sync(x) ==
  /\ handler[Worker(x)] = None
  /\ resource[x] \in {"new", "kept"}
  /\ resource' = [resource EXCEPT ![x] = "kept"]
  /\ handler' = [handler EXCEPT ![Worker(x)] = Request("add", x, "called")]
  /\ UNCHANGED <<may, moves, serverVars>>

Finalize(x) ==
  /\ handler[Worker(x)] = None
  /\ resource[x] = "deleting"
  /\ handler' = [handler EXCEPT ![Worker(x)] = Request("delete", x, "called")]
  /\ UNCHANGED <<worldVars, serverVars>>

\* The answer: after a successful deletion the finalizer is removed, an error
\* brings the resource back to the queue.
Return(w) ==
  /\ handler[w] # None /\ handler[w].at \in {"ok", "error"}
  /\ resource' = IF handler[w].op = "delete" /\ handler[w].at = "ok"
                   THEN [resource EXCEPT ![handler[w].of] = "gone"] ELSE resource
  /\ handler' = [handler EXCEPT ![w] = None]
  /\ UNCHANGED <<may, moves, serverVars>>

\* The finalizer cannot be removed, or the operator ends before that.
UpdateFails(w) ==
  /\ Happens("update")
  /\ handler[w] # None /\ handler[w].at = "ok" /\ handler[w].op = "delete"
  /\ handler' = [handler EXCEPT ![w] = None]
  /\ UNCHANGED <<resource, serverVars>>

\* The connection breaks or the operator ends: Reconcile is over, the handler
\* runs on unless it never started.
LoseCall(w) ==
  /\ Happens("lost call")
  /\ handler[w] # None /\ handler[w].at \notin {"ok", "error"}
  /\ \/ handler' = [handler EXCEPT ![w] = None]
     \/ \E s \in Slots : /\ handler[s] = None
                         /\ handler' = [handler EXCEPT ![s] = handler[w], ![w] = None]
  /\ UNCHANGED <<resource, serverVars>>

-----------------------------------------------------------------------------
(***************************************************************************)
(* The server.                                                             *)
(***************************************************************************)
\* Nobody waits for the answer of an abandoned handler.
Reached(k, at) == [handler[k] EXCEPT !.at = at]
Goto(k, at) ==
  handler' = [handler EXCEPT ![k] =
    IF k \in Slots /\ at \in {"ok", "error"} THEN None ELSE Reached(k, at)]

Handles(k, op, at, xs) ==
  /\ handler[k] # None
  /\ handler[k].op = op /\ handler[k].at = at /\ handler[k].of \in xs

\* RepositoryHandler.Mutex is taken by a DeleteRepository that waits.
MutexFree == \A k \in DOMAIN handler : handler[k] # None => handler[k].at # "holding"

AddRepository(k) ==
  /\ Handles(k, "add", "called", Repos)
  /\ handler[k].of \notin registered => MutexFree
  /\ registered' = registered \cup {handler[k].of}
  /\ Goto(k, "ok")
  /\ UNCHANGED <<worldVars, entries, locked, known, clusterVars, clone>>

\* What is not registered is an error, ErrRepositoryConfigNotFound.
FindRepository(k) ==
  /\ Handles(k, "delete", "called", Repos)
  /\ MutexFree
  /\ Goto(k, IF handler[k].of \in registered THEN "holding" ELSE "error")
  /\ UNCHANGED <<worldVars, serverVars>>

\* The handlers of application requests that have looked repository r up work on
\* an object that is no longer listed.
Outdated(h, r) ==
  IF h # None /\ h.of \in Apps /\ h.at = "scanned" /\ RepoOf[h.of] = r
    THEN [h EXCEPT !.at = "stale"] ELSE h

\* Uninstalling one listed application of each name in names, but where the
\* provider fails, which is only logged: a clean-up is started for what has a
\* revision.
Uninstall(names, failed) ==
  /\ failed # {} => "uninstall" \in may
  /\ known' = known \ names
  /\ cleaning' = [a \in Apps |->
       cleaning[a] + IF a \in (names \cap known) \ failed THEN 1 ELSE 0]

Listed(r) == {a \in Apps : RepoOf[a] = r /\ entries[a] > 0}

\* It uninstalls every application, and removes the clone then.
DeleteRepository(k) ==
  /\ Handles(k, "delete", "holding", Repos)
  /\ handler[k].of \notin locked
  /\ LET r == handler[k].of
         answered == IF k \in Slots THEN None ELSE Reached(k, "ok")
     IN  /\ registered' = registered \ {r}
         /\ entries' = [a \in Apps |-> IF RepoOf[a] = r THEN 0 ELSE entries[a]]
         /\ \E failed \in SUBSET Listed(r) :
              /\ Uninstall(Listed(r), failed)
              /\ clone' = [a \in Apps |->
                   IF a \in Listed(r) \ failed THEN "none" ELSE clone[a]]
         /\ handler' = [j \in DOMAIN handler |->
              IF j = k THEN answered ELSE Outdated(handler[j], r)]
  /\ UNCHANGED <<worldVars, locked, installed>>

\* Mutant: does not look for the application.
FindForAddBlind(k) ==
  /\ Handles(k, "add", "called", Apps)
  /\ Goto(k, IF RepoOf[handler[k].of] \notin registered THEN "error" ELSE "scanned")
  /\ UNCHANGED <<worldVars, serverVars>>

\* AddOrUpdateApplication finds no repository, the application, or neither.
FindForAdd(k) ==
  /\ Handles(k, "add", "called", Apps)
  /\ LET a == handler[k].of
     IN  Goto(k, IF RepoOf[a] \notin registered THEN "error"
                 ELSE IF entries[a] > 0 THEN "ok" ELSE "scanned")
  /\ UNCHANGED <<worldVars, serverVars>>

\* NewApplication has opened the clone or made it.
Cloned(a) ==
  /\ clone[a] # "partial"
  /\ clone' = [clone EXCEPT ![a] = "clone"]

\* Mutant: TryLock is deferred where Unlock is meant, as in DeleteApplication.
AddApplicationLocked(k) ==
  /\ Handles(k, "add", "scanned", Apps)
  /\ RepoOf[handler[k].of] \notin locked
  /\ Cloned(handler[k].of)
  /\ entries' = [entries EXCEPT ![handler[k].of] = @ + 1]
  /\ locked' = locked \cup {RepoOf[handler[k].of]}
  /\ Goto(k, "ok")
  /\ UNCHANGED <<worldVars, registered, known, clusterVars>>

AddApplication(k) ==
  /\ Handles(k, "add", "scanned", Apps)
  /\ RepoOf[handler[k].of] \notin locked
  /\ Cloned(handler[k].of)
  /\ entries' = [entries EXCEPT ![handler[k].of] = @ + 1]
  /\ Goto(k, "ok")
  /\ UNCHANGED <<worldVars, registered, locked, known, clusterVars>>

\* Appended to a list nobody reads any more, and answered OK.
AddApplicationLost(k) ==
  /\ Handles(k, "add", "stale", Apps)
  /\ Cloned(handler[k].of)
  /\ Goto(k, "ok")
  /\ UNCHANGED <<worldVars, listVars, clusterVars>>

\* The handlers that may be cloning application a at this moment.
Cloners(a) ==
  {k \in DOMAIN handler : \E at \in {"scanned", "stale"} : Handles(k, "add", at, {a})}

\* NewApplication finds a directory that has a repository and nothing to check
\* out: a clone that was cut off, or that somebody else is making.
AddRefused(k) ==
  /\ Handles(k, "add", "scanned", Apps) \/ Handles(k, "add", "stale", Apps)
  /\ LET a == handler[k].of
     IN  \/ clone[a] = "partial"
         \/ clone[a] = "none" /\ Cloners(a) # {k}
  /\ Goto(k, "error")
  /\ UNCHANGED <<worldVars, serverVars>>

\* NewApplication fails before it has a clone (a directory it made is removed)
\* or after that; or NewRepositoryConfig.
AddFails(k) ==
  /\ Happens("add")
  /\ \/ Handles(k, "add", "scanned", Apps) /\ (Cloned(handler[k].of) \/ UNCHANGED clone)
     \/ Handles(k, "add", "called", Repos) /\ UNCHANGED clone
  /\ Goto(k, "error")
  /\ UNCHANGED <<resource, listVars, clusterVars>>

\* Mutant: does not look for the application.
FindForDeleteBlind(k) ==
  /\ Handles(k, "delete", "called", Apps)
  /\ Goto(k, IF RepoOf[handler[k].of] \in registered THEN "scanned" ELSE "ok")
  /\ UNCHANGED <<worldVars, serverVars>>

\* DeleteApplication of what is not there is OK.
FindForDelete(k) ==
  /\ Handles(k, "delete", "called", Apps)
  /\ LET a == handler[k].of
     IN  Goto(k, IF RepoOf[a] \in registered /\ entries[a] > 0 THEN "scanned" ELSE "ok")
  /\ UNCHANGED <<worldVars, serverVars>>

\* It keeps the repository's mutex, and the clone.  When DeleteRepository was
\* faster (at is "stale"), that one keeps the application's, and this handler
\* never ends.
DeleteApplication(k) ==
  /\ Handles(k, "delete", "scanned", Apps)
  /\ LET a == handler[k].of
     IN  /\ RepoOf[a] \notin locked
         /\ locked' = locked \cup {RepoOf[a]}
         /\ entries' = [entries EXCEPT ![a] = @ - 1]
         /\ \E failed \in SUBSET {a} : Uninstall({a}, failed)
  /\ Goto(k, "ok")
  /\ UNCHANGED <<worldVars, registered, installed, clone>>

\* Mutant: what carries the last revision stays, as in the clean-up after a
\* delivery.
CleanUpOthers(a) ==
  /\ cleaning[a] > 0
  /\ cleaning' = [cleaning EXCEPT ![a] = @ - 1]
  /\ UNCHANGED <<worldVars, handler, listVars, installed, clone>>

\* A clean-up deletes what carries the application's name, who ever made it.
CleanUp(a) ==
  /\ cleaning[a] > 0
  /\ cleaning' = [cleaning EXCEPT ![a] = @ - 1]
  /\ installed' = installed \ {a}
  /\ UNCHANGED <<worldVars, handler, listVars, clone>>

\* A List or a Delete of it fails, which is only logged.
CleanUpFails(a) ==
  /\ "uninstall" \in may
  /\ cleaning[a] > 0
  /\ cleaning' = [cleaning EXCEPT ![a] = @ - 1]
  /\ UNCHANGED <<worldVars, handler, listVars, installed, clone>>

\* A life cycle delivers; the check passes over a repository that is locked.
Deliver(a) ==
  /\ MutexFree
  /\ entries[a] > 0 /\ RepoOf[a] \in registered \ locked
  /\ known' = known \cup {a}
  /\ installed' = installed \cup {a}
  /\ UNCHANGED <<worldVars, handler, registered, entries, locked, cleaning, clone>>

\* The handlers that may be uninstalling application a at this moment.
Uninstallers(a) ==
  {k \in DOMAIN handler : /\ entries[a] > 0 /\ RepoOf[a] \notin locked
                          /\ \/ Handles(k, "delete", "scanned", {a})
                             \/ Handles(k, "delete", "holding", {RepoOf[a]})}

\* The applications whose clone is being made, or removed by DeleteRepository.
InFlux ==
  {a \in Apps : \/ clone[a] = "none" /\ Cloners(a) # {}
                \/ \E k \in Uninstallers(a) : handler[k].at = "holding"}

\* The registry is in memory only, requests under way fail, and clean-ups end.
\* A directory that is being made or removed stays as it is, and what is being
\* uninstalled may be gone.
Restart ==
  /\ Happens("restart")
  /\ registered' = {}
  /\ entries' = [a \in Apps |-> 0]
  /\ locked' = {}
  /\ known' = {}
  /\ \E done \in SUBSET {a \in Apps : Uninstallers(a) # {}} : installed' = installed \ done
  /\ cleaning' = [a \in Apps |-> 0]
  /\ \E cut \in [InFlux -> {"none", "partial", "clone"}] :
       clone' = [a \in Apps |-> IF a \in DOMAIN cut THEN cut[a] ELSE clone[a]]
  /\ handler' = [k \in DOMAIN handler |->
       IF handler[k] # None /\ handler[k].at \in {"ok", "error"} THEN handler[k] ELSE None]
  /\ UNCHANGED resource

-----------------------------------------------------------------------------
UserStep(x) == Create(x) \/ Delete(x)
Reconcile(x) == Sync(x) \/ Finalize(x)

Handle(k) ==
  \/ AddRepository(k)
  \/ FindRepository(k) \/ DeleteRepository(k)
  \/ FindForAdd(k) \/ AddApplication(k) \/ AddApplicationLost(k) \/ AddRefused(k)
  \/ FindForDelete(k) \/ DeleteApplication(k)

Next ==
  \/ \E x \in Resources : UserStep(x) \/ Reconcile(x)
  \/ \E w \in Workers : Return(w) \/ UpdateFails(w) \/ LoseCall(w)
  \/ \E k \in DOMAIN handler : Handle(k) \/ AddFails(k)
  \/ \E a \in Apps : Deliver(a) \/ CleanUp(a) \/ CleanUpFails(a)
  \/ Restart

Spec == Init /\ [][Next]_vars

\* A controller's queue is fair to its resources, its resync brings each back
\* every minute, handlers and clean-ups are scheduled.  A check starts when the mutex is
\* free; it is free for most of the time when it is free again and again.
Fairness ==
  /\ \A x \in Resources : SF_vars(Reconcile(x))
  /\ \A w \in Workers : WF_vars(Return(w))
  /\ \A k \in Workers \cup Slots : WF_vars(Handle(k))
  /\ \A a \in Apps : SF_vars(Deliver(a)) /\ WF_vars(CleanUp(a))

FairSpec == Spec /\ Fairness

-----------------------------------------------------------------------------
(***************************************************************************)
(* Properties.                                                             *)
(***************************************************************************)
TypeOK ==
  /\ may \in Scenarios
  /\ moves \in 0..MaxMoves
  /\ resource \in [Resources -> {"gone", "new", "kept", "deleting"}]
  /\ handler \in [Workers \cup Slots -> Requests \cup {None}]
  /\ \A w \in Workers : handler[w] # None => Worker(handler[w].of) = w
  /\ registered \subseteq Repos
  /\ entries \in [Apps -> Nat]
  /\ locked \subseteq registered
  /\ known \subseteq Apps
  /\ installed \subseteq Apps
  /\ cleaning \in [Apps -> Nat]
  /\ clone \in [Apps -> {"none", "partial", "clone"}]

\* No process ends, no connection breaks and no uninstallation or clean-up fails.
Undisturbed == may \cap {"restart", "lost call", "uninstall"} = {}

\* An Application that has left the cluster has left the server too, and a
\* clean-up is under way for whatever of it is installed, although deletions of
\* its repository and its own race and requests for it may meet a repository
\* object that is no longer listed (application_controller.go:67-88): as long as
\* nothing of the above disturbs it.  That nothing is installed any more when
\* the finalizer goes is not so: Uninstall does not wait (raw.go:231-290).
GoneIsUninstalled ==
  Undisturbed =>
    \A a \in Apps : resource[a] = "gone" =>
      entries[a] = 0 /\ (a \in installed => cleaning[a] > 0)

\* In the end nothing of it is installed, unless it is created again: no clean-up
\* comes too early for a delivery, and an uninstallation that starts none has
\* nothing to remove (raw.go:199-201).
GoneGetsUninstalled ==
  \A a \in Apps : Undisturbed /\ resource[a] = "gone"
    ~> resource[a] # "gone" \/ a \notin installed

\* The operator never has an application listed twice as long as no call is
\* lost: AddOrUpdateApplication does not look again when it appends
\* (repository.go:200-219).
ListedOnce == "lost call" \notin may => \A a \in Apps : entries[a] <= 1

\* An application whose resource and whose repository's resource are there gets
\* registered and delivered in the end, whatever restarts, lost calls, failures
\* and deletions of repositories came before: as long as no Application is
\* deleted, which leaves mutexes locked, and unless a restart has cut its clone
\* off, which no later NewApplication can open (repository.go:118-143).
Delivered ==
  <>[]("delete application" \notin may =>
       \A a \in Apps :
         resource[a] = "kept" /\ resource[RepoOf[a]] = "kept" /\ clone[a] # "partial" =>
           RepoOf[a] \in registered /\ entries[a] > 0 /\ a \in installed)

\* A Repository that was synced and is deleted goes away, whatever requests for
\* its applications are under way: DeleteRepository answers, and answers OK.  A
\* second deletion would be refused, so nothing may fail in between
\* (repository_controller.go:71-88).
RepositoryGoes ==
  \A r \in Repos : resource[r] = "deleting" /\ may \subseteq {"delete repository"}
    ~> resource[r] = "gone"
=============================================================================
