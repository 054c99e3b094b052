# TLA+ models of dummy-cd

dummy-cd is a small continuous-delivery system: a gRPC server clones git
repositories and delivers what it finds there to a Kubernetes cluster, as raw
resources or as a helm release; an operator turns `Repository` and `Application`
custom resources into requests to that server. This directory holds TLA+ modules
translated from the Go sources, the TLC configurations that check them on small
instances, and proofs about them for every size.

## The system

| component | source | state | operations | talks to |
|---|---|---|---|---|
| registry and request handlers | `server/pkg/server/server.go`, `server/pkg/instance/handler.go`, `repository.go` | `h.Repos`, `r.Apps` (slices of pointers), one mutex each for the handler, a repository, an application | AddRepository, DeleteRepository, AddOrUpdateApplication, DeleteApplication, GetApplications, GetApplicationRevisions (each request is a goroutine) | check loop (shared memory and mutexes), applications |
| check loop | `handler.go` `Handle` | a ticker, a WaitGroup | every minute, one `RunLifeCycle` goroutine per application that is not busy | registry, applications |
| application life cycle | `server/pkg/instance/application.go` | the clone on disk, `CurrentRevision`, the provider | NewApplication, RunLifeCycle, Uninstall | git remote, delivery provider |
| raw provider | `server/pkg/provider/raw.go` | the resources read from the clone, the revision label, a mutex held while a clean-up starts | Delivery (one goroutine per resource), Uninstall, asynchronous cleanResources | Kubernetes API |
| helm provider | `server/pkg/provider/helm.go` | action options, the release in the cluster | Delivery (install, upgrade, reinstall), Uninstall | helm storage |
| operator | `operator/controllers/*.go`, `operator/main.go` | custom resources and their finalizers | Reconcile of a Repository and of an Application, with retries | server (gRPC), Kubernetes API |
| generated code, wiring | `server/pkg/pb`, `zz_generated.deepcopy.go`, `main.go`, `util` | none of their own | | |

What is hard: every mutex is taken by a loop around `TryLock`; the slices are
scanned without their mutex and appended to with it; one goroutine takes a mutex
and another one, or nobody, gives it back; any nil dereference or a negative
WaitGroup counter ends the process, and the registry is only in memory; git and
cluster calls fail half-way; clean-ups run on after the mutex that was meant to
keep them apart is free again.

What makes each part correct:

- **Registry.** No two repositories of one URL; an index that was looked up is
  still right when it is used; every slot holds an object; a removed
  application is not delivered again; at most one goroutine works on an
  application and in its clone; every request is answered and every check ends.
- **Application life cycle.** The provider is told the revision of the files it
  will find; a revision is only taken from a branch that stands where the last
  fetch saw the remote; once nobody pushes any more, the application gets to the
  head, whatever failed or crashed on the way.
- **Raw provider.** Nothing is written to the cluster outside a life cycle; the
  cluster ends up with the resources of the working tree and no others, although
  clean-ups overlap with later deliveries; an uninstallation leaves nothing.
- **Helm provider.** The release found in the cluster, its only memory, has the
  contents its description says; the head of the remote gets deployed although
  installations and upgrades fail; an uninstallation leaves no record, not even
  of a former process.
- **Operator.** A finalizer goes only when the server no longer lists what it
  guards and is uninstalling it, and the uninstallation comes to its end; a resource
  that exists is known to the server and delivered in the end; nothing is registered
  twice; a deleted resource can go.

## The modules

| module | models | its state | its actions |
|---|---|---|---|
| `RepositoryHandler` | `handler.go`, `server.go`, the requests of `repository.go` | the handler's mutex, `h.Repos` and each `r.Apps` as a backing array and a length, the objects by address with their mutexes, the control and the locals of every handler, the check loop, the WaitGroup, the life cycles and the uninstallations | one per step between two points where another goroutine can be seen |
| `Registry` | what AddRepository and DeleteRepository promise: the specification that `RepositoryHandler` implements | the registered repositories, the request of each client | ask, add, refuse, remove, not found, the end of the process |
| `RegistryRefinement` | the refinement mapping, `RepositoryHandler` to `Registry` | | |
| `Application` | `application.go`, `NewGitRepository` | where the remote, the remote-tracking reference, the branch and the files stand, what is on the disk, `CurrentRevision`, and where the holder of the mutex is | one per outcome of a git or provider call |
| `RawProvider` | `raw.go` | what was read from the files, the revision label, the goroutines of a delivery and of clean-ups, the cluster | one per cluster call or phase of Delivery, cleanResources and Uninstall |
| `RawDelivery` | an application with raw resources: extends `Application`, instantiates `RawProvider` on its working tree and `CurrentRevision` | the variables of both | the steps of either alone, and those both take part in |
| `HelmProvider` | `helm.go`, and what helm's actions do with release records | the loaded chart, the newest record and the one a rollback goes back to, the action of helm that runs, the options | one per decision of Delivery and Uninstall and per outcome of an action of helm |
| `HelmDelivery` | an application with a chart: extends `Application`, instantiates `HelmProvider` | the variables of both | as `RawDelivery` |
| `Operator` | `repository_controller.go`, `application_controller.go` and the server as they meet it | the resources with their finalizers, the request of each worker, abandoned requests, the server's lists, its leaked mutexes, the clones, what is installed and the clean-ups under way | users, Reconcile, its answers, each handler between two places where another can come in, life cycles, clean-ups, restarts |
| `...Proofs` | theorems about the module of that name (`RegistryProofs`: about the refinement; `SlotProofs`, `WorkProofs`: about the slots of `RepositoryHandler`, and about who works and who waits in it) | | |
| `MC...` | constants of the runs | | |

The same application is seen at three levels. `RepositoryHandler` is about who
may work on it; `Application`, `RawDelivery` and `HelmDelivery` are about what is
done by the one who may: `pc` of `Application` is the position of the goroutine
that holds the application's mutex, and `AppExclusive`, proved for the registry,
is what allows one `pc`. `Operator` is about who asks for it, and takes from
`RepositoryHandler` what a client that never updates can tell of the server.

### RepositoryHandler

Each request is a caller's handler that goes through labels (`pc`), named after
the method and the place: `AddRepository`, `addRepoLock`, `addRepoNew`,
`addRepoStore`, and so on. A `TryLock` loop is an action guarded by the mutex being
free; everything done under the mutexes that nobody can see in between is one
action; everything that reads a slice without its mutex is an action of its own.
An `append` is two actions, the longer length and then the element, so that an
unlocked scan can meet an empty slot. `AddOrUpdateApplication` reads the slot its scan
has found a second time, again without the mutex, for the comparison
(`repository.go:224`): that is `AddOrUpdateCompare`, and a deletion in between may have
made the slice shorter. That index, the dereference of an empty slot, the nil slot of a
failed update and a WaitGroup counter that would be negative are the action `Panic`,
after which `Restart` finds an empty registry. `Nil` in a slot is a nil pointer.
`DeleteApplication` keeps the mutexes it takes, because its deferred calls are
`TryLock` again (`repository.go:272`, `277`), and the model keeps them too.
An application object nobody refers to becomes a free address again.

The two requests that only read are one action, `ReadApplications`, for the panic
they can meet. Keys, options and everything else the request carries are one
value of `Settings`, what `cmp.Equal` compares.

### Application

A commit is a number, `History` says what a commit's log lists, `Touching` which
commits the path filter keeps. `HeadRevision(c)` is `getApplicationHeadRevision`:
the newest of them or zero. `Clone`, `Fetch`, `ResetSparsely`, `Pull` and
`Checkout` are what go-git does to the three references of a clone. A failed
call leaves what it may have changed half-way: `ResetFails` may have moved the
branch but not the files, `PullFails` the references but not the files. `Pull`
fetches again, and so meets what was pushed since `Fetch`: it follows the branch
(`PullUpdates`), or moves the remote-tracking reference and then refuses, because a
force-push has left the local branch behind (`PullNotFastForward`,
`application.go:220`), or finds only something else new (`PullOther`).

`MayHappen` says what can go wrong in a run: the names of calls that fail
(`"clone"`, `"fetch"`, `"reset"`, `"pull"`, `"checkout"`, `"provider"`,
`"deliver"`, `"clean"`, `"uninstall"`), `"delete"` for deletions of the resource, `"crash"`
for the end of the process. Two outcomes that the code does not recover from are
named apart, so that a run can show what holds without them: `"crash in clone"`, a
process that ends in the middle of its first clone, and `"late failure"`, a
reset, pull or checkout that fails although there is a revision already.

### RawProvider and RawDelivery

A resource of the cluster is its revision label with the version of the file it was
written from; `Foreign` is a resource without our labels. A `Delivery` starts a
goroutine per resource (`todo`) and waits for them; then a clean-up starts while
the next life cycle may begin, reads `CurrentRevision` through a pointer when it
runs, and starts a goroutine per kind that first lists and then deletes by name
(`Cleaner`). A resource has its own kind, so one goroutine has one resource.
`CleanResourcesTorn` is the data race on `CurrentRevision`: a read in the middle of
its assignment gives a hash that no resource carries. `Panic` is
`NewUnstructuredResource` on a resource file of a subdirectory, which
`FindFilesWithRegex` finds and `ReadFile` does not.

### HelmProvider and HelmDelivery

A release is its newest record: a status, the revision that `Delivery` writes into
the description of the chart (`helm.go:191`), and the commit the chart was loaded
from. What the helm library does to records is external: a pending record before
it touches the cluster and the outcome afterwards, an uninstallation of a failed
atomic install, a rollback of a failed atomic upgrade, which is a new record of the
old chart (`base`). `work` is the action under way, in which the process may end.
`Delivers` is the code's decision that there is nothing to do: the description is
the revision, or `CheckValuesEqual` finds the defaults of the release's chart equal to
the value files. Which options an application has and which calls may fail are
variables that never change: a behaviour picks them at its start, so one run
covers all combinations. They may not change because no request changes them:
`cmp.Equal` ignores `HelmProvider` (`repository.go:224`).

### Operator

A controller has one worker, so `handler` has one request for each, and `Slots` for
requests whose connection broke and whose handler runs on. `at` is how far the handler
is: between the lookup of an application and the append nobody looks again
(`"scanned"`), and a handler whose repository was removed meanwhile works on an
object nobody lists (`"stale"`). `locked` are the repositories whose mutex
`DeleteApplication` has kept. An uninstallation starts a clean-up if the application is
`known`, that is, listed with a revision, and answers; `cleaning` counts the clean-ups that
run on, one of which deletes all that is `installed` (`CleanUp`) or fails, which is only
logged (`CleanUpFails`). `clone` is the directory of the application, on a volume that
outlives the process: a restart leaves a clone that was being made or removed in any
state (`InFlux`), and `AddRefused` is the addition that meets one that was cut off, or
one that another request is making. `may` is the scenario of a behaviour, like `faults`
above, so that each property can say under which events it holds.

### Registry

`Registered` is what the settled slots of `h.Repos` hold: an added repository
counts from the moment its slot is stored, a deleted one until its slot is
overwritten. `Asked` is the repository request of each client. Everything else
that `RepositoryHandler` does must be invisible.

## The runs

States are distinct states; times are with two workers, and include liveness checking.

| run | configuration | shows | bounds | states |
|---|---|---|---|---|
| `registry` | `RepositoryHandler.cfg` | `TypeOK`; `UniqueURL`; `RemovalIndexValid`: the index found before the waits is still right; `StorageExclusive`: no two goroutines in the clone of one name, except for repositories of different URLs; `LifeRegistered`: a removed application is not delivered again; `ImplementsRegistry` | two clients of repositories and one of applications, every request, 2 repository names, 2 URLs, 1 application name, 2 settings, 2 repository and 2 application objects | 700 000, 102 s |
| `applications` | `RepositoryHandlerClients.cfg` | `AppExclusive`: one goroutine per application; `UpdateIndexValid`: the index of an unlocked scan still is a good slot when it is used under the mutex, and before that unless a deletion has left the mutex locked; `NoDeadlock`: nobody waits in a circle | one client of repositories, two of applications, 2 application names, 2 settings, 3 application objects | 3 260 000, 160 s |
| `calls` | `RepositoryHandlerCalls.cfg` | `CallsReturn`: a request is answered unless a deletion has left a mutex locked; `TickFinishes`: a check that started ends, although deletions leak mutexes | one client of repositories and two of applications, every request, 2 application objects | 95 000, 125 s |
| `clone` | `Application.cfg` | `TypeOK`, `DeliversWorktree`, `NewRevisionIsFetched`; `FollowsUnlessLeftBehind`: the application gets to the head, unless its last Pull met a force-push | 5 commits: a line of three, a force-push, an orphan without the path; 4 moves | 9 700, 12 s |
| `raw_delivery` | `RawDelivery.cfg` | `RawTypeOK`; `DeliveryUnderMutex`: resources are written inside a life cycle only, with its revision | 3 commits, 2 resources, 2 clean-ups at a time, everything in `MayHappen`, 2 moves | 956 000, 21 s |
| `raw_converges` | `RawDeliveryConverges.cfg` | `Converges`, `UninstallCleans` | 2 commits, 2 resources, 1 clean-up at a time, failing cluster calls, crashes, deletions, 2 moves | 32 000, 54 s |
| `helm` | `HelmDelivery.cfg` | `HelmTypeOK`; `ReleaseIsItsRevision`; `HelmConverges`: the head gets deployed; `HelmUninstallCleans` | 3 commits (a line of two, and one without the chart), all 8 options, 4 sets of faults, 3 moves | 98 000, 46 s |
| `operator` | `Operator.cfg` | `TypeOK`; `GoneIsUninstalled`: what is gone is not listed, and is being uninstalled if it is there; `GoneGetsUninstalled`: then it is not there; `ListedOnce`; `Delivered`; `RepositoryGoes` | 1 repository, 2 applications, 1 abandoned request, 4 scenarios, 3 moves | 172 000, 170 s |
| `nil_slot` | `RepositoryHandlerNil.cfg` | `NoNilApps` is violated | | |
| `delete_twice` | `RepositoryHandlerDelete.cfg` | `DeleteCompletes` is violated | | |
| `failed_reset` | `ApplicationReset.cfg` | `FollowsUpstream` is violated with one late failure | | |
| `stale_files` | `RawDeliveryStale.cfg` | `Synced` is violated with one push | | |

### Why the bounds are enough

`RepositoryHandler`: the races of the code are between two requests, or a request
and the check loop, about one repository, one application and their neighbours in
the slices. Two clients and two or three slots are what every guard in the code can tell
apart: a removed last slot, a slot that another one was moved into, a slot that
was replaced, an index beyond the end. `MaxRepos` and `MaxApps` are
the slots of a slice; a client that would exceed them waits before its append. A
third object is needed for an update that races with another update, and
`applications` has it. Objects are interchangeable until they are allocated, and
so are the clients of repositories and the names, which no property compares with a
constant: the safety runs use this symmetry, the liveness runs do not. The
properties that need two repositories are asked with two clients of repositories,
those about the slots of one repository with two clients of applications; together
the two are too many states, and the theorems close the gap.

`Application`: `MaxMoves` counts pushes, crashes, deletions and fetches that
bring only a tag. Failures are not counted. Four moves allow, for
example, a push, a crash, a force-push and a deletion in any order.

`RawDelivery`: two clean-ups at a time are the least that lets a late clean-up
of an old revision meet one of the current revision; a further one waits for a
free slot of `Cleaners` before it starts, which the code does not: that is the
bound. Liveness is checked with one clean-up, which
still overlaps with later deliveries. It also holds with three moves (three minutes).

`HelmDelivery`: commit 1 and 2 differ in defaults and values so that each answer of
`CheckValuesEqual` occurs, right and misleading, and a force-push to a commit without
the chart is the one history with which a clone cannot be delivered. Three moves
are, for example, a crash at work, a deletion and a push. The sets of faults range
from a loader that fails to everything at once.

`Operator`: two applications of one repository are the least that can race in its list
and for its mutex, and one abandoned request is enough to be overtaken by the
next. Three moves allow a deletion, a restart and a re-creation. A move is
a step of a user, a failure or a restart; failing uninstallations and clean-ups are not
counted. The four scenarios are deletions of the repository alone, for
`RepositoryGoes`; of both kinds of resource, with additions and updates of a finalizer
that fail, for the two properties of what is gone; of the repository, with everything
that can fail, for `Delivered`; and of applications, with restarts, which alone free the
mutexes that these deletions leak.

`CHECK_DEADLOCK FALSE` stands in every configuration: the models really stop.
In the registry the mutexes that `DeleteApplication` leaks stop every handler and the
objects run out; in the others the moves run out and everything is deleted, or, in
`Operator`, a leaked mutex stops the worker.

### Fairness

`RepositoryHandler`: strong fairness of each handler's next step and of each
goroutine. The Go scheduler runs every goroutine, and a loop around `TryLock` that
tries for ever meets a mutex that is free again and again; without this a handler
could be passed over for ever, which is a matter of scheduling and not of this
code. A tick that finds the handler's mutex taken does nothing
(`handler.go:57`), so the start of a check gets no fairness, only its end.
`Restart` is weakly fair: `restartPolicy: Always`.

`Application` and `RawDelivery`: the operator asks for every application again
each minute (`application_controller.go:119`) and the check loop comes round
each minute, so what failed is tried again; strong fairness of the successful
outcome says that no call fails for ever. There is no fairness on failures,
crashes, pushes or deletions. A call that never returns (the git calls have no
timeout) is not modelled. `HelmDelivery` adds strong fairness of what ends a
Delivery well: no call of helm fails for ever, where `faults` allows it to fail at all.

`Operator`: strong fairness of Reconcile of each resource, since controller-runtime's
queue is fair, an error requeues and success requeues after a minute
(`repository_controller.go:111`); weak fairness of each handler and each answer;
strong fairness of a life cycle, since the check loop tries every minute; weak
fairness of a clean-up, whose goroutines are scheduled and whose calls are answered:
it ends with its work done where nothing lets it fail. No fairness of users, lost calls,
failures and restarts.

## What the code does otherwise than it says

Each has a run with a counterexample:

1. `nil_slot`: an update whose `NewApplication` fails leaves nil in `r.Apps`
   (`repository.go:244`); the next scan ends the process.
2. `delete_twice`: `DeleteApplication` defers `TryLock` for `Unlock`
   (`repository.go:272`, `277`): after one deletion the repository is locked for
   good.
3. `failed_reset`: a reset that fails after the fetch is never made up for, since the
   next fetch has nothing new (`application.go:145`, `198`). Without any failure a
   force-push between the fetch and the pull has the same effect (`application.go:220`):
   `FollowsUnlessLeftBehind` and `HelmConverges` name it (`LeftBehind`).
4. `stale_files`: the first delivery labels files read by `NewRawProvider` with a
   revision fetched afterwards (`raw.go:370`), and the label then keeps them.

The models reach more that no run is about, because no doc or comment promises
otherwise. In the registry:

- two requests to add one application list it twice (`repository.go:219`);
- an update that waits for an application which `DeleteRepository` is
  uninstalling is never answered (`handler.go:213`), and `DeleteRepository`
  itself waits for ever for a mutex that `DeleteApplication` leaked
  (`handler.go:201`), with the handler's mutex held; `CallsReturn` names these
  mutexes (`Abandoned`) and shows that nothing else stops a request;
- an update compares the settings at the index of its scan (`repository.go:224`) after
  a deletion may have shortened the slice: the index is out of range and the process ends;
- applications of one name in two repositories share one directory
  (`application.go:49`), and nothing keeps their life cycles, updates and
  uninstallations apart in it; `StorageExclusive` leaves exactly them out;
- one busy application makes the WaitGroup counter negative or ends the wait
  early (`handler.go:77`).

In the application and the raw provider:

- a clone that the end of the process interrupted can never be used again
  (`repository.go:120`);
- a clone of a commit without the chart or the resource files is opened again and
  again, but nothing fetches before the provider could be made
  (`application.go:83`): the application is not delivered even after the path was
  pushed (`Chartless`);
- an uninstallation before the first delivery of a process does nothing
  (`raw.go:199`), and neither does the deletion of an application the server
  has lost (`repository.go:266`), though both are answered OK;
- resource files in subdirectories end the process (`utils.go:74`, `raw.go:50`);
- a clean-up may use a revision that is not yet delivered, or half of one
  (`raw.go:221`): it deletes what the next delivery creates again.

In the helm provider:

- a release that failed without the atomic option carries the revision already and is
  skipped as "already exist" (`helm.go:314`); so does the pending record of a
  process that ended at work, and once the revision moves on, helm refuses to upgrade it;
- a rollback that fails twice leaves a failed record of an older chart, and what a
  failed uninstallation leaves behind blocks the next installation;
- `CheckValuesEqual` compares the defaults of the deployed chart with the merged value
  files (`helm.go:322`), so a new chart with the right values file is not delivered;
- a change of helm options alone never reaches the application (`repository.go:224`).

In the operator with the server:

- a Repository whose `AddRepository` failed, or whose deletion was answered but whose
  finalizer could not be removed, or which the server has lost in a restart when it is
  deleted, can never be deleted: the server answers `ErrRepositoryConfigNotFound` for
  ever (`repository_controller.go:79`); `RepositoryGoes` shows that it goes when nothing
  fails in between;
- an Application deleted together with its repository, or after another one of it,
  hangs the only worker of its controller (`application_controller.go:71`);
- an uninstallation answers when its clean-up has started (`raw.go:358`): the finalizer
  goes while the application is still installed, and for good when the clean-up fails,
  which is only traced, or the process ends (`raw.go:231-290`); `GoneIsUninstalled` and
  `GoneGetsUninstalled` are about behaviours without either;
- a restart during the first clone leaves a directory that no later addition can open
  (`repository.go:118-143`), since its volume outlives the container: the application is
  never delivered again, which `Delivered` leaves out;
- the handler of a lost `AddOrUpdateApplication` may finish after its repetition, or
  after the deletion: the application is listed twice, or stays for ever.

## The proofs

`tlapm` checks every obligation of the `...Proofs` modules. The theorems hold for
every value of the constants that meets the modules' assumptions.

**Registry** (`RepositoryHandlerProofs`), from `DisjointAssumption` (clients,
objects, their contents and the names of other lock holders are different things) and
`BoundAssumption` (the bounds are naturals):

| theorem | says |
|---|---|
| `TypeCorrect` | `Spec => []TypeOK` |
| `URLsUnique` | `Spec => []UniqueURL` |
| `RemovalIndexCorrect` | `Spec => []RemovalIndexValid` |
| `ApplicationMutex` | `Spec => []AppExclusive` |

None of these is inductive. `UniqueURL` fails to be, for example, because a state in
which a handler is about to store its repository without holding the mutex satisfies
it. The invariant `IInv` therefore says for every label which mutexes
the handler holds there (`LocksHeld`), which of its pointers are known and which
object is still its own (`RepoKnown`, `AppKnown`), what it has checked
(`Appending`), and which index it may use (`RemovalIndex`, `AppIndex`); then the same
of the check loop and of the goroutines (`CheckInv`, `GoroutineInv`), and which
slots may be empty (`RegistryInv`). `AppIndex` has one surprise: an index of an
unlocked scan may have become too large, and then only because a deletion has
leaked the repository's mutex (`LeakedRepos`): the handler reads the slot with it once
more, where it may panic, and never gets the mutex under which it would use it again.

The steps are proved by rely and guarantee. `Keeps(w)` says that a step leaves what
`w` has locked; `StableCaller` shows once that a handler which does not move keeps what
it knows under every step that keeps its locks, the configurations, its new object
and the indexes; `CallerStepInv` and its like turn this into `IInv'`. What
is left for an action is what it does to its own handler and that it keeps what
the others rely on.

**Slots** (`SlotProofs`), from the same assumptions: `UpdateIndexCorrect`,
`Spec => []UpdateIndexValid`: from the scan to the mutex the index is that of an empty
slot or of the application unless a deletion has leaked the mutex, and under the
mutex it always is. `IInv` bounds the indexes of the unlocked scans and knows
nothing of what is in the slots. `SInv` adds that an object is in one slot at most, has
not become garbage, and that there is nothing behind the last slot of a slice whose
mutex can still be taken (`ListInv`; after a removal each slot holds what one slot held
before, `SlotOrigin`); that an object which is in no slot belongs to one
handler (`OwnInv`); and what a handler knows of the slot it has found (`SlotInv`). One
conjunct of it shows where the code is close to failing: nobody appends to the slot an
update has found, because a scan that meets the unfilled slot panics. The steps are
proved like the others: `StableSlot` asks of a step of another handler that every slot
keeps its application, gets one of the same name or is emptied, unless the mutex has
leaked (`SlotsKept`).

**Work** (`WorkProofs`), from the same assumptions:

| theorem | says |
|---|---|
| `NoCircularWait` | `Spec => []NoDeadlock` |
| `ClonesApart` | `Spec /\ []Apart => []StorageExclusive` |
| `LivesApart` | `Spec /\ []Apart => []LifeRegistered` |
| `OneCloneAtATime`, `OnlyRegisteredLives` | the same of `Spec` alone if there is one client of applications, as in the run `registry` |

`NoDeadlock` is about the other direction of the locks: `IInv` says which mutexes a handler
has at its label, and here it matters who can have a mutex that somebody waits for.
`HolderInv` says it of the handler's mutex and of the repositories': only a client
of applications can leave one locked. For an application's mutex the answer goes through
its repository. `ObjectInv` says that what is in a slot belongs to the repository of
that slot (`Homes`), that a handler which has found an object stays in its repository
(`HomeInv`), and so that a handler has an application's mutex only while it has, or has
leaked, the one of its repository (`AppHolders`); whoever waits with the repository's mutex
held therefore waits for no handler. `GoInv` is about the goroutines: the WaitGroup
counter never exceeds the life cycles that run (`Counter`), a mutex of a life cycle does
not leak (`LifeLock`), what is being uninstalled is in the slots of the repository that
its deletion has locked (`Deleting`), a deletion ends only when all of that has been
uninstalled (`Doomed`), and what has been uninstalled is in no registered repository
(`Retired`), which is why a second deletion does not wait for it (`Pending`).

The other theorems need a hypothesis on the clients, and it is the one under which the
code keeps its promise: two clients that add one application at a time both clone into one
directory, and no mutex covers it. `Apart` says that no two clients work on applications
of one name, in a repository of one URL, at a time, from the moment
`AddOrUpdateApplication` or `DeleteApplication` has found the repository to its answer;
the repository may have been deleted and added again meanwhile, which makes it
another object with the same URL. `Apart` leaves the clients everything else: any
number of them that add, update and delete other applications of the same repository,
and any number of clients of repositories. What `StorageExclusive` says of a name in
repositories of different URLs is nothing: there the directory is shared
(`application.go:49`). The operator keeps to it, with its one worker for applications, as
long as none of its connections breaks; one client of applications always does. The
theorems say nothing of a behaviour in which two such requests do meet.

Then a handler between its scan and its append knows
that the name is in no slot, and one that deletes that its object is still at the index
it found, unless somebody else's deletion has leaked the mutex that it waits for
(`NameInv`); nor does the name come back, while the handler works, in a repository that was
added for the same URL after its own had been deleted (`Elsewhere`); a name is in one slot of a repository at most, and what a life cycle
works on is in a slot of a registered repository (`LifeListed`). For the others a step
of a handler is proved to keep the names (`NamesKept`): a name that is in a slot afterwards
was in one before or is the handler's own, and a slot keeps its application unless
that has the handler's name or the mutex has leaked; `StableNames` turns this into what a
handler that does not move knows. A removal keeps
`LifeListed` because it takes the slot of the object it has locked, and
`DeleteRepository` because of `Doomed`.

**Refinement** (`RegistryProofs`), from these and `NoRequestAssumption` (a request is not
`Nil`): `RegistryImplemented`, `Spec => ImplementsRegistry`. `IInv` knows which mutexes a
handler holds but not what its client asked for, so `Matches` is added: the handler is
at a label of the request's operation, and the object it stores or removes has the
request's name and URL. Every step then is one of `Registry`'s or leaves `Registered`
and `Asked` alone: a grown but unfilled slot counts as absent (`Settled`), a removal
is visible where the last slot overwrites it, and `UniqueURL` is what makes that
overwriting remove exactly one entry.

**Application** (`ApplicationProofs`), from `CommitsAssumption` (a commit's log
lists the commit and nothing newer) and `MovesAssumption`:

| theorem | says |
|---|---|
| `TypeCorrect` | `Spec => []TypeOK` |
| `RevisionFetched` | `Spec => NewRevisionIsFetched` |
| `WorktreeDelivered` | `Spec => []DeliversWorktree` if `"late failure" \notin MayHappen` |

`TypeOK` needs that a revision touches the path, hence that the log has a newest
entry: `Maximum`, from the well-foundedness of `<`. `IInv` adds that a clone has a
branch, a remote-tracking reference and files, and that a running life
cycle has a clone (`CloneInv`), that branch and remote-tracking reference agree
wherever a pull or checkout follows, and that there is no revision before the
first life cycle (`RevisionInv`). For `DeliversWorktree` the strengthening is
`SteadyInv`: between two life cycles the files, the branch and the revision agree.
A late failure is exactly what breaks it, and `failed_reset` shows how.

**Deliveries** (`RawDeliveryProofs`, `HelmDeliveryProofs`). Both modules extend
`Application`, and the first theorem of each is that every step of theirs is a step of
`Application` or leaves it alone, so that its invariants hold of them:

| theorem | says |
|---|---|
| `RawImplementsApplication` | `RawSpec => Spec` if `Nested = {}`: the panic on a resource file in a subdirectory is no behaviour of `Application` |
| `RawTypeCorrect` | `RawSpec => []RawTypeOK`, panics included |
| `DeliveriesUnderMutex` | `RawSpec => []DeliveryUnderMutex` |
| `HelmImplementsApplication` | `HelmSpec => Spec` |
| `HelmTypeCorrect` | `HelmSpec => []HelmTypeOK` |
| `ReleasesAreTheirRevisions` | `HelmSpec => []ReleaseIsItsRevision` if `"late failure" \notin MayHappen` |

`DeliveryUnderMutex` holds because the life cycle waits (`WaitInv`): as long as a Delivery
has goroutines, `pc` is `"deliver"` and no step of `Application` moves it or the revision.
For helm the same is `WorkInv`, and `ReleaseInv` adds that the loaded chart is that of
the revision while an upgrade runs; with `DeliversWorktree`, inherited from
`Application`, the record then gets the revision of its files.

**Operator** (`OperatorProofs`), from `ResourcesAssumption` and `NoneAssumption`:

| theorem | says |
|---|---|
| `TypeCorrect` | `Spec => []TypeOK` |
| `ApplicationsListedOnce` | `Spec => []ListedOnce` |
| `GoneApplications` | `Spec => []GoneIsUninstalled` |

`TypeOK` is not inductive: a deletion could take an entry that is not there. `ScannedInv`
says what a handler between lookup and change may rely on, with the same surprise as
above: the application is still there unless a deletion has leaked the mutex and this
handler never goes on. `OnceInv` and `GoneInv` say which requests of a worker can be
under way in which state of its resource, and `GoneInv` that what is installed is either
listed with a revision, so that the deletion to come starts a clean-up, or has one under
way. `GoneIsUninstalled` is about behaviours in which no process ends, no connection
breaks and no uninstallation or clean-up fails (`Undisturbed`): after any of these the code
may leave what is installed for ever.

**Only model-checked**: every liveness property, which is out of the prover's
reach. Every invariant and every action property that a passing run checks is proved.

## What is not modelled

- Updates: of an application's path or namespace in `RawDelivery` and `HelmDelivery`,
  and of a resource's spec in `Operator`. The registry models when the object is
  replaced; the compositions keep one object. A changed URL of a Repository leaves
  its old entry in the registry, and resources of equal names in two namespaces are
  one to the server; both are left out of `Operator`.
- The cluster objects behind a helm release, which are helm's; time-outs of its
  actions, beyond that they fail.
- `CheckoutApplicationRevision`, a stub; `GetRevisionStringsMap`, the secrets, the
  known hosts, the flags and `NewKubernetesConfig`, which only read; the client,
  generated code and data types, which have no state of their own.
- The `done` channel of `Handle`, which nothing writes; contexts and time-outs
  of the cluster calls, beyond that a call may fail; git calls that never return.
- Deliveries of two applications into one namespace that define the same resource.

## Plan

Done, in this order: `RepositoryHandler` with its runs and proofs, since everything
else relies on its mutexes; `Application`, `RawProvider` and `RawDelivery`;
`HelmProvider` and `HelmDelivery`; `Operator`; `Registry` and the refinement; the
proofs of each.

Left: application requests in `Registry`, as far as the unlocked scans
allow a specification to be stated; updates of a resource's spec in `Operator`.
