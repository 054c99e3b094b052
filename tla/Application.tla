---------------------------- MODULE Application ----------------------------
(***************************************************************************)
(* The life of one Application (application.go): NewApplication clones its *)
(* repository or opens the clone it finds on the disk, RunLifeCycle keeps  *)
(* the clone and CurrentRevision up with the remote branch and calls the   *)
(* delivery provider, a deletion uninstalls.  At most one of these works   *)
(* on the Application at a time: RepositoryHandler is about that.          *)
(*                                                                         *)
(* A clone is three commits: where the remote-tracking reference, the      *)
(* local branch and the files of the working tree stand.  The disk         *)
(* outlives the process, the Application does not.                         *)
(***************************************************************************)
EXTENDS Naturals

CONSTANTS
  Commits,    \* commits of the remote branch, positive numbers
  History,    \* the commits a commit's log lists, itself included
  Touching,   \* commits that change something under SparsePath
  MayHappen,  \* calls that may fail, crashes and deletions
  MaxMoves    \* bound: pushes of anything, crashes and deletions together

ASSUME CommitsAssumption ==
  /\ Commits \subseteq Nat \ {0}
  /\ Touching \subseteq Commits
  /\ History \in [Commits -> SUBSET Commits]
  /\ \A c \in Commits : c \in History[c] /\ \A d \in History[c] : d <= c

ASSUME MovesAssumption == MaxMoves \in Nat

VARIABLES
  upstream,        \* head of the branch at the remote
  moves,           \* pushes, crashes and deletions so far
  wanted,          \* the Application resource exists in the cluster
  disk,            \* storagePath: "none", "partial" or "clone"
  tracking,        \* refs/remotes/origin/<Reference>
  local,           \* refs/heads/<Reference>
  worktree,        \* the commit whose files are checked out
  currentRevision, \* CurrentRevision, 0 is the zero hash
  pc               \* where the goroutine that holds the mutex is

cloneVars == <<disk, tracking, local, worktree>>
outsideVars == <<upstream, moves, wanted>>
vars == <<outsideVars, cloneVars, currentRevision, pc>>

-----------------------------------------------------------------------------
\* Mutant: no path filter.
HeadRevisionUnfiltered(c) == c

\* getApplicationHeadRevision: the first entry of the log with the path filter,
\* the zero hash when the filter leaves none.
HeadRevision(c) ==
  LET log == History[c] \cap Touching
  IN  IF log = {} THEN 0 ELSE CHOOSE d \in log : \A e \in log : e <= d

Init ==
  /\ upstream \in Commits
  /\ moves = 0
  /\ wanted = TRUE
  /\ disk = "none" /\ tracking = 0 /\ local = 0 /\ worktree = 0
  /\ currentRevision = 0
  /\ pc = "absent"

Goto(label) == pc' = label

\* A call after the fetch fails; "late failure": also once there is a revision.
Fails(call) ==
  call \in MayHappen /\ (currentRevision = 0 \/ "late failure" \in MayHappen)

-----------------------------------------------------------------------------
(***************************************************************************)
(* The world around the Application.                                       *)
(***************************************************************************)
Move == moves < MaxMoves /\ moves' = moves + 1

\* Somebody pushes or force-pushes.
Push ==
  /\ Move
  /\ \E c \in Commits \ {upstream} : upstream' = c
  /\ UNCHANGED <<wanted, cloneVars, currentRevision, pc>>

\* The user creates the Application resource again.
Create ==
  /\ ~wanted
  /\ wanted' = TRUE
  /\ UNCHANGED <<upstream, moves, cloneVars, currentRevision, pc>>

\* The process ends and takes the Application with it.
Lose == currentRevision' = 0 /\ Goto("absent")

Crash ==
  /\ "crash" \in MayHappen
  /\ pc = "cloning" => "crash in clone" \in MayHappen
  /\ Move
  /\ Lose
  /\ UNCHANGED <<upstream, wanted, cloneVars>>

-----------------------------------------------------------------------------
(***************************************************************************)
(* NewApplication: the operator sends AddOrUpdateApplication every minute. *)
(***************************************************************************)
\* PlainCloneContext creates .git before it fetches.
StartClone ==
  /\ pc = "absent" /\ wanted
  /\ disk = "none"
  /\ disk' = "partial"
  /\ Goto("cloning")
  /\ UNCHANGED <<outsideVars, tracking, local, worktree, currentRevision>>

Clone ==
  /\ pc = "cloning"
  /\ disk' = "clone"
  /\ tracking' = upstream /\ local' = upstream /\ worktree' = upstream
  /\ Goto("cloned")
  /\ UNCHANGED <<outsideVars, currentRevision>>

\* A failed clone removes what it wrote.
CloneFails ==
  /\ "clone" \in MayHappen
  /\ pc = "cloning"
  /\ disk' = "none"
  /\ Goto("absent")
  /\ UNCHANGED <<outsideVars, tracking, local, worktree, currentRevision>>

\* The clone is there, but checking the branch out fails.
CloneUnchecked ==
  /\ "checkout" \in MayHappen
  /\ pc = "cloning"
  /\ disk' = "clone"
  /\ tracking' = upstream /\ local' = upstream /\ worktree' = upstream
  /\ Goto("absent")
  /\ UNCHANGED <<outsideVars, currentRevision>>

\* ErrRepositoryAlreadyExists: open what is there and check the branch out.
OpenClone ==
  /\ pc = "absent" /\ wanted
  /\ disk = "clone"
  /\ worktree' = local
  /\ Goto("cloned")
  /\ UNCHANGED <<outsideVars, disk, tracking, local, currentRevision>>

\* An interrupted clone opens, but has no branch to check out.
OpenFails ==
  /\ pc = "absent" /\ wanted
  /\ disk = "partial" \/ (disk = "clone" /\ "checkout" \in MayHappen)
  /\ UNCHANGED vars

ProviderCreated ==
  /\ pc = "cloned"
  /\ Goto("idle")
  /\ UNCHANGED <<outsideVars, cloneVars, currentRevision>>

\* NewApplication returns an error; the clone stays.
ProviderRefused ==
  /\ pc = "cloned"
  /\ Goto("absent")
  /\ UNCHANGED <<outsideVars, cloneVars, currentRevision>>

-----------------------------------------------------------------------------
(***************************************************************************)
(* RunLifeCycle.                                                           *)
(***************************************************************************)
FetchFails ==
  /\ "fetch" \in MayHappen
  /\ pc = "idle"
  /\ UNCHANGED vars

\* Mutant: delivers whether or not there is a revision.
FetchUpToDateUnchecked ==
  /\ pc = "idle"
  /\ tracking = upstream
  /\ Goto("deliver")
  /\ UNCHANGED <<outsideVars, cloneVars, currentRevision>>

\* NoErrAlreadyUpToDate.
FetchUpToDate ==
  /\ pc = "idle"
  /\ tracking = upstream
  /\ Goto(IF currentRevision = 0 THEN "fetched" ELSE "deliver")
  /\ UNCHANGED <<outsideVars, cloneVars, currentRevision>>

FetchUpdates ==
  /\ pc = "idle"
  /\ tracking # upstream
  /\ tracking' = upstream
  /\ Goto("fetched")
  /\ UNCHANGED <<outsideVars, disk, local, worktree, currentRevision>>

\* Not the branch but a tag is new at the remote.
FetchOther ==
  /\ pc = "idle"
  /\ tracking = upstream
  /\ Move
  /\ Goto("fetched")
  /\ UNCHANGED <<upstream, wanted, cloneVars, currentRevision>>

\* Mutant: resets the files and not the branch.
ResetFilesOnly ==
  /\ pc = "fetched" /\ local # tracking
  /\ worktree' = tracking
  /\ Goto("checkout")
  /\ UNCHANGED <<outsideVars, disk, tracking, local, currentRevision>>

ResetSparsely ==
  /\ pc = "fetched" /\ local # tracking
  /\ local' = tracking /\ worktree' = tracking
  /\ Goto("checkout")
  /\ UNCHANGED <<outsideVars, disk, tracking, currentRevision>>

\* The branch may have moved before the files failed to follow.
ResetFails ==
  /\ Fails("reset")
  /\ pc = "fetched" /\ local # tracking
  /\ local' \in {local, tracking}
  /\ Goto("idle")
  /\ UNCHANGED <<outsideVars, disk, tracking, worktree, currentRevision>>

CheckoutForPull ==
  /\ pc = "fetched" /\ local = tracking
  /\ worktree' = local
  /\ Goto("pull")
  /\ UNCHANGED <<outsideVars, disk, tracking, local, currentRevision>>

\* Mutant: returns although nothing was ever delivered.
PullUpToDateUnchecked ==
  /\ pc = "pull"
  /\ tracking = upstream
  /\ Goto("idle")
  /\ UNCHANGED <<outsideVars, cloneVars, currentRevision>>

PullUpToDate ==
  /\ pc = "pull"
  /\ tracking = upstream
  /\ Goto(IF currentRevision = 0 THEN "checkout" ELSE "idle")
  /\ UNCHANGED <<outsideVars, cloneVars, currentRevision>>

\* Not the branch but a tag is new again: Pull moves nothing and says so.
PullOther ==
  /\ pc = "pull"
  /\ tracking = upstream
  /\ Move
  /\ Goto("checkout")
  /\ UNCHANGED <<upstream, wanted, cloneVars, currentRevision>>

\* Somebody pushed between Fetch and Pull, which fetches again.
PullUpdates ==
  /\ pc = "pull"
  /\ tracking # upstream /\ local \in History[upstream]
  /\ tracking' = upstream /\ local' = upstream /\ worktree' = upstream
  /\ Goto("checkout")
  /\ UNCHANGED <<outsideVars, disk, currentRevision>>

\* Somebody force-pushed: Pull has fetched and moved the tracking reference when
\* it finds that the branch cannot follow, and RunLifeCycle returns its error.
PullNotFastForward ==
  /\ pc = "pull"
  /\ tracking # upstream /\ local \notin History[upstream]
  /\ tracking' = upstream
  /\ Goto("idle")
  /\ UNCHANGED <<outsideVars, disk, local, worktree, currentRevision>>

PullFails ==
  /\ Fails("pull")
  /\ pc = "pull"
  /\ tracking' \in {tracking, upstream}
  /\ local' \in {local} \cup {c \in {tracking'} : local \in History[c]}
  /\ Goto("idle")
  /\ UNCHANGED <<outsideVars, disk, worktree, currentRevision>>

\* Check the branch out and take its head revision for CurrentRevision.
UpdateRevision ==
  /\ pc = "checkout"
  /\ worktree' = local
  /\ IF HeadRevision(local) \in {0, currentRevision}
       THEN Goto("idle") /\ UNCHANGED currentRevision
       ELSE Goto("deliver") /\ currentRevision' = HeadRevision(local)
  /\ UNCHANGED <<outsideVars, disk, tracking, local>>

CheckoutFails ==
  /\ Fails("checkout")
  /\ pc = "checkout" \/ (pc = "fetched" /\ local = tracking)
  /\ Goto("idle")
  /\ UNCHANGED <<outsideVars, cloneVars, currentRevision>>

\* The provider's Delivery returns; an error is only logged.
Delivered ==
  /\ pc = "deliver"
  /\ Goto("idle")
  /\ UNCHANGED <<outsideVars, cloneVars, currentRevision>>

-----------------------------------------------------------------------------
(***************************************************************************)
(* Deletion.  The operator forgets the resource when the request is        *)
(* answered, and every answer is OK.                                       *)
(***************************************************************************)
\* The server does not know the Application: it lost it or never had it.
DeleteUnknown ==
  /\ "delete" \in MayHappen
  /\ pc = "absent" /\ wanted
  /\ Move
  /\ wanted' = FALSE
  /\ UNCHANGED <<upstream, cloneVars, currentRevision, pc>>

\* DeleteApplication waits for the mutex, that is for pc to be idle.
StartDelete ==
  /\ "delete" \in MayHappen
  /\ pc = "idle" /\ wanted
  /\ Move
  /\ wanted' = FALSE
  /\ Goto("uninstall")
  /\ UNCHANGED <<upstream, cloneVars, currentRevision>>

\* DeleteApplication (of a repository): the provider uninstalls, its error is
\* only logged and the clone stays.
DeleteApplication ==
  /\ pc = "uninstall"
  /\ Lose
  /\ UNCHANGED <<outsideVars, cloneVars>>

\* Application.Uninstall, called by DeleteRepository: the clone goes too, unless
\* the provider fails, which leaves what DeleteApplication leaves.
Uninstall ==
  /\ pc = "uninstall"
  /\ Lose
  /\ disk' = "none" /\ tracking' = 0 /\ local' = 0 /\ worktree' = 0
  /\ UNCHANGED outsideVars

-----------------------------------------------------------------------------
Outside == Push \/ Create \/ Crash

NewRepository ==
  StartClone \/ Clone \/ CloneFails \/ CloneUnchecked \/ OpenClone \/ OpenFails

\* RunLifeCycle up to the delivery.
UpdateRepository ==
  \/ FetchFails \/ FetchUpToDate \/ FetchUpdates \/ FetchOther
  \/ ResetSparsely \/ ResetFails
  \/ CheckoutForPull \/ CheckoutFails
  \/ PullUpToDate \/ PullOther \/ PullUpdates \/ PullNotFastForward \/ PullFails
  \/ UpdateRevision

\* The provider as a black box, which may refuse what it finds.
Provider ==
  \/ ProviderCreated \/ ProviderRefused
  \/ Delivered
  \/ DeleteApplication \/ Uninstall

Next ==
  \/ Outside
  \/ NewRepository
  \/ UpdateRepository
  \/ Provider
  \/ DeleteUnknown \/ StartDelete

Spec == Init /\ [][Next]_vars

\* The steps that bring the clone and CurrentRevision forward.
Progress ==
  \/ StartClone \/ Clone \/ OpenClone
  \/ FetchUpToDate \/ FetchUpdates
  \/ ResetSparsely \/ CheckoutForPull
  \/ PullUpToDate \/ PullUpdates \/ PullNotFastForward
  \/ UpdateRevision

\* The operator repeats its request every minute and the check loop its tick.
\* A call that fails does not fail for ever.
RepositoryFairness ==
  /\ SF_vars(StartClone) /\ SF_vars(Clone) /\ SF_vars(OpenClone)
  /\ SF_vars(FetchUpToDate \/ FetchUpdates)
  /\ SF_vars(ResetSparsely) /\ SF_vars(CheckoutForPull)
  /\ SF_vars(PullUpToDate \/ PullUpdates \/ PullNotFastForward)
  /\ SF_vars(UpdateRevision)

Fairness ==
  /\ RepositoryFairness
  /\ SF_vars(ProviderCreated)
  /\ WF_vars(Delivered)
  /\ WF_vars(DeleteApplication \/ Uninstall)

FairSpec == Spec /\ Fairness

-----------------------------------------------------------------------------
TypeOK ==
  /\ upstream \in Commits
  /\ moves \in 0..MaxMoves
  /\ wanted \in BOOLEAN
  /\ disk \in {"none", "partial", "clone"}
  /\ {tracking, local, worktree} \subseteq Commits \cup {0}
  /\ currentRevision \in Touching \cup {0}
  /\ pc \in {"absent", "cloning", "cloned", "idle", "fetched", "pull",
             "checkout", "deliver", "uninstall"}

-----------------------------------------------------------------------------
(***************************************************************************)
(* Properties.                                                             *)
(***************************************************************************)
\* The provider is told the revision of the files it will find in the working
\* tree: RunLifeCycle sets CurrentRevision and the files in different branches
\* and gives up half-way on errors.
DeliversWorktree ==
  pc = "deliver" => HeadRevision(worktree) \in {0, currentRevision}

\* A new CurrentRevision is the head revision of a branch that stands where the
\* last fetch saw the remote, however the local branch got there: clone, reset,
\* pull, or a clone another process left.
NewRevisionIsFetched ==
  [][currentRevision' \notin {0, currentRevision}
       => local = tracking /\ currentRevision' = HeadRevision(tracking)]_vars

\* RunLifeCycle does "fetching and pulling updates, checking revision delivered":
\* once the remote is left alone, the Application delivers its head.
Follows == pc # "absent" /\ HeadRevision(upstream) \in {0, currentRevision}
FollowsUpstream == <>[](wanted => Follows)

\* The branch is not on the history the tracking reference shows, and the next
\* fetches find nothing new: a force-push came between Fetch and Pull.
LeftBehind == currentRevision # 0 /\ local \notin History[tracking]

\* Once the remote is left alone, the Application delivers its head, or its last
\* Pull met a force-push.  It does so after every reset, pull and checkout that
\* failed before the process had its first revision, and after every restart.
FollowsUnlessLeftBehind == <>[](wanted => Follows \/ LeftBehind)
=============================================================================
