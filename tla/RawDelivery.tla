---------------------------- MODULE RawDelivery ----------------------------
(***************************************************************************)
(* An Application delivered as raw resources: Application extended with    *)
(* RawProvider.  They share the working tree and CurrentRevision, the life *)
(* cycle waits for the provider's Delivery, and clean-ups go on while the  *)
(* next life cycles run.                                                   *)
(***************************************************************************)
EXTENDS Application

CONSTANTS Resources, Manifest, Cleaners, Absent, Foreign
CONSTANT Nested  \* commits with a resource file in a subdirectory of the path

ASSUME ManifestAssumption ==
  /\ Manifest \in [Commits -> SUBSET Resources]
  /\ Nested \subseteq Commits
  /\ Absent # Foreign

VARIABLES resources, label, applying, todo, cleanLock, cleaners, cluster

Raw == INSTANCE RawProvider WITH Version <- HeadRevision

rawVars == <<resources, label, applying, todo, cleanLock, cleaners, cluster>>
allVars == <<vars, rawVars>>

RawInit == Init /\ Raw!Init

-----------------------------------------------------------------------------
\* Goroutines and calls of the Application that the provider takes no part in.
AppStep ==
  /\ \/ Push \/ Create
     \/ NewRepository
     \/ UpdateRepository
     \/ DeleteUnknown \/ StartDelete
  /\ UNCHANGED rawVars

ProcessEnds == Crash /\ Raw!Crash

\* Files are found in subdirectories but read from the path itself: ReadFile
\* returns nil, its caller dereferences it, and the process ends.
Panic ==
  /\ \/ pc = "cloned"
     \/ pc = "deliver" /\ ~applying /\ label # 0
  /\ worktree \in Nested
  /\ Lose /\ UNCHANGED <<outsideVars, cloneVars>>
  /\ Raw!Crash

NewRawProvider ==
  worktree \notin Nested /\ ProviderCreated /\ Raw!NewRawProvider

NewRawProviderFails == ProviderRefused /\ Raw!NewRawProviderFails

StartDelivery ==
  /\ pc = "deliver" /\ (label = 0 \/ worktree \notin Nested)
  /\ Raw!Delivery
  /\ UNCHANGED vars

Deliver(n) == Raw!Deliver(n) /\ UNCHANGED vars
DeliverFails(n) == Raw!DeliverFails(n) /\ UNCHANGED vars

DeliveryReturns == Raw!DeliveryReturns /\ Delivered

\* CurrentRevision is written without a lock, and cleanResources reads it.
StartCleanup ==
  /\ \/ Raw!CleanResources
     \/ pc = "checkout" /\ Raw!CleanResourcesTorn
  /\ UNCHANGED vars

CleanupFails == Raw!CleanResourcesFails /\ UNCHANGED vars
CleanList(k, n) == Raw!CleanList(k, n) /\ UNCHANGED vars
CleanDelete(k, n) == Raw!CleanDelete(k, n) /\ UNCHANGED vars
CleanFails(k, n) == Raw!CleanFails(k, n) /\ UNCHANGED vars

UninstallResources ==
  \/ Raw!Uninstall /\ (DeleteApplication \/ Uninstall)
  \/ Raw!UninstallFails /\ DeleteApplication

RawNext ==
  \/ AppStep
  \/ ProcessEnds \/ Panic
  \/ NewRawProvider \/ NewRawProviderFails
  \/ StartDelivery \/ DeliveryReturns
  \/ \E n \in Resources : Deliver(n) \/ DeliverFails(n)
  \/ StartCleanup \/ CleanupFails
  \/ \E k \in Cleaners, n \in Resources :
       CleanList(k, n) \/ CleanDelete(k, n) \/ CleanFails(k, n)
  \/ UninstallResources

RawSpec == RawInit /\ [][RawNext]_allVars

\* The check loop and the operator repeat what they do every minute, and no call
\* to the remote or to the cluster fails for ever.
RawFairness ==
  /\ SF_allVars(Progress /\ UNCHANGED rawVars)
  /\ SF_allVars(NewRawProvider)
  /\ WF_allVars(StartDelivery \/ DeliveryReturns)
  /\ \A n \in Resources : SF_allVars(Deliver(n))
  /\ SF_allVars(StartCleanup)
  /\ \A k \in Cleaners, n \in Resources :
       SF_allVars(CleanList(k, n)) /\ SF_allVars(CleanDelete(k, n))
  /\ WF_allVars(UninstallResources)

FairRawSpec == RawSpec /\ RawFairness

-----------------------------------------------------------------------------
(***************************************************************************)
(* Properties.                                                             *)
(***************************************************************************)
RawTypeOK == TypeOK /\ Raw!TypeOK

\* "is app synced with k8s?": when the remote is left alone, the cluster ends up
\* with every resource of the working tree and with none of another revision,
\* although clean-ups overlap with later deliveries and delete by name, and
\* although single calls fail.
Converges ==
  <>[](wanted => /\ worktree # 0
                 /\ \A n \in Manifest[worktree] : cluster[n] # Absent
                 /\ \A n \in Resources : Raw!Owned(n) => cluster[n].revision = currentRevision)

\* The same of what the resources say: each is as the working tree has it, and
\* what the working tree has not is gone.
Synced ==
  <>[](wanted => /\ worktree # 0
                 /\ \A n \in Resources : Raw!Owned(n) =>
                      /\ n \in Manifest[worktree]
                      /\ cluster[n].version = HeadRevision(worktree))

\* Resources are written only inside a life cycle, which holds the Application's
\* mutex, and with the revision that life cycle set: Delivery waits for all its
\* goroutines, so a deletion that got the mutex meets none of them.
DeliveryUnderMutex == todo # {} => pc = "deliver" /\ label = currentRevision

\* What a delivered Application left in the cluster goes away after its
\* deletion, or somebody creates it again meanwhile: the uninstallation waits
\* for a clean-up that is starting, and its goroutines outlive the request.  No
\* crash follows when the moves are spent.
NothingLeft == \A n \in Resources : ~Raw!Owned(n)
UninstallCleans ==
  pc = "uninstall" /\ currentRevision # 0 /\ moves = MaxMoves ~> NothingLeft \/ wanted
=============================================================================
