---------------------------- MODULE RawProvider ----------------------------
(***************************************************************************)
(* The delivery provider of an Application whose path is no helm chart     *)
(* (raw.go): it writes the resources it read from the working tree to the  *)
(* cluster, labelled with the revision, and deletes what carries another   *)
(* revision in clean-ups that run on by themselves.                        *)
(*                                                                         *)
(* A resource of the cluster is the pair of its revision label and of the  *)
(* version of the file it was written from.  One resource is of one kind,  *)
(* so the clean-up goroutine of a kind is the one of a resource.           *)
(***************************************************************************)
EXTENDS Naturals

CONSTANTS
  Commits,     \* commits the working tree may be at, positive numbers
  Resources,   \* names of resources
  Manifest,    \* which of them the files of a commit define
  Version(_),  \* what the files of a commit say: the last commit that changed them
  MayHappen,   \* cluster calls that may fail
  Cleaners,    \* bound: clean-ups whose goroutines run at one time
  Absent,      \* no such resource in the cluster
  Foreign      \* a resource somebody else created, without our labels

VARIABLES
  worktree, currentRevision,  \* of the Application
  resources,  \* the commit RawProvider.resources was read from, 0 before that
  label,      \* labels["dummy.cd/revision"], 0 while there is no such label
  applying,   \* a Delivery waits for its WaitGroup
  todo,       \* resources whose goroutine in that Delivery has not finished
  cleanLock,  \* RawProvider.mutex: held by a clean-up until it has started
  cleaners,   \* the goroutines of a clean-up
  cluster

providerVars == <<resources, label, applying, todo, cleanLock>>
rawVars == <<providerVars, cleaners, cluster>>

-----------------------------------------------------------------------------
Object(revision, version) == [revision |-> revision, version |-> version]
Owned(n) == cluster[n] \notin {Absent, Foreign}

\* A clean-up keeps one revision (0: it keeps none): the resources it has still
\* to list, and those it has listed and has still to delete.
Cleaner(keep, list, doomed) == [keep |-> keep, list |-> list, doomed |-> doomed]
NoCleaner == Cleaner(0, {}, {})

NoProvider ==
  /\ resources = 0 /\ label = 0
  /\ applying = FALSE /\ todo = {}
  /\ cleanLock = FALSE

Init ==
  /\ NoProvider
  /\ cleaners = [k \in Cleaners |-> NoCleaner]
  /\ cluster \in [Resources -> {Absent, Foreign}]

\* The provider object is dropped; goroutines it started run on.
Drop ==
  /\ resources' = 0 /\ label' = 0
  /\ applying' = FALSE /\ todo' = {}
  /\ cleanLock' = FALSE

\* The process ends.
Crash ==
  /\ Drop
  /\ cleaners' = [k \in Cleaners |-> NoCleaner]
  /\ UNCHANGED cluster

-----------------------------------------------------------------------------
NewRawProvider ==
  /\ Manifest[worktree] # {}
  /\ resources' = worktree /\ label' = 0
  /\ applying' = FALSE /\ todo' = {}
  /\ cleanLock' = FALSE
  /\ UNCHANGED <<cleaners, cluster>>

\* No resource file, or the namespace cannot be read or created.
NewRawProviderFails ==
  /\ Manifest[worktree] = {} \/ "provider" \in MayHappen
  /\ UNCHANGED rawVars

\* Mutant: does not set the revision label.
DeliveryUnlabelled ==
  /\ ~applying
  /\ resources' = IF label = 0 THEN resources ELSE worktree
  /\ applying' = TRUE /\ todo' = Manifest[resources']
  /\ UNCHANGED <<label, cleanLock, cleaners, cluster>>

\* Mutant: never reads the files again.
DeliveryUnread ==
  /\ ~applying
  /\ label' = currentRevision
  /\ applying' = TRUE /\ todo' = Manifest[resources]
  /\ UNCHANGED <<resources, cleanLock, cleaners, cluster>>

\* The first Delivery takes what NewRawProvider read, the others read again.
Delivery ==
  /\ ~applying
  /\ resources' = IF label = 0 THEN resources ELSE worktree
  /\ label' = currentRevision
  /\ applying' = TRUE /\ todo' = Manifest[resources']
  /\ UNCHANGED <<cleanLock, cleaners, cluster>>

\* Resource.Delivery: create what is missing, update what has another revision.
\* Only a clean-up may come between its read and its write, and then the write
\* fails and leaves what a clean-up after the write leaves.
Deliver(n) ==
  /\ n \in todo
  /\ todo' = todo \ {n}
  /\ cluster' = IF cluster[n] = Absent \/ (Owned(n) /\ cluster[n].revision # label)
                  THEN [cluster EXCEPT ![n] = Object(label, Version(resources))]
                  ELSE cluster
  /\ UNCHANGED <<resources, label, applying, cleanLock, cleaners>>

\* The error is logged.
DeliverFails(n) ==
  /\ "deliver" \in MayHappen
  /\ n \in todo
  /\ todo' = todo \ {n}
  /\ UNCHANGED <<resources, label, applying, cleanLock, cleaners, cluster>>

\* Mutant: no wg.Wait.
DeliveryReturnsEarly ==
  /\ applying
  /\ applying' = FALSE
  /\ cleanLock' = TRUE
  /\ UNCHANGED <<resources, label, todo, cleaners, cluster>>

\* wg.Wait returns; a clean-up starts unless one is starting.
DeliveryReturns ==
  /\ applying /\ todo = {}
  /\ applying' = FALSE
  /\ cleanLock' = TRUE
  /\ UNCHANGED <<resources, label, todo, cleaners, cluster>>

-----------------------------------------------------------------------------
\* cleanResources up to its return: it reads CurrentRevision, asks for the kinds
\* of resources and starts a goroutine for each.
Clean(keep) ==
  \E k \in Cleaners :
    /\ cleaners[k].list = {} /\ cleaners[k].doomed = {}
    /\ cleaners' = [cleaners EXCEPT ![k] = Cleaner(keep, Resources, {})]

CleanResources ==
  /\ cleanLock
  /\ cleanLock' = FALSE
  /\ IF currentRevision = 0 THEN UNCHANGED cleaners ELSE Clean(currentRevision)
  /\ UNCHANGED <<resources, label, applying, todo, cluster>>

\* RunLifeCycle is writing CurrentRevision at that moment: the half-written hash
\* is nobody's revision, so the clean-up keeps nothing.
CleanResourcesTorn ==
  /\ cleanLock /\ currentRevision # 0
  /\ cleanLock' = FALSE
  /\ Clean(0)
  /\ UNCHANGED <<resources, label, applying, todo, cluster>>

\* The kinds of resources cannot be listed.
CleanResourcesFails ==
  /\ "clean" \in MayHappen
  /\ cleanLock
  /\ cleanLock' = FALSE
  /\ UNCHANGED <<resources, label, applying, todo, cleaners, cluster>>

CleanList(k, n) ==
  /\ n \in cleaners[k].list
  /\ cleaners' = [cleaners EXCEPT
       ![k].list = @ \ {n},
       ![k].doomed = IF Owned(n) /\ cluster[n].revision # cleaners[k].keep
                       THEN @ \cup {n} ELSE @]
  /\ UNCHANGED <<providerVars, cluster>>

\* The deletion is by name.
CleanDelete(k, n) ==
  /\ n \in cleaners[k].doomed
  /\ cleaners' = [cleaners EXCEPT ![k].doomed = @ \ {n}]
  /\ cluster' = [cluster EXCEPT ![n] = Absent]
  /\ UNCHANGED providerVars

\* An error of a list or of a deletion is logged.
CleanFails(k, n) ==
  /\ IF cleaners[k].keep = 0 THEN "uninstall" \in MayHappen ELSE "clean" \in MayHappen
  /\ n \in cleaners[k].list \cup cleaners[k].doomed
  /\ cleaners' = [cleaners EXCEPT ![k].list = @ \ {n}, ![k].doomed = @ \ {n}]
  /\ UNCHANGED <<providerVars, cluster>>

\* Mutant: gives up when a clean-up is starting.
UninstallOnce ==
  /\ IF currentRevision = 0 \/ cleanLock THEN UNCHANGED cleaners ELSE Clean(0)
  /\ Drop
  /\ UNCHANGED cluster

\* Uninstall waits for the mutex and cleans everything, but nothing as long as
\* CurrentRevision is the zero hash.
Uninstall ==
  /\ ~cleanLock
  /\ IF currentRevision = 0 THEN UNCHANGED cleaners ELSE Clean(0)
  /\ Drop
  /\ UNCHANGED cluster

UninstallFails ==
  /\ "uninstall" \in MayHappen
  /\ ~cleanLock
  /\ currentRevision # 0
  /\ Drop
  /\ UNCHANGED <<cleaners, cluster>>

-----------------------------------------------------------------------------
TypeOK ==
  /\ resources \in Commits \cup {0}
  /\ label \in Commits \cup {0}
  /\ applying \in BOOLEAN
  /\ todo \subseteq Resources /\ (todo # {} => todo \subseteq Manifest[resources])
  /\ cleanLock \in BOOLEAN
  /\ cleaners \in [Cleaners -> [keep : Commits \cup {0},
                                list : SUBSET Resources, doomed : SUBSET Resources]]
  /\ cluster \in [Resources -> {Absent, Foreign}
                                 \cup [revision : Commits, version : Commits \cup {0}]]
=============================================================================
