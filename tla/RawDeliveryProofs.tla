------------------------- MODULE RawDeliveryProofs -------------------------
(***************************************************************************)
(* Proofs about RawDelivery, for any number of resources and clean-ups:    *)
(* it implements Application as long as no resource file ends the process, *)
(* its types, and that resources are written inside a life cycle only.     *)
(***************************************************************************)
EXTENDS RawDelivery, ApplicationProofs

\* What every step but a panic is for the Application.
LEMMA ImplementsStep == [RawNext]_allVars => [Next]_vars \/ Panic
<1> SUFFICES ASSUME RawNext PROVE [Next]_vars \/ Panic
  BY DEF allVars
<1>1. CASE AppStep \/ ProcessEnds \/ Panic
  BY <1>1 DEF AppStep, ProcessEnds, Next, Outside
<1>2. CASE NewRawProvider \/ NewRawProviderFails
  BY <1>2 DEF NewRawProvider, NewRawProviderFails, Next, Provider
<1>3. CASE StartDelivery \/ DeliveryReturns
  BY <1>3 DEF StartDelivery, DeliveryReturns, Next, Provider
<1>4. CASE \E n \in Resources : Deliver(n) \/ DeliverFails(n)
  BY <1>4 DEF Deliver, DeliverFails
<1>5. CASE StartCleanup \/ CleanupFails
  BY <1>5 DEF StartCleanup, CleanupFails
<1>6. CASE \E k \in Cleaners, n \in Resources :
             CleanList(k, n) \/ CleanDelete(k, n) \/ CleanFails(k, n)
  BY <1>6 DEF CleanList, CleanDelete, CleanFails
<1>7. CASE UninstallResources
  BY <1>7 DEF UninstallResources, Next, Provider
<1> QED BY <1>1, <1>2, <1>3, <1>4, <1>5, <1>6, <1>7 DEF RawNext

\* An application with raw resources is an Application, as long as its files are
\* where ReadFile looks for them: deliveries that take many steps, and clean-ups
\* that outlive them, are one delivery to RunLifeCycle (application.go:260-269).
THEOREM RawImplementsApplication ==
  ASSUME Nested = {}
  PROVE  RawSpec => Spec
<1>1. RawInit => Init
  BY DEF RawInit
<1>2. [RawNext]_allVars => [Next]_vars
  BY ImplementsStep DEF Panic
<1> QED BY <1>1, <1>2, PTL DEF RawSpec, Spec

\* With files that end the process too.
LEMMA ApplicationStep == IInv /\ [RawNext]_allVars => IInv'
<1>1. IInv /\ Panic => IInv'
  BY DEF Panic, Lose, Goto, outsideVars, cloneVars, IInv, TypeOK, CloneInv, RevisionInv
<1> QED BY <1>1, ImplementsStep, NextInv

LEMMA ApplicationInvariance == RawSpec => []IInv
<1>1. RawInit => IInv
  BY InitInv DEF RawInit
<1> QED BY <1>1, ApplicationStep, PTL DEF RawSpec

-----------------------------------------------------------------------------
\* A Delivery and its goroutines run while RunLifeCycle waits, and an Application
\* that is there has read its resources.
WaitInv ==
  /\ todo # {} => applying
  /\ applying => pc = "deliver" /\ label = currentRevision
  /\ pc \notin {"absent", "cloning", "cloned"} => resources \in Commits

RInv == Raw!TypeOK /\ WaitInv

CleanerType == [keep : Commits \cup {0}, list : SUBSET Resources, doomed : SUBSET Resources]

LEMMA InitRInv == RawInit => RInv
<1> SUFFICES ASSUME RawInit PROVE RInv
  OBVIOUS
<1>1. Raw!TypeOK
  BY DEF RawInit, Raw!Init, Raw!NoProvider, Raw!TypeOK, Raw!NoCleaner, Raw!Cleaner
<1>2. WaitInv
  BY DEF RawInit, Init, Raw!Init, Raw!NoProvider, WaitInv
<1> QED BY <1>1, <1>2 DEF RInv

\* While a Delivery runs the life cycle waits.
LEMMA AppStepWaits ==
  ASSUME WaitInv, AppStep
  PROVE  /\ applying => UNCHANGED <<currentRevision, pc>>
         /\ pc' \notin {"absent", "cloning", "cloned"} => pc \notin {"absent", "cloning", "cloned"}
         /\ UNCHANGED rawVars
<1> USE DEF AppStep
<1>1. applying => UNCHANGED <<currentRevision, pc>>
  BY DEF WaitInv, Push, Create, NewRepository, StartClone, Clone, CloneFails,
     CloneUnchecked, OpenClone, OpenFails, UpdateRepository, FetchFails, FetchUpToDate,
     FetchUpdates, FetchOther, ResetSparsely, ResetFails, CheckoutForPull,
     CheckoutFails, PullUpToDate, PullOther, PullUpdates,
     PullNotFastForward, PullFails, UpdateRevision,
     DeleteUnknown, StartDelete, vars
<1>2. pc' \notin {"absent", "cloning", "cloned"} => pc \notin {"absent", "cloning", "cloned"}
  BY DEF Push, Create, NewRepository, StartClone, Clone, CloneFails, Goto,
     CloneUnchecked, OpenClone, OpenFails, UpdateRepository, FetchFails, FetchUpToDate,
     FetchUpdates, FetchOther, ResetSparsely, ResetFails, CheckoutForPull,
     CheckoutFails, PullUpToDate, PullOther, PullUpdates,
     PullNotFastForward, PullFails, UpdateRevision,
     DeleteUnknown, StartDelete, vars
<1> QED BY <1>1, <1>2

LEMMA OutsideRInv ==
  ASSUME IInv, RInv,
         AppStep \/ ProcessEnds \/ Panic \/ NewRawProvider \/ NewRawProviderFails
  PROVE  RInv'
<1> USE DEF RInv, WaitInv, Raw!TypeOK
<1>1. CASE AppStep
  BY <1>1, AppStepWaits DEF rawVars
<1>2. Raw!NoCleaner \in CleanerType
  BY DEF Raw!NoCleaner, Raw!Cleaner, CleanerType
<1>3. CASE ProcessEnds \/ Panic
  <2>1. /\ resources' = 0 /\ label' = 0 /\ applying' = FALSE /\ todo' = {}
        /\ cleanLock' = FALSE /\ cluster' = cluster /\ pc' = "absent"
        /\ cleaners' = [k \in Cleaners |-> Raw!NoCleaner]
    BY <1>3 DEF ProcessEnds, Panic, Crash, Lose, Goto, Raw!Crash, Raw!Drop
  <2> QED BY <1>2, <2>1 DEF CleanerType
<1>4. CASE NewRawProvider
  <2>1. /\ pc = "cloned" /\ resources' = worktree /\ label' = 0 /\ applying' = FALSE
        /\ todo' = {} /\ cleanLock' = FALSE /\ UNCHANGED <<cleaners, cluster>>
    BY <1>4 DEF NewRawProvider, ProviderCreated, Raw!NewRawProvider
  <2>2. worktree \in Commits
    BY <2>1 DEF IInv, CloneInv
  <2> QED BY <2>1, <2>2
<1>5. CASE NewRawProviderFails
  BY <1>5 DEF NewRawProviderFails, ProviderRefused, Goto, Raw!NewRawProviderFails,
              Raw!rawVars, Raw!providerVars
<1> QED BY <1>1, <1>3, <1>4, <1>5

LEMMA DeliveryRInv ==
  ASSUME IInv, RInv,
         StartDelivery \/ DeliveryReturns \/ \E n \in Resources : Deliver(n) \/ DeliverFails(n)
  PROVE  RInv'
<1> USE DEF RInv, WaitInv, Raw!TypeOK
<1>1. CASE StartDelivery
  <2>1. /\ pc = "deliver" /\ resources' = (IF label = 0 THEN resources ELSE worktree)
        /\ label' = currentRevision /\ applying' = TRUE /\ todo' = Manifest[resources']
        /\ UNCHANGED <<cleanLock, cleaners, cluster, currentRevision, pc>>
    BY <1>1 DEF StartDelivery, Raw!Delivery, vars
  <2>2. worktree \in Commits /\ currentRevision \in Commits
    BY <2>1, CommitsAssumption DEF IInv, CloneInv, RevisionInv, TypeOK
  <2>3. resources' \in Commits
    BY <2>1, <2>2
  <2>4. todo' \subseteq Resources
    BY <2>1, <2>3, ManifestAssumption
  <2> QED BY <2>1, <2>2, <2>3, <2>4
<1>2. CASE DeliveryReturns
  BY <1>2 DEF DeliveryReturns, Delivered, Raw!DeliveryReturns
<1>3. ASSUME NEW n \in Resources, Deliver(n) PROVE RInv'
  <2>1. /\ n \in todo /\ todo' = todo \ {n}
        /\ UNCHANGED <<resources, label, applying, cleanLock, cleaners, currentRevision, pc>>
    BY <1>3 DEF Deliver, Raw!Deliver, vars
  <2>2. /\ pc = "deliver" /\ label = currentRevision /\ resources \in Commits
    BY <2>1
  <2>3. label \in Commits
    BY <2>2, CommitsAssumption DEF IInv, TypeOK, RevisionInv
  <2>4. HeadRevision(resources) \in Commits \cup {0}
    BY <2>2, HeadRevisionType, CommitsAssumption
  <2>5. Raw!Object(label, HeadRevision(resources))
          \in [revision : Commits, version : Commits \cup {0}]
    BY <2>3, <2>4 DEF Raw!Object
  <2>6. \/ cluster' = cluster
        \/ cluster' = [cluster EXCEPT ![n] = Raw!Object(label, HeadRevision(resources))]
    BY <1>3 DEF Deliver, Raw!Deliver
  <2>7. cluster' \in [Resources -> {Absent, Foreign}
                        \cup [revision : Commits, version : Commits \cup {0}]]
    BY <2>5, <2>6
  <2> QED BY <2>1, <2>7
<1>4. ASSUME NEW n \in Resources, DeliverFails(n) PROVE RInv'
  BY <1>4 DEF DeliverFails, Raw!DeliverFails, vars
<1> QED BY <1>1, <1>2, <1>3, <1>4

\* A clean-up that starts, or that is taken for one.
LEMMA CleanType ==
  ASSUME cleaners \in [Cleaners -> CleanerType], NEW keep \in Commits \cup {0},
         Raw!Clean(keep)
  PROVE  cleaners' \in [Cleaners -> CleanerType]
<1>1. Raw!Cleaner(keep, Resources, {}) \in CleanerType
  BY DEF Raw!Cleaner, CleanerType
<1>2. PICK k \in Cleaners : cleaners' = [cleaners EXCEPT ![k] = Raw!Cleaner(keep, Resources, {})]
  BY DEF Raw!Clean
<1> QED BY <1>1, <1>2

LEMMA CleanupRInv ==
  ASSUME IInv, RInv, StartCleanup \/ CleanupFails \/ UninstallResources
  PROVE  RInv'
<1> USE DEF RInv, WaitInv, Raw!TypeOK
<1>1. currentRevision \in Commits \cup {0} /\ cleaners \in [Cleaners -> CleanerType]
  BY CommitsAssumption DEF IInv, TypeOK, CleanerType
<1>2. CASE StartCleanup
  <2>1. /\ cleanLock' = FALSE
        /\ UNCHANGED <<resources, label, applying, todo, cluster, currentRevision, pc>>
        /\ \/ UNCHANGED cleaners
           \/ \E keep \in {0, currentRevision} : Raw!Clean(keep)
    BY <1>2 DEF StartCleanup, Raw!CleanResources, Raw!CleanResourcesTorn, vars
  <2>2. cleaners' \in [Cleaners -> CleanerType]
    BY <1>1, <2>1, CleanType
  <2> QED BY <2>1, <2>2 DEF CleanerType
<1>3. CASE CleanupFails
  BY <1>3 DEF CleanupFails, Raw!CleanResourcesFails, vars
<1>4. CASE UninstallResources
  <2>1. /\ resources' = 0 /\ label' = 0 /\ applying' = FALSE /\ todo' = {}
        /\ cleanLock' = FALSE /\ cluster' = cluster /\ pc' = "absent"
        /\ UNCHANGED cleaners \/ Raw!Clean(0)
    BY <1>4 DEF UninstallResources, DeleteApplication, Uninstall, Lose, Goto,
                Raw!Uninstall, Raw!UninstallFails, Raw!Drop
  <2>2. cleaners' \in [Cleaners -> CleanerType]
    BY <1>1, <2>1, CleanType
  <2> QED BY <2>1, <2>2 DEF CleanerType
<1> QED BY <1>2, <1>3, <1>4

\* The goroutines of a clean-up.
LEMMA CleanerRInv ==
  ASSUME RInv, NEW k \in Cleaners, NEW n \in Resources,
         CleanList(k, n) \/ CleanDelete(k, n) \/ CleanFails(k, n)
  PROVE  RInv'
<1> USE DEF RInv, WaitInv, Raw!TypeOK
<1>1. UNCHANGED <<resources, label, applying, todo, cleanLock, currentRevision, pc>>
  BY DEF CleanList, CleanDelete, CleanFails, Raw!CleanList, Raw!CleanDelete,
         Raw!CleanFails, Raw!providerVars, vars
<1>2. cleaners' \in [Cleaners -> CleanerType]
  <2>1. cleaners[k] \in CleanerType
    BY DEF CleanerType
  <2>2. CASE CleanList(k, n)
    BY <2>1, <2>2 DEF CleanList, Raw!CleanList, CleanerType
  <2>3. CASE CleanDelete(k, n)
    BY <2>1, <2>3 DEF CleanDelete, Raw!CleanDelete, CleanerType
  <2>4. CASE CleanFails(k, n)
    BY <2>1, <2>4 DEF CleanFails, Raw!CleanFails, CleanerType
  <2> QED BY <2>2, <2>3, <2>4
<1>3. cluster' = cluster \/ cluster' = [cluster EXCEPT ![n] = Absent]
  BY DEF CleanList, CleanDelete, CleanFails, Raw!CleanList, Raw!CleanDelete, Raw!CleanFails
<1>4. cluster' \in [Resources -> {Absent, Foreign}
                      \cup [revision : Commits, version : Commits \cup {0}]]
  BY <1>3
<1> QED BY <1>1, <1>2, <1>4 DEF CleanerType

LEMMA NextRInv == IInv /\ RInv /\ [RawNext]_allVars => RInv'
<1>1. CASE UNCHANGED allVars
  BY <1>1 DEF allVars, vars, rawVars, RInv, Raw!TypeOK, WaitInv
<1>2. ASSUME IInv, RInv, RawNext PROVE RInv'
  BY <1>2, OutsideRInv, DeliveryRInv, CleanupRInv, CleanerRInv DEF RawNext
<1> QED BY <1>1, <1>2

LEMMA RawInvariance == RawSpec => []RInv
BY InitRInv, NextRInv, ApplicationInvariance, PTL DEF RawSpec

\* Neither the Application nor the provider, its clean-ups and the cluster leave
\* their types: a resource of ours always carries a revision, and what a Delivery
\* has still to write is in the files it read (raw.go:293-409).
THEOREM RawTypeCorrect == RawSpec => []RawTypeOK
BY RawInvariance, ApplicationInvariance, PTL DEF RInv, IInv, RawTypeOK

\* Resources are written inside a life cycle only and with the revision it set,
\* whatever fails, crashes or runs on (raw.go:383-408, application.go:260-269).
THEOREM DeliveriesUnderMutex == RawSpec => []DeliveryUnderMutex
<1>1. RInv => DeliveryUnderMutex
  BY DEF RInv, WaitInv, DeliveryUnderMutex
<1> QED BY <1>1, RawInvariance, PTL
============================================================================
