------------------------- MODULE HelmDeliveryProofs -------------------------
(***************************************************************************)
(* Proofs about HelmDelivery: it implements Application, so that what is   *)
(* proved of the clone and of CurrentRevision holds with helm at work too; *)
(* its types; and that a release record is what its description says.      *)
(***************************************************************************)
EXTENDS HelmDelivery, ApplicationProofs


LEMMA ImplementsStep == [HelmNext]_allVars => [Next]_vars
<1> SUFFICES ASSUME HelmNext PROVE [Next]_vars
  BY DEF allVars
<1>1. CASE AppStep \/ ProcessEnds
  BY <1>1 DEF AppStep, ProcessEnds, Next, Outside
<1>2. CASE NewHelmProvider \/ NewHelmProviderFails
  BY <1>2 DEF NewHelmProvider, NewHelmProviderFails, Next, Provider
<1>3. CASE DeliveryFails \/ DeliverySkips \/ StartInstall \/ Installed \/ InstallFails
  BY <1>3 DEF DeliveryFails, DeliverySkips, StartInstall, Installed, InstallFails,
              Delivery, Next, Provider
<1>4. CASE StartUpgrade \/ UpgradeRefused \/ Upgraded \/ UpgradeFails
  BY <1>4 DEF StartUpgrade, UpgradeRefused, Upgraded, UpgradeFails,
              Delivery, Next, Provider
<1>5. CASE RolledBack \/ RollbackFails \/ StartReinstall \/ Removed \/ RemovalFails
  BY <1>5 DEF RolledBack, RollbackFails, StartReinstall, Removed, RemovalFails,
              Delivery, Next, Provider
<1>6. CASE StartUninstall \/ UninstallRelease
  BY <1>6 DEF StartUninstall, UninstallRelease, Next, Provider
<1> QED BY <1>1, <1>2, <1>3, <1>4, <1>5, <1>6 DEF HelmNext

\* An application with a helm provider is an Application: its deliveries and
\* uninstallations, which take many steps, are those of RunLifeCycle and
\* DeleteApplication, under the application's mutex (application.go:260-269).
THEOREM HelmImplementsApplication == HelmSpec => Spec
<1>1. HelmInit => Init
  BY DEF HelmInit
<1> QED BY <1>1, ImplementsStep, PTL DEF HelmSpec, Spec

\* What is proved of every Application.
LEMMA ApplicationInvariance == HelmSpec => []IInv
BY HelmImplementsApplication, Invariance, PTL

-----------------------------------------------------------------------------
\* Helm is at work only while the life cycle or the deletion waits for it, on a
\* record that exists, and with a chart that is loaded.
WorkInv ==
  /\ work # "none" => pc = IF work = "uninstalling" THEN "uninstall" ELSE "deliver"
  /\ work \in {"installing", "cleaning", "upgrading", "rolling back",
               "removing", "uninstalling"} => release # None
  /\ work \in {"upgrading", "rolling back"} => chart \in Commits

HInv == Helm!TypeOK /\ WorkInv

\* Records.
Statuses == {"pending-install", "pending-upgrade", "pending-rollback",
             "deployed", "failed", "superseded", "uninstalling"}

LEMMA MarkedType ==
  ASSUME NEW r \in Helm!Records, NEW status \in Statuses
  PROVE  /\ Helm!Marked(r, status) \in Helm!Records
         /\ Helm!Marked(r, status) # None
         /\ Helm!Marked(r, status).revision = r.revision
         /\ Helm!Marked(r, status).files = r.files
<1>1. Helm!Marked(r, status) = [status |-> status, revision |-> r.revision, files |-> r.files]
  BY DEF Helm!Marked, Helm!Records
<1>2. r.revision \in Commits /\ r.files \in Commits
  BY DEF Helm!Records
<1>3. Helm!Marked(r, status) \in Helm!Records
  BY <1>1, <1>2 DEF Helm!Records, Statuses
<1> QED BY <1>1, <1>3, NoneAssumption

LEMMA RecordType ==
  ASSUME NEW status \in Statuses, currentRevision \in Commits, chart' \in Commits
  PROVE  /\ Helm!Record(status) \in Helm!Records
         /\ Helm!Record(status) # None
         /\ Helm!Record(status).revision = currentRevision
         /\ Helm!Record(status).files = chart'
<1>1. Helm!Record(status) \in Helm!Records
  BY DEF Helm!Record, Helm!Records, Statuses
<1> QED BY <1>1, NoneAssumption DEF Helm!Record

\* What Delivery may count on.
LEMMA AtDelivery ==
  ASSUME IInv, pc = "deliver"
  PROVE  currentRevision \in Commits /\ worktree \in Commits
BY CommitsAssumption DEF IInv, TypeOK, CloneInv, RevisionInv

LEMMA InitHInv == HelmInit => HInv
BY DEF HelmInit, Helm!Init, HInv, Helm!TypeOK, WorkInv

\* While helm is at work the life cycle waits.
LEMMA AppStepWaits ==
  ASSUME WorkInv, AppStep, work # "none"
  PROVE  UNCHANGED <<currentRevision, pc>>
BY DEF WorkInv, AppStep, Push, Create, NewRepository, StartClone, Clone, CloneFails,
   CloneUnchecked, OpenClone, OpenFails, UpdateRepository, FetchFails, FetchUpToDate,
   FetchUpdates, FetchOther, ResetSparsely, ResetFails, CheckoutForPull,
   CheckoutFails, PullUpToDate, PullOther, PullUpdates,
   PullNotFastForward, PullFails, UpdateRevision,
   DeleteUnknown, StartDelete, vars

\* The steps between the deliveries find no helm at work.
LEMMA OutsideHInv ==
  ASSUME IInv, HInv, AppStep \/ ProcessEnds \/ NewHelmProvider \/ NewHelmProviderFails
  PROVE  HInv'
<1> USE DEF HInv, Helm!TypeOK, WorkInv
<1>1. CASE AppStep
  BY <1>1, AppStepWaits DEF AppStep, helmVars
<1>2. CASE ProcessEnds
  BY <1>2 DEF ProcessEnds, Helm!Crash, Helm!Drop
<1>3. CASE NewHelmProvider
  <2>1. /\ pc = "cloned" /\ chart' = worktree
        /\ UNCHANGED <<options, faults, release, base, work>>
    BY <1>3 DEF NewHelmProvider, ProviderCreated, Helm!NewHelmProvider, Helm!Load
  <2> QED BY <2>1 DEF IInv, TypeOK
<1>4. CASE NewHelmProviderFails
  BY <1>4 DEF NewHelmProviderFails, ProviderRefused, Helm!NewHelmProviderFails, Helm!helmVars
<1> QED BY <1>1, <1>2, <1>3, <1>4

\* The steps of a Delivery.
LEMMA InstallHInv ==
  ASSUME IInv, HInv,
         DeliveryFails \/ DeliverySkips \/ StartInstall \/ Installed \/ InstallFails
  PROVE  HInv'
<1> USE DEF HInv, Helm!TypeOK, WorkInv
<1>1. pc = "deliver" /\ (work' # "none" => pc' = "deliver")
  BY DEF DeliveryFails, DeliverySkips, StartInstall, Installed, InstallFails,
         Delivery, vars
<1>2. currentRevision \in Commits /\ worktree \in Commits
  BY <1>1, AtDelivery
<1>3. CASE DeliveryFails
  BY <1>2, <1>3 DEF DeliveryFails, Delivery, Helm!DeliveryFails
<1>4. CASE DeliverySkips
  BY <1>1, <1>2, <1>4 DEF DeliverySkips, Delivery, Helm!DeliverySkips, Helm!Load
<1>5. CASE StartInstall
  <2>1. /\ chart' = worktree /\ release' = Helm!Record("pending-install")
        /\ work' = "installing" /\ UNCHANGED <<options, faults, base>>
    BY <1>5 DEF StartInstall, Delivery, Helm!StartInstall, Helm!Load
  <2>2. release' \in Helm!Records /\ release' # None
    BY <1>2, <2>1, RecordType DEF Statuses
  <2> QED BY <1>1, <1>2, <2>1, <2>2
<1>6. CASE Installed
  <2>1. /\ work = "installing" /\ release' = Helm!Marked(release, "deployed")
        /\ work' = "none" /\ UNCHANGED <<options, faults, chart, base>>
    BY <1>6 DEF Installed, Delivery, Helm!Installed
  <2>2. release' \in Helm!Records
    BY <2>1, MarkedType DEF Statuses
  <2> QED BY <2>1, <2>2
<1>7. CASE InstallFails
  <2>1. /\ work = "installing"
        /\ \E status \in {"uninstalling", "failed"} : release' = Helm!Marked(release, status)
        /\ work' \in {"cleaning", "none"} /\ UNCHANGED <<options, faults, chart, base>>
    BY <1>7 DEF InstallFails, Delivery, Helm!InstallFails
  <2>2. release' \in Helm!Records /\ release' # None
    BY <2>1, MarkedType DEF Statuses
  <2> QED BY <1>1, <2>1, <2>2
<1> QED BY <1>3, <1>4, <1>5, <1>6, <1>7

LEMMA UpgradeHInv ==
  ASSUME IInv, HInv,
         StartUpgrade \/ UpgradeRefused \/ Upgraded \/ UpgradeFails
         \/ RolledBack \/ RollbackFails
  PROVE  HInv'
<1> USE DEF HInv, Helm!TypeOK, WorkInv
<1>1. pc = "deliver" /\ (work' # "none" => pc' = "deliver")
  BY DEF StartUpgrade, UpgradeRefused, Upgraded, UpgradeFails, RolledBack,
         RollbackFails, Delivery, vars
<1>2. currentRevision \in Commits /\ worktree \in Commits
  BY <1>1, AtDelivery
<1>3. CASE StartUpgrade
  <2>1. /\ chart' = worktree /\ release' = Helm!Record("pending-upgrade")
        /\ base' \in {release, base}
        /\ work' = "upgrading" /\ UNCHANGED <<options, faults>>
    BY <1>3 DEF StartUpgrade, Delivery, Helm!StartUpgrade, Helm!Load
  <2>2. release' \in Helm!Records /\ release' # None
    BY <1>2, <2>1, RecordType DEF Statuses
  <2> QED BY <1>1, <1>2, <2>1, <2>2
<1>4. CASE UpgradeRefused
  BY <1>1, <1>2, <1>4 DEF UpgradeRefused, Delivery, Helm!UpgradeRefused, Helm!Load
<1>5. CASE Upgraded
  <2>1. /\ work = "upgrading" /\ release' = Helm!Marked(release, "deployed")
        /\ base' = None /\ work' = "none" /\ UNCHANGED <<options, faults, chart>>
    BY <1>5 DEF Upgraded, Delivery, Helm!Upgraded
  <2>2. release' \in Helm!Records
    BY <2>1, MarkedType DEF Statuses
  <2> QED BY <2>1, <2>2
<1>6. CASE UpgradeFails
  <2>1. /\ work = "upgrading"
        /\ \/ base # None /\ release' = Helm!Marked(base, "pending-rollback")
           \/ release' = Helm!Marked(release, "failed")
        /\ work' \in {"rolling back", "none"} /\ UNCHANGED <<options, faults, chart, base>>
    BY <1>6 DEF UpgradeFails, Delivery, Helm!UpgradeFails
  <2>2. release' \in Helm!Records /\ release' # None
    BY <2>1, MarkedType DEF Statuses
  <2> QED BY <1>1, <2>1, <2>2
<1>7. CASE RolledBack
  <2>1. /\ work = "rolling back" /\ release' = Helm!Marked(release, "deployed")
        /\ base' = None /\ work' = "none" /\ UNCHANGED <<options, faults, chart>>
    BY <1>7 DEF RolledBack, Delivery, Helm!RolledBack
  <2>2. release' \in Helm!Records
    BY <2>1, MarkedType DEF Statuses
  <2> QED BY <2>1, <2>2
<1>8. CASE RollbackFails
  <2>1. /\ work = "rolling back" /\ release' = Helm!Marked(release, "failed")
        /\ chart' = chart /\ base' \in {base, Helm!Record("superseded")}
        /\ work' = "none" /\ UNCHANGED <<options, faults>>
    BY <1>8 DEF RollbackFails, Delivery, Helm!RollbackFails
  <2>2. release' \in Helm!Records
    BY <2>1, MarkedType DEF Statuses
  <2>3. base' \in Helm!Records \cup {None}
    BY <1>2, <2>1, RecordType DEF Statuses
  <2> QED BY <2>1, <2>2, <2>3
<1> QED BY <1>3, <1>4, <1>5, <1>6, <1>7, <1>8

\* A reinstallation and a deletion.
LEMMA RemovalHInv ==
  ASSUME IInv, HInv,
         StartReinstall \/ Removed \/ RemovalFails \/ StartUninstall \/ UninstallRelease
  PROVE  HInv'
<1> USE DEF HInv, Helm!TypeOK, WorkInv
<1>1. CASE StartReinstall
  <2>1. /\ pc = "deliver" /\ pc' = "deliver" /\ chart' = worktree
        /\ release # None /\ release' = Helm!Marked(release, "uninstalling")
        /\ work' = "removing" /\ UNCHANGED <<options, faults, base>>
    BY <1>1 DEF StartReinstall, Delivery, Helm!StartReinstall, Helm!Load, vars
  <2>2. release' \in Helm!Records /\ release' # None
    BY <2>1, MarkedType DEF Statuses
  <2>3. worktree \in Commits
    BY <2>1, AtDelivery
  <2> QED BY <2>1, <2>2, <2>3
<1>2. CASE Removed
  BY <1>2 DEF Removed, Delivery, Helm!Removed, vars
<1>3. CASE RemovalFails
  BY <1>3 DEF RemovalFails, Delivery, Helm!RemovalFails, Helm!Purge
<1>4. CASE StartUninstall
  <2>1. /\ pc = "uninstall" /\ pc' = "uninstall"
        /\ release # None /\ release' = Helm!Marked(release, "uninstalling")
        /\ work' = "uninstalling" /\ UNCHANGED <<options, faults, chart, base>>
    BY <1>4 DEF StartUninstall, Helm!StartUninstall, vars
  <2>2. release' \in Helm!Records /\ release' # None
    BY <2>1, MarkedType DEF Statuses
  <2> QED BY <2>1, <2>2
<1>5. CASE UninstallRelease
  BY <1>5 DEF UninstallRelease, Helm!Uninstalled, Helm!UninstallRefused,
              Helm!UninstallFails, Helm!Drop, Helm!Purge
<1> QED BY <1>1, <1>2, <1>3, <1>4, <1>5

LEMMA NextHInv == IInv /\ HInv /\ [HelmNext]_allVars => HInv'
<1>1. CASE UNCHANGED allVars
  BY <1>1 DEF allVars, vars, helmVars, HInv, Helm!TypeOK, WorkInv
<1>2. ASSUME IInv, HInv, HelmNext PROVE HInv'
  BY <1>2, OutsideHInv, InstallHInv, UpgradeHInv, RemovalHInv DEF HelmNext
<1> QED BY <1>1, <1>2

LEMMA HelmInvariance == HelmSpec => []HInv
BY InitHInv, NextHInv, ApplicationInvariance, PTL DEF HelmSpec

\* Neither the Application nor the release record and what works on it leave
\* their types: an install, an upgrade or an uninstallation always has a record
\* to write its outcome to (helm.go:212-256).
THEOREM HelmTypeCorrect == HelmSpec => []HelmTypeOK
BY HelmInvariance, ApplicationInvariance, PTL DEF HInv, IInv, HelmTypeOK

-----------------------------------------------------------------------------
\* A record is what its description says, and so is the chart of an upgrade that
\* may still have to be recorded.
Right(r) == r = None \/ HeadRevision(r.files) = r.revision

ReleaseInv ==
  /\ Right(release) /\ Right(base)
  /\ work \in {"upgrading", "rolling back"} => HeadRevision(chart) = currentRevision

\* The chart that Delivery loads is the revision's.
LEMMA LoadsRevision ==
  ASSUME IInv, SteadyInv, pc = "deliver", Helm!Load
  PROVE  HeadRevision(chart') = currentRevision /\ chart' \in Commits
BY AtDelivery DEF IInv, RevisionInv, SteadyInv, Helm!Load

LEMMA MarkedRight ==
  ASSUME NEW r \in Helm!Records, NEW status \in Statuses, Right(r)
  PROVE  Right(Helm!Marked(r, status))
<1>1. HeadRevision(r.files) = r.revision
  BY NoneAssumption DEF Right
<1> QED BY <1>1, MarkedType DEF Right

LEMMA RecordRight ==
  ASSUME NEW status \in Statuses, currentRevision \in Commits, chart' \in Commits,
         HeadRevision(chart') = currentRevision
  PROVE  Right(Helm!Record(status))
BY RecordType DEF Right

LEMMA ReleaseStep ==
  ASSUME IInv, SteadyInv, HInv, ReleaseInv, HelmNext
  PROVE  ReleaseInv'
<1> USE DEF ReleaseInv
<1>1. HeadRevision(chart)' = HeadRevision(chart') /\ Right(release)' = Right(release')
      /\ Right(base)' = Right(base')
  BY DEF HeadRevision, Right
<1>2. release # None => release \in Helm!Records
  BY DEF HInv, Helm!TypeOK
<1>3. base # None => base \in Helm!Records
  BY DEF HInv, Helm!TypeOK
<1>4. CASE AppStep
  BY <1>4, AppStepWaits DEF AppStep, helmVars, HInv
<1>5. CASE ProcessEnds
  BY <1>5 DEF ProcessEnds, Helm!Crash, Helm!Drop
<1>6. CASE NewHelmProvider
  BY <1>6 DEF NewHelmProvider, ProviderCreated, Helm!NewHelmProvider, HInv, WorkInv
<1>7. CASE NewHelmProviderFails
  BY <1>7 DEF NewHelmProviderFails, ProviderRefused, Helm!NewHelmProviderFails,
              Helm!helmVars, HInv, WorkInv
<1>8. CASE DeliveryFails
  BY <1>8 DEF DeliveryFails, Delivery, Helm!DeliveryFails
<1>9. CASE DeliverySkips \/ UpgradeRefused
  BY <1>9 DEF DeliverySkips, UpgradeRefused, Delivery, Helm!DeliverySkips,
              Helm!UpgradeRefused
<1>10. CASE StartInstall
  <2>1. /\ pc = "deliver" /\ Helm!Load /\ release' = Helm!Record("pending-install")
        /\ work' = "installing" /\ base' = base
    BY <1>10 DEF StartInstall, Delivery, Helm!StartInstall
  <2> QED BY <1>1, <2>1, AtDelivery, LoadsRevision, RecordRight DEF Statuses
<1>11. CASE Installed \/ Upgraded \/ RolledBack
  <2>1. /\ release # None /\ release' = Helm!Marked(release, "deployed")
        /\ work' = "none" /\ base' \in {base, None}
    BY <1>11 DEF Installed, Upgraded, RolledBack, Delivery, Helm!Installed,
                 Helm!Upgraded, Helm!RolledBack, HInv, WorkInv
  <2>2. Right(None)
    BY DEF Right
  <2> QED BY <1>1, <1>2, <2>1, <2>2, MarkedRight DEF Statuses
<1>12. CASE InstallFails
  <2>1. /\ release # None /\ base' = base
        /\ \E status \in {"uninstalling", "failed"} : release' = Helm!Marked(release, status)
        /\ work' \in {"cleaning", "none"}
    BY <1>12 DEF InstallFails, Delivery, Helm!InstallFails, HInv, WorkInv
  <2> QED BY <1>1, <1>2, <2>1, MarkedRight DEF Statuses
<1>13. CASE StartUpgrade
  <2>1. /\ pc = "deliver" /\ Helm!Load /\ release' = Helm!Record("pending-upgrade")
        /\ base' \in {release, base} /\ currentRevision' = currentRevision
    BY <1>13 DEF StartUpgrade, Delivery, Helm!StartUpgrade, vars
  <2> QED BY <1>1, <2>1, AtDelivery, LoadsRevision, RecordRight DEF Statuses
<1>14. CASE UpgradeFails
  <2>1. /\ work = "upgrading" /\ release # None
        /\ \/ base # None /\ release' = Helm!Marked(base, "pending-rollback")
           \/ release' = Helm!Marked(release, "failed")
        /\ base' = base /\ chart' = chart /\ currentRevision' = currentRevision
    BY <1>14 DEF UpgradeFails, Delivery, Helm!UpgradeFails, HInv, WorkInv, vars, Delivered
  <2> QED BY <1>1, <1>2, <1>3, <2>1, MarkedRight DEF Statuses
<1>15. CASE RollbackFails
  <2>1. /\ work = "rolling back" /\ release # None
        /\ release' = Helm!Marked(release, "failed") /\ chart' = chart
        /\ base' \in {base, Helm!Record("superseded")} /\ work' = "none"
        /\ pc = "deliver" /\ chart \in Commits
    BY <1>15 DEF RollbackFails, Delivery, Helm!RollbackFails, HInv, WorkInv
  <2>2. Right(Helm!Record("superseded"))
    BY <2>1, AtDelivery, RecordRight DEF Statuses
  <2> QED BY <1>1, <1>2, <2>1, <2>2, MarkedRight DEF Statuses
<1>16. CASE StartReinstall \/ StartUninstall
  <2>1. /\ release # None /\ release' = Helm!Marked(release, "uninstalling")
        /\ work' \in {"removing", "uninstalling"} /\ base' = base
    BY <1>16 DEF StartReinstall, StartUninstall, Delivery, Helm!StartReinstall,
                 Helm!StartUninstall
  <2> QED BY <1>1, <1>2, <2>1, MarkedRight DEF Statuses
<1>17. CASE Removed \/ RemovalFails \/ UninstallRelease
  <2>1. /\ release' \in {release, None} /\ base' \in {base, None}
        /\ work' \in {"none", "reinstalling"}
    BY <1>17 DEF Removed, RemovalFails, UninstallRelease, Delivery, Helm!Removed,
                 Helm!RemovalFails, Helm!Uninstalled, Helm!UninstallRefused,
                 Helm!UninstallFails, Helm!Drop, Helm!Purge
  <2>2. Right(None)
    BY DEF Right
  <2> QED BY <1>1, <2>1, <2>2
<1> QED BY <1>4, <1>5, <1>6, <1>7, <1>8, <1>9, <1>10, <1>11, <1>12, <1>13, <1>14,
           <1>15, <1>16, <1>17 DEF HelmNext

\* The description of every record that counts is the revision of its chart, as
\* long as resets, pulls and checkouts fail only before the first revision of a
\* process: after failed upgrades, rollbacks, reinstallations and restarts too
\* (helm.go:311-360).
THEOREM ReleasesAreTheirRevisions ==
  ASSUME "late failure" \notin MayHappen
  PROVE  HelmSpec => []ReleaseIsItsRevision
<1>1. HelmInit => SteadyInv /\ ReleaseInv
  BY DEF HelmInit, Init, SteadyInv, Helm!Init, ReleaseInv, Right
<1>2. IInv /\ SteadyInv /\ [HelmNext]_allVars => SteadyInv'
  BY SteadyStep, ImplementsStep
<1>3. IInv /\ SteadyInv /\ HInv /\ ReleaseInv /\ [HelmNext]_allVars => ReleaseInv'
  <2>1. CASE UNCHANGED allVars
    BY <2>1 DEF allVars, vars, helmVars, ReleaseInv, Right, HeadRevision
  <2> QED BY <2>1, ReleaseStep
<1>4. ReleaseInv => ReleaseIsItsRevision
  <2> SUFFICES ASSUME ReleaseInv, NEW r \in {release, base}, r # None
               PROVE  HeadRevision(r.files) = r.revision
    BY DEF ReleaseIsItsRevision
  <2>1. Right(r)
    BY DEF ReleaseInv
  <2> QED BY <2>1 DEF Right
<1> QED BY <1>1, <1>2, <1>3, <1>4, ApplicationInvariance, HelmInvariance, PTL DEF HelmSpec
=============================================================================
