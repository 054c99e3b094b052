---------------------------- MODULE HelmDelivery ----------------------------
(***************************************************************************)
(* An Application delivered as a helm release: Application extended with   *)
(* HelmProvider.  They share the working tree and CurrentRevision, and the *)
(* life cycle waits for Delivery, which may take minutes and in which the  *)
(* process may end.                                                        *)
(***************************************************************************)
EXTENDS Application

CONSTANTS Defaults, Values, Options, FaultSets, None

ASSUME OptionsAssumption ==
  Options \subseteq [checkValuesEqual : BOOLEAN, reInstallRelease : BOOLEAN, atomic : BOOLEAN]

VARIABLES options, faults, chart, release, base, work

Helm == INSTANCE HelmProvider WITH Version <- HeadRevision

ASSUME NoneAssumption == None \notin Helm!Records

helmVars == <<options, faults, chart, release, base, work>>
allVars == <<vars, helmVars>>

HelmInit == Init /\ Helm!Init

-----------------------------------------------------------------------------
\* Goroutines and calls of the Application that the provider takes no part in.
AppStep ==
  /\ \/ Push \/ Create
     \/ NewRepository
     \/ UpdateRepository
     \/ DeleteUnknown \/ StartDelete
  /\ UNCHANGED helmVars

ProcessEnds == Crash /\ Helm!Crash

NewHelmProvider == ProviderCreated /\ Helm!NewHelmProvider
NewHelmProviderFails ==
  /\ ProviderRefused /\ Helm!NewHelmProviderFails
  /\ "provider" \in MayHappen \/ HeadRevision(worktree) = 0

\* The life cycle waits for a step of Delivery to be the last.
Delivery(step) ==
  /\ pc = "deliver"
  /\ step
  /\ IF work' = "none" THEN Delivered ELSE UNCHANGED vars

DeliveryFails == Delivery(Helm!DeliveryFails)
DeliverySkips == Delivery(Helm!DeliverySkips)
StartInstall == Delivery(Helm!StartInstall)
Installed == Delivery(Helm!Installed)
InstallFails == Delivery(Helm!InstallFails)
StartUpgrade == Delivery(Helm!StartUpgrade)
UpgradeRefused == Delivery(Helm!UpgradeRefused)
Upgraded == Delivery(Helm!Upgraded)
UpgradeFails == Delivery(Helm!UpgradeFails)
RolledBack == Delivery(Helm!RolledBack)
RollbackFails == Delivery(Helm!RollbackFails)
StartReinstall == Delivery(Helm!StartReinstall)
Removed == Delivery(Helm!Removed)
RemovalFails == Delivery(Helm!RemovalFails)

StartUninstall == pc = "uninstall" /\ Helm!StartUninstall /\ UNCHANGED vars

\* DeleteRepository removes the clone after a successful uninstallation only.
UninstallRelease ==
  \/ Helm!Uninstalled /\ (DeleteApplication \/ Uninstall)
  \/ (Helm!UninstallRefused \/ Helm!UninstallFails) /\ DeleteApplication

HelmNext ==
  \/ AppStep
  \/ ProcessEnds
  \/ NewHelmProvider \/ NewHelmProviderFails
  \/ DeliveryFails \/ DeliverySkips
  \/ StartInstall \/ Installed \/ InstallFails
  \/ StartUpgrade \/ UpgradeRefused \/ Upgraded \/ UpgradeFails
  \/ RolledBack \/ RollbackFails
  \/ StartReinstall \/ Removed \/ RemovalFails
  \/ StartUninstall \/ UninstallRelease

HelmSpec == HelmInit /\ [][HelmNext]_allVars

\* The check loop and the operator repeat what they do every minute, and no call
\* to the remote, of the loader or of helm fails for ever.
HelmFairness ==
  /\ SF_allVars(Progress /\ UNCHANGED helmVars)
  /\ SF_allVars(NewHelmProvider)
  /\ SF_allVars(DeliverySkips \/ UpgradeRefused)
  /\ SF_allVars(StartInstall \/ StartUpgrade \/ StartReinstall)
  /\ SF_allVars(Installed \/ Upgraded)
  /\ SF_allVars(RolledBack \/ Removed)
  /\ WF_allVars(DeliveryFails)
  /\ WF_allVars(StartUninstall \/ UninstallRelease)

FairHelmSpec == HelmSpec /\ HelmFairness

-----------------------------------------------------------------------------
(***************************************************************************)
(* Properties.                                                             *)
(***************************************************************************)
HelmTypeOK == TypeOK /\ Helm!TypeOK

\* The description of a record's chart, the provider's only memory of what it
\* delivered, is the revision of the files in it, after failed upgrades,
\* rollbacks to older records, reinstallations and restarts too: what is skipped
\* as "already exist" has the right contents.
ReleaseIsItsRevision ==
  \A r \in {release, base} \ {None} : HeadRevision(r.files) = r.revision

\* Single calls fail, but never a rollback or an uninstallation, and a failed
\* install or upgrade is undone.
Recoverable ==
  \/ faults \subseteq {"load"}
  \/ options.atomic /\ faults \subseteq {"load", "install", "upgrade"}

\* A clone of a commit without the chart is opened again and again, but nothing
\* fetches before the provider could be made.
Chartless == local # 0 /\ HeadRevision(local) = 0

\* When the remote is left alone, the chart of its head is deployed, or the
\* options say that one with the same values will do, or the last Pull met a
\* force-push: failed installations and upgrades, restarts and an old release met
\* after one do not keep Delivery from trying again.
HelmConverges ==
  <>[](wanted /\ Recoverable /\ ~Chartless /\ ~LeftBehind /\ HeadRevision(upstream) # 0
        => /\ release # None /\ release.status = "deployed"
           /\ \/ release.revision = HeadRevision(upstream)
              \/ options.checkValuesEqual /\ Defaults[release.files] = Values[upstream])

\* A deletion removes every record, also the pending one of a process that ended
\* and before the first revision of a new process, or somebody creates the
\* application again meanwhile.  No crash follows when the moves are spent.
HelmUninstallCleans ==
  pc = "uninstall" /\ moves = MaxMoves /\ "uninstall" \notin faults
    ~> release = None \/ wanted
=============================================================================
