---------------------------- MODULE HelmProvider ----------------------------
(***************************************************************************)
(* The delivery provider of an Application whose path is a helm chart      *)
(* (helm.go).  It takes the newest release record of the application's     *)
(* name for what is delivered, and the description of the record's chart,  *)
(* which it sets itself, for the revision.  What the actions of helm do    *)
(* with the records is helm's, and external.                               *)
(*                                                                         *)
(* A record outlives the process.  Helm writes a pending one before it     *)
(* touches the cluster and the outcome afterwards.                         *)
(***************************************************************************)
EXTENDS Naturals

CONSTANTS
  Commits,     \* commits the working tree may be at, positive numbers
  Version(_),  \* the last commit that changed the chart: 0, there is no chart
  Defaults,    \* values.yaml of the chart in a commit
  Values,      \* the value files in a commit, merged
  Options,     \* HelmActionOptions an application may have
  FaultSets,   \* what fails in one behaviour: sets of calls
  None         \* no record

VARIABLES
  worktree, currentRevision,  \* of the Application
  options,  \* HelmProvider.ActionOptions, the same for ever: see README
  faults,   \* a member of FaultSets, the same for ever
  chart,    \* the commit HelmProvider.chart was loaded from
  release,  \* the newest record
  base,     \* the record a failed upgrade is rolled back to, while the newest
            \* is not the deployed one
  work      \* the action of helm that runs

helmVars == <<options, faults, chart, release, base, work>>

-----------------------------------------------------------------------------
\* Mutant: the chart that NewHelmProvider loaded.
LoadOnce == chart' = IF chart = 0 THEN worktree ELSE chart

\* loadHelmChartWithValues
Load == Version(worktree) # 0 /\ chart' = worktree

\* A record of the loaded chart, whose description is the revision.
Record(status) == [status |-> status, revision |-> currentRevision, files |-> chart']

Marked(r, status) == [r EXCEPT !.status = status]

Init ==
  /\ options \in Options
  /\ faults \in FaultSets
  /\ chart = 0
  /\ release = None /\ base = None
  /\ work = "none"

\* The provider object is dropped.
Drop == chart' = 0 /\ work' = "none"

\* The process ends; with helm at work only if the behaviour says so.
Crash ==
  /\ work = "none" \/ "crash at work" \in faults
  /\ Drop
  /\ UNCHANGED <<options, faults, release, base>>

NewHelmProvider ==
  /\ Load
  /\ UNCHANGED <<options, faults, release, base, work>>

NewHelmProviderFails == UNCHANGED helmVars

-----------------------------------------------------------------------------
(***************************************************************************)
(* Delivery.  It returns when its work is none again.                      *)
(***************************************************************************)
\* The releases cannot be listed, the chart or its values not loaded or rendered.
DeliveryFails ==
  /\ work \in {"none", "reinstalling"}
  /\ "load" \in faults \/ Version(worktree) = 0
  /\ chart' \in {chart, worktree}
  /\ work' = "none"
  /\ UNCHANGED <<options, faults, release, base>>

\* "already exist", or "values not changed", which compares the defaults of the
\* release's chart with the value files.
Delivers ==
  /\ release # None
  /\ \/ release.revision = currentRevision
     \/ options.checkValuesEqual /\ Defaults[release.files] = Values[worktree]

DeliverySkips ==
  /\ work = "none"
  /\ Delivers
  /\ Load
  /\ UNCHANGED <<options, faults, release, base, work>>

StartInstall ==
  /\ work \in {"none", "reinstalling"}
  /\ release = None
  /\ Load
  /\ release' = Record("pending-install")
  /\ work' = "installing"
  /\ UNCHANGED <<options, faults, base>>

Installed ==
  /\ work = "installing"
  /\ release' = Marked(release, "deployed")
  /\ work' = "none"
  /\ UNCHANGED <<options, faults, chart, base>>

\* Mutant: install.Atomic is not set.
InstallFailsUncleaned ==
  /\ "install" \in faults
  /\ work = "installing"
  /\ release' = Marked(release, "failed")
  /\ work' = "none"
  /\ UNCHANGED <<options, faults, chart, base>>

\* Atomic: helm uninstalls what it has installed.
InstallFails ==
  /\ "install" \in faults
  /\ work = "installing"
  /\ release' = Marked(release, IF options.atomic THEN "uninstalling" ELSE "failed")
  /\ work' = IF options.atomic THEN "cleaning" ELSE "none"
  /\ UNCHANGED <<options, faults, chart, base>>

\* Helm upgrades no pending release, and an uninstalling one only as long as
\* there is a deployed record.
Upgradable ==
  \/ release.status \in {"deployed", "failed"}
  \/ release.status = "uninstalling" /\ base # None

StartUpgrade ==
  /\ work = "none"
  /\ release # None /\ ~Delivers /\ ~options.reInstallRelease
  /\ Upgradable
  /\ Load
  /\ base' = IF release.status = "deployed" THEN release ELSE base
  /\ release' = Record("pending-upgrade")
  /\ work' = "upgrading"
  /\ UNCHANGED <<options, faults>>

UpgradeRefused ==
  /\ work = "none"
  /\ release # None /\ ~Delivers /\ ~options.reInstallRelease
  /\ ~Upgradable
  /\ Load
  /\ UNCHANGED <<options, faults, release, base, work>>

Upgraded ==
  /\ work = "upgrading"
  /\ release' = Marked(release, "deployed") /\ base' = None
  /\ work' = "none"
  /\ UNCHANGED <<options, faults, chart>>

\* Atomic: a record of the last good chart follows the failed one.
UpgradeFails ==
  /\ "upgrade" \in faults
  /\ work = "upgrading"
  /\ IF options.atomic /\ base # None
       THEN release' = Marked(base, "pending-rollback") /\ work' = "rolling back"
       ELSE release' = Marked(release, "failed") /\ work' = "none"
  /\ UNCHANGED <<options, faults, chart, base>>

RolledBack ==
  /\ work = "rolling back"
  /\ release' = Marked(release, "deployed") /\ base' = None
  /\ work' = "none"
  /\ UNCHANGED <<options, faults, chart>>

\* A rollback that fails early takes the failed upgrade for superseded, and the
\* next one goes back to that.
RollbackFails ==
  /\ "rollback" \in faults
  /\ work = "rolling back"
  /\ release' = Marked(release, "failed")
  /\ UNCHANGED chart
  /\ base' \in {base, Record("superseded")}
  /\ work' = "none"
  /\ UNCHANGED <<options, faults>>

StartReinstall ==
  /\ work = "none"
  /\ release # None /\ ~Delivers /\ options.reInstallRelease
  /\ Load
  /\ release' = Marked(release, "uninstalling")
  /\ work' = "removing"
  /\ UNCHANGED <<options, faults, base>>

\* The uninstallation of a failed install, or before a reinstall, ends: all
\* records are purged.
Removed ==
  /\ work \in {"cleaning", "removing"}
  /\ release' = None /\ base' = None
  /\ work' = IF work = "removing" THEN "reinstalling" ELSE "none"
  /\ UNCHANGED <<options, faults, chart>>

\* It fails before or after it has purged the records.
Purge == release' \in {release, None} /\ base' = IF release' = None THEN None ELSE base

RemovalFails ==
  /\ "uninstall" \in faults
  /\ work \in {"cleaning", "removing"}
  /\ Purge
  /\ work' = "none"
  /\ UNCHANGED <<options, faults, chart>>

-----------------------------------------------------------------------------
(***************************************************************************)
(* Uninstall, which needs no revision.                                     *)
(***************************************************************************)
\* Mutant: like RawProvider, nothing was delivered as long as there is none.
StartUninstallOfRevision ==
  /\ work = "none"
  /\ release # None /\ currentRevision # 0
  /\ release' = Marked(release, "uninstalling")
  /\ work' = "uninstalling"
  /\ UNCHANGED <<options, faults, chart, base>>

StartUninstall ==
  /\ work = "none"
  /\ release # None
  /\ release' = Marked(release, "uninstalling")
  /\ work' = "uninstalling"
  /\ UNCHANGED <<options, faults, chart, base>>

Uninstalled ==
  /\ work = "uninstalling"
  /\ release' = None /\ base' = None
  /\ Drop
  /\ UNCHANGED <<options, faults>>

\* There is no release, or a hook fails before it is marked.
UninstallRefused ==
  /\ work = "none"
  /\ release = None \/ "uninstall" \in faults
  /\ Drop
  /\ UNCHANGED <<options, faults, release, base>>

UninstallFails ==
  /\ "uninstall" \in faults
  /\ work = "uninstalling"
  /\ Purge
  /\ Drop
  /\ UNCHANGED <<options, faults>>

-----------------------------------------------------------------------------
Records == [status : {"pending-install", "pending-upgrade", "pending-rollback",
                      "deployed", "failed", "superseded", "uninstalling"},
            revision : Commits, files : Commits]

TypeOK ==
  /\ options \in Options
  /\ faults \in FaultSets
  /\ chart \in Commits \cup {0}
  /\ release \in Records \cup {None}
  /\ base \in Records \cup {None}
  /\ work \in {"none", "installing", "cleaning", "upgrading", "rolling back",
               "removing", "reinstalling", "uninstalling"}
=============================================================================
