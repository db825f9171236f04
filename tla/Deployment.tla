----------------------------- MODULE Deployment -----------------------------
(***************************************************************************)
(* Installation, upgrade, backup, rollback and removal on the host         *)
(* (deploy/manage.sh with pitblu-state, deployment.py), called directly or *)
(* by the guided installer (install_cli.py).  The script takes its steps   *)
(* under a lock and stops at the first that fails; it may be killed, and   *)
(* the host may start again, between any two.                              *)
(*                                                                         *)
(* Releases are numbered as they are built, and a database is known by the *)
(* newest release that has opened it: opening migrates.  What one release  *)
(* may leave undone in the database of another is not told apart further.  *)
(***************************************************************************)
EXTENDS Naturals, Sequences, FiniteSets

CONSTANTS
  MaxReleases,   \* bound: releases built
  MaxBackups     \* bound: backups made

ASSUME DeploymentAssumption == MaxReleases \in Nat /\ MaxBackups \in Nat

VARIABLES
  current,   \* the release that the link current selects
  database,  \* state.sqlite3
  unit,      \* the release whose systemd unit is installed
  enabled,   \* systemd starts it with the host
  running,   \* the service runs
  built,     \* releases so far
  backups,   \* the complete backup directories
  script,    \* manage.sh: the steps it still has to take
  broken     \* history: a script has stopped the service and not come to its end

deploymentVars == <<current, database, unit, enabled, running, built, backups, script, broken>>

None == 0
Torn == MaxReleases + 1        \* a database that was not copied to its end
ReleaseIds == 1..MaxReleases
NoBackup == [release |-> None, database |-> None, unit |-> None]
NoScript == [steps |-> <<>>, release |-> None, source |-> NoBackup]

Newer(a, b) == IF a < b THEN b ELSE a
Opened(r) == IF database = Torn THEN Torn ELSE Newer(database, r)

DeploymentInit ==
  /\ current = None /\ database = None /\ unit = None
  /\ enabled = FALSE /\ running = FALSE
  /\ built = 0
  /\ backups = {}
  /\ script = NoScript
  /\ broken = FALSE

(***************************************************************************)
(* What is asked for                                                       *)
(***************************************************************************)
\* install_cli.py: installed
Installed == current # None \/ unit # None

InstallSteps == <<"build", "bootstrap", "validate", "select", "unit">>
UpgradeSteps == <<"build", "stop", "backup", "validate", "select", "unit", "start">>
RollbackSteps == <<"stop", "backup", "database", "unit", "select", "start">>

Ask(steps, source) ==
  /\ script = NoScript
  /\ script' = [steps |-> steps, release |-> None, source |-> source]
  /\ UNCHANGED <<current, database, unit, enabled, running, built, backups, broken>>

MayInstall == current = None /\ database = None /\ unit = None
MayUpgrade == current # None

AskInstall == MayInstall /\ built < MaxReleases /\ Ask(InstallSteps, NoBackup)
AskUpgrade == MayUpgrade /\ built < MaxReleases /\ Ask(UpgradeSteps, NoBackup)
AskBackup == MayUpgrade /\ Ask(<<"backup">>, NoBackup)
AskRollback(b) == b \in backups /\ Ask(RollbackSteps, b)
AskUninstall == Ask(<<"disable", "remove">>, NoBackup)

\* The installer, or an administrator, enables the service once it is installed.
Enable ==
  /\ script = NoScript
  /\ unit # None /\ current # None
  /\ enabled' = TRUE /\ running' = TRUE
  /\ database' = Opened(current)
  /\ UNCHANGED <<current, unit, built, backups, script, broken>>

(***************************************************************************)
(* The steps                                                               *)
(***************************************************************************)
Taking(step) == script.steps # <<>> /\ Head(script.steps) = step
Left == Tail(script.steps)
Advance == script' = IF Left = <<>> THEN NoScript ELSE [script EXCEPT !.steps = Left]

\* What is rolled back to, or the new release.
Source == IF script.source = NoBackup THEN script.release ELSE script.source.release

Build ==
  /\ Taking("build")
  /\ built' = built + 1
  /\ script' = [script EXCEPT !.steps = Left, !.release = built']
  /\ UNCHANGED <<current, database, unit, enabled, running, backups, broken>>

\* pitblu-state bootstrap makes the database, and validate opens it.
OpenDatabase ==
  /\ Taking("bootstrap") \/ Taking("validate")
  /\ database' = Opened(script.release)
  /\ Advance
  /\ UNCHANGED <<current, unit, enabled, running, built, backups, broken>>

\* systemctl knows the service by its unit.
StopService ==
  /\ Taking("stop")
  /\ unit # None
  /\ running' = FALSE
  /\ broken' = TRUE
  /\ Advance
  /\ UNCHANGED <<current, database, unit, enabled, built, backups>>

\* A backup counts when its last file, release, is written.  Whether it was made while nothing
\* was half done is not written down: the history of the model knows.
\* Fault: the new release is written into it.
RecordedFault == IF script.release = None THEN current ELSE script.release
Recorded == current

BackUp ==
  /\ Taking("backup")
  /\ database \notin {None, Torn} /\ unit # None
  /\ Cardinality(backups) < MaxBackups
  /\ backups' = backups \cup {[release |-> Recorded, database |-> database, unit |-> unit]}
  /\ Advance
  /\ UNCHANGED <<current, database, unit, enabled, running, built, broken>>

RestoreDatabase ==
  /\ Taking("database")
  /\ database' \in {script.source.database, Torn}
  /\ IF database' = Torn THEN script' = NoScript ELSE Advance
  /\ UNCHANGED <<current, unit, enabled, running, built, backups, broken>>

Select ==
  /\ Taking("select")
  /\ current' = Source
  /\ Advance
  /\ UNCHANGED <<database, unit, enabled, running, built, backups, broken>>

InstallUnit ==
  /\ Taking("unit")
  /\ unit' = IF script.source = NoBackup THEN script.release ELSE script.source.unit
  /\ Advance
  /\ UNCHANGED <<current, database, enabled, running, built, backups, broken>>

\* Whole: what a backup or the host has fits together.
Whole(b) == b.database = b.release /\ b.unit = b.release

\* A rollback repairs what its backup had whole.
StartService ==
  /\ Taking("start")
  /\ running' = TRUE
  /\ database' = Opened(current)
  /\ broken' = (script.source # NoBackup /\ ~Whole(script.source))
  /\ Advance
  /\ UNCHANGED <<current, unit, enabled, built, backups>>

Disable ==
  /\ Taking("disable")
  /\ unit # None
  /\ enabled' = FALSE /\ running' = FALSE
  /\ Advance
  /\ UNCHANGED <<current, database, unit, built, backups, broken>>

RemoveUnit ==
  /\ Taking("remove")
  /\ unit' = None
  /\ Advance
  /\ UNCHANGED <<current, database, enabled, running, built, backups, broken>>

\* A step fails, or the script is killed.
BreaksOff ==
  /\ script # NoScript
  /\ script' = NoScript
  /\ UNCHANGED <<current, database, unit, enabled, running, built, backups, broken>>

HostStarts ==
  /\ script' = NoScript
  /\ running' = (enabled /\ unit # None /\ current # None)
  /\ database' = IF running' THEN Opened(current) ELSE database
  /\ UNCHANGED <<current, unit, enabled, built, backups, broken>>

Asked ==
  \/ AskInstall \/ AskUpgrade \/ AskBackup \/ AskUninstall
  \/ \E b \in backups : AskRollback(b)

StepTaken ==
  \/ Build \/ OpenDatabase \/ StopService \/ BackUp \/ RestoreDatabase
  \/ Select \/ InstallUnit \/ StartService \/ Disable \/ RemoveUnit

DeploymentNext == Asked \/ Enable \/ StepTaken \/ BreaksOff \/ HostStarts

DeploymentSpec == DeploymentInit /\ [][DeploymentNext]_deploymentVars

(***************************************************************************)
(* Properties                                                              *)
(***************************************************************************)
Databases == ReleaseIds \cup {None, Torn}
Backups == [release : ReleaseIds, database : ReleaseIds, unit : ReleaseIds]

\* Every variable keeps its type.
DeploymentTypeOK ==
  /\ current \in ReleaseIds \cup {None}
  /\ database \in Databases
  /\ unit \in ReleaseIds \cup {None}
  /\ enabled \in BOOLEAN /\ running \in BOOLEAN /\ broken \in BOOLEAN
  /\ built \in 0..MaxReleases
  /\ backups \subseteq Backups
  /\ script.release \in ReleaseIds \cup {None}
  /\ script.source \in Backups \cup {NoBackup}

\* The service runs with the database and the unit of its own release, unless an upgrade or
\* a rollback was broken off; and then the database still is of the selected release, or some
\* backup is whole.
Host == [release |-> current, database |-> database, unit |-> unit]

Recoverable ==
  /\ running /\ ~broken => Whole(Host)
  /\ broken => database = current \/ \E b \in backups : Whole(b)

\* docs/terminal-tools.md: "If interrupted, inspect the last result and rerun": the guided
\* installer, which decides between install and upgrade by what it finds, can be run again.
Rerunnable ==
  script = NoScript =>
    IF Installed THEN MayUpgrade /\ unit # None ELSE MayInstall
=============================================================================
