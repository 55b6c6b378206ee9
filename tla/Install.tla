------------------------------ MODULE Install ------------------------------
(***************************************************************************)
(* The offline installer (offline/install-offline.sh): an upgrade stops    *)
(* the services, moves legacy state out of the application directory,      *)
(* moves the old payload into a backup directory, installs the new one,    *)
(* verifies it and starts the services.  A command that fails rolls back   *)
(* through the EXIT trap.  A signal (a lost SSH session) or a kill ends a  *)
(* run where it is, without a rollback: the trap runs with the status of   *)
(* the last command, which was 0.  A run that did not complete may be      *)
(* followed by another, and by a boot, which starts the services that are  *)
(* enabled.                                                                *)
(*                                                                         *)
(* systemctl stop is taken to stop the services.  Nobody starts them by    *)
(* hand.                                                                   *)
(***************************************************************************)
EXTENDS Integers, Sequences, FiniteSets

CONSTANTS
  None,
  Services,       \* backend and frontend
  Linked,         \* state besides the accounts that the application reaches by a link
  Plain,          \* databases and settings found by their path in the unit files
  OwnUsers,       \* whether the old version keeps its accounts beside itself
  RootIsLink,     \* whether the application directory is a symbolic link
  RemovalFails,   \* whether rm -rf of the backup may fail half way
  MaxRuns

ASSUME InstallAssumption ==
  /\ Linked \cap Plain = {} /\ "users" \notin Linked \cup Plain
  /\ {OwnUsers, RootIsLink, RemovalFails} \subseteq BOOLEAN /\ MaxRuns \in Nat
  /\ None \notin {"old", "new", "part", "other", "link", "loop"}

\* Parts of the payload: what is copied, the Python environment, the unit files.
Items == {"app", "venv", "unit"}

\* The stages of a run after the backup.
Stages == <<"app", "links", "venv", "users", "verify", "unit", "enable">>

Empty == [i \in Items |-> None]

VARIABLES
  place,      \* REPLACE_PATHS: item -> "old", "new", "part" (half written) or None
  dirs,       \* the backup directories, one per run that made one
  legacy,     \* state still in the application directory
  home,       \* state in the state and configuration directories
  accounts,   \* users.json in the application and the configuration directory
  bootstrap,  \* bootstrap-credentials.json exists
  running,    \* services that are up
  enabled,    \* services that a boot starts
  run,        \* the variables of the running script
  before,     \* history: what the last run found
  torn,       \* history: whether a run was left inside one of the windows of Window
  runs, ended

vars == <<place, dirs, legacy, home, accounts, bootstrap, running, enabled, run, before, torn, runs, ended>>
state == <<legacy, home, accounts, bootstrap>>
log == <<before, runs>>

NoRun == [phase |-> "idle", todo |-> {}, stage |-> 1, active |-> {}, moved |-> {},
          complete |-> FALSE]

\* A users.json: the accounts of the earlier installation, other ones, the link of
\* the application directory, or that link moved onto the file it points to.
UsersFile == {None, "old", "other", "link", "loop"}

Last == Len(dirs)
Whole(p) == \E v \in {"old", "new"} : \A i \in Items : p[i] = v

Init ==
  /\ place = [i \in Items |-> "old"]
  /\ dirs = <<>>
  /\ legacy \in SUBSET (Linked \cup Plain) /\ home \in SUBSET (Linked \cup Plain)
  /\ accounts \in [app : {None, "old"}, etc : {None, "old"}] \cup {[app |-> "link", etc |-> "old"]}
  /\ bootstrap = FALSE
  /\ running \in SUBSET Services /\ enabled \in {{}, Services}
  /\ run = NoRun /\ runs = 0 /\ ended = "none" /\ torn = "no"
  /\ before = [place |-> place, dirs |-> dirs, running |-> running]

-----------------------------------------------------------------------------
(* main *)

\* Mutant: what runs is asked after it was stopped.
CaptureAfterStop(up) == {}

\* capture_service_state.
Capture(up) == up

\* main up to the trap: capture_service_state, stop_existing_services.  State is
\* moved only out of an application directory that is one itself.
Begin ==
  /\ run.phase = "idle" /\ ended # "completed" /\ runs < MaxRuns
  /\ run' = [NoRun EXCEPT !.phase = "migrate", !.active = Capture(running),
                           !.todo = IF RootIsLink THEN {} ELSE legacy \cup {"users"}]
  /\ before' = [place |-> place, dirs |-> dirs, running |-> running]
  /\ running' = {} /\ runs' = runs + 1 /\ ended' = "none"
  /\ UNCHANGED <<place, dirs, state, enabled, torn>>

\* move_if_destination_absent: otherwise both are preserved.
Migrate(s) ==
  /\ run.phase = "migrate" /\ s \in run.todo \ {"users"}
  /\ legacy' = IF s \in home THEN legacy ELSE legacy \ {s}
  /\ home' = home \cup {s}
  /\ run' = [run EXCEPT !.todo = @ \ {s}]
  /\ UNCHANGED <<place, dirs, accounts, bootstrap, running, enabled, log, torn, ended>>

\* Mutant: a file is moved over one that is there.
MovableAlways(source, destination) == source # None

\* A link counts as a file that exists, also one that leads nowhere.
Movable(source, destination) == source # None /\ destination = None

\* The link that an earlier run left before there were accounts becomes a link
\* to itself.
MigrateUsers ==
  /\ run.phase = "migrate" /\ "users" \in run.todo
  /\ accounts' = IF ~Movable(accounts.app, accounts.etc) THEN accounts
                 ELSE [app |-> None, etc |-> IF accounts.app = "link" THEN "loop" ELSE accounts.app]
  /\ run' = [run EXCEPT !.todo = @ \ {"users"}]
  /\ UNCHANGED <<place, dirs, legacy, home, bootstrap, running, enabled, log, torn, ended>>

\* backup_application_payload: a new backup directory arms the rollback.
Arm ==
  /\ run.phase = "migrate" /\ run.todo = {}
  /\ run' = [run EXCEPT !.phase = "backup", !.todo = {i \in Items : place[i] # None}]
  /\ dirs' = Append(dirs, Empty)
  /\ UNCHANGED <<place, state, running, enabled, log, torn, ended>>

\* mv and MOVED_PATHS+=: what comes between them forgets MOVED_PATHS anyway.
Backup(i) ==
  /\ run.phase = "backup" /\ i \in run.todo
  /\ dirs' = [dirs EXCEPT ![Last][i] = place[i]]
  /\ place' = [place EXCEPT ![i] = None]
  /\ run' = [run EXCEPT !.todo = @ \ {i}, !.moved = @ \cup {i}]
  /\ UNCHANGED <<state, running, enabled, log, torn, ended>>

BackedUp ==
  /\ run.phase = "backup" /\ run.todo = {}
  /\ run' = [run EXCEPT !.phase = "install", !.complete = TRUE]
  /\ UNCHANGED <<place, dirs, state, running, enabled, log, torn, ended>>

At(stage) == run.phase = "install" /\ Stages[run.stage] = stage
NextStage == run' = [run EXCEPT !.stage = @ + 1]

\* replace_application_payload, install_python_environment and install_frontend,
\* write_service_files: an item is half written before it is whole.
Write(i) ==
  /\ At(i)
  /\ place' = [place EXCEPT ![i] = IF @ = "part" THEN "new" ELSE "part"]
  /\ IF place[i] = "part" THEN NextStage ELSE UNCHANGED run
  /\ UNCHANGED <<dirs, state, running, enabled, log, torn, ended>>

\* prepare_persistent_state makes what is linked to, but not the accounts.
PrepareState ==
  /\ At("links") /\ ~(Linked \subseteq home)
  /\ home' = home \cup Linked
  /\ UNCHANGED <<place, dirs, legacy, accounts, bootstrap, running, enabled, run, log, torn, ended>>

\* The link to accounts that may not exist yet; no rollback removes it.
LinkUsers ==
  /\ At("links") /\ Linked \subseteq home /\ accounts.app = None
  /\ accounts' = [accounts EXCEPT !.app = "link"]
  /\ UNCHANGED <<place, dirs, legacy, home, bootstrap, running, enabled, run, log, torn, ended>>

\* The other links.  A file that was preserved beside the current one is in the
\* way of its link, and the run fails.
LinkRest ==
  /\ At("links") /\ Linked \subseteq home /\ accounts.app = "link" /\ Linked \cap legacy = {}
  /\ NextStage
  /\ UNCHANGED <<place, dirs, state, running, enabled, log, torn, ended>>

\* initialize_users_file, for passwords that the caller did not supply: their file
\* is opened for exclusive creation, and the run fails if there is one.
WriteBootstrap ==
  /\ At("users") /\ accounts.etc = None /\ ~bootstrap
  /\ bootstrap' = TRUE
  /\ UNCHANGED <<place, dirs, legacy, home, accounts, running, enabled, run, log, torn, ended>>

\* load_users, after the generated passwords were written or because the caller
\* supplied both.
CreateUsers ==
  /\ At("users") /\ accounts.etc = None
  /\ accounts' = [accounts EXCEPT !.etc = "other"]
  /\ NextStage
  /\ UNCHANGED <<place, dirs, legacy, home, bootstrap, running, enabled, log, torn, ended>>

\* A link counts as a file that exists, also one to itself.
FindUsers ==
  /\ At("users") /\ accounts.etc # None
  /\ NextStage
  /\ UNCHANGED <<place, dirs, state, running, enabled, log, torn, ended>>

\* verify_installation.
Verify ==
  /\ At("verify") /\ NextStage
  /\ UNCHANGED <<place, dirs, state, running, enabled, log, torn, ended>>

\* enable_services: enabled together, then started.
EnableUnits ==
  /\ At("enable") /\ enabled # Services
  /\ enabled' = Services
  /\ UNCHANGED <<place, dirs, state, running, run, log, torn, ended>>

Enable(s) ==
  /\ At("enable") /\ enabled = Services /\ s \notin running
  /\ running' = running \cup {s}
  /\ UNCHANGED <<place, dirs, state, enabled, run, log, torn, ended>>

\* complete_application_replacement: rm -rf of the backup, item by item.
Discard(i) ==
  /\ At("enable") /\ running = Services /\ dirs[Last][i] # None
  /\ dirs' = [dirs EXCEPT ![Last][i] = None]
  /\ UNCHANGED <<place, state, running, enabled, run, log, torn, ended>>

Complete ==
  /\ At("enable") /\ running = Services /\ dirs[Last] = Empty
  /\ run' = NoRun /\ ended' = "completed" /\ torn' = "no"
  /\ UNCHANGED <<place, dirs, state, running, enabled, log>>

-----------------------------------------------------------------------------
(* installation_exit, rollback_failed_install *)

\* Mutant: the paths are removed whether or not all of them were moved.
RemoveAlways == IF run.moved = {} THEN "services" ELSE "remove"

\* Without a backup directory only the services are to be restored; without a
\* whole backup nothing new was written.
RollbackBegins ==
  IF run.complete THEN "remove" ELSE IF run.phase = "backup" THEN "back" ELSE "services"

\* A command of main fails; with RemovalFails also rm -rf of the backup, half way.
Fail ==
  /\ run.phase \in {"migrate", "backup", "install"}
  /\ RemovalFails \/ \A i \in run.moved : dirs[Last][i] # None
  /\ run' = [run EXCEPT !.phase = RollbackBegins, !.todo = Items]
  /\ running' = IF run.complete THEN {} ELSE running
  /\ UNCHANGED <<place, dirs, state, enabled, log, torn, ended>>

\* rm -rf of REPLACE_PATHS.
Remove(i) ==
  /\ run.phase = "remove" /\ i \in run.todo
  /\ place' = [place EXCEPT ![i] = None]
  /\ run' = [run EXCEPT !.todo = @ \ {i}, !.phase = IF run.todo = {i} THEN "back" ELSE @]
  /\ UNCHANGED <<dirs, state, running, enabled, log, torn, ended>>

\* A backup that is not there is skipped.
PutBack(i) ==
  /\ run.phase = "back" /\ i \in run.moved
  /\ IF dirs[Last][i] = None THEN UNCHANGED <<place, dirs>>
     ELSE /\ place' = [place EXCEPT ![i] = dirs[Last][i]]
          /\ dirs' = [dirs EXCEPT ![Last][i] = None]
  /\ run' = [run EXCEPT !.moved = @ \ {i}]
  /\ UNCHANGED <<state, running, enabled, log, torn, ended>>

RemoveBackup ==
  /\ run.phase = "back" /\ run.moved = {}
  /\ dirs' = [dirs EXCEPT ![Last] = Empty]
  /\ run' = [run EXCEPT !.phase = "services"]
  /\ UNCHANGED <<place, state, running, enabled, log, torn, ended>>

\* Mutant: a rollback that cannot go on restores the services.
GiveUpReviving == [run EXCEPT !.phase = "services"]

\* "backup retained", the services stay down.
GiveUp == NoRun

\* Inside the backup, its rollback and the writing of the unit files, unit files
\* may be in place beside a payload that is not whole.
Window == run.phase \in {"backup", "remove", "back"} \/ At("unit")
Left == IF Window /\ torn = "no" THEN "stopped" ELSE torn

\* A command of the rollback fails: rm of the new payload, mv or systemctl start.
\* That of the emptied backup directory may fail without effect.
RollbackFails ==
  /\ run.phase \in {"remove", "back", "services"} /\ (run.phase = "back" => run.moved # {})
  /\ run' = IF run.phase = "services" THEN NoRun ELSE GiveUp
  /\ ended' = "manual" /\ torn' = Left
  /\ UNCHANGED <<place, dirs, state, running, enabled, log>>

\* restore_previously_active_services.
Restart(s) ==
  /\ run.phase = "services" /\ s \in run.active \ running
  /\ running' = running \cup {s}
  /\ UNCHANGED <<place, dirs, state, enabled, run, log, torn, ended>>

RolledBack ==
  /\ run.phase = "services" /\ run.active \subseteq running
  /\ run' = NoRun /\ ended' = "rolledBack"
  /\ UNCHANGED <<place, dirs, state, running, enabled, log, torn>>

-----------------------------------------------------------------------------
(* What happens to the installer and between its runs *)

\* A signal, kill -9 or the machine's end: no rollback.
Kill ==
  /\ run.phase # "idle"
  /\ run' = NoRun /\ ended' = "killed" /\ torn' = Left
  /\ UNCHANGED <<place, dirs, state, running, enabled, log>>

\* A boot after a run that did not complete starts enabled units that are there;
\* any of them may fail to come up.
Boot ==
  /\ run.phase = "idle" /\ ended \in {"killed", "manual", "rolledBack"}
  /\ running' \in SUBSET (IF place["unit"] = None THEN {} ELSE enabled)
  /\ torn' = IF torn = "stopped" THEN "booted" ELSE torn
  /\ ended' = "booted"
  /\ UNCHANGED <<place, dirs, state, enabled, run, log>>

\* load_users of the old version: default accounts where it finds none, written
\* through the link if there is one.
Seed ==
  /\ running # {} /\ place["unit"] = "old"
  /\ LET own == OwnUsers /\ accounts.app # "link"
     IN  /\ (IF own THEN accounts.app ELSE accounts.etc) = None
         /\ accounts' = IF own THEN [accounts EXCEPT !.app = "other"] ELSE [accounts EXCEPT !.etc = "other"]
  /\ UNCHANGED <<place, dirs, legacy, home, bootstrap, running, enabled, run, log, torn, ended>>

Work ==
  \/ Begin \/ MigrateUsers \/ Arm \/ BackedUp \/ PrepareState \/ LinkUsers \/ LinkRest
  \/ WriteBootstrap \/ CreateUsers \/ FindUsers \/ Verify \/ EnableUnits \/ Complete
  \/ \E s \in Linked \cup Plain : Migrate(s)
  \/ \E i \in Items : Backup(i) \/ Write(i) \/ Discard(i)
  \/ \E s \in Services : Enable(s)

Rollback ==
  \/ RemoveBackup \/ RolledBack
  \/ \E i \in Items : Remove(i) \/ PutBack(i)
  \/ \E s \in Services : Restart(s)

Next == Work \/ Rollback \/ Fail \/ RollbackFails \/ Kill \/ Boot \/ Seed

Spec == Init /\ [][Next]_vars

-----------------------------------------------------------------------------
(* Properties *)

\* One payload, the old one or the new one, is whole in place or in backup
\* directories, whatever failed or was killed in however many runs
\* (rollback_failed_install: "backup retained").  The exception is a removal of the
\* backup that fails half way after the new payload was started (RemovalFails): the
\* rollback then removes the new payload and puts back what is left of the old.
PayloadKept ==
  \E v \in {"old", "new"} : \A i \in Items :
    place[i] = v \/ \E d \in DOMAIN dirs : dirs[d][i] = v

\* Services are up only on a payload that is whole and of one version: neither the
\* installer (restore_previously_active_services, enable_services) nor a boot
\* starts them on what a failed rollback or a killed run left.  The exception is
\* a run that stopped inside a Window and was followed by a boot: the enabled
\* units then start on what is there, and a later run that is rolled back starts
\* them again, until a run completes.
RunsWholePayload == torn # "booted" /\ running # {} => Whole(place)

\* A run that rolled back left the payload, the backup directories and the
\* services as it found them, also when it found what an earlier run had left; a
\* directory of its own is removed, which stands here as an empty one
\* (tests/test_offline_upgrade.py:88, test_failed_upgrade_restores_payload_...).
RollbackIsExact ==
  ended = "rolledBack" /\ run.phase = "idle" =>
    /\ place = before.place
    /\ running = before.running
    /\ dirs \in {before.dirs, Append(before.dirs, Empty)}

\* The accounts of the earlier installation are never written over, no passwords
\* are generated beside them, and a run that completes has them where the
\* application looks, whatever stopped before (offline/README.md:78, "Existing
\* users and passwords are preserved on an upgrade").
OldUsers == "old" \in {accounts.app, accounts.etc}
OldUsersKept ==
  [][OldUsers => /\ OldUsers' /\ bootstrap' = bootstrap
                 /\ ended' = "completed" => accounts'.etc = "old"]_<<accounts, bootstrap, ended>>

=============================================================================
