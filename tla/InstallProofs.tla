--------------------------- MODULE InstallProofs ---------------------------
(***************************************************************************)
(* Proofs about Install for any services, any legacy state and any number  *)
(* of runs, each of which may fail, be rolled back, or be killed.          *)
(*                                                                         *)
(* The invariant says, phase by phase, where the payload that the run      *)
(* found is: in place, in the run's backup directory, or item by item in   *)
(* one of the two.                                                         *)
(***************************************************************************)
EXTENDS Install, TLAPS

Contents == {None, "old", "new", "part"}
Payload  == [Items -> Contents]

RunRecord ==
  [phase : {"idle", "migrate", "backup", "install", "remove", "back", "services"},
   todo : SUBSET (Items \cup Linked \cup Plain \cup {"users"}), stage : 1 .. 7,
   active : SUBSET Services, moved : SUBSET Items,
   complete : BOOLEAN]

TypeInv ==
  /\ place \in Payload /\ dirs \in Seq(Payload)
  /\ legacy \in SUBSET (Linked \cup Plain) /\ home \in SUBSET (Linked \cup Plain)
  /\ accounts \in [app : UsersFile, etc : UsersFile]
  /\ bootstrap \in BOOLEAN /\ running \in SUBSET Services /\ enabled \in SUBSET Services
  /\ run \in RunRecord /\ torn \in {"no", "stopped", "booted"}
  /\ before \in [place : Payload, dirs : Seq(Payload), running : SUBSET Services]
  /\ run.complete \/ run.phase \in {"backup", "install", "remove", "back"} => Last \in Nat \ {0}

\* Behind the links, what the application directory has of the accounts is a link:
\* accounts of the earlier installation are where that leads.
UsersInv ==
  /\ run.phase \in {"migrate", "backup"} => run.stage = 1
  /\ run.phase = "install" /\ run.stage > 2 => accounts.app = "link"
  /\ run.phase # "idle" => ended = "none"
  /\ ended = "completed" /\ OldUsers => accounts.etc = "old"

-----------------------------------------------------------------------------
(* Where the payload is *)

\* The run has a backup directory behind those it found.
Armed ==
  /\ Len(dirs) = Len(before.dirs) + 1
  /\ \A k \in DOMAIN before.dirs : dirs[k] = before.dirs[k]

\* An item that was moved is in the backup, any other where it was.
Split ==
  \A i \in Items :
    /\ i \in run.moved => place[i] = None /\ dirs[Last][i] = before.place[i] /\ before.place[i] # None
    /\ i \notin run.moved => place[i] = before.place[i] /\ dirs[Last][i] = None

AllMoved == run.moved = {i \in Items : before.place[i] # None}

\* One payload is whole in the backup directories.
Stored == \E v \in {"old", "new"} : \A i \in Items : \E d \in DOMAIN dirs : dirs[d][i] = v

\* The items behind the stage are written, and unit files only at the end.
Written ==
  /\ run.stage < 6 => place["unit"] = None
  /\ run.stage > 1 => place["app"] = "new"
  /\ run.stage > 3 => place["venv"] = "new"
  /\ run.stage > 6 => place["unit"] = "new"

\* The backup is whole, or is being discarded behind a running new payload.
BackupInv ==
  /\ \A i \in Items :
       dirs[Last][i] = before.place[i] \/ (dirs[Last][i] = None /\ run.stage = 7 /\ running = Services)
  /\ Stored \/ \E i \in run.moved : dirs[Last][i] = None

PhaseInv ==
  /\ run.phase = "migrate" =>
       place = before.place /\ dirs = before.dirs /\ running = {} /\ run.moved = {} /\ ~run.complete
  /\ run.phase = "backup" =>
       /\ Armed /\ Split /\ running = {} /\ ~run.complete
       /\ run.todo = {i \in Items : place[i] # None}
  /\ run.phase = "install" =>
       /\ Armed /\ AllMoved /\ Written /\ BackupInv /\ run.complete
       /\ running # {} => run.stage = 7
  /\ run.phase = "remove" =>
       /\ Armed /\ AllMoved /\ Stored /\ running = {} /\ dirs[Last] = before.place
       /\ \A i \in Items \ run.todo : place[i] = None
  /\ run.phase = "back" => Armed /\ Split /\ running = {}
  /\ run.phase = "services" =>
       /\ place = before.place /\ running \subseteq run.active
       /\ dirs \in {before.dirs, Append(before.dirs, Empty)}

\* Units that are there belong to a whole payload.
Bootable(p) == p["unit"] # None => Whole(p)

\* What is started again is what was up, and that ran on a whole payload, unless
\* there was a boot on a torn one.
RunningInv ==
  /\ run.phase # "idle" =>
       /\ run.active = before.running
       /\ torn # "booted" /\ before.running # {} => Whole(before.place)
       /\ torn = "no" => Bootable(before.place)
  /\ run.phase = "idle" /\ torn = "no" => Bootable(place)

PlaceInv == PhaseInv /\ RunningInv /\ PayloadKept /\ RunsWholePayload /\ RollbackIsExact

IInv == TypeInv /\ UsersInv /\ PlaceInv

-----------------------------------------------------------------------------
(* Operators of the model *)

\* The value of a sequence after one place of it was written.
LEMMA SeqUpdate ==
  ASSUME NEW S, NEW s \in Seq(S), NEW n \in 1 .. Len(s), NEW e \in S
  PROVE  /\ [s EXCEPT ![n] = e] \in Seq(S)
         /\ Len([s EXCEPT ![n] = e]) = Len(s)
         /\ \A k \in 1 .. Len(s) : [s EXCEPT ![n] = e][k] = IF k = n THEN e ELSE s[k]
  OBVIOUS

\* Which number each stage has.
LEMMA StageNumbers ==
  ASSUME run.stage \in 1 .. 7
  PROVE  /\ At("app") <=> (run.phase = "install" /\ run.stage = 1)
         /\ At("links") <=> (run.phase = "install" /\ run.stage = 2)
         /\ At("venv") <=> (run.phase = "install" /\ run.stage = 3)
         /\ At("users") <=> (run.phase = "install" /\ run.stage = 4)
         /\ At("verify") <=> (run.phase = "install" /\ run.stage = 5)
         /\ At("unit") <=> (run.phase = "install" /\ run.stage = 6)
         /\ At("enable") <=> (run.phase = "install" /\ run.stage = 7)
<1>1. run.stage = 1 \/ run.stage = 2 \/ run.stage = 3 \/ run.stage = 4 \/ run.stage = 5
      \/ run.stage = 6 \/ run.stage = 7
  OBVIOUS
<1>2. /\ Stages[1] = "app" /\ Stages[2] = "links" /\ Stages[3] = "venv" /\ Stages[4] = "users"
      /\ Stages[5] = "verify" /\ Stages[6] = "unit" /\ Stages[7] = "enable"
  BY DEF Stages
<1> QED
  BY <1>1, <1>2 DEF At

LEMMA NoRunTyped == NoRun \in RunRecord /\ Empty \in Payload
  BY DEF NoRun, RunRecord, Empty, Payload, Contents

\* The step to the next stage, and the change of an item in the run's backup.
LEMMA NextStageTyped ==
  ASSUME run \in RunRecord, run.stage < 7, NextStage
  PROVE  /\ run' \in RunRecord /\ run'.stage = run.stage + 1
         /\ run'.phase = run.phase /\ run'.todo = run.todo /\ run'.active = run.active
         /\ run'.moved = run.moved /\ run'.complete = run.complete
  BY DEF NextStage, RunRecord

LEMMA BackupTyped ==
  ASSUME dirs \in Seq(Payload), Last \in Nat \ {0}, NEW i \in Items, NEW c \in Contents,
         dirs' = [dirs EXCEPT ![Last][i] = c]
  PROVE  /\ dirs' \in Seq(Payload) /\ Len(dirs') = Len(dirs)
         /\ dirs'[Last] = [dirs[Last] EXCEPT ![i] = c]
         /\ \A k \in 1 .. Len(dirs) : k # Last => dirs'[k] = dirs[k]
<1> DEFINE e == [dirs[Last] EXCEPT ![i] = c]
<1>1. Last \in 1 .. Len(dirs) /\ dirs[Last] \in Payload
  BY DEF Last
<1>2. e \in Payload
  BY <1>1 DEF Payload
<1>3. dirs' = [dirs EXCEPT ![Last] = e]
  OBVIOUS
<1> HIDE DEF e
<1>4. /\ dirs' \in Seq(Payload) /\ Len(dirs') = Len(dirs)
      /\ \A k \in 1 .. Len(dirs) : dirs'[k] = IF k = Last THEN e ELSE dirs[k]
  BY <1>1, <1>2, <1>3, SeqUpdate
<1> QED
  BY <1>1, <1>4 DEF e

-----------------------------------------------------------------------------
(* Types, and the users of an earlier version: for any failure *)

LEMMA TypedAtFirst == Init => TypeInv /\ UsersInv
<1> SUFFICES ASSUME Init PROVE TypeInv /\ UsersInv
  OBVIOUS
<1>1. place \in Payload /\ dirs \in Seq(Payload) /\ run = NoRun
  BY DEF Init, Payload, Contents
<1>2. run \in RunRecord /\ run.phase = "idle" /\ run.complete = FALSE
  BY <1>1, NoRunTyped DEF NoRun
<1>3. before \in [place : Payload, dirs : Seq(Payload), running : SUBSET Services]
  BY <1>1 DEF Init
<1>4. accounts \in [app : UsersFile, etc : UsersFile]
  BY DEF Init, UsersFile
<1> QED
  BY <1>1, <1>2, <1>3, <1>4 DEF Init, TypeInv, UsersInv

\* A run that ends, however it ends.
LEMMA EndTyped ==
  ASSUME TypeInv, run' = NoRun, UNCHANGED <<place, dirs, state, running, enabled, before>>,
         torn' \in {"no", "stopped", "booted"},
         ended' = "completed" /\ OldUsers => accounts.etc = "old"
  PROVE  TypeInv' /\ UsersInv'
  BY NoRunTyped DEF TypeInv, UsersInv, OldUsers, state, NoRun

LEMMA WorkTyped ==
  ASSUME TypeInv, UsersInv, Work
  PROVE  TypeInv' /\ UsersInv'
<1>0. run \in RunRecord /\ run.stage \in 1 .. 7
  BY DEF TypeInv, RunRecord
<1>1. CASE Begin
  BY <1>1, NoRunTyped DEF Begin, TypeInv, UsersInv, state, NoRun, RunRecord, Capture, Last
<1>2. CASE Arm
  <2>1. dirs' \in Seq(Payload) /\ Len(dirs') = Len(dirs) + 1 /\ Len(dirs) \in Nat
    BY <1>2, NoRunTyped DEF Arm, TypeInv
  <2>2. /\ run' \in RunRecord /\ run'.phase = "backup" /\ run'.stage = run.stage
        /\ run.phase = "migrate" /\ UNCHANGED <<place, legacy, home, accounts, bootstrap, running, enabled, before, torn, ended>>
    BY <1>0, <1>2 DEF Arm, RunRecord, state, log
  <2> QED
    BY <2>1, <2>2 DEF TypeInv, UsersInv, Last
<1>3. CASE BackedUp
  <2>1. run' \in RunRecord /\ run'.phase = "install" /\ run'.stage = run.stage /\ run.phase = "backup"
    BY <1>0, <1>3 DEF BackedUp, RunRecord
  <2> QED
    BY <1>3, <2>1 DEF BackedUp, TypeInv, UsersInv, Last, state, log
<1>4. CASE PrepareState \/ LinkUsers
  <2>1. run.phase = "install" /\ run.stage = 2 /\ UNCHANGED <<run, ended, place, dirs, legacy, before, torn>>
    BY <1>0, <1>4, StageNumbers DEF PrepareState, LinkUsers, log
  <2>2. accounts' \in [app : UsersFile, etc : UsersFile] /\ home' \in SUBSET (Linked \cup Plain)
    BY <1>4 DEF PrepareState, LinkUsers, TypeInv, UsersFile
  <2>3. TypeInv'
    BY <1>4, <2>1, <2>2 DEF PrepareState, LinkUsers, TypeInv, Last
  <2> QED
    BY <2>1, <2>3 DEF UsersInv
<1>5. CASE LinkRest
  <2>1. run.phase = "install" /\ run.stage = 2
    BY <1>0, <1>5, StageNumbers DEF LinkRest
  <2>2. run' \in RunRecord /\ run'.phase = "install" /\ run'.stage = 3 /\ run'.complete = run.complete
    BY <1>0, <1>5, <2>1, NextStageTyped DEF LinkRest
  <2> QED
    BY <1>5, <2>1, <2>2 DEF LinkRest, TypeInv, UsersInv, OldUsers, Last, state, log
<1>6. CASE WriteBootstrap \/ CreateUsers \/ FindUsers
  <2>1. run.phase = "install" /\ run.stage = 4 /\ accounts.app = "link" /\ ended = "none"
    BY <1>0, <1>6, StageNumbers DEF WriteBootstrap, CreateUsers, FindUsers, UsersInv
  <2>2. /\ run' \in RunRecord /\ run'.phase = "install" /\ run'.complete = run.complete
        /\ run'.stage = 4 \/ run'.stage = 5
    BY <1>0, <1>6, <2>1, NextStageTyped DEF WriteBootstrap, CreateUsers, FindUsers
  <2>3. accounts' \in [app : UsersFile, etc : UsersFile] /\ accounts'.app = "link" /\ ended' = "none"
    BY <1>6, <2>1 DEF WriteBootstrap, CreateUsers, FindUsers, TypeInv, UsersFile, state
  <2>4. TypeInv'
    BY <1>6, <2>1, <2>2, <2>3 DEF WriteBootstrap, CreateUsers, FindUsers, TypeInv, Last, state, log
  <2> QED
    BY <2>2, <2>3, <2>4 DEF UsersInv
<1>7. CASE Verify
  <2>1. run.phase = "install" /\ run.stage = 5
    BY <1>0, <1>7, StageNumbers DEF Verify
  <2>2. run' \in RunRecord /\ run'.phase = "install" /\ run'.stage = 6 /\ run'.complete = run.complete
    BY <1>0, <1>7, <2>1, NextStageTyped DEF Verify
  <2> QED
    BY <1>7, <2>1, <2>2 DEF Verify, TypeInv, UsersInv, OldUsers, Last, state, log
<1>8. CASE Complete
  <2>1. run.phase = "install" /\ run.stage = 7
    BY <1>0, <1>8, StageNumbers DEF Complete
  <2>2. OldUsers => accounts.etc = "old"
    BY <2>1 DEF UsersInv, OldUsers
  <2> QED
    BY <1>8, <2>2, EndTyped DEF Complete, log
<1>9. ASSUME NEW s \in Linked \cup Plain, Migrate(s) PROVE TypeInv' /\ UsersInv'
  BY <1>0, <1>9 DEF Migrate, TypeInv, UsersInv, OldUsers, RunRecord, Last, log
<1>10. ASSUME NEW i \in Items, Backup(i) PROVE TypeInv' /\ UsersInv'
  <2>1. Last \in Nat \ {0} /\ place[i] \in Contents
    BY <1>10 DEF Backup, TypeInv, Payload
  <2>2. dirs' \in Seq(Payload) /\ Len(dirs') = Len(dirs)
    BY <1>10, <2>1, BackupTyped DEF Backup, TypeInv
  <2>3. place' \in Payload
    BY <1>10 DEF Backup, TypeInv, Payload, Contents
  <2>4. run' \in RunRecord /\ run'.phase = "backup" /\ run.phase = "backup" /\ run'.stage = run.stage
    BY <1>0, <1>10 DEF Backup, RunRecord
  <2> QED
    BY <1>10, <2>1, <2>2, <2>3, <2>4 DEF Backup, TypeInv, UsersInv, Last, state, log
<1>11. ASSUME NEW i \in Items, Write(i) PROVE TypeInv' /\ UsersInv'
  <2>1. run.phase = "install" /\ run.stage \in {1, 3, 6}
    BY <1>0, <1>11, StageNumbers DEF Write, Items
  <2>2. place' \in Payload
    BY <1>11 DEF Write, TypeInv, Payload, Contents
  <2>3. /\ run' \in RunRecord /\ run'.phase = "install" /\ run'.complete = run.complete
        /\ run'.stage = run.stage \/ run'.stage = run.stage + 1
    BY <1>0, <1>11, <2>1, NextStageTyped DEF Write
  <2> QED
    BY <1>11, <2>1, <2>2, <2>3 DEF Write, TypeInv, UsersInv, Last, state, log
<1>12. ASSUME NEW i \in Items, Discard(i) PROVE TypeInv' /\ UsersInv'
  <2>1. Last \in Nat \ {0} /\ None \in Contents
    BY <1>12 DEF Discard, At, TypeInv, Contents
  <2>2. dirs' \in Seq(Payload) /\ Len(dirs') = Len(dirs)
    BY <1>12, <2>1, BackupTyped DEF Discard, TypeInv
  <2> QED
    BY <1>12, <2>1, <2>2 DEF Discard, TypeInv, UsersInv, OldUsers, Last, state, log
<1>13. ASSUME EnableUnits \/ \E s \in Services : Enable(s) PROVE TypeInv' /\ UsersInv'
  BY <1>13 DEF EnableUnits, Enable, TypeInv, UsersInv, OldUsers, Last, state, log
<1>14. CASE MigrateUsers
  <2>1. run.phase = "migrate" /\ run.stage = 1 /\ ended = "none" /\ ended' = "none"
    BY <1>14 DEF MigrateUsers, UsersInv
  <2>2. run' \in RunRecord /\ run'.phase = "migrate" /\ run'.stage = 1 /\ run'.complete = run.complete
    BY <1>0, <1>14, <2>1 DEF MigrateUsers, RunRecord
  <2>3. accounts' \in [app : UsersFile, etc : UsersFile]
    BY <1>14 DEF MigrateUsers, TypeInv, UsersFile
  <2>4. TypeInv'
    BY <1>14, <2>1, <2>2, <2>3 DEF MigrateUsers, TypeInv, Last, log
  <2> QED
    BY <2>1, <2>2, <2>4 DEF UsersInv
<1> QED
  BY <1>1, <1>2, <1>3, <1>4, <1>5, <1>6, <1>7, <1>8, <1>9, <1>10, <1>11, <1>12, <1>13, <1>14 DEF Work

\* Default accounts are made only where there are none.
LEMMA SeedKeeps ==
  ASSUME TypeInv, Seed
  PROVE  /\ accounts.app # None => accounts'.app = accounts.app
         /\ accounts.etc # None => accounts'.etc = accounts.etc
         /\ OldUsers' <=> OldUsers
<1>1. \/ accounts.app = None /\ accounts' = [accounts EXCEPT !.app = "other"]
      \/ accounts.etc = None /\ accounts' = [accounts EXCEPT !.etc = "other"]
  BY DEF Seed
<1>2. None # "old"
  BY InstallAssumption
<1> QED
  BY <1>1, <1>2 DEF TypeInv, OldUsers

LEMMA RollbackTyped ==
  ASSUME TypeInv, UsersInv, Rollback \/ Fail \/ RollbackFails \/ Kill \/ Boot \/ Seed
  PROVE  TypeInv' /\ UsersInv'
<1>0. run \in RunRecord /\ torn \in {"no", "stopped", "booted"} /\ Left \in {"no", "stopped", "booted"}
  BY DEF TypeInv, Left
<1>1. CASE Fail
  <2>1. /\ run' \in RunRecord /\ run'.phase \in {"remove", "back", "services"}
        /\ run'.complete = run.complete
        /\ run'.phase = "back" => run.phase = "backup"
        /\ run'.phase = "remove" => run.complete
    BY <1>0, <1>1 DEF Fail, RunRecord, RollbackBegins
  <2> QED
    BY <1>1, <2>1 DEF Fail, TypeInv, UsersInv, Last, state, log
<1>2. CASE RollbackFails
  BY <1>0, <1>2, EndTyped DEF RollbackFails, GiveUp, log
<1>3. CASE Kill
  BY <1>0, <1>3, EndTyped DEF Kill, log
<1>4. CASE RolledBack
  BY <1>0, <1>4, EndTyped DEF RolledBack, log
<1>5. CASE RemoveBackup
  <2>1. run' \in RunRecord /\ run'.phase = "services" /\ run'.complete = run.complete
    BY <1>0, <1>5 DEF RemoveBackup, RunRecord
  <2>2. Last \in 1 .. Len(dirs)
    BY <1>5 DEF RemoveBackup, TypeInv, Last
  <2>3. dirs' \in Seq(Payload) /\ Len(dirs') = Len(dirs)
    BY <1>5, <2>2, NoRunTyped, SeqUpdate DEF RemoveBackup, TypeInv
  <2> QED
    BY <1>5, <2>1, <2>3 DEF RemoveBackup, TypeInv, UsersInv, Last, state, log
<1>6. ASSUME NEW i \in Items, Remove(i) PROVE TypeInv' /\ UsersInv'
  <2>1. /\ run' \in RunRecord /\ run'.phase \in {"remove", "back"} /\ run.phase = "remove"
        /\ run'.complete = run.complete
    BY <1>0, <1>6 DEF Remove, RunRecord
  <2>2. place' \in Payload
    BY <1>6 DEF Remove, TypeInv, Payload, Contents
  <2> QED
    BY <1>6, <2>1, <2>2 DEF Remove, TypeInv, UsersInv, Last, state, log
<1>7. ASSUME NEW i \in Items, PutBack(i) PROVE TypeInv' /\ UsersInv'
  <2>1. run' \in RunRecord /\ run'.phase = "back" /\ run.phase = "back" /\ run'.complete = run.complete
    BY <1>0, <1>7 DEF PutBack, RunRecord
  <2>2. Last \in Nat \ {0} /\ dirs[Last] \in Payload /\ None \in Contents
    BY <2>1 DEF TypeInv, Last, Contents
  <2>3. dirs' \in Seq(Payload) /\ Len(dirs') = Len(dirs)
    BY <1>7, <2>2, BackupTyped DEF PutBack, TypeInv
  <2>4. place' \in Payload
    BY <1>7, <2>2 DEF PutBack, TypeInv, Payload
  <2> QED
    BY <1>7, <2>1, <2>3, <2>4 DEF PutBack, TypeInv, UsersInv, Last, state, log
<1>8. ASSUME NEW s \in Services, Restart(s) PROVE TypeInv' /\ UsersInv'
  BY <1>8 DEF Restart, TypeInv, UsersInv, OldUsers, Last, state, log
<1>9. CASE Boot
  <2>1. running' \in SUBSET Services /\ torn' \in {"no", "stopped", "booted"}
    BY <1>0, <1>9 DEF Boot, TypeInv
  <2> QED
    BY <1>9, <2>1 DEF Boot, TypeInv, UsersInv, Last, state, log
<1>10. CASE Seed
  <2>1. accounts' \in [app : UsersFile, etc : UsersFile]
    BY <1>10 DEF Seed, TypeInv, UsersFile
  <2>2. TypeInv'
    BY <1>10, <2>1 DEF Seed, TypeInv, Last, log
  <2> QED
    BY <1>10, <2>2, SeedKeeps, InstallAssumption DEF Seed, UsersInv
<1> QED
  BY <1>1, <1>2, <1>3, <1>4, <1>5, <1>6, <1>7, <1>8, <1>9, <1>10 DEF Rollback

LEMMA Typed == TypeInv /\ UsersInv /\ [Next]_vars => TypeInv' /\ UsersInv'
<1> SUFFICES ASSUME TypeInv, UsersInv, [Next]_vars PROVE TypeInv' /\ UsersInv'
  OBVIOUS
<1>1. CASE UNCHANGED vars
  BY <1>1 DEF vars, state, TypeInv, UsersInv, OldUsers, Last
<1> QED
  BY <1>1, WorkTyped, RollbackTyped DEF Next

\* What one step does with the accounts of the earlier installation.
LEMMA StepsKeepUsers ==
  ASSUME TypeInv, UsersInv, [Next]_vars, OldUsers
  PROVE  OldUsers' /\ bootstrap' = bootstrap /\ (ended' = "completed" => accounts'.etc = "old")
<1>0. run \in RunRecord /\ run.stage \in 1 .. 7 /\ None \notin {"old", "link", "loop"}
  BY InstallAssumption DEF TypeInv, RunRecord
<1>1. CASE MigrateUsers
  <2>1. ended' = "none" /\ bootstrap' = bootstrap
    BY <1>1 DEF MigrateUsers, UsersInv
  <2>2. OldUsers'
    BY <1>0, <1>1 DEF MigrateUsers, Movable, OldUsers
  <2> QED
    BY <2>1, <2>2
<1>2. CASE LinkUsers
  BY <1>0, <1>2 DEF LinkUsers, At, TypeInv, UsersInv, OldUsers
<1>3. CASE WriteBootstrap \/ CreateUsers
  <2>1. accounts.app = "link" /\ accounts.etc = None
    BY <1>0, <1>3, StageNumbers DEF WriteBootstrap, CreateUsers, UsersInv
  <2> QED
    BY <1>0, <2>1 DEF OldUsers
<1>4. CASE Seed
  BY <1>0, <1>4, SeedKeeps DEF Seed, UsersInv
<1>5. CASE Complete
  <2>1. accounts.app = "link"
    BY <1>0, <1>5, StageNumbers DEF Complete, UsersInv
  <2> QED
    BY <1>5, <2>1 DEF Complete, OldUsers, state
<1>6. ASSUME UNCHANGED <<accounts, bootstrap>>, ended' \in {ended, "none", "manual", "killed", "rolledBack", "booted"}
      PROVE  OldUsers' /\ bootstrap' = bootstrap /\ (ended' = "completed" => accounts'.etc = "old")
  BY <1>6 DEF OldUsers, UsersInv
<1>7. CASE UNCHANGED vars
  BY <1>6, <1>7 DEF vars
<1>8. CASE \/ Begin \/ Arm \/ BackedUp \/ PrepareState \/ LinkRest \/ FindUsers \/ Verify \/ EnableUnits
           \/ (\E s \in Linked \cup Plain : Migrate(s))
           \/ (\E i \in Items : Backup(i) \/ Write(i) \/ Discard(i)) \/ (\E s \in Services : Enable(s))
  BY <1>6, <1>8
  DEF Begin, Arm, BackedUp, PrepareState, LinkRest, FindUsers, Verify, EnableUnits, Migrate, Backup, Write,
      Discard, Enable, state
<1>9. CASE Rollback \/ Fail \/ RollbackFails \/ Kill \/ Boot
  BY <1>6, <1>9
  DEF Rollback, Fail, RollbackFails, Kill, Boot, RemoveBackup, RolledBack, Remove, PutBack, Restart, state
<1> QED
  BY <1>1, <1>2, <1>3, <1>4, <1>5, <1>7, <1>8, <1>9 DEF Next, Work

\* The accounts of the earlier installation are never written over, no passwords
\* are generated beside them, and a run that completes has them where the
\* application looks, over any number of runs, whatever stopped before.
THEOREM OldUsersNeverReplaced == Spec => OldUsersKept
<1>1. Spec => [](TypeInv /\ UsersInv)
  BY TypedAtFirst, Typed, PTL DEF Spec
<1>2. TypeInv /\ UsersInv /\ [Next]_vars
      => [OldUsers => /\ OldUsers' /\ bootstrap' = bootstrap
                      /\ ended' = "completed" => accounts'.etc = "old"]_<<accounts, bootstrap, ended>>
  BY StepsKeepUsers
<1> QED
  BY <1>1, <1>2, PTL DEF Spec, OldUsersKept

-----------------------------------------------------------------------------
(* Where the payload is, when the removal of a backup does not fail half way *)

\* One of the places of an item holds the version.
Somewhere(i, v) == place[i] = v \/ \E d \in DOMAIN dirs : dirs[d][i] = v

LEMMA Keeps ==
  ASSUME PayloadKept, \A i \in Items : \A v \in {"old", "new"} : Somewhere(i, v) => Somewhere(i, v)'
  PROVE  PayloadKept'
  BY DEF PayloadKept, Somewhere

LEMMA StoredKeeps == Stored => PayloadKept
  BY DEF Stored, PayloadKept

\* What no step of a phase changes.
LEMMA Unmoved ==
  ASSUME PayloadKept, RunsWholePayload, UNCHANGED <<place, dirs, running, torn>>
  PROVE  PayloadKept' /\ RunsWholePayload'
  BY DEF PayloadKept, RunsWholePayload, Whole

LEMMA PlacedAtFirst == Init => PlaceInv
<1> SUFFICES ASSUME Init PROVE PlaceInv
  OBVIOUS
<1>1. run.phase = "idle" /\ ended = "none" /\ \A i \in Items : place[i] = "old"
  BY DEF Init, NoRun
<1>2. Whole(place) /\ PayloadKept /\ before.place = place
  BY <1>1 DEF Init, Whole, PayloadKept
<1> QED
  BY <1>1, <1>2 DEF Bootable, PlaceInv, PhaseInv, RunningInv, RunsWholePayload, RollbackIsExact

\* Outside the windows, and unless an earlier run stopped inside one, units that
\* are there belong to a whole payload.
LEMMA OutsideWindows ==
  ASSUME TypeInv, PlaceInv, Left = "no"
  PROVE  Bootable(place)
<1>1. torn = "no" /\ (run.phase # "idle" => Bootable(before.place))
  BY DEF Left, PlaceInv, RunningInv
<1>2. ~(run.phase \in {"backup", "remove", "back"}) /\ ~At("unit")
  BY <1>1 DEF Left, Window
<1>3. run.phase \in {"idle", "migrate", "install", "services"} /\ run.stage \in 1 .. 7
  BY <1>2 DEF TypeInv, RunRecord
<1>4. CASE run.phase = "idle"
  BY <1>1, <1>4 DEF PlaceInv, RunningInv
<1>5. CASE run.phase = "migrate" \/ run.phase = "services"
  <2>1. place = before.place
    BY <1>5 DEF PlaceInv, PhaseInv
  <2> QED
    BY <1>1, <1>5, <2>1
<1>6. CASE run.phase = "install"
  <2>1. run.stage < 6 \/ run.stage = 7
    BY <1>2, <1>3, <1>6, StageNumbers
  <2>2. Written
    BY <1>6 DEF PlaceInv, PhaseInv
  <2> QED
    BY <2>1, <2>2 DEF Written, Bootable, Whole, Items
<1> QED
  BY <1>3, <1>4, <1>5, <1>6

\* A run that ends, and was not rolled back as a whole.
LEMMA EndPlaced ==
  ASSUME TypeInv, PlaceInv, run' = NoRun, torn' = Left,
         UNCHANGED <<place, dirs, running, before>>, ended' # "rolledBack"
  PROVE  PlaceInv'
<1>1. torn' = "no" => Bootable(place)
  BY OutsideWindows
<1>2. torn' # "booted" => torn # "booted"
  BY DEF Left
<1>3. PayloadKept' /\ RunsWholePayload'
  BY <1>2 DEF PlaceInv, PayloadKept, RunsWholePayload, Whole
<1>4. RunningInv'
  BY <1>1 DEF RunningInv, NoRun, Bootable, Whole
<1> QED
  BY <1>3, <1>4 DEF PlaceInv, PhaseInv, RollbackIsExact, NoRun

\* A step that concerns none of it.
LEMMA SamePlaced ==
  ASSUME PlaceInv, UNCHANGED <<place, dirs, running, run, before, torn, ended>>
  PROVE  PlaceInv'
<1>1. PhaseInv'
  BY DEF PlaceInv, PhaseInv, Armed, Split, AllMoved, Written, BackupInv, Stored, Last
<1>2. RunningInv' /\ RollbackIsExact'
  BY DEF PlaceInv, RunningInv, RollbackIsExact, Whole, Bootable
<1> QED
  BY <1>1, <1>2, Unmoved DEF PlaceInv

\* The steps before the backup is whole.
LEMMA BackupPlaced ==
  ASSUME TypeInv, UsersInv, PlaceInv,
         \/ Begin \/ Arm \/ BackedUp \/ MigrateUsers
         \/ (\E s \in Linked \cup Plain : Migrate(s)) \/ (\E i \in Items : Backup(i))
  PROVE  PlaceInv'
<1>0. run \in RunRecord /\ before.place \in Payload
  BY DEF TypeInv
<1>1. CASE Begin
  <2>1. /\ run'.phase = "migrate" /\ run'.active = running /\ run'.moved = {} /\ run'.complete = FALSE
        /\ before'.place = place' /\ before'.dirs = dirs' /\ before'.running = running /\ running' = {}
        /\ place' = place /\ dirs' = dirs /\ torn' = torn /\ run.phase = "idle"
    BY <1>1, NoRunTyped DEF Begin, RunRecord, NoRun, Capture
  <2>2. (torn # "booted" /\ running # {} => Whole(place)) /\ (torn = "no" => Bootable(place))
    BY <2>1 DEF PlaceInv, RunsWholePayload, RunningInv
  <2>3. PayloadKept' /\ RunsWholePayload' /\ RollbackIsExact'
    BY <2>1 DEF PlaceInv, PayloadKept, RunsWholePayload, RollbackIsExact
  <2>4. RunningInv' /\ PhaseInv'
    BY <2>1, <2>2 DEF RunningInv, PhaseInv, Whole, Bootable
  <2> QED
    BY <2>3, <2>4 DEF PlaceInv
<1>2. ASSUME MigrateUsers \/ \E s \in Linked \cup Plain : Migrate(s) PROVE PlaceInv'
  <2>1. /\ run.phase = "migrate" /\ run'.phase = "migrate" /\ run'.active = run.active
        /\ run'.moved = run.moved /\ run'.complete = run.complete
        /\ UNCHANGED <<place, dirs, running, before, torn>>
    BY <1>0, <1>2 DEF Migrate, MigrateUsers, RunRecord, log
  <2> QED
    BY <2>1, Unmoved DEF PlaceInv, PhaseInv, RunningInv, RollbackIsExact
<1>3. CASE Arm
  <2>1. /\ run.phase = "migrate" /\ run'.phase = "backup" /\ run'.active = run.active
        /\ run'.moved = run.moved /\ run'.complete = run.complete
        /\ run'.todo = {i \in Items : place[i] # None}
        /\ UNCHANGED <<place, running, before, torn>>
    BY <1>0, <1>3 DEF Arm, RunRecord, log
  <2>2. /\ place = before.place /\ dirs = before.dirs /\ running = {} /\ run.moved = {} /\ ~run.complete
    BY <2>1 DEF PlaceInv, PhaseInv
  <2>3. /\ Len(dirs') = Len(dirs) + 1 /\ Len(dirs) \in Nat /\ dirs' \in Seq(Payload)
        /\ dirs'[Len(dirs) + 1] = Empty /\ \A k \in 1 .. Len(dirs) : dirs'[k] = dirs[k]
    BY <1>3, NoRunTyped DEF Arm, TypeInv
  <2>4. Armed'
    BY <2>1, <2>2, <2>3 DEF Armed, TypeInv
  <2>5. Split'
    BY <2>1, <2>2, <2>3 DEF Split, Last, Empty
  <2>6. PayloadKept'
    <3>1. DOMAIN dirs = 1 .. Len(dirs) /\ DOMAIN dirs' = 1 .. (Len(dirs) + 1)
      BY <2>3 DEF TypeInv
    <3> QED
      BY <2>1, <2>3, <3>1, Keeps DEF PlaceInv, Somewhere
  <2> QED
    BY <2>1, <2>2, <2>4, <2>5, <2>6 DEF PlaceInv, PhaseInv, RunningInv, RunsWholePayload, RollbackIsExact
<1>4. ASSUME NEW i \in Items, Backup(i) PROVE PlaceInv'
  <2>1. /\ run.phase = "backup" /\ run'.phase = "backup" /\ run'.active = run.active
        /\ run'.moved = run.moved \cup {i} /\ run'.complete = run.complete
        /\ run'.todo = run.todo \ {i} /\ i \in run.todo
        /\ UNCHANGED <<running, before, torn>>
    BY <1>0, <1>4 DEF Backup, RunRecord, log
  <2>2. Armed /\ Split /\ running = {} /\ ~run.complete /\ run.todo = {j \in Items : place[j] # None}
    BY <2>1 DEF PlaceInv, PhaseInv
  <2>3. Last \in Nat \ {0} /\ Last \in 1 .. Len(dirs) /\ place[i] \in Contents /\ dirs \in Seq(Payload) /\ dirs[Last] \in Payload
    BY <2>1 DEF TypeInv, Payload, Last
  <2>4. /\ dirs' \in Seq(Payload) /\ Len(dirs') = Len(dirs)
        /\ dirs'[Last] = [dirs[Last] EXCEPT ![i] = place[i]]
        /\ \A k \in 1 .. Len(dirs) : k # Last => dirs'[k] = dirs[k]
    BY <1>4, <2>3, BackupTyped DEF Backup
  <2>5. /\ dirs'[Last][i] = place[i] /\ \A j \in Items : j # i => dirs'[Last][j] = dirs[Last][j]
        /\ place'[i] = None /\ \A j \in Items : j # i => place'[j] = place[j]
    BY <1>4, <2>3, <2>4 DEF Backup, TypeInv, Payload
  <2>6. i \notin run.moved /\ place[i] # None /\ place[i] = before.place[i] /\ dirs[Last][i] = None
    BY <2>1, <2>2 DEF Split
  <2>7. Armed'
    BY <2>1, <2>2, <2>3, <2>4 DEF Armed, Last, TypeInv
  <2>8. Split'
    BY <2>1, <2>2, <2>4, <2>5, <2>6 DEF Split, Last
  <2>9. PayloadKept'
    <3>1. \A j \in Items : \A v \in {"old", "new"} : Somewhere(j, v) => Somewhere(j, v)'
      <4> TAKE j \in Items, v \in {"old", "new"}
      <4>1. DOMAIN dirs = 1 .. Len(dirs) /\ DOMAIN dirs' = 1 .. Len(dirs) /\ v # None
        BY <2>3, <2>4, InstallAssumption
      <4>2. ASSUME place[j] = v PROVE place'[j] = v \/ \E d \in DOMAIN dirs' : dirs'[d][j] = v
        BY <2>3, <2>5, <4>1, <4>2
      <4>3. ASSUME NEW d \in DOMAIN dirs, dirs[d][j] = v PROVE dirs'[d][j] = v
        BY <2>4, <2>5, <2>6, <4>1, <4>3
      <4> QED
        BY <4>1, <4>2, <4>3 DEF Somewhere
    <3> QED
      BY <3>1, Keeps DEF PlaceInv
  <2>10. run'.todo = {j \in Items : place'[j] # None}
    BY <2>1, <2>2, <2>5
  <2> QED
    BY <2>1, <2>2, <2>7, <2>8, <2>9, <2>10 DEF PlaceInv, PhaseInv, RunningInv, RunsWholePayload, RollbackIsExact
<1>5. CASE BackedUp
  <2>1. /\ run.phase = "backup" /\ run.todo = {} /\ run'.phase = "install" /\ run'.complete = TRUE
        /\ run'.active = run.active /\ run'.moved = run.moved /\ run'.stage = 1
        /\ UNCHANGED <<place, dirs, running, before, torn>>
    BY <1>0, <1>5 DEF BackedUp, RunRecord, log, UsersInv
  <2>2. Armed /\ Split /\ running = {} /\ \A i \in Items : place[i] = None
    BY <2>1 DEF PlaceInv, PhaseInv
  <2>3. \A i \in Items : dirs[Last][i] = before.place[i]
    BY <2>2 DEF Split
  <2>4. run.moved = {i \in Items : before.place[i] # None}
    BY <1>0, <2>2 DEF Split, RunRecord
  <2>5. Stored
    BY <2>2, InstallAssumption DEF PlaceInv, PayloadKept, Stored
  <2>6. Armed' /\ AllMoved' /\ Written' /\ BackupInv'
    BY <2>1, <2>2, <2>3, <2>4, <2>5 DEF Armed, AllMoved, Written, BackupInv, Stored, Last, Items
  <2> QED
    BY <2>1, <2>2, <2>6, Unmoved DEF PlaceInv, PhaseInv, RunningInv, RollbackIsExact
<1> QED
  BY <1>1, <1>2, <1>3, <1>4, <1>5

\* What is known while the new payload is installed; before the services are
\* enabled the backup is as it was made.
Installing ==
  /\ run.phase = "install" /\ run.complete /\ run.stage \in 1 .. 7
  /\ Armed /\ AllMoved /\ Written /\ BackupInv
  /\ running # {} => run.stage = 7

LEMMA InstallingAt ==
  ASSUME TypeInv, PlaceInv, run.phase = "install"
  PROVE  Installing /\ (run.stage < 7 => running = {} /\ dirs[Last] = before.place /\ Stored)
<1>1. Installing
  BY DEF TypeInv, RunRecord, PlaceInv, PhaseInv, Installing
<1>2. ASSUME run.stage < 7 PROVE running = {} /\ dirs[Last] = before.place /\ Stored
  <2>1. \A i \in Items : dirs[Last][i] = before.place[i]
    BY <1>1, <1>2 DEF Installing, BackupInv
  <2>2. dirs[Last] \in Payload /\ before.place \in Payload
    BY <1>1 DEF TypeInv, Installing, Last
  <2>3. dirs[Last] = before.place
    BY <2>1, <2>2 DEF Payload
  <2>4. Stored
    BY <1>1, <2>1 DEF Installing, BackupInv, AllMoved
  <2> QED
    BY <1>1, <1>2, <2>3, <2>4 DEF Installing
<1> QED
  BY <1>1, <1>2

\* The whole new payload is in place when the services are enabled.
LEMMA NewIsWhole ==
  ASSUME Written, run.stage = 7
  PROVE  (\A i \in Items : place[i] = "new") /\ Whole(place) /\ PayloadKept
  BY DEF Written, Items, Whole, PayloadKept

\* A step of main that leaves payload, backup and services alone.
LEMMA StagePlaced ==
  ASSUME TypeInv, PlaceInv, run.phase = "install", run'.phase = "install",
         run'.stage = run.stage \/ (run'.stage = run.stage + 1 /\ run.stage \in {2, 4, 5}),
         run'.complete = run.complete, run'.moved = run.moved, run'.active = run.active,
         UNCHANGED <<place, dirs, running, before, torn>>
  PROVE  PlaceInv'
<1>1. Installing /\ (run.stage < 7 => running = {} /\ dirs[Last] = before.place /\ Stored)
  BY InstallingAt
<1>2. CASE run'.stage = run.stage
  <2>1. Armed' /\ AllMoved' /\ Written' /\ BackupInv' /\ (running' # {} => run'.stage = 7)
    BY <1>1, <1>2 DEF Installing, Armed, AllMoved, Written, BackupInv, Stored, Last
  <2> QED
    BY <1>1, <2>1, Unmoved DEF Installing, PlaceInv, PhaseInv, RunningInv, RollbackIsExact
<1>3. CASE run'.stage = run.stage + 1 /\ run.stage \in {2, 4, 5}
  <2>1. Armed' /\ AllMoved' /\ Written' /\ BackupInv' /\ running' = {}
    BY <1>1, <1>3 DEF Installing, Armed, AllMoved, Written, BackupInv, Stored, Last
  <2> QED
    BY <1>1, <2>1, Unmoved DEF Installing, PlaceInv, PhaseInv, RunningInv, RollbackIsExact
<1> QED
  BY <1>2, <1>3

LEMMA WritePlaced ==
  ASSUME TypeInv, PlaceInv, NEW i \in Items, Write(i)
  PROVE  PlaceInv'
<1>0. run \in RunRecord /\ run.stage \in 1 .. 7 /\ run.phase = "install"
  BY DEF TypeInv, RunRecord, Write, At
<1>1. /\ i = "app" => run.stage = 1
      /\ i = "venv" => run.stage = 3
      /\ i = "unit" => run.stage = 6
  BY <1>0, StageNumbers DEF Write
<1>2. Installing /\ running = {} /\ dirs[Last] = before.place /\ Stored
  BY <1>0, <1>1, InstallingAt DEF Items
<1>3. /\ run'.phase = "install" /\ run'.complete = run.complete /\ run'.moved = run.moved
      /\ run'.active = run.active
      /\ (place[i] = "part" /\ run'.stage = run.stage + 1) \/ (place[i] # "part" /\ run'.stage = run.stage)
  BY <1>0, <1>1, NextStageTyped DEF Write, Items
<1>4. /\ place'[i] = IF place[i] = "part" THEN "new" ELSE "part"
      /\ \A j \in Items : j # i => place'[j] = place[j]
      /\ UNCHANGED <<dirs, running, before, torn>>
  BY DEF Write, log, TypeInv, Payload
<1>5. Written'
  BY <1>0, <1>1, <1>2, <1>3, <1>4 DEF Installing, Written, Items
<1>6. Armed' /\ AllMoved' /\ BackupInv' /\ Stored'
  BY <1>2, <1>3, <1>4 DEF Installing, Armed, AllMoved, BackupInv, Stored, Last
<1>7. PayloadKept'
  BY <1>6 DEF Stored, PayloadKept
<1> QED
  BY <1>2, <1>3, <1>4, <1>5, <1>6, <1>7
  DEF Installing, PlaceInv, PhaseInv, RunningInv, RunsWholePayload, RollbackIsExact

\* The services are enabled, and the backup discarded behind them.
LEMMA EnablePlaced ==
  ASSUME TypeInv, PlaceInv, (\E s \in Services : Enable(s)) \/ (\E i \in Items : Discard(i))
  PROVE  PlaceInv'
<1>0. run.stage = 7 /\ run.phase = "install"
  BY StageNumbers DEF TypeInv, RunRecord, Enable, Discard, At
<1>1. Installing /\ (\A i \in Items : place[i] = "new") /\ Whole(place)
  BY <1>0, InstallingAt, NewIsWhole DEF Installing
<1>2. ASSUME NEW s \in Services, Enable(s) PROVE PlaceInv'
  <2>1. running # Services /\ UNCHANGED <<place, dirs, run, before, torn>>
    BY <1>2 DEF Enable, log
  <2>2. Armed' /\ AllMoved' /\ Written' /\ BackupInv'
    BY <1>0, <1>1, <2>1 DEF Installing, Armed, AllMoved, Written, BackupInv, Stored, Last
  <2>3. Whole(place)' /\ PayloadKept'
    BY <1>1, <2>1 DEF Whole, PayloadKept
  <2> QED
    BY <1>0, <1>1, <2>1, <2>2, <2>3
    DEF Installing, PlaceInv, PhaseInv, RunningInv, RunsWholePayload, RollbackIsExact
<1>3. ASSUME NEW i \in Items, Discard(i) PROVE PlaceInv'
  <2>1. running = Services /\ dirs[Last][i] # None /\ UNCHANGED <<place, run, running, before, torn>>
    BY <1>3 DEF Discard, log
  <2>2. Last \in Nat \ {0} /\ Last \in 1 .. Len(dirs) /\ dirs[Last] \in Payload /\ None \in Contents
    BY <1>0, <1>1 DEF TypeInv, Last, Contents
  <2>3. /\ dirs' \in Seq(Payload) /\ Len(dirs') = Len(dirs)
        /\ dirs'[Last] = [dirs[Last] EXCEPT ![i] = None]
        /\ \A k \in 1 .. Len(dirs) : k # Last => dirs'[k] = dirs[k]
    BY <1>3, <2>2, BackupTyped DEF Discard, TypeInv
  <2>4. dirs'[Last][i] = None /\ \A j \in Items : j # i => dirs'[Last][j] = dirs[Last][j]
    BY <2>2, <2>3 DEF Payload
  <2>5. i \in run.moved
    BY <1>1, <2>1 DEF Installing, AllMoved, BackupInv
  <2>6. BackupInv'
    BY <1>0, <1>1, <2>1, <2>3, <2>4, <2>5 DEF Installing, BackupInv, Last
  <2>7. Armed'
    BY <1>1, <2>1, <2>2, <2>3 DEF Installing, Armed, Last, TypeInv
  <2>8. AllMoved' /\ Written' /\ Whole(place)' /\ PayloadKept'
    BY <1>1, <2>1 DEF Installing, AllMoved, Written, Whole, PayloadKept
  <2> QED
    BY <1>0, <1>1, <2>1, <2>6, <2>7, <2>8
    DEF Installing, PlaceInv, PhaseInv, RunningInv, RunsWholePayload, RollbackIsExact
<1> QED
  BY <1>2, <1>3

LEMMA WorkPlaced ==
  ASSUME TypeInv, UsersInv, PlaceInv, Work
  PROVE  PlaceInv'
<1>0. run \in RunRecord /\ run.stage \in 1 .. 7
  BY DEF TypeInv, RunRecord
<1>1. CASE LinkRest \/ CreateUsers \/ FindUsers
  BY <1>0, <1>1, StageNumbers, NextStageTyped, StagePlaced DEF LinkRest, CreateUsers, FindUsers, log
<1>2. CASE Verify
  BY <1>0, <1>2, StageNumbers, NextStageTyped, StagePlaced DEF Verify, log
<1>3. CASE PrepareState \/ LinkUsers \/ WriteBootstrap \/ EnableUnits
  <2>1. run.phase = "install" /\ run' = run
    BY <1>3 DEF PrepareState, LinkUsers, WriteBootstrap, EnableUnits, At
  <2> QED
    BY <1>3, <2>1, StagePlaced DEF PrepareState, LinkUsers, WriteBootstrap, EnableUnits, log
<1>4. CASE Complete
  <2>1. /\ run.phase = "install" /\ run.stage = 7 /\ run' = NoRun /\ ended' = "completed"
        /\ UNCHANGED <<place, dirs, running, before>>
    BY <1>0, <1>4, StageNumbers DEF Complete, log
  <2>2. Whole(place) /\ PayloadKept
    BY <2>1, NewIsWhole DEF PlaceInv, PhaseInv
  <2>3. PayloadKept' /\ RunsWholePayload' /\ RunningInv'
    BY <2>1, <2>2 DEF PayloadKept, RunsWholePayload, RunningInv, Whole, Bootable, NoRun
  <2> QED
    BY <2>1, <2>3 DEF PlaceInv, PhaseInv, RollbackIsExact, NoRun
<1>5. ASSUME NEW i \in Items, Backup(i) \/ Write(i) \/ Discard(i) PROVE PlaceInv'
  BY <1>5, BackupPlaced, WritePlaced, EnablePlaced
<1> QED
  BY <1>1, <1>2, <1>3, <1>4, <1>5, BackupPlaced, EnablePlaced DEF Work

\* A command of main that fails finds a whole backup, or none.
LEMMA FailPlaced ==
  ASSUME RemovalFails = FALSE, TypeInv, PlaceInv, Fail
  PROVE  PlaceInv'
<1>0. /\ run \in RunRecord /\ run.phase \in {"migrate", "backup", "install"}
      /\ run'.phase = RollbackBegins /\ run'.todo = Items /\ run'.active = run.active
      /\ run'.moved = run.moved /\ run'.complete = run.complete
      /\ \A i \in run.moved : dirs[Last][i] # None
      /\ running' = IF run.complete THEN {} ELSE running
      /\ UNCHANGED <<place, dirs, before, torn>>
  BY DEF TypeInv, RunRecord, Fail, log
<1>1. RunsWholePayload' /\ PayloadKept'
  BY <1>0 DEF PlaceInv, RunsWholePayload, PayloadKept, Whole
<1>2. CASE run.phase = "migrate"
  <2>1. run'.phase = "services" /\ place = before.place /\ dirs = before.dirs /\ running' = {}
    BY <1>0, <1>2 DEF PlaceInv, PhaseInv, RollbackBegins
  <2> QED
    BY <1>0, <1>1, <1>2, <2>1 DEF PlaceInv, PhaseInv, RunningInv, RollbackIsExact
<1>3. CASE run.phase = "backup"
  <2>1. run'.phase = "back" /\ Armed' /\ Split' /\ running' = {}
    BY <1>0, <1>3 DEF PlaceInv, PhaseInv, RollbackBegins, Armed, Split, Last
  <2> QED
    BY <1>0, <1>1, <1>3, <2>1 DEF PlaceInv, PhaseInv, RunningInv, RollbackIsExact
<1>4. CASE run.phase = "install"
  <2>1. Installing /\ dirs[Last] \in Payload /\ before.place \in Payload
    BY <1>4, InstallingAt DEF Installing, TypeInv, Last
  <2>2. \A i \in Items : dirs[Last][i] = before.place[i]
    BY <1>0, <2>1 DEF Installing, AllMoved, BackupInv
  <2>3. dirs[Last] = before.place
    BY <2>1, <2>2 DEF Payload
  <2>4. run'.phase = "remove" /\ Armed' /\ AllMoved' /\ Stored' /\ running' = {} /\ dirs'[Last'] = before'.place
    BY <1>0, <2>1, <2>3 DEF Installing, RollbackBegins, Armed, AllMoved, BackupInv, Stored, Last
  <2> QED
    BY <1>0, <1>1, <1>4, <2>4 DEF PlaceInv, PhaseInv, RunningInv, RollbackIsExact
<1> QED
  BY <1>0, <1>2, <1>3, <1>4

\* The last new item removed leaves what was moved in the backup, and the rest
\* as it was found.
LEMMA RemovePlaced ==
  ASSUME TypeInv, PlaceInv, NEW i \in Items, Remove(i)
  PROVE  PlaceInv'
<1>0. /\ run \in RunRecord /\ run.phase = "remove" /\ run'.todo = run.todo \ {i}
      /\ run'.phase = IF run.todo = {i} THEN "back" ELSE "remove"
      /\ run'.active = run.active /\ run'.moved = run.moved
      /\ UNCHANGED <<dirs, running, before, torn>>
  BY DEF TypeInv, RunRecord, Remove, log
<1>1. /\ Armed /\ AllMoved /\ Stored /\ running = {} /\ dirs[Last] = before.place
      /\ \A j \in Items \ run.todo : place[j] = None
  BY <1>0 DEF PlaceInv, PhaseInv
<1>2. place'[i] = None /\ \A j \in Items : j # i => place'[j] = place[j]
  BY DEF Remove, TypeInv, Payload
<1>3. Armed' /\ AllMoved' /\ Stored' /\ dirs'[Last'] = before'.place
  BY <1>0, <1>1 DEF Armed, AllMoved, Stored, Last
<1>4. PayloadKept'
  BY <1>3 DEF Stored, PayloadKept
<1>5. \A j \in Items \ run'.todo : place'[j] = None
  BY <1>0, <1>1, <1>2
<1>6. CASE run.todo = {i}
  <2>1. \A j \in Items : place'[j] = None
    BY <1>0, <1>5, <1>6
  <2>2. Split'
    BY <1>0, <1>1, <2>1 DEF Split, AllMoved, Last
  <2> QED
    BY <1>0, <1>1, <1>3, <1>4, <1>6, <2>2
    DEF PlaceInv, PhaseInv, RunningInv, RunsWholePayload, RollbackIsExact
<1>7. CASE run.todo # {i}
  BY <1>0, <1>1, <1>3, <1>4, <1>5, <1>7
  DEF PlaceInv, PhaseInv, RunningInv, RunsWholePayload, RollbackIsExact
<1> QED
  BY <1>6, <1>7

LEMMA PutBackPlaced ==
  ASSUME TypeInv, PlaceInv, NEW i \in Items, PutBack(i)
  PROVE  PlaceInv'
<1>0. /\ run \in RunRecord /\ run.phase = "back" /\ run'.phase = "back" /\ i \in run.moved
      /\ run'.moved = run.moved \ {i} /\ run'.active = run.active
      /\ UNCHANGED <<running, before, torn>>
  BY DEF TypeInv, RunRecord, PutBack, log
<1>1. Armed /\ Split /\ running = {}
  BY <1>0 DEF PlaceInv, PhaseInv
<1>2. /\ Last \in Nat \ {0} /\ Last \in 1 .. Len(dirs) /\ dirs[Last] \in Payload /\ None \in Contents
      /\ dirs \in Seq(Payload)
  BY <1>0 DEF TypeInv, Last, Contents
<1>3. place[i] = None /\ dirs[Last][i] = before.place[i] /\ before.place[i] # None
  BY <1>0, <1>1 DEF Split
<1>4. place' = [place EXCEPT ![i] = dirs[Last][i]] /\ dirs' = [dirs EXCEPT ![Last][i] = None]
  BY <1>3 DEF PutBack
<1>5. /\ dirs' \in Seq(Payload) /\ Len(dirs') = Len(dirs)
      /\ dirs'[Last] = [dirs[Last] EXCEPT ![i] = None]
      /\ \A k \in 1 .. Len(dirs) : k # Last => dirs'[k] = dirs[k]
  BY <1>2, <1>4, BackupTyped
<1>6. /\ dirs'[Last][i] = None /\ \A j \in Items : j # i => dirs'[Last][j] = dirs[Last][j]
      /\ place'[i] = dirs[Last][i] /\ \A j \in Items : j # i => place'[j] = place[j]
  BY <1>2, <1>4, <1>5 DEF TypeInv, Payload
<1>7. Armed'
  BY <1>0, <1>1, <1>2, <1>5 DEF Armed, Last, TypeInv
<1>8. Split'
  BY <1>0, <1>1, <1>3, <1>5, <1>6 DEF Split, Last
<1>9. PayloadKept'
  <2>1. \A j \in Items : \A v \in {"old", "new"} : Somewhere(j, v) => Somewhere(j, v)'
    <3> TAKE j \in Items, v \in {"old", "new"}
    <3>1. DOMAIN dirs = 1 .. Len(dirs) /\ DOMAIN dirs' = 1 .. Len(dirs) /\ v # None
      BY <1>2, <1>5, InstallAssumption
    <3>2. ASSUME place[j] = v PROVE place'[j] = v
      BY <1>3, <1>6, <3>1, <3>2
    <3>3. ASSUME NEW d \in DOMAIN dirs, dirs[d][j] = v PROVE dirs'[d][j] = v \/ place'[j] = v
      BY <1>5, <1>6, <3>1, <3>3
    <3> QED
      BY <3>1, <3>2, <3>3 DEF Somewhere
  <2> QED
    BY <2>1, Keeps DEF PlaceInv
<1> QED
  BY <1>0, <1>1, <1>7, <1>8, <1>9 DEF PlaceInv, PhaseInv, RunningInv, RunsWholePayload, RollbackIsExact

\* A backup that was put back is empty: its removal loses nothing.
LEMMA RemoveBackupPlaced ==
  ASSUME TypeInv, PlaceInv, RemoveBackup
  PROVE  PlaceInv'
<1>0. /\ run \in RunRecord /\ run.phase = "back" /\ run'.phase = "services" /\ run.moved = {}
      /\ run'.active = run.active /\ UNCHANGED <<place, running, before, torn>>
  BY DEF TypeInv, RunRecord, RemoveBackup, log
<1>1. Armed /\ Split /\ running = {} /\ place \in Payload /\ before.place \in Payload
  BY <1>0 DEF PlaceInv, PhaseInv, TypeInv
<1>2. Last \in 1 .. Len(dirs) /\ dirs[Last] \in Payload /\ dirs \in Seq(Payload) /\ before.dirs \in Seq(Payload)
  BY <1>0 DEF TypeInv, Last
<1>3. dirs[Last] = Empty /\ place = before.place
  BY <1>0, <1>1, <1>2 DEF Split, Payload, Empty
<1>4. dirs' = dirs
  BY <1>2, <1>3 DEF RemoveBackup
<1>5. dirs = Append(before.dirs, Empty)
  BY <1>1, <1>2, <1>3, NoRunTyped DEF Armed, Last
<1> QED
  BY <1>0, <1>1, <1>3, <1>4, <1>5, Unmoved DEF PlaceInv, PhaseInv, RunningInv, RollbackIsExact

LEMMA RollbackPlaced ==
  ASSUME RemovalFails = FALSE, TypeInv, PlaceInv, Rollback \/ Fail \/ RollbackFails \/ Kill \/ Boot \/ Seed
  PROVE  PlaceInv'
<1>1. CASE RollbackFails
  BY <1>1, EndPlaced DEF RollbackFails, GiveUp, log
<1>2. CASE Kill
  BY <1>2, EndPlaced DEF Kill, log
<1>3. CASE RolledBack
  <2>1. /\ run.phase = "services" /\ run' = NoRun /\ running = before.running
        /\ place = before.place /\ UNCHANGED <<place, dirs, running, before, torn>>
    BY <1>3 DEF RolledBack, log, PlaceInv, PhaseInv, RunningInv
  <2>2. RunningInv'
    BY <2>1 DEF PlaceInv, RunningInv, NoRun, Bootable, Whole
  <2> QED
    BY <2>1, <2>2, Unmoved DEF PlaceInv, PhaseInv, RollbackIsExact, NoRun
<1>4. ASSUME NEW s \in Services, Restart(s) PROVE PlaceInv'
  <2>1. /\ run.phase = "services" /\ s \in run.active /\ running' = running \cup {s}
        /\ UNCHANGED <<place, dirs, run, before, torn>>
    BY <1>4 DEF Restart, log
  <2>2. torn # "booted" => Whole(place)'
    BY <2>1 DEF PlaceInv, PhaseInv, RunningInv, Whole
  <2> QED
    BY <2>1, <2>2 DEF PlaceInv, PhaseInv, RunningInv, RunsWholePayload, RollbackIsExact, PayloadKept
<1>5. CASE Boot
  <2>1. /\ run.phase = "idle" /\ ended' = "booted"
        /\ torn' = IF torn = "stopped" THEN "booted" ELSE torn
        /\ running' # {} => place["unit"] # None
        /\ UNCHANGED <<place, dirs, run, before>>
    BY <1>5 DEF Boot, TypeInv, log
  <2>2. torn = "no" => Bootable(place)
    BY <2>1 DEF PlaceInv, RunningInv
  <2>3. RunsWholePayload'
    BY <2>1, <2>2 DEF TypeInv, Bootable, RunsWholePayload, Whole
  <2>4. RunningInv' /\ PayloadKept'
    BY <2>1, <2>2 DEF PlaceInv, RunningInv, PayloadKept, Bootable, Whole
  <2> QED
    BY <2>1, <2>3, <2>4 DEF PlaceInv, PhaseInv, RollbackIsExact
<1>6. CASE Seed
  <2>1. UNCHANGED <<place, dirs, running, run, before, torn, ended>>
    BY <1>6 DEF Seed, log
  <2> QED
    BY <2>1, SamePlaced
<1> QED
  BY <1>1, <1>2, <1>3, <1>4, <1>5, <1>6, FailPlaced, RemovePlaced, PutBackPlaced, RemoveBackupPlaced DEF Rollback

-----------------------------------------------------------------------------
(* The invariant *)

LEMMA Initially == Init => IInv
  BY TypedAtFirst, PlacedAtFirst DEF IInv

LEMMA Inductive ==
  ASSUME RemovalFails = FALSE
  PROVE  IInv /\ [Next]_vars => IInv'
<1> SUFFICES ASSUME IInv, [Next]_vars PROVE IInv'
  OBVIOUS
<1>1. TypeInv' /\ UsersInv'
  BY Typed DEF IInv
<1>2. TypeInv /\ UsersInv /\ PlaceInv
  BY DEF IInv
<1>3. CASE UNCHANGED vars
  <2>1. UNCHANGED <<place, dirs, running, run, before, torn, ended>>
    BY <1>3 DEF vars
  <2> QED
    BY <1>1, <1>2, <2>1, SamePlaced DEF IInv
<1>4. CASE Work
  BY <1>1, <1>2, <1>4, WorkPlaced DEF IInv
<1>5. CASE Rollback \/ Fail \/ RollbackFails \/ Kill \/ Boot \/ Seed
  BY <1>1, <1>2, <1>5, RollbackPlaced DEF IInv
<1> QED
  BY <1>3, <1>4, <1>5 DEF Next

LEMMA Invariance ==
  ASSUME RemovalFails = FALSE
  PROVE  Spec => []IInv
  BY Initially, Inductive, PTL DEF Spec

\* One payload is whole, in place or in backup directories, whatever failed or
\* was killed in however many runs; the removal of a backup that fails half way,
\* after which the new payload is removed too, is excepted.
THEOREM OnePayloadIsKept ==
  ASSUME RemovalFails = FALSE
  PROVE  Spec => []PayloadKept
<1>1. IInv => PayloadKept
  BY DEF IInv, PlaceInv
<1> QED
  BY <1>1, Invariance, PTL

\* Services are up only on a payload that is whole and of one version, over boots
\* and any number of runs; what a boot starts after a run that stopped inside the
\* backup, its rollback or the writing of the unit files is excepted.
THEOREM OnlyWholePayloadsRun ==
  ASSUME RemovalFails = FALSE
  PROVE  Spec => []RunsWholePayload
<1>1. IInv => RunsWholePayload
  BY DEF IInv, PlaceInv
<1> QED
  BY <1>1, Invariance, PTL

\* A run that rolled back left the payload, the backup directories and the
\* services as it found them.
THEOREM RollbacksAreExact ==
  ASSUME RemovalFails = FALSE
  PROVE  Spec => []RollbackIsExact
<1>1. IInv => RollbackIsExact
  BY DEF IInv, PlaceInv
<1> QED
  BY <1>1, Invariance, PTL

=============================================================================
