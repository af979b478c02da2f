---------------------------- MODULE UpgradeBackupsProofs ----------------------------
(***************************************************************************)
(* Proofs about the two jobs that replace files of the panel: its upgrade, *)
(* and the restore of a backup.                                            *)
(*                                                                         *)
(* Upgrade, for every set of packages and keys and every number of         *)
(* upgrades and host restarts: while upgrades come one at a time, what the *)
(* panel installs was signed, and a failed upgrade is taken back.          *)
(*                                                                         *)
(* Backups with Schedules, for every set of tasks, settings and loads:     *)
(* cron runs what the list says, a restore is complete or taken back, and  *)
(* the panel keeps its configuration.                                      *)
(***************************************************************************)
EXTENDS Upgrade, Backups, FiniteSetTheorems, TLAPS

-----------------------------------------------------------------------------
(* UPGRADE                                                                 *)

-----------------------------------------------------------------------------
(* Type correctness.                                                       *)

\* A panel that starts is one of the packages.
LEMMA StartPanelTypes ==
  ASSUME binary \in Packages, StartPanel
  PROVE  running' \in Packages \cup {None} /\ running' # None /\ executes' \in BOOLEAN
BY UpgradeAssumption DEF StartPanel

\* A script that is past its first copy finds a rollback file: no step removes it.
HasRollback == \A i \in Upgrades : stage[i] \in ScriptStages \ {"copy"} => rollback # None

\* The types are not inductive by themselves: Restore copies the rollback file.
TypeInv == TypeOK /\ HasRollback

\* The types and the rollback file, preserved by every step.
LEMMA TypeInvariant == Spec => []TypeInv
<1> USE UpgradeAssumption DEF TypeInv, HasRollback, TypeOK, Stages, JobStages, ScriptStages, files, process, history, vars
<1>1. Init => TypeInv
  <2>1. Init => overlapped \in BOOLEAN /\ refused \in BOOLEAN
    BY DEF Init
  <2>2. QED
    BY <2>1 DEF Init, Healthy
<1>2. TypeInv /\ [Next]_vars => TypeInv'
  <2> SUFFICES ASSUME TypeInv, [Next]_vars
               PROVE  TypeInv'
    OBVIOUS
  <2>1. ASSUME NEW k \in Keys, Configure(k)
        PROVE  TypeInv'
    BY <2>1 DEF Configure
  <2>2. ASSUME NEW i \in Upgrades, NEW p \in Packages, Apply(i, p)
        PROVE  TypeInv'
    BY <2>2 DEF Apply, Answering, Goto
  <2>3. ASSUME NEW i \in Upgrades, NEW p \in Packages, Download(i, p)
        PROVE  TypeInv'
    BY <2>3 DEF Download, Goto
  <2>4. ASSUME NEW i \in Upgrades, Verify(i)
        PROVE  TypeInv'
    BY <2>4 DEF Verify, Goto
  <2>5. ASSUME NEW i \in Upgrades, SelfTest(i)
        PROVE  TypeInv'
    BY <2>5 DEF SelfTest, Goto
  <2>6. ASSUME NEW i \in Upgrades, Schedule(i)
        PROVE  TypeInv'
    BY <2>6 DEF Schedule, Goto
  <2>7. ASSUME NEW i \in Upgrades, Reject(i)
        PROVE  TypeInv'
    BY <2>7 DEF Reject, Goto
  <2>8. ASSUME NEW i \in Upgrades, Copy(i)
        PROVE  TypeInv'
    BY <2>8 DEF Copy, Saved, Goto
  <2>9. ASSUME NEW i \in Upgrades, Move(i)
        PROVE  TypeInv'
    <3>1. CASE update = None
      BY <2>9, <3>1 DEF Move, Goto
    <3>2. CASE update # None
      BY <2>9, <3>2 DEF Move, Goto
    <3>3. QED
      BY <3>1, <3>2
  <2>10. ASSUME NEW i \in Upgrades, Restart(i)
         PROVE  TypeInv'
    <3>1. running' \in Packages \cup {None} /\ executes' \in BOOLEAN /\ (executes' => running' # None)
      BY <2>10, StartPanelTypes DEF Restart
    <3>2. \A k \in Upgrades : stage'[k] \notin JobStages
      BY <2>10 DEF Restart, WithoutJobs
    <3>3. stage' \in [Upgrades -> Stages] /\ HasRollback'
      BY <2>10 DEF Restart, WithoutJobs
    <3>4. QED
      BY <2>10, <3>1, <3>2, <3>3 DEF Restart
  <2>11. ASSUME NEW i \in Upgrades, CheckHealth(i)
         PROVE  TypeInv'
    BY <2>11 DEF CheckHealth, AfterUnhealthy, Goto
  <2>12. ASSUME NEW i \in Upgrades, Restore(i)
         PROVE  TypeInv'
    BY <2>12 DEF Restore, Refuses, Goto
  <2>13. ASSUME NEW i \in Upgrades, RestartOld(i)
         PROVE  TypeInv'
    BY <2>13, StartPanelTypes DEF RestartOld, WithoutJobs
  <2>14. CASE Crash \/ AutoRestart
    <3>1. running \notin Healthy
      BY <2>14 DEF Crash, AutoRestart, Healthy
    <3>2. QED
      BY <2>14, <3>1, StartPanelTypes DEF Crash, AutoRestart
  <2>15. CASE HostRestart
    BY <2>15, StartPanelTypes DEF HostRestart, WithoutJobs
  <2>16. CASE UNCHANGED vars
    BY <2>16
  <2>17. QED
    BY <2>1, <2>2, <2>3, <2>4, <2>5, <2>6, <2>7, <2>8, <2>9, <2>10, <2>11,
       <2>12, <2>13, <2>14, <2>15, <2>16 DEF Next, Job, Script
<1>3. QED
  BY <1>1, <1>2, PTL DEF Spec

\* Whatever the upgrades and the scripts do to each other, there is a binary, and no
\* job goes on without a panel.
THEOREM TypeCorrect == Spec => []TypeOK
<1>1. TypeInv => TypeOK
  BY DEF TypeInv
<1>2. QED
  BY <1>1, TypeInvariant, PTL

-----------------------------------------------------------------------------
(* What is installed was signed.  The argument follows the package: its    *)
(* manifest was signed, the digest ties the file to the manifest, and      *)
(* nobody else writes the file until the script moves it, because nobody   *)
(* else is under way.                                                      *)

SignedPackages == UNION {Signed[k] : k \in Keys}
Trusted == {Installed} \cup SignedPackages

Alone == \A i, j \in Upgrades : {i, j} \subseteq UnderWay => i = j
TargetsSigned == \A i \in Upgrades : stage[i] # "none" => target[i] \in SignedPackages
CheckedStays ==
  \A i \in Upgrades :
    stage[i] \in {"selftest", "schedule", "copy", "move"} => update = target[i]
FilesTrusted == binary \in Trusted /\ rollback \in Trusted \cup {None}

SignedInv == ~overlapped => Alone /\ TargetsSigned /\ CheckedStays /\ FilesTrusted

\* Upgrades that overlapped once have overlapped for good.
LEMMA OverlapStays ==
  ASSUME [Next]_vars
  PROVE  overlapped => overlapped'
BY DEF Next, Job, Script, Configure, Apply, Download, Verify, SelfTest, Schedule, Reject, Copy, Move,
       Restart, CheckHealth, Restore, RestartOld, Crash, AutoRestart, HostRestart, history, vars

\* Every step of an upgrade that is alone hands on a package that was signed.
LEMMA SignedStep ==
  ASSUME TypeInv, SignedInv, [Next]_vars
  PROVE  SignedInv'
<1> USE DEF SignedInv, Alone, TargetsSigned, CheckedStays, FilesTrusted, Trusted, UnderWay,
            TypeInv, HasRollback, TypeOK, Stages, JobStages, ScriptStages, files, process, history, vars
<1> SUFFICES ASSUME ~overlapped, ~overlapped'
             PROVE  (Alone /\ TargetsSigned /\ CheckedStays /\ FilesTrusted)'
  BY OverlapStays
<1>1. ASSUME NEW k \in Keys, Configure(k)
      PROVE  SignedInv'
  BY <1>1 DEF Configure
<1>2. ASSUME NEW i \in Upgrades, NEW p \in Packages, Apply(i, p)
      PROVE  SignedInv'
  <2>1. \A k \in Upgrades : stage[k] \notin JobStages \cup ScriptStages
    BY <1>2 DEF Apply
  <2>2. p \in SignedPackages
    BY <1>2 DEF Apply, SignedPackages
  <2>3. QED
    BY <1>2, <2>1, <2>2 DEF Apply, Goto
<1>3. ASSUME NEW i \in Upgrades, NEW p \in Packages, Download(i, p)
      PROVE  SignedInv'
  BY <1>3 DEF Download, Goto
<1>4. ASSUME NEW i \in Upgrades, Verify(i)
      PROVE  SignedInv'
  BY <1>4 DEF Verify, HashMatches, Goto
<1>5. ASSUME NEW i \in Upgrades, SelfTest(i)
      PROVE  SignedInv'
  BY <1>5 DEF SelfTest, Goto
<1>6. ASSUME NEW i \in Upgrades, Schedule(i)
      PROVE  SignedInv'
  BY <1>6 DEF Schedule, Goto
<1>7. ASSUME NEW i \in Upgrades, Reject(i)
      PROVE  SignedInv'
  BY <1>7 DEF Reject, Goto
<1>8. ASSUME NEW i \in Upgrades, Copy(i)
      PROVE  SignedInv'
  BY <1>8 DEF Copy, Saved, Goto
<1>9. ASSUME NEW i \in Upgrades, Move(i)
      PROVE  SignedInv'
  <2>1. CASE update = None
    BY <1>9, <2>1 DEF Move, Goto
  <2>2. CASE update # None
    BY <1>9, <2>2 DEF Move, Goto
  <2>3. QED
    BY <2>1, <2>2
<1>10. ASSUME NEW i \in Upgrades, Restart(i)
       PROVE  SignedInv'
  BY <1>10 DEF Restart, WithoutJobs
<1>11. ASSUME NEW i \in Upgrades, CheckHealth(i)
       PROVE  SignedInv'
  BY <1>11 DEF CheckHealth, AfterUnhealthy, Goto
<1>12. ASSUME NEW i \in Upgrades, Restore(i)
       PROVE  SignedInv'
  BY <1>12 DEF Restore, Goto
<1>13. ASSUME NEW i \in Upgrades, RestartOld(i)
       PROVE  SignedInv'
  BY <1>13 DEF RestartOld, WithoutJobs
<1>14. CASE Crash \/ AutoRestart
  BY <1>14 DEF Crash, AutoRestart
<1>15. CASE HostRestart
  BY <1>15 DEF HostRestart, WithoutJobs
<1>16. CASE UNCHANGED vars
  BY <1>16
<1>17. QED
  BY <1>1, <1>2, <1>3, <1>4, <1>5, <1>6, <1>7, <1>8, <1>9, <1>10, <1>11,
     <1>12, <1>13, <1>14, <1>15, <1>16 DEF Next, Job, Script

\* While upgrades come one at a time, the binary is the first one or one that a key
\* signed, whatever the sources serve and however the panels behave.
THEOREM InstalledSigned == Spec => []OnlySigned
<1>1. Init => SignedInv
  BY DEF Init, SignedInv, Alone, TargetsSigned, CheckedStays, FilesTrusted, Trusted, UnderWay,
         JobStages, ScriptStages
<1>2. TypeInv /\ SignedInv /\ [Next]_vars => SignedInv'
  BY SignedStep
<1>3. SignedInv => OnlySigned
  BY DEF SignedInv, FilesTrusted, Trusted, SignedPackages, OnlySigned
<1>4. QED
  BY <1>1, <1>2, <1>3, TypeInvariant, PTL DEF Spec

-----------------------------------------------------------------------------
(* A failed upgrade is taken back, while upgrades come one at a time, the  *)
(* host stays up and no restoring copy is refused: from its first copy to  *)
(* its last restart a script has the binary of before in the rollback      *)
(* file, and a panel that crashes and is started again runs what the path  *)
(* of the binary holds.                                                    *)

NoScript == \A i \in Upgrades : stage[i] \notin ScriptStages

\* What a script can rely on at each of its steps.
ScriptState ==
  \A i \in Upgrades :
    /\ stage[i] \in ScriptStages => before[i] \in Healthy
    /\ stage[i] \in ScriptStages \ {"copy"} => rollback = before[i]
    /\ stage[i] \in {"copy", "move"} => binary = before[i] /\ running = before[i]
    /\ stage[i] = "restart" => running = before[i]
    /\ stage[i] = "health" => running \in {None, binary}
    /\ stage[i] = "restartOld" => binary = before[i]

\* Without a script, the panel runs the binary.
Settled == NoScript => running = binary /\ binary \in Healthy

RollbackInv == Calm => ScriptState /\ Settled

\* What was calm stays behind: no step makes it calm again.
LEMMA CalmBefore ==
  ASSUME TypeInv, [Next]_vars, Calm'
  PROVE  Calm
<1>1. hostRestarts = 0
  BY DEF Calm, TypeInv, TypeOK, Next, Job, Script, Configure, Apply, Download, Verify, SelfTest, Schedule,
         Reject, Copy, Move, Restart, CheckHealth, Restore, RestartOld, Crash, AutoRestart, HostRestart, history, vars
<1>2. ~refused
  BY DEF Calm, Next, Job, Script, Configure, Apply, Download, Verify, SelfTest, Schedule,
         Reject, Copy, Move, Restart, CheckHealth, Restore, RestartOld, Crash, AutoRestart, HostRestart, history, vars
<1>3. QED
  BY <1>1, <1>2, OverlapStays DEF Calm

\* Every step keeps what scripts rely on, and leaves a healthy panel when none goes on.
LEMMA RollbackStep ==
  ASSUME TypeInv, SignedInv, RollbackInv, [Next]_vars
  PROVE  RollbackInv'
<1> USE UpgradeAssumption
    DEF RollbackInv, ScriptState, Settled, NoScript, Alone, TargetsSigned, CheckedStays, SignedPackages,
        SignedInv, UnderWay, Healthy, TypeInv, HasRollback, TypeOK, Stages, JobStages, ScriptStages,
        files, process, history, vars
<1> SUFFICES ASSUME Calm, Calm'
             PROVE  (ScriptState /\ Settled)'
  BY CalmBefore
<1>0. ScriptState /\ Settled /\ Alone /\ TargetsSigned /\ CheckedStays
  BY DEF Calm
<1>1. ASSUME NEW k \in Keys, Configure(k)
      PROVE  (ScriptState /\ Settled)'
  BY <1>0, <1>1 DEF Configure
<1>2. ASSUME NEW i \in Upgrades, NEW p \in Packages, Apply(i, p)
      PROVE  (ScriptState /\ Settled)'
  BY <1>0, <1>2 DEF Apply, Goto
<1>3. ASSUME NEW i \in Upgrades, NEW p \in Packages, Download(i, p)
      PROVE  (ScriptState /\ Settled)'
  BY <1>0, <1>3 DEF Download, Goto
<1>4. ASSUME NEW i \in Upgrades, Verify(i)
      PROVE  (ScriptState /\ Settled)'
  BY <1>0, <1>4 DEF Verify, Goto
<1>5. ASSUME NEW i \in Upgrades, SelfTest(i)
      PROVE  (ScriptState /\ Settled)'
  BY <1>0, <1>5 DEF SelfTest, Goto
<1>6. ASSUME NEW i \in Upgrades, Schedule(i)
      PROVE  (ScriptState /\ Settled)'
  <2>1. NoScript
    BY <1>0, <1>6 DEF Schedule
  <2>2. QED
    BY <1>0, <1>6, <2>1 DEF Schedule, Goto
<1>7. ASSUME NEW i \in Upgrades, Reject(i)
      PROVE  (ScriptState /\ Settled)'
  BY <1>0, <1>7 DEF Reject, Goto
<1>8. ASSUME NEW i \in Upgrades, Copy(i)
      PROVE  (ScriptState /\ Settled)'
  BY <1>0, <1>8 DEF Copy, Saved, Goto
<1>9. ASSUME NEW i \in Upgrades, Move(i)
      PROVE  (ScriptState /\ Settled)'
  <2>1. CASE update = None
    BY <1>0, <1>9, <2>1 DEF Move, Goto
  <2>2. CASE update # None
    BY <1>0, <1>9, <2>2 DEF Move, Goto
  <2>3. QED
    BY <2>1, <2>2
<1>10. ASSUME NEW i \in Upgrades, Restart(i)
       PROVE  (ScriptState /\ Settled)'
  BY <1>0, <1>10 DEF Restart, StartPanel, WithoutJobs
<1>11. ASSUME NEW i \in Upgrades, CheckHealth(i)
       PROVE  (ScriptState /\ Settled)'
  BY <1>0, <1>11 DEF CheckHealth, AfterUnhealthy, Goto
<1>12. ASSUME NEW i \in Upgrades, Restore(i)
       PROVE  (ScriptState /\ Settled)'
  <2>1. binary' = rollback
    BY <1>0, <1>12 DEF Restore, Calm
  <2>2. QED
    BY <1>0, <1>12, <2>1 DEF Restore, Goto
<1>13. ASSUME NEW i \in Upgrades, RestartOld(i)
       PROVE  (ScriptState /\ Settled)'
  BY <1>0, <1>13 DEF RestartOld, StartPanel, WithoutJobs
<1>14. CASE Crash
  BY <1>0, <1>14 DEF Crash
<1>15. CASE AutoRestart
  BY <1>0, <1>15 DEF AutoRestart, StartPanel
<1>16. ~HostRestart
  BY DEF HostRestart, Calm
<1>17. CASE UNCHANGED vars
  BY <1>17
<1>18. QED
  BY <1>0, <1>1, <1>2, <1>3, <1>4, <1>5, <1>6, <1>7, <1>8, <1>9, <1>10, <1>11,
     <1>12, <1>13, <1>14, <1>15, <1>16, <1>17 DEF Next, Job, Script

\* What is signed and what scripts rely on hold together in every state.
LEMMA RollbackInvariant == Spec => [](TypeInv /\ SignedInv /\ RollbackInv)
<1>1. Init => SignedInv /\ RollbackInv
  BY UpgradeAssumption
     DEF Init, SignedInv, Alone, TargetsSigned, CheckedStays, FilesTrusted, Trusted, UnderWay,
         RollbackInv, ScriptState, Settled, JobStages, ScriptStages
<1>2. TypeInv /\ SignedInv /\ RollbackInv /\ [Next]_vars => SignedInv' /\ RollbackInv'
  BY SignedStep, RollbackStep
<1>3. QED
  BY <1>1, <1>2, TypeInvariant, PTL DEF Spec

\* When no script is under way the panel answers, while upgrades come one at a time, the
\* host stays up and no restoring copy was refused, whatever panels crash and start again.
THEOREM FailedTakenBack == Spec => []RollsBack
<1>1. RollbackInv => RollsBack
  BY DEF RollbackInv, Settled, NoScript, RollsBack
<1>2. QED
  BY <1>1, RollbackInvariant, PTL

\* An upgrade that fails leaves the panel running the binary of before it, under the same
\* conditions: also when its first copy fails, or a panel that crashes is started again
\* between two steps of the script.
THEOREM OldBinaryBack == Spec => FailureRestores
<1>1. ASSUME TypeInv, SignedInv, RollbackInv, [Next]_vars,
             NEW i \in Upgrades, Calm', stage[i] \in ScriptStages, stage'[i] = "failed"
      PROVE  running' = before[i]
  <2>1. Calm
    BY <1>1, CalmBefore
  <2>2. ScriptState /\ Alone /\ CheckedStays /\ TargetsSigned
    BY <1>1, <2>1 DEF RollbackInv, SignedInv, Calm
  <2>3. CASE Copy(i) \/ Move(i)
    <3>1. stage[i] \in {"copy", "move"} /\ UNCHANGED running
      BY <2>3 DEF Copy, Move, process
    <3>2. QED
      BY <1>1, <2>2, <3>1 DEF ScriptState
  <2>4. CASE RestartOld(i)
    BY <1>1, <2>2, <2>4 DEF RestartOld, StartPanel, ScriptState, ScriptStages
  <2>5. Copy(i) \/ Move(i) \/ RestartOld(i)
    <3>1. ~HostRestart
      BY <1>1 DEF HostRestart, Calm, TypeInv, TypeOK
    <3>2. \A j \in Upgrades \ {i} : stage[j] \notin JobStages \cup ScriptStages
      BY <1>1, <2>2 DEF Alone, UnderWay
    <3>3. stage \in [Upgrades -> Stages]
      BY <1>1 DEF TypeInv, TypeOK
    <3>4. QED
      BY <1>1, <3>1, <3>2, <3>3
         DEF Next, Job, Script, Configure, Apply, Download, Verify, SelfTest, Schedule, Reject, Copy, Move,
             Restart, CheckHealth, Restore, RestartOld, Crash, AutoRestart, WithoutJobs, Goto, AfterUnhealthy,
             JobStages, ScriptStages, vars
  <2>6. QED
    BY <2>3, <2>4, <2>5
<1>2. TypeInv /\ SignedInv /\ RollbackInv /\ [Next]_vars
        => [\A i \in Upgrades :
              Calm' /\ stage[i] \in ScriptStages /\ stage'[i] = "failed" => running' = before[i]]_vars
  BY <1>1
<1>3. QED
  BY <1>2, RollbackInvariant, PTL DEF Spec, FailureRestores

-----------------------------------------------------------------------------
(* BACKUPS                                                                 *)

-----------------------------------------------------------------------------
(* The inductive invariant.                                                *)

Jobs == [step : JobSteps, at : 1 .. 5, open : BOOLEAN, bad : BOOLEAN, pack : Packs, old : Packs, before : Packs]

Restoring == job.step \in {"save", "extract", "test", "undo"}

\* A job that is writing has a file to write while the file is open.
BackupTypeInv ==
  /\ BackupTypeOK /\ job \in Jobs
  /\ job.open => Writing /\ ~AtEnd /\ Source[BackupPaths[job.at]] # NoFile
  /\ request.step \in {"cron", "list", "undo"} => request.id \in Ids

\* Where requests and jobs do not overlap, a request writes what it read, but for
\* its own task, and the file of cron before the list.
RequestInv ==
  Apart =>
    /\ NoJob \/ NoRequest
    /\ request.step \in {"cron", "list", "undo"} =>
         /\ request.previous = ReadList
         /\ \A i \in Ids \ {request.id} : request.list[i] = ReadList[i]
    /\ request.step \in {"list", "undo"} => cron = CronFile(request.list)
    /\ request.step = "undo" => faults > 0

\* What an archive makes of the files that were there before: it keeps those that it lacks.
Over(pack, kept) == [f \in Files |-> IF pack[f] = NoFile THEN kept[f] ELSE pack[f]]

\* What a restore makes of the disk.
Restored == Over(job.pack, job.before)

\* A file is absent, or has the content of before or that of the archive.
Touched == \A f \in Files : Disk[f] \in {NoFile, job.before[f], job.pack[f]}

\* The file that tar is writing is absent meanwhile.
OpenAbsent == job.open => Disk[BackupPaths[job.at]] = NoFile

\* The first files have what the source has, and those that it lacks are as they were.
Written == \A k \in 1 .. 4 : LET f == BackupPaths[k] IN
             k < job.at /\ Source[f] # NoFile => Disk[f] = Source[f]
Kept == \A f \in Files : job.pack[f] = NoFile => Disk[f] = job.before[f]

\* The first files of an archive that is being made.
Taken(pack, at) == \A k \in 1 .. 4 : k < at => pack[BackupPaths[k]] = Disk[BackupPaths[k]]

\* What the job has read so far, and what it has written, file by file.
DiskInv ==
  Apart =>
    /\ job.step \in {"create", "save"} => Disk = job.before
    /\ job.step = "create" => Taken(job.pack, job.at)
    /\ job.step = "save" => Taken(job.old, job.at)
    /\ Restoring => job.pack = archive
    /\ job.step \in {"extract", "test", "undo"} => job.old = job.before
    /\ Writing => Touched /\ OpenAbsent /\ (~job.bad => Written)
    /\ job.step = "extract" => Kept
    /\ job.step = "test" => Disk = Restored

\* A list and a file of cron that differ in one task at most, and exactly agree where they have to.
RunsOf(lines) == IF lines = NoFile THEN NoTasks ELSE lines
ListOf(list) == IF list = NoFile THEN NoTasks ELSE list
OneAway(list, lines) == \A i, j \in Ids :
  RunsOf(lines)[i] # CronFile(ListOf(list))[i] /\ RunsOf(lines)[j] # CronFile(ListOf(list))[j] => i = j
InStep(list, lines, exact) ==
  /\ lines = NoFile => list = NoFile
  /\ OneAway(list, lines)
  /\ exact => RunsOf(lines) = CronFile(ListOf(list))

Exact == stops = 0 /\ faults <= 1

\* The list and the file of cron, on the disk, in the archive and before the job.
\* There is no list in the archive when there was none at its time, and a list never goes away.
TasksInv ==
  Apart /\ ~cut /\ ~unlisted =>
    /\ (NoJob /\ NoRequest) \/ request.step = "cron" => InStep(schedules, cron, Exact)
    /\ InStep(archive["schedules"], archive["cron"], Exact)
    /\ NoJob => /\ InStep(schedules, cron, FALSE)
                /\ schedules = NoFile => archive["schedules"] = NoFile
    /\ ~NoJob => /\ InStep(job.before["schedules"], job.before["cron"], Exact)
                 /\ job.before["schedules"] = NoFile => archive["schedules"] = NoFile

\* Every configuration there is has been set up, until a restore is cut, and the rollback has one:
\* it is absent on the disk only until tar, or the tar of the rollback, has written it.
SetUp(c) == c # NewConfig
ConfigGone ==
  Writing /\ (job.bad \/ (job.at = 1 /\ (job.open \/ job.step = "undo")))
SetUpInv ==
  ~cut =>
    /\ up /\ SetUp(config)
    /\ \A c \in {configFile, archive["config"], job.pack["config"], job.old["config"]} : SetUp(c)
    /\ configFile = NoFile => ConfigGone
    /\ (job.step = "save" /\ job.at > 1) \/ job.step \in {"extract", "test", "undo"} => job.old["config"] # NoFile


(* Steps: the files of a backup *)

\* The files, in the order in which tar takes them.
LEMMA Paths ==
  /\ Len(BackupPaths) = 4
  /\ BackupPaths[1] = "config" /\ BackupPaths[2] = "schedules"
  /\ BackupPaths[3] = "site" /\ BackupPaths[4] = "cron"
BY DEF BackupPaths

\* The disk is an archive of the files as they are, the empty one is an archive too.
LEMMA DiskTypes ==
  ASSUME configFile \in Configs \cup {NoFile}, schedules \in Lists \cup {NoFile},
         site \in Sites \cup {NoFile}, cron \in Lines \cup {NoFile}
  PROVE  Disk \in Packs
BY DEF Disk, Packs, Files

LEMMA NothingTypes == Nothing \in Packs
BY DEF Nothing, Packs, Files

LEMMA PathTypes == \A k \in 1 .. 4 : BackupPaths[k] \in Files
BY Paths DEF Files

\* An archive with one more file of the disk is an archive.
LEMMA TakenTypes ==
  ASSUME NEW p \in Packs, NEW d \in Packs, NEW f \in Files
  PROVE  [p EXCEPT ![f] = d[f]] \in Packs
BY DEF Packs, Files

\* A file that is put on the disk from an archive, or removed, keeps the types.
LEMMA PutTypes ==
  ASSUME Disk \in Packs, NEW f \in Files, NEW p \in Packs, NEW c \in {NoFile, p[f]}, Put(f, c)
  PROVE  /\ configFile' \in Configs \cup {NoFile} /\ schedules' \in Lists \cup {NoFile}
         /\ site' \in Sites \cup {NoFile} /\ cron' \in Lines \cup {NoFile}
BY DEF Packs, Files, Put, Disk

\* The tasks of a list that changes in one, and the file of cron for a list.
LEMMA ListTypes ==
  ASSUME schedules \in Lists \cup {NoFile}
  PROVE  ReadList \in Lists
BY DEF ReadList, NoTasks, Lists

LEMMA CronTypes ==
  ASSUME NEW list \in Lists
  PROVE  CronFile(list) \in Lines
BY DEF CronFile, Lists, Lines, Entry

LEMMA LockedTypes ==
  ASSUME BackupTypeInv, NEW id \in Ids, NEW entry \in Entry \cup {NoTask}, Locked(id, entry)
  PROVE  ScheduleTypeOK' /\ request'.id \in Ids
<1>1. ReadList \in Lists /\ Changed(id, entry) \in Lists
  BY ListTypes DEF BackupTypeInv, BackupTypeOK, ScheduleTypeOK, Changed, Lists
<1>2. request' \in Request /\ request'.id \in Ids
  BY <1>1 DEF Locked, Request, Steps
<1>3. requests' \in 0 .. load.requests
  BY SchedulesAssumption DEF Locked, BackupTypeInv, BackupTypeOK, ScheduleTypeOK
<1>4. QED
  BY <1>2, <1>3 DEF Locked, BackupTypeInv, BackupTypeOK, ScheduleTypeOK

-----------------------------------------------------------------------------
(* Types *)

\* What is left to show of a step of a job.
LEMMA JobStepTypes ==
  ASSUME BackupTypeInv, ScheduleTypeOK', job' \in Jobs,
         configFile' \in Configs \cup {NoFile}, site' \in Sites \cup {NoFile},
         archive' \in Packs, job'.open => (Writing /\ ~AtEnd /\ Source[BackupPaths[job.at]] # NoFile)',
         UNCHANGED <<request, config, up, saves, load>>, {cut', unlisted'} \subseteq BOOLEAN,
         jobs' \in 0 .. load.jobs
  PROVE  BackupTypeInv'
BY DEF BackupTypeInv, BackupTypeOK, Jobs

\* A job that goes on.
LEMMA JobTypes ==
  ASSUME NEW j \in Jobs
  PROVE  /\ \A step \in JobSteps : LET k == [j EXCEPT !.step = step] IN k \in Jobs /\ (~j.open => ~k.open)
         /\ \A step \in JobSteps, at \in 1 .. 5 :
              LET k == [j EXCEPT !.step = step, !.at = at] IN k \in Jobs /\ (~j.open => ~k.open)
         /\ \A open \in BOOLEAN : LET k == [j EXCEPT !.open = open] IN k \in Jobs /\ (~open => ~k.open) /\ k.at = j.at
         /\ \A at \in 1 .. 5 : LET k == [j EXCEPT !.at = at] IN k \in Jobs /\ (~j.open => ~k.open)
BY DEF Jobs

\* A job whose tar has failed to write a file.
LEMMA BadTypes ==
  ASSUME NEW j \in Jobs, NEW at \in 1 .. 5
  PROVE  LET k == [j EXCEPT !.at = at, !.open = FALSE, !.bad = TRUE] IN k \in Jobs /\ ~k.open
BY DEF Jobs

LEMMA UndoTypes ==
  ASSUME NEW j \in Jobs, ~j.open
  PROVE  LET k == [j EXCEPT !.step = "undo", !.at = 1, !.bad = FALSE] IN k \in Jobs /\ ~k.open
<1>1. "undo" \in JobSteps /\ 1 \in 1 .. 5
  BY DEF JobSteps
<1>2. QED
  BY <1>1 DEF Jobs

LEMMA IdleTypes ==
  ASSUME NEW step \in JobSteps
  PROVE  /\ Idle(step) \in Jobs /\ ~Idle(step).open /\ Idle(step).step = step
         /\ Idle(step).pack = Nothing /\ Idle(step).old = Nothing
BY NothingTypes DEF Idle, Jobs

LEMMA BackupTypes == BackupInit => BackupTypeInv
<1> SUFFICES ASSUME BackupInit
             PROVE  BackupTypeInv
  OBVIOUS
<1> USE SchedulesAssumption, BackupsAssumption
<1>1. config \in Configs /\ configFile \in Configs
  BY DEF BackupInit, Configs
<1>2. NoTasks \in Lists
  BY DEF NoTasks, Lists
<1>3. ScheduleTypeOK /\ request.step = "none"
  BY <1>2 DEF BackupInit, ScheduleInit, ScheduleTypeOK, Request, Steps
<1>4. job \in Jobs /\ ~job.open
  BY NothingTypes DEF BackupInit, Idle, Jobs, JobSteps
<1>5. load.saves \in Nat /\ load.jobs \in Nat
  BY DEF BackupInit, ScheduleInit
<1>6. BackupTypeOK
  <2>1. {job.pack, job.old, job.before} \subseteq Packs /\ job.step \in JobSteps /\ {job.open, job.bad} \subseteq BOOLEAN
    BY <1>4 DEF Jobs
  <2>2. saves \in 0 .. load.saves /\ jobs \in 0 .. load.jobs
    BY <1>5 DEF BackupInit
  <2>. up \in BOOLEAN /\ cut \in BOOLEAN /\ unlisted \in BOOLEAN
    BY DEF BackupInit
  <2>3. site \in Sites \cup {NoFile} /\ archive \in Packs
    BY NothingTypes DEF BackupInit
  <2>4. QED
    BY <1>1, <1>3, <2>1, <2>2, <2>3 DEF BackupTypeOK
<1>7. QED
  BY <1>3, <1>4, <1>6 DEF BackupTypeInv

LEMMA BackupTypesKept == BackupTypeInv /\ [BackupNext]_allVars => BackupTypeInv'
<1> SUFFICES ASSUME BackupTypeInv, [BackupNext]_allVars
             PROVE  BackupTypeInv'
  OBVIOUS
<1>t. /\ ScheduleTypeOK /\ BackupTypeOK /\ job \in Jobs /\ Disk \in Packs
      /\ load \in Loads /\ {load.saves, load.jobs, load.requests, load.faults, load.stops} \subseteq Nat
      /\ load.ids \subseteq Ids /\ load.commands \subseteq Commands
  BY DiskTypes, SchedulesAssumption, BackupsAssumption DEF BackupTypeInv, BackupTypeOK, ScheduleTypeOK
<1>u. ASSUME UNCHANGED scheduleVars
      PROVE  ScheduleTypeOK' /\ load' = load /\ request' = request
  BY <1>t, <1>u DEF ScheduleTypeOK, scheduleVars, counters
<1>1. ASSUME RequestBegins
      PROVE  BackupTypeInv'
  <2>1. PICK id \in load.ids :
          \/ \E command \in load.commands : Add(id, command) \/ Update(id, command)
          \/ Toggle(id) \/ Delete(id)
    BY <1>1 DEF RequestBegins, BeginRequest
  <2>2. id \in Ids /\ load.commands \subseteq Commands
    BY <1>t
  <2>3. ReadList \in Lists
    BY <1>t, ListTypes DEF ScheduleTypeOK
  <2>4. \E entry \in Entry \cup {NoTask} : Locked(id, entry)
    <3>1. ASSUME NEW command \in load.commands, Add(id, command)
          PROVE  \E entry \in Entry \cup {NoTask} : Locked(id, entry)
      BY <2>2, <3>1 DEF Add, Entry
    <3>2. ASSUME Listed(id)
          PROVE  ReadList[id] \in Entry
      BY <2>2, <2>3, <3>2 DEF Listed, Lists
    <3>3. ASSUME NEW command \in load.commands, Update(id, command)
          PROVE  \E entry \in Entry \cup {NoTask} : Locked(id, entry)
      BY <2>2, <3>2, <3>3 DEF Update, Entry
    <3>4. ASSUME Toggle(id)
          PROVE  \E entry \in Entry \cup {NoTask} : Locked(id, entry)
      BY <2>2, <3>2, <3>4 DEF Toggle, Entry
    <3>5. ASSUME Delete(id)
          PROVE  \E entry \in Entry \cup {NoTask} : Locked(id, entry)
      BY <3>5 DEF Delete, Deleted
    <3>6. QED
      BY <2>1, <3>1, <3>3, <3>4, <3>5
  <2>5. ScheduleTypeOK' /\ request'.id \in Ids /\ load' = load
    BY <2>2, <2>4, LockedTypes DEF Locked
  <2>6. UNCHANGED backupVars
    BY <1>1 DEF RequestBegins
  <2>7. QED
    BY <2>5, <2>6, <1>t DEF BackupTypeInv, BackupTypeOK, backupVars, run, Writing, AtEnd, Source
<1>2. ASSUME NEW s \in Settings, NEW v \in Values, Save(s, v)
      PROVE  BackupTypeInv'
  <2>1. config' \in Configs /\ configFile' \in Configs
    BY <1>2, <1>t DEF Save, BackupTypeOK, Configs
  <2>2. saves' \in 0 .. load.saves
    BY <1>2, <1>t DEF Save, BackupTypeOK
  <2>3. QED
    BY <1>2, <1>u, <1>t, <2>1, <2>2 DEF Save, BackupTypeInv, BackupTypeOK, run, Writing, AtEnd, Source
<1>3. ASSUME NEW c \in Sites \cup {NoFile}, EditSite(c)
      PROVE  BackupTypeInv'
  <2>1. saves' \in 0 .. load.saves
    BY <1>3, <1>t DEF EditSite, BackupTypeOK
  <2>2. QED
    BY <1>3, <1>u, <1>t, <2>1 DEF EditSite, BackupTypeInv, BackupTypeOK, run, Writing, AtEnd, Source
<1>4. ASSUME TaskRequest
      PROVE  BackupTypeInv'
  <2>1. CronFile(request.list) \in Lines /\ CronFile(request.previous) \in Lines
    BY <1>t, CronTypes DEF ScheduleTypeOK, Request
  <2>2. UNCHANGED <<backupVars, load>> /\ request.step \in {"cron", "list", "undo"}
    BY <1>4 DEF TaskRequest, WriteCron, WriteList, UndoCron, WriteFails, counters
  <2>3. request' \in Request /\ request'.id = request.id
    BY <1>4, <1>t DEF TaskRequest, WriteCron, WriteList, UndoCron, WriteFails, Answer, ScheduleTypeOK, Request, Steps
  <2>4. schedules' \in Lists \cup {NoFile} /\ cron' \in Lines \cup {NoFile}
    BY <1>4, <1>t, <2>1 DEF TaskRequest, WriteCron, WriteList, UndoCron, Undone, WriteFails, ScheduleTypeOK, Request
  <2>5. requests' = requests /\ stops' = stops /\ faults' \in 0 .. load.faults
    BY <1>4, <1>t DEF TaskRequest, WriteCron, WriteList, UndoCron, WriteFails, counters, ScheduleTypeOK
  <2>6. ScheduleTypeOK'
    BY <1>t, <2>2, <2>3, <2>4, <2>5 DEF ScheduleTypeOK
  <2>7. QED
    BY <2>2, <2>3, <2>6, <1>t DEF BackupTypeInv, BackupTypeOK, backupVars, run, Writing, AtEnd, Source
<1>5. ASSUME Create \/ RestoreArchive
      PROVE  BackupTypeInv'
  <2>1. PICK step \in {"create", "save"}, pack \in Packs : Start(step, pack)
    BY <1>5, <1>t, NothingTypes DEF Create, RestoreArchive, BackupTypeOK
  <2>2. job' \in Jobs /\ ~job'.open
    <3>1. Idle(step) \in Jobs /\ ~Idle(step).open
      BY NothingTypes DEF Idle, Jobs, JobSteps
    <3>2. QED
      BY <2>1, <3>1, <1>t DEF Start, Jobs
  <2>3. jobs' \in 0 .. load.jobs
    BY <2>1, <1>t DEF Start, BackupTypeOK
  <2>4. QED
    BY <2>1, <2>2, <2>3, <1>t, <1>u, JobStepTypes DEF Start, run, BackupTypeOK
<1>6. ASSUME ReadMember
      PROVE  BackupTypeInv'
  <2>1. job.at \in 1 .. 4 /\ BackupPaths[job.at] \in Files
    BY <1>6, <1>t, Paths, PathTypes DEF ReadMember, AtEnd, Jobs
  <2>2. ~job.open
    BY <1>6 DEF ReadMember, Reading, Writing, BackupTypeInv
  <2>3. [job.pack EXCEPT ![BackupPaths[job.at]] = Disk[BackupPaths[job.at]]] \in Packs
    BY <2>1, <1>t, TakenTypes DEF Jobs
  <2>4. [job.old EXCEPT ![BackupPaths[job.at]] = Disk[BackupPaths[job.at]]] \in Packs
    BY <2>1, <1>t, TakenTypes DEF Jobs
  <2>5. job' \in Jobs /\ ~job'.open
    BY <1>6, <1>t, <2>1, <2>2, <2>3, <2>4 DEF ReadMember, Advance, Jobs
  <2>6. QED
    BY <1>6, <2>5, <1>t, <1>u, JobStepTypes DEF ReadMember, run, BackupTypeOK
<1>7. ASSUME Created \/ SavedRollback \/ Extracted \/ UndoneRestore \/ JobFails \/ Test
      PROVE  BackupTypeInv'
  <2>1. ~job.open
    BY <1>7 DEF Created, SavedRollback, Extracted, UndoneRestore, JobFails, Test, Reading, Writing, BackupTypeInv
  <2>2. job' \in Jobs /\ ~job'.open
    <3>1. {"done", "extract", "test", "undo", "failed"} \subseteq JobSteps /\ 1 \in 1 .. 5
      BY DEF JobSteps
    <3>2. CASE Created \/ UndoneRestore \/ JobFails
      BY <3>1, <3>2, IdleTypes DEF Created, UndoneRestore, JobFails
    <3>3. CASE SavedRollback
      BY <1>t, <2>1, <3>1, <3>3, JobTypes DEF SavedRollback
    <3>4. CASE Test
      <4>1. CASE job' = [job EXCEPT !.step = "undo", !.at = 1]
        BY <4>1, <1>t, <2>1, <3>1, JobTypes
      <4>2. CASE job' = Idle("done")
        BY <4>2, <3>1, IdleTypes
      <4>3. QED
        BY <3>4, <4>1, <4>2 DEF Test
    <3>5. CASE Extracted
      <4>1. CASE job.bad
        BY <1>t, <2>1, <3>5, <4>1, UndoTypes DEF Extracted
      <4>2. CASE ~job.bad
        BY <1>t, <2>1, <3>1, <3>5, <4>2, JobTypes DEF Extracted
      <4>3. QED
        BY <4>1, <4>2
    <3>6. QED
      BY <1>7, <3>2, <3>3, <3>4, <3>5
  <2>3. archive' \in Packs
    BY <1>7, <1>t DEF Created, SavedRollback, Extracted, UndoneRestore, JobFails, Test, Jobs, BackupTypeOK
  <2>b. {cut', unlisted'} \subseteq BOOLEAN
    BY <1>7, <1>t DEF Created, SavedRollback, Extracted, UndoneRestore, JobFails, Test, BackupTypeOK, run
  <2>4. UNCHANGED <<scheduleVars, config, configFile, site, up, saves, jobs>>
    BY <1>7 DEF Created, SavedRollback, Extracted, UndoneRestore, JobFails, Test, run
  <2>5. QED
    BY <2>2, <2>3, <2>b, <2>4, <1>t, <1>u, JobStepTypes DEF BackupTypeOK
<1>8. ASSUME OpenMember
      PROVE  BackupTypeInv'
  <2>1. job.at \in 1 .. 4 /\ BackupPaths[job.at] \in Files
    BY <1>8, <1>t, Paths, PathTypes DEF OpenMember, AtEnd, Jobs
  <2>2. UNCHANGED <<request, counters, config, archive, run, saves, jobs>> /\ load' = load
    BY <1>8 DEF OpenMember, counters
  <2>3. CASE Skipped(BackupPaths[job.at])
    <3>1. job' = Advance(job) /\ UNCHANGED <<configFile, schedules, site, cron>> /\ ~job.open
      BY <1>8, <2>3 DEF OpenMember
    <3>2. job' \in Jobs /\ ~job'.open
      BY <3>1, <2>1, <1>t DEF Advance, Jobs
    <3>3. QED
      BY <2>2, <3>1, <3>2, <1>t, JobStepTypes DEF BackupTypeOK, ScheduleTypeOK, counters, run
  <2>4. CASE ~Skipped(BackupPaths[job.at])
    <3>1. Put(BackupPaths[job.at], NoFile) /\ job' = [job EXCEPT !.open = TRUE]
      BY <1>8, <2>4 DEF OpenMember
    <3>2. /\ configFile' \in Configs \cup {NoFile} /\ schedules' \in Lists \cup {NoFile}
          /\ site' \in Sites \cup {NoFile} /\ cron' \in Lines \cup {NoFile}
      BY <3>1, <2>1, <1>t, PutTypes
    <3>3. job' \in Jobs /\ (Writing /\ ~AtEnd /\ Source[BackupPaths[job.at]] # NoFile)'
      BY <1>8, <3>1, <2>4, <1>t DEF OpenMember, Jobs, Writing, AtEnd, Source, Skipped
    <3>4. ScheduleTypeOK'
      BY <3>2, <2>2, <1>t DEF ScheduleTypeOK, counters
    <3>5. QED
      BY <2>2, <3>2, <3>3, <3>4, <1>t, JobStepTypes DEF BackupTypeOK, run
  <2>5. QED
    BY <2>3, <2>4
<1>9. ASSUME CloseMember
      PROVE  BackupTypeInv'
  <2>1. job.at \in 1 .. 4 /\ BackupPaths[job.at] \in Files
    BY <1>9, <1>t, Paths, PathTypes DEF CloseMember, AtEnd, Jobs, BackupTypeInv
  <2>2. UNCHANGED <<request, counters, config, archive, run, saves, jobs>> /\ load' = load
    BY <1>9 DEF CloseMember, counters
  <2>3. job' \in Jobs /\ ~job'.open
    <3>1. [job EXCEPT !.open = FALSE] \in Jobs /\ [job EXCEPT !.open = FALSE].at = job.at
      BY <1>t, JobTypes DEF Jobs
    <3>2. job.at + 1 \in 1 .. 5 /\ job' = [[job EXCEPT !.open = FALSE] EXCEPT !.at = job.at + 1]
      BY <1>9, <3>1, <2>1 DEF CloseMember, Advance
    <3>3. ~[job EXCEPT !.open = FALSE].open
      BY <1>t DEF Jobs
    <3>4. QED
      BY <3>1, <3>2, <3>3, JobTypes
  <2>4. Source \in Packs
    BY <1>t DEF Source, Jobs
  <2>5. /\ configFile' \in Configs \cup {NoFile} /\ schedules' \in Lists \cup {NoFile}
        /\ site' \in Sites \cup {NoFile} /\ cron' \in Lines \cup {NoFile}
    <3>1. CASE Untouched(BackupPaths[job.at])
      <4>1. Put(BackupPaths[job.at], Source[BackupPaths[job.at]])
        BY <1>9, <3>1 DEF CloseMember
      <4>2. QED
        BY <4>1, <2>1, <2>4, <1>t, PutTypes
    <3>2. CASE ~Untouched(BackupPaths[job.at])
      BY <1>9, <3>2, <1>t DEF CloseMember, BackupTypeOK, ScheduleTypeOK
    <3>3. QED
      BY <3>1, <3>2
  <2>6. ScheduleTypeOK'
    BY <2>5, <2>2, <1>t DEF ScheduleTypeOK, counters
  <2>7. QED
    BY <2>2, <2>3, <2>5, <2>6, <1>t, JobStepTypes DEF BackupTypeOK, run
<1>10. ASSUME StopPanel
       PROVE  BackupTypeInv'
  <2>1. job' \in Jobs /\ ~job'.open
    BY <1>10, NothingTypes DEF StopPanel, Idle, Jobs, JobSteps
  <2>2. NewConfig \in Configs
    BY DEF NewConfig, Configs
  <2>3. config' \in Configs /\ {up', cut', unlisted'} \subseteq BOOLEAN
    BY <1>10, <2>2, <1>t DEF StopPanel, BackupTypeOK
  <2>4. request' \in Request /\ request'.step = "none"
    BY <1>10, <1>t DEF StopPanel, Stop, Answer, ScheduleTypeOK, Request, Steps
  <2>5. ScheduleTypeOK'
    BY <1>10, <1>t, <2>4 DEF StopPanel, Stop, ScheduleTypeOK
  <2>6. QED
    BY <1>10, <2>1, <2>3, <2>4, <2>5, <1>t DEF StopPanel, Stop, BackupTypeInv, BackupTypeOK, Jobs
<1>11. CASE UNCHANGED allVars
  BY <1>11, <1>u, <1>t DEF allVars, backupVars, run, BackupTypeInv, BackupTypeOK, Writing, AtEnd, Source
<1>13. CASE TarFails
  <2>1. job.at \in 1 .. 4
    BY <1>13, <1>t, Paths DEF TarFails, AtEnd, Jobs
  <2>2. job' \in Jobs /\ ~job'.open
    <3>0. job.at + 1 \in 1 .. 5 /\ Len(BackupPaths) + 1 \in 1 .. 5
      BY <2>1, Paths
    <3>1. PICK at \in 1 .. 5 : job' = [job EXCEPT !.at = at, !.open = FALSE, !.bad = TRUE]
      BY <1>13, <3>0 DEF TarFails
    <3>2. QED
      BY <3>1, <1>t, BadTypes
  <2>3. ScheduleTypeOK' /\ load' = load
    BY <1>13, <1>t DEF TarFails, ScheduleTypeOK
  <2>4. QED
    BY <1>13, <2>2, <2>3, <1>t, JobStepTypes DEF TarFails, run, BackupTypeOK
<1>12. QED
  BY <1>1, <1>2, <1>3, <1>4, <1>5, <1>6, <1>7, <1>8, <1>9, <1>10, <1>11, <1>13
     DEF BackupNext, Panel, TaskRequest, BackupJob

-----------------------------------------------------------------------------
(* Requests and jobs that do not overlap *)

\* The bounds never change.
LEMMA LoadKept == [BackupNext]_allVars => load' = load
BY DEF BackupNext, Panel, RequestBegins, BeginRequest, Add, Update, Toggle, Delete, Locked, Save, EditSite, TaskRequest,
       WriteCron, WriteList, UndoCron, WriteFails, BackupJob, Create, RestoreArchive, Start, ReadMember, Created,
       SavedRollback, OpenMember, CloseMember, Extracted, Test, UndoneRestore, JobFails, TarFails, StopPanel, Stop,
       scheduleVars, counters, allVars

\* A step of a job finds no request under way.
LEMMA JobAlone ==
  ASSUME BackupTypeInv, RequestInv, Apart, BackupJob
  PROVE  NoRequest /\ UNCHANGED <<request, counters, load, faults, stops, config, up, saves>>
<1>1. UNCHANGED <<request, counters, config, up, saves>>
  BY DEF BackupJob, Create, RestoreArchive, Start, ReadMember, Created, SavedRollback, OpenMember, CloseMember,
         Extracted, Test, UndoneRestore, JobFails, scheduleVars, run
<1>2. UNCHANGED <<load, faults, stops>>
  BY <1>1 DEF counters
<1>3. CASE Create \/ RestoreArchive
  BY <1>1, <1>2, <1>3 DEF Create, RestoreArchive, Start, Free, Apart
<1>4. CASE ReadMember \/ Created \/ SavedRollback \/ OpenMember \/ Extracted \/ Test \/ UndoneRestore \/ JobFails
  BY <1>1, <1>2, <1>4 DEF ReadMember, Created, SavedRollback, OpenMember, Extracted, Test, UndoneRestore, JobFails,
         Reading, Writing, RequestInv, NoJob
<1>5. CASE CloseMember
  BY <1>1, <1>2, <1>5 DEF CloseMember, Writing, BackupTypeInv, RequestInv, NoJob
<1>6. QED
  BY <1>3, <1>4, <1>5 DEF BackupJob

\* A request begins between jobs, with what the list has.
LEMMA RequestStarts ==
  ASSUME BackupTypeInv, Apart, RequestBegins
  PROVE  /\ NoJob /\ NoRequest /\ UNCHANGED <<schedules, cron, backupVars, load, faults, stops>>
         /\ request'.step = "cron" /\ request'.id \in Ids /\ request'.previous = ReadList
         /\ \A i \in Ids \ {request'.id} : request'.list[i] = ReadList[i]
<1>1. PICK id \in load.ids : \E e : Locked(id, e)
  BY DEF RequestBegins, BeginRequest, Add, Update, Toggle, Delete
<1>e. PICK entry : Locked(id, entry)
  BY <1>1
<1>2. id \in Ids /\ ReadList \in Lists
  BY SchedulesAssumption, ListTypes DEF BackupTypeInv, BackupTypeOK, ScheduleTypeOK
<1>3. \A i \in Ids \ {id} : Changed(id, entry)[i] = ReadList[i]
  BY <1>2 DEF Changed, Lists
<1>4. QED
  BY <1>e, <1>2, <1>3 DEF RequestBegins, Locked, Apart

LEMMA RequestInvKept == BackupTypeInv /\ RequestInv /\ [BackupNext]_allVars => RequestInv'
<1> SUFFICES ASSUME BackupTypeInv, RequestInv, [BackupNext]_allVars, Apart'
             PROVE  RequestInv'
  BY DEF RequestInv
<1>l. Apart /\ load' = load
  BY LoadKept DEF Apart
<1>1. CASE RequestBegins
  <2>1. ReadList' = ReadList /\ NoJob'
    BY <1>1, <1>l, RequestStarts DEF ReadList, backupVars, NoJob
  <2>2. QED
    BY <1>1, <1>l, <2>1, RequestStarts DEF RequestInv
<1>2. CASE (\E s \in Settings, v \in Values : Save(s, v)) \/ (\E c \in Sites \cup {NoFile} : EditSite(c))
           \/ UNCHANGED allVars
  <2>1. UNCHANGED <<request, schedules, cron, faults, job>>
    BY <1>2 DEF Save, EditSite, scheduleVars, counters, allVars, backupVars
  <2>2. QED
    BY <2>1, <1>l DEF RequestInv, ReadList, NoJob, NoRequest
<1>3. CASE TaskRequest
  <2>1. NoJob' /\ job' = job /\ request.step \in {"cron", "list", "undo"}
    BY <1>3, <1>l DEF TaskRequest, WriteCron, WriteList, UndoCron, WriteFails, RequestInv, NoRequest, Resting, NoJob, backupVars
  <2>2. request \in Request /\ faults \in Nat
    BY SchedulesAssumption DEF BackupTypeInv, BackupTypeOK, ScheduleTypeOK
  <2>3. CASE WriteCron
    <3>1. request' = [request EXCEPT !.step = "list"] /\ UNCHANGED <<schedules, faults>>
          /\ cron' = CronFile(request.list) /\ request.step = "cron"
      BY <2>3 DEF WriteCron, Answer, counters
    <3>2. request'.step = "list" /\ request'.id = request.id /\ request'.list = request.list
          /\ request'.previous = request.previous
      BY <3>1, <2>2 DEF Request
    <3>3. ReadList' = ReadList
      BY <3>1 DEF ReadList
    <3>4. QED
      BY <1>l, <2>1, <3>1, <3>2, <3>3 DEF RequestInv
  <2>4. CASE WriteFails /\ request.step = "list"
    <3>1. request' = [request EXCEPT !.step = "undo"] /\ UNCHANGED <<schedules, cron>> /\ faults' > 0
      BY <2>2, <2>4 DEF WriteFails, Answer
    <3>2. request'.step = "undo" /\ request'.id = request.id /\ request'.list = request.list
          /\ request'.previous = request.previous
      BY <3>1, <2>2 DEF Request
    <3>3. ReadList' = ReadList
      BY <3>1 DEF ReadList
    <3>4. QED
      BY <1>l, <2>1, <2>4, <3>1, <3>2, <3>3 DEF RequestInv
  <2>5. CASE WriteList \/ UndoCron \/ (WriteFails /\ request.step # "list")
    <3>1. request'.step \in {"ok", "failed"}
      BY <2>2, <2>5 DEF WriteList, UndoCron, WriteFails, Answer, Request
    <3>2. QED
      BY <2>1, <3>1 DEF RequestInv
  <2>6. QED
    BY <1>3, <2>3, <2>4, <2>5 DEF TaskRequest
<1>4. CASE BackupJob
  <2>1. request' = request /\ request.step \in Resting
    BY <1>4, <1>l, JobAlone DEF NoRequest
  <2>2. QED
    BY <2>1 DEF RequestInv, NoRequest, Resting
<1>5. CASE StopPanel
  <2>1. request'.step = "none"
    BY <1>5 DEF StopPanel, Stop, Answer, BackupTypeInv, BackupTypeOK, ScheduleTypeOK, Request
  <2>2. QED
    BY <2>1 DEF RequestInv, NoRequest, Resting
<1>6. CASE TarFails
  <2>1. ~NoJob /\ UNCHANGED <<request, schedules, cron>> /\ faults' = faults + 1
    BY <1>6 DEF TarFails, Writing, NoJob
  <2>2. NoRequest /\ NoRequest'
    BY <2>1, <1>l DEF RequestInv, NoRequest
  <2>3. QED
    BY <2>2 DEF RequestInv, NoRequest, Resting
<1>7. QED
  BY <1>1, <1>2, <1>3, <1>4, <1>5, <1>6 DEF BackupNext, Panel

-----------------------------------------------------------------------------
(* What a job has read and written *)

\* Every file comes once.
LEMMA PathOrder ==
  /\ \A k, l \in 1 .. 4 : BackupPaths[k] = BackupPaths[l] => k = l
  /\ \A f \in Files : \E k \in 1 .. 4 : BackupPaths[k] = f
<1>1. \A k \in 1 .. 4 : k \in {1, 2, 3, 4}
  OBVIOUS
<1>2. \A k, l \in {1, 2, 3, 4} : BackupPaths[k] = BackupPaths[l] => k = l
  BY Paths
<1>3. \A f \in Files : f \in {BackupPaths[1], BackupPaths[2], BackupPaths[3], BackupPaths[4]}
  BY Paths DEF Files
<1>4. QED
  BY <1>1, <1>2, <1>3

LEMMA PackOf ==
  ASSUME NEW p \in Packs, NEW q \in Packs, \A k \in 1 .. 4 : p[BackupPaths[k]] = q[BackupPaths[k]]
  PROVE  p = q
<1>1. \A f \in Files : p[f] = q[f]
  BY PathOrder
<1>2. QED
  BY <1>1 DEF Packs, Files

LEMMA PutChanges ==
  ASSUME NEW f \in Files, NEW c, Put(f, c)
  PROVE  Disk'[f] = c /\ \A g \in Files \ {f} : Disk'[g] = Disk[g]
<1>1. CASE f = "config"
  BY <1>1 DEF Put, Disk, Files
<1>2. CASE f = "schedules"
  BY <1>2 DEF Put, Disk, Files
<1>3. CASE f = "site"
  BY <1>3 DEF Put, Disk, Files
<1>4. CASE f = "cron"
  BY <1>4 DEF Put, Disk, Files
<1>5. QED
  BY <1>1, <1>2, <1>3, <1>4 DEF Files

\* Writing goes on file by file: what the source has is new, what it lacks stays.
LEMMA WritesOn ==
  ASSUME BackupTypeInv, Touched, OpenAbsent, ~job.bad => Written, job.old = job.before, OpenMember \/ CloseMember
  PROVE  /\ Touched' /\ OpenAbsent' /\ (~job'.bad => Written')
         /\ job' = [job EXCEPT !.at = job'.at, !.open = job'.open]
         /\ \A g \in Files : Source[g] = NoFile => Disk'[g] = Disk[g]
<1> DEFINE f == BackupPaths[job.at]
<1>t. job \in Jobs
  BY DEF BackupTypeInv
<1>1. job.at \in 1 .. 4 /\ f \in Files /\ Writing
  BY <1>t, Paths, PathTypes DEF OpenMember, CloseMember, AtEnd, Jobs, BackupTypeInv
<1>o. \A k \in 1 .. 4 : k # job.at => BackupPaths[k] \in Files \ {f}
  BY <1>1, PathOrder, PathTypes
<1>s. \A g \in Files : Source[g] \in {job.before[g], job.pack[g]}
  BY DEF Source
<1>2. CASE OpenMember /\ Skipped(f)
  <2>1. job' = [job EXCEPT !.at = job.at + 1] /\ ~job.open /\ UNCHANGED <<configFile, schedules, site, cron>>
    BY <1>2 DEF OpenMember, Advance
  <2>2. Disk' = Disk
    BY <2>1 DEF Disk
  <2>3. job'.at = job.at + 1 /\ job'.open = job.open /\ job'.bad = job.bad /\ job' = [job EXCEPT !.at = job'.at, !.open = job'.open]
    BY <2>1, <1>t DEF Jobs
  <2>4. job'.pack = job.pack /\ job'.old = job.old /\ job'.before = job.before /\ job'.step = job.step
    BY <2>1, <1>t DEF Jobs
  <2>5. Source' = Source /\ Touched'
    BY <2>2, <2>4 DEF Source, Touched
  <2>6. ~job.bad => Written'
    BY <2>2, <2>3, <2>5, <1>1, <1>2 DEF Written, Skipped
  <2>7. QED
    BY <2>1, <2>2, <2>3, <2>5, <2>6 DEF OpenAbsent
<1>3. CASE OpenMember /\ ~Skipped(f)
  <2>1. job' = [job EXCEPT !.open = TRUE] /\ ~job.open /\ Put(f, NoFile)
    BY <1>3 DEF OpenMember
  <2>2. Disk'[f] = NoFile /\ \A g \in Files \ {f} : Disk'[g] = Disk[g]
    BY <1>1, <2>1, PutChanges
  <2>3. job'.at = job.at /\ job'.open /\ job'.bad = job.bad /\ job' = [job EXCEPT !.at = job'.at, !.open = job'.open]
    BY <2>1, <1>t DEF Jobs
  <2>4. job'.pack = job.pack /\ job'.old = job.old /\ job'.before = job.before /\ job'.step = job.step
    BY <2>1, <1>t DEF Jobs
  <2>5. Source' = Source /\ Touched'
    BY <2>2, <2>4 DEF Source, Touched
  <2>6. ~job.bad => Written'
    <3>1. ASSUME NEW k \in 1 .. 4, k < job'.at
          PROVE  Disk'[BackupPaths[k]] = Disk[BackupPaths[k]]
      BY <3>1, <2>2, <2>3, <1>1, <1>o
    <3>2. QED
      BY <3>1, <2>3, <2>5 DEF Written
  <2>7. QED
    BY <2>2, <2>3, <2>5, <2>6, <1>3 DEF OpenAbsent, Skipped
<1>4. CASE CloseMember
  <2>1. job.open /\ Source[f] # NoFile
    BY <1>4 DEF CloseMember, BackupTypeInv
  <2>2. Disk[f] = NoFile
    BY <2>1, <1>1 DEF OpenAbsent
  <2>3. Put(f, Source[f]) /\ job' = [job EXCEPT !.open = FALSE, !.at = job.at + 1]
    BY <1>4, <2>2, <1>t DEF CloseMember, Untouched, Advance, Jobs
  <2>4. Disk'[f] = Source[f] /\ \A g \in Files \ {f} : Disk'[g] = Disk[g]
    BY <1>1, <2>3, PutChanges
  <2>5. job'.at = job.at + 1 /\ ~job'.open /\ job'.bad = job.bad /\ job' = [job EXCEPT !.at = job'.at, !.open = job'.open]
    BY <2>3, <1>t DEF Jobs
  <2>6. job'.pack = job.pack /\ job'.old = job.old /\ job'.before = job.before /\ job'.step = job.step
    BY <2>3, <1>t DEF Jobs
  <2>7. Source' = Source /\ Touched'
    <3>1. \A g \in Files : Disk'[g] \in {Disk[g], Source[g]}
      BY <2>4
    <3>2. QED
      BY <3>1, <2>6, <1>s DEF Source, Touched
  <2>8. ~job.bad => Written'
    <3>1. ASSUME NEW k \in 1 .. 4, k < job.at
          PROVE  Disk'[BackupPaths[k]] = Disk[BackupPaths[k]]
      BY <3>1, <2>4, <1>1, <1>o
    <3>2. ASSUME NEW k \in 1 .. 4, k < job'.at
          PROVE  k < job.at \/ BackupPaths[k] = f
      BY <3>2, <2>5, <1>1
    <3>3. QED
      BY <3>1, <3>2, <2>4, <2>5, <2>7 DEF Written
  <2>9. QED
    BY <2>1, <2>4, <2>5, <2>7, <2>8 DEF OpenAbsent
<1>5. QED
  BY <1>2, <1>3, <1>4

\* One file more has been read.
LEMMA ReadsOn ==
  ASSUME BackupTypeInv, ReadMember
  PROVE  /\ Disk' = Disk /\ job'.step = job.step /\ job'.before = job.before
         /\ job.step = "create" /\ Taken(job.pack, job.at) => Taken(job.pack, job.at)'
         /\ job.step = "save" /\ Taken(job.old, job.at) => Taken(job.old, job.at)'
         /\ job.step = "save" => job'.pack = job.pack
<1> DEFINE f == BackupPaths[job.at]
<1>t. job \in Jobs
  BY DEF BackupTypeInv
<1>1. job.at \in 1 .. 4 /\ f \in Files /\ Reading
  BY <1>t, Paths, PathTypes DEF ReadMember, AtEnd, Jobs
<1>o. \A k \in 1 .. 4 : BackupPaths[k] \in Files /\ (k # job.at => BackupPaths[k] # f)
  BY <1>1, PathOrder, PathTypes
<1>2. Disk' = Disk
  BY DEF ReadMember, scheduleVars, Disk
<1>3. CASE job.step = "create"
  <2>1. job' = [[job EXCEPT !.pack[f] = Disk[f]] EXCEPT !.at = job.at + 1]
    BY <1>3, <1>t DEF ReadMember, Advance, Jobs
  <2>2. job'.step = "create" /\ job'.before = job.before /\ job'.at = job.at + 1
        /\ job'.pack = [job.pack EXCEPT ![f] = Disk[f]]
    BY <2>1, <1>3, <1>t DEF Jobs
  <2>3. \A g \in Files : job'.pack[g] = IF g = f THEN Disk[f] ELSE job.pack[g]
    BY <2>2, <1>t DEF Jobs, Packs, Files
  <2>4. QED
    BY <2>2, <2>3, <1>1, <1>2, <1>o, <1>3 DEF Taken
<1>4. CASE job.step = "save"
  <2>1. job' = [[job EXCEPT !.old[f] = Disk[f]] EXCEPT !.at = job.at + 1]
    BY <1>4, <1>t DEF ReadMember, Advance, Jobs
  <2>2. job'.step = "save" /\ job'.before = job.before /\ job'.at = job.at + 1 /\ job'.pack = job.pack
        /\ job'.old = [job.old EXCEPT ![f] = Disk[f]]
    BY <2>1, <1>4, <1>t DEF Jobs
  <2>3. \A g \in Files : job'.old[g] = IF g = f THEN Disk[f] ELSE job.old[g]
    BY <2>2, <1>t DEF Jobs, Packs, Files
  <2>4. QED
    BY <2>2, <2>3, <1>1, <1>2, <1>o, <1>4 DEF Taken
<1>5. QED
  BY <1>1, <1>3, <1>4 DEF Reading

\* What the steps between two tars do to the job.
LEMMA StepsOn ==
  ASSUME BackupTypeInv, SavedRollback \/ Extracted \/ (Test /\ job'.step # "done")
  PROVE  /\ Disk' = Disk /\ archive' = archive /\ job.at \in 1 .. 5 /\ ~job.open /\ ~job'.open
         /\ SavedRollback => job.step = "save" /\ AtEnd /\ job'.step = "extract" /\ job'.at = 1
         /\ Extracted => /\ job.step = "extract" /\ AtEnd
                         /\ IF job.bad THEN job'.step = "undo" /\ job'.at = 1 ELSE job'.step = "test"
         /\ Test => job.step = "test" /\ job'.step = "undo" /\ job'.at = 1
         /\ job'.pack = job.pack /\ job'.old = job.old /\ job'.before = job.before
<1>t. job \in Jobs
  BY DEF BackupTypeInv
<1>1. Disk' = Disk /\ archive' = archive
  <2>1. UNCHANGED <<configFile, schedules, site, cron, archive>>
    BY DEF SavedRollback, Extracted, Test, scheduleVars
  <2>2. QED
    BY <2>1 DEF Disk
<1>2. ~job.open /\ job.at \in 1 .. 5
  BY <1>t DEF SavedRollback, Extracted, Test, Writing, BackupTypeInv, Jobs
<1>3. CASE SavedRollback
  <2>1. job' = [job EXCEPT !.step = "extract", !.at = 1] /\ job.step = "save" /\ AtEnd
    BY <1>3 DEF SavedRollback
  <2>2. ~Extracted /\ ~Test
    BY <2>1 DEF Extracted, Test
  <2>3. QED
    BY <1>1, <1>2, <1>t, <2>1, <2>2 DEF Jobs
<1>4. CASE Extracted
  <2>1. /\ job' = IF job.bad THEN [job EXCEPT !.step = "undo", !.at = 1, !.bad = FALSE] ELSE [job EXCEPT !.step = "test"]
        /\ job.step = "extract" /\ AtEnd
    BY <1>4 DEF Extracted
  <2>2. ~SavedRollback /\ ~Test
    BY <2>1 DEF SavedRollback, Test
  <2>3. job'.open = job.open /\ job'.pack = job.pack /\ job'.old = job.old /\ job'.before = job.before
    BY <1>t, <2>1 DEF Jobs
  <2>4. IF job.bad THEN job'.step = "undo" /\ job'.at = 1 ELSE job'.step = "test"
    BY <1>t, <2>1 DEF Jobs
  <2>5. QED
    BY <1>1, <1>2, <2>1, <2>2, <2>3, <2>4
<1>5. CASE Test /\ job'.step # "done"
  <2>1. job' = [job EXCEPT !.step = "undo", !.at = 1] /\ job.step = "test"
    BY <1>5 DEF Test, Idle
  <2>2. ~Extracted /\ ~SavedRollback
    BY <2>1 DEF Extracted, SavedRollback
  <2>3. QED
    BY <1>1, <1>2, <1>t, <2>1, <2>2 DEF Jobs
<1>6. QED
  BY <1>3, <1>4, <1>5

\* A job ends with the disk as it is, and with a new archive only where it has made one.
LEMMA EndsWith ==
  ASSUME BackupTypeInv, Created \/ UndoneRestore \/ JobFails \/ (Test /\ job'.step = "done")
  PROVE  /\ Disk' = Disk /\ job.at \in 1 .. 5 /\ ~job.open /\ ~NoJob /\ NoJob'
         /\ job' \in {Idle("done"), Idle("failed")}
         /\ archive' = archive \/ (job.step = "create" /\ AtEnd /\ archive' = job.pack)
<1>t. job \in Jobs
  BY DEF BackupTypeInv
<1>1. Disk' = Disk
  <2>1. UNCHANGED <<configFile, schedules, site, cron>>
    BY DEF Created, Test, UndoneRestore, JobFails, scheduleVars
  <2>2. QED
    BY <2>1 DEF Disk
<1>2. ~job.open /\ ~NoJob
  BY DEF Created, Test, UndoneRestore, JobFails, Reading, Writing, NoJob, BackupTypeInv
<1>3. job' \in {Idle("done"), Idle("failed")}
  <2>1. CASE Created \/ UndoneRestore \/ JobFails
    BY <2>1 DEF Created, UndoneRestore, JobFails
  <2>2. CASE Test /\ job'.step = "done"
    BY <2>2, <1>t DEF Test, Jobs
  <2>3. QED
    BY <2>1, <2>2
<1>4. NoJob'
  BY <1>3 DEF NoJob, Idle
<1>5. archive' = archive \/ (job.step = "create" /\ AtEnd /\ archive' = job.pack)
  BY DEF Created, Test, UndoneRestore, JobFails
<1>6. QED
  BY <1>1, <1>2, <1>3, <1>4, <1>5, <1>t DEF Jobs

\* What a job has when it starts.
LEMMA StartsFrom ==
  ASSUME Create \/ RestoreArchive
  PROVE  /\ NoJob /\ Free /\ Disk' = Disk /\ archive' = archive
         /\ Create => job'.step = "create" /\ job'.pack = Nothing
         /\ RestoreArchive => job'.step = "save" /\ job'.pack = archive /\ archive # Nothing
         /\ job'.at = 1 /\ ~job'.open /\ job'.before = Disk /\ job'.old = Nothing
<1>1. PICK step \in {"create", "save"}, pack \in {Nothing, archive} :
          /\ Start(step, pack) /\ (Create => step = "create" /\ pack = Nothing)
          /\ (RestoreArchive => step = "save" /\ pack = archive /\ archive # Nothing)
  <2>1. CASE RestoreArchive /\ ~Create
    BY <2>1 DEF RestoreArchive
  <2>2. CASE Create /\ ~RestoreArchive
    BY <2>2 DEF Create
  <2>3. CASE Create /\ RestoreArchive
    BY <2>3 DEF Create, RestoreArchive, Start, Idle
  <2>4. QED
    BY <2>1, <2>2, <2>3
<1>2. job' = [Idle(step) EXCEPT !.pack = pack, !.before = Disk]
  BY <1>1 DEF Start
<1>3. job'.step = step /\ job'.at = 1 /\ job'.pack = pack /\ job'.before = Disk /\ job'.old = Nothing
  BY <1>2 DEF Idle
<1>4. ~job'.open
  BY <1>2 DEF Idle
<1>5. NoJob /\ Free /\ Disk' = Disk /\ archive' = archive
  BY <1>1 DEF Start, Free, Disk, scheduleVars
<1>6. QED
  BY <1>1, <1>3, <1>4, <1>5

LEMMA DiskInvKept == BackupTypeInv /\ RequestInv /\ DiskInv /\ [BackupNext]_allVars => DiskInv'
<1> SUFFICES ASSUME BackupTypeInv, RequestInv, DiskInv, [BackupNext]_allVars, Apart'
             PROVE  DiskInv'
  BY DEF DiskInv
<1>t. job \in Jobs /\ archive \in Packs /\ Disk \in Packs
  BY DiskTypes DEF BackupTypeInv, BackupTypeOK, ScheduleTypeOK
<1>l. Apart
  BY LoadKept DEF Apart
<1>1. CASE NoJob /\ UNCHANGED <<job, archive>>
  BY <1>1 DEF DiskInv, NoJob, Restoring, Writing
<1>2. CASE UNCHANGED <<job, archive, configFile, schedules, site, cron>>
  <2>1. Disk' = Disk
    BY <1>2 DEF Disk
  <2>2. QED
    BY <1>2, <2>1, <1>l DEF DiskInv, Restoring, Writing, Restored, Over, Taken, Touched, OpenAbsent, Written, Kept, Source
<1>3. CASE Create \/ RestoreArchive
  <2>1. job'.at = 1 => Taken(job.pack, job.at)' /\ Taken(job.old, job.at)'
    BY DEF Taken
  <2>2. QED
    BY <1>3, <2>1, StartsFrom DEF DiskInv, Restoring, Writing
<1>4. CASE ReadMember
  <2>1. job.step \in {"create", "save"} /\ archive' = archive
    BY <1>4 DEF ReadMember, Reading
  <2>2. QED
    BY <1>4, <1>l, <2>1, ReadsOn DEF DiskInv, Restoring, Writing
<1>5. CASE SavedRollback
  <2>1. job.at = 5
    BY <1>5, StepsOn, Paths DEF AtEnd
  <2>2. job.old = Disk /\ job.before = Disk
    BY <1>5, <1>t, <1>l, <2>1, PackOf, StepsOn DEF DiskInv, Taken, Jobs
  <2>3. Touched' /\ OpenAbsent' /\ Written' /\ Kept'
    BY <1>5, <2>2, StepsOn DEF Touched, OpenAbsent, Written, Kept
  <2>4. QED
    BY <1>5, <1>l, <2>2, <2>3, StepsOn DEF DiskInv, Restoring
<1>6. CASE OpenMember \/ CloseMember
  <2>w. Writing /\ archive' = archive
    BY <1>6 DEF OpenMember, CloseMember, BackupTypeInv
  <2>1. Touched /\ OpenAbsent /\ (~job.bad => Written) /\ job.old = job.before /\ job.pack = archive
    BY <1>l, <2>w DEF DiskInv, Writing, Restoring
  <2>2. /\ Touched' /\ OpenAbsent' /\ (~job'.bad => Written')
        /\ job' = [job EXCEPT !.at = job'.at, !.open = job'.open]
        /\ \A g \in Files : Source[g] = NoFile => Disk'[g] = Disk[g]
    BY <1>6, <2>1, WritesOn
  <2>3. job'.step = job.step /\ job'.pack = job.pack /\ job'.before = job.before /\ job'.old = job.old
    BY <2>2, <1>t DEF Jobs
  <2>4. job.step = "extract" => Kept'
    <3>1. job.step = "extract" => Kept /\ Source = job.pack
      BY <1>l DEF DiskInv, Source
    <3>2. QED
      BY <3>1, <2>2, <2>3 DEF Kept
  <2>5. QED
    BY <2>w, <2>1, <2>2, <2>3, <2>4 DEF DiskInv, Restoring, Writing
<1>16. CASE TarFails
  <2>1. Writing /\ UNCHANGED <<archive, configFile, schedules, site, cron>>
    BY <1>16 DEF TarFails
  <2>2. Disk' = Disk
    BY <2>1 DEF Disk
  <2>3. PICK at \in 2 .. 5 : job' = [job EXCEPT !.at = at, !.open = FALSE, !.bad = TRUE]
    <3>1. job.at + 1 \in 2 .. 5 /\ Len(BackupPaths) + 1 \in 2 .. 5
      BY <1>16, <1>t, Paths DEF TarFails, AtEnd, Jobs
    <3>2. QED
      BY <1>16, <3>1 DEF TarFails
  <2>4. /\ job'.step = job.step /\ job'.pack = job.pack /\ job'.before = job.before /\ job'.old = job.old
        /\ ~job'.open /\ job'.bad
    BY <2>3, <1>t DEF Jobs
  <2>5. QED
    BY <1>l, <2>1, <2>2, <2>4 DEF DiskInv, Restoring, Writing, Touched, OpenAbsent, Kept
<1>7. CASE Extracted
  <2>1. job.at = 5
    BY <1>7, StepsOn, Paths DEF AtEnd
  <2>2. Restored \in Packs /\ Restored' = Restored
    BY <1>7, <1>t, StepsOn DEF Restored, Over, Jobs, Packs, Files
  <2>e. job.step = "extract" /\ Touched /\ Kept /\ (~job.bad => Written)
    BY <1>7, <1>l, StepsOn DEF DiskInv, Writing
  <2>3. ~job.bad => Disk = Restored
    <3>1. ASSUME ~job.bad, NEW k \in 1 .. 4
          PROVE  Disk[BackupPaths[k]] = Restored[BackupPaths[k]]
      BY <3>1, <2>1, <2>e, PathTypes DEF Written, Kept, Source, Restored, Over
    <3>2. QED
      BY <3>1, <2>2, <1>t, PackOf
  <2>4. job.bad => Touched' /\ OpenAbsent' /\ Written'
    BY <1>7, <2>e, StepsOn DEF Touched, OpenAbsent, Written
  <2>5. CASE job.bad
    BY <1>7, <1>l, <2>4, <2>5, StepsOn DEF DiskInv, Restoring, Writing
  <2>6. CASE ~job.bad
    BY <1>7, <1>l, <2>2, <2>3, <2>6, StepsOn DEF DiskInv, Restoring, Writing
  <2>7. QED
    BY <2>5, <2>6
<1>8. CASE Test /\ job'.step # "done"
  <2>1. Disk = Restored
    BY <1>8, <1>l, StepsOn DEF DiskInv
  <2>2. Touched' /\ OpenAbsent' /\ Written'
    BY <1>8, <2>1, StepsOn DEF Touched, OpenAbsent, Written, Restored, Over
  <2>3. QED
    BY <1>8, <1>l, <2>2, StepsOn DEF DiskInv, Restoring, Writing
<1>9. CASE Created \/ UndoneRestore \/ JobFails \/ (Test /\ job'.step = "done")
  <2>1. NoJob'
    BY <1>9, EndsWith
  <2>2. QED
    BY <2>1 DEF DiskInv, Restoring, Writing, NoJob
<1>10. CASE StopPanel
  <2>1. job'.step = "none"
    BY <1>10 DEF StopPanel, Idle
  <2>2. QED
    BY <2>1 DEF DiskInv, Restoring, Writing
<1>11. CASE RequestBegins
  BY <1>1, <1>11, <1>l, RequestStarts DEF backupVars
<1>12. CASE (\E s \in Settings, v \in Values : Save(s, v)) \/ (\E c \in Sites \cup {NoFile} : EditSite(c))
  BY <1>1, <1>12, <1>l DEF Save, EditSite, Apart
<1>13. CASE TaskRequest
  <2>1. NoJob /\ UNCHANGED backupVars
    BY <1>13, <1>l DEF TaskRequest, WriteCron, WriteList, UndoCron, WriteFails, RequestInv, NoRequest, Resting
  <2>2. QED
    BY <1>1, <2>1 DEF backupVars
<1>14. CASE UNCHANGED allVars
  BY <1>2, <1>14 DEF allVars, scheduleVars, backupVars
<1>15. QED
  BY <1>3, <1>4, <1>5, <1>6, <1>7, <1>8, <1>9, <1>10, <1>11, <1>12, <1>13, <1>14, <1>16 DEF BackupNext, Panel, BackupJob

-----------------------------------------------------------------------------
(* The configuration *)

LEMMA SetUpStarts == BackupInit => SetUpInv
<1> SUFFICES ASSUME BackupInit
             PROVE  SetUpInv
  OBVIOUS
<1>1. PICK v \in Values : config = [s \in Settings |-> v]
  BY DEF BackupInit
<1>2. config \in [Settings -> Values \cup {Unset}] /\ NewConfig \in [Settings -> Values \cup {Unset}]
  BY <1>1 DEF NewConfig
<1>3. config # NewConfig
  <2>1. PICK s \in Settings : TRUE
    BY BackupsAssumption
  <2>2. config[s] = v /\ NewConfig[s] = Unset
    BY <1>1 DEF NewConfig
  <2>3. QED
    BY <2>2, BackupsAssumption
<1>4. NoFile # NewConfig /\ configFile # NoFile
  BY <1>2, BackupsAssumption DEF BackupInit
<1>5. archive["config"] = NoFile /\ job.pack["config"] = NoFile /\ job.old["config"] = NoFile /\ up
  BY DEF BackupInit, Idle, Nothing, Files
<1>6. QED
  BY <1>3, <1>4, <1>5 DEF SetUpInv, SetUp, BackupInit, Idle

LEMMA SetUpKept == BackupTypeInv /\ SetUpInv /\ [BackupNext]_allVars => SetUpInv'
<1> SUFFICES ASSUME BackupTypeInv, SetUpInv, [BackupNext]_allVars, ~cut'
             PROVE  SetUpInv'
  BY DEF SetUpInv
<1>t. job \in Jobs /\ archive \in Packs /\ config \in Configs /\ configFile \in Configs \cup {NoFile}
      /\ (job.open => Writing /\ job.at < 5)
  BY Paths DEF BackupTypeInv, BackupTypeOK, AtEnd, Jobs
<1>g. job.step \in {"none", "done", "failed", "create", "save", "test"} => ~Writing
  BY DEF Writing
<1>n. NewConfig \in Configs /\ NoFile \notin Configs /\ Nothing["config"] = NoFile
  BY BackupsAssumption DEF Configs, NewConfig, Nothing, Files
<1>c. ~cut
  BY DEF BackupNext, Panel, RequestBegins, Save, EditSite, TaskRequest,
         WriteCron, WriteList, UndoCron, WriteFails, BackupJob, Create, RestoreArchive, Start, ReadMember, Created,
         SavedRollback, OpenMember, CloseMember, Extracted, Test, UndoneRestore, JobFails, TarFails, StopPanel,
         allVars, backupVars, run
<1>i. /\ up /\ SetUp(config) /\ SetUp(configFile) /\ SetUp(archive["config"])
      /\ SetUp(job.pack["config"]) /\ SetUp(job.old["config"])
      /\ configFile = NoFile => ConfigGone
      /\ (job.step = "save" /\ job.at > 1) \/ job.step \in {"extract", "test", "undo"} => job.old["config"] # NoFile
  BY <1>c DEF SetUpInv
<1> HIDE DEF SetUp
<1>1. CASE UNCHANGED <<config, configFile, archive, job, up>>
  BY <1>1, <1>i DEF SetUpInv, SetUp, ConfigGone, Writing
<1>2. ASSUME NEW s \in Settings, NEW v \in Values, Save(s, v)
      PROVE  SetUpInv'
  <2>1. config' \in Configs /\ config'[s] = v
    BY <1>2, <1>t DEF Save, Configs
  <2>2. SetUp(config')
    BY <2>1, BackupsAssumption DEF NewConfig, SetUp
  <2>3. configFile' = config' /\ configFile' # NoFile
    BY <1>2, <1>n, <2>1 DEF Save
  <2>4. QED
    BY <1>2, <1>i, <2>2, <2>3 DEF Save, SetUpInv, SetUp, run
<1>3. CASE Create \/ RestoreArchive
  <2>1. configFile # NoFile
    BY <1>3, <1>i, StartsFrom DEF NoJob, Writing, ConfigGone
  <2>2. UNCHANGED <<config, configFile, archive, up>>
    BY <1>3 DEF Create, RestoreArchive, Start, run
  <2>3. SetUp(job'.pack["config"]) /\ SetUp(job'.old["config"])
    BY <1>3, <1>n, <1>i, StartsFrom DEF SetUp
  <2>4. QED
    BY <1>3, <1>i, <2>1, <2>2, <2>3, StartsFrom DEF SetUpInv, SetUp
<1>4. CASE ReadMember
  <2>1. configFile # NoFile
    BY <1>4, <1>i DEF ReadMember, Reading, Writing, ConfigGone
  <2>2. UNCHANGED <<config, configFile, archive, up>>
    BY <1>4 DEF ReadMember, run
  <2>3. BackupPaths[job.at] \in Files
    BY <1>4, <1>t, Paths, PathTypes DEF ReadMember, AtEnd, Jobs
  <2>4. Disk["config"] = configFile
    BY DEF Disk, Files
  <2>5. job'.pack["config"] \in {job.pack["config"], configFile} /\ job'.old["config"] \in {job.old["config"], configFile}
    <3>1. CASE job.step = "create"
      <4>1. job'.pack = [job.pack EXCEPT ![BackupPaths[job.at]] = Disk[BackupPaths[job.at]]] /\ job'.old = job.old
        BY <1>4, <3>1, <1>t DEF ReadMember, Advance, Jobs
      <4>2. QED
        BY <4>1, <2>3, <2>4, <1>t DEF Jobs, Packs, Files
    <3>2. CASE job.step # "create"
      <4>1. job'.old = [job.old EXCEPT ![BackupPaths[job.at]] = Disk[BackupPaths[job.at]]] /\ job'.pack = job.pack
        BY <1>4, <3>2, <1>t DEF ReadMember, Advance, Jobs
      <4>2. QED
        BY <4>1, <2>3, <2>4, <1>t DEF Jobs, Packs, Files
    <3>3. QED
      BY <3>1, <3>2
  <2>6. job'.step = job.step /\ (job.step = "save" => job'.old["config"] # NoFile)
    <3>1. CASE job.step = "create"
      BY <1>4, <3>1, <1>t DEF ReadMember, Advance, Jobs
    <3>2. CASE job.step = "save"
      <4>1. job'.old = [job.old EXCEPT ![BackupPaths[job.at]] = Disk[BackupPaths[job.at]]] /\ job'.step = job.step
        BY <1>4, <3>2, <1>t DEF ReadMember, Advance, Jobs
      <4>2. CASE job.at = 1
        BY <4>1, <4>2, <2>1, <2>4, <1>t, Paths DEF Jobs, Packs, Files
      <4>3. CASE job.at # 1
        <5>1. job.at > 1 /\ job.at \in 1 .. 4
          BY <4>3, <1>4, <1>t, Paths DEF ReadMember, AtEnd, Jobs
        <5>2. BackupPaths[job.at] # "config"
          BY <5>1, Paths, PathOrder
        <5>3. job'.old["config"] = job.old["config"]
          BY <4>1, <5>2, <1>t DEF Jobs, Packs, Files
        <5>4. QED
          BY <1>i, <3>2, <4>1, <5>1, <5>3
      <4>4. QED
        BY <4>2, <4>3
    <3>3. QED
      BY <1>4, <3>1, <3>2 DEF ReadMember, Reading
  <2>7. QED
    BY <1>4, <1>i, <2>1, <2>2, <2>5, <2>6 DEF SetUpInv, SetUp, ReadMember, Reading
<1>5. CASE SavedRollback \/ Extracted \/ (Test /\ job'.step # "done")
  <2>1. job'.pack = job.pack /\ job'.old = job.old /\ UNCHANGED <<config, configFile, up, archive>>
    BY <1>5, StepsOn DEF SavedRollback, Extracted, Test, run
  <2>2. job.old["config"] # NoFile
    <3>1. SavedRollback => job.step = "save" /\ job.at > 1
      BY Paths, <1>t DEF SavedRollback, AtEnd, Jobs
    <3>2. QED
      BY <1>5, <1>i, <3>1 DEF Extracted, Test
  <2>3. configFile = NoFile => ConfigGone'
    <3>1. SavedRollback \/ Test => configFile # NoFile
      BY <1>i DEF SavedRollback, Test, ConfigGone, Writing
    <3>2. Extracted => job.at # 1
      BY Paths, <1>t DEF Extracted, AtEnd, Jobs
    <3>3. Extracted /\ configFile = NoFile => job.bad
      BY <1>i, <3>2 DEF ConfigGone
    <3>4. Extracted /\ job.bad => job'.step = "undo" /\ job'.at = 1
      BY <1>5, StepsOn
    <3>5. QED
      BY <1>5, <3>1, <3>3, <3>4 DEF ConfigGone, Writing
  <2>4. QED
    BY <1>i, <2>1, <2>2, <2>3 DEF SetUpInv, SetUp
<1>10. CASE Created \/ UndoneRestore \/ JobFails \/ (Test /\ job'.step = "done")
  <2>1. UNCHANGED <<config, configFile, up>> /\ archive' \in {archive, job.pack}
    BY <1>10 DEF Created, Test, UndoneRestore, JobFails, run
  <2>2. configFile # NoFile
    <3>1. UndoneRestore => ~job.bad
      BY DEF UndoneRestore
    <3>2. JobFails => job.step \notin {"extract", "undo"}
      BY DEF JobFails, Reading
    <3>3. UndoneRestore => job.at # 1
      BY Paths, <1>t DEF UndoneRestore, AtEnd, Jobs
    <3>4. QED
      BY <1>10, <1>i, <3>1, <3>2, <3>3 DEF ConfigGone, Writing, Created, Test, UndoneRestore
  <2>3. job'.pack["config"] = NoFile /\ job'.old["config"] = NoFile /\ SetUp(NoFile) /\ NoJob'
    <3>1. job' \in {Idle("done"), Idle("failed")} /\ NoJob'
      BY <1>10, EndsWith
    <3>2. QED
      BY <3>1, <1>n DEF Idle, SetUp
  <2>4. QED
    BY <1>i, <2>1, <2>2, <2>3 DEF SetUpInv, SetUp, NoJob
<1>11. CASE TarFails
  <2>1. UNCHANGED <<config, configFile, archive, up>> /\ Writing
    BY <1>11 DEF TarFails, run
  <2>2. /\ job'.pack = job.pack /\ job'.old = job.old /\ job'.bad /\ job'.step = job.step
    BY <1>11, <1>t DEF TarFails, Jobs
  <2>3. QED
    BY <1>i, <2>1, <2>2 DEF SetUpInv, SetUp, ConfigGone, Writing
<1>6. CASE OpenMember \/ CloseMember
  <2> DEFINE f == BackupPaths[job.at]
  <2>1. job.at \in 1 .. 4 /\ f \in Files
    BY <1>6, <1>t, Paths, PathTypes DEF OpenMember, CloseMember, AtEnd, Jobs
  <2>2. f = "config" <=> job.at = 1
    BY <2>1, Paths, PathOrder
  <2>3. UNCHANGED <<config, archive, up>>
    BY <1>6 DEF OpenMember, CloseMember, run
  <2>4. Source["config"] \in {job.pack["config"], job.old["config"]} /\ Disk["config"] = configFile
    BY DEF Source, Disk, Files
  <2>5. CASE OpenMember /\ Skipped(f)
    <3>1. job' = [job EXCEPT !.at = job.at + 1] /\ ~job.open /\ configFile' = configFile
      BY <2>5 DEF OpenMember, Advance
    <3>2. job'.pack = job.pack /\ job'.old = job.old /\ job'.step = job.step /\ job'.bad = job.bad
      BY <3>1, <1>t DEF Jobs
    <3>3. job.at # 1 \/ job.step # "undo"
      BY <2>2, <2>5, <1>i DEF Skipped, Source
    <3>4. configFile' = NoFile => ConfigGone'
      BY <1>i, <3>1, <3>2, <3>3 DEF ConfigGone, Writing
    <3>5. job'.step # "save"
      BY <2>5, <3>2 DEF OpenMember, Writing
    <3>6. QED
      BY <1>i, <2>3, <3>1, <3>2, <3>4, <3>5 DEF SetUpInv, SetUp
  <2>6. CASE OpenMember /\ ~Skipped(f)
    <3>1. job' = [job EXCEPT !.open = TRUE] /\ ~job.open /\ Put(f, NoFile)
      BY <2>6 DEF OpenMember
    <3>2. /\ job'.pack = job.pack /\ job'.old = job.old /\ job'.open /\ job'.at = job.at
          /\ job'.step = job.step /\ job'.bad = job.bad
      BY <3>1, <1>t DEF Jobs
    <3>w. Writing
      BY <2>6 DEF OpenMember
    <3>3. configFile' = IF job.at = 1 THEN NoFile ELSE configFile
      BY <3>1, <2>2 DEF Put
    <3>4. SetUp(NoFile)
      BY <1>n DEF SetUp
    <3>5. QED
      BY <1>i, <2>3, <3>1, <3>2, <3>3, <3>4, <3>w DEF SetUpInv, SetUp, ConfigGone, Writing
  <2>7. CASE CloseMember
    <3>1. job' = [job EXCEPT !.open = FALSE, !.at = job.at + 1] /\ job.open
      BY <2>7, <1>t DEF CloseMember, Advance, Jobs
    <3>2. job'.pack = job.pack /\ job'.old = job.old /\ job'.step = job.step /\ job'.bad = job.bad /\ job'.at # 1
      BY <3>1, <2>1, <1>t DEF Jobs
    <3>3. Source[f] # NoFile /\ Writing
      BY <3>1 DEF BackupTypeInv
    <3>4. configFile' \in {configFile, Source["config"]} /\ (configFile' = NoFile => job.at # 1)
      <4>1. CASE Untouched(f)
        <5>1. Put(f, Source[f])
          BY <2>7, <4>1 DEF CloseMember
        <5>2. QED
          BY <5>1, <3>3, <2>2 DEF Put
      <4>2. CASE ~Untouched(f)
        <5>1. configFile' = configFile
          BY <2>7, <4>2 DEF CloseMember
        <5>2. QED
          BY <5>1, <4>2, <2>2, <2>4 DEF Untouched
      <4>3. QED
        BY <4>1, <4>2
    <3>5. configFile' = NoFile => job.bad
      <4>1. job.at # 1 => configFile' = configFile
        BY <2>7, <2>2 DEF CloseMember, Put
      <4>2. QED
        BY <1>i, <3>4, <4>1 DEF ConfigGone
    <3>6. QED
      BY <1>i, <2>3, <2>4, <3>2, <3>3, <3>4, <3>5 DEF SetUpInv, SetUp, ConfigGone, Writing
  <2>8. QED
    BY <1>6, <2>5, <2>6, <2>7
<1>7. CASE StopPanel
  <2>1. ~Writing /\ configFile # NoFile
    BY <1>7, <1>i DEF StopPanel, ConfigGone
  <2>2. config' = configFile /\ up' /\ UNCHANGED <<configFile, archive>> /\ job' = Idle("none")
    BY <1>7, <2>1 DEF StopPanel
  <2>3. job'.pack["config"] = NoFile /\ job'.old["config"] = NoFile /\ SetUp(NoFile)
    BY <2>2, <1>n DEF Idle, SetUp
  <2>4. QED
    BY <1>i, <2>1, <2>2, <2>3 DEF SetUpInv, SetUp, Idle
<1>8. CASE RequestBegins \/ (\E c \in Sites \cup {NoFile} : EditSite(c)) \/ TaskRequest \/ UNCHANGED allVars
  <2>1. UNCHANGED <<config, configFile, archive, job, up>>
    BY <1>8 DEF RequestBegins, EditSite, TaskRequest, allVars, backupVars, run
  <2>2. QED
    BY <1>1, <2>1
<1>9. QED
  BY <1>2, <1>3, <1>4, <1>5, <1>6, <1>7, <1>8, <1>10, <1>11 DEF BackupNext, Panel, BackupJob

-----------------------------------------------------------------------------
(* The list and the file of cron *)

\* What has to agree exactly need only do so while nothing failed or stopped.
LEMMA InStepLess ==
  ASSUME NEW list, NEW lines, NEW exact, NEW less, InStep(list, lines, exact), less => exact
  PROVE  InStep(list, lines, less)
BY DEF InStep

LEMMA FilesAre == Disk["schedules"] = schedules /\ Disk["cron"] = cron
BY DEF Disk, Files

\* Faults and stops are counted up.
LEMMA ExactLess == BackupTypeInv /\ [BackupNext]_allVars => (Exact' => Exact)
<1> SUFFICES ASSUME BackupTypeInv, [BackupNext]_allVars
             PROVE  Exact' => Exact
  OBVIOUS
<1>1. faults \in Nat /\ stops \in Nat
  BY SchedulesAssumption DEF BackupTypeInv, BackupTypeOK, ScheduleTypeOK
<1>2. (faults' = faults \/ faults' = faults + 1) /\ (stops' = stops \/ stops' = stops + 1)
  BY DEF BackupNext, Panel, RequestBegins, BeginRequest, Add, Update, Toggle, Delete, Locked, Save, EditSite, TaskRequest,
         WriteCron, WriteList, UndoCron, WriteFails, BackupJob, Create, RestoreArchive, Start, ReadMember, Created,
         SavedRollback, OpenMember, CloseMember, Extracted, Test, UndoneRestore, JobFails, TarFails, StopPanel, Stop,
         scheduleVars, counters, allVars
<1>3. QED
  BY <1>1, <1>2 DEF Exact

\* A file of cron written from a list agrees with it, and is one task away from a list that differs in one.
LEMMA CronInStep ==
  ASSUME NEW list \in Lists, NEW id, NEW old \in Lists \cup {NoFile}, NEW exact,
         \A i \in Ids \ {id} : list[i] = ListOf(old)[i]
  PROVE  /\ CronFile(list) # NoFile
         /\ InStep(list, CronFile(list), exact)
         /\ InStep(old, CronFile(list), FALSE)
         /\ list = ListOf(old) => InStep(old, CronFile(list), exact)
<1>1. CronFile(list) # NoFile /\ list # NoFile
  BY CronTypes, SchedulesAssumption
<1>2. RunsOf(CronFile(list)) = CronFile(list) /\ ListOf(list) = list
  BY <1>1 DEF RunsOf, ListOf
<1>3. \A i \in Ids \ {id} : CronFile(list)[i] = CronFile(ListOf(old))[i]
  BY DEF CronFile
<1>4. QED
  BY <1>1, <1>2, <1>3 DEF InStep, OneAway

\* A restore of an archive that has both files or neither, or that is taken back, leaves the two in step.
LEMMA MixedInStep ==
  ASSUME NEW pack \in Packs, NEW first \in Packs, NEW back \in Packs, NEW exact,
         InStep(pack["schedules"], pack["cron"], exact), InStep(first["schedules"], first["cron"], exact),
         first["schedules"] = NoFile => pack["schedules"] = NoFile,
         \A f \in Files : IF first[f] # NoFile THEN back[f] = first[f] ELSE back[f] \in {NoFile, pack[f]}
  PROVE  LET new == Over(pack, first) IN
         /\ pack["schedules"] # NoFile \/ pack["cron"] = NoFile =>
              /\ InStep(new["schedules"], new["cron"], exact)
              /\ new["schedules"] = NoFile => pack["schedules"] = NoFile
         /\ InStep(back["schedules"], back["cron"], exact)
         /\ back["schedules"] = NoFile => pack["schedules"] = NoFile
<1> DEFINE new == Over(pack, first)
<1>1. /\ new["schedules"] = IF pack["schedules"] = NoFile THEN first["schedules"] ELSE pack["schedules"]
      /\ new["cron"] = IF pack["cron"] = NoFile THEN first["cron"] ELSE pack["cron"]
  BY DEF Over, Files
<1>2. /\ IF first["schedules"] # NoFile THEN back["schedules"] = first["schedules"] ELSE back["schedules"] \in {NoFile, pack["schedules"]}
      /\ IF first["cron"] # NoFile THEN back["cron"] = first["cron"] ELSE back["cron"] \in {NoFile, pack["cron"]}
  BY DEF Files
<1>3. pack["cron"] = NoFile => pack["schedules"] = NoFile
  BY DEF InStep
<1>4. first["cron"] = NoFile => first["schedules"] = NoFile
  BY DEF InStep
<1> HIDE DEF new
<1>5. pack["schedules"] # NoFile \/ pack["cron"] = NoFile =>
        /\ InStep(new["schedules"], new["cron"], exact)
        /\ new["schedules"] = NoFile => pack["schedules"] = NoFile
  BY <1>1, <1>3, <1>4
<1>6. back["schedules"] = NoFile => pack["schedules"] = NoFile
  BY <1>2
<1>7. InStep(back["schedules"], back["cron"], exact)
  <2>1. CASE first["cron"] # NoFile
    <3>1. back["cron"] = first["cron"] /\ back["schedules"] = first["schedules"]
      BY <2>1, <1>2
    <3>2. QED
      BY <3>1
  <2>2. CASE first["cron"] = NoFile
    <3>1. first["schedules"] = NoFile /\ pack["schedules"] = NoFile /\ back["schedules"] = NoFile
      BY <2>2, <1>2, <1>4
    <3>2. CASE back["cron"] = pack["cron"]
      BY <3>1, <3>2
    <3>3. CASE back["cron"] = NoFile
      BY <3>1, <3>3, <2>2
    <3>4. QED
      BY <2>2, <3>2, <3>3, <1>2
  <2>3. QED
    BY <2>1, <2>2
<1>8. QED
  BY <1>5, <1>6, <1>7 DEF new

\* What a rollback has written when it ends without a failure.
LEMMA DiskTakenBack ==
  ASSUME BackupTypeInv, DiskInv, Apart, job.step = "undo", AtEnd, ~job.bad
  PROVE  \A f \in Files : IF job.before[f] # NoFile THEN Disk[f] = job.before[f] ELSE Disk[f] \in {NoFile, job.pack[f]}
<1>1. job.at = 5
  BY Paths DEF AtEnd, BackupTypeInv, Jobs
<1>2. Touched /\ Written /\ Source = job.before
  BY DEF DiskInv, Writing, Source
<1>3. QED
  BY <1>1, <1>2, PathOrder DEF Touched, Written

\* The two files at the end of a job, and where a stop ends one that is not writing.
TasksOnDisk == InStep(schedules, cron, Exact) /\ (schedules = NoFile => archive["schedules"] = NoFile)

LEMMA TasksAfter ==
  ASSUME BackupTypeInv, RequestInv, DiskInv, TasksInv, Apart, ~cut, ~unlisted
  PROVE  /\ job.step \in {"create", "save"} => TasksOnDisk
         /\ job.step = "test" /\ ~WithoutList => TasksOnDisk
         /\ job.step = "undo" /\ AtEnd /\ ~job.bad => TasksOnDisk
         /\ job.step = "create" /\ AtEnd => job.pack["schedules"] = schedules /\ job.pack["cron"] = cron
<1>t. job \in Jobs /\ archive \in Packs /\ Disk \in Packs
  BY DiskTypes DEF BackupTypeInv, BackupTypeOK, ScheduleTypeOK
<1>1. ASSUME job.step \in {"create", "save"}
      PROVE  TasksOnDisk
  BY <1>1, FilesAre DEF TasksInv, DiskInv, NoJob, TasksOnDisk
<1>2. ASSUME job.step \in {"test", "undo"}
      PROVE  /\ job.pack \in Packs /\ job.before \in Packs /\ archive = job.pack
             /\ InStep(job.pack["schedules"], job.pack["cron"], Exact)
             /\ InStep(job.before["schedules"], job.before["cron"], Exact)
             /\ job.before["schedules"] = NoFile => job.pack["schedules"] = NoFile
  BY <1>2, <1>t DEF TasksInv, DiskInv, NoJob, Restoring, Jobs
<1>3. ASSUME job.step = "test", ~WithoutList
      PROVE  TasksOnDisk
  <2>1. Disk = Over(job.pack, job.before)
    BY <1>3 DEF DiskInv, Restored
  <2>2. job.pack["schedules"] # NoFile \/ job.pack["cron"] = NoFile
    BY <1>3 DEF WithoutList
  <2>b. \A f \in Files : IF job.before[f] # NoFile THEN job.before[f] = job.before[f] ELSE job.before[f] \in {NoFile, job.pack[f]}
    OBVIOUS
  <2>3. InStep(Disk["schedules"], Disk["cron"], Exact) /\ (Disk["schedules"] = NoFile => job.pack["schedules"] = NoFile)
    BY <1>2, <1>3, <2>1, <2>2, <2>b, MixedInStep
  <2>4. QED
    BY <1>2, <1>3, <2>3, FilesAre DEF TasksOnDisk
<1>4. ASSUME job.step = "undo", AtEnd, ~job.bad
      PROVE  TasksOnDisk
  <2>1. \A f \in Files : IF job.before[f] # NoFile THEN Disk[f] = job.before[f] ELSE Disk[f] \in {NoFile, job.pack[f]}
    BY <1>4, DiskTakenBack
  <2>2. InStep(Disk["schedules"], Disk["cron"], Exact) /\ (Disk["schedules"] = NoFile => job.pack["schedules"] = NoFile)
    BY <1>2, <1>4, <1>t, <2>1, MixedInStep
  <2>3. QED
    BY <1>2, <1>4, <2>2, FilesAre DEF TasksOnDisk
<1>5. ASSUME job.step = "create", AtEnd
      PROVE  job.pack["schedules"] = schedules /\ job.pack["cron"] = cron
  <2>1. job.at = 5
    BY <1>5, <1>t, Paths DEF AtEnd, Jobs
  <2>2. job.pack[BackupPaths[2]] = Disk[BackupPaths[2]] /\ job.pack[BackupPaths[4]] = Disk[BackupPaths[4]]
    BY <1>5, <2>1 DEF DiskInv, Taken
  <2>3. QED
    BY <2>2, Paths, FilesAre
<1>6. QED
  BY <1>1, <1>3, <1>4, <1>5

\* Where a job ends, or a stop ends it, with the two files in step, all is well again.
LEMMA TasksRest ==
  ASSUME NoJob', InStep(archive["schedules"], archive["cron"], Exact)', TasksOnDisk'
  PROVE  TasksInv'
<1>1. InStep(schedules, cron, FALSE)'
  BY InStepLess DEF TasksOnDisk
<1>2. QED
  BY <1>1 DEF TasksInv, TasksOnDisk

LEMMA TasksKept ==
  BackupTypeInv /\ RequestInv /\ DiskInv /\ TasksInv /\ [BackupNext]_allVars => TasksInv'
<1> SUFFICES ASSUME BackupTypeInv, RequestInv, DiskInv, TasksInv, [BackupNext]_allVars, Apart', ~cut', ~unlisted'
             PROVE  TasksInv'
  BY DEF TasksInv
<1>l. Apart /\ (Exact' => Exact)
  BY LoadKept, ExactLess DEF Apart
<1>c. ~cut /\ ~unlisted
  <2>1. CASE UNCHANGED run
    BY <2>1 DEF run
  <2>2. CASE Test
    <3>1. cut' = cut
      BY <2>2 DEF Test
    <3>2. unlisted => unlisted'
      BY <2>2 DEF Test
    <3>3. QED
      BY <3>1, <3>2
  <2>3. CASE StopPanel
    BY <2>3 DEF StopPanel
  <2>5. CASE UndoneRestore
    BY <2>5 DEF UndoneRestore
  <2>6. CASE JobFails
    BY <2>6 DEF JobFails
  <2>4. QED
    BY <2>1, <2>2, <2>3, <2>5, <2>6 DEF BackupNext, Panel, RequestBegins, Save, EditSite, TaskRequest, BackupJob, Create,
       RestoreArchive, Start, ReadMember, Created, SavedRollback, OpenMember, CloseMember, Extracted,
       TarFails, allVars, backupVars
<1>i. /\ (NoJob /\ NoRequest) \/ request.step = "cron" => InStep(schedules, cron, Exact)
      /\ InStep(archive["schedules"], archive["cron"], Exact)
      /\ NoJob => InStep(schedules, cron, FALSE) /\ (schedules = NoFile => archive["schedules"] = NoFile)
      /\ ~NoJob => /\ InStep(job.before["schedules"], job.before["cron"], Exact)
                   /\ job.before["schedules"] = NoFile => archive["schedules"] = NoFile
  BY <1>l, <1>c DEF TasksInv
<1>t. job \in Jobs /\ archive \in Packs /\ request \in Request /\ schedules \in Lists \cup {NoFile}
      /\ (request.step \in {"cron", "list", "undo"} => request.id \in Ids)
  BY DEF BackupTypeInv, BackupTypeOK, ScheduleTypeOK
<1>a. archive' = archive => InStep(archive["schedules"], archive["cron"], Exact)'
  BY <1>l, <1>i, InStepLess
<1>1. CASE UNCHANGED <<schedules, cron, request, job, archive, stops, faults>>
  BY <1>1, <1>i DEF TasksInv, NoJob, NoRequest, Exact
<1>2. CASE RequestBegins
  <2>1. /\ NoJob /\ NoRequest /\ NoJob' /\ UNCHANGED <<schedules, cron, archive, faults, stops>>
    BY <1>2, <1>l, RequestStarts DEF backupVars, NoJob
  <2>2. QED
    BY <2>1, <1>i DEF TasksInv, Exact
<1>3. CASE TaskRequest
  <2>1. NoJob /\ NoJob' /\ UNCHANGED <<job, archive>> /\ request.step \in {"cron", "list", "undo"}
    BY <1>3, <1>l DEF TaskRequest, WriteCron, WriteList, UndoCron, WriteFails, RequestInv, NoRequest, Resting, NoJob, backupVars
  <2>2. /\ request.list \in Lists /\ request.previous = ReadList /\ ReadList = ListOf(schedules) /\ ReadList \in Lists
        /\ \A i \in Ids \ {request.id} : request.list[i] = ListOf(schedules)[i]
    BY <2>1, <1>l, <1>t, ListTypes DEF RequestInv, Request, ReadList, ListOf
  <2>3. CASE WriteCron
    <3>1. cron' = CronFile(request.list) /\ schedules' = schedules /\ request'.step = "list"
      BY <2>3, <1>t DEF WriteCron, Answer, Request
    <3>2. InStep(schedules, cron', FALSE)
      BY <3>1, <2>2, <1>t, CronInStep
    <3>3. QED
      BY <1>a, <1>i, <2>1, <3>1, <3>2 DEF TasksInv, NoRequest, Resting
  <2>4. CASE WriteList
    <3>1. schedules' = request.list /\ cron' = CronFile(request.list)
      BY <2>4, <1>l DEF WriteList, RequestInv
    <3>2. InStep(schedules', cron', Exact') /\ schedules' # NoFile
      BY <3>1, <2>2, <1>t, CronInStep, SchedulesAssumption
    <3>3. QED
      BY <1>a, <2>1, <3>2, TasksRest DEF TasksOnDisk
  <2>5. CASE UndoCron
    <3>1. cron' = CronFile(ReadList) /\ schedules' = schedules
      BY <2>5, <2>2 DEF UndoCron, Undone
    <3>2. InStep(schedules, cron', Exact')
      BY <3>1, <2>2, <1>t, CronInStep
    <3>3. QED
      BY <1>a, <1>i, <2>1, <3>1, <3>2, TasksRest DEF TasksOnDisk
  <2>6. CASE WriteFails
    <3>1. UNCHANGED <<schedules, cron>> /\ faults' = faults + 1
      BY <2>6 DEF WriteFails
    <3>2. CASE request.step = "cron"
      <4>1. InStep(schedules, cron, Exact')
        BY <3>2, <1>i, <1>l, InStepLess
      <4>2. QED
        BY <1>a, <1>i, <2>1, <3>1, <4>1, TasksRest DEF TasksOnDisk
    <3>3. CASE request.step = "list"
      <4>1. request'.step = "undo"
        BY <2>6, <3>3, <1>t DEF WriteFails, Answer, Request
      <4>2. QED
        BY <1>a, <1>i, <2>1, <3>1, <4>1 DEF TasksInv, NoRequest, Resting
    <3>4. CASE request.step = "undo"
      <4>1. faults > 0 /\ faults \in Nat
        BY <3>4, <1>l, SchedulesAssumption DEF RequestInv, BackupTypeInv, BackupTypeOK, ScheduleTypeOK
      <4>2. ~Exact'
        BY <3>1, <4>1 DEF Exact
      <4>3. InStep(schedules, cron, Exact')
        BY <1>i, <2>1, <4>2, InStepLess
      <4>4. QED
        BY <1>a, <1>i, <2>1, <3>1, <4>3, TasksRest DEF TasksOnDisk
    <3>5. QED
      BY <2>1, <3>2, <3>3, <3>4
  <2>7. QED
    BY <1>3, <2>3, <2>4, <2>5, <2>6 DEF TaskRequest
<1>4. CASE BackupJob
  <2>1. NoRequest /\ UNCHANGED <<request, stops, faults>> /\ request'.step # "cron" /\ Exact' = Exact
    BY <1>4, <1>l, JobAlone DEF NoRequest, Resting, Exact
  <2>2. CASE Create \/ RestoreArchive
    <3>1. NoJob /\ ~NoJob' /\ archive' = archive /\ job'.before = Disk
      BY <2>2, StartsFrom DEF NoJob
    <3>2. QED
      BY <1>a, <1>i, <2>1, <3>1, FilesAre DEF TasksInv
  <2>3. CASE ~NoJob /\ ~NoJob' /\ archive' = archive /\ job'.before = job.before
    BY <2>3, <1>a, <1>i, <2>1 DEF TasksInv
  <2>4. CASE ReadMember
    BY <2>3, <2>4, ReadsOn DEF ReadMember, Reading, NoJob
  <2>5. CASE OpenMember \/ CloseMember
    <3>1. Writing /\ archive' = archive
      BY <2>5 DEF OpenMember, CloseMember, BackupTypeInv
    <3>2. job'.step = job.step /\ job'.before = job.before
      BY <2>5, <1>t DEF OpenMember, CloseMember, Advance, Jobs
    <3>3. QED
      BY <2>3, <3>1, <3>2 DEF Writing, NoJob
  <2>6. CASE SavedRollback \/ Extracted \/ (Test /\ job'.step # "done")
    <3>1. ~NoJob /\ ~NoJob'
      BY <2>6, StepsOn DEF NoJob, SavedRollback, Extracted, Test
    <3>2. QED
      BY <2>3, <2>6, <3>1, StepsOn
  <2>7. CASE Created \/ UndoneRestore \/ JobFails \/ (Test /\ job'.step = "done")
    <3>1. NoJob' /\ UNCHANGED <<schedules, cron>>
          /\ (archive' = archive \/ (job.step = "create" /\ AtEnd /\ archive' = job.pack))
      BY <2>7, EndsWith DEF Test, UndoneRestore, Created, JobFails, scheduleVars
    <3>2. TasksOnDisk
      <4>1. CASE UndoneRestore
        BY <4>1, <1>l, <1>c, TasksAfter DEF UndoneRestore
      <4>2. CASE Test /\ job'.step = "done"
        <5>1. ~WithoutList /\ job.step = "test"
          BY <4>2, <1>t DEF Test, Jobs
        <5>2. QED
          BY <5>1, <1>l, <1>c, TasksAfter
      <4>3. CASE Created \/ JobFails
        <5>1. job.step \in {"create", "save"}
          BY <4>3 DEF Created, JobFails, Reading
        <5>2. QED
          BY <5>1, <1>l, <1>c, TasksAfter
      <4>4. QED
        BY <2>7, <4>1, <4>2, <4>3
    <3>3. CASE archive' = archive
      BY <1>a, <2>1, <3>1, <3>2, <3>3, TasksRest DEF TasksOnDisk
    <3>4. CASE job.step = "create" /\ AtEnd /\ archive' = job.pack
      <4>1. job.pack["schedules"] = schedules /\ job.pack["cron"] = cron
        BY <3>4, <1>l, <1>c, TasksAfter
      <4>2. QED
        BY <2>1, <3>1, <3>2, <3>4, <4>1, TasksRest DEF TasksOnDisk
    <3>5. QED
      BY <3>1, <3>3, <3>4
  <2>9. QED
    BY <1>4, <2>2, <2>4, <2>5, <2>6, <2>7 DEF BackupJob
<1>8. CASE TarFails
  <2>1. ~NoJob /\ UNCHANGED <<schedules, cron, request, archive>>
    BY <1>8 DEF TarFails, Writing, NoJob
  <2>2. ~NoJob' /\ job'.before = job.before
    <3>1. job'.step = job.step /\ job'.before = job.before
      BY <1>8, <1>t DEF TarFails, Jobs
    <3>2. QED
      BY <2>1, <3>1 DEF NoJob
  <2>3. request'.step # "cron"
    BY <1>l, <2>1 DEF RequestInv, NoRequest, Resting
  <2>4. InStep(job.before["schedules"], job.before["cron"], Exact')
    BY <1>i, <1>l, <2>1, InStepLess
  <2>5. QED
    BY <1>a, <1>i, <2>1, <2>2, <2>3, <2>4 DEF TasksInv
<1>5. CASE StopPanel
  <2>1. UNCHANGED <<schedules, cron, archive>> /\ NoJob' /\ ~Writing /\ ~WithoutList /\ stops' = stops + 1
    BY <1>5 DEF StopPanel, Stop, Idle, NoJob
  <2>2. ~Exact'
    BY <2>1, SchedulesAssumption DEF Exact, BackupTypeInv, BackupTypeOK, ScheduleTypeOK
  <2>3. NoJob \/ job.step \in {"create", "save", "test"}
    BY <2>1, <1>t DEF Jobs, JobSteps, NoJob, Writing
  <2>4. InStep(schedules, cron, Exact') /\ (schedules = NoFile => archive["schedules"] = NoFile)
    <3>1. CASE NoJob
      BY <3>1, <1>i, <2>2, InStepLess
    <3>2. CASE job.step \in {"create", "save", "test"}
      <4>1. TasksOnDisk
        BY <3>2, <2>1, <1>l, <1>c, TasksAfter
      <4>2. QED
        BY <4>1, <2>2, InStepLess DEF TasksOnDisk
    <3>3. QED
      BY <2>3, <3>1, <3>2
  <2>5. QED
    BY <1>a, <2>1, <2>4, TasksRest DEF TasksOnDisk
<1>6. CASE (\E s \in Settings, v \in Values : Save(s, v)) \/ (\E c \in Sites \cup {NoFile} : EditSite(c))
           \/ UNCHANGED allVars
  <2>1. UNCHANGED <<schedules, cron, request, job, archive, stops, faults>>
    BY <1>6 DEF Save, EditSite, scheduleVars, counters, allVars, backupVars
  <2>2. QED
    BY <1>1, <2>1
<1>7. QED
  BY <1>2, <1>3, <1>4, <1>5, <1>6, <1>8 DEF BackupNext, Panel

-----------------------------------------------------------------------------
(* The theorems *)

BackupInv == BackupTypeInv /\ RequestInv /\ DiskInv /\ TasksInv /\ SetUpInv

LEMMA BackupStarts == BackupInit => BackupInv
<1> SUFFICES ASSUME BackupInit
             PROVE  BackupInv
  OBVIOUS
<1>1. request.step = "none" /\ job.step = "none" /\ archive = Nothing /\ schedules = NoFile /\ cron = NoFile
  BY DEF BackupInit, ScheduleInit, Idle
<1>2. archive["schedules"] = NoFile /\ archive["cron"] = NoFile
  BY <1>1 DEF Nothing, Files
<1>3. RequestInv /\ DiskInv
  BY <1>1 DEF RequestInv, DiskInv, NoRequest, Resting, Restoring, Writing
<1>4. \A exact : InStep(NoFile, NoFile, exact)
  <2>1. RunsOf(NoFile) = NoTasks /\ ListOf(NoFile) = NoTasks
    BY DEF RunsOf, ListOf
  <2>2. CronFile(NoTasks) = NoTasks
    BY DEF CronFile, NoTasks
  <2>3. QED
    BY <2>1, <2>2 DEF InStep, OneAway
<1>5. TasksInv
  BY <1>1, <1>2, <1>4 DEF TasksInv, NoJob
<1>6. QED
  BY <1>3, <1>5, BackupTypes, SetUpStarts DEF BackupInv

\* The types, what requests and jobs have read and written so far, and what that means for the
\* tasks and the configuration hold together in every state.
THEOREM BackupInvariant == BackupSpec => []BackupInv
<1>1. BackupInv /\ [BackupNext]_allVars => BackupInv'
  BY BackupTypesKept, RequestInvKept, DiskInvKept, TasksKept, SetUpKept DEF BackupInv
<1>2. QED
  BY BackupStarts, <1>1, PTL DEF BackupSpec

\* Between requests and jobs cron runs the enabled tasks of the list and nothing else; stops and
\* failures leave one task apart at most; and the panel keeps its configuration: until a restore
\* is cut, by a stop, by its time or by a rollback that fails.
THEOREM BackupConsistent == BackupSpec => []Consistent
<1>1. ASSUME BackupInv
      PROVE  Consistent
  <2>1. BackupTypeOK
    BY <1>1 DEF BackupInv, BackupTypeInv
  <2>2. Runs = RunsOf(cron) /\ ReadList = ListOf(schedules)
    BY DEF Runs, RunsOf, ReadList, ListOf
  <2>3. ListedRuns
    <3> SUFFICES ASSUME Apart, NoJob, NoRequest, stops = 0, faults <= 1, ~cut, ~unlisted
                 PROVE  CronFollows
      BY DEF ListedRuns
    <3>1. QED
      BY <1>1, <2>2 DEF BackupInv, TasksInv, CronFollows, InStep, Exact
  <2>4. CronOneAhead
    <3> SUFFICES ASSUME Apart, NoJob, ~cut, ~unlisted
                 PROVE  OneAhead
      BY DEF CronOneAhead
    <3> DEFINE apart == {i \in Ids : Runs[i] # CronFile(ReadList)[i]}
    <3>1. \A i, j \in apart : i = j
      BY <1>1, <2>2 DEF BackupInv, TasksInv, InStep, OneAway
    <3>2. apart = {} \/ \E i : apart = {i}
      BY <3>1
    <3>3. Cardinality(apart) <= 1
      <4>1. CASE apart = {}
        BY <4>1, FS_EmptySet
      <4>2. ASSUME NEW i, apart = {i}
            PROVE  Cardinality(apart) <= 1
        <5>1. Cardinality({i}) = 1
          BY FS_Singleton
        <5>2. QED
          BY <4>2, <5>1
      <4>3. QED
        BY <3>2, <4>1, <4>2
    <3>4. QED
      BY <3>3 DEF OneAhead
  <2>5. StaysSetUp
    BY <1>1 DEF BackupInv, SetUpInv, SetUp, ConfigGone, StaysSetUp
  <2>6. QED
    BY <2>1, <2>3, <2>4, <2>5 DEF Consistent
<1>2. QED
  BY <1>1, BackupInvariant, PTL

\* A request that is answered well leaves cron and the list in agreement, and every other task
\* as it was in both.
THEOREM AcknowledgedAreInstalled == BackupSpec => AcknowledgedInstalled
<1>1. ASSUME BackupInv, [BackupNext]_allVars, Apart, request.step # "ok", request'.step = "ok"
      PROVE  /\ cron' = CronFile(schedules')
             /\ \A i \in Ids \ {request.id} : schedules'[i] = ReadList[i]
  <2>1. request \in Request
    BY <1>1 DEF BackupInv, BackupTypeInv, BackupTypeOK, ScheduleTypeOK
  <2>2. WriteList
    <3>1. ~BackupJob /\ request' # request
      BY <1>1, JobAlone DEF BackupInv
    <3>2. ~RequestBegins
      BY <1>1, RequestStarts DEF BackupInv
    <3>3. ~StopPanel /\ ~WriteCron /\ ~UndoCron /\ ~WriteFails /\ ~TarFails
      BY <1>1, <2>1 DEF StopPanel, Stop, WriteCron, UndoCron, WriteFails, TarFails, Answer, Request
    <3>4. QED
      BY <1>1, <3>1, <3>2, <3>3 DEF BackupNext, Panel, TaskRequest, Save, EditSite, allVars, scheduleVars
  <2>3. schedules' = request.list /\ cron' = cron /\ request.step = "list"
    BY <2>2 DEF WriteList
  <2>4. QED
    BY <1>1, <2>3 DEF BackupInv, RequestInv
<1>2. BackupInv /\ [BackupNext]_allVars => [Apart => Acknowledged]_allVars
  BY <1>1 DEF Acknowledged
<1>3. QED
  BY <1>2, BackupInvariant, PTL DEF AcknowledgedInstalled, BackupSpec

\* Only the end of a restore reports it.
LEMMA RestoreEnds ==
  ASSUME BackupTypeInv, [BackupNext]_allVars, job.step \in {"save", "extract", "test", "undo"}, job'.step \in {"done", "failed"}
  PROVE  UndoneRestore \/ JobFails \/ (Test /\ job'.step = "done")
<1>t. job \in Jobs
  BY DEF BackupTypeInv
<1>1. ~NoJob /\ job' # job
  BY DEF NoJob
<1>2. BackupNext /\ ~Panel /\ ~TaskRequest /\ ~StopPanel
  BY <1>1 DEF allVars, backupVars, Panel, Save, EditSite, TaskRequest, RequestBegins, StopPanel, Idle
<1>3. ~OpenMember /\ ~CloseMember /\ ~TarFails
  BY <1>t DEF OpenMember, CloseMember, TarFails, Advance, Jobs
<1>4. ~Create /\ ~RestoreArchive /\ ~ReadMember /\ ~Created
  BY <1>1, StartsFrom, ReadsOn DEF Created
<1>5. ~SavedRollback /\ ~Extracted /\ ~(Test /\ job'.step # "done")
  BY StepsOn
<1>6. QED
  BY <1>2, <1>3, <1>4, <1>5 DEF BackupNext, BackupJob

\* Where nothing else happens meanwhile, a restore that is reported as done has every file of the
\* archive on the disk, and one that is reported as failed has every file that was there before:
\* also one whose tar could not write a file, but not one that was cut.
THEOREM RestoresAllOrNothing == BackupSpec => AllOrNothing
<1>1. ASSUME BackupInv, [BackupNext]_allVars, Apart
      PROVE  Completes /\ TakenBack
  <2>t. BackupTypeInv /\ DiskInv
    BY <1>1 DEF BackupInv
  <2>1. ASSUME job.step = "test", job'.step = "done"
        PROVE  \A f \in Files : archive[f] # NoFile => Disk'[f] = archive[f]
    <3>1. Disk' = Disk
      BY <1>1, <2>1, <2>t, RestoreEnds, EndsWith
    <3>2. Disk = Restored /\ archive = job.pack
      BY <1>1, <2>1, <2>t DEF DiskInv, Restoring
    <3>3. QED
      BY <3>1, <3>2 DEF Restored, Over
  <2>2. ASSUME job.step \in {"save", "extract", "test", "undo"}, job'.step = "failed", ~Cut
        PROVE  \A f \in Files : job.before[f] # NoFile => Disk'[f] = job.before[f]
    <3>1. Disk' = Disk /\ (UndoneRestore \/ JobFails)
      BY <1>1, <2>2, <2>t, RestoreEnds, EndsWith
    <3>2. CASE job.step = "save"
      BY <1>1, <2>t, <3>1, <3>2 DEF DiskInv
    <3>3. CASE job.step = "undo"
      <4>1. UndoneRestore /\ ~job.bad
        BY <2>2, <3>1, <3>3 DEF JobFails, Reading, Cut
      <4>2. AtEnd
        BY <4>1 DEF UndoneRestore
      <4>3. QED
        BY <1>1, <2>t, <3>1, <3>3, <4>1, <4>2, DiskTakenBack
    <3>4. QED
      BY <2>2, <3>2, <3>3 DEF Cut
  <2>3. QED
    BY <2>1, <2>2 DEF Completes, TakenBack
<1>2. BackupInv /\ [BackupNext]_allVars => [Apart => Completes /\ TakenBack]_allVars
  BY <1>1
<1>3. QED
  BY <1>2, BackupInvariant, PTL DEF AllOrNothing, BackupSpec

=============================================================================
