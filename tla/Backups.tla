------------------------------- MODULE Backups -------------------------------
(***************************************************************************)
(* Backups of the panel: the jobs that create an archive and restore one,  *)
(* beside the panel that goes on working with the same files.              *)
(*                                                                         *)
(* An archive holds the configuration of the panel, the list of scheduled  *)
(* tasks, a site of nginx and the file of cron.  tar reads and writes them *)
(* one after the other, and no lock is held: scheduleMu and the lock of    *)
(* the configuration are those of the panel.  One job is under way at a    *)
(* time; when the panel stops, systemd ends it as well.                    *)
(***************************************************************************)
EXTENDS Schedules, Sequences

CONSTANTS
  Settings,   \* fields of the configuration
  Values,     \* their values
  Unset       \* the value of all of them before the panel is set up

\* A load says, beside what Schedules knows of it, whether requests and jobs
\* overlap, and the bounds on changes of the configuration and of the site and
\* on jobs.
ASSUME BackupsAssumption ==
  /\ Settings # {} /\ Unset \notin Values /\ NoFile \notin [Settings -> Values \cup {Unset}]
  /\ \A l \in Loads : l.overlap \in BOOLEAN /\ {l.saves, l.jobs} \subseteq Nat

VARIABLES
  config,      \* the configuration in memory
  configFile,  \* the configuration in its file
  site,        \* the file of a site: nginx accepts it, or refuses it
  archive,     \* the last archive that was created
  job,         \* the job under way, or the last one
  up,          \* the panel has started
  \* No code reads these.
  cut,         \* a restore has ended with its files neither whole nor taken back
  unlisted,    \* a restore has brought back a file of cron without its list
  saves, jobs

run == <<up, cut, unlisted>>
backupVars == <<config, configFile, site, archive, job, run, saves, jobs>>
allVars == <<scheduleVars, backupVars>>

Configs == [Settings -> Values \cup {Unset}]
NewConfig == [s \in Settings |-> Unset]
Sites == {"good", "bad"}

\* backupPaths: the directory of the panel comes first, the file of cron last.
BackupPaths == <<"config", "schedules", "site", "cron">>

Files == {"config", "schedules", "site", "cron"}

Disk == [f \in Files |->
           CASE f = "config" -> configFile
             [] f = "schedules" -> schedules
             [] f = "site" -> site
             [] f = "cron" -> cron]

\* The content of one file changes.
Put(f, content) ==
  /\ configFile' = IF f = "config" THEN content ELSE configFile
  /\ schedules' = IF f = "schedules" THEN content ELSE schedules
  /\ site' = IF f = "site" THEN content ELSE site
  /\ cron' = IF f = "cron" THEN content ELSE cron

\* A file that is absent in an archive is not touched by its extraction.
Nothing == [f \in Files |-> NoFile]

JobSteps == {"none", "create", "save", "extract", "test", "undo", "done", "failed"}

\* at is the next file, open that tar is writing it, bad that this tar has failed to write
\* a file, old the archive for the rollback.
\* before is the disk when the job began; no code reads it.
Idle(step) == [step |-> step, at |-> 1, open |-> FALSE, bad |-> FALSE, pack |-> Nothing,
               old |-> Nothing, before |-> Nothing]

NoJob == job.step \in {"none", "done", "failed"}
Free == up /\ NoJob /\ (NoRequest \/ load.overlap)

-----------------------------------------------------------------------------
(* The panel *)

\* saveConfigUnlocked, for any setting: the whole configuration is written from memory.
Save(setting, value) ==
  /\ up /\ saves < load.saves /\ (NoJob \/ load.overlap)
  /\ saves' = saves + 1
  /\ config' = [config EXCEPT ![setting] = value]
  /\ configFile' = config'
  /\ UNCHANGED <<scheduleVars, site, archive, job, run, jobs>>

\* The file of a site, written by whoever: a certificate that went away makes it bad.
EditSite(content) ==
  /\ saves < load.saves /\ (NoJob \/ load.overlap)
  /\ saves' = saves + 1
  /\ site' = content
  /\ UNCHANGED <<scheduleVars, config, configFile, archive, job, run, jobs>>

RequestBegins ==
  /\ up /\ (NoJob \/ load.overlap)
  /\ BeginRequest
  /\ UNCHANGED backupVars

-----------------------------------------------------------------------------
(* The jobs of handleBackups *)

Start(step, pack) ==
  /\ Free /\ jobs < load.jobs
  /\ jobs' = jobs + 1
  /\ job' = [Idle(step) EXCEPT !.pack = pack, !.before = Disk]
  /\ UNCHANGED <<scheduleVars, config, configFile, site, archive, run, saves>>

Create == Start("create", Nothing)

\* The archive exists, and its names were checked.
RestoreArchive == archive # Nothing /\ Start("save", archive)

Reading == job.step \in {"create", "save"}
Writing == job.step \in {"extract", "undo"}
AtEnd == job.at > Len(BackupPaths)
Advance(j) == [j EXCEPT !.at = @ + 1]

\* backupCommand: tar takes the next file as it is now.
ReadMember ==
  /\ Reading /\ ~AtEnd
  /\ LET f == BackupPaths[job.at] IN
       job' = Advance(IF job.step = "create" THEN [job EXCEPT !.pack[f] = Disk[f]]
                    ELSE [job EXCEPT !.old[f] = Disk[f]])
  /\ UNCHANGED <<scheduleVars, config, configFile, site, archive, run, saves, jobs>>

Created ==
  /\ job.step = "create" /\ AtEnd
  /\ archive' = job.pack
  /\ job' = Idle("done")
  /\ UNCHANGED <<scheduleVars, config, configFile, site, run, saves, jobs>>

SavedRollback ==
  /\ job.step = "save" /\ AtEnd
  /\ job' = [job EXCEPT !.step = "extract", !.at = 1]
  /\ UNCHANGED <<scheduleVars, config, configFile, site, archive, run, saves, jobs>>

Source == IF job.step = "undo" THEN job.old ELSE job.pack

\* Mutant: files that exist are kept.
Skipped_Existing(f) == Source[f] = NoFile \/ Disk[f] # NoFile

Skipped(f) == Source[f] = NoFile

\* tar removes a file and creates it anew.
OpenMember ==
  /\ Writing /\ ~AtEnd /\ ~job.open
  /\ LET f == BackupPaths[job.at] IN
       IF Skipped(f)
       THEN job' = Advance(job) /\ UNCHANGED <<configFile, schedules, site, cron>>
       ELSE Put(f, NoFile) /\ job' = [job EXCEPT !.open = TRUE]
  /\ UNCHANGED <<request, counters, config, archive, run, saves, jobs>>

\* A file that the panel has renamed onto the path meanwhile stays.
Untouched(f) == Disk[f] = NoFile

CloseMember ==
  /\ job.open
  /\ LET f == BackupPaths[job.at] IN
       IF Untouched(f) THEN Put(f, Source[f])
       ELSE UNCHANGED <<configFile, schedules, site, cron>>
  /\ job' = Advance([job EXCEPT !.open = FALSE])
  /\ UNCHANGED <<request, counters, config, archive, run, saves, jobs>>

\* A tar that cannot write a file leaves it as it is by then, and goes on or stops.
TarFails ==
  /\ Writing /\ ~AtEnd /\ faults < load.faults
  /\ faults' = faults + 1
  /\ \E at \in {job.at + 1, Len(BackupPaths) + 1} :
       job' = [job EXCEPT !.at = at, !.open = FALSE, !.bad = TRUE]
  /\ UNCHANGED <<schedules, cron, request, load, requests, stops, config, configFile, site,
                 archive, run, saves, jobs>>

Extracted ==
  /\ job.step = "extract" /\ AtEnd
  /\ job' = IF job.bad THEN [job EXCEPT !.step = "undo", !.at = 1, !.bad = FALSE]
                       ELSE [job EXCEPT !.step = "test"]
  /\ UNCHANGED <<scheduleVars, config, configFile, site, archive, run, saves, jobs>>

\* The archive that was extracted was made when cron had a file and the panel had no
\* list yet: its first request had failed, or the panel had stopped.
WithoutList == job.step = "test" /\ job.pack["schedules"] = NoFile /\ job.pack["cron"] # NoFile

\* nginx -t, sshd -t and the reload; sshd may refuse whatever the site is.
Test ==
  /\ job.step = "test"
  /\ \/ /\ job' = [job EXCEPT !.step = "undo", !.at = 1]
        /\ UNCHANGED unlisted
     \/ /\ site # "bad"
        /\ job' = Idle("done")
        /\ unlisted' = (unlisted \/ WithoutList)
  /\ UNCHANGED <<scheduleVars, config, configFile, site, archive, up, cut, saves, jobs>>

UndoneRestore ==
  /\ job.step = "undo" /\ AtEnd
  /\ job' = Idle("failed")
  /\ cut' = (cut \/ job.bad)
  /\ UNCHANGED <<scheduleVars, config, configFile, site, archive, up, unlisted, saves, jobs>>

\* A tar that reads fails, or the time of runShell is up: it kills the shell, and waits for
\* the tar that the shell had started.  Nothing is taken back.
JobFails ==
  /\ Reading \/ job.step = "test" \/ (job.step = "extract" /\ AtEnd)
  /\ archive' \in {archive} \cup IF job.step = "create" /\ AtEnd THEN {job.pack} ELSE {}
  /\ job' = Idle("failed")
  /\ cut' = (cut \/ job.step \in {"extract", "test"})
  /\ UNCHANGED <<scheduleVars, config, configFile, site, up, unlisted, saves, jobs>>

-----------------------------------------------------------------------------
(* Stops of the panel *)

\* loadConfig: a panel whose configuration is absent is as before its setup, one
\* whose configuration cannot be parsed does not start.
\* An archive that is cut is refused by the check of its names.
StopPanel ==
  /\ up /\ Stop
  /\ job' = Idle("none") /\ cut' = (cut \/ Writing) /\ unlisted' = (unlisted \/ WithoutList)
  /\ IF configFile # NoFile THEN config' = configFile /\ up' = TRUE
                            ELSE config' = NewConfig /\ up' \in BOOLEAN
  /\ UNCHANGED <<configFile, site, archive, saves, jobs>>

-----------------------------------------------------------------------------

BackupInit ==
  /\ ScheduleInit
  /\ config \in {[s \in Settings |-> v] : v \in Values}
  /\ configFile = config
  /\ site = NoFile /\ archive = Nothing
  /\ job = Idle("none") /\ up = TRUE /\ cut = FALSE /\ unlisted = FALSE
  /\ saves = 0 /\ jobs = 0

Panel ==
  \/ RequestBegins
  \/ \E s \in Settings, v \in Values : Save(s, v)
  \/ \E c \in Sites \cup {NoFile} : EditSite(c)

TaskRequest ==
  \/ WriteCron /\ UNCHANGED backupVars
  \/ WriteList /\ UNCHANGED backupVars
  \/ UndoCron /\ UNCHANGED backupVars
  \/ WriteFails /\ UNCHANGED backupVars

BackupJob ==
  \/ Create \/ RestoreArchive
  \/ ReadMember \/ Created \/ SavedRollback
  \/ OpenMember \/ CloseMember \/ Extracted \/ Test \/ UndoneRestore \/ JobFails

BackupNext == Panel \/ TaskRequest \/ BackupJob \/ TarFails \/ StopPanel

BackupSpec == BackupInit /\ [][BackupNext]_allVars

-----------------------------------------------------------------------------
(* Properties *)

Packs == [config : Configs \cup {NoFile}, schedules : Lists \cup {NoFile},
          site : Sites \cup {NoFile}, cron : Lines \cup {NoFile}]

BackupTypeOK ==
  /\ ScheduleTypeOK
  /\ config \in Configs /\ configFile \in Configs \cup {NoFile}
  /\ site \in Sites \cup {NoFile}
  /\ archive \in Packs
  /\ job.step \in JobSteps /\ {job.open, job.bad, up, cut, unlisted} \subseteq BOOLEAN
  /\ {job.pack, job.old, job.before} \subseteq Packs
  /\ saves \in 0..load.saves /\ jobs \in 0..load.jobs

Apart == ~load.overlap

\* With no request and no job under way, cron runs the enabled tasks of the list and
\* nothing else, also after a request that failed, after a restore, and after one that
\* was taken back (handleSchedules, handleBackups, frontend/src/main.js:366): while the
\* panel has not stopped in between, no second write failed, every restore that was not
\* whole was taken back, and no archive without a list was restored, which leaves the list
\* there is beside the cron file of another.
ListedRuns ==
  Apart /\ NoJob /\ NoRequest /\ stops = 0 /\ faults <= 1 /\ ~cut /\ ~unlisted => CronFollows

\* Stops and failures never add up: cron differs from the list in one task at most,
\* because every request writes all lines from the list (handleSchedules); but a restore
\* that is cut, or one of an archive without a list, writes one file and not the other.
CronOneAhead == Apart /\ NoJob /\ ~cut /\ ~unlisted => OneAhead

\* Unless a restore is cut, the panel starts with the configuration that it was given: only
\* a job that is writing leaves the file absent for a moment (restoreCommand, loadConfig).
StaysSetUp == ~cut => up /\ config # NewConfig /\ (configFile = NoFile => Writing)

\* A request that is answered well leaves cron and the list in agreement, and every other
\* task as it was in both, whatever failed or stopped before it (handleSchedules).
AcknowledgedInstalled == [][Apart => Acknowledged]_allVars

\* A restore that is reported as done has every file of the archive on the disk
\* (restoreCommand, frontend/src/main.js:386).
Completes == job.step = "test" /\ job'.step = "done" => \A f \in Files : archive[f] # NoFile => Disk'[f] = archive[f]

\* A restore that is cut is one whose time is up once it has written, or whose rollback fails
\* to write a file: the script has nothing more to take it back with.
Cut == job.step \in {"extract", "test"} \/ (job.step = "undo" /\ job.bad)

\* A restore that fails otherwise leaves every file that was there as it was; the files that
\* it added stay (restoreCommand).
TakenBack ==
  job.step \in {"save", "extract", "test", "undo"} /\ job'.step = "failed" /\ ~Cut
    => \A f \in Files : job.before[f] # NoFile => Disk'[f] = job.before[f]

\* Where nothing else happens meanwhile, a restore is complete when it is reported as
\* done, and taken back when it is reported as failed and was not cut, in every file of the
\* archive: also when nginx refuses it, or tar fails to write some of its files.
AllOrNothing == [][Apart => Completes /\ TakenBack]_allVars

\* The list of tasks and the file of cron agree, as far as faults and stops let them, and
\* no restore takes the configuration away (handleSchedules, handleBackups).
Consistent ==
  /\ BackupTypeOK
  /\ ListedRuns
  /\ CronOneAhead
  /\ StaysSetUp

=============================================================================
