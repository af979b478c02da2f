------------------------------ MODULE AuditLog ------------------------------
(***************************************************************************)
(* The audit log: audit.jsonl, where every handler and job appends a line, *)
(* and its archives audit.jsonl.1 (the newest) to audit.jsonl.Archives.    *)
(*                                                                         *)
(* Appends hold auditMu, which is one mutex of the panel and another one   *)
(* of `kunpanel firewall`, the process of the command line that appends to *)
(* the same files.  The pages of the log are read without it, one file     *)
(* after the other.  A rotation moves the files one by one, a process may  *)
(* stop between any two calls, and a rename may fail unnoticed.  The first *)
(* start of either after the upgrade rewrites the files of older versions, *)
(* whose lines hold what was typed ("raw" lines).                          *)
(*                                                                         *)
(* A line is written, and a file is sanitized, in one step: what another   *)
(* process may do to the file between the calls of the two is left out,    *)
(* and nothing is said of the files once two processes worked together.    *)
(*                                                                         *)
(* Lines are numbered in the order in which they are written, and have all *)
(* the same length.                                                        *)
(***************************************************************************)
EXTENDS Integers, FiniteSets, SequencesExt

CONSTANTS
  Writers,      \* requests, jobs and commands that append a line
  Commands,     \* those of them that are commands
  Archives,     \* maxAuditArchives
  Logs          \* the logs that are checked, see Log

\* The lines that fit in maxAuditBytes, the entries of a page, the lines that
\* older versions left, whether a rename may fail, whether the command line is
\* used, and the bounds on the lines that are ever written and on stops.
Log == [maxFile : Nat \ {0}, limit : Nat \ {0}, legacy : Nat, renameFails : BOOLEAN, commands : BOOLEAN,
        lines : Nat, crashes : Nat]

ASSUME AuditLogAssumption ==
  /\ Archives \in Nat \ {0}
  /\ Logs \subseteq Log /\ \A l \in Logs : l.legacy <= l.lines

VARIABLES
  files,    \* the lines of the files that exist, by number; 0 is audit.jsonl
  marker,   \* .audit-v2-migrated exists
  phase,    \* each process is starting, migrating or serving
  at,       \* the file that its migration rewrites next, or None
  writers,  \* the step of each append
  reader,   \* the page being read
  count,    \* lines written so far
  log,      \* one of Logs
  crashes,
  together  \* history: the panel and a command have worked at the files at the same time

auditEnv == <<log, crashes>>
auditVars == <<files, marker, phase, at, writers, reader, count, auditEnv, together>>

Processes == {"panel", "command"}
ProcessOf(w) == IF w \in Commands THEN "command" ELSE "panel"

Line == [id : 1 .. log.lines, raw : BOOLEAN]
Numbers == 0 .. Archives

\* The lines of all files, the oldest first.
LinesOf(number) == IF number \in DOMAIN files THEN files[number] ELSE <<>>
Retained == FlattenSeq([i \in 1 .. Archives + 1 |-> LinesOf(Archives + 1 - i)])

LastOf(lines, n) == SubSeq(lines, IF Len(lines) > n THEN Len(lines) - n + 1 ELSE 1, Len(lines))

-----------------------------------------------------------------------------
(* migrateLegacyAuditLogs, of each process *)

None == -1
FirstMigrated == Archives

Idle == [step |-> "idle", number |-> 0]

Working(p) == phase[p] = "migrate" \/ \E w \in Writers : ProcessOf(w) = p /\ writers[w] # Idle

\* p begins to work at the files.
Joins(p) == together' = (together \/ \E q \in Processes \ {p} : Working(q))

Boot(p) ==
  /\ phase[p] = "start" /\ (p = "command" => log.commands)
  /\ phase' = [phase EXCEPT ![p] = IF marker THEN "serve" ELSE "migrate"]
  /\ at' = [at EXCEPT ![p] = IF marker THEN None ELSE FirstMigrated]
  /\ IF marker THEN UNCHANGED together ELSE Joins(p)
  /\ UNCHANGED <<files, marker, writers, reader, count, auditEnv>>

\* sanitizeAuditFile, which replaces a file by its sanitized copy.
Sanitize(p) ==
  /\ phase[p] = "migrate" /\ at[p] # None
  /\ at' = [at EXCEPT ![p] = @ - 1]
  /\ files' = [number \in DOMAIN files |->
                 IF number = at[p] THEN [i \in DOMAIN files[number] |-> [files[number][i] EXCEPT !.raw = FALSE]]
                                   ELSE files[number]]
  /\ reader' = [reader EXCEPT !.moved = @ \/ reader.step = "scan"]
  /\ UNCHANGED <<marker, phase, writers, count, auditEnv, together>>

EndsMigration(p) == phase' = [phase EXCEPT ![p] = "serve"] /\ at' = [at EXCEPT ![p] = None]

\* A file that cannot be read or written ends the migration; the process goes on all the same.
AbandonMigration(p) ==
  /\ phase[p] = "migrate"
  /\ EndsMigration(p)
  /\ UNCHANGED <<files, marker, writers, reader, count, auditEnv, together>>

FinishMigration(p) ==
  /\ phase[p] = "migrate" /\ at[p] = None
  /\ marker' = TRUE
  /\ EndsMigration(p)
  /\ UNCHANGED <<files, writers, reader, count, auditEnv, together>>

-----------------------------------------------------------------------------
(* appendAuditLine and rotateAuditLogs *)

WriterSteps == {"idle", "remove", "rename", "write"}

Goto(w, step, number) == writers' = [writers EXCEPT ![w] = [step |-> step, number |-> number]]

\* Mutant: appends do not wait for each other.
Unlocked_Always(p) == TRUE

\* auditMu, which every process has for itself.
Unlocked(p) == \A w \in Writers : ProcessOf(w) = p => writers[w] = Idle

Full(lines) == Len(lines) + 1 > log.maxFile

\* Mutant: a rotation begins with the archive before the last.
Oldest_OneLess == Archives - 1

Oldest == Archives

Rotating == \E w \in Writers : writers[w].step \in {"remove", "rename"}

AppendLine(w) ==
  LET p == ProcessOf(w) IN
  /\ phase[p] = "serve" /\ writers[w] = Idle /\ Unlocked(p)
  /\ count < log.lines
  /\ IF 0 \in DOMAIN files /\ Full(files[0]) THEN Goto(w, "remove", Oldest) ELSE Goto(w, "write", 0)
  /\ Joins(p)
  /\ UNCHANGED <<files, marker, phase, at, reader, count, auditEnv>>

Without(number) == [n \in DOMAIN files \ {number} |-> files[n]]

RemoveArchive(w) ==
  LET number == writers[w].number IN
  /\ writers[w].step = "remove"
  /\ files' = Without(number)
  /\ Goto(w, "rename", number)
  /\ reader' = [reader EXCEPT !.moved = reader.step = "scan"]
  /\ UNCHANGED <<marker, phase, at, count, auditEnv, together>>

Renamed(number) ==
  [n \in (DOMAIN files \ {number - 1}) \cup {number} |-> IF n = number THEN files[number - 1] ELSE files[n]]

RenameArchive(w) ==
  LET number == writers[w].number IN
  /\ writers[w].step = "rename"
  /\ \/ number - 1 \in DOMAIN files /\ files' = Renamed(number)
     \/ number - 1 \notin DOMAIN files /\ UNCHANGED files
     \/ log.renameFails /\ UNCHANGED files
  /\ IF number > 1 THEN Goto(w, "remove", number - 1) ELSE Goto(w, "write", 0)
  /\ UNCHANGED <<marker, phase, at, reader, count, auditEnv, together>>

\* A command ends with its line.
Ends(p) == phase' = IF p = "command" THEN [phase EXCEPT ![p] = "start"] ELSE phase

\* The file is opened, and created when it does not exist; a failure loses the line.
WriteLine(w) ==
  /\ writers[w].step = "write" /\ count < log.lines
  /\ Goto(w, "idle", 0)
  /\ \/ /\ files' = [n \in DOMAIN files \cup {0} |->
                       IF n = 0 THEN Append(LinesOf(0), [id |-> count + 1, raw |-> FALSE]) ELSE files[n]]
        /\ count' = count + 1
     \/ UNCHANGED <<files, count>>
  /\ Ends(ProcessOf(w))
  /\ UNCHANGED <<marker, at, reader, auditEnv, together>>

\* `kunpanel firewall list`, and a port that is not opened, append no line.
NoLine ==
  /\ phase["command"] = "serve" /\ Unlocked("command")
  /\ Ends("command")
  /\ UNCHANGED <<files, marker, at, writers, reader, count, auditEnv, together>>

-----------------------------------------------------------------------------
(* readRecentAuditEntries *)

\* Mutant: the oldest entry of the ring is taken for its first.
RingStart_Zero(ring, limit) == 0

RingStart(ring, limit) == IF ring.count = limit THEN ring.next ELSE 0

\* scanAuditFile keeps the last entries of a file in a ring.
ScanAuditFile(lines, limit) ==
  LET Put(ring, line) ==
        [slots |-> [ring.slots EXCEPT ![ring.next] = line],
         next  |-> (ring.next + 1) % limit,
         count |-> IF ring.count < limit THEN ring.count + 1 ELSE ring.count]
      Empty == [slots |-> [i \in 0 .. limit - 1 |-> [id |-> 0, raw |-> FALSE]], next |-> 0, count |-> 0]
      ring == FoldLeft(Put, Empty, lines) IN
  [i \in 1 .. ring.count |-> ring.slots[(RingStart(ring, limit) + i - 1) % limit]]

NewestFirst(entries) == Reverse(entries)

\* No code reads newest, expected and moved: the newest line when the page was
\* asked for, the page that the files held when audit.jsonl was read, and
\* whether files have moved or been replaced meanwhile.
NoPage == [step |-> "idle", number |-> 0, page |-> <<>>, expected |-> <<>>, newest |-> 0, moved |-> FALSE]

ReadRecent ==
  /\ phase["panel"] = "serve" /\ reader.step = "idle"
  /\ reader' = [NoPage EXCEPT !.step = "scan", !.newest = IF Retained = <<>> THEN 0 ELSE Last(Retained).id,
                               !.moved = Rotating]
  /\ UNCHANGED <<files, marker, phase, at, writers, count, auditEnv, together>>

More == reader.number <= Archives /\ Len(reader.page) < log.limit

ScanNext ==
  /\ reader.step = "scan" /\ More
  /\ reader' = [reader EXCEPT !.number = @ + 1,
                  !.expected = IF reader.number = 0 THEN Reverse(LastOf(Retained, log.limit)) ELSE @,
                  !.page = @ \o NewestFirst(ScanAuditFile(LinesOf(reader.number), log.limit - Len(@)))]
  /\ UNCHANGED <<files, marker, phase, at, writers, count, auditEnv, together>>

ShowPage ==
  /\ reader.step = "scan" /\ ~More
  /\ reader' = NoPage
  /\ UNCHANGED <<files, marker, phase, at, writers, count, auditEnv, together>>

-----------------------------------------------------------------------------

\* The panel stops and is started again, or a command is ended.
Crash(p) ==
  /\ phase[p] # "start" /\ crashes < log.crashes /\ crashes' = crashes + 1
  /\ phase' = [phase EXCEPT ![p] = "start"] /\ at' = [at EXCEPT ![p] = None]
  /\ writers' = [w \in Writers |-> IF ProcessOf(w) = p THEN Idle ELSE writers[w]]
  /\ reader' = IF p = "panel" THEN NoPage ELSE reader
  /\ UNCHANGED <<files, marker, count, log, together>>

Raw(first, last) == [i \in 1 .. last - first + 1 |-> [id |-> first + i - 1, raw |-> TRUE]]

\* Older versions have left their lines in audit.jsonl and one archive, or none.
AuditInit ==
  /\ log \in Logs
  /\ \E k \in 0 .. log.legacy :
       files = [n \in {m \in {0, 1} : IF m = 0 THEN k < log.legacy ELSE k > 0} |->
                  IF n = 0 THEN Raw(k + 1, log.legacy) ELSE Raw(1, k)]
  /\ marker = FALSE
  /\ phase = [p \in Processes |-> "start"] /\ at = [p \in Processes |-> None]
  /\ writers = [w \in Writers |-> Idle]
  /\ reader = NoPage
  /\ count = log.legacy /\ crashes = 0 /\ together = FALSE

AuditNext ==
  \/ \E p \in Processes : Boot(p) \/ Sanitize(p) \/ AbandonMigration(p) \/ FinishMigration(p) \/ Crash(p)
  \/ \E w \in Writers : AppendLine(w) \/ RemoveArchive(w) \/ RenameArchive(w) \/ WriteLine(w)
  \/ NoLine
  \/ ReadRecent \/ ScanNext \/ ShowPage

AuditSpec == AuditInit /\ [][AuditNext]_auditVars

-----------------------------------------------------------------------------
(* Properties *)

AuditTypeOK ==
  /\ DOMAIN files \subseteq Numbers
  /\ \A n \in DOMAIN files : files[n] \in Seq(Line)
  /\ marker \in BOOLEAN /\ phase \in [Processes -> {"start", "migrate", "serve"}]
  /\ at \in [Processes -> -1 .. Archives]
  /\ writers \in [Writers -> [step : WriterSteps, number : Numbers]]
  /\ reader.step \in {"idle", "scan"} /\ reader.number \in 0 .. Archives + 1
  /\ count \in 0 .. log.lines /\ log \in Logs /\ crashes \in 0 .. log.crashes /\ together \in BOOLEAN

\* Where no rename fails, a file never grows beyond its limit (maxAuditBytes), whatever
\* appends come together and wherever the panel stops; one of an older version may.
Sized ==
  ~log.renameFails =>
    \A n \in DOMAIN files : Len(files[n]) <= log.maxFile \/ \A i \in DOMAIN files[n] : files[n][i].id <= log.legacy

\* The lines that there are, by number.
Ids == UNION {{files[n][i].id : i \in DOMAIN files[n]} : n \in DOMAIN files}

\* Where no rename fails, rotations drop the oldest lines only, in their order:
\* what is left is the end of the log without a gap, after any stop between two
\* calls of a rotation.
RetainedSuffix == ~log.renameFails => \A id \in Ids : id .. count \subseteq Ids

\* Where no rename fails and while neither the panel nor a command has been stopped, lines are
\* dropped only when every archive is used: an archive that is not the last is never removed.  That
\* ends when the panel and a command have appended together, each under a mutex of its own.
DropsWhenFull ==
  [][~together /\ ~log.renameFails /\ crashes = 0 /\ ~(Ids \subseteq Ids') => DOMAIN files = Numbers]_auditVars

\* Even with renames that fail, the lines stay in their order, each one once.
Ordered ==
  /\ \A id \in Ids : id <= count
  /\ \A n \in DOMAIN files : \A i, j \in DOMAIN files[n] : i < j => files[n][i].id < files[n][j].id
  /\ \A m, n \in DOMAIN files : m < n =>
       \A i \in DOMAIN files[n], j \in DOMAIN files[m] : files[n][i].id < files[m][j].id

\* When the marker says that the migration is done no file holds a raw line.
MigratedClean == marker => \A n \in DOMAIN files : \A i \in DOMAIN files[n] : ~files[n][i].raw

\* A page that no rotation disturbed shows the newest lines of all files, the
\* newest first.
PageExact == reader.step = "scan" /\ ~More /\ ~reader.moved => reader.page = reader.expected

\* Even a page that a rotation disturbed begins with the newest line of the
\* moment it was asked for, or a newer one.
NewestShown == reader.page # <<>> => Head(reader.page).id >= reader.newest

\* The files of the log hold its end (appendAuditLine, migrateLegacyAuditLogs): in order, within
\* their sizes, without a gap, and nothing raw once they are migrated, whether the panel or commands
\* append and migrate, and wherever they are stopped.  That ends when the panel and a command have
\* worked at the files together: auditMu does not keep two processes apart.
Consistent ==
  /\ AuditTypeOK
  /\ ~together => Sized /\ RetainedSuffix /\ Ordered /\ MigratedClean

\* A page is true, whatever rotates while it is read (readRecentAuditEntries): no longer than was
\* asked for, exact if nothing did, and, unless the panel and a command have appended together,
\* never without the newest line.
PagesTrue ==
  /\ reader.page \in Seq(Line) /\ Len(reader.page) <= log.limit
  /\ PageExact
  /\ ~together => NewestShown

=============================================================================
