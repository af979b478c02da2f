------------------------------ MODULE Schedules ------------------------------
(***************************************************************************)
(* Scheduled tasks: the list schedules.json of the panel, and the file in  *)
(* /etc/cron.d that cron runs.                                             *)
(*                                                                         *)
(* handleSchedules holds scheduleMu from its first read to its answer, so  *)
(* one request is under way at a time.  It writes the file of cron first,  *)
(* the list second, and takes cron back when the second write fails.       *)
(* Backups composes these steps with the jobs that archive and restore the *)
(* two files.                                                              *)
(***************************************************************************)
EXTENDS Naturals, FiniteSets

CONSTANTS
  Ids,          \* random names of tasks
  Commands,     \* what a task runs, and when
  NoFile,       \* the content of a file that is absent or cannot be parsed
  NoTask,         \* no task, no line
  Loads         \* the loads of the panel that are checked

Entry == [command : Commands, enabled : BOOLEAN]
Lists == [Ids -> Entry \cup {NoTask}]
Lines == [Ids -> Commands \cup {NoTask}]
NoTasks == [i \in Ids |-> NoTask]

\* A load says which tasks there may be, what they may run, and the bounds on
\* requests, on writes that fail and on stops of the panel.
ASSUME SchedulesAssumption ==
  /\ NoTask \notin Commands /\ NoFile \notin Lists \cup Lines
  /\ \A l \in Loads : l.ids \subseteq Ids /\ l.commands \subseteq Commands
                     /\ {l.requests, l.faults, l.stops} \subseteq Nat

VARIABLES
  schedules,  \* the list, as the file has it
  cron,       \* the line that the file of cron has for each task
  request,    \* the request under way, or the last one
  load,       \* one of Loads
  requests, faults, stops

counters == <<load, requests, faults, stops>>
scheduleVars == <<schedules, cron, request, counters>>

Steps == {"none", "cron", "list", "undo", "ok", "failed"}
Resting == {"none", "ok", "failed"}

\* list and previous are the variables schedules and previous of the handler.
Request == [step : Steps, id : Ids \cup {NoTask}, list : Lists, previous : Lists]

Answer(step) == request' = [request EXCEPT !.step = step]
NoRequest == request.step \in Resting

\* What cron runs.
Runs == IF cron = NoFile THEN NoTasks ELSE cron

-----------------------------------------------------------------------------
(* handleSchedules *)

\* A file that cannot be read or parsed is an empty list.
ReadList == IF schedules = NoFile THEN NoTasks ELSE schedules

\* Mutant: the list starts from the new entry alone.
Changed_Alone(id, entry) == [NoTasks EXCEPT ![id] = entry]

Changed(id, entry) == [ReadList EXCEPT ![id] = entry]

Locked(id, entry) ==
  /\ NoRequest /\ requests < load.requests
  /\ requests' = requests + 1
  /\ request' = [step |-> "cron", id |-> id, list |-> Changed(id, entry), previous |-> ReadList]
  /\ UNCHANGED <<schedules, cron, load, faults, stops>>

\* The name of a new task is random, and fresh.
Add(id, command) ==
  ReadList[id] = NoTask /\ Locked(id, [command |-> command, enabled |-> TRUE])

Listed(id) == ReadList[id] # NoTask

Update(id, command) == Listed(id) /\ Locked(id, [ReadList[id] EXCEPT !.command = command])

Toggle(id) == Listed(id) /\ Locked(id, [ReadList[id] EXCEPT !.enabled = ~@])

Deleted == NoTask

Delete(id) == Listed(id) /\ Locked(id, Deleted)

\* writeCronFile: one line for each enabled task.
CronFile(list) ==
  [i \in Ids |-> IF list[i] # NoTask /\ list[i].enabled THEN list[i].command ELSE NoTask]

WriteCron ==
  /\ request.step = "cron"
  /\ cron' = CronFile(request.list)
  /\ Answer("list")
  /\ UNCHANGED <<schedules, counters>>

WriteList ==
  /\ request.step = "list"
  /\ schedules' = request.list
  /\ Answer("ok")
  /\ UNCHANGED <<cron, counters>>

Undone == CronFile(request.previous)

UndoCron ==
  /\ request.step = "undo"
  /\ cron' = Undone
  /\ Answer("failed")
  /\ UNCHANGED <<schedules, counters>>

\* A write that fails leaves its file as it was; the handler does not see it in "undo".
WriteFails ==
  /\ request.step \in {"cron", "list", "undo"} /\ faults < load.faults
  /\ faults' = faults + 1
  /\ Answer(IF request.step = "list" THEN "undo" ELSE "failed")
  /\ UNCHANGED <<schedules, cron, load, requests, stops>>

\* The panel stops and starts again.
Stop ==
  /\ stops < load.stops
  /\ stops' = stops + 1
  /\ Answer("none")
  /\ UNCHANGED <<schedules, cron, load, requests, faults>>

-----------------------------------------------------------------------------

ScheduleInit ==
  /\ schedules = NoFile /\ cron = NoFile
  /\ request = [step |-> "none", id |-> NoTask, list |-> NoTasks, previous |-> NoTasks]
  /\ load \in Loads /\ requests = 0 /\ faults = 0 /\ stops = 0

BeginRequest ==
  \E id \in load.ids :
    \/ \E command \in load.commands : Add(id, command) \/ Update(id, command)
    \/ Toggle(id) \/ Delete(id)

-----------------------------------------------------------------------------
(* What requests keep; Backups states the properties *)

ScheduleTypeOK ==
  /\ schedules \in Lists \cup {NoFile} /\ cron \in Lines \cup {NoFile} /\ request \in Request
  /\ load \in Loads
  /\ requests \in 0..load.requests /\ faults \in 0..load.faults /\ stops \in 0..load.stops

\* cron runs the enabled tasks of the list and nothing else.
CronFollows == Runs = CronFile(ReadList)

\* cron differs from the list in one task at most.
OneAhead == Cardinality({i \in Ids : Runs[i] # CronFile(ReadList)[i]}) <= 1

\* A request that is answered well leaves cron and the list in agreement, and
\* every other task as it was in both.
Acknowledged ==
  request.step # "ok" /\ request'.step = "ok"
    => /\ cron' = CronFile(schedules')
       /\ \A i \in Ids \ {request.id} : schedules'[i] = ReadList[i]

=============================================================================
