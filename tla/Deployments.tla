----------------------------- MODULE Deployments -----------------------------
(***************************************************************************)
(* The deployment center: projects of docker compose or git, each with a   *)
(* metadata file, a compose file and a source directory, and the jobs that *)
(* act on its containers and its source.                                   *)
(*                                                                         *)
(* Requests hold deploymentMu for as long as they last, their jobs do not: *)
(* a job reads the files of a project when it gets a slot.  Writes and     *)
(* commands may fail, and the panel may stop between any two calls.        *)
(***************************************************************************)
EXTENDS Naturals, FiniteSets

CONSTANTS
  Projects,   \* project ids
  Jobs,       \* jobs, each run again and again
  Centers     \* the centers that are checked, see Center

\* What may happen at a center: its projects and jobs, whether a request comes
\* while a job is under way, whether writes, removals and docker may fail, and
\* the bounds on requests and on stops of the panel.
Center == [projects : SUBSET Projects, jobs : SUBSET Jobs, overlap : BOOLEAN, failures : BOOLEAN,
           requests : Nat, crashes : Nat]

ASSUME DeploymentsAssumption == Projects # {} /\ Centers \subseteq Center

VARIABLES
  meta,     \* <id>.json: what the project lists as its compose file
  compose,  \* the version of <id>/docker-compose.yml, 0 without one
  source,   \* the projects that have a directory <id>/source
  running,  \* the projects whose containers run
  request,  \* the request that holds deploymentMu
  jobs,
  center,   \* one of Centers
  count, crashes

files == <<meta, compose, source>>
env == <<center, count, crashes>>
vars == <<files, running, request, jobs, env>>

Versions == 1 .. 2
Unlisted == [listed |-> FALSE, compose |-> 0]
Listed(version) == [listed |-> TRUE, compose |-> version]
Metas == {Unlisted} \cup {Listed(v) : v \in 0 .. 2}

JobActions == {"up", "down", "restart", "git-clone", "git-pull"}
Actions == JobActions \cup {"create", "update", "delete"}
Requests == [step : {"idle", "compose", "meta", "down", "remove", "forget", "submit"},
             action : Actions, project : Projects, version : 0 .. 2]
JobStates == [step : {"idle", "queued", "found"}, action : JobActions, project : Projects]

\* The answer of a request leaves its fields behind.
Answer == request' = [request EXCEPT !.step = "idle"]
Go(step) == request' = [request EXCEPT !.step = step]

JobsIdle == \A j \in Jobs : jobs[j].step = "idle"

-----------------------------------------------------------------------------
(* handleDeployments; a request that is refused changes nothing and is left out *)

Enter(action, p, version, step) ==
  /\ request.step = "idle" /\ count < center.requests
  /\ center.overlap \/ JobsIdle
  /\ request' = [step |-> step, action |-> action, project |-> p, version |-> version]
  /\ count' = count + 1
  /\ UNCHANGED <<files, running, jobs, center, crashes>>

\* fileExists is false for directories: only the metadata file counts.
Free(p) == ~meta[p].listed

Create(p, version) == Free(p) /\ Enter("create", p, version, "compose")
Update(p, version) == meta[p].listed /\ Enter("update", p, version, "compose")
GitClone(p) == Free(p) /\ Enter("git-clone", p, 0, "meta")
GitPull(p) == meta[p].listed /\ p \in source /\ Enter("git-pull", p, 0, "submit")

Compose(p, action) ==
  /\ action \in {"up", "down", "restart"}
  /\ meta[p].listed /\ compose[p] # 0
  /\ Enter(action, p, 0, "submit")

Delete(p) == meta[p].listed /\ Enter("delete", p, 0, IF compose[p] # 0 THEN "down" ELSE "remove")

\* Mutant: the compose file is written for new projects only.
WrittenCompose_New == IF request.action = "create" THEN request.version ELSE compose[request.project]

WrittenCompose == request.version

\* writeDeployment, first the compose file and then the metadata.
WriteCompose ==
  /\ request.step = "compose"
  /\ \/ compose' = [compose EXCEPT ![request.project] = WrittenCompose] /\ Go("meta")
     \/ center.failures /\ Answer /\ UNCHANGED compose
  /\ UNCHANGED <<meta, source, running, jobs, env>>

WriteMeta ==
  /\ request.step = "meta"
  /\ \/ /\ meta' = [meta EXCEPT ![request.project] = Listed(request.version)]
        /\ IF request.action = "git-clone" THEN Go("submit") ELSE Answer
     \/ center.failures /\ Answer /\ UNCHANGED meta
  /\ UNCHANGED <<compose, source, running, jobs, env>>

\* The registry may refuse the job, which the request answers as well.
Submit ==
  /\ request.step = "submit"
  /\ \/ \E j \in Jobs :
          /\ jobs[j].step = "idle"
          /\ jobs' = [jobs EXCEPT ![j] =
               [step |-> "queued", action |-> request.action, project |-> request.project]]
     \/ UNCHANGED jobs
  /\ Answer
  /\ UNCHANGED <<files, running, env>>

\* Mutant: containers that do not stop are left to the operator.
AfterDownFails_Remove == "remove"

\* The project is kept.
AfterDownFails == "idle"

Down ==
  /\ request.step = "down"
  /\ \/ running' = running \ {request.project} /\ Go("remove")
     \/ center.failures /\ Go(AfterDownFails) /\ UNCHANGED running
  /\ UNCHANGED <<files, jobs, env>>

\* A removal that fails may have removed a part.
RemoveDir ==
  LET p == request.project IN
  /\ request.step = "remove"
  /\ \/ compose' = [compose EXCEPT ![p] = 0] /\ source' = source \ {p} /\ Go("forget")
     \/ center.failures /\ compose' \in {compose, [compose EXCEPT ![p] = 0]} /\ UNCHANGED source /\ Answer
  /\ UNCHANGED <<meta, running, jobs, env>>

RemoveMeta ==
  /\ request.step = "forget"
  /\ \/ meta' = [meta EXCEPT ![request.project] = Unlisted]
     \/ center.failures /\ UNCHANGED meta
  /\ Answer
  /\ UNCHANGED <<compose, source, running, jobs, env>>

-----------------------------------------------------------------------------
(* The jobs *)

\* The command looks for its files when it begins.
Finds(j) ==
  LET p == jobs[j].project IN
  CASE jobs[j].action = "git-clone" -> p \notin source
    [] jobs[j].action = "git-pull" -> p \in source
    [] OTHER -> compose[p] # 0

BeginJob(j) ==
  /\ jobs[j].step = "queued"
  /\ jobs' = [jobs EXCEPT ![j].step = IF Finds(j) THEN "found" ELSE "idle"]
  /\ UNCHANGED <<files, running, request, env>>

\* A clone makes the directories above its own; a command that fails changes
\* nothing.
EndJob(j) ==
  LET p == jobs[j].project  action == jobs[j].action IN
  /\ jobs[j].step = "found"
  /\ jobs' = [jobs EXCEPT ![j].step = "idle"]
  /\ \/ /\ source' = IF action = "git-clone" THEN source \cup {p} ELSE source
        /\ running' = CASE action = "up" -> running \cup {p} [] action = "down" -> running \ {p} [] OTHER -> running
     \/ UNCHANGED <<source, running>>
  /\ UNCHANGED <<meta, compose, request, env>>

\* The panel stops, and its requests and jobs with it.
Crash ==
  /\ crashes < center.crashes /\ crashes' = crashes + 1
  /\ Answer
  /\ jobs' = [j \in Jobs |-> [jobs[j] EXCEPT !.step = "idle"]]
  /\ UNCHANGED <<files, running, center, count>>

-----------------------------------------------------------------------------

Init ==
  /\ meta = [p \in Projects |-> Unlisted] /\ compose = [p \in Projects |-> 0]
  /\ source = {} /\ running = {}
  /\ LET p == CHOOSE p \in Projects : TRUE IN
       /\ request = [step |-> "idle", action |-> "create", project |-> p, version |-> 0]
       /\ jobs = [j \in Jobs |-> [step |-> "idle", action |-> "up", project |-> p]]
  /\ center \in Centers /\ count = 0 /\ crashes = 0

Next ==
  \/ \E p \in center.projects :
       \/ \E v \in Versions : Create(p, v) \/ Update(p, v)
       \/ GitClone(p) \/ GitPull(p) \/ Delete(p)
       \/ \E action \in Actions : Compose(p, action)
  \/ WriteCompose \/ WriteMeta \/ Submit \/ Down \/ RemoveDir \/ RemoveMeta
  \/ \E j \in Jobs : BeginJob(j) \/ EndJob(j)
  \/ Crash

Spec == Init /\ [][Next]_vars

-----------------------------------------------------------------------------
(* Properties *)

TypeOK ==
  /\ meta \in [Projects -> Metas] /\ compose \in [Projects -> 0 .. 2]
  /\ source \subseteq Projects /\ running \subseteq Projects
  /\ request \in Requests /\ jobs \in [Jobs -> JobStates]
  /\ center \in Centers /\ count \in 0 .. center.requests /\ crashes \in 0 .. center.crashes

AtRest == request.step = "idle" /\ JobsIdle

\* Where requests wait for the jobs of the last one, containers that run belong
\* to a project that is listed and has the compose file that stops them,
\* whatever call failed and wherever the panel stopped.
RunningKnown ==
  ~center.overlap /\ AtRest => \A p \in running : meta[p].listed /\ compose[p] # 0

\* While no write fails and the panel does not stop, a project lists the compose
\* file that its containers are started from.
ListedCompose ==
  ~center.failures /\ crashes = 0 /\ AtRest => \A p \in Projects : meta[p].listed => compose[p] = meta[p].compose

\* Where no removal fails either and requests wait for jobs, a clone that the
\* center accepts has a free directory to go to: a project that is not listed has
\* left none.
CloneHasRoom ==
  ~center.overlap /\ ~center.failures /\ crashes = 0 /\ AtRest => \A p \in Projects : ~meta[p].listed => p \notin source

\* What the center lists of a project is what is on the disk, and what it does
\* not list has gone (handleDeployments).
Consistent ==
  /\ TypeOK
  /\ ListedCompose
  /\ CloneHasRoom

=============================================================================
