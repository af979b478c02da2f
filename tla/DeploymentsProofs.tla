--------------------------- MODULE DeploymentsProofs ---------------------------
(***************************************************************************)
(* Proofs about Deployments, for every set of projects, jobs and centers:  *)
(* what the center lists of a project is on the disk, and what runs is     *)
(* listed with the compose file that stops it.                             *)
(***************************************************************************)
EXTENDS Deployments, TLAPS

-----------------------------------------------------------------------------
(* The inductive invariant.                                                *)

\* A job that is under way, or is about to be handed over, has its project listed,
\* and the compose file it starts containers from.
Grounded(action, p) == meta[p].listed /\ (action = "up" => compose[p] # 0)

\* Where requests wait for jobs: nothing changes the files of a job, and a project
\* gives up its files only after its containers have stopped.
RunningInv ==
  ~center.overlap =>
    /\ request.step # "idle" => JobsIdle
    /\ \A j \in Jobs : jobs[j].step # "idle" => Grounded(jobs[j].action, jobs[j].project)
    /\ request.step = "submit" => Grounded(request.action, request.project)
    /\ request.step = "compose" => request.version # 0
    /\ request.step \in {"remove", "forget"} => request.project \notin running
    /\ \A p \in running : meta[p].listed /\ compose[p] # 0

\* While nothing fails, a project has the compose file it lists, but between the two
\* writes or removals of a request.
ComposeInv ==
  ~center.failures /\ crashes = 0 =>
    /\ request.step = "meta" => compose[request.project] = request.version
    /\ request.step = "forget" => compose[request.project] = 0
    /\ \A p \in Projects :
         ~(request.step \in {"meta", "forget"} /\ p = request.project) => compose[p] = meta[p].compose

\* And a source directory belongs to a project that is listed.
RoomInv ==
  ~center.overlap /\ ~center.failures /\ crashes = 0 =>
    /\ request.step = "forget" => request.project \notin source
    /\ \A p \in source : meta[p].listed

\* The types are not inductive by themselves: a request hands its action to a job.
TypeInv == TypeOK /\ (request.step = "submit" => request.action \in JobActions)

Inv == TypeInv /\ RunningInv /\ ComposeInv /\ RoomInv

-----------------------------------------------------------------------------
(* Every step keeps the invariant.                                         *)

\* The types, preserved by every step.
LEMMA TypeStep ==
  ASSUME TypeInv, [Next]_vars
  PROVE  TypeInv'
<1> USE DEF TypeInv, TypeOK, Center, Requests, JobStates, Metas, Unlisted, Listed, Actions, JobActions, Versions, Go, Answer, files, env
<1>0. center \in Center /\ center.projects \subseteq Projects
  BY DeploymentsAssumption DEF Center
<1>1. ASSUME NEW p \in center.projects, NEW v \in Versions, Create(p, v)
      PROVE  TypeInv'
  BY <1>0, <1>1 DEF Create, Enter, Free
<1>2. ASSUME NEW p \in center.projects, NEW v \in Versions, Update(p, v)
      PROVE  TypeInv'
  BY <1>0, <1>2 DEF Update, Enter
<1>3. ASSUME NEW p \in center.projects, GitClone(p)
      PROVE  TypeInv'
  BY <1>0, <1>3 DEF GitClone, Enter, Free
<1>4. ASSUME NEW p \in center.projects, GitPull(p)
      PROVE  TypeInv'
  BY <1>0, <1>4 DEF GitPull, Enter
<1>5. ASSUME NEW p \in center.projects, Delete(p)
      PROVE  TypeInv'
  BY <1>0, <1>5 DEF Delete, Enter
<1>6. ASSUME NEW p \in center.projects, NEW action \in Actions, Compose(p, action)
      PROVE  TypeInv'
  BY <1>0, <1>6 DEF Compose, Enter
<1>7. CASE WriteCompose
  BY <1>0, <1>7 DEF WriteCompose, WrittenCompose
<1>8. CASE WriteMeta
  BY <1>0, <1>8 DEF WriteMeta
<1>9. CASE Submit
  BY <1>0, <1>9 DEF Submit
<1>10. CASE Down
  BY <1>0, <1>10 DEF Down, AfterDownFails
<1>11. CASE RemoveDir
  BY <1>0, <1>11 DEF RemoveDir
<1>12. CASE RemoveMeta
  BY <1>0, <1>12 DEF RemoveMeta
<1>13. ASSUME NEW j \in Jobs, BeginJob(j)
      PROVE  TypeInv'
  BY <1>0, <1>13 DEF BeginJob
<1>14. ASSUME NEW j \in Jobs, EndJob(j)
      PROVE  TypeInv'
  BY <1>0, <1>14 DEF EndJob
<1>15. CASE Crash
  <2>1. crashes' \in 0 .. center.crashes
    BY <1>0, <1>15 DEF Crash
  <2>2. request' \in Requests /\ request'.step = "idle"
    BY <1>15 DEF Crash
  <2>3. jobs' \in [Jobs -> JobStates]
    <3>1. \A j \in Jobs : [jobs[j] EXCEPT !.step = "idle"] \in JobStates
      OBVIOUS
    <3>2. QED
      BY <1>15, <3>1 DEF Crash
  <2>4. QED
    BY <1>15, <2>1, <2>2, <2>3 DEF Crash
<1>16. CASE UNCHANGED vars
  BY <1>0, <1>16 DEF vars
<1>17. QED
  BY <1>1, <1>2, <1>3, <1>4, <1>5, <1>6, <1>7, <1>8,
     <1>9, <1>10, <1>11, <1>12, <1>13, <1>14, <1>15, <1>16 DEF Next

\* Containers start only from the files of a project that is listed, and are gone
\* before the files are.
LEMMA RunningStep ==
  ASSUME TypeOK, RunningInv, [Next]_vars
  PROVE  RunningInv'
<1> USE DEF TypeOK, Requests, JobStates, Actions, JobActions, RunningInv, Grounded, JobsIdle, Listed, Versions, Go, Answer, files, env
<1>0. center \in Center /\ center.projects \subseteq Projects
  BY DeploymentsAssumption DEF Center
<1>1. ASSUME NEW p \in center.projects, NEW v \in Versions, Create(p, v)
      PROVE  RunningInv'
  BY <1>0, <1>1 DEF Create, Enter, Free
<1>2. ASSUME NEW p \in center.projects, NEW v \in Versions, Update(p, v)
      PROVE  RunningInv'
  BY <1>0, <1>2 DEF Update, Enter
<1>3. ASSUME NEW p \in center.projects, GitClone(p)
      PROVE  RunningInv'
  BY <1>0, <1>3 DEF GitClone, Enter, Free
<1>4. ASSUME NEW p \in center.projects, GitPull(p)
      PROVE  RunningInv'
  BY <1>0, <1>4 DEF GitPull, Enter
<1>5. ASSUME NEW p \in center.projects, Delete(p)
      PROVE  RunningInv'
  BY <1>0, <1>5 DEF Delete, Enter
<1>6. ASSUME NEW p \in center.projects, NEW action \in Actions, Compose(p, action)
      PROVE  RunningInv'
  BY <1>0, <1>6 DEF Compose, Enter
<1>7. CASE WriteCompose
  BY <1>0, <1>7 DEF WriteCompose, WrittenCompose
<1>8. CASE WriteMeta
  BY <1>0, <1>8 DEF WriteMeta
<1>9. CASE Submit
  BY <1>0, <1>9 DEF Submit
<1>10. CASE Down
  BY <1>0, <1>10 DEF Down, AfterDownFails
<1>11. CASE RemoveDir
  BY <1>0, <1>11 DEF RemoveDir
<1>12. CASE RemoveMeta
  BY <1>0, <1>12 DEF RemoveMeta
<1>13. ASSUME NEW j \in Jobs, BeginJob(j)
      PROVE  RunningInv'
  BY <1>0, <1>13 DEF BeginJob
<1>14. ASSUME NEW j \in Jobs, EndJob(j)
      PROVE  RunningInv'
  BY <1>0, <1>14 DEF EndJob
<1>15. CASE Crash
  BY <1>0, <1>15 DEF Crash
<1>16. CASE UNCHANGED vars
  BY <1>0, <1>16 DEF vars
<1>17. QED
  BY <1>1, <1>2, <1>3, <1>4, <1>5, <1>6, <1>7, <1>8,
     <1>9, <1>10, <1>11, <1>12, <1>13, <1>14, <1>15, <1>16 DEF Next

\* Only the entry that stands for none is not listed.
LEMMA UnlistedMeta ==
  ASSUME NEW m \in Metas, ~m.listed
  PROVE  m = Unlisted
<1>1. \A v \in 0 .. 2 : Listed(v).listed
  BY DEF Listed
<1>2. QED
  BY <1>1 DEF Metas

\* Both writes of a request say the same version, and both removals none.
LEMMA ComposeStep ==
  ASSUME TypeOK, ComposeInv, [Next]_vars
  PROVE  ComposeInv'
<1> USE DEF TypeOK, Center, Requests, JobStates, ComposeInv, Unlisted, Listed, Versions, Go, Answer, files, env
<1>0. center \in Center /\ center.projects \subseteq Projects
  BY DeploymentsAssumption DEF Center
<1>1. ASSUME NEW p \in center.projects, NEW v \in Versions, Create(p, v)
      PROVE  ComposeInv'
  BY <1>0, <1>1 DEF Create, Enter, Free
<1>2. ASSUME NEW p \in center.projects, NEW v \in Versions, Update(p, v)
      PROVE  ComposeInv'
  BY <1>0, <1>2 DEF Update, Enter
<1>3. ASSUME NEW p \in center.projects, GitClone(p)
      PROVE  ComposeInv'
  <2>1. ~center.failures /\ crashes = 0 => compose[p] = 0
    <3>1. meta[p] = Unlisted
      <4>1. meta[p] \in Metas /\ ~meta[p].listed
        BY <1>0, <1>3 DEF GitClone, Free
      <4>2. QED
        BY <4>1, UnlistedMeta
    <3>2. QED
      BY <1>0, <1>3, <3>1 DEF GitClone, Enter
  <2>2. QED
    BY <1>0, <1>3, <2>1 DEF GitClone, Enter
<1>4. ASSUME NEW p \in center.projects, GitPull(p)
      PROVE  ComposeInv'
  BY <1>0, <1>4 DEF GitPull, Enter
<1>5. ASSUME NEW p \in center.projects, Delete(p)
      PROVE  ComposeInv'
  BY <1>0, <1>5 DEF Delete, Enter
<1>6. ASSUME NEW p \in center.projects, NEW action \in Actions, Compose(p, action)
      PROVE  ComposeInv'
  BY <1>0, <1>6 DEF Compose, Enter
<1>7. CASE WriteCompose
  BY <1>0, <1>7 DEF WriteCompose, WrittenCompose
<1>8. CASE WriteMeta
  <2>1. request.project \in Projects /\ request'.project = request.project /\ request'.step \notin {"meta", "forget"}
    BY <1>8 DEF WriteMeta
  <2>2. CASE center.failures
    BY <1>8, <2>2 DEF WriteMeta
  <2>3. CASE ~center.failures
    BY <1>8, <2>1, <2>3 DEF WriteMeta
  <2>4. QED
    BY <2>2, <2>3
<1>9. CASE Submit
  BY <1>0, <1>9 DEF Submit
<1>10. CASE Down
  BY <1>0, <1>10 DEF Down, AfterDownFails
<1>11. CASE RemoveDir
  BY <1>0, <1>11 DEF RemoveDir
<1>12. CASE RemoveMeta
  BY <1>0, <1>12 DEF RemoveMeta
<1>13. ASSUME NEW j \in Jobs, BeginJob(j)
      PROVE  ComposeInv'
  BY <1>0, <1>13 DEF BeginJob
<1>14. ASSUME NEW j \in Jobs, EndJob(j)
      PROVE  ComposeInv'
  BY <1>0, <1>14 DEF EndJob
<1>15. CASE Crash
  BY <1>0, <1>15 DEF Crash
<1>16. CASE UNCHANGED vars
  BY <1>0, <1>16 DEF vars
<1>17. QED
  BY <1>1, <1>2, <1>3, <1>4, <1>5, <1>6, <1>7, <1>8,
     <1>9, <1>10, <1>11, <1>12, <1>13, <1>14, <1>15, <1>16 DEF Next

\* A clone begins after its project is listed, and its directory goes before its entry.
LEMMA RoomStep ==
  ASSUME TypeOK, RunningInv, RoomInv, [Next]_vars
  PROVE  RoomInv'
<1> USE DEF TypeOK, Center, Requests, JobStates, JobsIdle, RunningInv, Grounded, RoomInv, Unlisted, Listed, Go, Answer, files, env
<1>0. center \in Center /\ center.projects \subseteq Projects
  BY DeploymentsAssumption DEF Center
<1>1. ASSUME NEW p \in center.projects, NEW v \in Versions, Create(p, v)
      PROVE  RoomInv'
  BY <1>0, <1>1 DEF Create, Enter, Free
<1>2. ASSUME NEW p \in center.projects, NEW v \in Versions, Update(p, v)
      PROVE  RoomInv'
  BY <1>0, <1>2 DEF Update, Enter
<1>3. ASSUME NEW p \in center.projects, GitClone(p)
      PROVE  RoomInv'
  BY <1>0, <1>3 DEF GitClone, Enter, Free
<1>4. ASSUME NEW p \in center.projects, GitPull(p)
      PROVE  RoomInv'
  BY <1>0, <1>4 DEF GitPull, Enter
<1>5. ASSUME NEW p \in center.projects, Delete(p)
      PROVE  RoomInv'
  BY <1>0, <1>5 DEF Delete, Enter
<1>6. ASSUME NEW p \in center.projects, NEW action \in Actions, Compose(p, action)
      PROVE  RoomInv'
  BY <1>0, <1>6 DEF Compose, Enter
<1>7. CASE WriteCompose
  BY <1>0, <1>7 DEF WriteCompose, WrittenCompose
<1>8. CASE WriteMeta
  BY <1>0, <1>8 DEF WriteMeta
<1>9. CASE Submit
  BY <1>0, <1>9 DEF Submit
<1>10. CASE Down
  BY <1>0, <1>10 DEF Down, AfterDownFails
<1>11. CASE RemoveDir
  BY <1>0, <1>11 DEF RemoveDir
<1>12. CASE RemoveMeta
  BY <1>0, <1>12 DEF RemoveMeta
<1>13. ASSUME NEW j \in Jobs, BeginJob(j)
      PROVE  RoomInv'
  BY <1>0, <1>13 DEF BeginJob
<1>14. ASSUME NEW j \in Jobs, EndJob(j)
      PROVE  RoomInv'
  BY <1>0, <1>14 DEF EndJob
<1>15. CASE Crash
  BY <1>0, <1>15 DEF Crash
<1>16. CASE UNCHANGED vars
  BY <1>0, <1>16 DEF vars
<1>17. QED
  BY <1>1, <1>2, <1>3, <1>4, <1>5, <1>6, <1>7, <1>8,
     <1>9, <1>10, <1>11, <1>12, <1>13, <1>14, <1>15, <1>16 DEF Next

\* Types, what runs, what is listed and what was cloned, in every reachable state.
LEMMA Invariant == Spec => []Inv
<1>1. Init => Inv
  <2>1. (CHOOSE p \in Projects : TRUE) \in Projects
    BY DeploymentsAssumption
  <2>2. Init => TypeInv
    <3>1. \A c \in Centers : c.requests \in Nat /\ c.crashes \in Nat
      BY DeploymentsAssumption DEF Center
    <3>2. QED
      BY <2>1, <3>1 DEF Init, TypeInv, TypeOK, Metas, Unlisted, Requests, Actions, JobActions, JobStates
  <2>3. Init => RunningInv /\ ComposeInv /\ RoomInv
    BY DEF Init, RunningInv, ComposeInv, RoomInv, Unlisted
  <2>4. QED
    BY <2>2, <2>3 DEF Inv
<1>2. Inv /\ [Next]_vars => Inv'
  BY TypeStep, RunningStep, ComposeStep, RoomStep DEF Inv, TypeInv
<1>3. QED
  BY <1>1, <1>2, PTL DEF Spec

\* Containers that run belong to a project that is listed with its compose file, where
\* requests wait for jobs, whatever call failed and wherever the panel stopped.
THEOREM RunningListed == Spec => []RunningKnown
<1>1. Inv => RunningKnown
  BY DEF Inv, RunningInv, RunningKnown
<1>2. QED
  BY <1>1, Invariant, PTL

\* What the center lists of a project is on the disk, and what it does not list has gone.
THEOREM ListedTrue == Spec => []Consistent
<1>1. Inv => ListedCompose
  BY DEF Inv, ComposeInv, ListedCompose, AtRest
<1>2. Inv => CloneHasRoom
  BY DEF Inv, RoomInv, CloneHasRoom
<1>3. Inv => Consistent
  BY <1>1, <1>2 DEF Consistent, Inv, TypeInv
<1>4. QED
  BY <1>3, Invariant, PTL

=============================================================================
