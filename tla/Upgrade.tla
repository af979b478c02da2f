------------------------------- MODULE Upgrade -------------------------------
(***************************************************************************)
(* The upgrade of the panel by itself: a job downloads the package that a  *)
(* signed manifest names, checks it, and hands a script to systemd, which  *)
(* replaces the binary, restarts the panel and puts the old binary back    *)
(* when the new one does not answer.                                       *)
(*                                                                         *)
(* Three paths are shared by all jobs and scripts: the binary,             *)
(* binary.update and binary.rollback.  The job dies with the panel, the    *)
(* script does not.  A step of the job that only reads and fails ends it.  *)
(***************************************************************************)
EXTENDS Naturals, FiniteSets

CONSTANTS
  Packages,         \* contents of a binary
  Keys,             \* public keys of upgrade sources
  Signed,           \* the packages for which a key signed a manifest
  Version,          \* what a package answers to the command version
  Installed,        \* the first binary
  Crashing,         \* packages whose panel ends soon after every start
  Hanging,          \* packages whose panel runs and does not answer /api/status
  None,             \* no file, no process, no key
  Busy,             \* whether the kernel refuses to write a file that runs
  AtOnce,           \* bound: upgrades under way at a time
  MaxApplies,       \* bound: upgrades in all
  MaxHostRestarts   \* bound: restarts of the host

Healthy == Packages \ (Crashing \cup Hanging)

ASSUME UpgradeAssumption ==
  /\ Signed \in [Keys -> SUBSET Packages]
  /\ Crashing \subseteq Packages /\ Hanging \subseteq Packages
  /\ Installed \in Healthy
  /\ None \notin Packages \cup Keys
  /\ Busy \in BOOLEAN
  /\ AtOnce \in Nat /\ MaxApplies \in Nat /\ MaxHostRestarts \in Nat

VARIABLES
  binary, update, rollback,  \* the content of the three files
  running,       \* the binary that the panel runs
  executes,      \* whether the panel runs the very file that is at the path of the binary
  source,        \* the key of the upgrade source
  stage,         \* how far an upgrade is
  target,        \* the package that the manifest of an upgrade names
  before,        \* the binary when an upgrade was scheduled; no code reads it
  overlapped,    \* whether two upgrades were ever under way at a time; no code reads it
  refused,       \* whether the copy that takes an upgrade back was ever refused; no code reads it
  hostRestarts

files == <<binary, update, rollback>>
process == <<running, executes>>
history == <<before, overlapped, refused, hostRestarts>>
vars == <<files, process, source, stage, target, history>>

Upgrades == 1..MaxApplies
JobStages == {"download", "verify", "selftest", "schedule"}
ScriptStages == {"copy", "move", "restart", "health", "restore", "restartOld"}
Stages == JobStages \cup ScriptStages \cup {"none", "rejected", "upgraded", "failed"}

UnderWay == {i \in Upgrades : stage[i] \in JobStages \cup ScriptStages}
Answering == running \in Healthy

Goto(i, next) == stage' = [stage EXCEPT ![i] = next]

-----------------------------------------------------------------------------
(* handleUpgrade *)

Configure(k) ==
  /\ Answering
  /\ source' = k
  /\ UNCHANGED <<files, process, stage, target, history>>

\* fetchAndVerifyManifest refuses a manifest that the configured key did not sign.
Apply(i, p) ==
  /\ Answering /\ Cardinality(UnderWay) < AtOnce
  /\ stage[i] = "none" /\ (i > 1 => stage[i - 1] # "none")
  /\ source # None /\ p \in Signed[source]
  /\ target' = [target EXCEPT ![i] = p]
  /\ overlapped' = (overlapped \/ UnderWay # {})
  /\ Goto(i, "download")
  /\ UNCHANGED <<files, process, source, before, refused, hostRestarts>>

\* The package comes complete under a name of its own, whatever it is, and is renamed.
Download(i, p) ==
  /\ stage[i] = "download"
  /\ update' = p
  /\ Goto(i, "verify")
  /\ UNCHANGED <<binary, rollback, process, source, target, history>>

\* Mutant: a digest that differs is let through.
HashMatches_Any(i) == update # None

\* The manifest holds the digest of its package.
HashMatches(i) == update = target[i]

Verify(i) ==
  /\ stage[i] = "verify" /\ HashMatches(i)
  /\ Goto(i, "selftest")
  /\ UNCHANGED <<files, process, source, target, history>>

\* The package is run a first time, for its version.
SelfTestPasses(i) == update # None /\ Version[update] = Version[target[i]]

SelfTest(i) ==
  /\ stage[i] = "selftest" /\ SelfTestPasses(i)
  /\ Goto(i, "schedule")
  /\ UNCHANGED <<files, process, source, target, history>>

\* systemd-run starts the script two seconds later.
Schedule(i) ==
  /\ stage[i] = "schedule"
  /\ before' = [before EXCEPT ![i] = binary]
  /\ Goto(i, "copy")
  /\ UNCHANGED <<files, process, source, target, overlapped, refused, hostRestarts>>

\* A download that fails, a package that a check refuses, a script that is not scheduled.
Reject(i) ==
  /\ stage[i] \in JobStages
  /\ stage[i] = "verify" => ~HashMatches(i)
  /\ stage[i] = "selftest" => ~SelfTestPasses(i)
  /\ Goto(i, "rejected")
  /\ UNCHANGED <<files, process, source, target, history>>

-----------------------------------------------------------------------------
(* upgradeRollbackScript *)

\* Mutant: a rollback file that exists is kept.
Saved_Once == IF rollback = None THEN binary ELSE rollback

\* cp binary rollback || exit 1; what a copy that fails leaves of the file is left out.
Saved == binary

Copy(i) ==
  /\ stage[i] = "copy"
  /\ \/ rollback' = Saved /\ Goto(i, "move")
     \/ UNCHANGED rollback /\ Goto(i, "failed")
  /\ UNCHANGED <<binary, update, process, source, target, history>>

\* mv update binary || exit 1: a running panel keeps its file, under no name.
Move(i) ==
  /\ stage[i] = "move"
  /\ IF update = None
     THEN Goto(i, "failed") /\ UNCHANGED <<files, executes>>
     ELSE /\ binary' = update /\ update' = None /\ UNCHANGED rollback
          /\ executes' = FALSE
          /\ Goto(i, "restart")
  /\ UNCHANGED <<running, source, target, history>>

\* Jobs live in the panel only.
WithoutJobs(stages) ==
  [k \in Upgrades |-> IF stages[k] \in JobStages THEN "rejected" ELSE stages[k]]

\* The process of a panel that starts from the binary; one that crashes does so later.
StartPanel == running' = binary /\ executes' = TRUE

\* systemctl restart; it may tell that a crashing panel did not start.
Restart(i) ==
  /\ stage[i] = "restart"
  /\ \/ /\ StartPanel
        /\ stage' = [WithoutJobs(stage) EXCEPT ![i] = "health"]
     \/ /\ binary \in Crashing /\ running' = None /\ executes' = FALSE
        /\ stage' = [WithoutJobs(stage) EXCEPT ![i] = "restore"]
  /\ UNCHANGED <<files, source, target, history>>

\* Mutant: the script ends without the rollback.
AfterUnhealthy_Ends == "failed"

\* Mutant: the script never stops to ask.
AfterUnhealthy_AsksOn == "health"

AfterUnhealthy == "restore"

\* The last of twenty tries to find "configured" in the answer of /api/status.
CheckHealth(i) ==
  /\ stage[i] = "health"
  /\ Goto(i, IF running \in Healthy THEN "upgraded" ELSE AfterUnhealthy)
  /\ UNCHANGED <<files, process, source, target, history>>

\* cp rollback binary: "text file busy" while a panel executes it; the script goes on.
Refuses == Busy /\ executes

Restore(i) ==
  /\ stage[i] = "restore"
  /\ binary' = IF Refuses THEN binary ELSE rollback
  /\ refused' = (refused \/ Refuses)
  /\ Goto(i, "restartOld")
  /\ UNCHANGED <<update, rollback, process, source, target, before, overlapped, hostRestarts>>

RestartOld(i) ==
  /\ stage[i] = "restartOld"
  /\ StartPanel
  /\ stage' = [WithoutJobs(stage) EXCEPT ![i] = "failed"]
  /\ UNCHANGED <<files, source, target, history>>

-----------------------------------------------------------------------------
(* systemd and the host *)

\* A crashing panel ends, before it answers.
Crash ==
  /\ running \in Crashing
  /\ running' = None /\ executes' = FALSE
  /\ UNCHANGED <<files, source, stage, target, history>>

\* Restart=on-failure, RestartSec=3: whatever the binary is, again and again.
AutoRestart ==
  /\ running = None
  /\ StartPanel
  /\ UNCHANGED <<files, source, stage, target, history>>

\* The unit of a script is transient: it does not come back.
HostRestart ==
  /\ hostRestarts < MaxHostRestarts
  /\ hostRestarts' = hostRestarts + 1
  /\ StartPanel
  /\ stage' = [k \in Upgrades |->
                 IF stage[k] \in ScriptStages THEN "failed" ELSE WithoutJobs(stage)[k]]
  /\ UNCHANGED <<files, source, target, before, overlapped, refused>>

-----------------------------------------------------------------------------

Init ==
  /\ binary = Installed /\ update = None /\ rollback = None
  /\ running = Installed /\ executes = TRUE
  /\ source = None
  /\ stage = [i \in Upgrades |-> "none"]
  /\ target = [i \in Upgrades |-> None]
  /\ before = [i \in Upgrades |-> None]
  /\ overlapped = FALSE /\ refused = FALSE /\ hostRestarts = 0

Job(i) ==
  \/ \E p \in Packages : Apply(i, p) \/ Download(i, p)
  \/ Verify(i) \/ SelfTest(i) \/ Schedule(i) \/ Reject(i)

Script(i) == Copy(i) \/ Move(i) \/ Restart(i) \/ CheckHealth(i) \/ Restore(i) \/ RestartOld(i)

Next ==
  \/ \E k \in Keys : Configure(k)
  \/ \E i \in Upgrades : Job(i) \/ Script(i)
  \/ Crash
  \/ AutoRestart
  \/ HostRestart

Spec == Init /\ [][Next]_vars

\* systemd runs a script that it accepted to its end.  Nothing else is promised.
FairSpec == Spec /\ \A i \in Upgrades : WF_vars(Script(i))

-----------------------------------------------------------------------------
(* Properties *)

\* The shape of the state: there is a binary at all times, and no job without a panel that works.
TypeOK ==
  /\ binary \in Packages
  /\ {update, rollback, running} \subseteq Packages \cup {None}
  /\ executes \in BOOLEAN /\ (executes => running # None)
  /\ source \in Keys \cup {None}
  /\ stage \in [Upgrades -> Stages]
  /\ target \in [Upgrades -> Packages \cup {None}]
  /\ before \in [Upgrades -> Packages \cup {None}]
  /\ running \notin Healthy => \A i \in Upgrades : stage[i] \notin JobStages
  /\ overlapped \in BOOLEAN /\ refused \in BOOLEAN /\ hostRestarts \in 0..MaxHostRestarts

\* While upgrades come one at a time, the binary is the first one or one that a key
\* signed, whatever a source serves (handleUpgrade, README.md:38): the file that was
\* checked is the file that is moved.
OnlySigned == ~overlapped => binary \in {Installed} \cup UNION {Signed[k] : k \in Keys}

\* Upgrades came one at a time, the host stayed up, and no copy that takes an upgrade back
\* was refused.  The kernel refuses it while the new panel runs: always when that one hangs,
\* and when it crashes if systemd has just started it again (README.md:31 has no exception).
Calm == ~overlapped /\ hostRestarts = 0 /\ ~refused

\* When no script is under way, the panel answers: an upgrade that fails was taken back,
\* unless the copy was refused (upgradeRollbackScript).
RollsBack == Calm /\ (\A i \in Upgrades : stage[i] \notin ScriptStages) => running \in Healthy

\* An upgrade that fails leaves the panel running the binary of before it, not an older one,
\* unless the copy was refused.
FailureRestores ==
  [][\A i \in Upgrades :
       Calm' /\ stage[i] \in ScriptStages /\ stage'[i] = "failed" => running' = before[i]]_vars

\* A panel that does not answer is one that answers again, if scripts go on, unless a copy
\* was refused.
Recovers == Calm /\ running \notin Healthy ~> running \in Healthy \/ ~Calm

=============================================================================
