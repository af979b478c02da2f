------------------------------ MODULE NodePort ------------------------------
(***************************************************************************)
(* A managed node and the jobs that change how the panel logs in to it:    *)
(* its entry in nodes.json, the key that syncNodeKey brings to the host,   *)
(* the end of password logins by lockNodePassword, and the migration to    *)
(* another ssh port by changeNodePort.                                     *)
(*                                                                         *)
(* Jobs copy the entry when they are requested; the last two take nodeOpMu *)
(* when they begin and work by scripts, which the host runs line by line:  *)
(* sshd may refuse the configuration, and the connection may be cut        *)
(* anywhere, where the setting says so.                                    *)
(***************************************************************************)
EXTENDS Naturals, FiniteSets, SequencesExt

CONSTANTS
  Jobs,       \* requests of a job, each made at most once
  Ports,      \* ports of the node; 22 is the default of sshd
  Open,       \* ports that firewalls let through
  Settings    \* the settings that are checked, see Setting

Default == 22
Kinds == {"key", "lock", "port"}

\* The jobs that are requested, and what may happen beside them: the scripts in
\* which sshd may refuse the configuration, whether the connection of a script may
\* be cut, whether the operator may list another port, and the bounds on changes of
\* the entry by the operator and on stops.
Setting == [kinds : SUBSET Kinds, refused : SUBSET {"prepare", "rollback", "finalize", "lock"}, cut : BOOLEAN,
            relist : BOOLEAN, edits : Nat, crashes : Nat]

ASSUME NodePortAssumption ==
  /\ Default \in Open /\ Open \subseteq Ports /\ Ports \subseteq Nat
  /\ Settings \subseteq Setting

VARIABLES
  entry,   \* the entries of the node in nodes.json: one or none
  host,    \* the files of the host, and what sshd has loaded of them
  jobs,    \* what each job is doing
  setting, \* one of Settings
  edits, crashes

env == <<setting, edits, crashes>>
vars == <<entry, host, jobs, env>>

-----------------------------------------------------------------------------
(* The host.  sshd_config has Port lines and may include the drop-ins: the *)
(* Port lines of a migration, and the one that refuses passwords (hard).   *)
(* A file that may be absent is the set of its contents, one or none.      *)

Conf == [ports : SUBSET Ports, include : BOOLEAN]
Files(contents) == {{}} \cup {{c} : c \in contents}
Daemon == [ports : SUBSET Ports, passwords : BOOLEAN]
Host == [conf : Conf, drop : Files(SUBSET Ports), hard : BOOLEAN,
         confSaved : Files(Conf), dropSaved : Files(SUBSET Ports), live : Daemon, key : BOOLEAN]

\* What the files tell sshd.
Effective(h) ==
  LET ports == h.conf.ports \cup IF h.conf.include THEN UNION h.drop ELSE {} IN
  [ports |-> IF ports = {} THEN {Default} ELSE ports, passwords |-> ~(h.conf.include /\ h.hard)]

Restarted(h) == [h EXCEPT !.live = Effective(h)]
Included(h) == [h EXCEPT !.conf.include = TRUE]

\* A script is the sequence of the hosts it leaves line by line, and the hosts
\* that it may leave when sshd refuses the configuration.
Script(name, hosts, refused) == [hosts |-> hosts, refused |-> IF name \in setting.refused THEN refused ELSE {}]

\* Mutant: the drop-in of an earlier migration is not saved.
SavedDrop_Not(h) == [h EXCEPT !.dropSaved = {}]

SavedDrop(h) == [h EXCEPT !.dropSaved = h.drop]

\* Mutant: only the new port is written.
Prepared_New(old, new) == {{new}}

Prepared(old, new) == {{old, new}}

PrepareScript(old, new) ==
  LET saved == [host EXCEPT !.confSaved = {host.conf}]
      both == SavedDrop(saved)
      quiet == [Included(both) EXCEPT !.conf.ports = {}]
      written == [quiet EXCEPT !.drop = Prepared(old, new)] IN
  Script("prepare", <<host, saved, both, Included(both), quiet, written, Restarted(written)>>, {written})

RestoredConf(h) == [h EXCEPT !.conf = IF h.confSaved = {} THEN @ ELSE CHOOSE c \in h.confSaved : TRUE]
RestoredDrop(h) == [h EXCEPT !.drop = h.dropSaved]

RollbackScript ==
  LET conf == RestoredConf(host)
      both == RestoredDrop(conf) IN
  Script("rollback", <<host, conf, both, Restarted(both)>>, {both})

FinalizeScript(new) ==
  LET written == [host EXCEPT !.drop = {{new}}]
      restarted == Restarted(written) IN
  Script("finalize", <<host, written, restarted, [restarted EXCEPT !.confSaved = {}, !.dropSaved = {}]>>, {written})

\* Mutant: the drop-ins need not be included.
Hardened_NotIncluded(h) == [h EXCEPT !.hard = TRUE]

Hardened(h) == [Included(h) EXCEPT !.hard = TRUE]

\* Values other than expected, and a reload that fails, count as refusals: the
\* files are put back, and sshd may have been reloaded.
LockScript ==
  LET written == Hardened(host) IN
  Script("lock", <<host, Included(host), written, [written EXCEPT !.conf = host.conf], Restarted(written)>>,
         {host, Restarted(host)})

\* A login by key.
Reaches(port) == port \in host.live.ports \cap Open /\ host.key

\* The runs of a script over ssh: all of it, up to a refusal of sshd, up to the
\* cut of the connection, or nothing when the login fails.
Runs(script, port) ==
  LET stops == script.refused \cup IF setting.cut THEN ToSet(script.hosts) ELSE {} IN
  IF Reaches(port)
  THEN [ok : {TRUE}, host : {Last(script.hosts)}] \cup [ok : {FALSE}, host : stops]
  ELSE [ok : {FALSE}, host : {host}]

-----------------------------------------------------------------------------
(* The entry *)

Entry == [port : Ports, version : 0 .. setting.edits]

Steps == {"new", "queued", "copy", "probeKey", "probe", "lock", "prepare", "undo", "probeNew", "finalize", "probeLast",
          "probeAfterError", "save", "saveWithError", "success", "failed", "rolledBack", "unsaved"}
\* The steps of the jobs that hold nodeOpMu.
Running == {"probe", "lock", "prepare", "undo", "probeNew", "finalize", "probeLast", "probeAfterError",
            "save", "saveWithError"}
\* No code reads before, what the files told sshd when the job began.
Job == [kind : Kinds, step : Steps, node : Entry, newPort : Ports, before : Daemon]

Goto(j, step) == jobs' = [jobs EXCEPT ![j].step = step]

\* upsertNode: the job writes the node as it copied it, with the new port.
UpsertNode(j) == entry' = {[jobs[j].node EXCEPT !.port = jobs[j].newPort]}

\* add, by the operator, of the alias, which may be there: another host name, user
\* or port.
AddNode(port) ==
  /\ edits < setting.edits /\ edits' = edits + 1
  /\ setting.relist \/ \E e \in entry : e.port = port
  /\ entry' = {[port |-> port, version |-> edits + 1]}
  /\ UNCHANGED <<host, jobs, setting, crashes>>

DeleteNode ==
  /\ edits < setting.edits /\ edits' = edits + 1
  /\ entry # {} /\ entry' = {}
  /\ UNCHANGED <<host, jobs, setting, crashes>>

-----------------------------------------------------------------------------
(* sync-key, lock and port of handleNodes *)

Request(j, kind, newPort) ==
  /\ jobs[j].step = "new" /\ kind \in setting.kinds
  /\ \E e \in entry :
       /\ (kind = "port") = (newPort # e.port)
       /\ jobs' = [jobs EXCEPT ![j] = [kind |-> kind, step |-> IF kind = "key" THEN "copy" ELSE "queued",
                                       node |-> e, newPort |-> newPort, before |-> Effective(host)]]
  /\ UNCHANGED <<entry, host, env>>

\* A login by key on a port decides how the job goes on.
Probe(j, at, port, then, otherwise) ==
  /\ jobs[j].step = at
  /\ Goto(j, IF Reaches(port) THEN then ELSE otherwise)
  /\ UNCHANGED <<entry, host, env>>

\* syncNodeKey logs in with a password, if that is allowed, and waits for nobody.
CopyKey(j) ==
  LET port == jobs[j].node.port IN
  /\ jobs[j].step = "copy"
  /\ \/ /\ port \in host.live.ports \cap Open /\ host.live.passwords
        /\ host' = [host EXCEPT !.key = TRUE]
        /\ Goto(j, "probeKey")
     \/ Goto(j, "failed") /\ UNCHANGED host
  /\ UNCHANGED <<entry, env>>

SyncNodeKey(j) == CopyKey(j) \/ Probe(j, "probeKey", jobs[j].node.port, "success", "failed")

\* nodeOpMu
Free == \A j \in Jobs : jobs[j].step \notin Running

Begin(j) ==
  /\ jobs[j].step = "queued" /\ Free
  /\ jobs' = [jobs EXCEPT ![j].step = "probe", ![j].before = Effective(host)]
  /\ UNCHANGED <<entry, host, env>>

RunScript(j, at, script, port, then, otherwise) ==
  /\ jobs[j].step = at
  /\ \E r \in Runs(script, port) :
       /\ host' = r.host
       /\ Goto(j, IF r.ok THEN then ELSE otherwise)
  /\ UNCHANGED <<entry, env>>

-----------------------------------------------------------------------------
(* lockNodePassword and changeNodePort *)

LockNodePassword(j) ==
  LET port == jobs[j].node.port IN
  \/ jobs[j].kind = "lock" /\ Probe(j, "probe", port, "lock", "failed")
  \/ RunScript(j, "lock", LockScript, port, "success", "failed")

ChangeNodePort(j) ==
  LET old == jobs[j].node.port  new == jobs[j].newPort IN
  \/ jobs[j].kind = "port" /\ Probe(j, "probe", old, "prepare", "failed")
  \/ RunScript(j, "prepare", PrepareScript(old, new), old, "probeNew", "undo")
  \/ RunScript(j, "undo", RollbackScript, old, "rolledBack", "failed")
  \/ Probe(j, "probeNew", new, "finalize", "undo")
  \/ RunScript(j, "finalize", FinalizeScript(new), new, "probeLast", "probeAfterError")
  \/ Probe(j, "probeLast", new, "save", "failed")
  \/ Probe(j, "probeAfterError", new, "saveWithError", "failed")

\* When nodes.json cannot be read or written, or 100 others are listed by now, the
\* job fails, and the entry is as it was.
SaveNode(j) ==
  /\ jobs[j].step \in {"save", "saveWithError"}
  /\ \/ UpsertNode(j) /\ Goto(j, IF jobs[j].step = "save" THEN "success" ELSE "failed")
     \/ UNCHANGED entry /\ Goto(j, "unsaved")
  /\ UNCHANGED <<host, env>>

\* The panel stops, and its jobs with it.
Crash ==
  /\ crashes < setting.crashes /\ crashes' = crashes + 1
  /\ jobs' = [j \in Jobs |-> IF jobs[j].step \in Running \cup {"queued", "copy", "probeKey"}
                              THEN [jobs[j] EXCEPT !.step = "failed"] ELSE jobs[j]]
  /\ UNCHANGED <<entry, host, setting, edits>>

-----------------------------------------------------------------------------

Start == [port |-> Default, version |-> 0]

Init ==
  /\ entry = {Start}
  /\ \E include, key \in BOOLEAN :
       host = [conf |-> [ports |-> {Default}, include |-> include], drop |-> {}, hard |-> FALSE,
               confSaved |-> {}, dropSaved |-> {}, live |-> [ports |-> {Default}, passwords |-> TRUE], key |-> key]
  /\ jobs = [j \in Jobs |->
       [kind |-> "key", step |-> "new", node |-> Start, newPort |-> Default, before |-> Effective(host)]]
  /\ setting \in Settings /\ edits = 0 /\ crashes = 0

Next ==
  \/ \E j \in Jobs :
       \/ \E kind \in Kinds, p \in Ports : Request(j, kind, p)
       \/ SyncNodeKey(j)
       \/ Begin(j) \/ LockNodePassword(j) \/ ChangeNodePort(j) \/ SaveNode(j)
  \/ \E p \in Ports : AddNode(p)
  \/ DeleteNode \/ Crash

Spec == Init /\ [][Next]_vars

-----------------------------------------------------------------------------
(* Properties *)

TypeOK ==
  /\ entry \subseteq Entry /\ Cardinality(entry) <= 1
  /\ host \in Host
  /\ jobs \in [Jobs -> Job]
  /\ setting \in Settings /\ edits \in 0 .. setting.edits /\ crashes \in 0 .. setting.crashes

\* Whatever step of a job fails and wherever the panel stops, the node listens on
\* a port that the firewalls let through, for the key of the panel or a password.
NeverLockedOut == host.live.ports \cap Open # {} /\ (host.key \/ host.live.passwords)

\* Where no connection is cut, a job that reports its rollback has left sshd
\* with the ports and the logins that the files it found gave it.
RollbackRestores ==
  [][\A j \in Jobs : ~setting.cut /\ jobs[j].step = "undo" /\ jobs'[j].step = "rolledBack" =>
       host'.live = jobs[j].before]_vars

\* No job could not write its entry: one that fails so has left the old port.
Saved == \A j \in Jobs : jobs[j].step # "unsaved"

\* Where no connection is cut, no rollback is refused, every job could write its
\* entry, the panel did not stop and the operator lists no port himself, the panel
\* reaches the node at the port it lists while no job is under way.
ListedPortAnswers ==
  ~setting.cut /\ "rollback" \notin setting.refused /\ ~setting.relist /\ crashes = 0 /\ Saved /\ Free /\ host.key =>
    \A e \in entry : Reaches(e.port)

\* Where no connection is cut, a node whose password logins a job has ended
\* refuses passwords from then on, and would after a restart of sshd: migrations
\* that follow, are taken back or are left half done by a stop do not undo it.
LockedStays ==
  ~setting.cut /\ (\E j \in Jobs : jobs[j].kind = "lock" /\ jobs[j].step = "success") =>
    ~host.live.passwords /\ ~Effective(host).passwords

\* What the panel says of the node is true of the host (changeNodePort,
\* lockNodePassword): the port in nodes.json, and that passwords are refused.
Consistent ==
  /\ TypeOK
  /\ ListedPortAnswers
  /\ LockedStays

=============================================================================
