---------------------------- MODULE NodePortProofs ----------------------------
(***************************************************************************)
(* Proofs about NodePort, for every number of jobs, all ports and every    *)
(* setting: the node stays reachable whatever fails, a rollback restores   *)
(* the logins it found, and what the panel says of the node is true.       *)
(***************************************************************************)
EXTENDS NodePort, FiniteSetTheorems, TLAPS

-----------------------------------------------------------------------------
(* The inductive invariant, in four parts.                                 *)

\* A host that lets the panel or its operator in, and would with the files it saved:
\* an open port remains in each of its files, and passwords end with a key.
Admits(h) ==
  /\ \A c \in {h.conf} \cup h.confSaved : c.ports \subseteq {Default}
  /\ \A ports \in h.drop \cup h.dropSaved : ports \cap Open # {}
  /\ h.live.ports \cap Open # {}
  /\ h.hard \/ ~h.live.passwords => h.key

\* The jobs that work on the host: one, of the kind that its step belongs to.
JobsInv ==
  /\ \A i, j \in Jobs : jobs[i].step \in Running /\ jobs[j].step \in Running => i = j
  /\ \A j \in Jobs :
       /\ jobs[j].step \in {"copy", "probeKey"} => jobs[j].kind = "key"
       /\ jobs[j].step = "lock" => jobs[j].kind = "lock"
       /\ jobs[j].step \in Running \ {"probe", "lock"} => jobs[j].kind = "port"

\* What a rollback makes of the files.
Restored(h) == RestoredDrop(RestoredConf(h))

\* A drop-in with ports is read.
Read(h) == h.drop # {} => h.conf.include

\* Passwords have been ended by a job, and are refused, also after a restart of sshd.
LockDone == \E j \in Jobs : jobs[j].kind = "lock" /\ jobs[j].step = "success"
Locked(h) == ~h.live.passwords /\ h.hard /\ h.conf.include

\* What a job knows of the host at its step when no connection is cut.
Known(h, job) ==
  /\ job.step \in {"probe", "lock", "prepare"} => Effective(h) = job.before
  /\ job.step \in {"prepare", "probeNew", "undo"} => job.node.port \in h.live.ports \cap Open /\ h.key
  /\ job.step \in {"probeNew", "undo"} =>
       h.confSaved # {} /\ Read(Restored(h)) /\ Effective(Restored(h)) = job.before
  /\ job.step \in {"probeNew", "finalize", "probeLast", "save", "probeAfterError", "saveWithError"} =>
       h.conf.include /\ h.conf.ports = {}
  /\ job.step \in {"finalize", "probeLast", "save", "probeAfterError", "saveWithError"} =>
       job.newPort \in h.live.ports \cap Open /\ h.key
  /\ job.step \in {"probeLast", "save", "probeAfterError", "saveWithError"} => h.drop = {{job.newPort}}

UncutInv ==
  ~setting.cut =>
    /\ Read(host) /\ (LockDone => Locked(host))
    /\ \A j \in Jobs : Known(host, jobs[j]) /\ (LockDone /\ jobs[j].step \in Running => ~jobs[j].before.passwords)

\* The port listed answers, also after a restart of sshd, or would after the rollback
\* of the migration under way.
Answers(h, port) == port \in h.live.ports \cap Open /\ port \in Effective(h).ports

\* The steps of a migration that has begun to write files.
Migrating == Running \ {"probe", "lock", "prepare"}

Calm == ~setting.cut /\ "rollback" \notin setting.refused /\ ~setting.relist /\ crashes = 0

ListedInv ==
  Calm /\ Saved => \A e \in entry :
    /\ (\A j \in Jobs : jobs[j].step \notin Migrating) => Answers(host, e.port)
    /\ \A j \in Jobs : jobs[j].step \in {"probeNew", "undo"} => e.port \in jobs[j].before.ports \cap Open

Inv == TypeOK /\ Admits(host) /\ JobsInv /\ UncutInv /\ ListedInv

-----------------------------------------------------------------------------
(* The files of the host.                                                  *)

\* The lines of a script, by number.
LEMMA FourLines ==
  ASSUME NEW a, NEW b, NEW c, NEW d
  PROVE  ToSet(<<a, b, c, d>>) = {a, b, c, d} /\ Last(<<a, b, c, d>>) = d
<1>1. DOMAIN <<a, b, c, d>> = {1, 2, 3, 4} /\ Len(<<a, b, c, d>>) = 4
  OBVIOUS
<1>2. QED
  BY <1>1 DEF ToSet, Last

LEMMA FiveLines ==
  ASSUME NEW a, NEW b, NEW c, NEW d, NEW e
  PROVE  ToSet(<<a, b, c, d, e>>) = {a, b, c, d, e} /\ Last(<<a, b, c, d, e>>) = e
<1>1. DOMAIN <<a, b, c, d, e>> = {1, 2, 3, 4, 5} /\ Len(<<a, b, c, d, e>>) = 5
  OBVIOUS
<1>2. QED
  BY <1>1 DEF ToSet, Last

LEMMA SevenLines ==
  ASSUME NEW a, NEW b, NEW c, NEW d, NEW e, NEW f, NEW g
  PROVE  ToSet(<<a, b, c, d, e, f, g>>) = {a, b, c, d, e, f, g} /\ Last(<<a, b, c, d, e, f, g>>) = g
<1>1. DOMAIN <<a, b, c, d, e, f, g>> = {1, 2, 3, 4, 5, 6, 7} /\ Len(<<a, b, c, d, e, f, g>>) = 7
  OBVIOUS
<1>2. QED
  BY <1>1 DEF ToSet, Last

\* What sshd makes of the files.
LEMMA EffectiveType ==
  ASSUME NEW h \in Host
  PROVE  /\ Effective(h) \in Daemon
         /\ Effective(h).passwords = ~(h.conf.include /\ h.hard)
         /\ Restarted(h) \in Host /\ Restarted(h) = [h EXCEPT !.live = Effective(h)]
<1>1. h.conf \in Conf /\ h.drop \in Files(SUBSET Ports) /\ h.hard \in BOOLEAN
  BY DEF Host
<1>2. UNION h.drop \subseteq Ports
  BY <1>1 DEF Files
<1>3. Default \in Ports
  BY NodePortAssumption
<1>4. Effective(h) \in Daemon /\ Effective(h).passwords = ~(h.conf.include /\ h.hard)
  BY <1>1, <1>2, <1>3 DEF Effective, Daemon, Conf
<1>5. QED
  BY <1>4 DEF Restarted, Host

\* Sshd reads no more than the files in force.
LEMMA EffectiveSame ==
  ASSUME NEW g, NEW h, g.conf = h.conf, g.drop = h.drop, g.hard = h.hard
  PROVE  Effective(g) = Effective(h)
BY DEF Effective

\* An admitting host stays so when sshd starts again.
LEMMA AdmitsRestarted ==
  ASSUME NEW h \in Host, Admits(h)
  PROVE  /\ Effective(h).ports \cap Open # {}
         /\ Admits(Restarted(h))
<1>1. h.conf \in Conf /\ h.drop \in Files(SUBSET Ports) /\ Default \in Open
  BY NodePortAssumption DEF Host
<1>2. Effective(h).ports \cap Open # {}
  <2> DEFINE ports == h.conf.ports \cup IF h.conf.include THEN UNION h.drop ELSE {}
  <2>1. Effective(h).ports = IF ports = {} THEN {Default} ELSE ports
    BY DEF Effective
  <2>2. CASE h.conf.include /\ h.drop # {}
    <3>1. PICK p \in h.drop : p \cap Open # {}
      BY <2>2 DEF Admits
    <3>2. p \subseteq ports
      BY <2>2
    <3>3. QED
      BY <2>1, <3>1, <3>2
  <2>3. CASE ~(h.conf.include /\ h.drop # {})
    <3>1. ports = h.conf.ports
      BY <2>3
    <3>2. ports \subseteq {Default}
      BY <3>1 DEF Admits
    <3>3. QED
      BY <1>1, <2>1, <3>2
  <2>4. QED
    BY <2>2, <2>3
<1>3. /\ Restarted(h).conf = h.conf /\ Restarted(h).confSaved = h.confSaved
      /\ Restarted(h).drop = h.drop /\ Restarted(h).dropSaved = h.dropSaved
      /\ Restarted(h).hard = h.hard /\ Restarted(h).key = h.key /\ Restarted(h).live = Effective(h)
  BY DEF Restarted, Host
<1>4. ~Effective(h).passwords => h.hard
  BY EffectiveType
<1>5. QED
  BY <1>2, <1>3, <1>4 DEF Admits

\* The lines of the four scripts leave files of the right type, which admit with the key
\* of the panel where the login of the script is at an open port.
Line(h) == h \in Host /\ (Admits(host) /\ host.key => Admits(h) /\ h.key)

LEMMA PrepareLines ==
  ASSUME host \in Host, NEW old \in Ports, NEW new \in Ports, old \in Open,
         NEW h \in ToSet(PrepareScript(old, new).hosts) \cup PrepareScript(old, new).refused
  PROVE  Line(h)
<1> DEFINE saved == [host EXCEPT !.confSaved = {host.conf}]
           both == SavedDrop(saved)
           quiet == [Included(both) EXCEPT !.conf.ports = {}]
           written == [quiet EXCEPT !.drop = Prepared(old, new)]
<1>1. ToSet(PrepareScript(old, new).hosts) = {host, saved, both, Included(both), quiet, written, Restarted(written)}
  <2>1. PrepareScript(old, new).hosts = <<host, saved, both, Included(both), quiet, written, Restarted(written)>>
    BY Zenon DEF PrepareScript, Script
  <2> HIDE DEF saved, both, quiet, written
  <2>2. QED
    BY <2>1, SevenLines
<1>2. PrepareScript(old, new).refused \subseteq {written}
  BY DEF PrepareScript, Script
<1>3. Line(host)
  BY DEF Line
<1>4. Line(saved)
  BY DEF Line, Host, Files, Admits
<1>5. Line(both)
  BY DEF SavedDrop, Line, Host, Files, Admits
<1>6. Line(Included(both))
  <2>1. Included(both) = [both EXCEPT !.conf = [both.conf EXCEPT !.include = TRUE]]
    BY <1>5 DEF Included, Line, Host
  <2>2. [both.conf EXCEPT !.include = TRUE] \in Conf /\ [both.conf EXCEPT !.include = TRUE].ports = both.conf.ports
    BY <1>5 DEF Line, Host, Conf
  <2>3. QED
    <3> DEFINE conf == [both.conf EXCEPT !.include = TRUE]
               h2 == [both EXCEPT !.conf = conf]
    <3>1. both \in Host /\ conf \in Conf /\ conf.ports = both.conf.ports
      BY <1>5, <2>2 DEF Line
    <3> HIDE DEF both, conf
    <3>2. h2 \in Host
      BY <3>1 DEF Host
    <3>3. /\ h2.conf = conf /\ h2.confSaved = both.confSaved /\ h2.drop = both.drop /\ h2.dropSaved = both.dropSaved
          /\ h2.live = both.live /\ h2.hard = both.hard /\ h2.key = both.key
      BY <3>1 DEF Host
    <3> HIDE DEF h2
    <3>4. Admits(both) => Admits(h2)
      BY <3>1, <3>3 DEF Admits
    <3>5. Line(h2)
      BY <1>5, <3>2, <3>3, <3>4 DEF Line
    <3>6. QED
      BY <2>1, <3>5 DEF h2, conf
<1>7. Line(quiet)
  <2>1. quiet = [Included(both) EXCEPT !.conf = [Included(both).conf EXCEPT !.ports = {}]]
    BY <1>6 DEF Line, Host
  <2>2. [Included(both).conf EXCEPT !.ports = {}] \in Conf /\ [Included(both).conf EXCEPT !.ports = {}].ports = {}
    BY <1>6 DEF Line, Host, Conf
  <2>3. QED
    BY <1>6, <2>1, <2>2 DEF Line, Host, Admits
<1>8. Line(written)
  <2>1. Prepared(old, new) \in Files(SUBSET Ports) /\ \A p \in Prepared(old, new) : p \cap Open # {}
    BY DEF Prepared, Files
  <2>2. QED
    BY <1>7, <2>1 DEF Line, Host, Admits
<1>9. Line(Restarted(written))
  BY <1>8, EffectiveType, AdmitsRestarted DEF Line, Restarted, Host
<1>10. QED
  BY <1>1, <1>2, <1>3, <1>4, <1>5, <1>6, <1>7, <1>8, <1>9

\* The files that a rollback leaves.
LEMMA RestoredType ==
  ASSUME NEW h \in Host
  PROVE  /\ Restored(h) \in Host /\ RestoredConf(h) \in Host
         /\ Restored(h).drop = h.dropSaved /\ Restored(h).hard = h.hard /\ Restored(h).live = h.live
         /\ Restored(h).key = h.key /\ RestoredConf(h).key = h.key
         /\ \A c : h.confSaved = {c} => Restored(h).conf = c
         /\ Admits(h) => Admits(RestoredConf(h)) /\ Admits(Restored(h))
<1> DEFINE conf == IF h.confSaved = {} THEN h.conf ELSE CHOOSE c \in h.confSaved : TRUE
<1>1. conf \in {h.conf} \cup h.confSaved /\ \A c : h.confSaved = {c} => conf = c
  OBVIOUS
<1>2. conf \in Conf /\ h.dropSaved \in Files(SUBSET Ports)
  BY <1>1 DEF Host, Files
<1>3. RestoredConf(h) = [h EXCEPT !.conf = conf] /\ Restored(h) = [[h EXCEPT !.conf = conf] EXCEPT !.drop = h.dropSaved]
  BY DEF RestoredConf, Restored, RestoredDrop, Host
<1>4. QED
  BY <1>1, <1>2, <1>3, ZenonT(30) DEF Host, Admits

LEMMA RollbackLines ==
  ASSUME host \in Host, NEW h \in ToSet(RollbackScript.hosts) \cup RollbackScript.refused
  PROVE  Line(h)
<1>1. ToSet(RollbackScript.hosts) = {host, RestoredConf(host), Restored(host), Restarted(Restored(host))}
  BY FourLines DEF RollbackScript, Script, Restored
<1>2. RollbackScript.refused \subseteq {Restored(host)}
  BY DEF RollbackScript, Script, Restored
<1>3. Line(host) /\ Line(RestoredConf(host)) /\ Line(Restored(host))
  BY RestoredType DEF Line
<1>4. Line(Restarted(Restored(host)))
  BY <1>3, EffectiveType, AdmitsRestarted DEF Line, Restarted, Host
<1>5. QED
  BY <1>1, <1>2, <1>3, <1>4

LEMMA FinalizeLines ==
  ASSUME host \in Host, NEW new \in Ports, new \in Open,
         NEW h \in ToSet(FinalizeScript(new).hosts) \cup FinalizeScript(new).refused
  PROVE  Line(h)
<1> DEFINE written == [host EXCEPT !.drop = {{new}}]
           last == [Restarted(written) EXCEPT !.confSaved = {}, !.dropSaved = {}]
<1>1. ToSet(FinalizeScript(new).hosts) = {host, written, Restarted(written), last}
  <2>1. FinalizeScript(new).hosts = <<host, written, Restarted(written), last>>
    BY Zenon DEF FinalizeScript, Script
  <2> HIDE DEF written, last
  <2>2. QED
    BY <2>1, FourLines
<1>2. FinalizeScript(new).refused \subseteq {written}
  BY DEF FinalizeScript, Script
<1>3. Line(host) /\ Line(written)
  BY DEF Line, Host, Files, Admits
<1>4. Line(Restarted(written))
  BY <1>3, EffectiveType, AdmitsRestarted DEF Line, Restarted, Host
<1>5. Line(last)
  BY <1>4 DEF Line, Host, Files, Admits
<1>6. QED
  BY <1>1, <1>2, <1>3, <1>4, <1>5

LEMMA LockLines ==
  ASSUME host \in Host, NEW h \in ToSet(LockScript.hosts) \cup LockScript.refused
  PROVE  Line(h)
<1> DEFINE written == Hardened(host)
<1>1. ToSet(LockScript.hosts) =
        {host, Included(host), written, [written EXCEPT !.conf = host.conf], Restarted(written)}
  BY FiveLines DEF LockScript, Script
<1>2. LockScript.refused \subseteq {host, Restarted(host)}
  BY DEF LockScript, Script
<1>3. Line(host) /\ Line(Restarted(host))
  BY EffectiveType, AdmitsRestarted DEF Line, Restarted, Host
<1>4. Line(Included(host))
  <2>1. Included(host) = [host EXCEPT !.conf = [host.conf EXCEPT !.include = TRUE]]
    BY DEF Included, Host
  <2>2. [host.conf EXCEPT !.include = TRUE] \in Conf /\ [host.conf EXCEPT !.include = TRUE].ports = host.conf.ports
    BY DEF Host, Conf
  <2>3. QED
    BY <2>1, <2>2 DEF Line, Host, Admits
<1>5. Line(written)
  BY <1>4 DEF Hardened, Line, Host, Admits
<1>6. Line([written EXCEPT !.conf = host.conf])
  BY <1>3, <1>5 DEF Line, Host, Admits
<1>7. Line(Restarted(written))
  BY <1>5, EffectiveType, AdmitsRestarted DEF Line, Restarted, Host
<1>8. QED
  BY <1>1, <1>2, <1>3, <1>4, <1>5, <1>6, <1>7

\* A run of a script changes nothing when the login fails, runs all of it when it reports
\* success, and stops where sshd refuses when no connection is cut.
LEMMA RunsOf ==
  ASSUME NEW script, NEW port, NEW r \in Runs(script, port)
  PROVE  /\ r.host = host \/ (Reaches(port) /\ r.host \in {Last(script.hosts)} \cup ToSet(script.hosts) \cup script.refused)
         /\ r.ok => Reaches(port) /\ r.host = Last(script.hosts)
         /\ ~setting.cut /\ Reaches(port) /\ ~r.ok => r.host \in script.refused
         /\ ~Reaches(port) => ~r.ok
<1>1. CASE Reaches(port)
  <2>1. CASE r.ok /\ r.host = Last(script.hosts)
    BY <1>1, <2>1
  <2>2. CASE ~r.ok /\ r.host \in script.refused \cup IF setting.cut THEN ToSet(script.hosts) ELSE {}
    BY <1>1, <2>2
  <2>3. QED
    BY <1>1, <2>1, <2>2 DEF Runs
<1>2. CASE ~Reaches(port)
  BY <1>2 DEF Runs
<1>3. QED
  BY <1>1, <1>2

-----------------------------------------------------------------------------
(* Types, and a host that admits.                                          *)

\* The steps of the jobs that change the host leave a host that admits, and move on.
LEMMA WorkStep ==
  ASSUME TypeOK, Admits(host), NEW j \in Jobs, SyncNodeKey(j) \/ LockNodePassword(j) \/ ChangeNodePort(j)
  PROVE  /\ host' \in Host /\ Admits(host') /\ entry' = entry /\ env' = env
         /\ \E step \in Steps \ {"new", "queued", "copy"} : Goto(j, step)
<1>0. host \in Host /\ jobs[j].node.port \in Ports /\ jobs[j].newPort \in Ports
  BY DEF TypeOK, Job, Entry
<1>1. ASSUME NEW at, NEW port, NEW then \in Steps \ {"new", "queued", "copy"},
             NEW otherwise \in Steps \ {"new", "queued", "copy"}, Probe(j, at, port, then, otherwise)
      PROVE  /\ host' \in Host /\ Admits(host') /\ entry' = entry /\ env' = env
             /\ \E step \in Steps \ {"new", "queued", "copy"} : Goto(j, step)
  BY <1>0, <1>1 DEF Probe
<1>2. ASSUME NEW at, NEW script, NEW port \in Ports, NEW then \in Steps \ {"new", "queued", "copy"},
             NEW otherwise \in Steps \ {"new", "queued", "copy"}, RunScript(j, at, script, port, then, otherwise),
             port \in Open => Line(Last(script.hosts)) /\ \A h \in ToSet(script.hosts) \cup script.refused : Line(h)
      PROVE  /\ host' \in Host /\ Admits(host') /\ entry' = entry /\ env' = env
             /\ \E step \in Steps \ {"new", "queued", "copy"} : Goto(j, step)
  <2>1. PICK r \in Runs(script, port) : host' = r.host /\ Goto(j, IF r.ok THEN then ELSE otherwise)
    BY <1>2 DEF RunScript
  <2>2. host' = host \/ (port \in Open /\ host.key /\ Line(host'))
    BY <1>2, <2>1, RunsOf DEF Reaches
  <2>3. host' \in Host /\ Admits(host')
    BY <1>0, <2>2 DEF Line
  <2>4. QED
    BY <1>2, <2>1, <2>3 DEF RunScript
<1>3. CASE SyncNodeKey(j)
  <2>1. CASE CopyKey(j)
    BY <1>0, <2>1 DEF CopyKey, Host, Admits, Steps
  <2>2. CASE Probe(j, "probeKey", jobs[j].node.port, "success", "failed")
    BY <1>1, <2>2 DEF Steps
  <2>3. QED
    BY <1>3, <2>1, <2>2 DEF SyncNodeKey
<1>4. CASE LockNodePassword(j)
  <2>1. CASE Probe(j, "probe", jobs[j].node.port, "lock", "failed")
    BY <1>1, <2>1 DEF Steps
  <2>2. CASE RunScript(j, "lock", LockScript, jobs[j].node.port, "success", "failed")
    <3>1. Last(LockScript.hosts) \in ToSet(LockScript.hosts)
      BY FiveLines DEF LockScript, Script
    <3>2. QED
      BY <1>0, <1>2, <2>2, <3>1, LockLines DEF Steps
  <2>3. QED
    BY <1>4, <2>1, <2>2 DEF LockNodePassword
<1>5. CASE ChangeNodePort(j)
  <2> DEFINE old == jobs[j].node.port
             new == jobs[j].newPort
  <2>1. CASE Probe(j, "probe", old, "prepare", "failed") \/ Probe(j, "probeNew", new, "finalize", "undo")
    BY <1>1, <2>1 DEF Steps
  <2>2. CASE Probe(j, "probeLast", new, "save", "failed") \/ Probe(j, "probeAfterError", new, "saveWithError", "failed")
    BY <1>1, <2>2 DEF Steps
  <2>3. CASE RunScript(j, "prepare", PrepareScript(old, new), old, "probeNew", "undo")
    <3>1. Last(PrepareScript(old, new).hosts) \in ToSet(PrepareScript(old, new).hosts)
      BY SevenLines DEF PrepareScript, Script
    <3>2. old \in Open =>
            /\ Line(Last(PrepareScript(old, new).hosts))
            /\ \A h \in ToSet(PrepareScript(old, new).hosts) \cup PrepareScript(old, new).refused : Line(h)
      BY <1>0, <3>1, PrepareLines
    <3>3. "probeNew" \in Steps \ {"new", "queued", "copy"} /\ "undo" \in Steps \ {"new", "queued", "copy"}
      BY DEF Steps
    <3>4. QED
      BY <1>0, <1>2, <2>3, <3>2, <3>3
  <2>4. CASE RunScript(j, "undo", RollbackScript, old, "rolledBack", "failed")
    <3>1. Last(RollbackScript.hosts) \in ToSet(RollbackScript.hosts)
      BY FourLines DEF RollbackScript, Script
    <3>2. QED
      BY <1>0, <1>2, <2>4, <3>1, RollbackLines DEF Steps
  <2>5. CASE RunScript(j, "finalize", FinalizeScript(new), new, "probeLast", "probeAfterError")
    <3>1. Last(FinalizeScript(new).hosts) \in ToSet(FinalizeScript(new).hosts)
      BY FourLines DEF FinalizeScript, Script
    <3>2. new \in Open =>
            /\ Line(Last(FinalizeScript(new).hosts))
            /\ \A h \in ToSet(FinalizeScript(new).hosts) \cup FinalizeScript(new).refused : Line(h)
      BY <1>0, <3>1, FinalizeLines
    <3>3. "probeLast" \in Steps \ {"new", "queued", "copy"} /\ "probeAfterError" \in Steps \ {"new", "queued", "copy"}
      BY DEF Steps
    <3>4. QED
      BY <1>0, <1>2, <2>5, <3>2, <3>3
  <2>6. QED
    BY <1>5, <2>1, <2>2, <2>3, <2>4, <2>5 DEF ChangeNodePort
<1>6. QED
  BY <1>3, <1>4, <1>5

\* The types, and that the host admits, are kept by every step.
LEMMA TypeStep ==
  ASSUME TypeOK, Admits(host), [Next]_vars
  PROVE  TypeOK' /\ Admits(host')
<1>0. /\ host \in Host /\ jobs \in [Jobs -> Job] /\ entry \subseteq Entry /\ Cardinality(entry) <= 1
      /\ setting \in Setting /\ setting.edits \in Nat /\ edits \in 0 .. setting.edits
      /\ crashes \in 0 .. setting.crashes /\ setting.crashes \in Nat
  BY NodePortAssumption DEF TypeOK, Setting
<1>1. ASSUME NEW j \in Jobs, SyncNodeKey(j) \/ LockNodePassword(j) \/ ChangeNodePort(j)
      PROVE  TypeOK' /\ Admits(host')
  <2>1. /\ host' \in Host /\ Admits(host') /\ entry' = entry /\ env' = env
        /\ \E step \in Steps \ {"new", "queued", "copy"} : Goto(j, step)
    BY <1>1, WorkStep
  <2>2. jobs' \in [Jobs -> Job]
    BY <1>0, <2>1 DEF Goto, Job, Entry, env
  <2>3. QED
    BY <2>1, <2>2 DEF TypeOK, env, Entry, Job
<1>2. ASSUME NEW j \in Jobs, NEW kind \in Kinds, NEW p \in Ports, Request(j, kind, p)
      PROVE  TypeOK' /\ Admits(host')
  <2>1. /\ host' = host /\ entry' = entry /\ env' = env
        /\ \E e \in entry : jobs' = [jobs EXCEPT ![j] = [kind |-> kind, step |-> IF kind = "key" THEN "copy" ELSE "queued",
                                                       node |-> e, newPort |-> p, before |-> Effective(host)]]
    BY <1>2 DEF Request
  <2>2. jobs' \in [Jobs -> Job]
    <3>1. PICK e \in entry : jobs' = [jobs EXCEPT ![j] = [kind |-> kind, step |-> IF kind = "key" THEN "copy" ELSE "queued",
                                                       node |-> e, newPort |-> p, before |-> Effective(host)]]
      BY <2>1
    <3>2. [kind |-> kind, step |-> IF kind = "key" THEN "copy" ELSE "queued",
           node |-> e, newPort |-> p, before |-> Effective(host)] \in Job
      BY <1>0, EffectiveType DEF Job, Steps
    <3>3. QED
      BY <1>0, <3>1, <3>2
  <2>3. QED
    BY <2>1, <2>2 DEF TypeOK, env, Entry, Job
<1>3. ASSUME NEW j \in Jobs, Begin(j)
      PROVE  TypeOK' /\ Admits(host')
  <2>1. jobs' \in [Jobs -> Job]
    <3>1. [[jobs[j] EXCEPT !.step = "probe"] EXCEPT !.before = Effective(host)] \in Job
      <4>1. Effective(host) \in Daemon /\ [jobs[j] EXCEPT !.step = "probe"] \in Job
        BY <1>0, EffectiveType DEF Job, Steps
      <4>2. \A job \in Job, daemon \in Daemon : [job EXCEPT !.before = daemon] \in Job
        BY DEF Job
      <4>3. QED
        BY <4>1, <4>2, Zenon
    <3>2. jobs' = [jobs EXCEPT ![j] = [[jobs[j] EXCEPT !.step = "probe"] EXCEPT !.before = Effective(host)]]
      BY <1>0, <1>3 DEF Begin
    <3>3. QED
      BY <1>0, <3>1, <3>2
  <2>2. QED
    BY <1>3, <2>1 DEF Begin, TypeOK, env, Entry, Job
<1>4. ASSUME NEW j \in Jobs, SaveNode(j)
      PROVE  TypeOK' /\ Admits(host')
  <2>1. jobs' \in [Jobs -> Job]
    BY <1>0, <1>4 DEF SaveNode, Goto, Job, Steps
  <2>2. jobs[j].node \in Entry /\ jobs[j].newPort \in Ports
    BY <1>0 DEF Job
  <2>3. \/ entry' = entry
        \/ /\ entry' = {[jobs[j].node EXCEPT !.port = jobs[j].newPort]}
           /\ [jobs[j].node EXCEPT !.port = jobs[j].newPort] \in Entry
    BY <1>4, <2>2 DEF SaveNode, UpsertNode, Entry
  <2>4. entry' \subseteq Entry /\ Cardinality(entry') <= 1
    BY <1>0, <2>3, FS_Singleton DEF TypeOK
  <2>5. QED
    BY <1>4, <2>1, <2>4 DEF SaveNode, TypeOK, env, Entry, Job
<1>5. ASSUME NEW p \in Ports, AddNode(p)
      PROVE  TypeOK' /\ Admits(host')
  <2>1. edits + 1 \in 0 .. setting.edits
    BY <1>0, <1>5 DEF AddNode
  <2>2. entry' = {[port |-> p, version |-> edits + 1]} /\ [port |-> p, version |-> edits + 1] \in Entry
    BY <1>5, <2>1 DEF AddNode, Entry
  <2>3. entry' \subseteq Entry /\ Cardinality(entry') = 1
    BY <2>2, FS_Singleton
  <2>4. QED
    BY <1>5, <2>1, <2>3 DEF AddNode, TypeOK, Entry, Job
<1>6. CASE DeleteNode
  <2>1. edits + 1 \in 0 .. setting.edits
    BY <1>0, <1>6 DEF DeleteNode
  <2>2. QED
    BY <1>6, <2>1, FS_EmptySet DEF DeleteNode, TypeOK, Entry, Job
<1>7. CASE Crash
  <2>1. crashes + 1 \in 0 .. setting.crashes
    BY <1>0, <1>7 DEF Crash
  <2>2. jobs' \in [Jobs -> Job]
    <3>1. \A j \in Jobs : [jobs[j] EXCEPT !.step = "failed"] \in Job
      BY <1>0 DEF Job, Steps
    <3>2. QED
      BY <1>0, <1>7, <3>1 DEF Crash
  <2>3. QED
    BY <1>7, <2>1, <2>2 DEF Crash, TypeOK, Entry, Job
<1>8. CASE UNCHANGED vars
  BY <1>8 DEF vars, env, TypeOK, Entry, Job
<1>9. QED
  BY <1>1, <1>2, <1>3, <1>4, <1>5, <1>6, <1>7, <1>8 DEF Next

-----------------------------------------------------------------------------
(* One job at a time works on the host.                                    *)

\* A job that goes on.
LEMMA GotoStep ==
  ASSUME TypeOK, NEW j \in Jobs, NEW step, Goto(j, step)
  PROVE  /\ jobs'[j].step = step /\ jobs'[j].kind = jobs[j].kind /\ jobs'[j].node = jobs[j].node
         /\ jobs'[j].newPort = jobs[j].newPort /\ jobs'[j].before = jobs[j].before
         /\ \A i \in Jobs \ {j} : jobs'[i] = jobs[i]
BY DEF TypeOK, Job, Goto

\* A job stays within the steps of its kind.
LEMMA GotoJobs ==
  ASSUME TypeOK, JobsInv, NEW j \in Jobs, NEW step, Goto(j, step), step \notin {"copy", "probe"},
         step = "probeKey" => jobs[j].step = "copy",
         step = "lock" => jobs[j].kind = "lock",
         step \in Running \ {"lock"} => jobs[j].kind = "port",
         step \in Running => jobs[j].step \in Running
  PROVE  JobsInv'
<1>1. /\ jobs'[j].step = step /\ jobs'[j].kind = jobs[j].kind
      /\ \A i \in Jobs \ {j} : jobs'[i] = jobs[i]
  BY GotoStep
<1>2. \A i, k \in Jobs : jobs'[i].step \in Running /\ jobs'[k].step \in Running => i = k
  BY <1>1 DEF JobsInv
<1>3. \A i \in Jobs :
        /\ jobs'[i].step \in {"copy", "probeKey"} => jobs'[i].kind = "key"
        /\ jobs'[i].step = "lock" => jobs'[i].kind = "lock"
        /\ jobs'[i].step \in Running \ {"probe", "lock"} => jobs'[i].kind = "port"
  BY <1>1 DEF JobsInv, Running
<1>4. QED
  BY <1>2, <1>3 DEF JobsInv, Running

LEMMA JobsStep ==
  ASSUME TypeOK, JobsInv, [Next]_vars
  PROVE  JobsInv'
<1>0. jobs \in [Jobs -> Job]
  BY DEF TypeOK
<1>1. ASSUME NEW j \in Jobs, NEW at, NEW port, NEW then, NEW otherwise, Probe(j, at, port, then, otherwise)
      PROVE  jobs[j].step = at /\ (Goto(j, then) \/ Goto(j, otherwise))
  BY <1>1 DEF Probe
<1>2. ASSUME NEW j \in Jobs, NEW at, NEW script, NEW port, NEW then, NEW otherwise,
             RunScript(j, at, script, port, then, otherwise)
      PROVE  jobs[j].step = at /\ (Goto(j, then) \/ Goto(j, otherwise))
  BY <1>2 DEF RunScript
<1>3. ASSUME NEW j \in Jobs, SyncNodeKey(j)
      PROVE  JobsInv'
  <2>1. CASE CopyKey(j)
    BY <2>1, GotoJobs DEF CopyKey, Running
  <2>2. CASE Probe(j, "probeKey", jobs[j].node.port, "success", "failed")
    BY <1>1, <2>2, GotoJobs DEF Running
  <2>3. QED
    BY <1>3, <2>1, <2>2 DEF SyncNodeKey
<1>4. ASSUME NEW j \in Jobs, LockNodePassword(j)
      PROVE  JobsInv'
  <2>1. CASE jobs[j].kind = "lock" /\ Probe(j, "probe", jobs[j].node.port, "lock", "failed")
    BY <1>1, <2>1, GotoJobs DEF Running
  <2>2. CASE RunScript(j, "lock", LockScript, jobs[j].node.port, "success", "failed")
    BY <1>2, <2>2, GotoJobs DEF Running
  <2>3. QED
    BY <1>4, <2>1, <2>2 DEF LockNodePassword
<1>5. ASSUME NEW j \in Jobs, ChangeNodePort(j)
      PROVE  JobsInv'
  <2> DEFINE old == jobs[j].node.port
             new == jobs[j].newPort
  <2>1. CASE jobs[j].kind = "port" /\ Probe(j, "probe", old, "prepare", "failed")
    BY <1>1, <2>1, GotoJobs DEF Running
  <2>2. ASSUME jobs[j].step \in Running \ {"probe", "lock"},
               NEW step \in {"probeNew", "undo", "rolledBack", "failed", "finalize", "probeLast", "probeAfterError",
                             "save", "saveWithError"}, Goto(j, step)
        PROVE  JobsInv'
    <3>1. jobs[j].kind = "port"
      BY <2>2 DEF JobsInv
    <3>2. QED
      BY <2>2, <3>1, GotoJobs DEF Running
  <2>3. CASE RunScript(j, "prepare", PrepareScript(old, new), old, "probeNew", "undo")
    BY <1>2, <2>2, <2>3 DEF Running
  <2>4. CASE RunScript(j, "undo", RollbackScript, old, "rolledBack", "failed")
    BY <1>2, <2>2, <2>4 DEF Running
  <2>5. CASE Probe(j, "probeNew", new, "finalize", "undo")
    BY <1>1, <2>2, <2>5 DEF Running
  <2>6. CASE RunScript(j, "finalize", FinalizeScript(new), new, "probeLast", "probeAfterError")
    BY <1>2, <2>2, <2>6 DEF Running
  <2>7. CASE Probe(j, "probeLast", new, "save", "failed")
    BY <1>1, <2>2, <2>7 DEF Running
  <2>8. CASE Probe(j, "probeAfterError", new, "saveWithError", "failed")
    BY <1>1, <2>2, <2>8 DEF Running
  <2>9. QED
    BY <1>5, <2>1, <2>3, <2>4, <2>5, <2>6, <2>7, <2>8 DEF ChangeNodePort
<1>6. ASSUME NEW j \in Jobs, SaveNode(j)
      PROVE  JobsInv'
  <2>1. Goto(j, "success") \/ Goto(j, "failed") \/ Goto(j, "unsaved")
    BY <1>6 DEF SaveNode
  <2>2. QED
    BY <2>1, GotoJobs DEF Running
<1>7. ASSUME NEW j \in Jobs, NEW kind \in Kinds, NEW p \in Ports, Request(j, kind, p)
      PROVE  JobsInv'
  <2>1. /\ jobs'[j].step \in {"copy", "queued"} /\ (jobs'[j].step = "copy" => jobs'[j].kind = "key")
        /\ \A i \in Jobs \ {j} : jobs'[i] = jobs[i]
    BY <1>0, <1>7 DEF Request
  <2>2. QED
    BY <2>1 DEF JobsInv, Running
<1>8. ASSUME NEW j \in Jobs, Begin(j)
      PROVE  JobsInv'
  <2>1. /\ jobs'[j].step = "probe" /\ \A i \in Jobs \ {j} : jobs'[i] = jobs[i]
        /\ \A i \in Jobs : jobs[i].step \notin Running
    BY <1>0, <1>8 DEF Begin, Free, Job
  <2>2. QED
    BY <2>1 DEF JobsInv, Running
<1>9. CASE Crash
  <2>1. \A i \in Jobs : jobs'[i].step = "failed" \/ jobs'[i] = jobs[i]
    BY <1>0, <1>9 DEF Crash, Job
  <2>2. QED
    BY <2>1 DEF JobsInv, Running
<1>10. CASE jobs' = jobs
  BY <1>10 DEF JobsInv
<1>11. QED
  BY <1>3, <1>4, <1>5, <1>6, <1>7, <1>8, <1>9, <1>10 DEF Next, vars, AddNode, DeleteNode

-----------------------------------------------------------------------------
(* What jobs know of the host when no connection is cut.                   *)

\* A job that does not work on the host need know nothing.
LEMMA IdleKnows ==
  ASSUME NEW h, NEW job, job.step \notin Running
  PROVE  Known(h, job)
BY DEF Known, Running

\* A job that works on the host goes on: the others know nothing, and no password
\* logins have been ended but by this job.
LEMMA UncutGoto ==
  ASSUME TypeOK, JobsInv, UncutInv, ~setting.cut, NEW j \in Jobs, NEW step, Goto(j, step), setting' = setting,
         jobs[j].step \in Running, Read(host'), LockDone' => Locked(host'),
         step = "success" => jobs[j].kind # "lock" \/ Locked(host'),
         step \in Running => step # "success" /\ Known(host', jobs'[j])
  PROVE  UncutInv'
<1>1. /\ jobs'[j].step = step /\ jobs'[j].kind = jobs[j].kind /\ jobs'[j].before = jobs[j].before
      /\ \A i \in Jobs \ {j} : jobs'[i] = jobs[i]
  BY GotoStep
<1>2. \A i \in Jobs \ {j} : jobs[i].step \notin Running
  BY DEF JobsInv
<1>3. \A i \in Jobs : Known(host', jobs'[i])
  BY <1>1, <1>2, IdleKnows
<1>4. ASSUME LockDone', NEW i \in Jobs, jobs'[i].step \in Running
      PROVE  ~jobs'[i].before.passwords
  <2>1. i = j /\ step \in Running
    BY <1>1, <1>2, <1>4
  <2>2. LockDone
    BY <1>1, <1>4, <2>1 DEF LockDone
  <2>3. QED
    BY <1>1, <2>1, <2>2 DEF UncutInv
<1>5. QED
  BY <1>3, <1>4 DEF UncutInv, Known

\* Unless a lock succeeds, no new password logins are ended.
LEMMA LocksKept ==
  ASSUME TypeOK, NEW j \in Jobs, NEW step, Goto(j, step), step # "success" \/ jobs[j].kind # "lock"
  PROVE  LockDone' => LockDone
BY GotoStep DEF LockDone

\* A login by key that works on the host leaves it alone.
LEMMA ProbeUncut ==
  ASSUME TypeOK, JobsInv, UncutInv, ~setting.cut, NEW j \in Jobs, NEW step, Goto(j, step), UNCHANGED <<host, setting>>,
         jobs[j].step \in Running, step # "success", step \in Running => Known(host, jobs'[j])
  PROVE  UncutInv'
<1>1. LockDone' => LockDone
  BY LocksKept
<1>2. Read(host') /\ (LockDone' => Locked(host'))
  BY <1>1 DEF UncutInv
<1>3. QED
  BY <1>2, UncutGoto

\* lockNodePassword, when no connection is cut.
LEMMA LockUncut ==
  ASSUME TypeOK, JobsInv, UncutInv, ~setting.cut, NEW j \in Jobs, LockNodePassword(j)
  PROVE  UncutInv'
<1>0. host \in Host /\ Read(host) /\ setting' = setting
  BY DEF TypeOK, UncutInv, LockNodePassword, Probe, RunScript, env
<1>1. CASE Probe(j, "probe", jobs[j].node.port, "lock", "failed")
  <2>1. PICK step \in {"lock", "failed"} : Goto(j, step)
    BY <1>1 DEF Probe
  <2>2. step \in Running => Known(host, jobs'[j])
    <3>1. Known(host, jobs[j]) /\ jobs[j].step = "probe"
      BY <1>1 DEF UncutInv, Probe
    <3>2. QED
      BY <2>1, <3>1, GotoStep DEF Known, Running
  <2>3. UNCHANGED host /\ jobs[j].step \in Running
    BY <1>1 DEF Probe, Running
  <2>4. QED
    BY <1>0, <2>1, <2>2, <2>3, ProbeUncut
<1>2. CASE RunScript(j, "lock", LockScript, jobs[j].node.port, "success", "failed")
  <2>1. PICK r \in Runs(LockScript, jobs[j].node.port) : host' = r.host /\ Goto(j, IF r.ok THEN "success" ELSE "failed")
    BY <1>2 DEF RunScript
  <2>2. jobs[j].step = "lock" /\ jobs[j].step \in Running
    BY <1>2 DEF RunScript, Running
  <2>3. Last(LockScript.hosts) = Restarted(Hardened(host)) /\ LockScript.refused \subseteq {host, Restarted(host)}
    BY FiveLines DEF LockScript, Script
  <2>4. CASE r.ok
    <3>1. /\ Hardened(host) \in Host /\ Hardened(host).hard /\ Hardened(host).conf.include
          /\ Hardened(host).drop = host.drop
      BY <1>0 DEF Hardened, Included, Host, Conf
    <3>2. host' = [Hardened(host) EXCEPT !.live = Effective(Hardened(host))]
          /\ ~Effective(Hardened(host)).passwords
      BY <2>1, <2>3, <2>4, <3>1, RunsOf, EffectiveType
    <3>3. Locked(host') /\ Read(host')
      BY <3>1, <3>2 DEF Locked, Read, Host
    <3>4. QED
      BY <1>0, <2>1, <2>2, <2>4, <3>3, UncutGoto DEF Running
  <2>5. CASE ~r.ok
    <3>1. host' = host \/ host' = Restarted(host)
      BY <2>1, <2>3, <2>5, RunsOf
    <3>0. /\ host'.conf = host.conf /\ host'.drop = host.drop /\ host'.hard = host.hard
          /\ host'.live = host.live \/ host'.live = Effective(host)
      <4>1. Restarted(host) = [host EXCEPT !.live = Effective(host)]
        BY <1>0, EffectiveType
      <4>2. CASE host' = Restarted(host)
        BY <1>0, <4>1, <4>2 DEF Host
      <4>3. QED
        BY <3>1, <4>2
    <3>2. Read(host')
      BY <1>0, <3>0 DEF Read
    <3>3. LockDone' => LockDone
      BY <2>1, <2>5, LocksKept
    <3>4. LockDone => Locked(host')
      BY <1>0, <3>0, EffectiveType DEF UncutInv, Locked
    <3>5. QED
      BY <1>0, <2>1, <2>2, <2>5, <3>2, <3>3, <3>4, UncutGoto DEF Running
  <2>6. QED
    BY <2>4, <2>5
<1>3. QED
  BY <1>1, <1>2 DEF LockNodePassword

\* The first script of a migration, when no connection is cut: it opens the old port and
\* the new one, or stops before sshd starts again; the files it found can be restored.
LEMMA PrepareUncut ==
  ASSUME TypeOK, JobsInv, UncutInv, ~setting.cut, NEW j \in Jobs,
         RunScript(j, "prepare", PrepareScript(jobs[j].node.port, jobs[j].newPort), jobs[j].node.port, "probeNew", "undo")
  PROVE  UncutInv'
<1> DEFINE old == jobs[j].node.port
           new == jobs[j].newPort
           saved == [host EXCEPT !.confSaved = {host.conf}]
           both == SavedDrop(saved)
           quiet == [Included(both) EXCEPT !.conf.ports = {}]
           written == [quiet EXCEPT !.drop = Prepared(old, new)]
<1>0. /\ host \in Host /\ Read(host) /\ setting' = setting /\ jobs[j].step = "prepare" /\ jobs[j].step \in Running
      /\ Known(host, jobs[j]) /\ old \in Ports /\ new \in Ports
  BY DEF TypeOK, UncutInv, RunScript, env, Running, Job, Entry
<1>1. PICK r \in Runs(PrepareScript(old, new), old) : host' = r.host /\ Goto(j, IF r.ok THEN "probeNew" ELSE "undo")
  BY DEF RunScript
<1>2. Reaches(old) /\ old \in Open
  BY <1>0 DEF Known, Reaches
<1>3. /\ quiet \in Host /\ quiet.conf.include /\ quiet.conf.ports = {}
      /\ quiet.confSaved = {host.conf} /\ quiet.dropSaved = host.drop
      /\ quiet.hard = host.hard /\ quiet.key = host.key /\ quiet.live = host.live
  <2>1. /\ both \in Host /\ both.confSaved = {host.conf} /\ both.dropSaved = host.drop
        /\ both.hard = host.hard /\ both.key = host.key /\ both.live = host.live
    BY <1>0 DEF SavedDrop, Host, Files
  <2> HIDE DEF both
  <2>2. Included(both) = [both EXCEPT !.conf = [both.conf EXCEPT !.include = TRUE]]
    BY <2>1 DEF Included, Host
  <2>3. [both.conf EXCEPT !.include = TRUE] \in Conf /\ [both.conf EXCEPT !.include = TRUE].include
    BY <2>1 DEF Host, Conf
  <2>4. /\ Included(both) \in Host /\ Included(both).conf.include
        /\ Included(both).confSaved = {host.conf} /\ Included(both).dropSaved = host.drop
        /\ Included(both).hard = host.hard /\ Included(both).key = host.key /\ Included(both).live = host.live
    BY <2>1, <2>2, <2>3 DEF Host
  <2>5. quiet = [Included(both) EXCEPT !.conf = [Included(both).conf EXCEPT !.ports = {}]]
    BY <2>4 DEF Host
  <2>6. /\ [Included(both).conf EXCEPT !.ports = {}] \in Conf
        /\ [Included(both).conf EXCEPT !.ports = {}].ports = {} /\ [Included(both).conf EXCEPT !.ports = {}].include
    BY <2>4 DEF Host, Conf
  <2>7. QED
    BY <2>4, <2>5, <2>6 DEF Host
<1>4. /\ written \in Host /\ written.confSaved = {host.conf} /\ written.dropSaved = host.drop
      /\ written.drop = {{old, new}} /\ written.conf.include /\ written.conf.ports = {}
      /\ written.hard = host.hard /\ written.key = host.key /\ written.live = host.live
  <2> HIDE DEF quiet
  <2>1. {{old, new}} \in Files(SUBSET Ports)
    BY <1>0 DEF Files
  <2>2. QED
    BY <1>3, <2>1 DEF Prepared, Host
<1>5. PrepareScript(old, new).refused \subseteq {written} /\ Last(PrepareScript(old, new).hosts) = Restarted(written)
  <2>1. PrepareScript(old, new).hosts = <<host, saved, both, Included(both), quiet, written, Restarted(written)>>
    BY Zenon DEF PrepareScript, Script
  <2>2. PrepareScript(old, new).refused \subseteq {written}
    BY DEF PrepareScript, Script
  <2> HIDE DEF saved, both, quiet, written
  <2>3. QED
    BY <2>1, <2>2, SevenLines
<1> HIDE DEF saved, both, quiet, written, old, new
<1>6. Effective(written).ports = {old, new} /\ Effective(written) \in Daemon
      /\ Effective(written).passwords = ~(written.conf.include /\ written.hard)
  <2>1. UNION written.drop = {old, new} /\ written.conf.ports \cup UNION written.drop = {old, new} /\ {old, new} # {}
    BY <1>4
  <2>2. QED
    BY <1>4, <2>1, EffectiveType DEF Effective
<1>7. /\ host'.confSaved = {host.conf} /\ host'.dropSaved = host.drop /\ host'.conf.include /\ host'.conf.ports = {}
      /\ host'.hard = host.hard /\ host'.key = host.key /\ host' \in Host
      /\ (r.ok /\ host'.live = Effective(written)) \/ (~r.ok /\ host'.live = host.live)
  <2>1. CASE r.ok
    <3>1. host' = [written EXCEPT !.live = Effective(written)] /\ host' \in Host
      BY <1>1, <1>4, <1>5, <2>1, RunsOf, EffectiveType
    <3>2. QED
      BY <1>4, <2>1, <3>1 DEF Host
  <2>2. CASE ~r.ok
    <3>1. host' = written
      BY <1>1, <1>2, <1>5, <2>2, RunsOf
    <3>2. QED
      BY <1>4, <2>2, <3>1
  <2>3. QED
    BY <2>1, <2>2
<1>8. /\ Restored(host').conf = host.conf /\ Restored(host').drop = host.drop /\ Restored(host').hard = host.hard
      /\ host'.confSaved # {}
  BY <1>7, RestoredType
<1>9. Effective(Restored(host')) = jobs[j].before /\ Read(Restored(host'))
  BY <1>0, <1>8, EffectiveSame DEF Known, Read
<1>10. old \in host'.live.ports \cap Open /\ host'.key
  BY <1>0, <1>2, <1>6, <1>7 DEF Known, Reaches, old
<1>11. Known(host', jobs'[j])
  <2>1. jobs'[j].step \in {"probeNew", "undo"} /\ jobs'[j].node = jobs[j].node /\ jobs'[j].before = jobs[j].before
    BY <1>1, GotoStep
  <2>2. QED
    BY <1>7, <1>8, <1>9, <1>10, <2>1 DEF Known, old
<1>12. LockDone' => Locked(host')
  <2>1. LockDone' => LockDone
    BY <1>1, LocksKept
  <2>2. LockDone => ~host.live.passwords /\ host.hard
    BY DEF UncutInv, Locked
  <2>3. QED
    BY <1>4, <1>6, <1>7, <2>1, <2>2 DEF Locked
<1>13. Read(host')
  BY <1>7 DEF Read
<1>14. QED
  BY <1>0, <1>1, <1>11, <1>12, <1>13, UncutGoto DEF Running

\* A rollback, when no connection is cut: the files that the migration found are back,
\* and sshd has loaded them unless it refuses.
LEMMA UndoUncut ==
  ASSUME TypeOK, JobsInv, UncutInv, ~setting.cut, NEW j \in Jobs,
         RunScript(j, "undo", RollbackScript, jobs[j].node.port, "rolledBack", "failed")
  PROVE  /\ UncutInv'
         /\ jobs'[j].step = "rolledBack" => host'.live = jobs[j].before
         /\ host' = Restored(host) \/ (jobs'[j].step = "rolledBack" /\ host' = Restarted(Restored(host)))
         /\ "rollback" \notin setting.refused => jobs'[j].step = "rolledBack"
<1>0. /\ host \in Host /\ setting' = setting /\ jobs[j].step = "undo" /\ jobs[j].step \in Running
      /\ Known(host, jobs[j])
  BY DEF TypeOK, UncutInv, RunScript, env, Running, Job, Entry
<1>1. PICK r \in Runs(RollbackScript, jobs[j].node.port) : host' = r.host /\ Goto(j, IF r.ok THEN "rolledBack" ELSE "failed")
  BY DEF RunScript
<1>2. Reaches(jobs[j].node.port) /\ Read(Restored(host)) /\ Effective(Restored(host)) = jobs[j].before
  BY <1>0 DEF Known, Reaches
<1>3. /\ Last(RollbackScript.hosts) = Restarted(Restored(host)) /\ RollbackScript.refused \subseteq {Restored(host)}
      /\ "rollback" \notin setting.refused => RollbackScript.refused = {}
  BY FourLines DEF RollbackScript, Script, Restored
<1>4. /\ Restored(host) \in Host /\ Restored(host).hard = host.hard /\ Restored(host).live = host.live
      /\ Restarted(Restored(host)) = [Restored(host) EXCEPT !.live = Effective(Restored(host))]
      /\ Effective(Restored(host)).passwords = ~(Restored(host).conf.include /\ Restored(host).hard)
  BY <1>0, RestoredType, EffectiveType
<1>5. (r.ok /\ host' = Restarted(Restored(host))) \/ (~r.ok /\ host' = Restored(host))
  BY <1>1, <1>2, <1>3, RunsOf
<1>6. "rollback" \notin setting.refused => r.ok
  BY <1>1, <1>2, <1>3, RunsOf
<1>7. host'.conf = Restored(host).conf /\ host'.drop = Restored(host).drop /\ host'.hard = host.hard
      /\ (host'.live = host.live \/ host'.live = jobs[j].before) /\ (r.ok => host'.live = jobs[j].before)
  BY <1>2, <1>4, <1>5 DEF Host
<1>8. jobs'[j].step = IF r.ok THEN "rolledBack" ELSE "failed"
  BY <1>1, GotoStep
<1>9. LockDone' => Locked(host')
  <2>1. LockDone' => LockDone
    BY <1>1, LocksKept
  <2>2. LockDone => ~host.live.passwords /\ ~jobs[j].before.passwords /\ host.hard
    BY <1>0 DEF UncutInv, Locked
  <2>3. LockDone => Restored(host).conf.include
    BY <1>2, <1>4, <2>2 DEF Host
  <2>4. QED
    BY <1>7, <2>1, <2>2, <2>3 DEF Locked
<1>10. UncutInv'
  <2>1. Read(host')
    BY <1>2, <1>7 DEF Read
  <2>2. QED
    BY <1>0, <1>1, <1>9, <2>1, UncutGoto DEF Running
<1>11. QED
  BY <1>5, <1>6, <1>7, <1>8, <1>10

\* The last script of a migration, when no connection is cut: the new port is the only one
\* of the files, and answers.
LEMMA FinalizeUncut ==
  ASSUME TypeOK, JobsInv, UncutInv, ~setting.cut, NEW j \in Jobs,
         RunScript(j, "finalize", FinalizeScript(jobs[j].newPort), jobs[j].newPort, "probeLast", "probeAfterError")
  PROVE  UncutInv'
<1> DEFINE new == jobs[j].newPort
           written == [host EXCEPT !.drop = {{new}}]
           last == [Restarted(written) EXCEPT !.confSaved = {}, !.dropSaved = {}]
<1>0. /\ host \in Host /\ setting' = setting /\ jobs[j].step = "finalize" /\ jobs[j].step \in Running
      /\ Known(host, jobs[j]) /\ new \in Ports
  BY DEF TypeOK, UncutInv, RunScript, env, Running, Job, Entry
<1>1. PICK r \in Runs(FinalizeScript(new), new) : host' = r.host /\ Goto(j, IF r.ok THEN "probeLast" ELSE "probeAfterError")
  BY DEF RunScript
<1>2. Reaches(new) /\ host.conf.include /\ host.conf.ports = {} /\ new \in Open /\ host.key
  BY <1>0 DEF Known, Reaches
<1>3. /\ written \in Host /\ written.conf = host.conf /\ written.drop = {{new}} /\ written.hard = host.hard
      /\ written.key = host.key /\ written.live = host.live
  BY <1>0 DEF Host, Files
<1>4. Last(FinalizeScript(new).hosts) = last /\ FinalizeScript(new).refused \subseteq {written}
  <2>1. FinalizeScript(new).hosts = <<host, written, Restarted(written), last>>
    BY Zenon DEF FinalizeScript, Script
  <2>2. FinalizeScript(new).refused \subseteq {written}
    BY DEF FinalizeScript, Script
  <2> HIDE DEF written, last
  <2>3. QED
    BY <2>1, <2>2, FourLines
<1>5. Effective(written).ports = {new} /\ Effective(written).passwords = ~(written.conf.include /\ written.hard)
  <2>1. written.conf.ports \cup UNION written.drop = {new}
    BY <1>2, <1>3
  <2>2. QED
    BY <1>2, <1>3, <2>1, EffectiveType DEF Effective
<1>6. /\ last.conf = host.conf /\ last.drop = {{new}} /\ last.hard = host.hard /\ last.key = host.key
      /\ last.live = Effective(written)
  <2> HIDE DEF written
  <2>1. Restarted(written) = [written EXCEPT !.live = Effective(written)] /\ Restarted(written) \in Host
    BY <1>3, EffectiveType
  <2>2. QED
    BY <1>3, <2>1 DEF Host
<1> HIDE DEF written, last
<1>7. /\ host'.conf = host.conf /\ host'.drop = {{new}} /\ host'.hard = host.hard /\ host'.key = host.key
      /\ host'.live = host.live \/ host'.live = Effective(written)
  <2>1. CASE r.ok
    <3>1. host' = last
      BY <1>1, <1>4, <2>1, RunsOf
    <3>2. QED
      BY <1>6, <3>1
  <2>2. CASE ~r.ok
    <3>1. host' = written
      BY <1>1, <1>2, <1>4, <2>2, RunsOf
    <3>2. QED
      BY <1>3, <3>1
  <2>3. QED
    BY <2>1, <2>2
<1>8. Known(host', jobs'[j])
  <2>1. jobs'[j].step \in {"probeLast", "probeAfterError"} /\ jobs'[j].newPort = new
    BY <1>1, GotoStep
  <2>2. new \in host'.live.ports \cap Open
    BY <1>2, <1>5, <1>7 DEF Reaches
  <2>3. QED
    BY <1>2, <1>7, <2>1, <2>2 DEF Known
<1>9. LockDone' => Locked(host')
  <2>1. LockDone' => LockDone
    BY <1>1, LocksKept
  <2>2. LockDone => ~host.live.passwords /\ host.hard
    BY DEF UncutInv, Locked
  <2>3. QED
    BY <1>2, <1>3, <1>5, <1>7, <2>1, <2>2 DEF Locked
<1>10. QED
  <2>1. Read(host')
    BY <1>2, <1>7 DEF Read
  <2>2. QED
    BY <1>0, <1>1, <1>8, <1>9, <2>1, UncutGoto DEF Running

\* A key that is brought to the host disturbs no other job.
LEMMA KeyKnown ==
  ASSUME host \in Host, host' = [host EXCEPT !.key = TRUE], NEW job, Known(host, job)
  PROVE  Known(host', job)
<1>1. /\ host' \in Host /\ host'.key /\ host'.conf = host.conf /\ host'.drop = host.drop /\ host'.hard = host.hard
      /\ host'.live = host.live /\ host'.confSaved = host.confSaved /\ host'.dropSaved = host.dropSaved
  BY DEF Host
<1>2. Restored(host').conf = Restored(host).conf
  <2>1. RestoredConf(host').conf = RestoredConf(host).conf
    BY <1>1 DEF RestoredConf, Host
  <2>2. RestoredConf(host) \in Host /\ RestoredConf(host') \in Host
    BY <1>1, RestoredType
  <2>3. QED
    BY <2>1, <2>2 DEF Restored, RestoredDrop, Host
<1>3. Restored(host').drop = Restored(host).drop /\ Restored(host').hard = Restored(host).hard
  BY <1>1, RestoredType
<1>4. Effective(host') = Effective(host) /\ Effective(Restored(host')) = Effective(Restored(host))
  BY <1>1, <1>2, <1>3, EffectiveSame
<1>5. Read(Restored(host')) <=> Read(Restored(host))
  BY <1>2, <1>3 DEF Read
<1>6. QED
  BY <1>1, <1>4, <1>5 DEF Known

\* syncNodeKey waits for nobody, and brings a key at most.
LEMMA KeyUncut ==
  ASSUME TypeOK, JobsInv, UncutInv, ~setting.cut, NEW j \in Jobs, SyncNodeKey(j)
  PROVE  UncutInv'
<1>0. host \in Host
  BY DEF TypeOK
<1>1. /\ host' = host \/ host' = [host EXCEPT !.key = TRUE]
      /\ \E step \in {"probeKey", "success", "failed"} : Goto(j, step)
      /\ jobs[j].step \in {"copy", "probeKey"} /\ setting' = setting
  BY DEF SyncNodeKey, CopyKey, Probe, env
<1>2. PICK step \in {"probeKey", "success", "failed"} : Goto(j, step)
  BY <1>1
<1>3. jobs[j].kind = "key"
  BY <1>1 DEF JobsInv
<1>4. jobs'[j].step = step /\ \A i \in Jobs \ {j} : jobs'[i] = jobs[i]
  BY <1>2, GotoStep
<1>5. LockDone' => LockDone
  BY <1>2, <1>3, LocksKept
<1>6. Read(host') /\ (LockDone => Locked(host'))
  <2>1. host'.conf = host.conf /\ host'.drop = host.drop /\ host'.hard = host.hard /\ host'.live = host.live
    BY <1>0, <1>1 DEF Host
  <2>2. QED
    BY <2>1 DEF UncutInv, Read, Locked
<1>7. ASSUME NEW i \in Jobs
      PROVE  Known(host', jobs'[i]) /\ (LockDone' /\ jobs'[i].step \in Running => ~jobs'[i].before.passwords)
  <2>1. CASE i = j
    <3>1. jobs'[i].step \notin Running
      BY <1>2, <1>4, <2>1 DEF Running
    <3>2. QED
      BY <3>1, IdleKnows
  <2>2. CASE i # j
    <3>1. jobs'[i] = jobs[i] /\ Known(host, jobs[i])
      BY <1>4, <2>2 DEF UncutInv
    <3>2. Known(host', jobs[i])
      BY <1>0, <1>1, <3>1, KeyKnown
    <3>3. QED
      BY <1>5, <3>1, <3>2 DEF UncutInv
  <2>3. QED
    BY <2>1, <2>2
<1>8. QED
  BY <1>5, <1>6, <1>7 DEF UncutInv

\* changeNodePort, when no connection is cut.
LEMMA PortUncut ==
  ASSUME TypeOK, JobsInv, UncutInv, ~setting.cut, NEW j \in Jobs, ChangeNodePort(j)
  PROVE  UncutInv'
<1> DEFINE old == jobs[j].node.port
           new == jobs[j].newPort
<1>0. Known(host, jobs[j])
  BY DEF UncutInv
<1>1. ASSUME NEW at \in Running, NEW port, NEW then, NEW otherwise, Probe(j, at, port, then, otherwise),
             then # "success", otherwise # "success",
             Reaches(port) /\ then \in Running /\ Goto(j, then) => Known(host, jobs'[j]),
             ~Reaches(port) /\ otherwise \in Running /\ Goto(j, otherwise) => Known(host, jobs'[j])
      PROVE  UncutInv'
  BY <1>1, ProbeUncut DEF Probe, env
<1>2. CASE Probe(j, "probe", old, "prepare", "failed")
  <2>1. Reaches(old) /\ Goto(j, "prepare") => Known(host, jobs'[j])
    BY <1>0, <1>2, GotoStep DEF Known, Reaches, Probe
  <2>2. QED
    BY <1>1, <1>2, <2>1 DEF Running
<1>3. CASE Probe(j, "probeNew", new, "finalize", "undo")
  <2>1. /\ Reaches(new) /\ Goto(j, "finalize") => Known(host, jobs'[j])
        /\ Goto(j, "undo") => Known(host, jobs'[j])
    BY <1>0, <1>3, GotoStep DEF Known, Reaches, Probe
  <2>2. QED
    BY <1>1, <1>3, <2>1 DEF Running
<1>4. CASE Probe(j, "probeLast", new, "save", "failed")
  <2>1. Goto(j, "save") => Known(host, jobs'[j])
    BY <1>0, <1>4, GotoStep DEF Known, Probe
  <2>2. QED
    BY <1>1, <1>4, <2>1 DEF Running
<1>5. CASE Probe(j, "probeAfterError", new, "saveWithError", "failed")
  <2>1. Goto(j, "saveWithError") => Known(host, jobs'[j])
    BY <1>0, <1>5, GotoStep DEF Known, Probe
  <2>2. QED
    BY <1>1, <1>5, <2>1 DEF Running
<1>6. QED
  BY <1>2, <1>3, <1>4, <1>5, PrepareUncut, UndoUncut, FinalizeUncut DEF ChangeNodePort

LEMMA UncutStep ==
  ASSUME TypeOK, JobsInv, UncutInv, [Next]_vars
  PROVE  UncutInv'
<1>0. setting' = setting /\ host \in Host /\ jobs \in [Jobs -> Job]
  BY DEF TypeOK, Next, vars, env, SyncNodeKey, CopyKey, Probe, LockNodePassword, ChangeNodePort, RunScript, SaveNode,
         Request, Begin, AddNode, DeleteNode, Crash
<1> SUFFICES ASSUME ~setting.cut
             PROVE  UncutInv'
  BY <1>0 DEF UncutInv
<1>1. ASSUME NEW j \in Jobs, SaveNode(j)
      PROVE  UncutInv'
  <2>1. PICK step \in {"success", "failed", "unsaved"} : Goto(j, step)
    BY <1>1 DEF SaveNode
  <2>2. host' = host /\ jobs[j].step \in {"save", "saveWithError"}
    BY <1>1 DEF SaveNode
  <2>3. jobs[j].kind = "port"
    BY <2>2 DEF JobsInv, Running
  <2>4. LockDone' => LockDone
    BY <2>1, <2>3, LocksKept
  <2>5. Read(host') /\ (LockDone' => Locked(host'))
    BY <2>2, <2>4 DEF UncutInv
  <2>6. QED
    BY <1>0, <2>1, <2>2, <2>3, <2>5, UncutGoto DEF Running
<1>2. ASSUME NEW j \in Jobs, host' = host, \A i \in Jobs \ {j} : jobs'[i] = jobs[i],
             jobs'[j].step \notin Running \cup {"success"}
      PROVE  UncutInv'
  <2>1. \A i \in Jobs : jobs'[i] = jobs[i] \/ jobs'[i].step \notin Running \cup {"success"}
    BY <1>2 DEF Running
  <2>2. LockDone' => LockDone
    BY <2>1 DEF LockDone
  <2>3. \A i \in Jobs : Known(host', jobs'[i]) /\ (LockDone' /\ jobs'[i].step \in Running => ~jobs'[i].before.passwords)
    BY <1>2, <2>1, <2>2, IdleKnows DEF UncutInv
  <2>4. QED
    BY <1>2, <2>2, <2>3 DEF UncutInv
<1>3. ASSUME NEW j \in Jobs, NEW kind \in Kinds, NEW p \in Ports, Request(j, kind, p)
      PROVE  UncutInv'
  <2>1. host' = host /\ jobs'[j].step \in {"copy", "queued"} /\ \A i \in Jobs \ {j} : jobs'[i] = jobs[i]
    BY <1>0, <1>3 DEF Request
  <2>2. QED
    BY <1>2, <2>1 DEF Running
<1>4. ASSUME NEW j \in Jobs, Begin(j)
      PROVE  UncutInv'
  <2>1. /\ host' = host /\ jobs'[j].step = "probe" /\ jobs'[j].before = Effective(host)
        /\ \A i \in Jobs \ {j} : jobs'[i] = jobs[i]
    BY <1>0, <1>4 DEF Begin, Job
  <2>2. LockDone' => LockDone
    BY <2>1 DEF LockDone
  <2>3. Known(host, jobs'[j])
    BY <2>1 DEF Known
  <2>4. LockDone => ~jobs'[j].before.passwords
    BY <1>0, <2>1, EffectiveType DEF UncutInv, Locked
  <2>5. QED
    BY <2>1, <2>2, <2>3, <2>4 DEF UncutInv
<1>5. CASE Crash
  <2>1. host' = host /\ \A i \in Jobs : jobs'[i].step = "failed" \/ jobs'[i] = jobs[i]
    BY <1>0, <1>5 DEF Crash, Job
  <2>2. LockDone' => LockDone
    BY <2>1 DEF LockDone
  <2>3. \A i \in Jobs : Known(host', jobs'[i]) /\ (LockDone' /\ jobs'[i].step \in Running => ~jobs'[i].before.passwords)
    BY <2>1, <2>2, IdleKnows DEF UncutInv, Running
  <2>4. QED
    BY <2>1, <2>2, <2>3 DEF UncutInv
<1>6. CASE host' = host /\ jobs' = jobs
  BY <1>0, <1>6 DEF UncutInv, LockDone
<1>7. QED
  BY <1>1, <1>3, <1>4, <1>5, <1>6, KeyUncut, LockUncut, PortUncut DEF Next, vars, AddNode, DeleteNode

-----------------------------------------------------------------------------
(* The port that is listed answers.                                        *)

\* Steps that leave the ports of the host and of the entry, and the migrations.
LEMMA PortsLeft ==
  ASSUME ListedInv, Calm' => Calm, Saved, Calm' => host'.live = host.live /\ Effective(host') = Effective(host),
         \A e \in entry' : \E d \in entry : d.port = e.port,
         \A j \in Jobs : jobs[j].step \in Migrating => jobs'[j] = jobs[j],
         \A j \in Jobs : jobs'[j].step \in {"probeNew", "undo"} => jobs'[j] = jobs[j]
  PROVE  ListedInv'
<1> SUFFICES ASSUME Calm', Saved', NEW e \in entry'
             PROVE  /\ (\A j \in Jobs : jobs'[j].step \notin Migrating) => Answers(host', e.port)
                    /\ \A j \in Jobs : jobs'[j].step \in {"probeNew", "undo"} => e.port \in jobs'[j].before.ports \cap Open
  BY DEF ListedInv
<1>1. PICK d \in entry : d.port = e.port
  OBVIOUS
<1>2. /\ (\A j \in Jobs : jobs[j].step \notin Migrating) => Answers(host, e.port)
      /\ \A j \in Jobs : jobs[j].step \in {"probeNew", "undo"} => e.port \in jobs[j].before.ports \cap Open
  BY <1>1 DEF ListedInv
<1>3. QED
  BY <1>2 DEF Answers

\* The last script of a lock leaves the ports.
LEMMA LockListed ==
  ASSUME TypeOK, JobsInv, UncutInv, ListedInv, Calm, Saved, NEW j \in Jobs,
         RunScript(j, "lock", LockScript, jobs[j].node.port, "success", "failed")
  PROVE  ListedInv'
<1>1. PICK r \in Runs(LockScript, jobs[j].node.port) : host' = r.host /\ Goto(j, IF r.ok THEN "success" ELSE "failed")
  BY DEF RunScript
<1>2. host \in Host /\ Read(host) /\ jobs[j].step = "lock" /\ entry' = entry /\ ~setting.cut
  BY DEF TypeOK, UncutInv, Calm, RunScript
<1>3. Last(LockScript.hosts) = Restarted(Hardened(host)) /\ LockScript.refused \subseteq {host, Restarted(host)}
  BY FiveLines DEF LockScript, Script
<1>4. host' = host \/ host' = Restarted(host) \/ host' = Restarted(Hardened(host))
  <2>1. r.ok => host' = Restarted(Hardened(host))
    BY <1>1, <1>3, RunsOf
  <2>2. ~r.ok => host' = host \/ host' = Restarted(host)
    BY <1>1, <1>2, <1>3, RunsOf
  <2>3. QED
    BY <2>1, <2>2
<1>5. \A i \in Jobs : jobs[i].step \notin Migrating /\ jobs'[i].step \notin Migrating
  <2>1. \A i \in Jobs \ {j} : jobs[i].step \notin Running /\ jobs'[i] = jobs[i]
    BY <1>1, <1>2, GotoStep DEF JobsInv, Running
  <2>2. jobs'[j].step \in {"success", "failed"}
    BY <1>1, GotoStep
  <2>3. QED
    BY <1>2, <2>1, <2>2 DEF Migrating, Running
<1>6. \A e \in entry : Answers(host, e.port)
  BY <1>5 DEF ListedInv
<1>7. ASSUME NEW h \in Host, h.live = host.live, Effective(h).ports = Effective(host).ports
      PROVE  \A e \in entry : Answers(Restarted(h), e.port)
  <2>1. /\ Restarted(h).live = Effective(h) /\ Effective(Restarted(h)) = Effective(h)
    <3>1. Restarted(h) = [h EXCEPT !.live = Effective(h)]
      BY EffectiveType
    <3>2. /\ Restarted(h).conf = h.conf /\ Restarted(h).drop = h.drop /\ Restarted(h).hard = h.hard
          /\ Restarted(h).live = Effective(h)
      BY <3>1 DEF Host
    <3>3. QED
      BY <3>2, EffectiveSame
  <2>2. QED
    BY <1>6, <1>7, <2>1 DEF Answers
<1>8. /\ Hardened(host) \in Host /\ Hardened(host).live = host.live
      /\ Effective(Hardened(host)).ports = Effective(host).ports
  <2>1. Included(host) = [host EXCEPT !.conf = [host.conf EXCEPT !.include = TRUE]]
    BY <1>2 DEF Included, Host
  <2>2. /\ [host.conf EXCEPT !.include = TRUE] \in Conf /\ [host.conf EXCEPT !.include = TRUE].ports = host.conf.ports
        /\ [host.conf EXCEPT !.include = TRUE].include
    BY <1>2 DEF Host, Conf
  <2>3. /\ Hardened(host) \in Host /\ Hardened(host).live = host.live /\ Hardened(host).drop = host.drop
        /\ Hardened(host).conf.ports = host.conf.ports /\ Hardened(host).conf.include
    BY <1>2, <2>1, <2>2 DEF Hardened, Host
  <2>4. CASE host.conf.include
    BY <2>3, <2>4 DEF Effective
  <2>5. CASE ~host.conf.include
    <3>1. host.drop = {} /\ UNION host.drop = {}
      BY <1>2, <2>5 DEF Read
    <3>2. QED
      BY <2>3, <2>5, <3>1 DEF Effective
  <2>6. QED
    BY <2>3, <2>4, <2>5
<1>9. \A e \in entry : Answers(host', e.port)
  BY <1>2, <1>4, <1>6, <1>7, <1>8
<1>10. QED
  BY <1>2, <1>5, <1>9 DEF ListedInv, Migrating, Running

\* changeNodePort: what it lists answers when it ends, and what was listed when it takes
\* its changes back.
LEMMA PortListed ==
  ASSUME TypeOK, JobsInv, UncutInv, ListedInv, Calm, Saved, NEW j \in Jobs, ChangeNodePort(j)
  PROVE  ListedInv'
<1> DEFINE old == jobs[j].node.port
           new == jobs[j].newPort
<1>0. Known(host, jobs[j]) /\ entry' = entry /\ ~setting.cut /\ Calm' /\ host \in Host
  BY DEF UncutInv, Calm, ChangeNodePort, Probe, RunScript, env, TypeOK
<1>1. jobs[j].step \in Running
  BY DEF ChangeNodePort, Probe, RunScript, Running
<1>2. \A i \in Jobs \ {j} : jobs[i].step \notin Running
  BY <1>1 DEF JobsInv
<1>3. ASSUME NEW step \in Migrating, Goto(j, step),
             step \in {"probeNew", "undo"} => \A e \in entry : e.port \in jobs[j].before.ports \cap Open
      PROVE  ListedInv'
  <2>1. jobs'[j].step = step /\ jobs'[j].before = jobs[j].before /\ \A i \in Jobs \ {j} : jobs'[i] = jobs[i]
    BY <1>3, GotoStep
  <2>2. \A i \in Jobs : jobs'[i].step \in {"probeNew", "undo"} => i = j
    BY <1>2, <2>1 DEF Running
  <2>3. QED
    BY <1>0, <1>3, <2>1, <2>2 DEF ListedInv
<1>4. CASE Probe(j, "probe", old, "prepare", "failed")
  <2>1. /\ jobs[j].step = "probe" /\ jobs'[j].step \in {"prepare", "failed"} /\ \A i \in Jobs \ {j} : jobs'[i] = jobs[i]
    BY <1>4, GotoStep DEF Probe
  <2>2. host' = host
    BY <1>4 DEF Probe
  <2>3. QED
    BY <1>0, <2>1, <2>2, PortsLeft DEF Migrating
<1>5. CASE RunScript(j, "prepare", PrepareScript(old, new), old, "probeNew", "undo")
  <2>1. PICK step \in {"probeNew", "undo"} : Goto(j, step)
    BY <1>5 DEF RunScript
  <2>2. jobs[j].step = "prepare" /\ Effective(host) = jobs[j].before
    BY <1>0, <1>5 DEF RunScript, Known
  <2>3. \A e \in entry : Answers(host, e.port)
    <3>1. \A i \in Jobs : jobs[i].step \notin Migrating
      BY <1>2, <2>2 DEF Migrating
    <3>2. QED
      BY <3>1 DEF ListedInv
  <2>4. QED
    BY <1>3, <2>1, <2>2, <2>3 DEF Answers, Migrating, Running
<1>6. CASE RunScript(j, "undo", RollbackScript, old, "rolledBack", "failed")
  <2>1. jobs'[j].step = "rolledBack" /\ host'.live = jobs[j].before
        /\ (host' = Restored(host) \/ host' = Restarted(Restored(host)))
    BY <1>0, <1>6, UndoUncut DEF Calm
  <2>2. jobs[j].step = "undo" /\ Effective(Restored(host)) = jobs[j].before
    BY <1>0, <1>6 DEF RunScript, Known
  <2>3. Effective(host') = jobs[j].before
    <3>1. Restored(host) \in Host /\ Restarted(Restored(host)) = [Restored(host) EXCEPT !.live = Effective(Restored(host))]
      BY <1>0, RestoredType, EffectiveType
    <3>2. /\ Restarted(Restored(host)).conf = Restored(host).conf /\ Restarted(Restored(host)).drop = Restored(host).drop
          /\ Restarted(Restored(host)).hard = Restored(host).hard
      BY <3>1 DEF Host
    <3>3. QED
      BY <2>1, <2>2, <3>2, EffectiveSame
  <2>4. \A e \in entry : Answers(host', e.port)
    BY <2>1, <2>2, <2>3 DEF Answers, ListedInv
  <2>5. \A i \in Jobs : jobs'[i].step \notin Running
    BY <1>2, <1>6, <2>1, GotoStep DEF RunScript, Running
  <2>6. QED
    BY <1>0, <2>4, <2>5 DEF ListedInv, Migrating, Running
<1>7. CASE Probe(j, "probeNew", new, "finalize", "undo")
  <2>1. PICK step \in {"finalize", "undo"} : Goto(j, step)
    BY <1>7 DEF Probe
  <2>2. jobs[j].step = "probeNew"
    BY <1>7 DEF Probe
  <2>3. QED
    BY <1>3, <2>1, <2>2 DEF ListedInv, Migrating, Running
<1>8. CASE RunScript(j, "finalize", FinalizeScript(new), new, "probeLast", "probeAfterError")
  <2>1. PICK step \in {"probeLast", "probeAfterError"} : Goto(j, step)
    BY <1>8 DEF RunScript
  <2>2. QED
    BY <1>3, <2>1 DEF Migrating, Running
<1>9. CASE Probe(j, "probeLast", new, "save", "failed") \/ Probe(j, "probeAfterError", new, "saveWithError", "failed")
  <2>1. Reaches(new)
    BY <1>0, <1>9 DEF Probe, Known, Reaches
  <2>2. PICK step \in {"save", "saveWithError"} : Goto(j, step)
    BY <1>9, <2>1 DEF Probe
  <2>3. QED
    BY <1>3, <2>2 DEF Migrating, Running
<1>10. QED
  BY <1>4, <1>5, <1>6, <1>7, <1>8, <1>9 DEF ChangeNodePort

\* A job that could not write its entry has ended.
LEMMA UnsavedStays ==
  ASSUME jobs \in [Jobs -> Job], [Next]_vars, NEW j \in Jobs, jobs[j].step = "unsaved"
  PROVE  jobs'[j].step = "unsaved"
<1>1. ASSUME NEW i \in Jobs, NEW step, Goto(i, step), jobs[i].step # "unsaved"
      PROVE  jobs'[j] = jobs[j]
  BY <1>1 DEF Goto
<1>2. \A i \in Jobs : SyncNodeKey(i) \/ LockNodePassword(i) \/ SaveNode(i) => jobs[i].step # "unsaved" /\ \E step : Goto(i, step)
  BY DEF SyncNodeKey, CopyKey, LockNodePassword, SaveNode, Probe, RunScript
<1>3. \A i \in Jobs : ChangeNodePort(i) => jobs[i].step # "unsaved" /\ \E step : Goto(i, step)
  BY DEF ChangeNodePort, Probe, RunScript
<1>4. ASSUME NEW i \in Jobs, Begin(i) \/ \E kind \in Kinds, p \in Ports : Request(i, kind, p)
      PROVE  jobs'[j] = jobs[j]
  BY <1>4 DEF Begin, Request
<1>5. ASSUME Crash
      PROVE  jobs'[j] = jobs[j]
  BY <1>5 DEF Crash, Running
<1>6. (\E p \in Ports : AddNode(p)) \/ DeleteNode \/ UNCHANGED vars => jobs' = jobs
  BY DEF AddNode, DeleteNode, vars
<1>7. QED
  BY <1>1, <1>2, <1>3, <1>4, <1>5, <1>6 DEF Next

LEMMA ListedStep ==
  ASSUME TypeOK, JobsInv, UncutInv, ListedInv, [Next]_vars
  PROVE  ListedInv'
<1>0. /\ host \in Host /\ jobs \in [Jobs -> Job] /\ crashes \in Nat /\ crashes' \in {crashes, crashes + 1}
      /\ setting' = setting /\ (Calm' => Calm)
  <2>1. setting' = setting /\ (crashes' = crashes \/ crashes' = crashes + 1)
    BY DEF Next, vars, env, SyncNodeKey, CopyKey, Probe, LockNodePassword, ChangeNodePort, RunScript, SaveNode,
           Request, Begin, AddNode, DeleteNode, Crash
  <2>2. host \in Host /\ jobs \in [Jobs -> Job] /\ crashes \in Nat
    BY NodePortAssumption DEF TypeOK, Setting
  <2>3. QED
    BY <2>1, <2>2 DEF Calm
<1>00. Saved' => Saved
  BY <1>0, UnsavedStays DEF Saved
<1> SUFFICES ASSUME Calm', Calm, Saved
             PROVE  ListedInv'
  BY <1>0, <1>00 DEF ListedInv
<1>1. ASSUME NEW j \in Jobs, SyncNodeKey(j)
      PROVE  ListedInv'
  <2>1. /\ entry' = entry /\ (host' = host \/ host' = [host EXCEPT !.key = TRUE])
        /\ \E step \in {"probeKey", "success", "failed"} : Goto(j, step)
        /\ jobs[j].step \in {"copy", "probeKey"}
    BY <1>1 DEF SyncNodeKey, CopyKey, Probe
  <2>2. /\ host'.live = host.live /\ host'.conf = host.conf /\ host'.drop = host.drop /\ host'.hard = host.hard
    BY <1>0, <2>1 DEF Host
  <2>3. host'.live = host.live /\ Effective(host') = Effective(host)
    BY <2>2, EffectiveSame
  <2>4. jobs'[j].step \in {"probeKey", "success", "failed"} /\ \A i \in Jobs \ {j} : jobs'[i] = jobs[i]
    BY <2>1, GotoStep
  <2>5. QED
    BY <1>0, <2>1, <2>3, <2>4, PortsLeft DEF Migrating, Running
<1>2. ASSUME NEW j \in Jobs, LockNodePassword(j)
      PROVE  ListedInv'
  <2>1. CASE Probe(j, "probe", jobs[j].node.port, "lock", "failed")
    <3>1. /\ jobs[j].step = "probe" /\ jobs'[j].step \in {"lock", "failed"} /\ \A i \in Jobs \ {j} : jobs'[i] = jobs[i]
      BY <2>1, GotoStep DEF Probe
    <3>2. host' = host /\ entry' = entry
      BY <2>1 DEF Probe
    <3>3. QED
      BY <1>0, <3>1, <3>2, PortsLeft DEF Migrating
  <2>2. QED
    BY <1>2, <2>1, LockListed DEF LockNodePassword
<1>3. ASSUME NEW j \in Jobs, SaveNode(j)
      PROVE  ListedInv'
  <2> SUFFICES ASSUME Saved'
               PROVE  ListedInv'
    BY DEF ListedInv
  <2> DEFINE new == jobs[j].newPort
  <2>1. /\ entry' = {[jobs[j].node EXCEPT !.port = new]} /\ host' = host /\ jobs[j].step \in {"save", "saveWithError"}
        /\ (Goto(j, "success") \/ Goto(j, "failed")) /\ jobs[j].node \in Entry
    <3>1. Saved' => ~Goto(j, "unsaved")
      BY GotoStep DEF Saved
    <3>2. QED
      BY <1>0, <1>3, <3>1 DEF SaveNode, UpsertNode, Job
  <2>2. \A e \in entry' : e.port = new
    BY <2>1 DEF Entry
  <2>3. new \in host.live.ports \cap Open /\ host.drop = {{new}} /\ host.conf.include /\ host.conf.ports = {}
    BY <2>1 DEF UncutInv, Calm, Known
  <2>4. Effective(host).ports = {new}
    <3>1. host.conf.ports \cup UNION host.drop = {new}
      BY <2>3
    <3>2. QED
      BY <2>3, <3>1 DEF Effective
  <2>5. \A i \in Jobs : jobs'[i].step \notin Running
    BY <2>1, GotoStep DEF JobsInv, Running
  <2>6. QED
    BY <2>1, <2>2, <2>3, <2>4, <2>5 DEF ListedInv, Answers, Running
<1>4. ASSUME NEW j \in Jobs, NEW kind \in Kinds, NEW p \in Ports, Request(j, kind, p)
      PROVE  ListedInv'
  <2>1. /\ entry' = entry /\ host' = host /\ jobs[j].step = "new" /\ jobs'[j].step \in {"copy", "queued"}
        /\ \A i \in Jobs \ {j} : jobs'[i] = jobs[i]
    BY <1>0, <1>4 DEF Request
  <2>2. QED
    BY <1>0, <2>1, PortsLeft DEF Migrating, Running
<1>5. ASSUME NEW j \in Jobs, Begin(j)
      PROVE  ListedInv'
  <2>1. /\ entry' = entry /\ host' = host /\ jobs[j].step = "queued" /\ jobs'[j].step = "probe"
        /\ \A i \in Jobs \ {j} : jobs'[i] = jobs[i]
    BY <1>0, <1>5 DEF Begin, Job
  <2>2. QED
    BY <1>0, <2>1, PortsLeft DEF Migrating, Running
<1>6. ASSUME NEW p \in Ports, AddNode(p)
      PROVE  ListedInv'
  <2>1. entry' = {[port |-> p, version |-> edits + 1]} /\ \E e \in entry : e.port = p
    BY <1>6 DEF AddNode, Calm
  <2>2. \A d \in entry' : \E e \in entry : e.port = d.port
    BY <2>1
  <2>3. QED
    BY <1>0, <1>6, <2>2, PortsLeft DEF AddNode
<1>7. CASE DeleteNode
  BY <1>0, <1>7, PortsLeft DEF DeleteNode
<1>8. CASE Crash
  BY <1>0, <1>8 DEF Crash, Calm
<1>9. CASE UNCHANGED vars
  BY <1>0, <1>9, PortsLeft DEF vars
<1>10. QED
  BY <1>1, <1>2, <1>3, <1>4, <1>5, <1>6, <1>7, <1>8, <1>9, PortListed DEF Next

-----------------------------------------------------------------------------
(* What the runs check.                                                    *)

\* The invariant holds in every state of every run.
THEOREM Invariant == Spec => []Inv
<1>1. Init => Inv
  <2> SUFFICES ASSUME Init
               PROVE  Inv
    OBVIOUS
  <2>1. PICK include \in BOOLEAN, key \in BOOLEAN :
          host = [conf |-> [ports |-> {Default}, include |-> include], drop |-> {}, hard |-> FALSE,
                  confSaved |-> {}, dropSaved |-> {}, live |-> [ports |-> {Default}, passwords |-> TRUE], key |-> key]
    BY DEF Init
  <2>2. Default \in Ports /\ Default \in Open /\ setting \in Setting /\ setting.edits \in Nat /\ setting.crashes \in Nat
    BY NodePortAssumption DEF Init, Setting
  <2>3. host \in Host
    BY <2>1, <2>2 DEF Host, Conf, Files, Daemon
  <2>4. Effective(host).ports = {Default} /\ Effective(host) \in Daemon
    BY <2>1, <2>3, EffectiveType DEF Effective
  <2>5. Start \in Entry /\ entry = {Start} /\ Start.port = Default
    BY <2>2 DEF Init, Start, Entry
  <2>6. \A j \in Jobs : jobs[j] \in Job /\ jobs[j].step = "new"
    BY <2>2, <2>4, <2>5 DEF Init, Job, Kinds, Steps
  <2>7. TypeOK
    <3>1. jobs \in [Jobs -> Job]
      BY <2>6 DEF Init
    <3>2. Cardinality(entry) = 1 /\ entry \subseteq Entry
      BY <2>5, FS_Singleton
    <3>3. setting \in Settings /\ edits \in 0 .. setting.edits /\ crashes \in 0 .. setting.crashes
      BY <2>2 DEF Init
    <3>4. QED
      BY <2>3, <3>1, <3>2, <3>3 DEF TypeOK
  <2>8. Admits(host)
    BY <2>1, <2>2 DEF Admits
  <2>9. JobsInv
    BY <2>6 DEF JobsInv, Running
  <2>10. UncutInv
    BY <2>1, <2>6 DEF UncutInv, Read, LockDone, Known, Running
  <2>11. ListedInv
    BY <2>1, <2>2, <2>4, <2>5, <2>6 DEF ListedInv, Answers
  <2>12. QED
    BY <2>7, <2>8, <2>9, <2>10, <2>11 DEF Inv
<1>2. Inv /\ [Next]_vars => Inv'
  BY TypeStep, JobsStep, UncutStep, ListedStep DEF Inv
<1>3. QED
  BY <1>1, <1>2, PTL DEF Spec

\* Whatever step of a job fails and wherever the panel stops, the node listens on an open
\* port, for the key of the panel or a password.
THEOREM NodeAdmits == Spec => []NeverLockedOut
<1>1. Inv => NeverLockedOut
  <2> SUFFICES ASSUME Inv
               PROVE  NeverLockedOut
    OBVIOUS
  <2>1. host.live.passwords \in BOOLEAN
    BY DEF Inv, TypeOK, Host, Daemon
  <2>2. QED
    BY <2>1 DEF Inv, Admits, NeverLockedOut
<1>2. QED
  BY <1>1, Invariant, PTL

\* What the panel says of the node is true of the host: the port it lists answers, and a
\* lock stays.
THEOREM NodeAsListed == Spec => []Consistent
<1>1. Inv => Consistent
  <2> SUFFICES ASSUME Inv
               PROVE  Consistent
    OBVIOUS
  <2>1. ListedPortAnswers
    <3>1. SUFFICES ASSUME Calm, Saved, Free, host.key, NEW e \in entry
                   PROVE  Reaches(e.port)
      BY DEF ListedPortAnswers, Calm
    <3>2. Answers(host, e.port)
      BY <3>1 DEF Inv, ListedInv, Free, Migrating
    <3>3. QED
      BY <3>1, <3>2 DEF Answers, Reaches
  <2>2. LockedStays
    BY EffectiveType DEF Inv, TypeOK, UncutInv, LockedStays, LockDone, Locked
  <2>3. QED
    BY <2>1, <2>2 DEF Inv, Consistent
<1>2. QED
  BY <1>1, Invariant, PTL

\* A job that reports its rollback has left sshd as it found it.
THEOREM RollbackTrue == Spec => RollbackRestores
<1> DEFINE Back == \A j \in Jobs : ~setting.cut /\ jobs[j].step = "undo" /\ jobs'[j].step = "rolledBack" =>
                     host'.live = jobs[j].before
<1>1. Inv /\ [Next]_vars => [Back]_vars
  <2> SUFFICES ASSUME Inv, Next, NEW j \in Jobs, ~setting.cut, jobs[j].step = "undo", jobs'[j].step = "rolledBack"
               PROVE  host'.live = jobs[j].before
    OBVIOUS
  <2>0. jobs \in [Jobs -> Job]
    BY DEF Inv, TypeOK
  <2>1. CASE ChangeNodePort(j)
    <3>1. RunScript(j, "undo", RollbackScript, jobs[j].node.port, "rolledBack", "failed")
      BY <2>1 DEF ChangeNodePort, Probe, RunScript
    <3>2. QED
      BY <3>1, UndoUncut DEF Inv
  <2>2. CASE ~ChangeNodePort(j)
    <3>1. ASSUME NEW i \in Jobs, NEW step, Goto(i, step), i # j
          PROVE  jobs'[j] = jobs[j]
      BY <2>0, <3>1 DEF Goto
    <3>2. \A i \in Jobs : ChangeNodePort(i) => \E step : Goto(i, step)
      BY DEF ChangeNodePort, Probe, RunScript
    <3>3. \A i \in Jobs : SyncNodeKey(i) \/ LockNodePassword(i) \/ SaveNode(i) => i # j /\ \E step : Goto(i, step)
      BY DEF SyncNodeKey, CopyKey, LockNodePassword, SaveNode, Probe, RunScript
    <3>4. ASSUME NEW i \in Jobs, Begin(i) \/ \E kind \in Kinds, p \in Ports : Request(i, kind, p)
          PROVE  jobs'[j] = jobs[j]
      BY <2>0, <3>4 DEF Begin, Request
    <3>5. Crash \/ (\E p \in Ports : AddNode(p)) \/ DeleteNode => jobs'[j].step = "failed" \/ jobs'[j] = jobs[j]
      BY <2>0 DEF Crash, AddNode, DeleteNode, Job
    <3>6. QED
      BY <2>2, <3>1, <3>2, <3>3, <3>4, <3>5 DEF Next
  <2>3. QED
    BY <2>1, <2>2
<1>2. QED
  BY <1>1, Invariant, PTL DEF Spec, RollbackRestores

=============================================================================
