# Verification of KunPanel

TLA+ specifications of KunPanel, a server panel written in Go: one process that
runs as root, serves an HTTP API and a web page, keeps its state in JSON files,
and administers nginx, nftables, sshd, cron, docker, other hosts over ssh, and
itself.

The specifications model what is hard to test in such a program: handlers that
take a lock several times and use under one lock what they read under an earlier
one, background jobs that outlive the request that started them, two files that
must agree, scripts that another process finishes after the panel has gone, and
stops of the panel between two writes. Every definition is a translation of the
source; `PROJECT.json` gives the file and the lines of each.

Contents

1. [How to run](#1-how-to-run)
2. [Inventory of the system](#2-inventory-of-the-system)
3. [Plan: modules, composition, order](#3-plan-modules-composition-order)
4. [The modules and the code](#4-the-modules-and-the-code)
5. [What each run checks](#5-what-each-run-checks)
6. [Bounds](#6-bounds)
7. [Fairness](#7-fairness)
8. [What is proved](#8-what-is-proved)
9. [Disagreements met while modelling](#9-disagreements-met-while-modelling)
10. [What is not modelled](#10-what-is-not-modelled)
11. [What comes next](#11-what-comes-next)

## 1. How to run

    tlc -workers 2 -config MCJobs.cfg MCJobs      # model-check one run
    tlapm JobsSitesProofs.tla                     # check the proofs of a module

A module `X` holds the specification of a component, `MCX` the values of its
constants for TLC, `MCX.cfg` its run, `XProofs` the theorems; four modules of theorems
serve two components each (section 3), one of which then has its names prefixed
(`SiteInit`, `AuditNext`, `SamplerSpec`, `BackupInit`). Each property is
broken by a *mutant*: an operator named `Definition_Suffix`, written directly
before the definition it mutates, that has a bug the property is there to catch.
Mutants are not used by any specification.

## 2. Inventory of the system

All Go code is one package. `app` (main.go) holds the configuration `cfg` under
`mu`, the job map under the same lock, and the login counters; other locks are
package variables (`firewallActionMu`, `securityMu`, `marketplaceMu`, `nodeOpMu`,
`nodeStoreMu`, `scheduleMu`, `deploymentMu`, `auditMu`). Requests run in
goroutines of `net/http`, each job in a goroutine of its own.

| Component | Code | State it keeps | Operations | Hard behaviour | Correct when |
|---|---|---|---|---|---|
| Background jobs | main.go, runtime_safety.go, nodes.go | `app.jobs` (in memory), the channel of four slots | register, forget, queue for a slot, run commands, publish, give the slot back | handlers and goroutines interleave; a full registry; a restart loses all jobs | never more than the limits; no job is forgotten while it works; no slot is lost; success only when every command ran |
| Accounts, sessions | main.go, users.go, admin.go | users, hashes, tokens, signing key in memory and in config.json | setup, login, rehash, create, update, delete, change of the owner's password, other saves, reset-password (a second process) | every handler takes `mu` several times; saves fail; restarts load the file | the owner stays; a changed account's sessions end; no acknowledged change is lost |
| Login limits | runtime_safety.go, intrusion_protection.go | the map `loginAttempts` (in memory) | ask for a block, record a failure, clear after a success, evict | the password is verified between two locks; a bounded map; expiry | limits block; overshoot is bounded; blocks last; blocked sources are banned |
| Firewall | admin.go, intrusion_protection.go | firewall.json, blocked-sources.json, the nftables table | open, close, edit rules, ban, unban, refresh, load at the start, the page, `kunpanel firewall open` and `list` (a second process) | two files and a table with rollbacks; automatic bans beside requests; sshd may move | the table enforces the files; no acknowledged rule or ban is lost; ssh stays open |
| Marketplace | marketplace.go | state.json, compose.json, rollback.json of each app; containers; a lock handed from request to job | install, update, start, stop, restart, uninstall, roll back | a refused job must give the lock back once; the state is read before the lock | one action at a time; the lock is released; ports are recorded and distinct |
| Managed nodes | nodes.go | nodes.json, a key, the host's sshd files | add, delete, probe, run, copy the key, end password logins, migrate the ssh port | scripts and probes over a connection that may be cut; three kinds of job change the same files; the entry may change meanwhile | the node stays reachable, at the listed port; what was locked stays locked |
| Audit log | runtime_safety.go, main.go, admin.go | audit.jsonl and five archives, a marker | append, rotate, page, migrate older files | readers without the lock; a command in a second process; a stop between two renames; ignored errors | lines in order, none twice, none lost but the oldest; nothing raw after the migration |
| Deployment center | deployments.go | metadata, compose file and source of each project; containers | create, update, delete, up, down, restart, clone, pull | `deploymentMu` does not cover the jobs; three writes that may fail | what is listed runs; what runs is listed |
| Sites | admin.go | vhost files, what nginx has loaded, lines of /etc/hosts | create, edit, rename, enable, disable, delete, override | no lock; change, test, reload, undo | nginx accepts the files and serves them; a failure changes nothing |
| Self-upgrade | advanced.go, outbound.go | binary, .update, .rollback; the upgrade source | configure, download, verify, schedule; a script that moves, restarts, probes, restores | the script outlives the panel; upgrades share three paths; panels that crash or hang | only signed binaries; a failed upgrade is taken back; the panel answers again |
| Scheduled tasks | advanced.go | schedules.json, /etc/cron.d/kunpanel | add, replace, switch, delete | two files, written one after the other, with an undo | cron runs what the list says |
| Backups | advanced.go | archives | create, restore | tar and the panel work on the same files | a restore is complete, or taken back, and lasts |
| WordPress sites | advanced.go | root directories, databases, vhost files | a job of downloads and commands | writes what the request checked minutes earlier; a command that fails leaves what was made | as for sites |
| SSH policy | admin.go | the drop-in of sshd | change, test, reload, undo | reload fails after the file was replaced; the firewall protects the port that the files name | a refused change is taken back; ssh stays open |
| Cloudflare | cloudflare_auto.go, admin.go | settings and last result in the configuration; records at Cloudflare; two times in memory | settings, automatic switch | works on a copy of the settings, call by call; calls fail half-way; checked under one lock and changed under another | only zones that are enabled are touched; all records are proxied in the end |
| Metrics | metrics_storage.go, main.go | thirty days of minutes, in memory and in a file | sample, append, rewrite daily, read at the start | torn lines, failed rewrites, a file read only in part | no point is lost or written twice |
| Others | see section 10 | | | | |

Interactions: every component that changes the host starts jobs (Jobs), and
every handler and job appends to the audit log. A login goes through the login
limits, then the accounts, and a blocked source is handed to the firewall. The
firewall reads the port that the SSH policy writes. The sampler writes the history
of the metrics and then looks at the automatic proxying, in one goroutine. A WordPress
installation ends with the last steps of a new site. Backups read and write the
files of scheduled tasks, the configuration and the sites. The upgrade restarts
the process and with it everything that is in memory only: jobs, login counters,
locks.

The hazards of each component are listed in `PROJECT.json` with their lines and
the properties that watch them.

## 3. Plan: modules, composition, order

| # | Module | Composition | Abstract specification | Proofs |
|---|---|---|---|---|
| 1 | Jobs | INSTANCEs JobService with a refinement mapping | JobService: what the panel promises about jobs | JobsSitesProofs |
| 2 | Accounts | | | AccountsAuditProofs |
| 3 | Firewall | the SSH policy moves the port that the rules must keep open | | FirewallProofs |
| 4 | LoginGuard | hands sources to what Firewall models | | LoginSamplerProofs |
| 5 | Marketplace | jobs accepted or refused, as Jobs does | | MarketplaceProofs |
| 6 | NodePort | | | NodePortProofs |
| 7 | AuditLog | | | AccountsAuditProofs |
| 8 | Deployments | jobs queued as in Jobs | | DeploymentsProofs |
| 9 | Sites | WordPress installations interleave with requests and end as they do | | JobsSitesProofs |
| 10 | Upgrade | | | UpgradeBackupsProofs |
| 11 | Schedules | | | UpgradeBackupsProofs |
| 12 | Backups | EXTENDS Schedules, whose requests interleave with the jobs | | UpgradeBackupsProofs |
| 13 | Metrics, Cloudflare | | | LoginSamplerProofs |
| 14 | Sampler | EXTENDS Metrics and Cloudflare: one goroutine, one clock, one process that stops | | LoginSamplerProofs |

The order is by what would hurt most: jobs carry every change of the host,
accounts and the firewall decide who may make one, the rest follows.

The modules are run in the settings they need side by side (section 5), so that each
component has one run; Schedules runs as part of Backups, Metrics and Cloudflare as
parts of Sampler. No module declares a RECURSIVE operator, so that each can be
proved about.

## 4. The modules and the code

**Jobs.** `pc[j]` says where a submission stands: stamped by the handler,
registered or refused by `registerJobLocked`, queued on the channel, working,
reporting, done. `registry` is the key set of `app.jobs`, `tokens` and `queue` are
the buffer and the blocked senders of the channel `jobExecutionSlots`.
`RegisterJobLocked` is one critical section with the eviction of
`pruneJobsLocked` in it; `AcquireJobExecutionSlot`, `RunCommand`, `FinishJob` and
`ReleaseSlot` are the goroutine; `Restart` forgets everything in memory.
JobService has two variables, the phase of a submission and the set of listed
jobs; Jobs maps its `pc` to that phase.

**Accounts.** `mem` and `disk` are the two copies of the configuration. A handler
that takes `a.mu` more than once is more than one action, and what it carries is
a record in `auths` (logins and settings past their password check) or `changes`
(user requests past their role check). `cli` holds the copies that
`reset-password` works on. `fresh` numbers the random tokens and keys. The ghosts
`acked`, `unacked`, `era`, `reset` and `pending` record what users have been told.
`panel` says which roles, passwords and hashes there are.

**Firewall.** `file`, `bans` and `kernel` are firewall.json, blocked-sources.json and
the table; `ops` is the step of each request, refresh, page or command line with
what it has read. The first matching rule decides, as in `nftables`; a ban is the
time it ends. A request holds `firewallActionMu` over load, change, batch, apply
and the writes, and rolls back in the order of the code. `policy` is the drop-in of
sshd and `listening` the port where sshd really is: `MoveSsh` and `ReloadSsh` are the
ssh action of `handleSecurityAction`, with a test or reload that is refused, the undo,
and a reload that was done although it failed. `SshPort`, which the rules are checked
against, is what the files say. Nothing asks whether the new port is open; `blind`
remembers a move to one that was not. A request whose load fails puts the bans back, and
`Fail` has the case that this write fails too, which nobody is told. The command line is
a process with locks of its own: `CliOpen` and `CliList` load the rules, and when a ban
has ended, `CliRead` and `CliPrune` are the two ends of `loadSecurityBlocks`, which
writes the bans back as it had read them.

**LoginGuard.** `attempts` is the map, keyed by layer and value, of which a source without a
subnet and a blank name (`Blank`) have none; `logins` is the step of each handler. `Check`
is the first critical section, `Failure` and `Success` the second, with pruning and eviction
inside; `Ban` hands a source to the firewall, `Tick` advances the clock.

**Marketplace.** `state`, `compose`, `rollback` are the three files of an app;
`reqs` carries what a handler read before `TryLock` through the job and its
`defer`. `TryLock` has both refusals that give the lock back: of a state that no longer
fits (409) and of a port (400). The catalogue is a set of apps, a compose file is its port.

**NodePort.** `host` is the sshd configuration, the drop-ins of a migration and of the
lock, the two backups, the authorized key, and what the daemon has loaded; a script is
the sequence of hosts that it leaves line by line, where it may be refused or cut.
`SaveNode` may fail, which ends a job `unsaved`; `AddNode` is the operator who adds the
alias again, with another port too where the setting lets him. `jobs`
is the step of each job (the key, the lock, a migration) with the entry it copied; those
that work by scripts hold `nodeOpMu` from their first probe.

**AuditLog.** `files` maps the numbers of the files that exist to their lines;
`writers` holds the step of an append through size check, renames and write;
`reader` is a page, read file by file. There are two processes, the panel and a
`kunpanel firewall` command: each has its own `auditMu` (`Unlocked`), migrates at its start
(`phase`, `at`, with `marker`) and may be stopped; a command ends with its line, or with
none (`NoLine`). `together` remembers that one of them began to work at the files while the
other did.

**Deployments.** `meta`, `compose`, `source`, `running` are what each project has;
`request` is the handler that holds `deploymentMu`, call by call; `jobs` queue,
then read the compose file, then act.

**Sites.** `files` maps the enabled and the disabled path of each domain to its
content, of which two things matter: whether nginx accepts it, and the mark of
the panel. `served` is what nginx has loaded, `hosts` the lines of /etc/hosts,
`roots` and `databases` what installations of WordPress have made. Each request is
check, change, test, reload, undo; `Create` also makes the root directory of a request
that is then refused. `WordPress` is the check of an installation, which lets a root
directory that exists pass, and `WordPressJob` its commands up to the change of the file,
of which the move to that directory fails.

**Upgrade.** `binary`, `update` and `rollback` are the three paths. `stage[i]` is how
far upgrade i is: the job (`download`, `verify`, `selftest`, `schedule`), then the script
(`copy`, `move`, `restart`, `health`, `restore`, `restartOld`). `running` and `executes` say
which binary the panel runs and whether it is the very file at the path, which
decides whether `cp` onto it is refused (text file busy). A panel that crashes runs until
`Crash`, and `AutoRestart` starts it again, as often as it likes while the script waits;
`refused` remembers a restoring copy that met it.

**Schedules** and **Backups.** `schedules` and `cron` are the two files, `request` the
handler with the two lists it holds. Backups adds the configuration (in memory
and in its file), a site, the archive and a job that reads or writes the paths
one after the other; `up` says whether the panel has started, and `StopPanel` ends the
job with it and loads what it finds. `TarFails` is a file that tar cannot write (`bad`: its
exit is an error), which starts the rollback, or spoils it; `JobFails` a tar that cannot
read, or the twenty minutes of `runShell`, after which the tar that the shell had started
still comes to its end. `cut` and `unlisted` remember what no code does: that a restore
ended with its files neither whole nor taken back, and that an archive without a list was
restored.

**Metrics**, **Cloudflare** and **Sampler.** A point of the history is its age in minutes,
so that the passing of a minute ages the points in memory (`history`) and in the file
(`file`, with a flag for a torn last line). `sampler` is the goroutine between two samples:
append, rewrite once a day, then the check of `maybeAutoOrangeCloud`. `cfg` and `saved` are
what the configuration says of automatic proxying, `posts` the requests between their check
and their change, `highSince` and `lastAction` the two times that only memory has, `worker`
the goroutine that switches, with the zone it copied and the records it listed: the first
hundred (`Page`), of which Cloudflare may refuse some every time (`Refuse`). That the page
posts a masked key only after it was shown one (`FromPage`) is an assumption about the page,
not a check of the panel. `Sampler` puts them together: the steps of the goroutine,
requests, the world that takes records off the proxy, stops, starts and the minute. `lossy`,
`cut`, `enabledAge` and `shown` are read by no code.

## 5. What each run checks

Several runs ask their questions in more than one setting: faults of the disk and
of sshd, one request at a time or two, the command line beside the panel. Such a
module has a CONSTANT set of records (`Hosts`, `Panels`, `Settings`, `Logs`,
`Centers`, `Servers`, `Loads`) and a variable (`host`, `panel`, ...) that `Init`
takes from that set and no step changes. One run so explores the settings side by
side, each with the bounds that it needs. A property that the code keeps in some
of the settings only names the condition (`Alone`, `Apart`, `Calm`, `PanelAlone`,
`~log.renameFails`, ...); what happens outside of it is in section 9.

| Run | Properties | What it shows |
|---|---|---|
| jobs (MCJobs) | RegistrySound, SlotsSound, RefusalJustified, OnlyAdmissionForgets, ServiceSafety, ServiceLiveness | The job registry and the slot channel keep their promises, and implement JobService, in every interleaving of submissions, goroutines and restarts; under weak fairness of the goroutines every submission is answered and every accepted job ends or dies with the process. |
| accounts (MCAccounts) | OwnerIntact, RevokedStaysRevoked, RestartAsTold, LastChangeWins | Passwords, roles, older hashes, failed saves, restarts and reset-password beside the panel, in two panels: the owner stays intact, no session outlives an acknowledged change of its account, no acknowledged change is lost or undone, and a restart does what its users have been told. |
| firewall (MCFirewall) | Consistent, SshAdmitted, BansKept | On seven hosts where loads, writes and rollbacks fail, sources are banned, sshd is moved to any port and refuses, and the panel or the machine restarts, beside the page and the command line, which rewrites rules and bans: the table enforces the files, ssh stays open at the port that sshd listens on while that moves to open ports only, a refused move is taken back, and no acknowledged rule and no ban is lost. |
| login_limits (MCLoginGuard) | Consistent, BlockKept | With two logins under way at once from two sources of a subnet, one of which also leaves the name blank, and room for four of their five counters, limits block at once, are overshot by no more than the logins under way, blocks last, and the map never outgrows its limit. |
| marketplace (MCMarketplace) | Consistent, LockHandedOver, LockReleased | Two requests and their jobs hand marketplaceMu over without ever sharing or losing it, with refused jobs, failing writes and a stop; for different apps uninstalled apps stay away and, until a stop or a failing write, an app is listed with the port of its compose file; under weak fairness the lock is always given back. |
| node_port (MCNodePort) | Consistent, NeverLockedOut, RollbackRestores | Queued jobs bring the key to a node, end its password logins and move its ssh port, of which one is behind a firewall, with scripts that sshd refuses, connections cut between any two lines, entries that cannot be saved, an operator who edits, lists again or deletes the entry, and stops of the panel: the node keeps an open port and a way to log in, the listed port answers, a lock stays, and a rollback restores. |
| audit (MCAuditLog) | Consistent, PagesTrue, DropsWhenFull | Two appends and a reader over a log that rotates several times, with the lines of an older version and three stops, with renames that fail unnoticed, and with commands of another process that migrate, append and are stopped: sizes, what is dropped, in which order lines stay, what is migrated, and what a page shows while files move under it, as long as the panel and commands take turns. |
| deployments (MCDeployments) | Consistent, RunningKnown | Every sequence of five requests on two projects, and of eight on one with calls that fail and two stops of the panel: containers never outlive the project that stops them, what a project lists is what runs, and one that is not listed leaves room for a clone; listing holds beside the jobs of others as well. |
| sites (MCSites) | Consistent, FailureRestores, OverridesKept | Every sequence of four requests and WordPress installations, also over a root directory that exists, on two sites with contents that nginx accepts or refuses, with and without failing reloads, and two at a time for different domains: the files stay valid, what fails leaves no trace in its domain, nginx serves the files and overrides stay; two handlers for one domain interleave through every branch of a change or an undo whose file is gone. |
| upgrade (MCUpgrade) | OnlySigned, RollsBack, FailureRestores, Recovers | Three upgrades, two at a time, to panels that work, hang, or crash and are started by systemd again and again, from a source that serves anything, with a restart of the host: while upgrades do not overlap the binary was signed, and one that fails on a calm host, where no restoring copy is refused, brings back the binary of before, and a panel that answers. |
| backups (MCBackups) | Consistent, AcknowledgedInstalled, AllOrNothing | Five requests for three tasks with failing writes and stops; backups, restores and requests one after the other, with sites that nginx refuses; stops, and timeouts, at any step of a job; jobs between requests that fail, with a tar that cannot write and archives that may lack the list; and jobs beside requests, file by file: cron follows the list, failures never add up, restores are complete or taken back, also after one that was cut, and the panel keeps its configuration unless a restore is cut. |
| sampler (MCSampler) | SamplerConsistent, HistoryKept, OnlyWhereEnabled, EventuallyProxied | The sampler with its two tasks: the history of metrics survives stops, torn lines and rewrites that fail, and the automatic proxying, beside requests that change it, failed calls and saves, records that are always refused and restarts, acts only on zones enabled within the hour and proxies every record of the first page in the end. |

The properties in words:

- *Jobs.* `RegistrySound`: the map never exceeds its limit (`RetentionBound`), lists every
  job whose result is still to come (`UnfinishedJobsListed`), shows as running only what
  has a goroutine (`RunningJobsAlive`) and as successful only what ran every command
  (`SuccessMeansAllRan`). `SlotsSound`: the channel counts its holders, nobody waits beside
  a free slot (`SlotsConserved`), and its queue is the blocked goroutines, each once
  (`QueueIsWaiters`). `RefusalJustified`: a job is refused only while all that is listed is
  running. `OnlyAdmissionForgets`: a listed job leaves only for a new one, the oldest
  first, or with the process. `ServiceSafety` and `ServiceLiveness` are the two halves of
  the abstract specification.
- *Accounts.* `OwnerIntact`: the owner is an administrator with equal copies of the
  hash. `RevokedStaysRevoked`: a session from before an acknowledged change is
  refused for ever, also over failed saves, restarts and an account created again
  under its name. `LastChangeWins`: memory and file hold what was acknowledged.
  `RestartAsTold`: a restart changes nothing once all changes are acknowledged
  (`NothingUnsaved`), and makes a reset take effect if nothing was saved after it
  (`ResetTakesEffect`).
- *Firewall.* `Consistent`: the table is the files at rest (`Enforced`), no rule is lost
  or returns (`RulesAsAcknowledged`), and a move of sshd that is refused is taken back, in
  its files and in what it has loaded (`MoveTakenBack`). `BansKept`: a ban ends by time or
  by a request about its address, but for what a rollback or the command line writes over it.
  `SshAdmitted`: a loaded table, and the file, admit ssh over both families at the port where
  sshd listens, as long as it was moved to ports that were open, while the firewall was at rest
  (`MovedWithCare`).
- *LoginGuard.* `Consistent`: the map keeps its limit (`LimitedMemory`), a counter that
  reached its threshold blocks (`FailuresBlock`) and passes it by the logins under way at
  most (`OvershootBounded`), a blocked source was handed to the firewall
  (`BlockedIsBanned`). `BlockKept`: a block ends by time, by a success, by eviction.
- *Marketplace.* `LockHandedOver`: exactly one request or job owns the lock when it
  is taken. `LockReleased`: it is always given back. `Consistent`: while no write fails and
  the panel never stops, what is recorded for an installed app is the port it has
  (`PortRecorded`), and an app that was uninstalled stays away until it is installed again
  (`UninstallSticks`).
- *NodePort.* `NeverLockedOut`: the node listens on an open port and takes the key or a
  password, over any stop or cut. `Consistent`: the port in nodes.json is one it listens on,
  if it could be saved and nobody listed another (`ListedPortAnswers`), and once a job has
  ended password logins no other job brings them back (`LockedStays`). `RollbackRestores`:
  after a rollback sshd is as it was before.
- *AuditLog.* `Consistent`: the files keep their sizes, but for those of an older version
  (`Sized`), the lines have no gap (`RetainedSuffix`) and stay in order (`Ordered`), and
  nothing is raw once the marker exists (`MigratedClean`). `PagesTrue` (`PageExact`,
  `NewestShown`): what a page shows while files move under it. `DropsWhenFull`: lines go
  only with the oldest archive. All but the shape of a page is promised until the panel and
  a command have worked at the files together.
- *Deployments.* `RunningKnown`: what runs is listed. `Consistent`: a project lists the
  compose file that it has (`ListedCompose`), and one that is not listed leaves no source
  in the way of a clone (`CloneHasRoom`).
- *Sites.* `Consistent`: nginx accepts the files (`ValidAtRest`) and serves them
  (`ServedAtRest`). `FailureRestores`: a request or an installation that fails leaves the
  files of its domain as they were. `OverridesKept`: an override stays beside those of
  other domains.
- *Upgrade.* `OnlySigned`: the binary was signed. `RollsBack`, `FailureRestores`,
  `Recovers`: a failed upgrade leaves a panel that answers, the one of before it, if no
  upgrades overlap, the host stays up and no restoring copy is refused (`Calm`).
- *Backups, with Schedules.* `Consistent`: cron runs what the list says (`ListedRuns`), and
  faults and stops leave one task in which they differ, at most (`CronOneAhead`); the panel
  keeps its configuration (`StaysSetUp`), as long as no restore was cut.
  `AcknowledgedInstalled`: a request that succeeds brings them together.
  `AllOrNothing`: a restore installs all of the archive (`Completes`), or puts back all
  that it replaced (`TakenBack`), unless its time was up or its rollback could not write
  (`Cut`).
- *Sampler.* `SamplerConsistent`: memory and file have the same history between samples unless a
  line was lost (`HistoryOnFile`), and automatic proxying that is enabled has a zone and
  credentials (`EnabledIsUsable`). `HistoryKept`: a point never leaves the file before its
  time, and no minute is written twice. `OnlyWhereEnabled`: records are proxied only in a
  zone that was enabled within the hour. `EventuallyProxied`: while the load stays high,
  every record of the first page is proxied in the end, where none of them is refused every time.

An invariant made of named parts is checked as one property, with one mutant
(`PROJECT.json` lists them). `TypeOK` is the first part of each `Consistent`; those of
Jobs, Accounts and Upgrade, which the proofs establish for every instance, are not run
again. The `TypeOK` of Upgrade also says that the binary is never absent.

## 6. Bounds

Every bound is a constant of its module or a field of its settings, named and
commented there.

- *Jobs*: three submissions, two places, one slot, one command: the registry fills,
  evicts and refuses, the channel blocks a goroutine, and each can fail. All that the
  code does depends on full or not, oldest or not, first in the queue or not; the
  theorems hold for every bound. No symmetry, which is not sound for liveness.
- *Accounts*: the owner and one other account, two passwords or one, one login and
  one request under way, one or two cookies, three random draws: enough for a change
  between any two locks of a handler, for an account that is deleted and created again,
  and for a third token that must differ from both. `OldPanel` has hashes of the
  older format (every login rehashes) and both roles, `ResetPanel` two passwords and
  reset-password; panels in use, with or without the other account, are among the initial
  states, so that the draws are left for changes.
- *Firewall*: two handlers, the rules that open ssh, one or two addresses, one tick of
  time (a ban ends). `FaultyHost` has two failures and a stop, `BannedHost` two sources,
  `MovingHost` moves sshd to another port and back between the requests, with reloads
  that fail and a stop, `BusyHost` beside them, `SharedHost` has the command line, the
  page and every kind of start, `CrowdedHost` these with a move of sshd between them
  (`apart` says that sshd is moved while nobody reads or writes the rules), `CommandHost`
  the command line beside a ban that ends and is entered again while the file is rewritten.
  sshd is moved to any port of the rules, open or not. Two processes are the least that can
  race, and no handler talks to more; a lost rollback takes two failures.
- *LoginGuard*: two handlers, two sources of one subnet, of which the second also leaves
  the name blank, one account, thresholds of two to four in the order of the code's, three
  ticks, a window of one, blocks of two for the layers that outlast it and of one for the
  panel, and a map of four for five keys: every layer fills, blocks and expires, and the map
  evicts.
- *Marketplace*: `BusyPanel` has two requests for one app, failing writes and a stop;
  `QuietPanel` two apps and two ports, one request at a time without an end;
  `StoppedPanel` is the same with a stop; `SharedPanel` has two requests at a time, for
  different apps that ask for one port.
- *NodePort*: three jobs of any kind and three ports, of which one is behind a firewall;
  so a lock can come between two migrations, and the third starts from a host on which
  all files have been rewritten. Two stops, or cuts between any two lines, or an edit, or an
  operator who lists a port himself (`ListingOperator`); a save may fail in each.
- *AuditLog*: two archives of two or three lines, nine to twelve lines: enough for four
  rotations, so that the oldest archive is dropped. Three stops in a migration, of a file
  that an older version has let grow beyond the limit. `CommandLog` has a command beside two
  appends of the panel, with a line to migrate, files of one line, so that two rotations fit
  in five lines, and a stop of either.
- *Deployments*: sequences of five requests on two projects, eight on one with every
  failure, four beside the jobs of others.
- *Sites*: sequences of four requests or installations on two domains of which one begins
  with the other, with and without failing reloads; three with two handlers at a time
  for different domains, two for the same.
- *Upgrade*: five packages (the old one, a good, a crashing, a hanging and a forged
  one), three upgrades, two at a time, one restart of the host; a panel that crashes does so
  and is started again without a bound.
- *Backups*: three tasks, two commands and five requests with two faults and two stops;
  three jobs one after the other, so that a restore can follow a restore of another
  archive; two jobs beside two requests; three jobs of which a stop ends one at any step;
  three jobs between requests with two faults (of a write, or of a tar) and a stop, so that
  an archive can have the file of cron without a list, and a rollback can fail after the
  restore did. A job may run into its time limit in every load.
- *Sampler*: days and hours of two minutes and a history of three: the file is rewritten and
  an attempt repeated while points are still kept. `Filing` has torn lines, failed rewrites
  and starts that read a part, three in all; `Switching` two zones, with
  two failures among calls, stops and records that are taken off; `Forgetting` two saves
  that fail or stops; `Refusing` a record that is refused every time. The first page has two
  of the three records of one zone, and one of the other. Nothing in the code depends on
  more than old or not, due or not.

Symmetry is used on model values that no action distinguishes, in runs without
liveness. Deadlock is checked in the runs whose bounds do not make the system stop
(Jobs, Accounts, Firewall, LoginGuard, Marketplace, Sampler); elsewhere a behaviour ends when
its bound of requests is used up.

## 7. Fairness

- *Jobs* (`FairSpec`): weak fairness of the rest of the handler and of the goroutine
  of each job. Go's scheduler runs what can run, `app.mu` is a fair lock, a channel
  serves its senders in order, every command has a timeout and a notification gives
  up after ten seconds. The timeout kills the command itself: a process that it has
  started and that outlives it may keep its output open, for which `cmd.Run` waits, since no
  `WaitDelay` is set (src/admin.go:2196). The fairness assumes that such a process ends.
  No fairness of submissions or restarts.
- *Marketplace* (`FairSpec`): weak fairness of a handler that has begun and of its
  job, for the same reasons. None for users.
- *Upgrade* (`FairSpec`): weak fairness of a script that systemd has accepted; it is
  a list of commands with bounded waits. None for the job, the users, the host or systemd:
  whether a crashing panel is started again before a step of the script is left open.
- *Sampler* (`SamplerSpec`): weak fairness of the steps of the sampler, of the goroutine that
  switches, and of the start: a ticker calls the one every five seconds, a call of the
  other ends within twenty seconds, and systemd starts a panel that failed again
  (src/deploy/tryallfun-panel.service:22). Strong fairness of the minute, which is
  disabled for a moment whenever a step of the two is due: time passes however many
  steps there are. A goroutine of at most 101 calls ends within the hour, so
  there is one at a time (`ProxyMinute`). None for users or faults.

No other strong fairness is assumed.

## 8. What is proved

For every value of the constants that satisfies the ASSUME of the module; no other
assumption is made. Each says no more than that sets are finite, limits positive, and
the settings of the kind their module names, but for these:

- LoginGuard: the logins of a source name some of the accounts; every layer but the global
  one blocks for longer than the window in which failures are counted, so that a counter has
  no failures left to count when its block ends (20 and 30 minutes against 10,
  src/intrusion_protection.go:21-23). The global one blocks for a minute, and
  `FailuresBlock` says of it that it blocks or has blocked.
- Firewall: `Rules`, the rules that are ever added, have the rules by which each port of
  theirs is opened for ssh, and one is about the port sshd has at first; "boot" and "cli"
  name no handler.
- NodePort: the port 22, on which sshd listens by default, is open at first.
- Sites: there is a domain, and no content of a file is the absence of the file (`None`).
  Backups and Schedules: the same of `NoFile`, `NoTask` and `Unset`, and there is a setting.
- AuditLog: the lines that an older version left are among those that are ever written.
- Cloudflare: the first page of a zone is some of its records.
- Metrics: a day has two minutes at least, so that a file is rewritten once in it.

Every inductive invariant was checked with TLC, on the instances of section 6, before it
was proved.

**JobsSitesProofs**, of Jobs

- `TypeCorrect`, `SlotsSafe` (`SlotsSound`), `RegistrySafe` (`RegistrySound`) and
  `RefusalsJustified`.
  The slots are inductive only together with the queue (`SlotInv`: a release hands
  its token to the head of the queue, so the count is right only if the queue is
  exactly the blocked goroutines, without repetition). The registry (`RegInv`) rests
  on what one registration may evict: jobs that are not running, the oldest first.
- `AdmissionForgets` (`OnlyAdmissionForgets`): of the steps, only an admission removes,
  and the registry within its limit loses one job at most (`RegisterOutcome`), so that the
  pruning has nothing left to do (`PruneIdle`).
- `JobsRefineService`: under the refinement mapping, an initial state is one of
  JobService and each step is a step of it or a stutter. That at most `Slots` jobs
  execute abstractly follows from `SlotInv`, since executing jobs hold a token.

**JobsSitesProofs**, of Sites

- `SiteInvariant`. `SiteTypeInv` knows each request by its action: the paths it moves a
  file between and the content it brings (`Shape`). `FilesInv` is about requests for
  different domains: the files of a domain are what its request found, or what it made of
  them (`Made`, `Undoable`), so that its undo finds what it expects, and what it puts back
  was accepted by nginx. `AloneInv` adds, for a request that is alone, the other domains,
  /etc/hosts, and what nginx serves: what was there before the request until its reload.
- `SitesConsistent` (`Consistent`), `FailuresRestore` (`FailureRestores`) and `OverridesStay`
  (`OverridesKept`) follow, the first from `FilesInv` for the validity of the files and
  from `AloneInv` for what is served.

**AccountsAuditProofs**, of Accounts

- `TypeCorrect`, `OwnerSafe`.
- `SessionsRevoked`: `RevokedStaysRevoked`, which speaks of states before the first
  reset-password. The strengthening (`SessionInv`) says that no token or key in use, in
  memory, on disk, in a cookie or in a request, is one that is still to be drawn; so a
  change of an account draws a token that no cookie has, and a configuration that is
  loaded again after a failed save still refuses what the acknowledged one refused.
  Each action is shown to be a change of one account (`ChangeOf`), a silent one
  (`SilentChange`) or none. With reset-password, a second process on a stale copy, the
  statement is not invariant (section 9).
- `LastChangesKept` (`LastChangeWins`), by the same cases: what the step of another
  account's change leaves alone, and what a save that fails keeps for the next.
- `RestartsHold` (`RestartAsTold`), reset-password included. `SetUpInv`: a panel that is
  not set up has no accounts and nobody logged in. `ResetInv`: tokens and keys are of the
  past in every copy of the file that reset-password works on, and until the next restart
  the key it drew is in the file only, so no cookie was made with it.

**AccountsAuditProofs**, of AuditLog

- `AuditInvariant`, for as long as the panel and commands take turns (`~together`): then one
  process at most has something under way, and its mutex keeps its own appends apart.
  `AppendInv` says why a rotation loses nothing that it should keep: one append works at a
  time; when it renames an archive the place after it is free, because it has just removed
  what was there; and where no rename fails, what it removes in the middle was moved away by
  its step before, so that only the first removal drops lines (`RemoveKeeps`). A stop
  anywhere in between leaves a gap, and the next rotation moves on around it. `MigrateInv`:
  the files that the migration of a process has been at are clean, over one that is stopped,
  or given up, and begun again by the other. `HolesInv`: without stops there is no gap
  between archives but the one at the append that is rotating.
- `AuditConsistent` (`Consistent`): order, sizes and the end of the log, by one lemma
  for each action (`SanitizeKeeps`, `RemoveKeeps`, `RenameKeeps`, `WriteKeeps`). The first
  attempt failed on the sizes: a file that an older version has let grow beyond the limit
  is moved as it is, and TLC shows that it stays in the archives until it is dropped.
  `Sized` so exempts the files whose lines are all of the older version, and the run
  has such a file. The properties of the lines speak of their numbers and of each file, not
  of the files put end to end, so that no fold needs to be computed.
- `DropsOnlyWhenFull` (`DropsWhenFull`): from `RemoveKeeps` and `HolesInv`.

**UpgradeBackupsProofs**, of Upgrade

- `TypeCorrect`, for any number of upgrades at a time. Types need `HasRollback`: a
  script past its first copy finds a rollback file to restore.
- `InstalledSigned`: whatever the source serves, and over restarts of the host, the
  binary was signed, while upgrades have not overlapped. `SignedInv` is made of `Alone`
  (one upgrade is under way at most), `TargetsSigned`, `CheckedStays` (between its check
  and its move the package at the path stays the one that was checked) and
  `FilesTrusted`. With two upgrades under way `CheckedStays` fails.
- `FailedTakenBack` (`RollsBack`) and `OldBinaryBack` (`FailureRestores`): while the host
  is calm, the panel answers whenever no script is under way, and a script that fails
  leaves the binary of before it running. `ScriptState` says what the script can rely on
  at each step, whether the new panel runs, has crashed or was started again. `CalmBefore`
  shows that calm is only ever lost.

**UpgradeBackupsProofs**, of Backups and Schedules

- `BackupInvariant`. `RequestInv`: a request writes the list that it read, but for its own
  task, and the file of cron before the list. `DiskInv`: what the job has read and written
  so far, path by path, so that a rollback ends where the restore began. `TasksInv` relates
  the list and the file of cron in all places that have them: on the disk, in the archive,
  and before the job; they differ in one task at most, and agree unless a stop or a
  second failure came in between. `SetUpInv`: every configuration there is has been set
  up, until a restore is cut.
- `BackupConsistent` (`Consistent`), `AcknowledgedAreInstalled` (`AcknowledgedInstalled`)
  and `RestoresAllOrNothing` (`AllOrNothing`) follow. The first attempt at `TasksInv`
  failed: an archive that has the file of cron and no list brings back tasks that nothing
  lists. That is the condition `unlisted`, and a disagreement of section 9.

**FirewallProofs**

- `SshKept` (`SshAdmitted`), over requests, the command line, the page, every kind of
  start, failures, stops, and moves of sshd to ports that are open while the firewall is at
  rest. The property is about the table and the file; what is inductive (`OpenInv`) is about
  every list of rules that anyone holds: each opens each port that sshd has, or goes back to
  if its move is refused. A deletion keeps
  such a list so because it looks for an alternative in the list that it will write.
  `StepsInv` says who can work when, `AllowInv` that lists of allowing rules stay so.
- `FirewallConsistent` (`Consistent`), for a panel that is alone. `RulesAsAcknowledged`
  follows from `FileInv`: each request holds the list that it will have acknowledged.
  `Enforced` needs `KernelInv`: at each step of a request, what the table has, what a
  failure goes back to, and what the batch that is built will load; no refresh may be due, and
  no rollback of bans may have failed since the last complete load (`clean`).
  `MoveTakenBack` needs `MoveInv`: sshd has the old port until the reload.
- `BansHold` (`BansKept`): what a failure or the command line writes back, and why a refresh
  or an automatic ban only ever makes a ban longer.

**LoginSamplerProofs**, of LoginGuard

- `LimitsHold` (`Consistent`). `OvershootBounded` is not inductive: two logins that verify
  would each pass the limit. `Passed` counts them in: the failures of a counter over
  its limit, and the logins that still verify against it, stay below the threshold and
  the number of handlers together. `Sound` ties the end of a block to the last failure,
  so that a reset finds nothing blocked, and `LimitedMemory` rests on the eviction before
  each insertion. `BlockedIsBanned` needs `BansPublic`.
- `BlocksKept` (`BlockKept`), from the same invariant: by each step a block stays or gets
  longer, or it ends in one of the ways that the code has for it.

**LoginSamplerProofs**, of Sampler, Metrics and Cloudflare

- `SamplerInvariant`: the history and the automatic proxying touch nothing of each
  other, so that each step is one of `HistoryStep` or of `ProxyStep` and leaves the other
  part alone. `HistoryInv`: unless a line was lost, the file lacks at most the point that
  is about to be appended, and unless a start has read a part of the file it has nothing
  that memory lacks. `SwitchInv`: one goroutine switches at a time, it is younger than an
  hour, and its zone was enabled when it began. `CredentialsInv`: where the configuration
  can always be saved, memory and file have the same credentials, so that a masked key
  that is posted again stands for one that exists.
- `SamplersConsistent` (`SamplerConsistent`), `PointsKept` (`HistoryKept`) and
  `SwitchesWhereEnabled` (`OnlyWhereEnabled`), for every length of the history, of the day
  and of the hour, and every set of zones and records.

**MarketplaceProofs**

- `LockSafe` (`LockHandedOver`): inductive with the life cycle of a request, a job and
  the steps between them (`Lifecycle`).
- `AppsConsistent` (`Consistent`). Requests for different apps stay different (`Separate`);
  what a request has read of an app's state still holds when it has the lock (`Knows`); an
  app that was uninstalled has no request that knows it as installed (`Away`); and the port
  of the compose file is the recorded one, but for the request between the two
  writes (`Listed`).

**NodePortProofs**

- `NodeAdmits` (`NeverLockedOut`), over connections that are cut between any two lines. The
  invariant (`Admits`) says that every file sshd may start from, the saved ones that a
  rollback would put back included, has an open port and a way to log in; each line of
  each script keeps it.
- `NodeAsListed` (`Consistent`) and `RollbackTrue` (`RollbackRestores`), for connections
  that stay, the first for entries that could be saved. `JobsInv`: one job at a time works
  on the host. `Known` says what the files and sshd are at each step of a migration, so that
  the rollback, line by line, arrives where it began (`UncutInv`); `ListedInv` relates the
  entry to them, until a job could not save it.

**DeploymentsProofs**

- `RunningListed` (`RunningKnown`), where requests wait for jobs to end: the files of a
  job that is queued stay there, and a project gives its files up only
  after its containers have stopped (`RunningInv`).
- `ListedTrue` (`Consistent`): `ComposeInv` beside jobs as well, `RoomInv` without them.

**What stays model-checked**

- Liveness (`ServiceLiveness`, `LockReleased`, `Recovers`, `EventuallyProxied`): liveness
  under fairness and ENABLED are beyond the prover.
- `PagesTrue` of AuditLog. A page is put together by folds over the lines of each file
  (the ring of `scanAuditFile`) and by concatenation over the numbers of the files; what
  these compute for every number of lines and files is an induction over data, beyond
  the prover too.

## 9. Disagreements met while modelling

Places where the code does something else than a document, a message or a test
says. They are what the conditions of the properties exclude: taking the condition
out of the property, in the setting named, gives a counterexample.

**Accounts** (two passwords)

- src/main.go:430. setSession reads the token and the key after the password check
  let the lock go, so a login that verified the old password before a change is given
  a session that is accepted after it; src/README.md:27 says that changes invalidate
  the user's sessions. The session is one of the new era, which `RevokedStaysRevoked`
  does not count as revoked.
- src/main.go:936. A rehash that verified the old password before a change and takes
  the lock after it brings the old password back (`LastChangeWins` exempts it);
  src/open_features_test.go:122 expects the old password to be refused.
- src/main.go:195. A running panel overwrites with its next save what reset-password
  wrote, of which main.go:131 prints that it is done and the sessions are invalid.
- src/users.go:81. The guard against changing one's own account compares with a session
  that is looked up again, and does not hold when it ends in between.

**Firewall**

- src/admin.go:1530. The rollback of a failed request writes back the bans it copied at
  its start; a ban entered meanwhile is lost (`BansKept` exempts failures). The error of that
  write is dropped: when nft refuses the batch and the bans cannot be written back, the file
  keeps a ban that the table does not have, or the other way round, until the next load
  (`Enforced` is for `clean`).
- src/intrusion_protection.go:203. `kunpanel firewall list` and `open` write the bans again
  when one has ended, as they have read them, in a process whose `securityMu` is another:
  a ban that the panel enters in between is lost, one that it lifts returns (`BansKept`
  exempts the first).
- src/intrusion_protection.go:354. `kunpanel firewall open` and a request of the panel
  share no lock, and the later write loses the rule of the earlier
  (`RulesAsAcknowledged` is for `PanelAlone`).
- src/admin.go:1410. The page may write the rules it read, over those of a request
  (also `PanelAlone`).
- src/intrusion_protection.go:326. A ban entered while the firewall is enabled for the
  first time does not reach the table: the refresh looks for the table before it waits
  for the lock (`Enforced` is for a table that was loaded at the start).
- src/main.go:816. The port that the rules must keep open is the one in the files of sshd.
  Between the write of the drop-in and the reload, or after a stop of the panel there, it is
  another than the one in use: all rules of the port in use can be deleted, and a
  deletion that was checked before a move is loaded after it (`SshAdmitted` is for
  `MovedWithCare`, and for an sshd that listens where its files say). admin.go:1487 answers
  that the rule of the current port cannot be deleted.
- src/admin.go:1904. A move of sshd takes no lock of the firewall. The page, a request or the
  command line that read the rules before it may write or load them after it, without the
  rules that open the new port (also `MovedWithCare`).
- src/admin.go:1893. Any port is accepted for sshd: moved to one that no rule opens, it
  listens where the table lets nobody in (also `MovedWithCare`, by `blind`). The guard of
  admin.go:1486 then protects the new port, and no longer the one that was open.
- src/admin.go:1924. When the second reload fails too, the files say one port and sshd
  has another (`MoveTakenBack` is for one failure).
- src/admin.go:1722. The rule left as the alternative for ssh may come after one that
  denies it (`SshAdmitted` is for rules that allow).

**Marketplace** (two requests for one app, or two apps)

- src/marketplace.go:170. A request acts on the state it read before the lock: an app
  that was uninstalled meanwhile comes back (`UninstallSticks` is for `Apart`), where
  line 191 says that a state which changed is refused.
- src/marketplace.go:215. The port of an installed app that is stopped is given to
  another app; line 188 says that the lock prevents two installs from having one port.

- src/marketplace.go:217. A stop of the panel, or a write that fails, between compose.json and
  state.json leaves a compose file without a state. The next install keeps the file and takes
  the port from the state, which has none: it tests and records the port 0, and the page
  lists the app without the port that its containers have (`PortRecorded` is for no stops
  and no failing writes).

**Managed nodes**

- src/nodes.go:566. A connection cut before the prepare script saved the files makes the
  rollback remove the drop-in of an earlier migration, and line 565 put back a saved
  sshd_config that an earlier one left: one of before a lock, which brings password logins
  back (`RollbackRestores` and `LockedStays` are for connections that stay). Line 443
  answers that the old configuration is back.
- src/nodes.go:467. A stop of the panel between the last script and the write of nodes.json,
  or a write that fails (lines 457 and 468), leaves the old port listed, which sshd has left;
  the job says that it failed (`ListedPortAnswers` is for no stops and for `Saved`).
- src/nodes.go:468. A migration that ends after its node was deleted lists it again.

**Audit log** (the panel and a command at the same time)

- src/intrusion_protection.go:400. `kunpanel firewall open` appends to the log of the panel,
  whose `auditMu` it does not share. When both find the file full, both rotate: the second
  removes what the first has just moved, although not every archive exists, and its renames
  leave a gap; and both may append to a file that is full after the first.
- src/main.go:134. The command migrates the files of an older version when no panel has.
  A panel that rotates beside it moves a raw file to a number that the migration has passed,
  and the marker is set beside raw lines; a line appended while a file is being sanitized is
  lost with it. `Sized`, `RetainedSuffix`, `Ordered`, `MigratedClean`, `NewestShown` and
  `DropsWhenFull` are for `~together`.

**Deployments** (jobs beside requests)

- src/deployments.go:188. A deletion overtakes the up job of its project, whose
  containers then run without a project (`RunningKnown` is without `overlap`).
- src/deployments.go:90. The test for the directory of a clone looks for a file: a
  clone that was queued when its project was deleted leaves a directory that the next
  clone of the id does not see (`CloneHasRoom` is without `overlap`).

**Sites**

- src/admin.go:876. Of two edits at a time the one takes the other's refused content for
  the old file, and puts it back (`ValidAtRest` and `FailureRestores` are for different
  domains, or one at a time).
- src/admin.go:893. nginx tests the files again when it is told to reload and keeps what it
  has when they fail, which nobody is told: a handler reports its site as served while
  the refused file of another was there (`ServedAtRest` is for `Alone`).
- src/advanced.go:400. The job of WordPress writes, and on a failure removes, the file of a
  domain that a request has created since the check (`Undisturbed`), where line 401 says
  that an installation does not overwrite.
- src/advanced.go:400. The check that no root directory exists asks for a file
  (admin.go:2403), which a directory is not: an installation over one is accepted, where line
  401 answers that it is refused, and its job fails at line 427 after the download. The same
  happens to the next installation after one that failed later than that.
- src/admin.go:714. A deletion whose reload fails is reported as done while nginx serves
  the site (`ServedAtRest` is for reloads that work).
- src/admin.go:933. The override of a domain removes the line of every domain that
  begins with its name (`OverridesKept` exempts those).
- src/admin.go:926. Of two handlers that read /etc/hosts before the other writes it, the
  later loses the line of the earlier (`OverridesKept` is for `Alone`).

**Upgrade**

- src/advanced.go:805. The download of a second upgrade replaces the package that the
  first has checked and not yet moved (`OnlySigned` is for upgrades that do not overlap).
- src/advanced.go:869. The script of a second upgrade copies the new binary over the old
  one, which the first keeps for its rollback (`Calm`).
- src/advanced.go:868. A new panel that runs keeps its file busy, and the copy that should
  take it back fails: always when that panel hangs, and when it crashes if systemd, which
  starts it again every three seconds (src/deploy/tryallfun-panel.service:22-23), has it
  running at that moment. The script then restarts the new binary and ends, and the old one
  stays in the rollback file (`Calm`); src/README.md:31 promises the rollback.

**Scheduled tasks, backups**

- src/advanced.go:575. A backup beside a task request archives the list of before and the
  cron file of after it; its restore leaves cron running what the list does not have
  (`ListedRuns` is for `Apart`).
- src/advanced.go:605. tar leaves out what is absent (`--ignore-failed-read`) and its
  extraction removes nothing. When the first request has failed or a stop has cut it, the
  file of cron is there and schedules.json is not; the restore of an archive of that time
  replaces the one and leaves the other, and cron no longer runs what is listed, although
  src/frontend/src/main.js:386 says that a restore overwrites the scheduled tasks. The
  proof of `ListedRuns` did not go through without `~unlisted`; TLC then found the way there.
- src/advanced.go:591. The next save of the panel after a restore writes the configuration
  of before the restore: `AllOrNothing` speaks of the files at the end of the job.
- src/advanced.go:635. A stop of the panel ends the restore with it (systemd ends every
  process of the service), and nothing undoes or continues it. When tar has removed
  config.json and not yet written it, the panel starts as before its setup (main.go:260), or
  does not start with a half of it (main.go:266); when it comes between the list of tasks
  and the file of cron, these differ. `StaysSetUp` and `CronOneAhead` are for `~cut`.
- src/advanced.go:591. A restore runs for twenty minutes at most (admin.go:468). After that
  the shell is killed, the tar that it had started writes on to its end, and the job is
  reported as failed with the files of the archive on the disk and nothing taken back; the
  same when the tar of the rollback cannot write a file (lines 634 and 635), of which the
  answer says nothing else (`TakenBack`, `ListedRuns`, `CronOneAhead` and `StaysSetUp` leave
  both out, as `Cut` and `cut`). src/README.md:31 promises a check before, but no rollback.

**Sampler**

- src/admin.go:2145. A configuration that could not be saved is answered with an error and
  stays in memory, so that the page shows its key, masked. After a restart the page posts
  that key again: the check takes it for credentials, the assignment (line 2155) passes
  over it, and automatic proxying is enabled without any (`EnabledIsUsable` is for
  saves that work), where line 2146 says that it takes credentials.
- src/cloudflare_auto.go:79. The records of a zone are asked for a hundred at a time, and
  no further page is: those after the hundredth are never proxied. A record whose change
  Cloudflare refuses every time ends every attempt at line 90, before those after it
  (`EventuallyProxied` is for the first page, where none of it is refused).
- src/metrics_storage.go:45. A line that is torn takes the next one with it; a start that
  reads only the first lines keeps them, and the next rewrite makes that the file
  (`HistoryKept` is for `~cut`, `HistoryOnFile` for `~lossy`).

## 10. What is not modelled

Within modelled components:

- *Background jobs and execution slots* (modelled). registerJobLocked, pruneJobsLocked, the slot channel and the goroutines of startManagedJob, startNodeJob and startArgsJob, with restarts. The text of outputs (trimJobOutput, redaction) is left out.
- *Accounts, sessions and the configuration file* (partly). Setup, login, rehash, session cookies, the user directory, the owner's password in the settings, saving and loading config.json, reset-password and restarts. Left out: the second factor (a login it refuses is one that never continues), cookie expiry, the maintenance cookie (BeginChange stands for a request that has it) and the limit on parallel hashing.
- *Firewall rules and source bans* (partly). Rules, bans, the nftables table, requests, refreshes, the page, the command line with its rewrite of rules and bans, the start, failures, also of a rollback, restarts, and the port at which sshd really listens. Left out: outbound and udp rules (same code, no property about them), the rate limits and address checks in the text of the table, and the size of the event list.
- *Login limits and automatic bans* (modelled). The counters of failed logins, of which a source or a blank name may lack one, their blocks, expiry, eviction and clearing, and the hand-over of a source to the firewall. The text of addresses and fingerprints is abstracted to keys.
- *Marketplace of container apps* (partly). The lock and its hand-over to the job, the files of an app, its containers and every action that changes them, with two requests at a time for the same app and for different ones, failing writes and restarts. Left out: the logs action (reads only), the text of compose files, secrets, image versions and the health of apps.
- *Managed nodes* (partly). The jobs that bring the panel's key to a node, end its password logins and move its ssh port, with their scripts on the host and the entry in nodes.json, refusals of sshd, cut connections, saves that fail, entries that the operator edits, adds again or deletes, and stops of the panel. Left out: the generation of the key, probes and the commands an operator runs, which keep nothing.
- *Audit log* (partly). Appends of the panel and of the command line, each under the auditMu of its process, the rotation call by call, the page read without a lock, the migration of older files by whichever starts first; stops of either and failing renames. A line is written, and a file sanitized, in one step, and nothing is said of the files once both processes have worked at them at the same time. The fields of an entry are abstracted to whether they were sanitized.
- *Deployment center* (modelled). Every action of handleDeployments but logs, which reads only, call by call under deploymentMu, with the jobs it starts, failing writes and commands, and stops of the panel. The text of compose files, repositories and branches is left out.
- *Nginx sites* (partly). Every action of handleSiteAction with its check, change, test, reload and undo, the override in /etc/hosts, and two handlers at a time for the same domain and for different ones. Left out: writes that fail, backups (nothing reads them) and the text of a configuration.
- *Self-upgrade* (modelled). The upgrade source, the job that downloads, checks and schedules, and the script with its restarts and rollback, step by step, with overlapping upgrades, panels that hang, or crash and are started by systemd again and again, copies that the kernel refuses, and restarts of the host. The signature, the digest and the health answer are modelled by what they accept; what a copy that fails half-way leaves of a file is left out.
- *Scheduled tasks* (modelled). Every action of handleSchedules under scheduleMu, with the two files it writes, failing writes and stops of the panel. The syntax of expressions and commands is left out.
- *Backup and restore* (partly). The jobs that create and restore an archive, file by file, with the rollback, a tar that fails to read or write, timeouts, beside the panel that saves its configuration and its scheduled tasks (composed with Schedules), and stops of the panel at any step. Left out: the check of the names in an archive, SSL and SSH files (as those of a site), two backup jobs at a time, and remote backups, which run rclone.
- *WordPress sites* (modelled). handleWordPress with its early checks, the commands of its job one by one, each of which may fail (the move to a root directory that exists always does), and the last step that writes the vhost with writeAndReloadNginx, beside the other requests of Sites. Passwords and the text of the commands are left out.
- *SSH policy* (partly). The ssh action of handleSecurityAction: the drop-in, its test, the reload, the undo of either, beside the firewall that reads the port of sshd. Left out: the password and key settings that the drop-in has besides the port, Port lines of sshd_config itself, and the change of the root password, one command.
- *Cloudflare and automatic proxying* (modelled). maybeAutoOrangeCloud and its goroutine call by call, on its copy of the configuration and the first hundred records of a zone, of which Cloudflare may refuse some every time, beside handleCloudflare, failing calls and saves, restarts and changes made at Cloudflare. The records that are listed are a set; requests that only list or change a record for the page keep nothing.
- *Metrics and their history* (modelled). The goroutine of startSampler, the history in memory, the minute file with its appends, its daily rewrite and its reading at the start, with torn lines, failed writes and stops. What a sample holds, and how a page sums it up, is data.

Components without a module:

- *Two-factor codes and maintenance cookies*. Accounts models the sessions they ride on. HMAC, base32 and the clock of TOTP are computations on data, without state of their own but for one field of the configuration.
- *Password hashes*. Accounts models which hash is of the older format and is replaced; Argon2 itself, and the two slots that bound its memory, are not modelled.
- *Extension registry*. A single file that one request replaces as a whole and every list reads as a whole; the manifests are data, and their jobs are those of Jobs.
- *Files and recycle bin*. One system call for each operation, on paths that safePath and os.Root confine; the state is the file system, and what matters of it is path syntax.
- *Databases*. Every operation runs the client of MariaDB, PostgreSQL or Redis; the panel keeps no state about them.
- *Certificates*. Uploads and certbot runs write two files and reload nginx with the pattern that Sites models.
- *Web terminal*. A pipe between a websocket and a tmux process; its state is the one of tmux.
- *System tools*. Each request reads the system or runs one command, and nothing is kept.
- *Outbound requests and notifications*. The address checks of outgoing requests are pure functions on host names and addresses. The download of a package is in Upgrade; a notification is sent at the end of a job and is not repeated.
- *Remote backups*. Two fields of the configuration and a job that runs rclone: Accounts models saves of the configuration, Jobs the job.
- *HTTP server and routing*. The routes, the headers and the time limits are configuration of net/http.
- *Signing tool*. A command line program without state; what it signs is a constant of Upgrade.
- *Frontend*. It renders what the panel answers and keeps no state that the panel relies on.

Places in these, and in modelled components, where something hard to test can go wrong
and no module looks:

- *Backups*: src/remote_backup.go:75, an archive is pushed while it is being written; and
  src/advanced.go:591, of two restores at a time the rollback of the one puts files back
  that the other has installed.
- *Extension registry*: src/registry.go:196, of two replacements the later wins.
- *Metrics*: src/main.go:682, the page adds up the last point of the history and the sample
  in memory, which may be of the same minute.
- *Sites*: src/admin.go:886, a stop between the write of a file and its test.
- *Audit log*: src/runtime_safety.go:128, a torn line; and src/runtime_safety.go:53, the
  lines of a process that come to a file while another one sanitizes it.
- *Scheduled tasks*: src/advanced.go:476, a slow client holds scheduleMu up to the read
  timeout of the server.
- *Marketplace*: src/marketplace.go:256, an install whose containers never get healthy can
  neither be repeated nor uninstalled.

Everywhere, text is abstracted: commands, configuration syntax, messages and
addresses are members of small sets, and what an external program does (nginx,
nft, sshd, docker, tar, cron, systemd) is modelled by the effects that the code
relies on. A write of a file through `atomicWriteFile` is one step, as its rename
is; a write through `os.WriteFile` may fail before it changes anything, and the
torn write of a machine that loses power is left out.

Data races: a request that starts a job encodes the job into its answer without the
lock while the goroutine writes it (src/admin.go:422). Other shared state is read
under its lock, or in files.

## 11. What comes next

1. Proofs: every property of the runs is proved but `PagesTrue` and the liveness, which
   are out of reach; what is left are theorems for the abstract specifications of 2.
2. Abstract specifications: of the audit log (a sequence of which a suffix is kept)
   with AuditLog refining it, of scheduled tasks (one list) for runs without faults, and
   of the history of the metrics (a set of minutes).
3. Remote backups: the push of an archive beside the job that writes it.
