------------------------------ MODULE Firewall ------------------------------
(***************************************************************************)
(* The firewall of the panel: the rules in firewall.json, the source bans  *)
(* in blocked-sources.json, and the nftables table they are loaded into;   *)
(* and the port of sshd that the rules have to keep open, which the panel  *)
(* itself moves by a drop-in of sshd_config.                               *)
(*                                                                         *)
(* Requests and refreshes hold firewallActionMu from the loading of the    *)
(* rules to the last write; an automatic ban enters the ban file under     *)
(* securityMu alone, and a refresh follows.  The page of the firewall and  *)
(* the command `kunpanel firewall' (another process, with locks of its     *)
(* own) load and write the same files without these locks.                 *)
(*                                                                         *)
(* A rule is its content (allow or deny an inbound tcp port for an address *)
(* family and a source): sameFirewallRule refuses a second one.  The first *)
(* rule that matches a packet decides.  A ban is the time it ends; one     *)
(* that has ended is as good as none.                                      *)
(***************************************************************************)
EXTENDS Naturals, FiniteSets, SequencesExt

CONSTANTS
  Handlers,    \* concurrent requests and login handlers of the panel
  Rules,       \* records [action, family, port, from]: the rules ever added
  SshPort0,    \* the port of sshd at the start
  Addresses,   \* sources that are ever banned
  MaxTime,     \* bound of the clock
  Hosts        \* the hosts that are checked, see Host

Families == {"v4", "v6"}
Allow(family, port) == [action |-> "allow", family |-> family, port |-> port, from |-> "any"]
Default(port) == <<Allow("v4", port), Allow("v6", port)>>

\* What may happen on a host: the rules that are added, the sources that are
\* banned, what a start may do with the table, whether `kunpanel firewall' is
\* run, whether sshd is only moved while nobody else reads or writes the
\* rules, and bounds of the clock, of the failures of nft, of a write after it and
\* of sshd, of the stops of the panel, and of the moves of sshd.
Host == [rules : SUBSET Rules, addresses : SUBSET Addresses, boots : SUBSET {"load", "skip", "fail"},
         cli : BOOLEAN, apart : BOOLEAN, time : 0 .. MaxTime, failures : Nat, crashes : Nat, moves : Nat]

\* The rules that keep a port open for ssh are among the rules if any is about it.
ASSUME FirewallAssumption ==
  /\ IsFiniteSet(Handlers) /\ {"boot", "cli"} \cap Handlers = {}
  /\ Rules \subseteq [action : {"allow", "deny"}, family : Families, port : Nat, from : {"any", "net"}]
  /\ SshPort0 \in {r.port : r \in Rules}
  /\ \A r \in Rules : ToSet(Default(r.port)) \subseteq Rules
  /\ Hosts \subseteq Host
  /\ MaxTime \in Nat

VARIABLES
  host,       \* one of Hosts
  file,       \* firewall.json: its rules, and whether every field is filled in
  bans,       \* blocked-sources.json
  kernel,     \* the nftables table, if there is one
  ops,        \* what each process is doing
  refreshes,  \* automatic bans whose refresh waits for firewallActionMu
  page,       \* the rules a page request has read and is about to write back
  up,         \* whether the panel serves requests
  policy,     \* the port in the drop-in of sshd, if there is one
  listening,  \* the port sshd listens on
  move,       \* the request that moves sshd, which holds sshMu
  now, failures, crashes, moves,
  open,       \* the rules the panel has acknowledged; no code reads it,
  blind,      \* whether sshd was ever moved to a port that was not open,
  clean       \* or whether no load of the table, and no rollback of the bans,
              \* has failed since the last complete load

ssh == <<policy, listening, move, blind>>
env == <<host, ssh, now, failures, crashes, moves>>
vars == <<file, bans, kernel, ops, refreshes, page, up, env, open, clean>>

-----------------------------------------------------------------------------
(* Data *)

Deadline == 0 .. 2 * MaxTime + 1
Bans == [Addresses -> Deadline]
Live(b) == {a \in Addresses : b[a] > now}

\* The elements of the blocked sets that appendBlockedSet writes.
Elements(b) == [a \in Addresses |-> IF a \in Live(b) THEN b[a] ELSE 0]

Kinds == {"enable", "add", "delete", "block", "unblock", "refresh", "boot", "open", "list"}
RuleLists == {rules \in Seq(Rules) : IsInjective(rules)}
Table == [loaded : BOOLEAN, rules : Seq(Rules), bans : Bans]

\* A process that changes the firewall: what it has loaded (rules, prev), what
\* it changes (rule, addr, until), and the batch it has built.
Op == [kind : Kinds, step : {"idle", "bans", "build", "prune", "commit", "write"}, rules : RuleLists,
       rule : SUBSET Rules, addr : SUBSET Addresses, until : Deadline, prev : Bans,
       built : [replaces : BOOLEAN, bans : Bans]]

NoBans == [a \in Addresses |-> 0]
NoTable == [loaded |-> FALSE, rules |-> <<>>, bans |-> NoBans]
Idle == [kind |-> "enable", step |-> "idle", rules |-> <<>>, rule |-> {}, addr |-> {}, until |-> 0,
         prev |-> NoBans, built |-> [replaces |-> FALSE, bans |-> NoBans]]

Procs == Handlers \cup {"boot", "cli"}

\* sshPort asks `sshd -T', which reads the files and not the running sshd.
SshPort == IF policy = {} THEN SshPort0 ELSE CHOOSE p \in policy : TRUE

NoMove == [step |-> "idle", old |-> {}]

\* loadFirewallRules: an empty, absent or unusable file stands for the rules
\* that keep ssh open, and a file with missing fields is completed.
Loaded == IF file.rules = <<>> THEN Default(SshPort) ELSE file.rules
NeedsWrite == file.rules = <<>> \/ ~file.complete
Rewrite(rules) == file' = [rules |-> rules, complete |-> TRUE]
LoadFirewallRules == IF NeedsWrite THEN Rewrite(Loaded) ELSE UNCHANGED file

IsNew(rules, r) == ~Contains(rules, r)

OpensSsh(r) == r.action = "allow" /\ r.port = SshPort

\* Mutant: a rule of the other address family is good enough.
HasAlternativeSSHRule_AnyFamily(rules, r) ==
  \E s \in ToSet(rules) \ {r} : s.action = "allow" /\ s.port = r.port

HasAlternativeSSHRule(rules, r) ==
  \E s \in ToSet(rules) \ {r} : s.action = "allow" /\ s.port = r.port /\ s.family = r.family

\* The list without the entry of r; entries are told apart by their id.
Without(rules, r) == RemoveAt(rules, CHOOSE i \in DOMAIN rules : rules[i] = r)

MayDelete(rules, r) == Contains(rules, r) /\ (OpensSsh(r) => HasAlternativeSSHRule(rules, r))

\* Mutant: a shorter ban replaces a longer one.
Later_New(old, new) == new

\* A repeated ban never ends earlier.
Later(old, new) == IF new > old THEN new ELSE old

\* upsertSecurityBlock, under securityMu.
UpsertSecurityBlock(a, until) == bans' = [bans EXCEPT ![a] = Later(@, until)]

\* firewallActionMu.  The command is another process and cannot see it.
Free == \A p \in Handlers : ops[p].step = "idle"

Start(p, op) == ops' = [ops EXCEPT ![p] = op]
Advance(p, step) == ops' = [ops EXCEPT ![p].step = step]
Done(p) == ops' = [ops EXCEPT ![p] = Idle]

-----------------------------------------------------------------------------
(* Requests: handleFirewallAction up to the load of the table *)

\* On some hosts sshd is moved while the firewall is at rest.
NoMoveBeside == host.apart => move.step = "idle"
NothingBeside == host.apart => page = {} /\ \A p \in Procs : ops[p].step = "idle"

Begin(h) ==
  /\ up /\ Free /\ ops[h].step = "idle"
  /\ NoMoveBeside
  /\ LoadFirewallRules

Request(kind, rules) == [Idle EXCEPT !.kind = kind, !.step = "build", !.rules = rules, !.prev = bans]

Enable(h) ==
  /\ Begin(h)
  /\ Start(h, Request("enable", Loaded))
  /\ UNCHANGED <<bans, kernel, refreshes, page, up, env, open, clean>>

AddRule(h, r) ==
  /\ Begin(h)
  /\ IsNew(Loaded, r)
  /\ Start(h, [Request("add", Append(Loaded, r)) EXCEPT !.rule = {r}])
  /\ UNCHANGED <<bans, kernel, refreshes, page, up, env, open, clean>>

DeleteRule(h, r) ==
  /\ Begin(h)
  /\ MayDelete(Loaded, r)
  /\ Start(h, [Request("delete", Without(Loaded, r)) EXCEPT !.rule = {r}])
  /\ UNCHANGED <<bans, kernel, refreshes, page, up, env, open, clean>>

\* The bans are copied first, for the rollback.
BeginBan(h, kind, a, minutes) ==
  /\ Begin(h)
  /\ Start(h, [Request(kind, Loaded) EXCEPT !.step = "bans", !.addr = {a}, !.until = now + minutes])
  /\ UNCHANGED <<bans, kernel, refreshes, page, up, env, open, clean>>

\* The request is refused when there is no ban to lift or the file cannot be written.
ChangeBans(h) ==
  LET op == ops[h] IN
  /\ op.step = "bans"
  /\ \E a \in op.addr :
       \/ op.kind = "block" /\ UpsertSecurityBlock(a, op.until) /\ Advance(h, "build")
       \/ op.kind = "unblock" /\ a \in Live(bans) /\ bans' = [bans EXCEPT ![a] = 0] /\ Advance(h, "build")
       \/ UNCHANGED bans /\ Done(h)
  /\ UNCHANGED <<file, kernel, refreshes, page, up, env, open, clean>>

-----------------------------------------------------------------------------
(* applyFirewallRules, by whichever process *)

\* The batch is built from the bans on file at this moment; it deletes the
\* table there is.  (loadSecurityBlocks, under securityMu, takes bans that have
\* ended off the file.)
Build(p) ==
  /\ ops[p].step = "build"
  /\ ops' = [ops EXCEPT ![p].step = "commit",
                        ![p].built = [replaces |-> kernel.loaded, bans |-> Elements(bans)]]
  /\ UNCHANGED <<file, bans, kernel, refreshes, page, up, env, open, clean>>

\* The table after the batch: without the deletion, it adds to a table that
\* another process has loaded meanwhile, where an element keeps its time.
Replaced(op) ==
  LET added == op.built.bans IN
  IF kernel.loaded /\ ~op.built.replaces
  THEN [loaded |-> TRUE, rules |-> kernel.rules \o op.rules,
        bans |-> [a \in Addresses |-> IF kernel.bans[a] > now THEN kernel.bans[a] ELSE added[a]]]
  ELSE [loaded |-> TRUE, rules |-> op.rules, bans |-> added]

Commit(p) ==
  /\ ops[p].step = "commit"
  /\ kernel' = Replaced(ops[p])
  /\ Advance(p, "write")
  /\ UNCHANGED <<file, bans, refreshes, page, up, env, open, clean>>

Acknowledged(op) == (open \cup IF op.kind \in {"add", "open"} THEN op.rule ELSE {})
                      \ IF op.kind = "delete" THEN op.rule ELSE {}

Write(p) ==
  /\ ops[p].step = "write"
  /\ Rewrite(ops[p].rules)
  /\ open' = Acknowledged(ops[p])
  /\ clean' = TRUE
  /\ up' = (up \/ p = "boot")
  /\ Done(p)
  /\ UNCHANGED <<bans, kernel, refreshes, page, env>>

\* Mutant: the bans stay as the failed request left them.
RolledBack_Not(op) == bans

RolledBack(op) == IF op.kind \in {"block", "unblock"} THEN op.prev ELSE bans

\* nft refuses the batch, or a file cannot be written after it.  A request for
\* a ban puts the bans back that it copied, unless that write fails as well, which
\* nobody notices; a failed refresh is only logged.
Fail(p) ==
  /\ ops[p].step \in {"commit", "write"}
  /\ p = "boot" => "fail" \in host.boots
  /\ \/ /\ failures < host.failures /\ failures' = failures + 1
        /\ bans' = RolledBack(ops[p])
        /\ clean' = (clean /\ ops[p].step = "commit" /\ ops[p].kind \notin {"refresh", "boot"})
     \/ /\ failures + 1 < host.failures /\ failures' = failures + 2
        /\ ops[p].kind \in {"block", "unblock"}
        /\ clean' = FALSE /\ UNCHANGED bans
  /\ up' = (up \/ p = "boot")
  /\ Done(p)
  /\ UNCHANGED <<file, kernel, refreshes, page, host, ssh, now, crashes, moves, open>>

-----------------------------------------------------------------------------
(* Automatic bans, the page, the command, the world *)

\* autoBlockLoginSource, by a login handler.
AutoBlock(a, minutes) ==
  /\ up
  /\ refreshes < Cardinality(Handlers)
  /\ UpsertSecurityBlock(a, now + minutes)
  /\ refreshes' = refreshes + 1
  /\ UNCHANGED <<file, kernel, ops, page, up, env, open, clean>>

\* refreshFirewallBlocks; without a table there is nothing to refresh.
Refresh(h) ==
  /\ refreshes > 0 /\ refreshes' = refreshes - 1
  /\ \/ ~kernel.loaded /\ UNCHANGED <<file, ops>>
     \/ kernel.loaded /\ Begin(h) /\ Start(h, Request("refresh", Loaded))
  /\ UNCHANGED <<bans, kernel, page, up, env, open, clean>>

\* handleFirewall, and `kunpanel firewall list', hold no lock of the panel
\* between the reading of the file
ReadPage ==
  /\ up /\ page = {} /\ NeedsWrite
  /\ NoMoveBeside
  /\ page' = {Loaded}
  /\ UNCHANGED <<file, bans, kernel, ops, refreshes, up, env, open, clean>>

\* and its completion.
WritePage ==
  /\ page # {} /\ page' = {}
  /\ \E rules \in page : Rewrite(rules)
  /\ UNCHANGED <<bans, kernel, ops, refreshes, up, env, open, clean>>

\* firewallCLI, open.
CliOpen(r) ==
  /\ host.cli /\ ops["cli"].step = "idle"
  /\ NoMoveBeside
  /\ LoadFirewallRules
  /\ IsNew(Loaded, r)
  /\ Start("cli", [Request("open", Append(Loaded, r)) EXCEPT !.rule = {r}])
  /\ UNCHANGED <<bans, kernel, refreshes, page, up, env, open, clean>>

\* loadSecurityBlocks in that process: when a ban has ended the file is written
\* again without it, and the lock between the reading, by list
HasEnded == \E a \in Addresses : bans[a] \in 1 .. now

CliList ==
  /\ host.cli /\ ops["cli"].step = "idle"
  /\ NoMoveBeside
  /\ LoadFirewallRules
  /\ HasEnded
  /\ Start("cli", [Request("list", Loaded) EXCEPT !.step = "prune"])
  /\ UNCHANGED <<bans, kernel, refreshes, page, up, env, open, clean>>

\* or by open,
CliRead ==
  /\ ops["cli"].step = "build" /\ HasEnded
  /\ ops' = [ops EXCEPT !["cli"].step = "prune", !["cli"].prev = bans]
  /\ UNCHANGED <<file, bans, kernel, refreshes, page, up, env, open, clean>>

\* and the writing is not that of the panel.
CliPrune ==
  LET op == ops["cli"] IN
  /\ op.step = "prune"
  /\ bans' = Elements(op.prev)
  /\ \/ op.kind = "list" /\ Done("cli")
     \/ /\ op.kind = "open"
        /\ ops' = [ops EXCEPT !["cli"].step = "commit",
                              !["cli"].built = [replaces |-> kernel.loaded, bans |-> Elements(op.prev)]]
  /\ UNCHANGED <<file, kernel, refreshes, page, up, env, open, clean>>

\* autoEnableFirewall in main, before the panel serves requests.
Boot ==
  /\ ~up /\ ops["boot"].step = "idle"
  /\ \/ "skip" \in host.boots /\ up' = TRUE /\ UNCHANGED <<file, ops>>
     \/ /\ host.boots \cap {"load", "fail"} # {}
        /\ LoadFirewallRules /\ Start("boot", Request("boot", Loaded)) /\ UNCHANGED up
  /\ UNCHANGED <<bans, kernel, refreshes, page, env, open, clean>>

\* The panel stops, or with it the machine, and its table is gone.
Crash(reboot) ==
  /\ crashes < host.crashes /\ crashes' = crashes + 1
  /\ up' = FALSE /\ refreshes' = 0 /\ page' = {} /\ clean' = FALSE
  /\ ops' = [p \in Procs |-> IF p = "cli" /\ ~reboot THEN ops[p] ELSE Idle]
  /\ kernel' = IF reboot THEN NoTable ELSE kernel
  /\ listening' = IF reboot THEN SshPort ELSE listening
  /\ move' = NoMove
  /\ UNCHANGED <<file, bans, host, policy, now, failures, moves, open, blind>>

SshOpen(rules, port) ==
  \A f \in Families : \E i \in DOMAIN rules :
    /\ rules[i].action = "allow" /\ rules[i].family = f /\ rules[i].port = port
    /\ \A j \in 1 .. i - 1 :
         ~(rules[j].action = "deny" /\ rules[j].family = f /\ rules[j].port = port
           /\ rules[j].from \in {"any", rules[i].from})

\* The table, and the file that the next start loads, let ssh in on a port.
Admits(port) == (kernel.loaded => SshOpen(kernel.rules, port)) /\ SshOpen(Loaded, port)

Tick ==
  /\ now < host.time /\ now' = now + 1
  /\ UNCHANGED <<file, bans, kernel, ops, refreshes, page, up, host, ssh, failures, crashes, moves, open, clean>>

-----------------------------------------------------------------------------
(* handleSecurityAction, ssh *)

\* The new port is any port: nothing asks whether the firewall has it open.
MoveSsh(port) ==
  /\ up /\ move.step = "idle"
  /\ moves < host.moves /\ moves' = moves + 1
  /\ NothingBeside
  /\ blind' = (blind \/ ~Admits(port))
  /\ policy' = {port} /\ move' = [step |-> "test", old |-> policy]
  /\ UNCHANGED <<file, bans, kernel, ops, refreshes, page, up, host, listening, now, failures, crashes, open, clean>>

\* restoreManagedFile
Restored == move.old

\* sshd tests its files and is told to reload them; when it refuses one of them
\* the drop-in is put back, and loaded, if the reload had been tried.  The reload
\* that fails may have been done.
ReloadSsh ==
  /\ \/ move.step = "test" /\ move' = [move EXCEPT !.step = "reload"] /\ UNCHANGED <<policy, listening, failures>>
     \/ move.step \in {"reload", "undo"} /\ move' = NoMove /\ listening' = SshPort /\ UNCHANGED <<policy, failures>>
     \/ /\ move.step # "idle" /\ failures < host.failures /\ failures' = failures + 1
        /\ policy' = IF move.step = "undo" THEN policy ELSE Restored
        /\ listening' \in {listening} \cup IF move.step = "reload" THEN {SshPort} ELSE {}
        /\ move' = IF move.step = "reload" THEN [move EXCEPT !.step = "undo"] ELSE NoMove
  /\ UNCHANGED <<file, bans, kernel, ops, refreshes, page, up, host, now, crashes, moves, open, blind, clean>>

-----------------------------------------------------------------------------

Init ==
  /\ host \in Hosts
  /\ file \in [rules : {<<>>, Default(SshPort0)}, complete : BOOLEAN]
  /\ bans = NoBans
  /\ kernel = NoTable
  /\ ops = [p \in Procs |-> Idle]
  /\ refreshes = 0 /\ page = {} /\ up = FALSE
  /\ policy = {} /\ listening = SshPort0 /\ move = NoMove
  /\ now = 0 /\ failures = 0 /\ crashes = 0 /\ moves = 0
  /\ open = ToSet(Loaded)
  /\ blind = FALSE /\ clean = FALSE

Minutes == 1 .. host.time + 1

Next ==
  \/ \E h \in Handlers :
       \/ Enable(h)
       \/ \E r \in host.rules : AddRule(h, r) \/ DeleteRule(h, r)
       \/ \E kind \in {"block", "unblock"}, a \in host.addresses, m \in Minutes : BeginBan(h, kind, a, m)
       \/ ChangeBans(h)
       \/ Refresh(h)
  \/ \E p \in Procs : Build(p) \/ Commit(p) \/ Write(p) \/ Fail(p)
  \/ \E a \in host.addresses, m \in Minutes : AutoBlock(a, m)
  \/ ReadPage \/ WritePage
  \/ \E r \in host.rules : CliOpen(r)
  \/ CliList \/ CliRead \/ CliPrune
  \/ Boot
  \/ \E reboot \in BOOLEAN : Crash(reboot)
  \/ \E r \in host.rules : MoveSsh(r.port)
  \/ ReloadSsh
  \/ Tick

Spec == Init /\ [][Next]_vars

-----------------------------------------------------------------------------
(* Properties *)

TypeOK ==
  /\ host \in Hosts
  /\ file \in [rules : RuleLists, complete : BOOLEAN]
  /\ bans \in Bans
  /\ kernel \in Table
  /\ ops \in [Procs -> Op]
  /\ refreshes \in 0 .. Cardinality(Handlers)
  /\ page \subseteq RuleLists /\ Cardinality(page) <= 1
  /\ up \in BOOLEAN /\ blind \in BOOLEAN /\ clean \in BOOLEAN
  /\ policy \subseteq {r.port : r \in Rules} /\ Cardinality(policy) <= 1
  /\ listening \in {r.port : r \in Rules}
  /\ move \in [step : {"idle", "test", "reload", "undo"}, old : SUBSET {r.port : r \in Rules}]
  /\ Cardinality(move.old) <= 1
  /\ now \in 0 .. MaxTime
  /\ failures \in 0 .. host.failures /\ crashes \in 0 .. host.crashes /\ moves \in 0 .. host.moves
  /\ open \subseteq Rules

\* Every start loads the table before the panel serves requests, and the panel
\* alone writes the rules.
PanelAlone == host.boots = {"load"} /\ ~host.cli

\* sshd is moved while nobody reads or writes the rules, and to ports that are
\* open, if at all.
MovedWithCare == ~blind /\ (host.apart \/ moves = 0)

\* A table that is loaded lets ssh in, over each address family: no sequence of
\* rules opened and deleted, failures, reboots and commands closes the port the
\* operator depends on (the file never loads into such a table either), as long
\* as sshd listens where its files say, no rule denies it, and every move of sshd
\* went to a port that was open, while the firewall was at rest.  Nothing in
\* handleSecurityAction asks for the latter two.
SshAdmitted ==
  MovedWithCare /\ listening = SshPort /\ (\A r \in host.rules : r.action = "allow") => Admits(listening)

\* sshd listens where its files say when no move is under way, unless two
\* reloads in a row have failed or the panel has stopped: a move that is refused
\* is taken back, in the files and in sshd.
MoveTakenBack == crashes = 0 /\ failures < 2 /\ move.step = "idle" => listening = SshPort

\* When nothing is under way, the kernel enforces what the files say: the same
\* rules, and the same bans until the same time.  A load that fails after nft has
\* taken the table, a failed refresh, and a rollback of the bans that fails after
\* a failed load leave the two apart, until the next complete load.
Enforced ==
  PanelAlone /\ MovedWithCare /\ up /\ clean /\ refreshes = 0 /\ (\A p \in Procs : ops[p].step = "idle") =>
    /\ kernel.loaded
    /\ kernel.rules = Loaded
    /\ Elements(kernel.bans) = Elements(bans)

\* The rules on file are the ones the panel has acknowledged: a rule that was
\* opened is there until it is deleted, one that was deleted does not come back.
RulesAsAcknowledged == PanelAlone /\ MovedWithCare => ToSet(Loaded) = open

\* A ban ends early only by a request about its address; by the rollback of a
\* failed request, which puts back the bans it copied; or by a command that
\* rewrites the file as it had read it, and then only if the ban was entered, or
\* made longer, since that reading.  Bans of other sources that are entered
\* meanwhile keep their time.
BansKept ==
  [][\A a \in Live(bans) :
       bans'[a] < bans[a] =>
         \/ \E h \in Handlers : ops[h].kind \in {"block", "unblock"} /\ a \in ops[h].addr
         \/ failures' > failures
         \/ ops["cli"].step = "prune" /\ ops'["cli"].step # "prune" /\ ops["cli"].prev[a] < bans[a]]_vars

\* The files of the firewall, the table and what the operator was told agree
\* (handleFirewallAction, firewallCLI, loadFirewallRules, handleSecurityAction):
\* a fault or a stop leaves them apart for no longer than the request that it
\* hit, but for the failures that Enforced names.
Consistent ==
  /\ TypeOK
  /\ Enforced
  /\ RulesAsAcknowledged
  /\ MoveTakenBack

=============================================================================
