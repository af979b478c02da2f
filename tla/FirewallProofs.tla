--------------------------- MODULE FirewallProofs ---------------------------
(***************************************************************************)
(* Proofs about Firewall, for every set of handlers, rules, sources and    *)
(* hosts: ssh stays open, the table enforces the files, the files hold     *)
(* what was acknowledged, a refused move of sshd is taken back, and no ban *)
(* ends early.                                                             *)
(***************************************************************************)
EXTENDS Firewall, FiniteSetTheorems, SequenceTheorems, TLAPS

-----------------------------------------------------------------------------
(* The inductive invariant.                                                *)

Active(p) == ops[p].step # "idle"

\* The port that the drop-ins of sshd say.
PortOf(drop) == IF drop = {} THEN SshPort0 ELSE CHOOSE p \in drop : TRUE

\* While sshd is moved, it may go back to the port that it had.
Ports == {SshPort} \cup IF move.step = "idle" THEN {} ELSE {PortOf(move.old)}

\* Some rule lets ssh in, over each address family.
Opens(rules, port) ==
  \A f \in Families : \E r \in ToSet(rules) : r.action = "allow" /\ r.family = f /\ r.port = port

\* Who works when, and on what: boot before the panel is up, requests one at a
\* time while it is, and on some hosts not beside a move of sshd.
StepsInv ==
  /\ up => ~Active("boot")
  /\ ~up => (\A h \in Handlers : ~Active(h)) /\ page = {} /\ move.step = "idle" /\ refreshes = 0
  /\ \A g, h \in Handlers : Active(g) /\ Active(h) => g = h
  /\ \A p \in Procs : ops[p].step = "bans" => ops[p].kind \in {"block", "unblock"}
  /\ Active("boot") => ops["boot"].kind = "boot"
  /\ Active("cli") => host.cli
  /\ host.apart /\ move.step # "idle" => page = {} /\ \A p \in Procs : ~Active(p)
  /\ moves = 0 => policy = {} /\ listening = SshPort0 /\ move.step = "idle"

\* Every list of rules that is written or loaded, or will be, opens the ports
\* that sshd has or may go back to.
OpenInv ==
  MovedWithCare =>
    \A port \in Ports :
      /\ file.rules # <<>> => Opens(file.rules, port)
      /\ kernel.loaded => Opens(kernel.rules, port)
      /\ \A rules \in page : Opens(rules, port)
      /\ \A p \in Procs : Active(p) => Opens(ops[p].rules, port)

AllAllow == \A r \in host.rules : r.action = "allow"
AllowOnly(rules) == \A r \in ToSet(rules) : r.action = "allow"

\* If no rule that is added denies anything, no list of rules does.
AllowInv ==
  AllAllow =>
    /\ AllowOnly(file.rules) /\ AllowOnly(kernel.rules)
    /\ \A rules \in page : AllowOnly(rules)
    /\ \A p \in Procs : AllowOnly(ops[p].rules)

\* sshd listens where its files said before a move until it is told to reload
\* them; it was told, and did not obey, when its old files are loaded again.
MoveInv ==
  /\ crashes = 0 /\ failures < 2 =>
       /\ move.step = "idle" => listening = SshPort
       /\ move.step \in {"test", "reload"} => listening = PortOf(move.old)
  /\ move.step = "undo" => failures > 0

Alone == PanelAlone /\ MovedWithCare

\* A panel that is alone reads and writes complete files, and each request will
\* write what it is going to acknowledge.
FileInv ==
  Alone =>
    /\ page = {} /\ ~Active("cli")
    /\ up \/ Active("boot") => ~NeedsWrite
    /\ ToSet(Loaded) = open
    /\ \A p \in Procs : Active(p) => ToSet(ops[p].rules) = Acknowledged(ops[p])

\* Two sets of bans agree on those that have not ended.
Same(b, c) == \A a \in Addresses : b[a] > now \/ c[a] > now => b[a] = c[a]

\* From a complete load of the table until the next, while no automatic ban
\* waits for its refresh: what the table has, what a failure goes back to, and
\* what the batch will load.
KernelInv ==
  Alone =>
    /\ up => kernel.loaded
    /\ up /\ clean /\ (\A p \in Procs : ops[p].step # "write") => kernel.rules = Loaded
    /\ up /\ clean /\ refreshes = 0 /\ (\A p \in Procs : ~Active(p)) => Same(kernel.bans, bans)
    /\ \A p \in Procs :
         LET op == ops[p] IN
         /\ op.step = "bans" /\ refreshes = 0 => /\ op.prev = bans
                                                 /\ clean => Same(kernel.bans, bans)
         /\ op.step \in {"build", "commit"} /\ refreshes = 0 /\ clean /\ op.kind \notin {"refresh", "boot"}
              => Same(kernel.bans, RolledBack(op))
         /\ op.step = "commit" => /\ kernel.loaded => op.built.replaces
                                  /\ refreshes = 0 => Same(op.built.bans, bans)
         /\ op.step = "write" => /\ kernel.loaded /\ kernel.rules = op.rules
                                 /\ refreshes = 0 => Same(kernel.bans, bans)

Inv == TypeOK /\ StepsInv /\ OpenInv /\ AllowInv /\ MoveInv /\ FileInv /\ KernelInv

-----------------------------------------------------------------------------
(* Lists of rules.                                                         *)

AllPorts == {r.port : r \in Rules}

\* A rule that is new at the end of a list.
LEMMA ListAppend ==
  ASSUME NEW s \in RuleLists, NEW r \in Rules, IsNew(s, r)
  PROVE  /\ Append(s, r) \in RuleLists
         /\ ToSet(Append(s, r)) = ToSet(s) \cup {r}
         /\ Append(s, r) # <<>>
<1>1. s \in Seq(Rules) /\ \A i, j \in 1 .. Len(s) : s[i] = s[j] => i = j
  BY DEF RuleLists, IsInjective
<1>2. \A i \in 1 .. Len(s) : s[i] # r
  BY DEF IsNew, Contains
<1>3. /\ Append(s, r) \in Seq(Rules) /\ Len(Append(s, r)) = Len(s) + 1
      /\ \A i \in 1 .. Len(s) : Append(s, r)[i] = s[i]
      /\ Append(s, r)[Len(s) + 1] = r
      /\ DOMAIN Append(s, r) = 1 .. Len(s) + 1
  BY <1>1
<1>4. Len(s) \in Nat /\ DOMAIN s = 1 .. Len(s)
  BY <1>1
<1> DEFINE t == Append(s, r)
<1>5. /\ t \in Seq(Rules) /\ DOMAIN t = 1 .. Len(s) + 1 /\ t[Len(s) + 1] = r
      /\ \A i \in 1 .. Len(s) : t[i] = s[i]
  BY <1>3
<1> HIDE DEF t
<1>6. IsInjective(t)
  BY <1>1, <1>2, <1>4, <1>5 DEF IsInjective
<1>7. ToSet(t) = ToSet(s) \cup {r}
  BY <1>4, <1>5 DEF ToSet
<1>8. t # <<>>
  BY <1>4, <1>5
<1>9. QED
  BY <1>5, <1>6, <1>7, <1>8 DEF t, RuleLists

\* An entry is left out of a list.
LEMMA ListWithout ==
  ASSUME NEW s \in RuleLists, NEW r, Contains(s, r)
  PROVE  /\ Without(s, r) \in RuleLists
         /\ ToSet(Without(s, r)) = ToSet(s) \ {r}
<1> DEFINE k == CHOOSE i \in DOMAIN s : s[i] = r
           t == Without(s, r)
<1>1. s \in Seq(Rules) /\ Len(s) \in Nat /\ DOMAIN s = 1 .. Len(s) /\ \A i, j \in 1 .. Len(s) : s[i] = s[j] => i = j
  BY DEF RuleLists, IsInjective
<1>2. k \in 1 .. Len(s) /\ s[k] = r
  BY <1>1 DEF Contains
<1>3. t = SubSeq(s, 1, k - 1) \o SubSeq(s, k + 1, Len(s))
  BY DEF Without, RemoveAt
<1> HIDE DEF k, t
<1> DEFINE a == SubSeq(s, 1, k - 1)
           b == SubSeq(s, k + 1, Len(s))
<1>4. a \in Seq(Rules) /\ Len(a) = k - 1 /\ \A i \in 1 .. k - 1 : a[i] = s[i]
  <2>1. \A i \in 1 .. k - 1 : s[i] \in Rules
    BY <1>1, <1>2
  <2>2. /\ a \in Seq(Rules) /\ Len(a) = IF 1 <= k - 1 THEN k - 1 - 1 + 1 ELSE 0
        /\ \A i \in 1 .. k - 1 - 1 + 1 : a[i] = s[1 + i - 1]
    BY <1>1, <1>2, <2>1, SubSeqProperties
  <2> HIDE DEF a
  <2>3. QED
    BY <1>2, <2>2
<1>5. b \in Seq(Rules) /\ Len(b) = Len(s) - k /\ \A i \in 1 .. Len(s) - k : b[i] = s[k + i]
  <2>1. \A i \in k + 1 .. Len(s) : s[i] \in Rules
    BY <1>1, <1>2
  <2>2. k + 1 \in Int /\ Len(s) \in Int
    BY <1>1, <1>2
  <2>3. /\ b \in Seq(Rules) /\ Len(b) = IF k + 1 <= Len(s) THEN Len(s) - (k + 1) + 1 ELSE 0
        /\ \A i \in 1 .. Len(s) - (k + 1) + 1 : b[i] = s[(k + 1) + i - 1]
    BY <2>1, <2>2, SubSeqProperties
  <2> HIDE DEF b
  <2>4. \A i \in 1 .. Len(s) - k : (k + 1) + i - 1 = k + i
    BY <1>1, <1>2
  <2>5. Len(s) - (k + 1) + 1 = Len(s) - k
    BY <1>1, <1>2
  <2>6. \A i \in 1 .. Len(s) - k : b[i] = s[k + i]
    BY <2>3, <2>4, <2>5
  <2>7. Len(b) = Len(s) - k
    <3>1. k \in Nat /\ Len(s) \in Nat /\ k <= Len(s)
      BY <1>1, <1>2
    <3>2. CASE k + 1 <= Len(s)
      BY <2>3, <2>5, <3>2
    <3>3. CASE k = Len(s)
      BY <2>3, <3>1, <3>3
    <3>4. QED
      BY <3>1, <3>2, <3>3
  <2>8. QED
    BY <2>3, <2>6, <2>7
<1>6. /\ t \in Seq(Rules) /\ Len(t) = Len(s) - 1
      /\ \A i \in 1 .. Len(t) : t[i] = IF i < k THEN s[i] ELSE s[i + 1]
  <2>1. t = a \o b
    BY <1>3
  <2> HIDE DEF a, b
  <2>2. /\ t \in Seq(Rules) /\ Len(t) = Len(a) + Len(b)
        /\ \A i \in 1 .. Len(a) + Len(b) : t[i] = IF i <= Len(a) THEN a[i] ELSE b[i - Len(a)]
    BY <1>4, <1>5, <2>1, ConcatProperties
  <2>3. Len(t) = Len(s) - 1
    BY <1>1, <1>2, <1>4, <1>5, <2>2
  <2>4. ASSUME NEW i \in 1 .. Len(s) - 1
        PROVE  t[i] = IF i < k THEN s[i] ELSE s[i + 1]
    <3>1. i \in 1 .. Len(a) + Len(b)
      BY <1>1, <1>2, <1>4, <1>5
    <3>2. CASE i < k
      BY <1>1, <1>2, <1>4, <2>2, <3>1, <3>2
    <3>3. CASE i >= k
      <4>1. i - (k - 1) \in 1 .. Len(s) - k /\ ~(i <= k - 1) /\ k + (i - (k - 1)) = i + 1
        BY <1>1, <1>2, <3>3
      <4>2. t[i] = b[i - (k - 1)]
        BY <1>4, <2>2, <3>1, <4>1
      <4>3. b[i - (k - 1)] = s[k + (i - (k - 1))]
        BY <1>5, <4>1
      <4>4. QED
        BY <1>2, <3>3, <4>1, <4>2, <4>3
    <3>4. QED
      BY <1>2, <3>2, <3>3
  <2>5. QED
    BY <2>2, <2>3, <2>4
<1> HIDE DEF a, b
<1>7. DOMAIN t = 1 .. Len(s) - 1
  BY <1>6
<1>8. IsInjective(t)
  BY <1>1, <1>2, <1>6, <1>7 DEF IsInjective
<1>9. ToSet(t) = ToSet(s) \ {r}
  <2>1. \A i \in 1 .. Len(s) - 1 : t[i] \in ToSet(s) \ {r}
    BY <1>1, <1>2, <1>6 DEF ToSet
  <2>2. ASSUME NEW j \in 1 .. Len(s), s[j] # r
        PROVE  \E i \in 1 .. Len(s) - 1 : t[i] = s[j]
    <3>1. CASE j < k
      BY <1>1, <1>2, <1>6, <3>1
    <3>2. CASE j > k
      <4>1. j - 1 \in 1 .. Len(s) - 1 /\ t[j - 1] = s[j]
        BY <1>1, <1>2, <1>6, <3>2
      <4>2. QED
        BY <4>1
    <3>3. QED
      BY <1>1, <1>2, <2>2, <3>1, <3>2
  <2>3. ToSet(t) = {t[i] : i \in 1 .. Len(s) - 1} /\ ToSet(s) = {s[i] : i \in 1 .. Len(s)}
    BY <1>1, <1>7 DEF ToSet
  <2>4. ToSet(t) \subseteq ToSet(s) \ {r}
    BY <2>1, <2>3
  <2>5. ToSet(s) \ {r} \subseteq ToSet(t)
    BY <2>2, <2>3
  <2>6. QED
    BY <2>4, <2>5
<1>10. QED
  BY <1>6, <1>8, <1>9 DEF t, RuleLists

\* Two lists, one after the other.
LEMMA ListConcat ==
  ASSUME NEW s \in Seq(Rules), NEW t \in Seq(Rules)
  PROVE  /\ s \o t \in Seq(Rules)
         /\ ToSet(s \o t) = ToSet(s) \cup ToSet(t)
<1>1. /\ s \o t \in Seq(Rules) /\ Len(s \o t) = Len(s) + Len(t)
      /\ \A i \in 1 .. Len(s) + Len(t) : (s \o t)[i] = IF i <= Len(s) THEN s[i] ELSE t[i - Len(s)]
  BY ConcatProperties
<1> DEFINE u == s \o t
<1>2. /\ u \in Seq(Rules) /\ Len(u) = Len(s) + Len(t) /\ DOMAIN u = 1 .. Len(s) + Len(t)
      /\ \A i \in 1 .. Len(s) + Len(t) : u[i] = IF i <= Len(s) THEN s[i] ELSE t[i - Len(s)]
  BY <1>1
<1>3. Len(s) \in Nat /\ Len(t) \in Nat /\ DOMAIN s = 1 .. Len(s) /\ DOMAIN t = 1 .. Len(t)
  OBVIOUS
<1> HIDE DEF u
<1>4. \A i \in 1 .. Len(t) : Len(s) + i \in 1 .. Len(s) + Len(t) /\ u[Len(s) + i] = t[i]
  <2>1. \A i \in 1 .. Len(t) : Len(s) + i \in 1 .. Len(s) + Len(t) /\ ~(Len(s) + i <= Len(s)) /\ (Len(s) + i) - Len(s) = i
    BY <1>3
  <2>2. QED
    BY <1>2, <2>1
<1>5. \A i \in 1 .. Len(s) : i \in 1 .. Len(s) + Len(t) /\ u[i] = s[i]
  BY <1>2, <1>3
<1>6. /\ ToSet(u) = {u[i] : i \in 1 .. Len(s) + Len(t)}
      /\ ToSet(s) = {s[i] : i \in 1 .. Len(s)} /\ ToSet(t) = {t[i] : i \in 1 .. Len(t)}
  BY <1>2, <1>3 DEF ToSet
<1>7. ToSet(u) = ToSet(s) \cup ToSet(t)
  <2>1. ASSUME NEW i \in 1 .. Len(s) + Len(t)
        PROVE  u[i] \in ToSet(s) \cup ToSet(t)
    <3>1. CASE i <= Len(s)
      BY <1>2, <1>3, <1>6, <3>1
    <3>2. CASE i > Len(s)
      <4>1. i - Len(s) \in 1 .. Len(t) /\ u[i] = t[i - Len(s)]
        BY <1>2, <1>3, <3>2
      <4>2. QED
        BY <1>6, <4>1
    <3>3. QED
      BY <1>3, <3>1, <3>2
  <2>2. ToSet(u) \subseteq ToSet(s) \cup ToSet(t)
    BY <1>6, <2>1
  <2>3. ToSet(s) \subseteq ToSet(u) /\ ToSet(t) \subseteq ToSet(u)
    BY <1>4, <1>5, <1>6
  <2>4. QED
    BY <2>2, <2>3
<1>8. QED
  BY <1>2, <1>7 DEF u

\* The rules that keep a port open for ssh.
LEMMA DefaultOpens ==
  ASSUME NEW port
  PROVE  /\ ToSet(Default(port)) = {Allow("v4", port), Allow("v6", port)}
         /\ Opens(Default(port), port) /\ AllowOnly(Default(port))
         /\ port \in AllPorts => Default(port) \in RuleLists /\ Default(port) # <<>>
<1>1. ToSet(Default(port)) = {Allow("v4", port), Allow("v6", port)}
  <2> DEFINE d == Default(port)
  <2>1. DOMAIN d = 1 .. 2 /\ d[1] = Allow("v4", port) /\ d[2] = Allow("v6", port)
    BY DEF Default
  <2> HIDE DEF d
  <2>2. ToSet(d) = {Allow("v4", port), Allow("v6", port)}
    BY <2>1 DEF ToSet
  <2>3. QED
    BY <2>2 DEF d
<1>2. Opens(Default(port), port) /\ AllowOnly(Default(port))
  BY <1>1 DEF Opens, AllowOnly, Allow, Families
<1>3. ASSUME port \in AllPorts
      PROVE  Default(port) \in RuleLists /\ Default(port) # <<>>
  <2>1. {Allow("v4", port), Allow("v6", port)} \subseteq Rules
    BY <1>1, <1>3, FirewallAssumption DEF AllPorts
  <2>2. Allow("v4", port) # Allow("v6", port)
    BY DEF Allow
  <2> DEFINE x == Allow("v4", port)
             y == Allow("v6", port)
  <2>3. Default(port) = <<x, y>> /\ x \in Rules /\ y \in Rules /\ x # y
    BY <2>1, <2>2 DEF Default
  <2> HIDE DEF x, y
  <2>4. <<x, y>> \in Seq(Rules) /\ <<x, y>> # <<>> /\ IsInjective(<<x, y>>)
    BY <2>3 DEF IsInjective
  <2>5. QED
    BY <2>3, <2>4 DEF RuleLists
<1>4. QED
  BY <1>1, <1>2, <1>3

\* A list that has at least the rules of another opens what that one opens.
LEMMA OpensMore ==
  ASSUME NEW s, NEW t, NEW port, Opens(s, port), ToSet(s) \subseteq ToSet(t)
  PROVE  Opens(t, port)
BY DEF Opens

\* The port of ssh stays open without a rule that handleFirewallAction agrees to delete.
LEMMA OpensWithout ==
  ASSUME NEW s \in RuleLists, NEW r, MayDelete(s, r), Opens(s, SshPort)
  PROVE  Opens(Without(s, r), SshPort)
<1>1. ToSet(Without(s, r)) = ToSet(s) \ {r}
  BY ListWithout DEF MayDelete
<1>2. ASSUME NEW f \in Families
      PROVE  \E x \in ToSet(s) \ {r} : x.action = "allow" /\ x.family = f /\ x.port = SshPort
  <2>1. PICK x \in ToSet(s) : x.action = "allow" /\ x.family = f /\ x.port = SshPort
    BY DEF Opens
  <2>2. CASE x # r
    BY <2>1, <2>2
  <2>3. CASE x = r
    <3>1. HasAlternativeSSHRule(s, r)
      BY <2>1, <2>3 DEF MayDelete, OpensSsh
    <3>2. QED
      BY <2>1, <2>3, <3>1 DEF HasAlternativeSSHRule
  <2>4. QED
    BY <2>2, <2>3
<1>3. QED
  BY <1>1, <1>2 DEF Opens

\* A table that lets ssh in has a rule for it; without rules that deny, that is enough.
LEMMA SshOpenIsOpens ==
  ASSUME NEW s \in Seq(Rules), NEW port
  PROVE  /\ SshOpen(s, port) => Opens(s, port)
         /\ AllowOnly(s) /\ Opens(s, port) => SshOpen(s, port)
<1>1. ToSet(s) = {s[i] : i \in DOMAIN s} /\ DOMAIN s = 1 .. Len(s) /\ Len(s) \in Nat
  BY DEF ToSet
<1>2. SshOpen(s, port) => Opens(s, port)
  BY <1>1 DEF SshOpen, Opens
<1>3. ASSUME AllowOnly(s), Opens(s, port)
      PROVE  SshOpen(s, port)
  <2> SUFFICES ASSUME NEW f \in Families
               PROVE  \E i \in DOMAIN s :
                        /\ s[i].action = "allow" /\ s[i].family = f /\ s[i].port = port
                        /\ \A j \in 1 .. i - 1 :
                             ~(s[j].action = "deny" /\ s[j].family = f /\ s[j].port = port
                               /\ s[j].from \in {"any", s[i].from})
    BY DEF SshOpen
  <2>1. PICK i \in DOMAIN s : s[i].action = "allow" /\ s[i].family = f /\ s[i].port = port
    BY <1>1, <1>3 DEF Opens
  <2>2. \A j \in 1 .. i - 1 : s[j].action = "allow"
    BY <1>1, <1>3 DEF AllowOnly
  <2>3. \A j \in 1 .. i - 1 : s[j].action # "deny"
    BY <2>2
  <2>4. QED
    BY <2>1, <2>3
<1>4. QED
  BY <1>2, <1>3

-----------------------------------------------------------------------------
(* Type correctness.                                                       *)

\* The records of the processes have the fields that they are given.
LEMMA OpTypes ==
  /\ Idle \in Op /\ Idle.step = "idle" /\ Idle.rules = <<>>
  /\ \A op \in Op :
       /\ op.rules \in RuleLists /\ op.kind \in Kinds /\ op.prev \in Bans /\ op.built.bans \in Bans
       /\ op.rule \subseteq Rules /\ op.addr \subseteq Addresses /\ op.until \in Deadline
  /\ \A op \in Op, step \in {"build", "commit", "write"} :
       LET new == [op EXCEPT !.step = step] IN
       /\ new \in Op /\ new.step = step
       /\ new.kind = op.kind /\ new.rules = op.rules /\ new.rule = op.rule /\ new.addr = op.addr
       /\ new.prev = op.prev /\ new.built = op.built
<1>1. <<>> \in RuleLists
  BY DEF RuleLists, IsInjective
<1>2. 0 \in Deadline /\ NoBans \in Bans
  BY FirewallAssumption DEF Deadline, Bans, NoBans
<1>3. Idle \in Op /\ Idle.step = "idle" /\ Idle.rules = <<>>
  BY <1>1, <1>2 DEF Idle, Op, Kinds
<1>4. QED
  BY <1>3 DEF Op

\* The kinds of requests are kinds.
LEMMA KindTypes == {"enable", "add", "delete", "block", "unblock", "refresh", "boot", "open", "list"} = Kinds
BY DEF Kinds

\* A request as it begins,
LEMMA RequestTypes ==
  ASSUME TypeOK, NEW kind \in Kinds, NEW rules \in RuleLists
  PROVE  /\ Request(kind, rules) \in Op
         /\ Request(kind, rules).step = "build" /\ Request(kind, rules).prev = bans
         /\ Request(kind, rules).kind = kind /\ Request(kind, rules).rules = rules
<1>1. bans \in Bans /\ 0 \in Deadline /\ NoBans \in Bans
  BY FirewallAssumption DEF TypeOK, Deadline, Bans, NoBans
<1>2. Idle \in Op
  BY OpTypes
<1> DEFINE idle == Idle
<1>3. idle \in Op
  BY <1>2
<1>4. Request(kind, rules) = [idle EXCEPT !.kind = kind, !.step = "build", !.rules = rules, !.prev = bans]
  BY DEF Request
<1> HIDE DEF idle
<1>5. /\ Request(kind, rules).step = "build" /\ Request(kind, rules).prev = bans
      /\ Request(kind, rules).kind = kind /\ Request(kind, rules).rules = rules
  BY <1>3, <1>4 DEF Op
<1>6. Request(kind, rules) \in Op
  BY <1>1, <1>3, <1>4 DEF Op
<1>7. QED
  BY <1>5, <1>6

\* and one about a rule.
LEMMA RuleRequestTypes ==
  ASSUME TypeOK, NEW kind \in Kinds, NEW rules \in RuleLists, NEW r \in Rules
  PROVE  LET new == [Request(kind, rules) EXCEPT !.rule = {r}] IN
         /\ new \in Op /\ new.step = "build" /\ new.prev = bans
         /\ new.kind = kind /\ new.rules = rules /\ new.rule = {r}
<1> DEFINE op == Request(kind, rules)
<1>1. op \in Op /\ op.step = "build" /\ op.prev = bans /\ op.kind = kind /\ op.rules = rules
  BY RequestTypes
<1> HIDE DEF op
<1>2. LET new == [op EXCEPT !.rule = {r}] IN
      /\ new \in Op /\ new.step = "build" /\ new.prev = bans
      /\ new.kind = kind /\ new.rules = rules /\ new.rule = {r}
  BY <1>1 DEF Op
<1>3. QED
  BY <1>2 DEF op

\* What may happen on a host is of the constants.
LEMMA HostTypes ==
  ASSUME TypeOK
  PROVE  /\ host.rules \subseteq Rules /\ host.addresses \subseteq Addresses
         /\ host.boots \subseteq {"load", "skip", "fail"}
         /\ host.time \in 0 .. MaxTime /\ MaxTime \in Nat /\ now \in Nat
         /\ host.failures \in Nat /\ host.crashes \in Nat /\ host.moves \in Nat
         /\ failures \in Nat /\ crashes \in Nat /\ moves \in Nat
         /\ \A m \in Minutes : m \in Nat /\ m > 0 /\ now + m \in Deadline
BY FirewallAssumption DEF TypeOK, Host, Minutes, Deadline

\* The port that the files of sshd say is a port of some rule.
LEMMA PortTypes ==
  ASSUME NEW drop, drop \subseteq AllPorts
  PROVE  PortOf(drop) \in AllPorts
BY FirewallAssumption DEF PortOf, AllPorts

\* The rules that are loaded are a list of rules, which is not empty.
LEMMA LoadedTypes ==
  ASSUME TypeOK
  PROVE  /\ SshPort = PortOf(policy) /\ SshPort \in AllPorts
         /\ Loaded \in RuleLists /\ Loaded # <<>>
         /\ LoadFirewallRules => file' \in [rules : RuleLists, complete : BOOLEAN]
         /\ LoadFirewallRules => file'.rules = Loaded /\ file'.complete
<1>1. SshPort = PortOf(policy) /\ SshPort \in AllPorts
  <2>1. policy \subseteq AllPorts
    BY DEF TypeOK, AllPorts
  <2>2. QED
    BY <2>1, PortTypes DEF SshPort, PortOf
<1>2. Loaded \in RuleLists /\ Loaded # <<>>
  BY <1>1, DefaultOpens DEF Loaded, TypeOK
<1>3. ASSUME LoadFirewallRules
      PROVE  /\ file' \in [rules : RuleLists, complete : BOOLEAN]
             /\ file'.rules = Loaded /\ file'.complete
  <2>1. CASE NeedsWrite
    <3>1. file' = [rules |-> Loaded, complete |-> TRUE]
      BY <1>3, <2>1 DEF LoadFirewallRules, Rewrite
    <3> HIDE DEF Loaded
    <3>2. QED
      BY <1>2, <3>1
  <2>2. CASE ~NeedsWrite
    <3>1. file' = file /\ file.rules # <<>> /\ file.complete
      BY <1>3, <2>2 DEF LoadFirewallRules, NeedsWrite, TypeOK
    <3>2. QED
      BY <3>1 DEF Loaded, TypeOK
  <2>3. QED
    BY <2>1, <2>2
<1>4. QED
  BY <1>1, <1>2, <1>3

-----------------------------------------------------------------------------
(* The beginning of a request, a refresh, a start or a command.            *)

\* What a process that has loaded the rules will write.
Rewrites(op) ==
  \/ op.kind \notin {"add", "delete", "open"} /\ op.rules = Loaded
  \/ /\ op.kind \in {"add", "open"}
     /\ \E r \in host.rules : IsNew(Loaded, r) /\ op.rules = Append(Loaded, r) /\ op.rule = {r}
  \/ /\ op.kind = "delete"
     /\ \E r \in host.rules : MayDelete(Loaded, r) /\ op.rules = Without(Loaded, r) /\ op.rule = {r}

MayBegin(p, op) ==
  \/ p \in Handlers /\ up /\ Free /\ NoMoveBeside /\ op.kind \notin {"boot", "open", "list"}
  \/ p = "boot" /\ ~up /\ op.kind = "boot"
  \/ p = "cli" /\ host.cli /\ NoMoveBeside /\ op.kind \in {"open", "list"}

\* What comes first.
StepOf(kind) ==
  CASE kind \in {"block", "unblock"} -> "bans" [] kind = "list" -> "prune" [] OTHER -> "build"

\* The process p loads the rules and goes on with op.
Begins(p, op) ==
  /\ p \in Procs /\ ops[p].step = "idle" /\ MayBegin(p, op)
  /\ op \in Op /\ op.prev = bans /\ Rewrites(op)
  /\ op.step = StepOf(op.kind)
  /\ LoadFirewallRules /\ ops' = [ops EXCEPT ![p] = op]
  /\ \/ op.kind # "refresh" /\ UNCHANGED refreshes
     \/ op.kind = "refresh" /\ refreshes > 0 /\ refreshes' = refreshes - 1
  /\ UNCHANGED <<bans, kernel, page, up, env, open, clean>>

\* The requests of a handler begin so.
LEMMA RequestBegins ==
  ASSUME TypeOK, NEW h \in Handlers,
         \/ Enable(h)
         \/ \E r \in host.rules : AddRule(h, r) \/ DeleteRule(h, r)
         \/ \E kind \in {"block", "unblock"}, a \in host.addresses, m \in Minutes : BeginBan(h, kind, a, m)
         \/ Refresh(h) /\ kernel.loaded
  PROVE  \E op : Begins(h, op)
<1>0. Loaded \in RuleLists /\ h \in Procs
  BY LoadedTypes DEF Procs
<1>1. CASE Enable(h)
  <2> DEFINE op == Request("enable", Loaded)
  <2>1. /\ op \in Op /\ op.step = "build" /\ op.prev = bans /\ op.kind = "enable" /\ op.rules = Loaded
    BY <1>0, KindTypes, RequestTypes
  <2>2. Begin(h) /\ ops' = [ops EXCEPT ![h] = op] /\ UNCHANGED <<bans, kernel, refreshes, page, up, env, open, clean>>
    BY <1>1 DEF Enable, Start
  <2> HIDE DEF op
  <2>3. QED
    BY <1>0, <2>1, <2>2 DEF Begins, Begin, MayBegin, Rewrites, StepOf
<1>2. ASSUME NEW r \in host.rules, AddRule(h, r)
      PROVE  \E op : Begins(h, op)
  <2> DEFINE op == [Request("add", Append(Loaded, r)) EXCEPT !.rule = {r}]
  <2>0. r \in Rules /\ IsNew(Loaded, r)
    BY <1>2, HostTypes DEF AddRule
  <2>1. /\ op \in Op /\ op.step = "build" /\ op.prev = bans /\ op.kind = "add" /\ op.rules = Append(Loaded, r)
        /\ op.rule = {r}
    <3>1. Append(Loaded, r) \in RuleLists /\ "add" \in Kinds
      BY <1>0, <2>0, KindTypes, ListAppend
    <3> DEFINE rules == Append(Loaded, r)
    <3>2. rules \in RuleLists
      BY <3>1
    <3> HIDE DEF rules
    <3>3. LET new == [Request("add", rules) EXCEPT !.rule = {r}] IN
          /\ new \in Op /\ new.step = "build" /\ new.prev = bans
          /\ new.kind = "add" /\ new.rules = rules /\ new.rule = {r}
      BY <2>0, <3>1, <3>2, RuleRequestTypes
    <3>4. QED
      BY <3>3 DEF rules
  <2>2. Begin(h) /\ ops' = [ops EXCEPT ![h] = op] /\ UNCHANGED <<bans, kernel, refreshes, page, up, env, open, clean>>
    BY <1>2 DEF AddRule, Start
  <2> HIDE DEF op
  <2>3. QED
    BY <1>0, <2>0, <2>1, <2>2 DEF Begins, Begin, MayBegin, Rewrites, StepOf
<1>3. ASSUME NEW r \in host.rules, DeleteRule(h, r)
      PROVE  \E op : Begins(h, op)
  <2> DEFINE op == [Request("delete", Without(Loaded, r)) EXCEPT !.rule = {r}]
  <2>0. r \in Rules /\ MayDelete(Loaded, r)
    BY <1>3, HostTypes DEF DeleteRule
  <2>1. /\ op \in Op /\ op.step = "build" /\ op.prev = bans /\ op.kind = "delete" /\ op.rules = Without(Loaded, r)
        /\ op.rule = {r}
    <3>1. Without(Loaded, r) \in RuleLists
      BY <1>0, <2>0, ListWithout DEF MayDelete
    <3>2. QED
      BY <2>0, <3>1, KindTypes, RuleRequestTypes
  <2>2. Begin(h) /\ ops' = [ops EXCEPT ![h] = op] /\ UNCHANGED <<bans, kernel, refreshes, page, up, env, open, clean>>
    BY <1>3 DEF DeleteRule, Start
  <2> HIDE DEF op
  <2>3. QED
    BY <1>0, <2>0, <2>1, <2>2 DEF Begins, Begin, MayBegin, Rewrites, StepOf
<1>4. ASSUME NEW kind \in {"block", "unblock"}, NEW a \in host.addresses, NEW m \in Minutes, BeginBan(h, kind, a, m)
      PROVE  \E op : Begins(h, op)
  <2> DEFINE op == [Request(kind, Loaded) EXCEPT !.step = "bans", !.addr = {a}, !.until = now + m]
  <2>0. a \in Addresses /\ now + m \in Deadline /\ kind \in Kinds
    BY HostTypes, KindTypes
  <2>1. /\ op \in Op /\ op.step = "bans" /\ op.prev = bans /\ op.kind = kind /\ op.rules = Loaded
    <3> DEFINE req == Request(kind, Loaded)
               until == now + m
    <3>1. req \in Op /\ req.step = "build" /\ req.prev = bans /\ req.kind = kind /\ req.rules = Loaded
      BY <1>0, <2>0, RequestTypes
    <3>2. until \in Deadline
      BY <2>0
    <3>3. op = [req EXCEPT !.step = "bans", !.addr = {a}, !.until = until]
      OBVIOUS
    <3> HIDE DEF req, until, op
    <3>4. QED
      BY <2>0, <3>1, <3>2, <3>3 DEF Op
  <2>2. Begin(h) /\ ops' = [ops EXCEPT ![h] = op] /\ UNCHANGED <<bans, kernel, refreshes, page, up, env, open, clean>>
    BY <1>4 DEF BeginBan, Start
  <2> HIDE DEF op
  <2>3. QED
    BY <1>0, <2>1, <2>2 DEF Begins, Begin, MayBegin, Rewrites, StepOf
<1>5. CASE Refresh(h) /\ kernel.loaded
  <2> DEFINE op == Request("refresh", Loaded)
  <2>1. /\ op \in Op /\ op.step = "build" /\ op.prev = bans /\ op.kind = "refresh" /\ op.rules = Loaded
    BY <1>0, KindTypes, RequestTypes
  <2>2. /\ Begin(h) /\ ops' = [ops EXCEPT ![h] = op] /\ refreshes > 0 /\ refreshes' = refreshes - 1
        /\ UNCHANGED <<bans, kernel, page, up, env, open, clean>>
    BY <1>5 DEF Refresh, Start
  <2> HIDE DEF op
  <2>3. QED
    BY <1>0, <2>1, <2>2 DEF Begins, Begin, MayBegin, Rewrites, StepOf
<1>6. QED
  BY <1>1, <1>2, <1>3, <1>4, <1>5

\* So does the command,
LEMMA CommandBegins ==
  ASSUME TypeOK, NEW r \in host.rules, CliOpen(r)
  PROVE  \E op : Begins("cli", op)
<1> DEFINE op == [Request("open", Append(Loaded, r)) EXCEPT !.rule = {r}]
<1>0. r \in Rules /\ IsNew(Loaded, r) /\ "cli" \in Procs
  BY HostTypes DEF CliOpen, Procs
<1>1. /\ op \in Op /\ op.step = "build" /\ op.prev = bans /\ op.kind = "open" /\ op.rules = Append(Loaded, r)
      /\ op.rule = {r}
  <2>1. Append(Loaded, r) \in RuleLists /\ "open" \in Kinds
    BY <1>0, KindTypes, ListAppend, LoadedTypes
  <2> DEFINE rules == Append(Loaded, r)
  <2>2. rules \in RuleLists
    BY <2>1
  <2> HIDE DEF rules
  <2>3. LET new == [Request("open", rules) EXCEPT !.rule = {r}] IN
        /\ new \in Op /\ new.step = "build" /\ new.prev = bans
        /\ new.kind = "open" /\ new.rules = rules /\ new.rule = {r}
    BY <1>0, <2>1, <2>2, RuleRequestTypes
  <2>4. QED
    BY <2>3 DEF rules
<1>2. /\ host.cli /\ ops["cli"].step = "idle" /\ NoMoveBeside /\ LoadFirewallRules
      /\ ops' = [ops EXCEPT !["cli"] = op] /\ UNCHANGED <<bans, kernel, refreshes, page, up, env, open, clean>>
  BY DEF CliOpen, Start
<1> HIDE DEF op
<1>3. QED
  BY <1>0, <1>1, <1>2 DEF Begins, MayBegin, Rewrites, StepOf

\* which may only list,
LEMMA ListBegins ==
  ASSUME TypeOK, CliList
  PROVE  \E op : Begins("cli", op)
<1> DEFINE req == Request("list", Loaded)
           op == [req EXCEPT !.step = "prune"]
<1>1. req \in Op /\ req.prev = bans /\ req.kind = "list" /\ req.rules = Loaded
  BY LoadedTypes, KindTypes, RequestTypes
<1>2. /\ host.cli /\ ops["cli"].step = "idle" /\ NoMoveBeside /\ LoadFirewallRules
      /\ ops' = [ops EXCEPT !["cli"] = op] /\ UNCHANGED <<bans, kernel, refreshes, page, up, env, open, clean>>
  BY DEF CliList, Start
<1> HIDE DEF req
<1>3. op \in Op /\ op.step = "prune" /\ op.prev = bans /\ op.kind = "list" /\ op.rules = Loaded
  BY <1>1 DEF Op
<1>4. "cli" \in Procs
  BY DEF Procs
<1> HIDE DEF op
<1>5. QED
  BY <1>2, <1>3, <1>4 DEF Begins, MayBegin, Rewrites, StepOf

\* and a start of the panel that loads the table.
LEMMA BootBegins ==
  ASSUME TypeOK, Boot
  PROVE  \/ \E op : Begins("boot", op)
         \/ /\ ~up /\ ~Active("boot") /\ "skip" \in host.boots /\ up' = TRUE
            /\ UNCHANGED <<file, ops, bans, kernel, refreshes, page, env, open, clean>>
<1> DEFINE op == Request("boot", Loaded)
<1>1. /\ op \in Op /\ op.step = "build" /\ op.prev = bans /\ op.kind = "boot" /\ op.rules = Loaded
  BY LoadedTypes, KindTypes, RequestTypes
<1>2. \/ /\ ~up /\ ops["boot"].step = "idle" /\ LoadFirewallRules
         /\ ops' = [ops EXCEPT !["boot"] = op] /\ UNCHANGED <<bans, kernel, refreshes, page, up, env, open, clean>>
      \/ /\ ~up /\ ~Active("boot") /\ "skip" \in host.boots /\ up' = TRUE
         /\ UNCHANGED <<file, ops, bans, kernel, refreshes, page, env, open, clean>>
  BY DEF Boot, Start, Active
<1>3. "boot" \in Procs
  BY DEF Procs
<1> HIDE DEF op
<1>4. QED
  BY <1>1, <1>2, <1>3 DEF Begins, MayBegin, Rewrites, StepOf

\* Loading the rules leaves them as they are.
LEMMA LoadKeeps ==
  ASSUME TypeOK, LoadFirewallRules, UNCHANGED policy
  PROVE  Loaded' = Loaded /\ SshPort' = SshPort /\ file'.rules = Loaded /\ ~NeedsWrite'
<1>1. file'.rules = Loaded /\ file'.complete /\ Loaded # <<>>
  BY LoadedTypes
<1>2. SshPort' = SshPort
  BY DEF SshPort
<1>3. QED
  BY <1>1, <1>2 DEF Loaded, NeedsWrite

\* The rules that are loaded let ssh in.
LEMMA LoadedOpens ==
  ASSUME TypeOK, OpenInv, MovedWithCare
  PROVE  Opens(Loaded, SshPort)
<1>1. file.rules # <<>> => Opens(file.rules, SshPort)
  BY DEF OpenInv, Ports
<1>2. QED
  BY <1>1, DefaultOpens DEF Loaded

\* No rule that is loaded denies anything, if none that is added does.
LEMMA LoadedAllows ==
  ASSUME AllowInv, AllAllow
  PROVE  AllowOnly(Loaded)
BY DefaultOpens DEF AllowInv, Loaded

\* Who begins keeps the invariants that are about the rules.
LEMMA BeginKeepsRules ==
  ASSUME Inv, NEW p, NEW op, Begins(p, op)
  PROVE  TypeOK' /\ OpenInv' /\ AllowInv' /\ MoveInv'
<1>0. TypeOK /\ StepsInv /\ OpenInv /\ AllowInv /\ MoveInv
  BY DEF Inv
<1>1. /\ ops' = [ops EXCEPT ![p] = op] /\ p \in Procs /\ op \in Op /\ LoadFirewallRules
      /\ UNCHANGED <<bans, kernel, page, up, host, policy, listening, move, now, failures, crashes, moves, blind, open, clean>>
  BY DEF Begins, env, ssh
<1>2. ops'[p] = op /\ \A q \in Procs \ {p} : ops'[q] = ops[q]
  BY <1>0, <1>1 DEF TypeOK
<1>3. Loaded' = Loaded /\ SshPort' = SshPort /\ file'.rules = Loaded
  BY <1>0, <1>1, LoadKeeps
<1>4. Loaded \in RuleLists /\ host.rules \subseteq Rules
  BY <1>0, LoadedTypes, HostTypes
<1>5. TypeOK'
  <2>1. file' \in [rules : RuleLists, complete : BOOLEAN]
    BY <1>0, <1>1, LoadedTypes
  <2>2. ops' \in [Procs -> Op]
    BY <1>0, <1>1 DEF TypeOK
  <2>3. refreshes' \in 0 .. Cardinality(Handlers)
    <3>1. Cardinality(Handlers) \in Nat /\ refreshes \in 0 .. Cardinality(Handlers)
      BY <1>0, FS_CardinalityType, FirewallAssumption DEF TypeOK
    <3>2. QED
      BY <3>1 DEF Begins
  <2>4. QED
    BY <1>0, <1>1, <2>1, <2>2, <2>3 DEF TypeOK
<1>6. OpenInv'
  <2> SUFFICES ASSUME MovedWithCare
               PROVE  \A port \in Ports' :
                        /\ file'.rules # <<>> => Opens(file'.rules, port)
                        /\ kernel'.loaded => Opens(kernel'.rules, port)
                        /\ \A rules \in page' : Opens(rules, port)
                        /\ \A q \in Procs : ops'[q].step # "idle" => Opens(ops'[q].rules, port)
    BY <1>1 DEF OpenInv, MovedWithCare, Opens, Active
  <2>1. move.step = "idle"
    BY <1>0, <1>1 DEF Begins, MayBegin, NoMoveBeside, StepsInv, MovedWithCare
  <2>2. Ports' = {SshPort} /\ Ports = {SshPort}
    BY <1>1, <1>3, <2>1 DEF Ports
  <2>3. Opens(Loaded, SshPort)
    BY <1>0, LoadedOpens
  <2>4. Opens(op.rules, SshPort)
    <3>1. CASE op.rules = Loaded
      BY <2>3, <3>1
    <3>2. ASSUME NEW r \in host.rules, IsNew(Loaded, r), op.rules = Append(Loaded, r)
          PROVE  Opens(op.rules, SshPort)
      BY <1>4, <2>3, <3>2, ListAppend, OpensMore
    <3>3. ASSUME NEW r \in host.rules, MayDelete(Loaded, r), op.rules = Without(Loaded, r)
          PROVE  Opens(op.rules, SshPort)
      BY <1>4, <2>3, <3>3, OpensWithout
    <3>4. QED
      BY <3>1, <3>2, <3>3 DEF Begins, Rewrites
  <2>5. QED
    BY <1>0, <1>1, <1>2, <1>3, <2>2, <2>3, <2>4 DEF OpenInv, Active
<1>7. AllowInv'
  <2> SUFFICES ASSUME AllAllow
               PROVE  /\ AllowOnly(file'.rules) /\ AllowOnly(kernel'.rules)
                      /\ \A rules \in page' : AllowOnly(rules)
                      /\ \A q \in Procs : AllowOnly(ops'[q].rules)
    BY <1>1 DEF AllowInv, AllAllow, AllowOnly
  <2>1. AllowOnly(Loaded)
    BY <1>0, LoadedAllows
  <2>2. AllowOnly(op.rules)
    <3>1. CASE op.rules = Loaded
      BY <2>1, <3>1
    <3>2. ASSUME NEW r \in host.rules, IsNew(Loaded, r), op.rules = Append(Loaded, r)
          PROVE  AllowOnly(op.rules)
      <4>1. ToSet(op.rules) = ToSet(Loaded) \cup {r}
        BY <1>4, <3>2, ListAppend
      <4>2. QED
        BY <2>1, <4>1 DEF AllowOnly, AllAllow
    <3>3. ASSUME NEW r \in host.rules, MayDelete(Loaded, r), op.rules = Without(Loaded, r)
          PROVE  AllowOnly(op.rules)
      <4>1. ToSet(op.rules) = ToSet(Loaded) \ {r}
        BY <1>4, <3>3, ListWithout DEF MayDelete
      <4>2. QED
        BY <2>1, <4>1 DEF AllowOnly
    <3>4. QED
      BY <3>1, <3>2, <3>3 DEF Begins, Rewrites
  <2>3. QED
    BY <1>0, <1>1, <1>2, <1>3, <2>1, <2>2 DEF AllowInv
<1>8. MoveInv'
  BY <1>0, <1>1, <1>3 DEF MoveInv
<1>9. QED
  BY <1>5, <1>6, <1>7, <1>8

\* Nobody else is at work when a panel that is alone begins something.
LEMMA AloneAtWork ==
  ASSUME TypeOK, StepsInv, Alone, NEW p \in Procs, p # "cli", p \in Handlers => up, p = "boot" => ~up,
         \A h \in Handlers : Active(h) => h = p
  PROVE  \A q \in Procs : Active(q) => q = p
BY DEF StepsInv, Procs, Alone, PanelAlone

\* Who begins keeps the order of the work.
LEMMA BeginKeepsSteps ==
  ASSUME Inv, NEW p, NEW op, Begins(p, op)
  PROVE  StepsInv'
<1>0. TypeOK /\ StepsInv
  BY DEF Inv
<1>1. /\ ops' = [ops EXCEPT ![p] = op] /\ p \in Procs /\ op \in Op /\ MayBegin(p, op)
      /\ UNCHANGED <<bans, kernel, page, up, host, policy, listening, move, now, failures, crashes, moves, blind, open, clean>>
  BY DEF Begins, env, ssh
<1>2. ops'[p] = op /\ \A q \in Procs \ {p} : ops'[q] = ops[q]
  BY <1>0, <1>1 DEF TypeOK
<1>3. Handlers \subseteq Procs /\ "boot" \in Procs /\ "cli" \in Procs /\ "boot" \notin Handlers /\ "cli" \notin Handlers
  BY FirewallAssumption DEF Procs
<1>4. up => ops'["boot"].step = "idle"
  BY <1>0, <1>1, <1>2, <1>3 DEF MayBegin, StepsInv, Active
<1>5. ~up => (\A h \in Handlers : ops'[h].step = "idle") /\ page = {} /\ move.step = "idle" /\ refreshes' = 0
  <2>1. ~up => p \notin Handlers /\ op.kind # "refresh"
    BY <1>1, <1>3 DEF MayBegin
  <2>2. ~up => refreshes' = refreshes
    BY <2>1 DEF Begins
  <2>3. QED
    BY <1>0, <1>2, <1>3, <2>1, <2>2 DEF StepsInv, Active
<1>6. \A g, h \in Handlers : ops'[g].step # "idle" /\ ops'[h].step # "idle" => g = h
  <2>1. CASE p \in Handlers
    <3>1. Free
      BY <1>1, <1>3, <2>1 DEF MayBegin
    <3>2. QED
      BY <1>2, <1>3, <3>1 DEF Free
  <2>2. CASE p \notin Handlers
    BY <1>0, <1>2, <1>3, <2>2 DEF StepsInv, Active
  <2>3. QED
    BY <2>1, <2>2
<1>7. \A q \in Procs : ops'[q].step = "bans" => ops'[q].kind \in {"block", "unblock"}
  <2>1. op.step = "bans" => op.kind \in {"block", "unblock"}
    BY DEF Begins, StepOf
  <2>2. QED
    BY <1>0, <1>2, <2>1 DEF StepsInv
<1>8. ops'["boot"].step # "idle" => ops'["boot"].kind = "boot"
  BY <1>0, <1>1, <1>2, <1>3 DEF MayBegin, StepsInv, Active
<1>9. ops'["cli"].step # "idle" => host.cli
  BY <1>0, <1>1, <1>2, <1>3 DEF MayBegin, StepsInv, Active
<1>10. host.apart => move.step = "idle"
  BY <1>0, <1>1 DEF MayBegin, NoMoveBeside, StepsInv
<1>11. moves = 0 => policy = {} /\ listening = SshPort0 /\ move.step = "idle"
  BY <1>0 DEF StepsInv
<1>12. QED
  BY <1>1, <1>4, <1>5, <1>6, <1>7, <1>8, <1>9, <1>10, <1>11 DEF StepsInv, Active

\* What a request that begins will write is what it will acknowledge.
LEMMA BeginAcknowledges ==
  ASSUME TypeOK, NEW op \in Op, Rewrites(op), ToSet(Loaded) = open
  PROVE  ToSet(op.rules) = Acknowledged(op)
<1>0. Loaded \in RuleLists /\ host.rules \subseteq Rules
  BY LoadedTypes, HostTypes
<1>1. CASE op.kind \notin {"add", "delete", "open"} /\ op.rules = Loaded
  BY <1>1 DEF Acknowledged
<1>2. ASSUME op.kind \in {"add", "open"}, NEW r \in host.rules, IsNew(Loaded, r), op.rules = Append(Loaded, r), op.rule = {r}
      PROVE  ToSet(op.rules) = Acknowledged(op)
  <2>1. ToSet(op.rules) = ToSet(Loaded) \cup {r}
    BY <1>0, <1>2, ListAppend
  <2>2. Acknowledged(op) = open \cup {r}
    BY <1>2 DEF Acknowledged
  <2>3. QED
    BY <2>1, <2>2
<1>3. ASSUME op.kind = "delete", NEW r \in host.rules, MayDelete(Loaded, r), op.rules = Without(Loaded, r), op.rule = {r}
      PROVE  ToSet(op.rules) = Acknowledged(op)
  <2>1. ToSet(op.rules) = ToSet(Loaded) \ {r}
    BY <1>0, <1>3, ListWithout DEF MayDelete
  <2>2. Acknowledged(op) = open \ {r}
    BY <1>3 DEF Acknowledged
  <2>3. QED
    BY <2>1, <2>2
<1>4. QED
  BY <1>1, <1>2, <1>3 DEF Rewrites

\* Who begins keeps the invariants about what a panel that is alone knows.
LEMMA BeginKeepsFiles ==
  ASSUME Inv, NEW p, NEW op, Begins(p, op)
  PROVE  FileInv' /\ KernelInv'
<1>0. TypeOK /\ StepsInv /\ FileInv /\ KernelInv
  BY DEF Inv
<1>1. /\ ops' = [ops EXCEPT ![p] = op] /\ p \in Procs /\ op \in Op /\ LoadFirewallRules /\ MayBegin(p, op)
      /\ UNCHANGED <<bans, kernel, page, up, host, policy, listening, move, now, failures, crashes, moves, blind, open, clean>>
      /\ ops[p].step = "idle" /\ op.prev = bans /\ Rewrites(op)
      /\ op.step = StepOf(op.kind)
  BY DEF Begins, env, ssh
<1>2. ops'[p] = op /\ \A q \in Procs \ {p} : ops'[q] = ops[q]
  BY <1>0, <1>1 DEF TypeOK
<1>3. Loaded' = Loaded /\ ~NeedsWrite'
  BY <1>0, <1>1, LoadKeeps
<1>4. Alone' = Alone
  BY <1>1 DEF Alone, PanelAlone, MovedWithCare
<1>5. ASSUME Alone
      PROVE  \A q \in Procs : ~Active(q)
  <2>1. p # "cli" /\ (p \in Handlers => up) /\ (p = "boot" => ~up)
    BY <1>1, <1>5, FirewallAssumption DEF MayBegin, Alone, PanelAlone
  <2>2. \A h \in Handlers : Active(h) => h = p
    BY <1>0, <1>1, <2>1 DEF MayBegin, Free, StepsInv, Active
  <2>3. QED
    BY <1>0, <1>1, <1>5, <2>1, <2>2, AloneAtWork DEF Active
<1>6. ASSUME Alone
      PROVE  /\ page' = {} /\ ops'["cli"].step = "idle"
             /\ ToSet(Loaded') = open'
             /\ \A q \in Procs : ops'[q].step # "idle" => ToSet(ops'[q].rules) = Acknowledged(ops'[q])
  <2>1. page = {} /\ ToSet(Loaded) = open
    BY <1>0, <1>6 DEF FileInv
  <2>2. ToSet(op.rules) = Acknowledged(op)
    BY <1>0, <1>1, <2>1, BeginAcknowledges
  <2>3. p # "cli" /\ "cli" \in Procs
    BY <1>1, <1>6, FirewallAssumption DEF MayBegin, Alone, PanelAlone, Procs
  <2>4. QED
    BY <1>1, <1>2, <1>3, <1>5, <1>6, <2>1, <2>2, <2>3 DEF Active
<1>7. FileInv'
  BY <1>1, <1>3, <1>4, <1>6 DEF FileInv, Active, Acknowledged
<1>8. ASSUME Alone
      PROVE  /\ up => kernel.loaded
             /\ up /\ clean => kernel.rules = Loaded
             /\ up /\ clean /\ refreshes = 0 => Same(kernel.bans, bans)
  BY <1>0, <1>5, <1>8 DEF KernelInv, Active
<1>9. ASSUME Alone
      PROVE  /\ op.step = "bans" /\ refreshes' = 0 /\ clean => Same(kernel.bans, bans)
             /\ op.step = "build" /\ refreshes' = 0 /\ clean /\ op.kind \notin {"refresh", "boot"}
                  => Same(kernel.bans, RolledBack(op))
  <2>1. op.kind \notin {"refresh", "boot"} => refreshes' = refreshes /\ up
    BY <1>1, <1>9 DEF Begins, MayBegin, Alone, PanelAlone
  <2>2. op.step = "build" => RolledBack(op) = bans
    BY <1>1 DEF RolledBack
  <2>3. op.step = "bans" => op.kind \notin {"refresh", "boot"}
    BY <1>1 DEF StepOf
  <2>4. QED
    BY <1>8, <1>9, <2>1, <2>2, <2>3
<1>10. KernelInv'
  <2> SUFFICES ASSUME Alone
               PROVE  /\ up => kernel.loaded
                      /\ up /\ clean => kernel.rules = Loaded
                      /\ \E q \in Procs : ops'[q].step # "idle"
                      /\ \A q \in Procs \ {p} : ops'[q].step = "idle"
                      /\ op.step = "bans" /\ refreshes' = 0 => /\ op.prev = bans
                                                               /\ clean => Same(kernel.bans, bans)
                      /\ op.step = "build" /\ refreshes' = 0 /\ clean /\ op.kind \notin {"refresh", "boot"}
                           => Same(kernel.bans, RolledBack(op))
                      /\ op.step \in {"bans", "build"}
    BY <1>1, <1>2, <1>3, <1>4 DEF KernelInv, Active, RolledBack, Same
  <2>1. op.step \in {"bans", "build"}
    <3>1. op.kind # "list"
      BY <1>1 DEF MayBegin, Alone, PanelAlone
    <3>2. QED
      BY <1>1, <3>1 DEF StepOf
  <2>2. QED
    BY <1>1, <1>2, <1>5, <1>8, <1>9, <2>1 DEF Active
<1>11. QED
  BY <1>7, <1>10

-----------------------------------------------------------------------------
(* The steps of a process that is at work.                                 *)

\* The process p goes on with op, or is done.
Goes(p, op) ==
  /\ p \in Procs /\ Active(p) /\ op \in Op /\ ops' = [ops EXCEPT ![p] = op]
  /\ op.step # "bans"
  /\ op.step # "idle" => op.kind = ops[p].kind /\ op.rules = ops[p].rules /\ op.rule = ops[p].rule
  /\ op.step # "idle" /\ p # "cli" => op.prev = ops[p].prev
  /\ op.step = "idle" => op.rules = <<>>
  /\ p = "boot" /\ op.step = "idle" => up' = TRUE
  /\ p # "boot" \/ op.step # "idle" => UNCHANGED up
  /\ UNCHANGED <<refreshes, page, host, policy, listening, move, now, crashes, moves, blind>>
  /\ \/ UNCHANGED failures
     \/ failures < host.failures /\ failures' = failures + 1
     \/ failures + 1 < host.failures /\ failures' = failures + 2

\* A panel that is alone does one thing at a time.
LEMMA OneAtWork ==
  ASSUME TypeOK, StepsInv, Alone, NEW p \in Procs, Active(p)
  PROVE  /\ p \in Handlers \/ p = "boot"
         /\ p \in Handlers => up
         /\ \A q \in Procs : Active(q) => q = p
<1>1. p # "cli" /\ (p \in Handlers => up) /\ (p = "boot" => ~up)
  BY DEF StepsInv, Alone, PanelAlone
<1>2. \A h \in Handlers : Active(h) => h = p
  BY <1>1 DEF StepsInv, Procs
<1>3. QED
  BY <1>1, <1>2, AloneAtWork DEF Procs

\* It keeps the order of the work.
LEMMA WorkKeepsSteps ==
  ASSUME Inv, NEW p, NEW op, Goes(p, op)
  PROVE  StepsInv'
<1>0. TypeOK /\ StepsInv
  BY DEF Inv
<1>1. /\ ops' = [ops EXCEPT ![p] = op] /\ p \in Procs /\ op \in Op /\ ops[p].step # "idle"
      /\ UNCHANGED <<refreshes, page, host, policy, listening, move, now, crashes, moves, blind>>
  BY DEF Goes, Active
<1>2. ops'[p] = op /\ \A q \in Procs \ {p} : ops'[q] = ops[q]
  BY <1>0, <1>1 DEF TypeOK
<1>3. Handlers \subseteq Procs /\ "boot" \in Procs /\ "cli" \in Procs /\ "boot" \notin Handlers /\ "cli" \notin Handlers
  BY FirewallAssumption DEF Procs
<1>4. up' => ops'["boot"].step = "idle"
  BY <1>0, <1>1, <1>2, <1>3 DEF Goes, StepsInv, Active
<1>5. ~up' => (\A h \in Handlers : ops'[h].step = "idle") /\ page = {} /\ move.step = "idle" /\ refreshes = 0
  <2>1. ~up' => ~up
    BY DEF Goes
  <2>2. QED
    BY <1>0, <1>1, <1>2, <1>3, <2>1 DEF StepsInv, Active
<1>6. \A g, h \in Handlers : ops'[g].step # "idle" /\ ops'[h].step # "idle" => g = h
  BY <1>0, <1>1, <1>2, <1>3 DEF StepsInv, Active
<1>7. \A q \in Procs : ops'[q].step = "bans" => ops'[q].kind \in {"block", "unblock"}
  BY <1>0, <1>2 DEF StepsInv, Goes
<1>8. ops'["boot"].step # "idle" => ops'["boot"].kind = "boot"
  BY <1>0, <1>1, <1>2, <1>3 DEF Goes, StepsInv, Active
<1>9. ops'["cli"].step # "idle" => host.cli
  BY <1>0, <1>1, <1>2, <1>3 DEF StepsInv, Active
<1>10. host.apart => move.step = "idle"
  BY <1>0, <1>1 DEF StepsInv, Active
<1>11. moves = 0 => policy = {} /\ listening = SshPort0 /\ move.step = "idle"
  BY <1>0 DEF StepsInv
<1>12. QED
  BY <1>1, <1>4, <1>5, <1>6, <1>7, <1>8, <1>9, <1>10, <1>11 DEF StepsInv, Active

\* It writes and loads the rules that it has loaded.
LEMMA WorkKeepsRules ==
  ASSUME Inv, NEW p, NEW op, Goes(p, op),
         file' \in [rules : RuleLists, complete : BOOLEAN], bans' \in Bans, kernel' \in Table,
         open' \subseteq Rules, clean' \in BOOLEAN,
         file'.rules \in {file.rules, ops[p].rules},
         \/ UNCHANGED kernel
         \/ kernel'.rules = ops[p].rules
         \/ kernel.loaded /\ kernel'.rules = kernel.rules \o ops[p].rules
  PROVE  TypeOK' /\ OpenInv' /\ AllowInv' /\ MoveInv'
<1>0. TypeOK /\ StepsInv /\ OpenInv /\ AllowInv /\ MoveInv
  BY DEF Inv
<1>1. /\ ops' = [ops EXCEPT ![p] = op] /\ p \in Procs /\ op \in Op /\ ops[p].step # "idle"
      /\ UNCHANGED <<refreshes, page, host, policy, listening, move, now, crashes, moves, blind>>
      /\ \/ UNCHANGED failures
         \/ failures < host.failures /\ failures' = failures + 1
         \/ failures + 1 < host.failures /\ failures' = failures + 2
      /\ up' = up \/ up' = TRUE
  BY DEF Goes, Active
<1>2. ops'[p] = op /\ (\A q \in Procs \ {p} : ops'[q] = ops[q]) /\ ops[p] \in Op
  BY <1>0, <1>1 DEF TypeOK
<1>3. TypeOK'
  <2>1. ops' \in [Procs -> Op]
    BY <1>0, <1>1 DEF TypeOK
  <2>2. failures' \in 0 .. host.failures
    BY <1>0, <1>1, HostTypes DEF TypeOK
  <2>3. up' \in BOOLEAN
    BY <1>0, <1>1 DEF TypeOK
  <2>4. QED
    BY <1>0, <1>1, <2>1, <2>2, <2>3 DEF TypeOK
<1>4. kernel.rules \in Seq(Rules) /\ ops[p].rules \in Seq(Rules)
  BY <1>0, <1>2, OpTypes DEF TypeOK, Table, RuleLists
<1>5. OpenInv'
  <2> SUFFICES ASSUME MovedWithCare, NEW port \in Ports
               PROVE  /\ file'.rules # <<>> => Opens(file'.rules, port)
                      /\ kernel'.loaded => Opens(kernel'.rules, port)
                      /\ \A rules \in page : Opens(rules, port)
                      /\ \A q \in Procs : ops'[q].step # "idle" => Opens(ops'[q].rules, port)
    <3>1. Ports' = Ports /\ MovedWithCare' = MovedWithCare
      BY <1>1 DEF Ports, SshPort, MovedWithCare
    <3>2. QED
      BY <1>1, <3>1 DEF OpenInv, Opens, Active
  <2>1. Opens(ops[p].rules, port)
    BY <1>0, <1>1 DEF OpenInv, Active
  <2>2. kernel'.loaded => Opens(kernel'.rules, port)
    <3>1. CASE UNCHANGED kernel
      BY <1>0, <3>1 DEF OpenInv
    <3>2. CASE kernel'.rules = ops[p].rules
      BY <2>1, <3>2
    <3>3. CASE kernel.loaded /\ kernel'.rules = kernel.rules \o ops[p].rules
      <4>1. ToSet(ops[p].rules) \subseteq ToSet(kernel'.rules)
        BY <1>4, <3>3, ListConcat
      <4>2. QED
        BY <2>1, <4>1, OpensMore
    <3>4. QED
      BY <3>1, <3>2, <3>3
  <2>3. QED
    BY <1>0, <1>1, <1>2, <2>1, <2>2 DEF OpenInv, Active, Goes
<1>6. AllowInv'
  <2> SUFFICES ASSUME AllAllow
               PROVE  /\ AllowOnly(file'.rules) /\ AllowOnly(kernel'.rules)
                      /\ \A rules \in page : AllowOnly(rules)
                      /\ \A q \in Procs : AllowOnly(ops'[q].rules)
    BY <1>1 DEF AllowInv, AllAllow, AllowOnly
  <2>1. AllowOnly(ops[p].rules)
    BY <1>0, <1>1 DEF AllowInv
  <2>2. AllowOnly(kernel'.rules)
    <3>1. CASE UNCHANGED kernel
      BY <1>0, <3>1 DEF AllowInv
    <3>2. CASE kernel'.rules = ops[p].rules
      BY <2>1, <3>2
    <3>3. CASE kernel.loaded /\ kernel'.rules = kernel.rules \o ops[p].rules
      <4>1. ToSet(kernel'.rules) = ToSet(kernel.rules) \cup ToSet(ops[p].rules)
        BY <1>4, <3>3, ListConcat
      <4>2. QED
        BY <1>0, <2>1, <4>1 DEF AllowInv, AllowOnly
    <3>4. QED
      BY <3>1, <3>2, <3>3
  <2>3. AllowOnly(op.rules)
    <3>1. AllowOnly(<<>>)
      BY DEF AllowOnly, ToSet
    <3>2. QED
      BY <2>1, <3>1 DEF Goes
  <2>4. QED
    BY <1>0, <1>2, <2>1, <2>2, <2>3 DEF AllowInv
<1>7. MoveInv'
  <2>1. failures \in Nat /\ failures' \in Nat /\ failures <= failures'
    BY <1>0, <1>1, HostTypes
  <2>2. SshPort' = SshPort
    BY <1>1 DEF SshPort
  <2>3. QED
    BY <1>0, <1>1, <2>1, <2>2 DEF MoveInv
<1>8. QED
  BY <1>3, <1>5, <1>6, <1>7

\* While the process p of a panel that is alone is at work, nobody else is.
LEMMA AloneGoes ==
  ASSUME Inv, NEW p, NEW op, Goes(p, op), Alone
  PROVE  /\ Alone' /\ page' = {} /\ p # "cli" /\ host.boots = {"load"}
         /\ p \in Handlers \/ p = "boot"
         /\ p \in Handlers => up
         /\ \A q \in Procs \ {p} : ops[q].step = "idle" /\ ops'[q].step = "idle"
         /\ ops'[p] = op /\ ~NeedsWrite /\ ToSet(Loaded) = open
         /\ ToSet(ops[p].rules) = Acknowledged(ops[p]) /\ ops[p].rules # <<>>
<1>0. TypeOK /\ StepsInv /\ FileInv /\ OpenInv
  BY DEF Inv
<1>1. /\ ops' = [ops EXCEPT ![p] = op] /\ p \in Procs /\ Active(p)
      /\ UNCHANGED <<page, host, moves, blind>>
  BY DEF Goes
<1>2. ops'[p] = op /\ \A q \in Procs \ {p} : ops'[q] = ops[q]
  BY <1>0, <1>1 DEF TypeOK
<1>3. /\ p \in Handlers \/ p = "boot"
      /\ p \in Handlers => up
      /\ \A q \in Procs : Active(q) => q = p
  BY <1>0, <1>1, OneAtWork
<1>4. p # "cli"
  BY <1>3, FirewallAssumption
<1>5. Alone' /\ page' = {} /\ host.boots = {"load"}
  BY <1>0, <1>1 DEF Alone, PanelAlone, MovedWithCare, FileInv
<1>6. ~NeedsWrite /\ ToSet(Loaded) = open /\ ToSet(ops[p].rules) = Acknowledged(ops[p])
  BY <1>0, <1>1, <1>3 DEF FileInv
<1>7. ops[p].rules # <<>>
  <2>1. Opens(ops[p].rules, SshPort)
    BY <1>0, <1>1 DEF OpenInv, Ports, Alone
  <2>2. ToSet(ops[p].rules) # {}
    BY <2>1 DEF Opens, Families
  <2>3. ToSet(<<>>) = {}
    BY DEF ToSet
  <2>4. QED
    BY <2>2, <2>3
<1>8. QED
  BY <1>2, <1>3, <1>4, <1>5, <1>6, <1>7 DEF Active

\* It keeps what a panel that is alone knows of the files,
LEMMA WorkKeepsFiles ==
  ASSUME Inv, NEW p, NEW op, Goes(p, op),
         \/ UNCHANGED <<file, open>>
         \/ op.step = "idle" /\ file' = [rules |-> ops[p].rules, complete |-> TRUE] /\ open' = Acknowledged(ops[p])
  PROVE  FileInv'
<1>1. /\ ops' = [ops EXCEPT ![p] = op] /\ p \in Procs
      /\ op.step # "idle" => op.kind = ops[p].kind /\ op.rules = ops[p].rules /\ op.rule = ops[p].rule
      /\ UNCHANGED <<page, host, moves, blind, policy>>
  BY DEF Goes
<1>2. Alone' = Alone
  BY <1>1 DEF Alone, PanelAlone, MovedWithCare
<1> SUFFICES ASSUME Alone
             PROVE  /\ page' = {} /\ ops'["cli"].step = "idle"
                    /\ ~(file'.rules = <<>> \/ ~file'.complete)
                    /\ ToSet(Loaded') = open'
                    /\ ops'[p] = op /\ \A q \in Procs \ {p} : ops'[q].step = "idle"
                    /\ op.step # "idle" => ToSet(op.rules) = Acknowledged(op)'
  BY <1>2 DEF FileInv, Active, NeedsWrite, Acknowledged
<1>3. /\ page' = {} /\ p # "cli" /\ ops'[p] = op /\ ~NeedsWrite /\ ToSet(Loaded) = open
      /\ \A q \in Procs \ {p} : ops'[q].step = "idle"
      /\ ToSet(ops[p].rules) = Acknowledged(ops[p]) /\ ops[p].rules # <<>>
  BY AloneGoes
<1>4. CASE UNCHANGED <<file, open>>
  <2>1. Loaded' = Loaded
    BY <1>1, <1>4 DEF Loaded, SshPort
  <2>2. op.step # "idle" => ToSet(op.rules) = Acknowledged(op)'
    BY <1>1, <1>3, <1>4 DEF Acknowledged
  <2>3. QED
    BY <1>3, <1>4, <2>1, <2>2 DEF NeedsWrite, Procs
<1>5. CASE op.step = "idle" /\ file' = [rules |-> ops[p].rules, complete |-> TRUE] /\ open' = Acknowledged(ops[p])
  <2>1. Loaded' = ops[p].rules
    BY <1>3, <1>5 DEF Loaded
  <2>2. QED
    BY <1>3, <1>5, <2>1 DEF Procs
<1>6. QED
  BY <1>4, <1>5

\* What a process at work has to know of the table.
Knows(op) ==
  /\ op.step = "bans" /\ refreshes = 0 => /\ op.prev = bans
                                          /\ clean => Same(kernel.bans, bans)
  /\ op.step \in {"build", "commit"} /\ refreshes = 0 /\ clean /\ op.kind \notin {"refresh", "boot"}
       => Same(kernel.bans, RolledBack(op))
  /\ op.step = "commit" => /\ kernel.loaded => op.built.replaces
                           /\ refreshes = 0 => Same(op.built.bans, bans)
  /\ op.step = "write" => /\ kernel.loaded /\ kernel.rules = op.rules
                          /\ refreshes = 0 => Same(kernel.bans, bans)

\* and of the table.
LEMMA WorkKeepsTable ==
  ASSUME Inv, NEW p, NEW op, Goes(p, op),
         Alone => /\ up' => kernel'.loaded
                  /\ up' /\ clean' /\ op.step # "write" => kernel'.rules = Loaded'
                  /\ up' /\ clean' /\ refreshes = 0 /\ op.step = "idle" => Same(kernel.bans, bans)'
                  /\ Knows(op)'
  PROVE  KernelInv'
<1>1. p \in Procs /\ UNCHANGED <<host, moves, blind, refreshes>> /\ op.step # "bans"
  BY DEF Goes
<1>2. Alone' = Alone
  BY <1>1 DEF Alone, PanelAlone, MovedWithCare
<1>3. Alone => (\A q \in Procs \ {p} : ops'[q].step = "idle") /\ ops'[p] = op
  BY AloneGoes
<1>4. QED
  BY <1>1, <1>2, <1>3 DEF KernelInv, Active, Knows, RolledBack, Same

\* A ban that is entered or lifted leaves bans.
LEMMA BanTypes ==
  ASSUME TypeOK, NEW a \in Addresses, NEW until \in Deadline
  PROVE  /\ [bans EXCEPT ![a] = Later(@, until)] \in Bans
         /\ [bans EXCEPT ![a] = 0] \in Bans
         /\ Elements(bans) \in Bans /\ Same(Elements(bans), bans)
<1>1. bans \in [Addresses -> Deadline] /\ 0 \in Deadline /\ now \in Nat /\ Deadline \subseteq Nat
  BY FirewallAssumption, HostTypes DEF TypeOK, Bans, Deadline
<1>2. \A old \in Deadline : Later(old, until) \in Deadline
  BY DEF Later
<1>3. Elements(bans) \in Bans
  BY <1>1 DEF Elements, Bans
<1>4. Same(Elements(bans), bans)
  BY <1>1 DEF Same, Elements, Live
<1>5. QED
  BY <1>1, <1>2, <1>3, <1>4 DEF Bans

\* The bans are changed.
LEMMA ChangeBansKeeps ==
  ASSUME Inv, NEW h \in Handlers, ChangeBans(h)
  PROVE  Inv'
<1>0. TypeOK /\ StepsInv /\ KernelInv /\ h \in Procs
  BY DEF Inv, Procs
<1>1. ops[h] \in Op /\ ops[h].step = "bans" /\ ops[h].kind \in {"block", "unblock"} /\ h # "boot" /\ h # "cli"
  BY <1>0, FirewallAssumption DEF ChangeBans, TypeOK, StepsInv
<1>2. UNCHANGED <<file, kernel, refreshes, page, up, env, open, clean>>
  BY DEF ChangeBans
<1>3. PICK op : /\ Goes(h, op) /\ bans' \in Bans
                /\ \/ op.step = "build"
                   \/ op.step = "idle" /\ UNCHANGED bans
  <2> DEFINE next == [ops[h] EXCEPT !.step = "build"]
  <2>1. next \in Op /\ next.step = "build" /\ next.kind = ops[h].kind /\ next.rules = ops[h].rules
        /\ next.rule = ops[h].rule /\ next.prev = ops[h].prev
    BY <1>1, OpTypes
  <2>2. ASSUME NEW a \in ops[h].addr, ops' = [ops EXCEPT ![h].step = "build"],
               bans' = [bans EXCEPT ![a] = Later(@, ops[h].until)] \/ bans' = [bans EXCEPT ![a] = 0]
        PROVE  Goes(h, next) /\ bans' \in Bans /\ next.step = "build"
    <3>1. a \in Addresses /\ ops[h].until \in Deadline
      BY <1>1, OpTypes
    <3>2. bans' \in Bans
      BY <1>0, <2>2, <3>1, BanTypes
    <3>3. ops' = [ops EXCEPT ![h] = next]
      BY <1>0, <2>2 DEF TypeOK
    <3> HIDE DEF next
    <3>4. QED
      BY <1>0, <1>1, <1>2, <2>1, <3>2, <3>3 DEF Goes, Active, env, ssh
  <2>3. ASSUME ops' = [ops EXCEPT ![h] = Idle], UNCHANGED bans
        PROVE  Goes(h, Idle) /\ bans' \in Bans /\ Idle.step = "idle"
    BY <1>0, <1>1, <1>2, <2>3, OpTypes DEF Goes, Active, env, ssh, TypeOK
  <2> HIDE DEF next
  <2>4. \/ \E a \in ops[h].addr : /\ ops' = [ops EXCEPT ![h].step = "build"]
                                  /\ bans' = [bans EXCEPT ![a] = Later(@, ops[h].until)] \/ bans' = [bans EXCEPT ![a] = 0]
        \/ ops' = [ops EXCEPT ![h] = Idle] /\ UNCHANGED bans
    BY DEF ChangeBans, UpsertSecurityBlock, Advance, Done
  <2>5. QED
    BY <2>2, <2>3, <2>4
<1>4. TypeOK' /\ OpenInv' /\ AllowInv' /\ MoveInv'
  BY <1>0, <1>2, <1>3, WorkKeepsRules DEF TypeOK
<1>5. StepsInv' /\ FileInv'
  BY <1>2, <1>3, WorkKeepsSteps, WorkKeepsFiles
<1>6. KernelInv'
  <2> SUFFICES ASSUME Alone
               PROVE  /\ up' => kernel'.loaded
                      /\ up' /\ clean' /\ op.step # "write" => kernel'.rules = Loaded'
                      /\ up' /\ clean' /\ refreshes = 0 /\ op.step = "idle" => Same(kernel.bans, bans)'
                      /\ Knows(op)'
    BY <1>3, WorkKeepsTable
  <2>1. Loaded' = Loaded
    BY <1>2 DEF Loaded, SshPort, env, ssh
  <2>2. \A q \in Procs : ops[q].step # "write"
    BY <1>1, <1>3, AloneGoes
  <2>3. (up => kernel.loaded) /\ (up /\ clean => kernel.rules = Loaded)
    BY <1>0, <2>2 DEF KernelInv
  <2>4. refreshes = 0 => ops[h].prev = bans /\ (clean => Same(kernel.bans, bans))
    BY <1>0, <1>1 DEF KernelInv
  <2>5. op.step = "idle" => (refreshes = 0 /\ clean => Same(kernel.bans, bans)')
    BY <1>1, <1>2, <1>3, <2>4 DEF Same, env, ssh
  <2>6. op.step = "build" => op.kind \in {"block", "unblock"} /\ op.prev = ops[h].prev
    BY <1>1, <1>3 DEF Goes
  <2>7. Knows(op)'
    BY <1>2, <1>3, <2>4, <2>6 DEF Knows, RolledBack, Same, env, ssh
  <2>8. QED
    BY <1>2, <2>1, <2>3, <2>5, <2>7
<1>7. QED
  BY <1>4, <1>5, <1>6 DEF Inv

\* The batch is built.
LEMMA BuildKeeps ==
  ASSUME Inv, NEW p \in Procs, Build(p)
  PROVE  Inv'
<1>0. TypeOK /\ StepsInv /\ KernelInv
  BY DEF Inv
<1>1. ops[p] \in Op /\ ops[p].step = "build" /\ UNCHANGED <<file, bans, kernel, refreshes, page, up, env, open, clean>>
  BY <1>0 DEF Build, TypeOK
<1>2. Elements(bans) \in Bans /\ Same(Elements(bans), bans) /\ kernel.loaded \in BOOLEAN
  <2>1. bans \in [Addresses -> Deadline] /\ 0 \in Deadline /\ now \in Nat /\ kernel.loaded \in BOOLEAN
    BY <1>0, FirewallAssumption, HostTypes DEF TypeOK, Bans, Deadline, Table
  <2>2. QED
    BY <2>1 DEF Elements, Bans, Same, Live, Deadline
<1> DEFINE batch == [replaces |-> kernel.loaded, bans |-> Elements(bans)]
<1>3. PICK op : /\ op \in Op /\ op.step = "commit" /\ op.kind = ops[p].kind /\ op.rules = ops[p].rules
                /\ op.rule = ops[p].rule /\ op.prev = ops[p].prev
                /\ op.built.replaces = kernel.loaded /\ op.built.bans = Elements(bans)
                /\ ops' = [ops EXCEPT ![p] = op]
  <2> DEFINE next == [ops[p] EXCEPT !.step = "commit", !.built = batch]
  <2>1. batch \in [replaces : BOOLEAN, bans : Bans] /\ batch.replaces = kernel.loaded /\ batch.bans = Elements(bans)
    BY <1>2
  <2>2. ops' = [ops EXCEPT ![p] = next]
    BY <1>0 DEF Build, TypeOK
  <2>3. next = [ops[p] EXCEPT !.step = "commit", !.built = batch]
    OBVIOUS
  <2> HIDE DEF batch, next
  <2>4. /\ next \in Op /\ next.step = "commit" /\ next.kind = ops[p].kind /\ next.rules = ops[p].rules
        /\ next.rule = ops[p].rule /\ next.prev = ops[p].prev /\ next.built = batch
    BY <1>1, <2>1, <2>3 DEF Op
  <2>5. QED
    BY <2>1, <2>2, <2>4
<1>6. Goes(p, op)
  BY <1>1, <1>3 DEF Goes, Active, env, ssh
<1>7. TypeOK' /\ OpenInv' /\ AllowInv' /\ MoveInv'
  BY <1>0, <1>1, <1>6, WorkKeepsRules DEF TypeOK
<1>8. StepsInv' /\ FileInv'
  BY <1>1, <1>6, WorkKeepsSteps, WorkKeepsFiles
<1>9. KernelInv'
  <2> SUFFICES ASSUME Alone
               PROVE  /\ up' => kernel'.loaded
                      /\ up' /\ clean' /\ op.step # "write" => kernel'.rules = Loaded'
                      /\ up' /\ clean' /\ refreshes = 0 /\ op.step = "idle" => Same(kernel.bans, bans)'
                      /\ Knows(op)'
    BY <1>6, WorkKeepsTable
  <2>1. Loaded' = Loaded
    BY <1>1 DEF Loaded, SshPort, env, ssh
  <2>2. \A q \in Procs : ops[q].step # "write"
    BY <1>1, <1>6, AloneGoes
  <2>3. (up => kernel.loaded) /\ (up /\ clean => kernel.rules = Loaded)
    BY <1>0, <2>2 DEF KernelInv
  <2>4. refreshes = 0 /\ clean /\ op.kind \notin {"refresh", "boot"} => Same(kernel.bans, RolledBack(ops[p]))
    BY <1>0, <1>1, <1>3 DEF KernelInv
  <2>5. Knows(op)'
    BY <1>1, <1>2, <1>3, <2>4 DEF Knows, RolledBack, Same, env, ssh
  <2>6. QED
    BY <1>1, <1>3, <2>1, <2>3, <2>5
<1>10. QED
  BY <1>7, <1>8, <1>9 DEF Inv

\* The batch is loaded.
LEMMA CommitKeeps ==
  ASSUME Inv, NEW p \in Procs, Commit(p)
  PROVE  Inv'
<1>0. TypeOK /\ StepsInv /\ KernelInv
  BY DEF Inv
<1>1. /\ ops[p] \in Op /\ ops[p].step = "commit" /\ kernel' = Replaced(ops[p])
      /\ UNCHANGED <<file, bans, refreshes, page, up, env, open, clean>>
  BY <1>0 DEF Commit, TypeOK
<1>2. PICK op : /\ op \in Op /\ op.step = "write" /\ op.kind = ops[p].kind /\ op.rules = ops[p].rules
                /\ op.rule = ops[p].rule /\ op.prev = ops[p].prev
                /\ ops' = [ops EXCEPT ![p] = op]
  <2> DEFINE next == [ops[p] EXCEPT !.step = "write"]
  <2>1. ops' = [ops EXCEPT ![p] = next]
    BY <1>0 DEF Commit, Advance, TypeOK
  <2>2. next \in Op /\ next.step = "write" /\ next.kind = ops[p].kind /\ next.rules = ops[p].rules
        /\ next.rule = ops[p].rule /\ next.prev = ops[p].prev
    BY <1>1, OpTypes
  <2> HIDE DEF next
  <2>3. QED
    BY <2>1, <2>2
<1>3. Goes(p, op)
  BY <1>1, <1>2 DEF Goes, Active, env, ssh
<1>4. /\ kernel' \in Table /\ kernel'.loaded
      /\ \/ kernel'.rules = ops[p].rules
         \/ kernel.loaded /\ kernel'.rules = kernel.rules \o ops[p].rules
      /\ (kernel.loaded => ops[p].built.replaces)
            => kernel'.rules = ops[p].rules /\ kernel'.bans = ops[p].built.bans
  <2>1. /\ kernel.rules \in Seq(Rules) /\ ops[p].rules \in Seq(Rules) /\ kernel.rules \o ops[p].rules \in Seq(Rules)
        /\ kernel.bans \in Bans /\ ops[p].built.bans \in Bans
    BY <1>0, <1>1, OpTypes, ListConcat DEF TypeOK, Table, RuleLists
  <2> DEFINE kept == [a \in Addresses |-> IF kernel.bans[a] > now THEN kernel.bans[a] ELSE ops[p].built.bans[a]]
  <2>2. kept \in Bans
    BY <2>1 DEF Bans
  <2> HIDE DEF kept
  <2>3. CASE kernel.loaded /\ ~ops[p].built.replaces
    <3> DEFINE joined == kernel.rules \o ops[p].rules
    <3>1. kernel' = [loaded |-> TRUE, rules |-> joined, bans |-> kept]
      BY <1>1, <2>3 DEF Replaced, kept
    <3>2. joined \in Seq(Rules)
      BY <2>1
    <3>3. joined = kernel.rules \o ops[p].rules
      OBVIOUS
    <3> HIDE DEF joined
    <3>4. kernel' \in Table /\ kernel'.loaded /\ kernel'.rules = joined
      BY <2>2, <3>1, <3>2 DEF Table
    <3>5. QED
      BY <2>3, <3>3, <3>4
  <2>4. CASE ~(kernel.loaded /\ ~ops[p].built.replaces)
    <3>1. kernel' = [loaded |-> TRUE, rules |-> ops[p].rules, bans |-> ops[p].built.bans]
      BY <1>1, <2>4 DEF Replaced
    <3>2. QED
      BY <2>1, <2>4, <3>1 DEF Table
  <2>5. QED
    BY <2>3, <2>4
<1>5. TypeOK' /\ OpenInv' /\ AllowInv' /\ MoveInv'
  BY <1>0, <1>1, <1>3, <1>4, WorkKeepsRules DEF TypeOK
<1>6. StepsInv' /\ FileInv'
  BY <1>1, <1>3, WorkKeepsSteps, WorkKeepsFiles
<1>7. KernelInv'
  <2> SUFFICES ASSUME Alone
               PROVE  /\ up' => kernel'.loaded
                      /\ up' /\ clean' /\ op.step # "write" => kernel'.rules = Loaded'
                      /\ up' /\ clean' /\ refreshes = 0 /\ op.step = "idle" => Same(kernel.bans, bans)'
                      /\ Knows(op)'
    BY <1>3, WorkKeepsTable
  <2>1. (kernel.loaded => ops[p].built.replaces) /\ (refreshes = 0 => Same(ops[p].built.bans, bans))
    BY <1>0, <1>1 DEF KernelInv
  <2>2. kernel'.rules = op.rules /\ (refreshes = 0 => Same(kernel.bans, bans)')
    BY <1>1, <1>2, <1>4, <2>1 DEF Same, env
  <2>3. Knows(op)'
    BY <1>1, <1>2, <1>4, <2>2 DEF Knows, Same
  <2>4. QED
    BY <1>2, <1>4, <2>3
<1>8. QED
  BY <1>5, <1>6, <1>7 DEF Inv

\* The rules are written, and the request is answered.
LEMMA WriteKeeps ==
  ASSUME Inv, NEW p \in Procs, Write(p)
  PROVE  Inv'
<1>0. TypeOK /\ StepsInv /\ KernelInv
  BY DEF Inv
<1>1. /\ ops[p] \in Op /\ ops[p].step = "write" /\ file' = [rules |-> ops[p].rules, complete |-> TRUE]
      /\ open' = Acknowledged(ops[p]) /\ clean' = TRUE /\ ops' = [ops EXCEPT ![p] = Idle]
      /\ UNCHANGED <<bans, kernel, refreshes, page, env>>
  BY <1>0 DEF Write, Rewrite, Done, TypeOK
<1>2. PICK op : op = Idle
  OBVIOUS
<1>3. op \in Op /\ op.step = "idle" /\ op.rules = <<>> /\ ops' = [ops EXCEPT ![p] = op]
  BY <1>1, <1>2, OpTypes
<1>4. Goes(p, op)
  <2>1. up' = (up \/ p = "boot")
    BY DEF Write
  <2>2. (p = "boot" => up' = TRUE) /\ (p # "boot" => up' = up)
    BY <1>0, <2>1 DEF TypeOK
  <2>3. QED
    BY <1>1, <1>3, <2>2 DEF Goes, Active, env, ssh
<1>5. file' \in [rules : RuleLists, complete : BOOLEAN] /\ open' \subseteq Rules /\ file'.rules = ops[p].rules
  <2>1. ops[p].rules \in RuleLists /\ ops[p].rule \subseteq Rules /\ open \subseteq Rules
    BY <1>0, <1>1, OpTypes DEF TypeOK
  <2>2. QED
    BY <1>1, <2>1 DEF Acknowledged
<1>6. TypeOK' /\ OpenInv' /\ AllowInv' /\ MoveInv'
  BY <1>0, <1>1, <1>4, <1>5, WorkKeepsRules DEF TypeOK
<1>7. StepsInv' /\ FileInv'
  BY <1>1, <1>3, <1>4, WorkKeepsSteps, WorkKeepsFiles
<1>8. KernelInv'
  <2> SUFFICES ASSUME Alone
               PROVE  /\ up' => kernel'.loaded
                      /\ up' /\ clean' /\ op.step # "write" => kernel'.rules = Loaded'
                      /\ up' /\ clean' /\ refreshes = 0 /\ op.step = "idle" => Same(kernel.bans, bans)'
                      /\ Knows(op)'
    BY <1>4, WorkKeepsTable
  <2>1. kernel.loaded /\ kernel.rules = ops[p].rules /\ (refreshes = 0 => Same(kernel.bans, bans))
    BY <1>0, <1>1 DEF KernelInv
  <2>2. ops[p].rules # <<>>
    BY <1>4, AloneGoes
  <2>3. Loaded' = ops[p].rules
    BY <1>1, <2>2 DEF Loaded
  <2>4. QED
    BY <1>1, <1>3, <2>1, <2>3 DEF Knows, Same, env
<1>9. QED
  BY <1>6, <1>7, <1>8 DEF Inv

\* nft or a write fails, and the bans of the request are taken back.
LEMMA FailKeeps ==
  ASSUME Inv, NEW p \in Procs, Fail(p)
  PROVE  Inv'
<1>0. TypeOK /\ StepsInv /\ KernelInv
  BY DEF Inv
<1>1. /\ ops[p] \in Op /\ ops[p].step \in {"commit", "write"}
      /\ \/ bans' = RolledBack(ops[p]) /\ failures < host.failures /\ failures' = failures + 1
         \/ UNCHANGED bans /\ ~clean' /\ failures + 1 < host.failures /\ failures' = failures + 2
      /\ ops' = [ops EXCEPT ![p] = Idle]
      /\ UNCHANGED <<file, kernel, refreshes, page, host, ssh, now, crashes, moves, open>>
  BY <1>0 DEF Fail, Done, TypeOK
<1>2. PICK op : op = Idle
  OBVIOUS
<1>3. op \in Op /\ op.step = "idle" /\ op.rules = <<>> /\ ops' = [ops EXCEPT ![p] = op]
  BY <1>1, <1>2, OpTypes
<1>4. Goes(p, op)
  <2>1. up' = (up \/ p = "boot")
    BY DEF Fail
  <2>2. (p = "boot" => up' = TRUE) /\ (p # "boot" => up' = up)
    BY <1>0, <2>1 DEF TypeOK
  <2>3. QED
    BY <1>1, <1>3, <2>2 DEF Goes, Active, env, ssh
<1>5. clean' \in BOOLEAN /\ (clean' => clean /\ ops[p].step = "commit" /\ ops[p].kind \notin {"refresh", "boot"})
  <2>1. \/ clean' = (clean /\ ops[p].step = "commit" /\ ops[p].kind \notin {"refresh", "boot"})
        \/ clean' = FALSE
    BY DEF Fail
  <2>2. QED
    BY <1>0, <2>1 DEF TypeOK
<1>6. bans' \in Bans
  BY <1>0, <1>1, OpTypes DEF RolledBack, TypeOK
<1>7. TypeOK' /\ OpenInv' /\ AllowInv' /\ MoveInv'
  BY <1>0, <1>1, <1>4, <1>5, <1>6, WorkKeepsRules DEF TypeOK
<1>8. StepsInv' /\ FileInv'
  BY <1>1, <1>4, WorkKeepsSteps, WorkKeepsFiles
<1>9. KernelInv'
  <2> SUFFICES ASSUME Alone
               PROVE  /\ up' => kernel'.loaded
                      /\ up' /\ clean' /\ op.step # "write" => kernel'.rules = Loaded'
                      /\ up' /\ clean' /\ refreshes = 0 /\ op.step = "idle" => Same(kernel.bans, bans)'
                      /\ Knows(op)'
    BY <1>4, WorkKeepsTable
  <2>1. /\ host.boots = {"load"}
        /\ p \in Handlers \/ p = "boot"
        /\ p \in Handlers => up
        /\ \A q \in Procs \ {p} : ops[q].step = "idle"
    BY <1>4, AloneGoes
  <2>2. p # "boot" /\ up
    <3>1. p = "boot" => "fail" \in host.boots
      BY DEF Fail
    <3>2. QED
      BY <2>1, <3>1
  <2>3. kernel.loaded /\ (clean' => kernel.rules = Loaded)
    BY <1>0, <1>1, <1>5, <2>1, <2>2 DEF KernelInv
  <2>4. clean' /\ refreshes = 0 => Same(kernel.bans, RolledBack(ops[p]))
    BY <1>0, <1>1, <1>5 DEF KernelInv
  <2>5. Loaded' = Loaded
    BY <1>1 DEF Loaded, SshPort, ssh
  <2>6. QED
    BY <1>1, <1>3, <2>3, <2>4, <2>5 DEF Knows, Same
<1>10. QED
  BY <1>7, <1>8, <1>9 DEF Inv

-----------------------------------------------------------------------------
(* The other steps.                                                        *)

\* A login handler bans a source.
LEMMA AutoBlockKeeps ==
  ASSUME Inv, NEW a \in host.addresses, NEW m \in Minutes, AutoBlock(a, m)
  PROVE  Inv'
<1>0. TypeOK /\ StepsInv /\ OpenInv /\ AllowInv /\ MoveInv /\ FileInv /\ KernelInv
  BY DEF Inv
<1>1. /\ up /\ refreshes < Cardinality(Handlers) /\ bans' = [bans EXCEPT ![a] = Later(@, now + m)]
      /\ refreshes' = refreshes + 1 /\ UNCHANGED <<file, kernel, ops, page, up, env, open, clean>>
  BY DEF AutoBlock, UpsertSecurityBlock
<1>2. UNCHANGED <<host, policy, listening, move, now, failures, crashes, moves, blind>>
  BY <1>1 DEF env, ssh
<1>3. refreshes \in Nat /\ Cardinality(Handlers) \in Nat
  BY <1>0, FirewallAssumption, FS_CardinalityType DEF TypeOK
<1>4. TypeOK'
  <2>1. a \in Addresses /\ now + m \in Deadline
    BY <1>0, HostTypes
  <2>2. bans' \in Bans
    BY <1>0, <1>1, <2>1, BanTypes
  <2>3. refreshes' \in 0 .. Cardinality(Handlers)
    BY <1>1, <1>3
  <2>4. QED
    BY <1>0, <1>1, <1>2, <2>2, <2>3 DEF TypeOK
<1>5. SshPort' = SshPort /\ Loaded' = Loaded /\ Alone' = Alone
  BY <1>1, <1>2 DEF SshPort, Loaded, Alone, PanelAlone, MovedWithCare
<1>6. StepsInv'
  BY <1>0, <1>1, <1>2 DEF StepsInv, Active
<1>7. OpenInv'
  BY <1>0, <1>1, <1>2, <1>5 DEF OpenInv, Ports, MovedWithCare, Active
<1>8. AllowInv' /\ MoveInv'
  BY <1>0, <1>1, <1>2, <1>5 DEF AllowInv, AllAllow, MoveInv
<1>9. FileInv'
  BY <1>0, <1>1, <1>2, <1>5 DEF FileInv, NeedsWrite, Active, Acknowledged
<1>10. KernelInv'
  <2>1. refreshes' # 0
    BY <1>1, <1>3
  <2>2. QED
    BY <1>0, <1>1, <1>2, <1>5, <2>1 DEF KernelInv, Active
<1>11. QED
  BY <1>4, <1>6, <1>7, <1>8, <1>9, <1>10 DEF Inv

\* There is no table to refresh.
LEMMA NoRefreshKeeps ==
  ASSUME Inv, NEW h \in Handlers, Refresh(h), ~kernel.loaded
  PROVE  Inv'
<1>0. TypeOK /\ StepsInv /\ OpenInv /\ AllowInv /\ MoveInv /\ FileInv /\ KernelInv
  BY DEF Inv
<1>1. refreshes > 0 /\ refreshes' = refreshes - 1 /\ UNCHANGED <<file, ops, bans, kernel, page, up, env, open, clean>>
  BY DEF Refresh
<1>2. UNCHANGED <<host, policy, listening, move, now, failures, crashes, moves, blind>>
  BY <1>1 DEF env, ssh
<1>3. refreshes \in Nat /\ Cardinality(Handlers) \in Nat /\ refreshes \in 0 .. Cardinality(Handlers)
  BY <1>0, FirewallAssumption, FS_CardinalityType DEF TypeOK
<1>4. up
  BY <1>0, <1>1, <1>3 DEF StepsInv
<1>5. ~Alone /\ ~Alone'
  BY <1>0, <1>2, <1>4 DEF KernelInv, Alone, PanelAlone, MovedWithCare
<1>6. TypeOK'
  <2>1. refreshes' \in 0 .. Cardinality(Handlers)
    BY <1>1, <1>3
  <2>2. QED
    BY <1>0, <1>1, <1>2, <2>1 DEF TypeOK
<1>7. SshPort' = SshPort
  BY <1>2 DEF SshPort
<1>8. StepsInv'
  BY <1>0, <1>1, <1>2, <1>4 DEF StepsInv, Active
<1>9. OpenInv'
  BY <1>0, <1>1, <1>2, <1>7 DEF OpenInv, Ports, MovedWithCare, Active
<1>10. AllowInv' /\ MoveInv'
  BY <1>0, <1>1, <1>2, <1>7 DEF AllowInv, AllAllow, MoveInv
<1>11. FileInv' /\ KernelInv'
  BY <1>5 DEF FileInv, KernelInv
<1>12. QED
  BY <1>6, <1>8, <1>9, <1>10, <1>11 DEF Inv

\* The page of the firewall reads the rules,
LEMMA ReadPageKeeps ==
  ASSUME Inv, ReadPage
  PROVE  Inv'
<1>0. TypeOK /\ StepsInv /\ OpenInv /\ AllowInv /\ MoveInv /\ FileInv /\ KernelInv
  BY DEF Inv
<1>1. /\ up /\ NeedsWrite /\ NoMoveBeside /\ page' = {Loaded}
      /\ UNCHANGED <<file, bans, kernel, ops, refreshes, up, env, open, clean>>
  BY DEF ReadPage
<1>2. UNCHANGED <<host, policy, listening, move, now, failures, crashes, moves, blind>>
  BY <1>1 DEF env, ssh
<1>3. ~Alone /\ ~Alone'
  BY <1>0, <1>1, <1>2 DEF FileInv, Alone, PanelAlone, MovedWithCare
<1>4. TypeOK'
  <2>1. Loaded \in RuleLists
    BY <1>0, LoadedTypes
  <2>2. page' \subseteq RuleLists /\ Cardinality(page') <= 1
    <3> DEFINE loaded == Loaded
    <3>1. page' = {loaded} /\ loaded \in RuleLists
      BY <1>1, <2>1
    <3> HIDE DEF loaded
    <3>2. Cardinality({loaded}) = 1
      BY FS_Singleton
    <3>3. QED
      BY <3>1, <3>2
  <2>3. QED
    BY <1>0, <1>1, <1>2, <2>2 DEF TypeOK
<1>5. SshPort' = SshPort
  BY <1>2 DEF SshPort
<1>6. StepsInv'
  BY <1>0, <1>1, <1>2 DEF StepsInv, Active, NoMoveBeside
<1>7. OpenInv'
  <2> SUFFICES ASSUME MovedWithCare
               PROVE  \A port \in Ports' :
                        /\ file.rules # <<>> => Opens(file.rules, port)
                        /\ kernel.loaded => Opens(kernel.rules, port)
                        /\ \A rules \in page' : Opens(rules, port)
                        /\ \A q \in Procs : ops[q].step # "idle" => Opens(ops[q].rules, port)
    BY <1>1, <1>2 DEF OpenInv, MovedWithCare, Opens, Active
  <2>1. move.step = "idle"
    BY <1>0, <1>1 DEF NoMoveBeside, StepsInv, MovedWithCare
  <2>2. Ports' = {SshPort} /\ Ports = {SshPort}
    BY <1>2, <1>5, <2>1 DEF Ports
  <2>3. Opens(Loaded, SshPort)
    BY <1>0, LoadedOpens
  <2>4. QED
    BY <1>0, <1>1, <2>2, <2>3 DEF OpenInv, Active
<1>8. AllowInv'
  <2> SUFFICES ASSUME AllAllow
               PROVE  /\ AllowOnly(file.rules) /\ AllowOnly(kernel.rules)
                      /\ \A rules \in page' : AllowOnly(rules)
                      /\ \A q \in Procs : AllowOnly(ops[q].rules)
    BY <1>1, <1>2 DEF AllowInv, AllAllow, AllowOnly
  <2>1. AllowOnly(Loaded)
    BY <1>0, LoadedAllows
  <2>2. QED
    BY <1>0, <1>1, <2>1 DEF AllowInv
<1>9. MoveInv'
  BY <1>0, <1>1, <1>2, <1>5 DEF MoveInv
<1>10. FileInv' /\ KernelInv'
  BY <1>3 DEF FileInv, KernelInv
<1>11. QED
  BY <1>4, <1>6, <1>7, <1>8, <1>9, <1>10 DEF Inv

\* and writes them back.
LEMMA WritePageKeeps ==
  ASSUME Inv, WritePage
  PROVE  Inv'
<1>0. TypeOK /\ StepsInv /\ OpenInv /\ AllowInv /\ MoveInv /\ FileInv /\ KernelInv
  BY DEF Inv
<1>1. page # {} /\ page' = {} /\ UNCHANGED <<bans, kernel, ops, refreshes, up, env, open, clean>>
  BY DEF WritePage
<1>2. PICK rules \in page : file' = [rules |-> rules, complete |-> TRUE]
  BY DEF WritePage, Rewrite
<1>3. UNCHANGED <<host, policy, listening, move, now, failures, crashes, moves, blind>>
  BY <1>1 DEF env, ssh
<1>4. ~Alone /\ ~Alone'
  BY <1>0, <1>1, <1>3 DEF FileInv, Alone, PanelAlone, MovedWithCare
<1>5. TypeOK'
  <2>1. file' \in [rules : RuleLists, complete : BOOLEAN]
    BY <1>0, <1>2 DEF TypeOK
  <2>2. page' \subseteq RuleLists /\ Cardinality(page') <= 1
    BY <1>1, FS_EmptySet
  <2>3. QED
    BY <1>0, <1>1, <1>3, <2>1, <2>2 DEF TypeOK
<1>6. SshPort' = SshPort /\ file'.rules = rules
  BY <1>2, <1>3 DEF SshPort
<1>7. StepsInv'
  BY <1>0, <1>1, <1>3 DEF StepsInv, Active
<1>8. OpenInv'
  BY <1>0, <1>1, <1>2, <1>3, <1>6 DEF OpenInv, Ports, MovedWithCare, Active
<1>9. AllowInv' /\ MoveInv'
  BY <1>0, <1>1, <1>2, <1>3, <1>6 DEF AllowInv, AllAllow, MoveInv
<1>10. FileInv' /\ KernelInv'
  BY <1>4 DEF FileInv, KernelInv
<1>11. QED
  BY <1>5, <1>7, <1>8, <1>9, <1>10 DEF Inv

\* The command works beside the panel.
LEMMA CommandKeeps ==
  ASSUME Inv, NEW op, Goes("cli", op), bans' \in Bans, UNCHANGED <<file, kernel, open, clean>>
  PROVE  Inv'
<1>1. "cli" \in Procs /\ Active("cli") /\ UNCHANGED host
  BY DEF Goes
<1>2. host.cli
  BY <1>1 DEF Inv, StepsInv
<1>3. ~Alone'
  BY <1>1, <1>2 DEF Alone, PanelAlone
<1>4. TypeOK' /\ OpenInv' /\ AllowInv' /\ MoveInv'
  BY WorkKeepsRules DEF Inv, TypeOK
<1>5. StepsInv'
  BY WorkKeepsSteps
<1>6. QED
  BY <1>3, <1>4, <1>5 DEF Inv, FileInv, KernelInv

\* It reads the bans,
LEMMA CliReadKeeps ==
  ASSUME Inv, CliRead
  PROVE  Inv'
<1>0. TypeOK /\ "cli" \in Procs /\ "cli" # "boot"
  BY DEF Inv, Procs
<1>1. /\ ops["cli"] \in Op /\ ops["cli"].step = "build" /\ bans \in Bans
      /\ UNCHANGED <<file, bans, kernel, refreshes, page, up, env, open, clean>>
  BY <1>0 DEF CliRead, TypeOK
<1> DEFINE next == [ops["cli"] EXCEPT !.step = "prune", !.prev = bans]
<1>2. ops' = [ops EXCEPT !["cli"] = next]
  BY <1>0 DEF CliRead, TypeOK
<1>3. /\ next \in Op /\ next.step = "prune" /\ next.kind = ops["cli"].kind
      /\ next.rules = ops["cli"].rules /\ next.rule = ops["cli"].rule
  BY <1>1 DEF Op
<1> HIDE DEF next
<1>4. Goes("cli", next)
  BY <1>0, <1>1, <1>2, <1>3 DEF Goes, Active, env, ssh
<1>5. QED
  BY <1>1, <1>4, CommandKeeps

\* and writes them without those that have ended.
LEMMA CliPruneKeeps ==
  ASSUME Inv, CliPrune
  PROVE  Inv'
<1>0. TypeOK /\ "cli" \in Procs /\ "cli" # "boot"
  BY DEF Inv, Procs
<1>1. /\ ops["cli"] \in Op /\ ops["cli"].step = "prune" /\ kernel.loaded \in BOOLEAN
      /\ bans' = Elements(ops["cli"].prev)
      /\ UNCHANGED <<file, kernel, refreshes, page, up, env, open, clean>>
  BY <1>0 DEF CliPrune, TypeOK, Table
<1>2. Elements(ops["cli"].prev) \in Bans
  <2>1. ops["cli"].prev \in [Addresses -> Deadline] /\ 0 \in Deadline
    BY <1>1, OpTypes, FirewallAssumption DEF Bans, Deadline
  <2>2. QED
    BY <2>1 DEF Elements, Bans
<1> DEFINE batch == [replaces |-> kernel.loaded, bans |-> Elements(ops["cli"].prev)]
           next == [ops["cli"] EXCEPT !.step = "commit", !.built = batch]
<1>3. batch \in [replaces : BOOLEAN, bans : Bans]
  BY <1>1, <1>2
<1>4. ops' = [ops EXCEPT !["cli"] = Idle] \/ ops' = [ops EXCEPT !["cli"] = next]
  BY <1>0 DEF CliPrune, Done, TypeOK
<1> HIDE DEF batch
<1>5. /\ next \in Op /\ next.step = "commit" /\ next.kind = ops["cli"].kind
      /\ next.rules = ops["cli"].rules /\ next.rule = ops["cli"].rule
  BY <1>1, <1>3 DEF Op
<1> HIDE DEF next
<1>6. \E op : Goes("cli", op)
  <2>1. CASE ops' = [ops EXCEPT !["cli"] = Idle]
    BY <1>0, <1>1, <2>1, OpTypes DEF Goes, Active, env, ssh
  <2>2. CASE ops' = [ops EXCEPT !["cli"] = next]
    BY <1>0, <1>1, <1>5, <2>2 DEF Goes, Active, env, ssh
  <2>3. QED
    BY <1>4, <2>1, <2>2
<1>7. QED
  BY <1>1, <1>2, <1>6, CommandKeeps

\* A start leaves the table as it is.
LEMMA SkipKeeps ==
  ASSUME Inv, ~Active("boot"), "skip" \in host.boots, up' = TRUE,
         UNCHANGED <<file, ops, bans, kernel, refreshes, page, env, open, clean>>
  PROVE  Inv'
<1>0. TypeOK /\ StepsInv /\ OpenInv /\ AllowInv /\ MoveInv
  BY DEF Inv
<1>1. UNCHANGED <<host, policy, listening, move, now, failures, crashes, moves, blind>>
  BY DEF env, ssh
<1>2. ~Alone'
  BY <1>1 DEF Alone, PanelAlone
<1>3. SshPort' = SshPort
  BY <1>1 DEF SshPort
<1>4. TypeOK' /\ StepsInv'
  BY <1>0, <1>1 DEF TypeOK, StepsInv, Active
<1>5. OpenInv'
  BY <1>0, <1>1, <1>3 DEF OpenInv, Ports, MovedWithCare, Active
<1>6. AllowInv' /\ MoveInv'
  BY <1>0, <1>1, <1>3 DEF AllowInv, AllAllow, MoveInv
<1>7. FileInv' /\ KernelInv'
  BY <1>2 DEF FileInv, KernelInv
<1>8. QED
  BY <1>4, <1>5, <1>6, <1>7 DEF Inv

\* The panel, or the machine, stops.
LEMMA CrashKeeps ==
  ASSUME Inv, NEW reboot \in BOOLEAN, Crash(reboot)
  PROVE  Inv'
<1>0. TypeOK /\ StepsInv /\ OpenInv /\ AllowInv /\ MoveInv /\ FileInv /\ KernelInv
  BY DEF Inv
<1>1. /\ crashes < host.crashes /\ crashes' = crashes + 1
      /\ up' = FALSE /\ refreshes' = 0 /\ page' = {} /\ clean' = FALSE
      /\ move' = NoMove
      /\ UNCHANGED <<file, bans, host, policy, now, failures, moves, blind, open>>
  BY DEF Crash
<1>2. ops' = [p \in Procs |-> IF p = "cli" /\ ~reboot THEN ops[p] ELSE Idle]
  BY DEF Crash
<1>3. /\ kernel' = kernel \/ kernel' = NoTable
      /\ listening' = listening \/ listening' = SshPort
  BY DEF Crash
<1>4. /\ \A p \in Procs : ops'[p] = Idle \/ (p = "cli" /\ ops'[p] = ops[p])
      /\ ops' \in [Procs -> Op]
  BY <1>0, <1>2, OpTypes DEF TypeOK
<1>5. NoMove.step = "idle" /\ NoMove.old = {} /\ Idle.step = "idle" /\ Idle.rules = <<>> /\ NoTable \in Table
      /\ ~NoTable.loaded /\ NoTable.rules = <<>>
  <2>1. NoBans \in Bans
    BY FirewallAssumption DEF Bans, NoBans, Deadline
  <2>2. QED
    BY <2>1, OpTypes DEF NoMove, NoTable, Table
<1>6. SshPort' = SshPort /\ Loaded' = Loaded /\ Alone' = Alone
  BY <1>1 DEF SshPort, Loaded, Alone, PanelAlone, MovedWithCare
<1>7. TypeOK'
  <2>1. listening' \in AllPorts /\ kernel' \in Table
    BY <1>0, <1>3, <1>5, LoadedTypes DEF TypeOK, AllPorts
  <2>2. crashes' \in 0 .. host.crashes
    BY <1>0, <1>1, HostTypes
  <2>3. /\ move' \in [step : {"idle", "test", "reload", "undo"}, old : SUBSET {r.port : r \in Rules}]
        /\ Cardinality(move'.old) <= 1
    BY <1>1, FS_EmptySet DEF NoMove
  <2>4. page' \subseteq RuleLists /\ Cardinality(page') <= 1
    BY <1>1, FS_EmptySet
  <2>5. refreshes' \in 0 .. Cardinality(Handlers)
    BY <1>1, FirewallAssumption, FS_CardinalityType
  <2>6. QED
    BY <1>0, <1>1, <1>4, <2>1, <2>2, <2>3, <2>4, <2>5 DEF TypeOK, AllPorts
<1>8. "cli" \in Procs /\ "boot" \in Procs /\ "boot" # "cli" /\ Handlers \subseteq Procs /\ "cli" \notin Handlers
  BY FirewallAssumption DEF Procs
<1>9. StepsInv'
  <2>1. moves = 0 => policy' = {} /\ listening' = SshPort0 /\ move'.step = "idle"
    BY <1>0, <1>1, <1>3, <1>5 DEF StepsInv, SshPort
  <2>2. ops'["boot"].step = "idle" /\ \A h \in Handlers : ops'[h].step = "idle"
    BY <1>4, <1>5, <1>8
  <2>3. ops'["cli"].step # "idle" => host.cli
    BY <1>0, <1>4, <1>5, <1>8 DEF StepsInv, Active
  <2>4. \A p \in Procs : ops'[p].step # "bans" \/ ops'[p] = ops[p]
    BY <1>4, <1>5
  <2>5. QED
    BY <1>0, <1>1, <1>5, <2>1, <2>2, <2>3, <2>4 DEF StepsInv, Active
<1>10. OpenInv'
  <2>1. Ports' = {SshPort} /\ SshPort \in Ports
    BY <1>1, <1>5, <1>6 DEF Ports
  <2>2. \A p \in Procs : ops'[p].step = "idle" \/ ops'[p] = ops[p]
    BY <1>4, <1>5
  <2>3. kernel'.loaded => kernel' = kernel
    BY <1>3, <1>5
  <2>4. QED
    BY <1>0, <1>1, <2>1, <2>2, <2>3 DEF OpenInv, MovedWithCare, Active
<1>11. AllowInv'
  <2>1. AllowOnly(<<>>)
    BY DEF AllowOnly, ToSet
  <2>2. \A p \in Procs : ops'[p].rules = <<>> \/ ops'[p] = ops[p]
    BY <1>4, <1>5
  <2>3. kernel'.rules = <<>> \/ kernel' = kernel
    BY <1>3, <1>5
  <2>4. QED
    BY <1>0, <1>1, <2>1, <2>2, <2>3 DEF AllowInv, AllAllow
<1>12. MoveInv'
  <2>1. crashes' # 0
    BY <1>0, <1>1, HostTypes
  <2>2. QED
    BY <1>1, <1>5, <2>1 DEF MoveInv
<1>13. ASSUME Alone
       PROVE  \A p \in Procs : ops'[p].step = "idle"
  <2>1. ops["cli"].step = "idle"
    BY <1>0, <1>13 DEF FileInv, Active
  <2>2. QED
    BY <1>4, <1>5, <2>1
<1>14. FileInv'
  <2>1. Alone => ToSet(Loaded') = open'
    BY <1>0, <1>1, <1>6 DEF FileInv
  <2>2. QED
    BY <1>1, <1>6, <1>8, <1>13, <2>1 DEF FileInv, Active
<1>15. KernelInv'
  BY <1>1, <1>6, <1>13 DEF KernelInv, Active
<1>16. QED
  BY <1>7, <1>9, <1>10, <1>11, <1>12, <1>14, <1>15 DEF Inv

\* The drop-in of sshd gets a new port, which the firewall may have open.
LEMMA MoveSshKeeps ==
  ASSUME Inv, NEW r \in host.rules, MoveSsh(r.port)
  PROVE  Inv'
<1>0. TypeOK /\ StepsInv /\ OpenInv /\ AllowInv /\ MoveInv /\ FileInv /\ KernelInv
  BY DEF Inv
<1>1. PICK port : port = r.port
  OBVIOUS
<1>2. /\ up /\ move.step = "idle" /\ moves < host.moves /\ moves' = moves + 1 /\ NothingBeside
      /\ blind' = (blind \/ ~Admits(port))
      /\ policy' = {port} /\ move' = [step |-> "test", old |-> policy]
      /\ UNCHANGED <<file, bans, kernel, ops, refreshes, page, up, host, listening, now, failures, crashes, open, clean>>
  BY <1>1 DEF MoveSsh
<1>3. port \in AllPorts
  BY <1>0, <1>1, HostTypes DEF AllPorts
<1>4. SshPort' = port /\ PortOf(policy) = SshPort /\ move'.step = "test" /\ move'.old = policy
  BY <1>2 DEF SshPort, PortOf
<1>5. moves' # 0 /\ moves' \in 0 .. host.moves
  BY <1>0, <1>2, HostTypes
<1>6. MovedWithCare' => MovedWithCare /\ host.apart /\ Admits(port)
  BY <1>2, <1>5 DEF MovedWithCare
<1>7. host.apart => page = {} /\ \A p \in Procs : ops[p].step = "idle"
  BY <1>2 DEF NothingBeside
<1>8. TypeOK'
  <2>0. policy' = {port} /\ blind' \in BOOLEAN
    BY <1>0, <1>2 DEF TypeOK
  <2>1. policy' \subseteq AllPorts /\ Cardinality(policy') <= 1
    BY <1>3, <2>0, FS_Singleton
  <2>2. /\ move' \in [step : {"idle", "test", "reload", "undo"}, old : SUBSET {x.port : x \in Rules}]
        /\ Cardinality(move'.old) <= 1
    BY <1>0, <1>2, <1>4 DEF TypeOK
  <2>3. QED
    BY <1>0, <1>2, <1>5, <2>0, <2>1, <2>2 DEF TypeOK, AllPorts
<1>9. StepsInv'
  BY <1>0, <1>2, <1>4, <1>5, <1>7 DEF StepsInv, Active
<1>10. OpenInv'
  <2> SUFFICES ASSUME host.apart, MovedWithCare, Admits(port)
               PROVE  \A q \in {SshPort, port} :
                        /\ file.rules # <<>> => Opens(file.rules, q)
                        /\ kernel.loaded => Opens(kernel.rules, q)
                        /\ page = {} /\ \A p \in Procs : ops[p].step = "idle"
    <3>1. Ports' = {SshPort, port}
      BY <1>4 DEF Ports, PortOf
    <3>2. QED
      BY <1>2, <1>6, <3>1 DEF OpenInv, Active
  <2>1. kernel.rules \in Seq(Rules) /\ Loaded \in Seq(Rules)
    BY <1>0, LoadedTypes DEF TypeOK, Table, RuleLists
  <2>2. (kernel.loaded => Opens(kernel.rules, port)) /\ Opens(Loaded, port)
    BY <2>1, SshOpenIsOpens DEF Admits
  <2>3. file.rules # <<>> => Opens(file.rules, port)
    BY <2>2 DEF Loaded
  <2>4. QED
    BY <1>0, <1>7, <2>2, <2>3 DEF OpenInv, MovedWithCare, Ports
<1>11. AllowInv'
  BY <1>0, <1>2 DEF AllowInv, AllAllow
<1>12. MoveInv'
  BY <1>0, <1>2, <1>4 DEF MoveInv
<1>13. Alone' => Alone
  BY <1>2, <1>6 DEF Alone, PanelAlone
<1>14. Alone => ~NeedsWrite /\ Loaded' = Loaded
  <2>1. Alone => ~NeedsWrite
    BY <1>0, <1>2 DEF FileInv
  <2>2. ~NeedsWrite => Loaded' = Loaded
    BY <1>2 DEF NeedsWrite, Loaded
  <2>3. QED
    BY <2>1, <2>2
<1>15. FileInv'
  BY <1>0, <1>2, <1>13, <1>14 DEF FileInv, NeedsWrite, Active, Acknowledged
<1>16. KernelInv'
  BY <1>0, <1>2, <1>13, <1>14 DEF KernelInv, Active, Same, RolledBack
<1>17. QED
  BY <1>8, <1>9, <1>10, <1>11, <1>12, <1>15, <1>16 DEF Inv

\* sshd tests and reloads its files, or the drop-in is put back.
LEMMA ReloadSshKeeps ==
  ASSUME Inv, ReloadSsh
  PROVE  Inv'
<1>0. TypeOK /\ StepsInv /\ OpenInv /\ AllowInv /\ MoveInv /\ FileInv /\ KernelInv
  BY DEF Inv
<1>1. UNCHANGED <<file, bans, kernel, ops, refreshes, page, up, host, now, crashes, moves, blind, open, clean>>
  BY DEF ReloadSsh
<1>2. NoMove.step = "idle" /\ NoMove.old = {}
  BY DEF NoMove
<1>3. \/ /\ move.step = "test" /\ move'.step = "reload" /\ move'.old = move.old
         /\ UNCHANGED <<policy, listening, failures>>
      \/ /\ move.step \in {"reload", "undo"} /\ move'.step = "idle" /\ move'.old = {}
         /\ listening' = SshPort /\ UNCHANGED <<policy, failures>>
      \/ /\ move.step \in {"test", "reload"} /\ failures < host.failures /\ failures' = failures + 1
         /\ policy' = move.old
         /\ \/ move.step = "test" /\ listening' = listening /\ move'.step = "idle" /\ move'.old = {}
            \/ move.step = "reload" /\ listening' \in {listening, SshPort} /\ move'.step = "undo" /\ move'.old = move.old
      \/ /\ move.step = "undo" /\ failures < host.failures /\ failures' = failures + 1
         /\ move'.step = "idle" /\ move'.old = {} /\ UNCHANGED <<policy, listening>>
  <2>1. \A step \in STRING : LET next == [move EXCEPT !.step = step] IN next.step = step /\ next.old = move.old
    BY <1>0 DEF TypeOK
  <2>2. \/ move.step = "test" /\ move' = [move EXCEPT !.step = "reload"] /\ UNCHANGED <<policy, listening, failures>>
        \/ move.step \in {"reload", "undo"} /\ move' = NoMove /\ listening' = SshPort /\ UNCHANGED <<policy, failures>>
        \/ /\ move.step # "idle" /\ failures < host.failures /\ failures' = failures + 1
           /\ policy' = IF move.step = "undo" THEN policy ELSE move.old
           /\ listening' \in {listening} \cup IF move.step = "reload" THEN {SshPort} ELSE {}
           /\ move' = IF move.step = "reload" THEN [move EXCEPT !.step = "undo"] ELSE NoMove
    BY DEF ReloadSsh, Restored
  <2>3. move.step \in {"idle", "test", "reload", "undo"}
    BY <1>0 DEF TypeOK
  <2>4. CASE move.step = "test" /\ move' = [move EXCEPT !.step = "reload"] /\ UNCHANGED <<policy, listening, failures>>
    BY <2>1, <2>4
  <2>5. CASE move.step \in {"reload", "undo"} /\ move' = NoMove /\ listening' = SshPort /\ UNCHANGED <<policy, failures>>
    BY <1>2, <2>5
  <2>6. CASE /\ move.step # "idle" /\ failures < host.failures /\ failures' = failures + 1
             /\ policy' = IF move.step = "undo" THEN policy ELSE move.old
             /\ listening' \in {listening} \cup IF move.step = "reload" THEN {SshPort} ELSE {}
             /\ move' = IF move.step = "reload" THEN [move EXCEPT !.step = "undo"] ELSE NoMove
    <3>1. CASE move.step = "test"
      BY <1>2, <2>6, <3>1
    <3>2. CASE move.step = "reload"
      BY <2>1, <2>6, <3>2
    <3>3. CASE move.step = "undo"
      BY <1>2, <2>6, <3>3
    <3>4. QED
      BY <2>3, <2>6, <3>1, <3>2, <3>3
  <2>7. QED
    BY <2>2, <2>4, <2>5, <2>6
<1>4. move.step # "idle" /\ moves # 0 /\ up
  <2>1. move.step # "idle"
    BY <1>3
  <2>2. QED
    BY <1>0, <2>1 DEF StepsInv
<1>5. PortOf(policy) = SshPort /\ PortOf(policy)' = SshPort' /\ PortOf(policy)' = PortOf(policy')
  BY DEF SshPort, PortOf
<1>6. policy' = policy \/ policy' = move.old
  BY <1>3
<1>7. PortOf(policy') \in {SshPort, PortOf(move.old)}
  BY <1>5, <1>6
<1>8. SshPort' \in {SshPort, PortOf(move.old)}
  BY <1>5, <1>7
<1>9. Alone' = Alone
  BY <1>1 DEF Alone, PanelAlone, MovedWithCare
<1>10. TypeOK'
  <2>1. SshPort \in AllPorts /\ listening \in AllPorts /\ move.old \subseteq AllPorts /\ PortOf(move.old) \in AllPorts
    BY <1>0, LoadedTypes, PortTypes DEF TypeOK, AllPorts
  <2>2. listening' \in AllPorts
    BY <1>3, <1>8, <2>1
  <2>3. policy' \subseteq AllPorts /\ Cardinality(policy') <= 1
    BY <1>0, <1>6 DEF TypeOK, AllPorts
  <2>4. failures' \in 0 .. host.failures
    BY <1>0, <1>3, HostTypes DEF TypeOK
  <2>5. /\ move' \in [step : {"idle", "test", "reload", "undo"}, old : SUBSET {x.port : x \in Rules}]
        /\ Cardinality(move'.old) <= 1
    <3>1. Cardinality({}) = 0
      BY FS_EmptySet
    <3>2. /\ move' = NoMove \/ \E step \in {"reload", "undo"} : move' = [move EXCEPT !.step = step]
          /\ move \in [step : {"idle", "test", "reload", "undo"}, old : SUBSET {x.port : x \in Rules}]
          /\ Cardinality(move.old) <= 1
      BY <1>0 DEF ReloadSsh, TypeOK
    <3>3. CASE move' = NoMove
      BY <3>1, <3>3 DEF NoMove
    <3>4. ASSUME NEW step \in {"reload", "undo"}, move' = [move EXCEPT !.step = step]
          PROVE  /\ move' \in [step : {"idle", "test", "reload", "undo"}, old : SUBSET {x.port : x \in Rules}]
                 /\ Cardinality(move'.old) <= 1
      <4>1. move'.old = move.old
        BY <3>2, <3>4
      <4>2. QED
        BY <3>2, <3>4, <4>1
    <3>5. QED
      BY <3>2, <3>3, <3>4
  <2>6. QED
    BY <1>0, <1>1, <2>2, <2>3, <2>4, <2>5 DEF TypeOK, AllPorts
<1>11. StepsInv'
  BY <1>0, <1>1, <1>4 DEF StepsInv, Active
<1>12. OpenInv'
  <2>1. Ports' \subseteq Ports
    <3>1. Ports = {SshPort, PortOf(move.old)} /\ Ports' \subseteq {SshPort', PortOf(move'.old)}
      BY <1>4 DEF Ports, PortOf
    <3>2. move'.step = "idle" => Ports' = {SshPort'}
      BY DEF Ports
    <3>3. move'.step = "idle" \/ move'.old = move.old
      BY <1>3
    <3>4. QED
      BY <1>8, <3>1, <3>2, <3>3
  <2>2. MovedWithCare' = MovedWithCare
    BY <1>1 DEF MovedWithCare
  <2>3. QED
    BY <1>0, <1>1, <2>1, <2>2 DEF OpenInv, Active
<1>13. AllowInv'
  BY <1>0, <1>1 DEF AllowInv, AllAllow
<1>14. MoveInv'
  <2>1. failures \in Nat
    BY <1>0, HostTypes
  <2>2. SshPort' = PortOf(policy')
    BY <1>5
  <2>3. CASE /\ move.step = "test" /\ move'.step = "reload" /\ move'.old = move.old
             /\ UNCHANGED <<policy, listening, failures>>
    BY <1>0, <1>1, <2>3 DEF MoveInv, PortOf
  <2>4. CASE /\ move.step \in {"reload", "undo"} /\ move'.step = "idle" /\ move'.old = {}
             /\ listening' = SshPort /\ UNCHANGED <<policy, failures>>
    BY <1>5, <2>2, <2>4 DEF MoveInv
  <2>5. CASE move.step \in {"test", "reload"} /\ failures' = failures + 1 /\ policy' = move.old
    <3>1. failures' > 0
      BY <2>1, <2>5
    <3>2. CASE move.step = "test" /\ listening' = listening /\ move'.step = "idle"
      <4>1. crashes = 0 /\ failures' < 2 => listening = PortOf(move.old)
        BY <1>0, <2>1, <2>5, <3>2 DEF MoveInv
      <4>2. QED
        BY <1>1, <2>2, <2>5, <3>1, <3>2, <4>1 DEF MoveInv
    <3>3. CASE move'.step = "undo"
      BY <3>1, <3>3 DEF MoveInv
    <3>4. QED
      BY <1>3, <2>5, <3>2, <3>3
  <2>6. CASE /\ move.step = "undo" /\ failures' = failures + 1 /\ move'.step = "idle"
    <3>1. ~(failures' < 2)
      BY <1>0, <2>1, <2>6 DEF MoveInv
    <3>2. QED
      BY <2>6, <3>1 DEF MoveInv
  <2>7. QED
    BY <1>3, <2>3, <2>4, <2>5, <2>6
<1>15. Alone => ~NeedsWrite /\ Loaded' = Loaded
  <2>1. Alone => ~NeedsWrite
    BY <1>0, <1>4 DEF FileInv
  <2>2. ~NeedsWrite => Loaded' = Loaded
    BY <1>1 DEF NeedsWrite, Loaded
  <2>3. QED
    BY <2>1, <2>2
<1>16. FileInv'
  BY <1>0, <1>1, <1>9, <1>15 DEF FileInv, NeedsWrite, Active, Acknowledged
<1>17. KernelInv'
  BY <1>0, <1>1, <1>9, <1>15 DEF KernelInv, Active, Same, RolledBack
<1>18. QED
  BY <1>10, <1>11, <1>12, <1>13, <1>14, <1>16, <1>17 DEF Inv

\* Time passes: bans that agree go on to agree.
LEMMA TickKeeps ==
  ASSUME Inv, Tick
  PROVE  Inv'
<1>0. TypeOK /\ StepsInv /\ OpenInv /\ AllowInv /\ MoveInv /\ FileInv /\ KernelInv
  BY DEF Inv
<1>1. /\ now < host.time /\ now' = now + 1
      /\ UNCHANGED <<file, bans, kernel, ops, refreshes, page, up, host, ssh, failures, crashes, moves, open, clean>>
  BY DEF Tick
<1>2. UNCHANGED <<policy, listening, move, blind>>
  BY <1>1 DEF ssh
<1>3. SshPort' = SshPort /\ Loaded' = Loaded /\ Alone' = Alone
  BY <1>1, <1>2 DEF SshPort, Loaded, Alone, PanelAlone, MovedWithCare
<1>4. TypeOK'
  <2>1. now' \in 0 .. MaxTime
    BY <1>0, <1>1, HostTypes
  <2>2. QED
    BY <1>0, <1>1, <1>2, <2>1 DEF TypeOK
<1>5. StepsInv'
  BY <1>0, <1>1, <1>2 DEF StepsInv, Active
<1>6. OpenInv'
  BY <1>0, <1>1, <1>2, <1>3 DEF OpenInv, Ports, MovedWithCare, Active
<1>7. AllowInv' /\ MoveInv'
  BY <1>0, <1>1, <1>2, <1>3 DEF AllowInv, AllAllow, MoveInv
<1>8. FileInv'
  BY <1>0, <1>1, <1>3 DEF FileInv, NeedsWrite, Active, Acknowledged
<1>9. \A b, c \in Bans : Same(b, c) => (\A a \in Addresses : b[a] > now' \/ c[a] > now' => b[a] = c[a])
  BY <1>0, <1>1, HostTypes DEF Same, Bans, Deadline
<1>10. KernelInv'
  <2>1. kernel.bans \in Bans /\ bans \in Bans /\ \A p \in Procs : ops[p] \in Op
    BY <1>0 DEF TypeOK, Table
  <2>2. \A p \in Procs : RolledBack(ops[p]) \in Bans /\ ops[p].built.bans \in Bans
    BY <2>1, OpTypes DEF RolledBack
  <2>3. Same(kernel.bans, bans) => Same(kernel.bans, bans)'
    BY <1>1, <1>9, <2>1 DEF Same
  <2>4. \A p \in Procs : /\ Same(kernel.bans, RolledBack(ops[p])) => Same(kernel.bans, RolledBack(ops[p]))'
                         /\ Same(ops[p].built.bans, bans) => Same(ops[p].built.bans, bans)'
    <3>1. TAKE p \in Procs
    <3>2. Same(kernel.bans, RolledBack(ops[p])) => Same(kernel.bans, RolledBack(ops[p]))'
      BY <1>1, <1>9, <2>1, <2>2 DEF Same, RolledBack
    <3>3. Same(ops[p].built.bans, bans) => Same(ops[p].built.bans, bans)'
      BY <1>1, <1>9, <2>1, <2>2 DEF Same
    <3>4. QED
      BY <3>2, <3>3
  <2>5. QED
    BY <1>0, <1>1, <1>3, <2>3, <2>4 DEF KernelInv, Active
<1>11. QED
  BY <1>4, <1>5, <1>6, <1>7, <1>8, <1>10 DEF Inv

-----------------------------------------------------------------------------
(* The theorems.                                                           *)

LEMMA InvInit == Init => Inv
<1> SUFFICES ASSUME Init
             PROVE  Inv
  OBVIOUS
<1>1. SshPort = SshPort0 /\ SshPort0 \in AllPorts /\ PortOf({}) = SshPort0
  BY FirewallAssumption DEF Init, SshPort, AllPorts, PortOf
<1>2. /\ Default(SshPort0) \in RuleLists /\ Default(SshPort0) # <<>> /\ Opens(Default(SshPort0), SshPort0)
      /\ AllowOnly(Default(SshPort0)) /\ ToSet(Default(SshPort0)) \subseteq Rules
  BY <1>1, DefaultOpens, FirewallAssumption DEF AllPorts
<1> DEFINE default == Default(SshPort0)
<1>3. /\ <<>> \in RuleLists /\ AllowOnly(<<>>)
  BY DEF RuleLists, IsInjective, AllowOnly, ToSet
<1>4. file \in [rules : {<<>>, default}, complete : BOOLEAN] /\ Loaded = default
  BY <1>1 DEF Init, Loaded
<1>5. /\ Idle \in Op /\ Idle.step = "idle" /\ Idle.rules = <<>> /\ NoBans \in Bans
      /\ NoTable \in Table /\ ~NoTable.loaded /\ NoTable.rules = <<>>
      /\ NoMove.step = "idle" /\ NoMove.old = {}
  <2>1. NoBans \in Bans
    BY FirewallAssumption DEF Bans, NoBans, Deadline
  <2>2. QED
    BY <2>1, OpTypes DEF NoMove, NoTable, Table
<1>6. /\ host \in Hosts /\ bans = NoBans /\ kernel = NoTable /\ ops = [p \in Procs |-> Idle]
      /\ refreshes = 0 /\ page = {} /\ up = FALSE /\ policy = {} /\ listening = SshPort0 /\ move = NoMove
      /\ now = 0 /\ failures = 0 /\ crashes = 0 /\ moves = 0 /\ open = ToSet(default) /\ blind = FALSE /\ clean = FALSE
  BY <1>4 DEF Init
<1> HIDE DEF default
<1>7. default \in RuleLists /\ default # <<>> /\ Opens(default, SshPort0) /\ AllowOnly(default) /\ ToSet(default) \subseteq Rules
  BY <1>2 DEF default
<1>8. TypeOK
  <2>1. host.failures \in Nat /\ host.crashes \in Nat /\ host.moves \in Nat
    BY <1>6, FirewallAssumption DEF Host
  <2>2. Cardinality(Handlers) \in Nat /\ MaxTime \in Nat
    BY FirewallAssumption, FS_CardinalityType
  <2>3. Cardinality({}) = 0
    BY FS_EmptySet
  <2>4. file \in [rules : RuleLists, complete : BOOLEAN]
    BY <1>3, <1>4, <1>7
  <2>5. ops \in [Procs -> Op]
    BY <1>5, <1>6
  <2>6. move \in [step : {"idle", "test", "reload", "undo"}, old : SUBSET {r.port : r \in Rules}] /\ Cardinality(move.old) <= 1
    BY <1>6, <2>3 DEF NoMove
  <2>7. bans \in Bans /\ kernel \in Table /\ page \subseteq RuleLists /\ open \subseteq Rules
    BY <1>5, <1>6, <1>7
  <2>8. /\ policy \subseteq {r.port : r \in Rules} /\ Cardinality(policy) <= 1 /\ Cardinality(page) <= 1
        /\ listening \in {r.port : r \in Rules}
    BY <1>1, <1>6, <2>3 DEF AllPorts
  <2>9. /\ refreshes \in 0 .. Cardinality(Handlers) /\ now \in 0 .. MaxTime
        /\ failures \in 0 .. host.failures /\ crashes \in 0 .. host.crashes /\ moves \in 0 .. host.moves
    BY <1>6, <2>1, <2>2
  <2>10. host \in Hosts /\ up \in BOOLEAN /\ blind \in BOOLEAN /\ clean \in BOOLEAN
    BY <1>6
  <2>11. QED
    BY <2>4, <2>5, <2>6, <2>7, <2>8, <2>9, <2>10 DEF TypeOK
<1>9. \A p \in Procs : ops[p] = Idle
  BY <1>6
<1>10. Handlers \subseteq Procs /\ "boot" \in Procs /\ "cli" \in Procs
  BY DEF Procs
<1>11. StepsInv
  BY <1>5, <1>6, <1>9, <1>10 DEF StepsInv, Active
<1>12. OpenInv
  <2>1. Ports = {SshPort0}
    BY <1>1, <1>5, <1>6 DEF Ports
  <2>2. QED
    BY <1>4, <1>5, <1>6, <1>7, <1>9, <2>1 DEF OpenInv, Active
<1>13. AllowInv
  BY <1>3, <1>4, <1>5, <1>6, <1>7, <1>9 DEF AllowInv
<1>14. MoveInv
  BY <1>1, <1>5, <1>6 DEF MoveInv
<1>15. FileInv /\ KernelInv
  BY <1>4, <1>5, <1>6, <1>9, <1>10 DEF FileInv, KernelInv, Active
<1>16. QED
  BY <1>8, <1>11, <1>12, <1>13, <1>14, <1>15 DEF Inv

LEMMA InvNext == Inv /\ [Next]_vars => Inv'
<1> SUFFICES ASSUME Inv, [Next]_vars
             PROVE  Inv'
  OBVIOUS
<1>0. TypeOK
  BY DEF Inv
<1>1. ASSUME NEW p, NEW op, Begins(p, op)
      PROVE  Inv'
  BY <1>1, BeginKeepsRules, BeginKeepsSteps, BeginKeepsFiles DEF Inv
<1>2. ASSUME NEW h \in Handlers,
             \/ Enable(h)
             \/ \E r \in host.rules : AddRule(h, r) \/ DeleteRule(h, r)
             \/ \E kind \in {"block", "unblock"}, a \in host.addresses, m \in Minutes : BeginBan(h, kind, a, m)
             \/ Refresh(h) /\ kernel.loaded
      PROVE  Inv'
  BY <1>0, <1>1, <1>2, RequestBegins
<1>3. ASSUME NEW h \in Handlers, Refresh(h), ~kernel.loaded
      PROVE  Inv'
  BY <1>3, NoRefreshKeeps
<1>4. ASSUME NEW h \in Handlers, ChangeBans(h)
      PROVE  Inv'
  BY <1>4, ChangeBansKeeps
<1>5. ASSUME NEW p \in Procs, Build(p) \/ Commit(p) \/ Write(p) \/ Fail(p)
      PROVE  Inv'
  BY <1>5, BuildKeeps, CommitKeeps, WriteKeeps, FailKeeps
<1>6. ASSUME NEW a \in host.addresses, NEW m \in Minutes, AutoBlock(a, m)
      PROVE  Inv'
  BY <1>6, AutoBlockKeeps
<1>7. CASE ReadPage \/ WritePage
  BY <1>7, ReadPageKeeps, WritePageKeeps
<1>8. ASSUME (\E r \in host.rules : CliOpen(r)) \/ CliList \/ CliRead \/ CliPrune
      PROVE  Inv'
  BY <1>0, <1>1, <1>8, CommandBegins, ListBegins, CliReadKeeps, CliPruneKeeps
<1>9. CASE Boot
  BY <1>0, <1>1, <1>9, BootBegins, SkipKeeps
<1>10. ASSUME NEW reboot \in BOOLEAN, Crash(reboot)
       PROVE  Inv'
  BY <1>10, CrashKeeps
<1>11. ASSUME NEW r \in host.rules, MoveSsh(r.port)
       PROVE  Inv'
  BY <1>11, MoveSshKeeps
<1>12. CASE ReloadSsh
  BY <1>12, ReloadSshKeeps
<1>13. CASE Tick
  BY <1>13, TickKeeps
<1>14. CASE UNCHANGED vars
  <2>1. UNCHANGED <<file, bans, kernel, ops, refreshes, page, up, host, policy, listening, move, now, failures, crashes, moves, blind, open, clean>>
    BY <1>14 DEF vars, env, ssh
  <2>2. SshPort' = SshPort /\ Loaded' = Loaded /\ Alone' = Alone
    BY <2>1 DEF SshPort, Loaded, Alone, PanelAlone, MovedWithCare
  <2>3. TypeOK' /\ StepsInv' /\ AllowInv' /\ MoveInv'
    BY <2>1, <2>2 DEF Inv, TypeOK, StepsInv, AllowInv, MoveInv, AllAllow, Active
  <2>4. OpenInv'
    BY <2>1, <2>2 DEF Inv, OpenInv, Ports, MovedWithCare, Active
  <2>5. FileInv' /\ KernelInv'
    BY <2>1, <2>2 DEF Inv, FileInv, KernelInv, NeedsWrite, Active, Acknowledged, Same, RolledBack
  <2>6. QED
    BY <2>3, <2>4, <2>5 DEF Inv
<1>15. QED
  <2>1. CASE \E h \in Handlers :
               \/ Enable(h)
               \/ \E r \in host.rules : AddRule(h, r) \/ DeleteRule(h, r)
               \/ \E kind \in {"block", "unblock"}, a \in host.addresses, m \in Minutes : BeginBan(h, kind, a, m)
               \/ ChangeBans(h)
               \/ Refresh(h)
    BY <1>2, <1>3, <1>4, <2>1
  <2>2. CASE \E p \in Procs : Build(p) \/ Commit(p) \/ Write(p) \/ Fail(p)
    BY <1>5, <2>2
  <2>3. QED
    BY <1>6, <1>7, <1>8, <1>9, <1>10, <1>11, <1>12, <1>13, <1>14, <2>1, <2>2 DEF Next

\* The inductive invariant holds of every behaviour.
THEOREM Invariant == Spec => []Inv
<1>1. Init => Inv
  BY InvInit
<1>2. Inv /\ [Next]_vars => Inv'
  BY InvNext
<1>3. QED
  BY <1>1, <1>2, PTL DEF Spec

\* The table lets ssh in on the port where sshd listens, and so does the file
\* that the next start loads: no sequence of rules opened and deleted, of failures,
\* stops and commands locks the operator out, if each move of sshd went to a port
\* that was open while the firewall was at rest.
THEOREM SshKept == Spec => []SshAdmitted
<1>1. Inv => SshAdmitted
  <2> SUFFICES ASSUME Inv, MovedWithCare, listening = SshPort, AllAllow
               PROVE  /\ kernel.loaded => SshOpen(kernel.rules, listening)
                      /\ SshOpen(Loaded, listening)
    BY DEF SshAdmitted, AllAllow, Admits
  <2>0. TypeOK /\ OpenInv /\ AllowInv
    BY DEF Inv
  <2>1. kernel.rules \in Seq(Rules) /\ Loaded \in Seq(Rules)
    BY <2>0, LoadedTypes DEF TypeOK, Table, RuleLists
  <2>2. kernel.loaded => Opens(kernel.rules, SshPort)
    BY <2>0 DEF OpenInv, Ports
  <2>3. Opens(Loaded, SshPort)
    BY <2>0, LoadedOpens
  <2>4. AllowOnly(kernel.rules) /\ AllowOnly(Loaded)
    BY <2>0, LoadedAllows DEF AllowInv
  <2>5. QED
    BY <2>1, <2>2, <2>3, <2>4, SshOpenIsOpens
<1>2. QED
  BY <1>1, Invariant, PTL

\* The kernel enforces the files when nothing is under way, the files hold the
\* rules that were acknowledged, and a refused move of sshd is taken back.
THEOREM FirewallConsistent == Spec => []Consistent
<1>1. Inv => TypeOK /\ RulesAsAcknowledged /\ MoveTakenBack
  BY DEF Inv, FileInv, MoveInv, Alone, RulesAsAcknowledged, MoveTakenBack
<1>2. Inv => Enforced
  <2> SUFFICES ASSUME Inv, Alone, up, clean, refreshes = 0, \A p \in Procs : ops[p].step = "idle"
               PROVE  /\ kernel.loaded /\ kernel.rules = Loaded
                      /\ Elements(kernel.bans) = Elements(bans)
    BY DEF Enforced, Alone
  <2>1. kernel.loaded /\ kernel.rules = Loaded /\ Same(kernel.bans, bans)
    BY DEF Inv, KernelInv, Active
  <2>2. \A a \in Addresses : /\ kernel.bans[a] > now <=> bans[a] > now
                             /\ bans[a] > now => kernel.bans[a] = bans[a]
    BY <2>1 DEF Same
  <2>3. Elements(kernel.bans) = Elements(bans)
    BY <2>2 DEF Elements, Live
  <2>4. QED
    BY <2>1, <2>3
<1>3. Inv => Consistent
  BY <1>1, <1>2 DEF Consistent
<1>4. QED
  BY <1>3, Invariant, PTL

\* A ban that has not ended is shortened by nothing but a request about its
\* address, the rollback of a failed request, and a command that had read the file
\* before the ban was entered or made longer.
THEOREM BansHold == Spec => BansKept
<1> DEFINE Kept == \A a \in Live(bans) :
                     bans'[a] < bans[a] =>
                       \/ \E h \in Handlers : ops[h].kind \in {"block", "unblock"} /\ a \in ops[h].addr
                       \/ failures' > failures
                       \/ ops["cli"].step = "prune" /\ ops'["cli"].step # "prune" /\ ops["cli"].prev[a] < bans[a]
<1>1. Inv /\ [Next]_vars => [Kept]_vars
  <2> SUFFICES ASSUME Inv, Next, NEW a \in Live(bans), bans'[a] < bans[a]
               PROVE  \/ \E h \in Handlers : ops[h].kind \in {"block", "unblock"} /\ a \in ops[h].addr
                      \/ failures' > failures
                      \/ ops["cli"].step = "prune" /\ ops'["cli"].step # "prune" /\ ops["cli"].prev[a] < bans[a]
    OBVIOUS
  <2>0. TypeOK /\ a \in Addresses
    BY DEF Inv, Live
  <2>1. \A b \in Addresses : bans[b] \in Nat
    BY <2>0, HostTypes DEF TypeOK, Bans, Deadline
  <2>2. bans \in [Addresses -> Deadline] /\ Deadline \subseteq Nat
    BY <2>0, HostTypes DEF TypeOK, Bans, Deadline
  <2>3. ASSUME UNCHANGED bans
        PROVE  FALSE
    BY <2>0, <2>1, <2>3
  <2>4. ASSUME NEW b \in Addresses, NEW until \in Deadline, UpsertSecurityBlock(b, until)
        PROVE  FALSE
    <3>1. bans'[a] = IF a = b THEN Later(bans[a], until) ELSE bans[a]
      BY <2>0, <2>2, <2>4 DEF UpsertSecurityBlock
    <3>2. bans'[a] >= bans[a] /\ bans'[a] \in Nat
      BY <2>1, <2>2, <3>1, <2>0 DEF Later
    <3>3. QED
      BY <2>0, <2>1, <3>2
  <2>5. ASSUME NEW h \in Handlers, ChangeBans(h)
        PROVE  \E g \in Handlers : ops[g].kind \in {"block", "unblock"} /\ a \in ops[g].addr
    <3>1. ops[h] \in Op
      BY <2>0 DEF TypeOK, Procs
    <3>2. PICK b \in ops[h].addr :
            \/ UpsertSecurityBlock(b, ops[h].until)
            \/ ops[h].kind = "unblock" /\ bans' = [bans EXCEPT ![b] = 0]
            \/ UNCHANGED bans
      BY <2>5 DEF ChangeBans
    <3>3. b \in Addresses /\ ops[h].until \in Deadline
      BY <3>1, OpTypes
    <3>4. ops[h].kind = "unblock" /\ bans' = [bans EXCEPT ![b] = 0]
      BY <2>3, <2>4, <3>2, <3>3
    <3>5. a = b
      BY <2>0, <2>1, <2>2, <3>3, <3>4
    <3>6. QED
      BY <3>2, <3>4, <3>5
  <2>6. ASSUME NEW p \in Procs, Fail(p)
        PROVE  failures' > failures
    BY <2>0, <2>6, HostTypes DEF Fail
  <2>7. ASSUME NEW b \in host.addresses, NEW m \in Minutes, AutoBlock(b, m)
        PROVE  FALSE
    BY <2>0, <2>4, <2>7, HostTypes DEF AutoBlock
  <2>10. ASSUME CliPrune
         PROVE  ops["cli"].step = "prune" /\ ops'["cli"].step # "prune" /\ ops["cli"].prev[a] < bans[a]
    <3>1. "cli" \in Procs /\ ops["cli"] \in Op
      BY <2>0 DEF TypeOK, Procs
    <3>2. ops["cli"].prev \in [Addresses -> Deadline]
      BY <3>1, OpTypes DEF Bans
    <3>3. ops["cli"].step = "prune" /\ bans' = Elements(ops["cli"].prev)
      BY <2>10 DEF CliPrune
    <3>4. ops'["cli"].step # "prune"
      <4> DEFINE batch == [replaces |-> kernel.loaded, bans |-> Elements(ops["cli"].prev)]
                 next == [ops["cli"] EXCEPT !.step = "commit", !.built = batch]
      <4>1. ops'["cli"] = Idle \/ ops'["cli"] = next
        BY <2>0, <2>10, <3>1 DEF CliPrune, Done, TypeOK
      <4> HIDE DEF batch
      <4>2. next.step = "commit"
        BY <3>1 DEF Op
      <4> HIDE DEF next
      <4>3. QED
        BY <4>1, <4>2, OpTypes
    <3>5. bans[a] > now /\ now \in Nat /\ ops["cli"].prev[a] \in Nat
      BY <2>0, <2>2, <3>2, HostTypes DEF Live
    <3>6. ops["cli"].prev[a] > now => bans'[a] = ops["cli"].prev[a]
      BY <2>0, <3>3 DEF Elements, Live
    <3>7. ops["cli"].prev[a] < bans[a]
      BY <2>0, <2>1, <3>5, <3>6
    <3>8. QED
      BY <3>3, <3>4, <3>7
  <2>8. \/ UNCHANGED bans
        \/ CliPrune
        \/ \E h \in Handlers : ChangeBans(h)
        \/ \E p \in Procs : Fail(p)
        \/ \E b \in host.addresses, m \in Minutes : AutoBlock(b, m)
    BY DEF Next, Enable, AddRule, DeleteRule, BeginBan, Refresh, Build, Commit, Write, ReadPage, WritePage,
           CliOpen, CliList, CliRead, Boot, Crash, MoveSsh, ReloadSsh, Tick
  <2>9. QED
    BY <2>3, <2>5, <2>6, <2>7, <2>8, <2>10
<1>2. QED
  BY <1>1, Invariant, PTL DEF Spec, BansKept

=============================================================================
