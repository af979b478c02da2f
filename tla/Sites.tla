-------------------------------- MODULE Sites --------------------------------
(***************************************************************************)
(* The sites of nginx: their files in the vhost directory, what nginx has  *)
(* loaded of them, and the lines of /etc/hosts that the panel writes.      *)
(*                                                                         *)
(* handleSiteAction holds no lock: it checks, changes a file, asks nginx   *)
(* for a test, tells it to reload, and takes the change back when one of   *)
(* them fails.  handleWordPress checks in the request, and its job makes   *)
(* the root directory and the database of a site long before it writes its *)
(* file in the same way.  A request that its check refuses changes nothing *)
(* and is left out; so are writes that fail and the backups, which nothing *)
(* reads.                                                                  *)
(***************************************************************************)
EXTENDS Naturals, FiniteSets

CONSTANTS
  Requests,     \* the handlers that work at a time
  Names,        \* domains, which name the files
  Extends,      \* pairs of domains of which the first begins with the second
  None,         \* no file
  Servers       \* the servers that are checked, see Server

\* What may happen at a server: the handlers that work at a time, whether they
\* work on different domains, whether a reload may fail, and the bound on requests.
Server == [handlers : SUBSET Requests, apart : BOOLEAN, reloadFails : BOOLEAN, requests : Nat]

ASSUME SitesAssumption ==
  /\ IsFiniteSet(Requests) /\ Names # {} /\ Extends \subseteq Names \X Names /\ Servers \subseteq Server
  /\ None \notin [valid : BOOLEAN, managed : BOOLEAN]

VARIABLES
  files,     \* the content of <domain>.conf and of <domain>.conf.disabled
  served,    \* the content of each enabled file that nginx has loaded
  hosts,     \* the domains that have a line in /etc/hosts
  roots,     \* the domains that have a root directory
  databases, \* the domains that have a database of WordPress
  requests,  \* what each handler is doing
  server,    \* one of Servers
  count

env == <<server, count>>
wordpress == <<roots, databases>>
siteVars == <<files, served, hosts, wordpress, requests, env>>

\* What matters of a file: whether nginx accepts it, and the mark of the panel.
Contents == [valid : BOOLEAN, managed : BOOLEAN]
Paths == Names \X {"conf", "disabled"}
Enabled(fs) == [n \in Names |-> fs[<<n, "conf">>]]

\* nginx -t
Passes(fs) == \A n \in Names : fs[<<n, "conf">>] = None \/ fs[<<n, "conf">>].valid

\* buildSiteConfig: nginx may refuse a site all the same, for its upstream or its certificate.
BuildSiteConfig == {c \in Contents : c.managed}

-----------------------------------------------------------------------------
(* handleSiteAction *)

Actions == {"create", "edit", "disable", "enable", "delete", "wordpress"}
Steps == {"idle", "download", "install", "database", "setup", "change", "test", "undo", "reload", "hosts",
          "override", "done", "failed"}
Resting == {"idle", "done", "failed"}

\* from and to are the same but for renames; old is what is put back.  No code
\* reads before, the files when the request was checked.
Request == [step : Steps, action : Actions, from : Paths, to : Paths, content : Contents \cup {None},
            old : Contents \cup {None}, hosts : SUBSET Names, before : [Paths -> Contents \cup {None}]]

Proceed(r, step) == requests' = [requests EXCEPT ![r].step = step]

\* In a server whose handlers work apart, nobody else works on the domain.
MayStart(r, name) ==
  /\ requests[r].step \in Resting
  /\ server.apart => \A q \in Requests \ {r} : requests[q].step \in Resting \/ requests[q].to[1] # name

Checked(r, action, from, to, content) ==
  /\ MayStart(r, to[1])
  /\ count < server.requests /\ count' = count + 1
  /\ requests' = [requests EXCEPT ![r] =
       [step |-> IF action = "wordpress" THEN "download" ELSE "change", action |-> action,
        from |-> from, to |-> to, content |-> content,
        old |-> files[to], hosts |-> {}, before |-> files]]
  /\ UNCHANGED <<files, served, hosts, databases, server>>

\* A site that is no proxy gets its root directory before its file is found to exist, or its TLS
\* files to be no files that can be used.
Create(r, name, content, proxy) ==
  /\ content \in BuildSiteConfig
  /\ roots' = IF proxy THEN roots ELSE roots \cup {name}
  /\ \/ /\ files[<<name, "conf">>] = None
        /\ Checked(r, "create", <<name, "conf">>, <<name, "conf">>, content)
     \/ /\ ~proxy /\ MayStart(r, name)
        /\ UNCHANGED <<files, served, hosts, databases, requests, env>>

Edit(r, path, content) ==
  /\ files[path] # None
  /\ Checked(r, "edit", path, path, content)
  /\ UNCHANGED roots

Disable(r, name) ==
  /\ files[<<name, "conf">>] # None /\ files[<<name, "disabled">>] = None
  /\ Checked(r, "disable", <<name, "conf">>, <<name, "disabled">>, None)
  /\ UNCHANGED roots

Enable(r, name) ==
  /\ files[<<name, "disabled">>] # None /\ files[<<name, "conf">>] = None
  /\ Checked(r, "enable", <<name, "disabled">>, <<name, "conf">>, None)
  /\ UNCHANGED roots

Delete(r, path) ==
  /\ files[path] # None /\ files[path].managed
  /\ Checked(r, "delete", path, path, None)
  /\ UNCHANGED roots

Renamed(from, to) == [files EXCEPT ![to] = files[from], ![from] = None]

\* The file is written, moved, or moved to its backup.
Change(r) ==
  LET q == requests[r] IN
  /\ q.step = "change"
  /\ IF q.action \in {"disable", "enable", "delete"} /\ files[q.from] = None
     THEN Proceed(r, "failed") /\ UNCHANGED files
     ELSE /\ files' = CASE q.action \in {"create", "edit", "wordpress"} -> [files EXCEPT ![q.to] = q.content]
                        [] q.action \in {"disable", "enable"} -> Renamed(q.from, q.to)
                        [] q.action = "delete" -> [files EXCEPT ![q.to] = None]
          /\ requests' = [requests EXCEPT ![r].step = "test",
                            ![r].old = IF q.action = "delete" THEN files[q.to] ELSE @]
  /\ UNCHANGED <<served, hosts, wordpress, env>>

Test(r) ==
  /\ requests[r].step = "test"
  /\ Proceed(r, IF Passes(files) THEN "reload" ELSE "undo")
  /\ UNCHANGED <<files, served, hosts, wordpress, env>>

\* Mutant: the changed file stays.
Undone_Kept(r) == files

Undone(r) ==
  LET q == requests[r] IN
  IF q.action \in {"disable", "enable"}
  THEN IF files[q.to] = None THEN files ELSE Renamed(q.to, q.from)
  ELSE [files EXCEPT ![q.to] = q.old]

Undo(r) ==
  /\ requests[r].step = "undo"
  /\ files' = Undone(r)
  /\ Proceed(r, "failed")
  /\ UNCHANGED <<served, hosts, wordpress, env>>

\* Mutant: a reload that fails ends an edit with an error only.
AfterReloadFails_Failed(action) == IF action = "delete" THEN "done" ELSE "failed"

\* A new site stays when the reload fails, and a deleted one stays away.
AfterReloadFails(action) ==
  CASE action \in {"create", "wordpress"} -> "failed" [] action = "delete" -> "done" [] OTHER -> "undo"

\* nginx tests its files again when it is told to reload, and keeps what it
\* has when they fail; the handler is not told.
Reload(r) ==
  LET action == requests[r].action IN
  /\ requests[r].step = "reload"
  /\ \/ /\ served' = IF Passes(files) THEN Enabled(files) ELSE served
        /\ \/ Proceed(r, "done")
           \/ action = "create" /\ Proceed(r, "hosts")
     \/ /\ server.reloadFails /\ UNCHANGED served
        /\ Proceed(r, AfterReloadFails(action))
  /\ UNCHANGED <<files, hosts, wordpress, env>>

\* Mutant: the lines of other domains are dropped.
OtherLines_None(lines, name) == {}

\* The lines that do not hold the marker of a domain.
OtherLines(lines, name) == {n \in lines : n # name /\ <<n, name>> \notin Extends}

\* updateHostsOverride reads /etc/hosts, unless the address is none, and writes it.
ReadHosts(r) ==
  /\ requests[r].step = "hosts"
  /\ \/ requests' = [requests EXCEPT ![r].step = "override", ![r].hosts = hosts]
     \/ Proceed(r, "failed")
  /\ UNCHANGED <<files, served, hosts, wordpress, env>>

WriteHosts(r) ==
  LET name == requests[r].to[1] IN
  /\ requests[r].step = "override"
  /\ hosts' = OtherLines(requests[r].hosts, name) \cup {name}
  /\ Proceed(r, "done")
  /\ UNCHANGED <<files, served, wordpress, env>>

-----------------------------------------------------------------------------
(* handleWordPress *)

\* A root that exists is not refused: for fileExists a directory is none.
WordPress(r, name, content) ==
  /\ content \in BuildSiteConfig
  /\ files[<<name, "conf">>] = None
  /\ Checked(r, "wordpress", <<name, "conf">>, <<name, "conf">>, content)
  /\ UNCHANGED roots

\* The commands of the job: those that download, the one that moves the files to
\* the root, which fails when there is one, the one that creates the database and
\* its user, and those that set the site up.  The file follows, as for a new site.
\* A command that fails ends the job, and what it has made stays.
Command(r, name, at, then) ==
  /\ requests[r].action = "wordpress" /\ requests[r].to[1] = name /\ requests[r].step = at
  /\ requests' \in {[requests EXCEPT ![r].step = step] : step \in {then, "failed"}}
  /\ UNCHANGED <<files, served, hosts, env>>

WordPressJob(r, name) ==
  \/ Command(r, name, "download", "install") /\ UNCHANGED wordpress
  \/ /\ Command(r, name, "install", "database")
     /\ requests'[r].step = "database" => name \notin roots /\ roots' = roots \cup {name}
     /\ requests'[r].step = "failed" => UNCHANGED roots
     /\ UNCHANGED databases
  \/ /\ Command(r, name, "database", "setup")
     /\ requests'[r].step = "setup" => name \notin databases /\ databases' = databases \cup {name}
     /\ requests'[r].step = "failed" => databases' \in {databases, databases \cup {name}}
     /\ UNCHANGED roots
  \/ Command(r, name, "setup", "change") /\ UNCHANGED wordpress

-----------------------------------------------------------------------------

\* Some of the sites are there, enabled and served; not all are of the panel.
SiteInit ==
  /\ \E there \in [Names -> {c \in Contents : c.valid} \cup {None}] :
       /\ files = [p \in Paths |-> IF p[2] = "conf" THEN there[p[1]] ELSE None]
       /\ served = there
  /\ hosts = {} /\ roots = {} /\ databases = {}
  /\ requests = [r \in Requests |->
       LET path == CHOOSE p \in Paths : TRUE IN
       [step |-> "idle", action |-> "edit", from |-> path, to |-> path, content |-> None,
        old |-> None, hosts |-> {}, before |-> [p \in Paths |-> None]]]
  /\ server \in Servers /\ count = 0

SiteNext ==
  \E r \in server.handlers :
    \/ \E n \in Names, c \in Contents : (\E proxy \in BOOLEAN : Create(r, n, c, proxy)) \/ WordPress(r, n, c)
    \/ \E p \in Paths, c \in Contents : Edit(r, p, c)
    \/ \E n \in Names : Disable(r, n) \/ Enable(r, n)
    \/ \E p \in Paths : Delete(r, p)
    \/ \E n \in Names : WordPressJob(r, n)
    \/ Change(r) \/ Test(r) \/ Undo(r) \/ Reload(r) \/ ReadHosts(r) \/ WriteHosts(r)

SiteSpec == SiteInit /\ [][SiteNext]_siteVars

-----------------------------------------------------------------------------
(* Properties *)

SiteTypeOK ==
  /\ files \in [Paths -> Contents \cup {None}]
  /\ served \in [Names -> Contents \cup {None}]
  /\ {hosts, roots, databases} \subseteq SUBSET Names
  /\ DOMAIN requests = Requests /\ \A r \in Requests : requests[r] \in Request
  /\ server \in Servers /\ count \in 0 .. server.requests

AtRest == \A r \in Requests : requests[r].step \in Resting

\* One request at a time, or two for different domains.  Handlers hold no lock:
\* of two for one domain, one may take the refused content of the other for the
\* old file and put it back.
Undisturbed == server.apart \/ Cardinality(server.handlers) = 1
Alone == Cardinality(server.handlers) = 1

\* The files pass the test of nginx while no request is under way, so that nginx
\* can be restarted: what is changed is tested, or taken back, also when the
\* file of another domain made the test fail.
ValidAtRest == Undisturbed /\ AtRest => Passes(files)

\* Where requests come one at a time and no reload fails, nginx serves what the
\* files say while no request is under way.
ServedAtRest == Alone /\ ~server.reloadFails /\ AtRest => served = Enabled(files)

\* A request or an installation that fails leaves the files of its domain as they
\* were, but for a new site that passed the test, whatever happens to others.
FailureRestores ==
  [][\A r \in Requests :
       Undisturbed /\ requests[r].step \notin Resting /\ requests'[r].step = "failed" =>
         \/ \A p \in Paths : p[1] = requests[r].to[1] => files'[p] = requests[r].before[p]
         \/ requests[r].action \in {"create", "wordpress"} /\ files'[requests[r].to].valid]_siteVars

\* The line of a domain in /etc/hosts is lost to no other domain, but for one
\* that its own name begins with.  Two handlers at a time read the file before
\* the other has written it.
OverridesKept ==
  [][Alone => \A n \in hosts \ hosts' : \E m \in hosts' : <<n, m>> \in Extends]_siteVars

\* At rest nginx accepts the files of the sites, and serves them (handleSiteAction,
\* handleWordPress).
Consistent ==
  /\ SiteTypeOK
  /\ ValidAtRest
  /\ ServedAtRest

=============================================================================
