------------------------------ MODULE Accounts ------------------------------
(***************************************************************************)
(* The account directory of the panel: the in-memory configuration a.cfg   *)
(* guarded by a.mu, its copy in config.json, the logins and administrator  *)
(* requests in flight, the session cookies handed out, and the             *)
(* reset-password command, a second process that edits config.json.        *)
(*                                                                         *)
(* A handler takes a.mu several times: what it read under one lock it uses *)
(* under a later one.  Each critical section is one action here, and what  *)
(* the handler carries between them is in `auths' and `changes'.           *)
(*                                                                         *)
(* A hash is the password it accepts and whether it has an older format    *)
(* (verifyPassword asks for a rehash); tokens and keys are numbers drawn   *)
(* from `fresh', as the code draws them from a random source; 0 is the     *)
(* empty token of a record that predates session tokens.                   *)
(***************************************************************************)
EXTENDS Naturals, FiniteSets

CONSTANTS
  Users,       \* the names an account may have
  Owner,       \* the name the panel is set up with (cfg.Admin)
  Roles,       \* "admin" and the others
  Passwords,   \* the passwords people use
  MaxFresh,    \* bound: tokens and keys drawn
  MaxInFlight, \* bound: logins in flight, and requests in flight
  Panels       \* the panels that are checked, see Panel

\* What may happen at a panel: the roles and passwords that are given, the
\* accounts whose installed hash has an older format, and the bounds on the
\* cookies handed out and on runs of the reset-password command.
Panel == [roles : SUBSET Roles, passwords : SUBSET Passwords, legacy : SUBSET Users, cookies : Nat, resets : Nat]

ASSUME AccountsAssumption ==
  /\ Owner \in Users
  /\ "admin" \in Roles
  /\ MaxFresh \in Nat /\ MaxInFlight \in Nat
  /\ Panels \subseteq Panel

VARIABLES
  panel,    \* one of Panels
  mem,      \* a.cfg
  disk,     \* config.json
  cookies,  \* the session cookies clients hold
  auths,    \* logins and settings requests past their password check
  changes,  \* requests past requireRole and requireMaintenance
  cli,      \* the copies of config.json that reset-password runs work on
  fresh,    \* the next token or key
  resets,   \* runs of reset-password so far
  \* What the panel has told its users; no code reads it.
  acked,    \* what the last acknowledged change promised of an account
  unacked,  \* what the changes answered with an error since then asked for
  era,      \* acknowledged changes of an account so far
  reset,    \* the password of the last finished reset-password run
  pending   \* the file is as that run left it, and no restart has read it

told == <<acked, unacked, era, reset, pending>>
env == <<panel, resets>>
vars == <<mem, disk, cookies, auths, changes, cli, fresh, env, told>>

-----------------------------------------------------------------------------
(* Records *)

Hash == [pw : Passwords, legacy : BOOLEAN]
UserRecord == [hash : Hash, role : Roles, token : Nat]

\* The directory maps the names of the existing accounts to their records.
IsDirectory(users) == DOMAIN users \subseteq Users /\ users \in [DOMAIN users -> UserRecord]

IsConfig(cfg) ==
  /\ cfg \in [admin : BOOLEAN, users : {cfg.users}, ownerHash : Hash, key : Nat]
  /\ IsDirectory(cfg.users)

\* era: how many changes of the account were acknowledged before it was made.
Cookie == [user : Users, token : Nat, key : Nat, era : Nat]
Auth == [for : {"login", "settings"}, user : Users, pw : Passwords,
         phase : {"rehash", "verified", "token"}, token : Nat]
Operation == {"create", "delete", "role", "password", "settings"}
NoUser == ""
Change == [op : Operation, cookie : Cookie, target : Users, phase : {"begun", "named"}, caller : Users \cup {NoUser}]

Accounts(cfg) == DOMAIN cfg.users

\* The directory with the record of u replaced or added.
Put(users, u, rec) == [x \in DOMAIN users \cup {u} |-> IF x = u THEN rec ELSE users[x]]

Drop(users, u) == [x \in DOMAIN users \ {u} |-> users[x]]

\* cfg with another directory and another copy of the owner's hash.
WithOwnerHash(cfg, users, h) == [admin |-> cfg.admin, users |-> users, ownerHash |-> h, key |-> cfg.key]

\* What an account promises its user: nothing, or one password and one role.
View(cfg, u) ==
  IF u \in Accounts(cfg) THEN {[pw |-> cfg.users[u].hash.pw, role |-> cfg.users[u].role]} ELSE {}

Promised(p, role) == {[pw |-> p, role |-> role]}

\* hashPassword: always the current format.
HashPassword(p) == [pw |-> p, legacy |-> FALSE]

-----------------------------------------------------------------------------
(* Reading sessions *)

\* userSessionToken: the owner always exists, whatever the directory says.
HasToken(cfg, u) == cfg.admin /\ (u = Owner \/ u \in Accounts(cfg))
UserSessionToken(cfg, u) == IF u \in Accounts(cfg) THEN cfg.users[u].token ELSE 0

\* validSession: the account exists, its token is the cookie's, and the
\* signature was made with the current key.
ValidSession(cfg, c) ==
  /\ HasToken(cfg, c.user)
  /\ UserSessionToken(cfg, c.user) = c.token
  /\ cfg.key = c.key

SessionUser(cfg, c) == IF ValidSession(cfg, c) THEN c.user ELSE NoUser

\* userRole.
IsAdmin(cfg, u) == cfg.admin /\ (u = Owner \/ (u \in Accounts(cfg) /\ cfg.users[u].role = "admin"))

\* authenticateUser's copy of the stored hash; the owner's is also in the
\* configuration's own fields.
HasHash(cfg, u) == cfg.admin /\ (u \in Accounts(cfg) \/ u = Owner)
StoredHash(cfg, u) == IF u \in Accounts(cfg) THEN cfg.users[u].hash ELSE cfg.ownerHash

-----------------------------------------------------------------------------
(* Saving: the caller holds a.mu *)

\* Mutant: the file is written before the change is made.
Written_BeforeChange(cfg, saved) == IF saved THEN mem ELSE disk

\* saveConfigUnlocked: atomicWrite replaces config.json whole, or leaves it and
\* returns an error.
Written(cfg, saved) == IF saved THEN cfg ELSE disk

Save(cfg, saved) ==
  /\ mem' = cfg
  /\ disk' = Written(cfg, saved)
  /\ pending' = (pending /\ ~saved)

\* A save that is not meant to change an account.
SaveSilently(cfg, saved) ==
  /\ Save(cfg, saved)
  /\ UNCHANGED <<acked, unacked, era, reset>>

\* The save of a request that changes the account u to what promise says.  A
\* change that is not saved stays in memory, and the request is answered 500.
SaveChange(cfg, u, promise, saved) ==
  /\ Save(cfg, saved)
  /\ IF saved
       THEN /\ acked' = [acked EXCEPT ![u] = promise]
            /\ unacked' = [unacked EXCEPT ![u] = {}]
            /\ era' = [era EXCEPT ![u] = @ + 1]
       ELSE /\ unacked' = [unacked EXCEPT ![u] = @ \cup {promise}]
            /\ UNCHANGED <<acked, era>>
  /\ UNCHANGED reset

-----------------------------------------------------------------------------
(* Initial states: what loadConfig leaves in memory and on disk *)

\* A new data directory.  Nobody reads the owner's hash before the setup.
NotSetUp == {[admin |-> FALSE, users |-> [u \in {} |-> 0], ownerHash |-> HashPassword(p), key |-> 0] : p \in panel.passwords}

InstalledHash(u, p) == [pw |-> p, legacy |-> u \in panel.legacy]

\* A panel in use.  Records from before session tokens have the empty one, and
\* so has the owner's record that loadConfig adds to a configuration without a
\* directory.
Installed(pws, roles) ==
  [admin |-> TRUE,
   users |-> [u \in DOMAIN roles |-> [hash |-> InstalledHash(u, pws[u]), role |-> roles[u], token |-> 0]],
   ownerHash |-> InstalledHash(Owner, pws[Owner]),
   key |-> 0]

LoadedConfigs ==
  NotSetUp \cup
  {Installed(pws, roles) : pws \in [Users -> panel.passwords],
                           roles \in {f \in UNION {[S -> panel.roles] : S \in SUBSET Users} :
                                        Owner \in DOMAIN f /\ f[Owner] = "admin"}}

Init ==
  /\ panel \in Panels
  /\ mem \in LoadedConfigs
  /\ disk = mem
  /\ cookies = {} /\ auths = {} /\ changes = {} /\ cli = {}
  /\ fresh = 1 /\ resets = 0
  /\ acked = [u \in Users |-> View(mem, u)]
  /\ unacked = [u \in Users |-> {}]
  /\ era = [u \in Users |-> 0]
  /\ reset = {} /\ pending = FALSE

-----------------------------------------------------------------------------
(* Handlers *)

\* Another value of the random source.
Draw(n) == fresh + n <= MaxFresh /\ fresh' = fresh + n

\* handleSetup, up to the unlock; the session it then sets is a login whose
\* password needs no check.
Setup(p, saved) ==
  /\ ~mem.admin
  /\ Draw(2)
  /\ SaveChange([admin |-> TRUE,
                 users |-> Put([u \in {} |-> 0], Owner, [hash |-> HashPassword(p), role |-> "admin", token |-> fresh]),
                 ownerHash |-> HashPassword(p),
                 key |-> fresh + 1], Owner, Promised(p, "admin"), saved)
  /\ auths' = IF saved THEN {[for |-> "login", user |-> Owner, pw |-> p, phase |-> "verified",
                              token |-> 0]}
                       ELSE auths
  /\ UNCHANGED <<cookies, changes, cli, env>>

\* authenticateUser for the right password: the hash is copied under the lock
\* and verified after it.  A wrong password changes nothing here.
Authenticated(purpose, u) ==
  [for |-> purpose, user |-> u, pw |-> StoredHash(mem, u).pw,
   phase |-> IF StoredHash(mem, u).legacy THEN "rehash" ELSE "verified",
   token |-> 0]

Login(u) ==
  /\ HasHash(mem, u)
  /\ Cardinality(auths) < MaxInFlight
  /\ auths' = auths \cup {Authenticated("login", u)}
  /\ UNCHANGED <<mem, disk, cookies, changes, cli, fresh, env, told>>

\* Mutant: the configuration's own copy of the owner's hash is forgotten.
Rehashed_DirectoryOnly(cfg, u, p) ==
  [cfg EXCEPT !.users = IF u \in Accounts(cfg) THEN Put(@, u, [cfg.users[u] EXCEPT !.hash = HashPassword(p)]) ELSE @]

\* The record of the account under the second lock, with the hash computed
\* from the password that was typed.
Rehashed(cfg, u, p) ==
  WithOwnerHash(cfg,
                IF u \in Accounts(cfg) THEN Put(cfg.users, u, [cfg.users[u] EXCEPT !.hash = HashPassword(p)])
                                       ELSE cfg.users,
                IF u = Owner THEN HashPassword(p) ELSE cfg.ownerHash)

\* rehashUserPassword; a failed save is only logged.
RehashUserPassword(q, saved) ==
  /\ q.phase = "rehash"
  /\ SaveSilently(Rehashed(mem, q.user, q.pw), saved)
  /\ auths' = (auths \ {q}) \cup {[q EXCEPT !.phase = "verified"]}
  /\ UNCHANGED <<cookies, changes, cli, fresh, env>>

\* setSession reads the token under one lock,
ReadToken(q) ==
  /\ q.for = "login" /\ q.phase = "verified"
  /\ auths' = (auths \ {q}) \cup {[q EXCEPT !.phase = "token", !.token = UserSessionToken(mem, q.user)]}
  /\ UNCHANGED <<mem, disk, cookies, changes, cli, fresh, env, told>>

\* and the key under another, in sign.
SetSession(q) ==
  /\ q.for = "login" /\ q.phase = "token"
  /\ Cardinality(cookies) < panel.cookies
  /\ cookies' = cookies \cup {[user |-> q.user, token |-> q.token, key |-> mem.key, era |-> era[q.user]]}
  /\ auths' = auths \ {q}
  /\ UNCHANGED <<mem, disk, changes, cli, fresh, env, told>>

\* requireRole and requireMaintenance of handleUsers and handleSettings; the
\* body of the request is read after them.  They read the session and the role
\* under mu several times; the last, requireMaintenance, asks for a valid session
\* again, and a new role comes with a new token, so that all of it holds then.
BeginChange(c, op, t) ==
  /\ ValidSession(mem, c) /\ IsAdmin(mem, c.user)
  /\ op = "settings" => t = Owner
  /\ Cardinality(changes) < MaxInFlight
  /\ changes' = changes \cup {[op |-> op, cookie |-> c, target |-> t, phase |-> "begun", caller |-> NoUser]}
  /\ UNCHANGED <<mem, disk, cookies, auths, cli, fresh, env, told>>

\* handleUsers, create.
CreateUser(q, p, role, saved) ==
  /\ q.op = "create"
  /\ changes' = changes \ {q}
  /\ \/ /\ q.target \in Accounts(mem) \/ q.target = Owner
        /\ UNCHANGED <<mem, disk, fresh, told>>
     \/ /\ q.target \notin Accounts(mem) /\ q.target # Owner
        /\ Draw(1)
        /\ SaveChange([mem EXCEPT !.users = Put(@, q.target, [hash |-> HashPassword(p), role |-> role, token |-> fresh])],
                      q.target, Promised(p, role), saved)
  /\ UNCHANGED <<cookies, auths, cli, env>>

\* handleUsers reads who is asking, a second time, before it takes the lock.
NameCaller(q) ==
  /\ q.op \in {"delete", "role", "password"} /\ q.phase = "begun"
  /\ changes' = (changes \ {q}) \cup {[q EXCEPT !.phase = "named", !.caller = SessionUser(mem, q.cookie)]}
  /\ UNCHANGED <<mem, disk, cookies, auths, cli, fresh, env, told>>

\* Nobody deletes or changes the owner, or himself, through the directory.
MayUpdate(q) == q.target \in Accounts(mem) /\ q.target # Owner /\ q.target # q.caller

\* Mutant: a new role keeps the sessions of the old one.
Updated_RoleKeepsToken(q, p, role, t) ==
  LET user == mem.users[q.target] IN
  CASE q.op = "delete" -> Drop(mem.users, q.target)
    [] q.op = "role" -> Put(mem.users, q.target, [user EXCEPT !.role = role])
    [] q.op = "password" -> Put(mem.users, q.target, [user EXCEPT !.hash = HashPassword(p), !.token = t])

\* The directory after the change; t is a new session token.
Updated(q, p, role, t) ==
  LET user == mem.users[q.target] IN
  CASE q.op = "delete" -> Drop(mem.users, q.target)
    [] q.op = "role" -> Put(mem.users, q.target, [user EXCEPT !.role = role, !.token = t])
    [] q.op = "password" -> Put(mem.users, q.target, [user EXCEPT !.hash = HashPassword(p), !.token = t])

\* What the request asks for.
Promise(q, p, role) ==
  LET user == mem.users[q.target] IN
  CASE q.op = "delete" -> {}
    [] q.op = "role" -> Promised(user.hash.pw, role)
    [] q.op = "password" -> Promised(p, user.role)

\* handleUsers, delete, role and password, under the lock.
UpdateUser(q, p, role, saved) ==
  /\ q.op \in {"delete", "role", "password"} /\ q.phase = "named"
  /\ changes' = changes \ {q}
  /\ \/ ~MayUpdate(q) /\ UNCHANGED <<mem, disk, fresh, told>>
     \/ /\ MayUpdate(q)
        /\ Draw(IF q.op = "delete" THEN 0 ELSE 1)
        /\ SaveChange([mem EXCEPT !.users = Updated(q, p, role, fresh)], q.target, Promise(q, p, role), saved)
  /\ UNCHANGED <<cookies, auths, cli, env>>

\* handleSettings checks the current password of whoever is asking.
CheckCurrentPassword(q) ==
  /\ q.op = "settings"
  /\ changes' = changes \ {q}
  /\ \/ SessionUser(mem, q.cookie) = NoUser /\ UNCHANGED auths
     \/ /\ ValidSession(mem, q.cookie) /\ HasHash(mem, q.cookie.user)
        /\ Cardinality(auths) < MaxInFlight
        /\ auths' = auths \cup {Authenticated("settings", q.cookie.user)}
  /\ UNCHANGED <<mem, disk, cookies, cli, fresh, env, told>>

\* Mutant: the directory keeps the old hash.
SetAdminPassword_ConfigOnly(cfg, p) == [cfg EXCEPT !.ownerHash = HashPassword(p)]

\* setAdminPassword keeps the owner's session token; both callers draw a new key.
SetAdminPassword(cfg, p) ==
  LET owner == [hash |-> HashPassword(p), role |-> "admin", token |-> UserSessionToken(cfg, Owner)] IN
  WithOwnerHash(cfg, Put(cfg.users, Owner, owner), HashPassword(p))

NewKey(cfg, k) == [cfg EXCEPT !.key = k]

\* handleSettings under the lock: the owner's password is changed, whoever asks.
ChangeOwnerPassword(q, p, saved) ==
  /\ q.for = "settings" /\ q.phase = "verified"
  /\ Draw(1)
  /\ SaveChange(NewKey(SetAdminPassword(mem, p), fresh), Owner, Promised(p, "admin"), saved)
  /\ auths' = auths \ {q}
  /\ UNCHANGED <<cookies, changes, cli, env>>

\* Any other handler that saves the configuration it holds in memory
\* (Cloudflare, notification, TOTP and remote backup settings).
SaveOtherSettings(saved) ==
  /\ mem.admin
  /\ SaveSilently(mem, saved)
  /\ UNCHANGED <<cookies, auths, changes, cli, fresh, env>>

-----------------------------------------------------------------------------
(* The reset-password command and restarts *)

\* resetPasswordCLI: another process, which takes no lock.  It reads the file,
CliRead ==
  /\ disk.admin  \* without a setup there is no config.json
  /\ resets < panel.resets
  /\ resets' = resets + 1
  /\ cli' = cli \cup {disk}
  /\ UNCHANGED <<panel, mem, disk, cookies, auths, changes, fresh, told>>

\* and replaces it with its own copy once it has the new password.
CliWrite(copy, p) ==
  /\ Draw(1)
  /\ disk' = NewKey(SetAdminPassword(copy, p), fresh)
  /\ cli' = cli \ {copy}
  /\ reset' = {p} /\ pending' = TRUE
  /\ UNCHANGED <<mem, cookies, auths, changes, env, acked, unacked, era>>

\* A stop or a crash, and main: requests in flight are gone, cookies are not.
Restart ==
  /\ mem' = disk
  /\ auths' = {} /\ changes' = {}
  /\ pending' = FALSE
  /\ UNCHANGED <<disk, cookies, cli, fresh, env, acked, unacked, era, reset>>

Next ==
  \/ \E saved \in BOOLEAN :
       \/ SaveOtherSettings(saved)
       \/ \E q \in auths : RehashUserPassword(q, saved)
       \/ \E p \in panel.passwords : Setup(p, saved) \/ \E q \in auths : ChangeOwnerPassword(q, p, saved)
       \/ \E q \in changes, p \in panel.passwords, role \in panel.roles :
            CreateUser(q, p, role, saved) \/ UpdateUser(q, p, role, saved)
  \/ \E u \in Users : Login(u)
  \/ \E q \in auths : ReadToken(q) \/ SetSession(q)
  \/ \E c \in cookies, op \in Operation, t \in Users : BeginChange(c, op, t)
  \/ \E q \in changes : NameCaller(q) \/ CheckCurrentPassword(q)
  \/ CliRead
  \/ \E copy \in cli, p \in panel.passwords : CliWrite(copy, p)
  \/ Restart

Spec == Init /\ [][Next]_vars

-----------------------------------------------------------------------------
(* Properties *)

\* Both copies of the configuration, the cookies and the requests in flight are
\* well formed.
TypeOK ==
  /\ panel \in Panels
  /\ IsConfig(mem) /\ IsConfig(disk)
  /\ cookies \subseteq Cookie
  /\ auths \subseteq Auth
  /\ changes \subseteq Change
  /\ \A copy \in cli : IsConfig(copy)
  /\ fresh \in Nat /\ resets \in Nat
  /\ DOMAIN acked = Users /\ DOMAIN unacked = Users
  /\ era \in [Users -> Nat]
  /\ reset \subseteq Passwords /\ pending \in BOOLEAN

Intact(cfg) ==
  cfg.admin => /\ Owner \in Accounts(cfg)
               /\ cfg.users[Owner].role = "admin"
               /\ cfg.users[Owner].hash = cfg.ownerHash

\* A panel that is set up has its owner in the directory, as an administrator
\* and with the hash the configuration keeps beside it, in memory and on disk:
\* a login and a check of the panel password never disagree, and no sequence of
\* changes, failed saves, rehashes, resets and crashes locks the owner out.
OwnerIntact == Intact(mem) /\ Intact(disk)

\* A session handed out before a change of its account was acknowledged (a new
\* password, a new role, a deletion) is not accepted after it, not even when a
\* failed save or a crash takes the panel back to its file, or when the account
\* is created again.  reset-password must not have been run: it works on a copy
\* of the file without a lock, and takes back what was saved meanwhile.
RevokedStaysRevoked ==
  resets = 0 =>
    \A c \in cookies : c.era < era[c.user] => ~ValidSession(mem, c) /\ ~ValidSession(disk, c)

LastChangeOf(u) == \A cfg \in {mem, disk} : View(cfg, u) \in {acked[u]} \cup unacked[u]

\* In memory and on disk an account has the password and the role of the last
\* acknowledged change, or of a later one that was answered with an error: no
\* step overwrites an acknowledged change by what it read before it, but the
\* rehash of a login that verified the old password, and reset-password.
LastChangeWins ==
  [][\A u \in Users :
       LastChangeOf(u) /\ resets' = 0
         => \/ LastChangeOf(u)'
            \/ \E q \in auths, saved \in BOOLEAN : q.user = u /\ RehashUserPassword(q, saved)]_vars

\* What a configuration says beside its hashes: a rehash that cannot be saved
\* is done again at the next login.
Directory(cfg) ==
  [key |-> cfg.key, accounts |-> {[name |-> u, role |-> cfg.users[u].role, token |-> cfg.users[u].token] : u \in Accounts(cfg)}]

\* Once every change has been acknowledged, a restart revokes no session and
\* brings none back: memory and file have the same accounts, tokens and key.
NothingUnsaved == resets = 0 /\ (\A u \in Users : unacked[u] = {}) => Directory(mem) = Directory(disk)

\* From the end of reset-password until the panel restarts, while nothing else
\* has been saved: the restart will accept the new password, and none of the
\* sessions handed out before or in the meantime.
ResetTakesEffect ==
  pending => /\ disk.users[Owner].hash.pw \in reset
             /\ \A c \in cookies : ~ValidSession(disk, c)

\* A restart does to the accounts what their users have been told: it changes
\* nothing once all is saved, and it makes a reset take effect (loadConfig,
\* saveConfigUnlocked, resetPasswordCLI).
RestartAsTold == NothingUnsaved /\ ResetTakesEffect

=============================================================================
