------------------------- MODULE AccountsAuditProofs ------------------------
(***************************************************************************)
(* Proofs about the accounts of the panel and about its audit log, the two *)
(* records that outlive a request.                                         *)
(*                                                                         *)
(* Accounts, for every set of accounts, roles and passwords, and every     *)
(* bound: the owner stays, a session that was revoked stays revoked, a     *)
(* restart finds what the answers told, and the last change counts.        *)
(*                                                                         *)
(* The audit log, for every set of appends, every number of archives and   *)
(* every limit: the files hold the end of the log, in order and without a  *)
(* gap, and a line is dropped only when every archive is used, until the   *)
(* panel and a command have worked at the files together.                  *)
(***************************************************************************)
EXTENDS Accounts, AuditLog, FiniteSetTheorems, SequenceTheorems, TLAPS

-----------------------------------------------------------------------------
(* ACCOUNTS                                                                *)

-----------------------------------------------------------------------------
(* Configurations.                                                         *)

\* Adding or replacing a record changes the directory for that account alone.
LEMMA PutDirectory ==
  ASSUME NEW users, IsDirectory(users), NEW u \in Users, NEW rec \in UserRecord
  PROVE  /\ IsDirectory(Put(users, u, rec))
         /\ DOMAIN Put(users, u, rec) = DOMAIN users \cup {u}
         /\ Put(users, u, rec)[u] = rec
         /\ \A x \in DOMAIN users : x # u => Put(users, u, rec)[x] = users[x]
BY DEF IsDirectory, Put

\* Removing a record leaves the others of the directory alone.
LEMMA DropDirectory ==
  ASSUME NEW users, IsDirectory(users), NEW u \in Users
  PROVE  /\ IsDirectory(Drop(users, u))
         /\ DOMAIN Drop(users, u) = DOMAIN users \ {u}
         /\ \A x \in DOMAIN users : x # u => Drop(users, u)[x] = users[x]
BY DEF IsDirectory, Drop

\* A panel that is not set up has a directory without accounts.
LEMMA EmptyDirectory == IsDirectory([u \in {} |-> 0])
BY DEF IsDirectory

\* A configuration is put together from its fields.
LEMMA ConfigFields ==
  ASSUME NEW cfg, IsConfig(cfg)
  PROVE  /\ cfg.admin \in BOOLEAN /\ IsDirectory(cfg.users) /\ cfg.ownerHash \in Hash /\ cfg.key \in Nat
         /\ cfg = [admin |-> cfg.admin, users |-> cfg.users, ownerHash |-> cfg.ownerHash, key |-> cfg.key]
BY DEF IsConfig

\* Fields of the right types make a configuration.
LEMMA MakeConfig ==
  ASSUME NEW a \in BOOLEAN, NEW users, IsDirectory(users), NEW h \in Hash, NEW k \in Nat
  PROVE  IsConfig([admin |-> a, users |-> users, ownerHash |-> h, key |-> k])
BY DEF IsConfig

\* The record of an account, and its token, have their types.
LEMMA RecordTypes ==
  ASSUME NEW cfg, IsConfig(cfg), NEW u \in Users
  PROVE  /\ UserSessionToken(cfg, u) \in Nat
         /\ StoredHash(cfg, u) \in Hash
         /\ u \in Accounts(cfg) => cfg.users[u] \in UserRecord
BY ConfigFields DEF IsDirectory, UserSessionToken, StoredHash, Accounts, UserRecord

\* What may happen at a panel is of the constants.
LEMMA PanelTypes ==
  ASSUME panel \in Panels
  PROVE  panel.passwords \subseteq Passwords /\ panel.roles \subseteq Roles
BY AccountsAssumption DEF Panel

\* The hash of a password is a hash.
LEMMA HashTypes ==
  ASSUME NEW p \in Passwords
  PROVE  HashPassword(p) \in Hash
BY DEF HashPassword, Hash

\* What the four ways of changing a configuration do to it.
LEMMA DirectoryChanged ==
  ASSUME NEW cfg, IsConfig(cfg), NEW users, IsDirectory(users)
  PROVE  /\ IsConfig([cfg EXCEPT !.users = users])
         /\ [cfg EXCEPT !.users = users].users = users
         /\ [cfg EXCEPT !.users = users].key = cfg.key
         /\ [cfg EXCEPT !.users = users].admin = cfg.admin
         /\ [cfg EXCEPT !.users = users].ownerHash = cfg.ownerHash
<1>1. [cfg EXCEPT !.users = users] = [admin |-> cfg.admin, users |-> users, ownerHash |-> cfg.ownerHash, key |-> cfg.key]
  BY ConfigFields
<1>2. QED
  BY <1>1, ConfigFields, MakeConfig

\* A new signing key leaves the accounts alone.
LEMMA KeyChanged ==
  ASSUME NEW cfg, IsConfig(cfg), NEW k \in Nat
  PROVE  /\ IsConfig(NewKey(cfg, k))
         /\ NewKey(cfg, k).key = k
         /\ NewKey(cfg, k).users = cfg.users
         /\ NewKey(cfg, k).admin = cfg.admin
         /\ NewKey(cfg, k).ownerHash = cfg.ownerHash
<1>1. NewKey(cfg, k) = [admin |-> cfg.admin, users |-> cfg.users, ownerHash |-> cfg.ownerHash, key |-> k]
  BY ConfigFields DEF NewKey
<1>2. QED
  BY <1>1, ConfigFields, MakeConfig

\* A new password of the owner changes its record and its copy of the hash, and nothing else.
LEMMA OwnerChanged ==
  ASSUME NEW cfg, IsConfig(cfg), NEW p \in Passwords
  PROVE  /\ IsConfig(SetAdminPassword(cfg, p))
         /\ Intact(SetAdminPassword(cfg, p))
         /\ SetAdminPassword(cfg, p).key = cfg.key
         /\ SetAdminPassword(cfg, p).admin = cfg.admin
<1> DEFINE owner == [hash |-> HashPassword(p), role |-> "admin", token |-> UserSessionToken(cfg, Owner)]
           users == Put(cfg.users, Owner, owner)
<1>1. owner \in UserRecord
  BY RecordTypes, HashTypes, AccountsAssumption DEF UserRecord
<1>2. IsDirectory(users) /\ Owner \in DOMAIN users /\ users[Owner] = owner
  <2>1. IsDirectory(cfg.users) /\ Owner \in Users
    BY ConfigFields, AccountsAssumption
  <2> HIDE DEF owner
  <2>2. /\ IsDirectory(Put(cfg.users, Owner, owner))
        /\ DOMAIN Put(cfg.users, Owner, owner) = DOMAIN cfg.users \cup {Owner}
        /\ Put(cfg.users, Owner, owner)[Owner] = owner
    BY <1>1, <2>1, PutDirectory, Zenon
  <2>3. QED
    BY <2>2
<1>3. SetAdminPassword(cfg, p) = [admin |-> cfg.admin, users |-> users, ownerHash |-> HashPassword(p), key |-> cfg.key]
  BY DEF SetAdminPassword, WithOwnerHash
<1> HIDE DEF users
<1>4. QED
  BY <1>2, <1>3, ConfigFields, MakeConfig, HashTypes DEF Intact, Accounts

\* The owner keeps his session token, and everybody else his record.
LEMMA OwnerTokenKept ==
  ASSUME NEW cfg, IsConfig(cfg), NEW p \in Passwords
  PROVE  \A x \in Users : UserSessionToken(SetAdminPassword(cfg, p), x) = UserSessionToken(cfg, x)
<1> DEFINE owner == [hash |-> HashPassword(p), role |-> "admin", token |-> UserSessionToken(cfg, Owner)]
           users == Put(cfg.users, Owner, owner)
<1>1. SetAdminPassword(cfg, p).users = users
  BY DEF SetAdminPassword, WithOwnerHash
<1>2. /\ DOMAIN users = DOMAIN cfg.users \cup {Owner}
      /\ users[Owner].token = UserSessionToken(cfg, Owner)
      /\ \A x \in DOMAIN cfg.users : x # Owner => users[x] = cfg.users[x]
  BY DEF Put
<1> HIDE DEF users
<1>3. QED
  BY <1>1, <1>2 DEF UserSessionToken, Accounts

\* A rehash leaves the accounts, their tokens and the signing key alone.
LEMMA RehashChanged ==
  ASSUME NEW cfg, IsConfig(cfg), NEW u \in Users, NEW p \in Passwords
  PROVE  /\ IsConfig(Rehashed(cfg, u, p))
         /\ Intact(cfg) => Intact(Rehashed(cfg, u, p))
         /\ Rehashed(cfg, u, p).key = cfg.key
         /\ Rehashed(cfg, u, p).admin = cfg.admin
         /\ Accounts(Rehashed(cfg, u, p)) = Accounts(cfg)
         /\ \A x \in Users : UserSessionToken(Rehashed(cfg, u, p), x) = UserSessionToken(cfg, x)
<1> DEFINE rec == [cfg.users[u] EXCEPT !.hash = HashPassword(p)]
           users == IF u \in Accounts(cfg) THEN Put(cfg.users, u, rec) ELSE cfg.users
           hash == IF u = Owner THEN HashPassword(p) ELSE cfg.ownerHash
<1>1. u \in Accounts(cfg) => /\ rec \in UserRecord /\ rec.hash = HashPassword(p)
                             /\ rec.role = cfg.users[u].role /\ rec.token = cfg.users[u].token
  BY RecordTypes, HashTypes DEF UserRecord
<1>2. Rehashed(cfg, u, p) = [admin |-> cfg.admin, users |-> users, ownerHash |-> hash, key |-> cfg.key]
  BY DEF Rehashed, WithOwnerHash
<1>3. /\ IsDirectory(users) /\ DOMAIN users = DOMAIN cfg.users
      /\ \A x \in DOMAIN users : x # u => users[x] = cfg.users[x]
      /\ u \in DOMAIN users => /\ users[u].hash = HashPassword(p)
                               /\ users[u].role = cfg.users[u].role
                               /\ users[u].token = cfg.users[u].token
  <2>1. CASE u \in Accounts(cfg)
    <3> HIDE DEF rec
    <3>1. QED
      BY <1>1, <2>1, PutDirectory, ConfigFields DEF Accounts
  <2>2. CASE u \notin Accounts(cfg)
    BY <2>2, ConfigFields DEF Accounts
  <2>3. QED
    BY <2>1, <2>2
<1> HIDE DEF users
<1>4. IsConfig(Rehashed(cfg, u, p))
  BY <1>2, <1>3, ConfigFields, MakeConfig, HashTypes
<1>5. Intact(cfg) => Intact(Rehashed(cfg, u, p))
  BY <1>2, <1>3 DEF Intact, Accounts
<1>6. QED
  BY <1>2, <1>3, <1>4, <1>5 DEF Accounts, UserSessionToken

\* A new record of an account other than the owner.
LEMMA RecordChanged ==
  ASSUME NEW cfg, IsConfig(cfg), NEW u \in Users, u # Owner, NEW rec \in UserRecord
  PROVE  LET new == [cfg EXCEPT !.users = Put(@, u, rec)] IN
         /\ IsConfig(new)
         /\ Intact(cfg) => Intact(new)
         /\ new.key = cfg.key /\ new.admin = cfg.admin
         /\ UserSessionToken(new, u) = rec.token
         /\ \A x \in Users \ {u} : /\ x \in Accounts(new) <=> x \in Accounts(cfg)
                                   /\ UserSessionToken(new, x) = UserSessionToken(cfg, x)
<1> DEFINE users == Put(cfg.users, u, rec)
<1>1. /\ IsDirectory(users)
      /\ DOMAIN users = DOMAIN cfg.users \cup {u}
      /\ users[u] = rec
      /\ \A x \in DOMAIN cfg.users : x # u => users[x] = cfg.users[x]
  BY ConfigFields, PutDirectory
<1> HIDE DEF users
<1>2. LET new == [cfg EXCEPT !.users = users] IN
      IsConfig(new) /\ new.users = users /\ new.key = cfg.key /\ new.admin = cfg.admin /\ new.ownerHash = cfg.ownerHash
  BY <1>1, DirectoryChanged
<1>3. LET new == [cfg EXCEPT !.users = users] IN
         /\ IsConfig(new)
         /\ Intact(cfg) => Intact(new)
         /\ new.key = cfg.key /\ new.admin = cfg.admin
         /\ UserSessionToken(new, u) = rec.token
         /\ \A x \in Users \ {u} : /\ x \in Accounts(new) <=> x \in Accounts(cfg)
                                   /\ UserSessionToken(new, x) = UserSessionToken(cfg, x)
  <2> DEFINE new == [cfg EXCEPT !.users = users]
  <2>1. IsConfig(new) /\ new.users = users /\ new.key = cfg.key /\ new.admin = cfg.admin /\ new.ownerHash = cfg.ownerHash
    BY <1>2
  <2> HIDE DEF new
  <2>2. /\ IsConfig(new)
        /\ Intact(cfg) => Intact(new)
        /\ new.key = cfg.key /\ new.admin = cfg.admin
        /\ UserSessionToken(new, u) = rec.token
        /\ \A x \in Users \ {u} : /\ x \in Accounts(new) <=> x \in Accounts(cfg)
                                  /\ UserSessionToken(new, x) = UserSessionToken(cfg, x)
    BY <1>1, <2>1 DEF Intact, Accounts, UserSessionToken
  <2>3. QED
    BY <2>2 DEF new
<1>4. QED
  BY <1>3 DEF users

\* No record any more for an account other than the owner.
LEMMA RecordDropped ==
  ASSUME NEW cfg, IsConfig(cfg), NEW u \in Users, u # Owner
  PROVE  LET new == [cfg EXCEPT !.users = Drop(cfg.users, u)] IN
         /\ IsConfig(new)
         /\ Intact(cfg) => Intact(new)
         /\ new.key = cfg.key /\ new.admin = cfg.admin
         /\ u \notin Accounts(new)
         /\ \A x \in Users \ {u} : /\ x \in Accounts(new) <=> x \in Accounts(cfg)
                                   /\ UserSessionToken(new, x) = UserSessionToken(cfg, x)
<1> DEFINE users == Drop(cfg.users, u)
<1>1. /\ IsDirectory(users)
      /\ DOMAIN users = DOMAIN cfg.users \ {u}
      /\ \A x \in DOMAIN cfg.users : x # u => users[x] = cfg.users[x]
  BY ConfigFields, DropDirectory
<1> HIDE DEF users
<1>2. LET new == [cfg EXCEPT !.users = users] IN
      IsConfig(new) /\ new.users = users /\ new.key = cfg.key /\ new.admin = cfg.admin /\ new.ownerHash = cfg.ownerHash
  BY <1>1, DirectoryChanged
<1>3. LET new == [cfg EXCEPT !.users = users] IN
         /\ IsConfig(new)
         /\ Intact(cfg) => Intact(new)
         /\ new.key = cfg.key /\ new.admin = cfg.admin
         /\ u \notin Accounts(new)
         /\ \A x \in Users \ {u} : /\ x \in Accounts(new) <=> x \in Accounts(cfg)
                                   /\ UserSessionToken(new, x) = UserSessionToken(cfg, x)
  <2> DEFINE new == [cfg EXCEPT !.users = users]
  <2>1. IsConfig(new) /\ new.users = users /\ new.key = cfg.key /\ new.admin = cfg.admin /\ new.ownerHash = cfg.ownerHash
    BY <1>2
  <2> HIDE DEF new
  <2>2. /\ IsConfig(new)
        /\ Intact(cfg) => Intact(new)
        /\ new.key = cfg.key /\ new.admin = cfg.admin
        /\ u \notin Accounts(new)
        /\ \A x \in Users \ {u} : /\ x \in Accounts(new) <=> x \in Accounts(cfg)
                                  /\ UserSessionToken(new, x) = UserSessionToken(cfg, x)
    BY <1>1, <2>1 DEF Intact, Accounts, UserSessionToken
  <2>3. QED
    BY <2>2 DEF new
<1>4. QED
  BY <1>3 DEF users

-----------------------------------------------------------------------------
(* What the critical sections do to the configuration.                     *)

Bounded(cfg, n) == cfg.key < n /\ \A x \in Users : UserSessionToken(cfg, x) < n

\* The accounts of a set keep their existence and their session tokens.
SameTokens(new, S) ==
  \A x \in S : /\ x \in Accounts(new) <=> x \in Accounts(mem)
               /\ UserSessionToken(new, x) = UserSessionToken(mem, x)

\* new is a.cfg after a change of the account u: either the key is new, or u
\* has a new token or is gone, and the others keep theirs.
ChangeOf(new, u) ==
  /\ IsConfig(new)
  /\ Intact(mem) => Intact(new)
  /\ Bounded(mem, fresh) => Bounded(new, fresh')
  /\ \/ new.key >= fresh
     \/ /\ new.key = mem.key /\ new.admin = mem.admin
        /\ UserSessionToken(new, u) >= fresh \/ (u # Owner /\ u \notin Accounts(new))
        /\ SameTokens(new, Users \ {u})

\* new is a.cfg after a save that is about no session.
SilentChange(new) ==
  /\ IsConfig(new)
  /\ Intact(mem) => Intact(new)
  /\ new.key = mem.key /\ new.admin = mem.admin
  /\ SameTokens(new, Users)

\* Drawing a token or a key counts up.
LEMMA DrawTypes ==
  ASSUME TypeOK, NEW n \in Nat, Draw(n)
  PROVE  fresh' \in Nat /\ fresh' = fresh + n
BY DEF Draw, TypeOK

\* The setup of the panel makes a configuration with its owner, and changes the owner.
LEMMA SetupChanges ==
  ASSUME TypeOK, NEW p \in Passwords, NEW saved \in BOOLEAN, Setup(p, saved)
  PROVE  \E new : ChangeOf(new, Owner) /\ SaveChange(new, Owner, Promised(p, "admin"), saved)
<1> DEFINE rec == [hash |-> HashPassword(p), role |-> "admin", token |-> fresh]
           users == Put([u \in {} |-> 0], Owner, rec)
           new == [admin |-> TRUE, users |-> users, ownerHash |-> HashPassword(p), key |-> fresh + 1]
<1>1. fresh \in Nat /\ fresh' = fresh + 2
  BY DrawTypes DEF Setup, TypeOK
<1>2. rec \in UserRecord /\ Owner \in Users
  BY <1>1, HashTypes, AccountsAssumption DEF UserRecord
<1>3. IsDirectory(users) /\ DOMAIN users = {Owner} /\ users[Owner] = rec
  <2> HIDE DEF rec
  <2>1. QED
    BY <1>2 DEF IsDirectory, Put
<1>4. SaveChange(new, Owner, Promised(p, "admin"), saved)
  BY DEF Setup
<1>5. ChangeOf(new, Owner)
  <2> HIDE DEF users
  <2>1. IsConfig(new)
    <3>1. TRUE \in BOOLEAN /\ fresh + 1 \in Nat /\ HashPassword(p) \in Hash
      BY <1>1, HashTypes
    <3>2. QED
      BY <1>3, <3>1 DEF IsConfig
  <2>2. Intact(new)
    BY <1>3 DEF Intact, Accounts
  <2>3. Bounded(new, fresh')
    BY <1>1, <1>3 DEF Bounded, UserSessionToken, Accounts
  <2>4. new.key >= fresh
    BY <1>1
  <2> HIDE DEF new
  <2>5. QED
    BY <2>1, <2>2, <2>3, <2>4 DEF ChangeOf
<1> HIDE DEF new
<1>6. QED
  BY <1>4, <1>5

\* A created account gets a token of its own, and the other accounts stay.
LEMMA CreateUserChanges ==
  ASSUME TypeOK, NEW q \in changes, NEW p \in Passwords, NEW role \in Roles, NEW saved \in BOOLEAN,
         CreateUser(q, p, role, saved)
  PROVE  \/ UNCHANGED <<mem, disk, fresh, told>>
         \/ \E new : ChangeOf(new, q.target) /\ SaveChange(new, q.target, Promised(p, role), saved)
<1> DEFINE rec == [hash |-> HashPassword(p), role |-> role, token |-> fresh]
           new == [mem EXCEPT !.users = Put(@, q.target, rec)]
<1> SUFFICES ASSUME q.target # Owner, Draw(1), SaveChange(new, q.target, Promised(p, role), saved)
             PROVE  ChangeOf(new, q.target)
  BY DEF CreateUser
<1>1. fresh \in Nat /\ fresh' = fresh + 1 /\ q.target \in Users /\ IsConfig(mem)
  BY DrawTypes DEF TypeOK, Change
<1>2. rec \in UserRecord /\ rec.token = fresh
  BY <1>1, HashTypes DEF UserRecord
<1> HIDE DEF rec
<1>3. /\ IsConfig(new)
      /\ Intact(mem) => Intact(new)
      /\ new.key = mem.key /\ new.admin = mem.admin
      /\ UserSessionToken(new, q.target) = fresh
      /\ SameTokens(new, Users \ {q.target})
  BY <1>1, <1>2, RecordChanged DEF SameTokens
<1> HIDE DEF new
<1>4. Bounded(mem, fresh) => Bounded(new, fresh')
  BY <1>1, <1>3, ConfigFields, RecordTypes DEF Bounded, SameTokens
<1>5. QED
  BY <1>1, <1>3, <1>4 DEF ChangeOf

\* An update or deletion changes the account it names, and no other.
LEMMA UpdateUserChanges ==
  ASSUME TypeOK, NEW q \in changes, NEW p \in Passwords, NEW role \in Roles, NEW saved \in BOOLEAN,
         UpdateUser(q, p, role, saved)
  PROVE  \/ UNCHANGED <<mem, disk, fresh, told>>
         \/ \E new : ChangeOf(new, q.target) /\ SaveChange(new, q.target, Promise(q, p, role), saved)
<1> DEFINE new == [mem EXCEPT !.users = Updated(q, p, role, fresh)]
           user == mem.users[q.target]
<1> SUFFICES ASSUME MayUpdate(q), Draw(IF q.op = "delete" THEN 0 ELSE 1)
             PROVE  ChangeOf(new, q.target)
  BY DEF UpdateUser
<1>1. /\ fresh \in Nat /\ fresh' = fresh + IF q.op = "delete" THEN 0 ELSE 1
      /\ q.target \in Users /\ q.target # Owner /\ IsConfig(mem)
      /\ q.op \in {"delete", "role", "password"}
  BY DrawTypes DEF TypeOK, Change, MayUpdate, UpdateUser
<1>2. user \in UserRecord
  BY <1>1, RecordTypes DEF MayUpdate
<1>3. CASE q.op = "delete"
  <2>1. new = [mem EXCEPT !.users = Drop(mem.users, q.target)]
    BY <1>3 DEF Updated
  <2>2. /\ IsConfig(new)
        /\ Intact(mem) => Intact(new)
        /\ new.key = mem.key /\ new.admin = mem.admin
        /\ q.target \notin Accounts(new)
        /\ SameTokens(new, Users \ {q.target})
    BY <1>1, <2>1, RecordDropped DEF SameTokens
  <2> HIDE DEF new
  <2>3. UserSessionToken(new, q.target) = 0 /\ fresh' = fresh
    BY <1>1, <1>3, <2>2 DEF UserSessionToken
  <2>4. Bounded(mem, fresh) => Bounded(new, fresh')
    BY <1>1, <2>2, <2>3, ConfigFields DEF Bounded, SameTokens
  <2>5. QED
    BY <1>1, <2>2, <2>4 DEF ChangeOf
<1>4. CASE q.op # "delete"
  <2> DEFINE rec == IF q.op = "role" THEN [user EXCEPT !.role = role, !.token = fresh]
                                     ELSE [user EXCEPT !.hash = HashPassword(p), !.token = fresh]
  <2>1. rec \in UserRecord /\ rec.token = fresh
    BY <1>1, <1>2, HashTypes DEF UserRecord
  <2>2. new = [mem EXCEPT !.users = Put(@, q.target, rec)]
    BY <1>1, <1>4 DEF Updated
  <2> HIDE DEF rec
  <2>3. /\ IsConfig(new)
        /\ Intact(mem) => Intact(new)
        /\ new.key = mem.key /\ new.admin = mem.admin
        /\ UserSessionToken(new, q.target) = fresh
        /\ SameTokens(new, Users \ {q.target})
    BY <1>1, <2>1, <2>2, RecordChanged DEF SameTokens
  <2> HIDE DEF new
  <2>4. fresh' = fresh + 1
    BY <1>1, <1>4
  <2>5. Bounded(mem, fresh) => Bounded(new, fresh')
    BY <1>1, <2>3, <2>4, ConfigFields, RecordTypes DEF Bounded, SameTokens
  <2>6. QED
    BY <1>1, <2>3, <2>5 DEF ChangeOf
<1>5. QED
  BY <1>3, <1>4

\* A change of the password in the settings changes the owner, and no other account.
LEMMA OwnerPasswordChanges ==
  ASSUME TypeOK, NEW q \in auths, NEW p \in Passwords, NEW saved \in BOOLEAN, ChangeOwnerPassword(q, p, saved)
  PROVE  \E new : ChangeOf(new, Owner) /\ SaveChange(new, Owner, Promised(p, "admin"), saved)
<1> DEFINE set == SetAdminPassword(mem, p)
           new == NewKey(set, fresh)
<1>1. fresh \in Nat /\ fresh' = fresh + 1 /\ IsConfig(mem)
  BY DrawTypes DEF ChangeOwnerPassword, TypeOK
<1>2. IsConfig(set) /\ Intact(set)
  BY <1>1, OwnerChanged
<1>3. \A x \in Users : UserSessionToken(set, x) = UserSessionToken(mem, x)
  BY <1>1, OwnerTokenKept
<1> HIDE DEF set
<1>4. /\ IsConfig(new) /\ new.key = fresh /\ new.users = set.users /\ new.admin = set.admin
      /\ new.ownerHash = set.ownerHash
  BY <1>1, <1>2, KeyChanged
<1>5. SaveChange(new, Owner, Promised(p, "admin"), saved)
  BY DEF ChangeOwnerPassword, set
<1> HIDE DEF new
<1>6. Intact(new) /\ \A x \in Users : UserSessionToken(new, x) = UserSessionToken(mem, x)
  BY <1>2, <1>3, <1>4 DEF Intact, Accounts, UserSessionToken
<1>7. Bounded(mem, fresh) => Bounded(new, fresh')
  BY <1>1, <1>4, <1>6, RecordTypes DEF Bounded
<1>8. ChangeOf(new, Owner)
  BY <1>1, <1>4, <1>6, <1>7 DEF ChangeOf
<1>9. QED
  BY <1>5, <1>8

\* A rehash leaves every session as it was.
LEMMA RehashIsSilent ==
  ASSUME TypeOK, NEW q \in auths
  PROVE  SilentChange(Rehashed(mem, q.user, q.pw))
<1>1. IsConfig(mem) /\ q.user \in Users /\ q.pw \in Passwords
  BY DEF TypeOK, Auth
<1>2. QED
  BY <1>1, RehashChanged DEF SilentChange, SameTokens

\* A request that is refused leaves every session as it was.
LEMMA NoChangeIsSilent ==
  ASSUME TypeOK
  PROVE  SilentChange(mem)
BY DEF TypeOK, SilentChange, SameTokens

-----------------------------------------------------------------------------
(* Type correctness.                                                       *)

\* A save, whether it fails or not, keeps the types.
LEMMA SaveTypes ==
  ASSUME TypeOK, NEW new, IsConfig(new), NEW saved \in BOOLEAN, Save(new, saved)
  PROVE  IsConfig(mem') /\ IsConfig(disk') /\ pending' \in BOOLEAN
BY DEF TypeOK, Save, Written

\* What leaves the sessions alone keeps the types.
LEMMA SilentTypes ==
  ASSUME TypeOK, NEW new, IsConfig(new), NEW saved \in BOOLEAN, SaveSilently(new, saved),
         cookies' \subseteq Cookie, auths' \subseteq Auth, changes' \subseteq Change,
         UNCHANGED <<cli, env>>, fresh' \in Nat
  PROVE  TypeOK'
<1>1. IsConfig(mem') /\ IsConfig(disk') /\ pending' \in BOOLEAN
  BY SaveTypes DEF SaveSilently
<1>2. UNCHANGED <<acked, unacked, era, reset>>
  BY DEF SaveSilently
<1> QED
  BY <1>1, <1>2 DEF env, TypeOK

\* A change of an account keeps the types.
LEMMA ChangeTypes ==
  ASSUME TypeOK, NEW new, NEW u \in Users, NEW promise, NEW saved \in BOOLEAN,
         IsConfig(new), SaveChange(new, u, promise, saved),
         cookies' \subseteq Cookie, auths' \subseteq Auth, changes' \subseteq Change,
         UNCHANGED <<cli, env>>, fresh' \in Nat
  PROVE  TypeOK'
<1>1. IsConfig(mem') /\ IsConfig(disk') /\ pending' \in BOOLEAN
  BY SaveTypes DEF SaveChange
<1>2. DOMAIN acked' = Users /\ DOMAIN unacked' = Users
  BY DEF SaveChange, TypeOK
<1>3. era' \in [Users -> Nat]
  BY DEF SaveChange, TypeOK
<1>4. reset' \subseteq Passwords
  BY DEF SaveChange, TypeOK
<1> QED
  BY <1>1, <1>2, <1>3, <1>4 DEF env, TypeOK

\* A step that only reads the configurations keeps their types.
LEMMA QuietTypes ==
  ASSUME TypeOK, UNCHANGED <<mem, disk, cli, fresh, env, told>>,
         cookies' \subseteq Cookie, auths' \subseteq Auth, changes' \subseteq Change
  PROVE  TypeOK'
BY DEF env, TypeOK, told

\* The types hold at the start.
LEMMA TypeInit == Init => TypeOK
<1> SUFFICES ASSUME Init
             PROVE  TypeOK
  OBVIOUS
<1>0. panel.passwords \subseteq Passwords /\ panel.roles \subseteq Roles
  BY PanelTypes DEF Init
<1>1. IsConfig(mem)
  <2>1. CASE mem \in NotSetUp
    <3>1. PICK p \in Passwords :
            mem = [admin |-> FALSE, users |-> [u \in {} |-> 0], ownerHash |-> HashPassword(p), key |-> 0]
      BY <1>0, <2>1 DEF NotSetUp
    <3> DEFINE none == [u \in {} |-> 0]
    <3>2. IsDirectory(none) /\ HashPassword(p) \in Hash
      BY EmptyDirectory, HashTypes
    <3>3. mem = [admin |-> FALSE, users |-> none, ownerHash |-> HashPassword(p), key |-> 0]
      BY <3>1
    <3> HIDE DEF none
    <3>4. QED
      BY <3>2, <3>3 DEF IsConfig
  <2>2. CASE \E pws \in [Users -> Passwords], S \in SUBSET Users : \E roles \in [S -> Roles] : mem = Installed(pws, roles)
    <3>0. PICK pws \in [Users -> Passwords], S \in SUBSET Users : \E roles \in [S -> Roles] : mem = Installed(pws, roles)
      BY <2>2
    <3>1. PICK roles \in [S -> Roles] : mem = Installed(pws, roles)
      BY <3>0
    <3>2. \A u \in Users : InstalledHash(u, pws[u]) \in Hash
      BY DEF InstalledHash, Hash
    <3>3. DOMAIN roles = S
      OBVIOUS
    <3> DEFINE users == [u \in S |-> [hash |-> InstalledHash(u, pws[u]), role |-> roles[u], token |-> 0]]
    <3>4. IsDirectory(users)
      BY <3>2 DEF IsDirectory, UserRecord
    <3>5. mem = [admin |-> TRUE, users |-> users, ownerHash |-> InstalledHash(Owner, pws[Owner]), key |-> 0]
      BY <3>1, <3>3 DEF Installed
    <3>6. InstalledHash(Owner, pws[Owner]) \in Hash
      BY <3>2, AccountsAssumption
    <3> HIDE DEF users
    <3>7. QED
      BY <3>4, <3>5, <3>6 DEF IsConfig
  <2>3. QED
    BY <1>0, <2>1, <2>2 DEF Init, LoadedConfigs
<1>2. era \in [Users -> Nat] /\ DOMAIN acked = Users /\ DOMAIN unacked = Users
  BY DEF Init
<1>3. QED
  BY <1>1, <1>2 DEF Init, TypeOK

\* Every step keeps the types: one step of the proof for each action.
LEMMA TypeStep == TypeOK /\ [Next]_vars => TypeOK'
<1> SUFFICES ASSUME TypeOK, [Next]_vars
             PROVE  TypeOK'
  OBVIOUS
<1> USE DEF TypeOK
<1>1. ASSUME NEW saved \in BOOLEAN, SaveOtherSettings(saved)
      PROVE  TypeOK'
  BY <1>1, SilentTypes DEF SaveOtherSettings
<1>2. ASSUME NEW saved \in BOOLEAN, NEW q \in auths, RehashUserPassword(q, saved)
      PROVE  TypeOK'
  <2>1. IsConfig(Rehashed(mem, q.user, q.pw))
    BY RehashIsSilent DEF SilentChange
  <2>2. auths' \subseteq Auth
    BY <1>2 DEF RehashUserPassword, Auth
  <2>3. SaveSilently(Rehashed(mem, q.user, q.pw), saved) /\ UNCHANGED <<cookies, changes, cli, fresh, env>>
    BY <1>2 DEF RehashUserPassword
  <2> HIDE DEF TypeOK
  <2>4. cookies' \subseteq Cookie /\ changes' \subseteq Change /\ fresh' \in Nat
    BY <2>3 DEF TypeOK
  <2>5. QED
    BY <2>1, <2>2, <2>3, <2>4, SilentTypes
<1>3. ASSUME NEW saved \in BOOLEAN, NEW p \in Passwords, Setup(p, saved)
      PROVE  TypeOK'
  <2>1. PICK new : ChangeOf(new, Owner) /\ SaveChange(new, Owner, Promised(p, "admin"), saved)
    BY <1>3, SetupChanges
  <2>2. auths' \subseteq Auth /\ fresh' \in Nat
    BY <1>3, DrawTypes, AccountsAssumption DEF Setup, Auth
  <2>3. cookies' \subseteq Cookie /\ changes' \subseteq Change /\ UNCHANGED <<cli, env>>
    BY <1>3 DEF Setup
  <2> HIDE DEF TypeOK
  <2>4. QED
    BY <2>1, <2>2, <2>3, ChangeTypes, AccountsAssumption DEF ChangeOf
<1>4. ASSUME NEW saved \in BOOLEAN, NEW p \in Passwords, NEW q \in auths, ChangeOwnerPassword(q, p, saved)
      PROVE  TypeOK'
  <2>1. PICK new : ChangeOf(new, Owner) /\ SaveChange(new, Owner, Promised(p, "admin"), saved)
    BY <1>4, OwnerPasswordChanges
  <2>2. auths' \subseteq Auth /\ fresh' \in Nat
    BY <1>4, DrawTypes DEF ChangeOwnerPassword
  <2>3. cookies' \subseteq Cookie /\ changes' \subseteq Change /\ UNCHANGED <<cli, env>>
    BY <1>4 DEF ChangeOwnerPassword
  <2> HIDE DEF TypeOK
  <2>4. QED
    BY <2>1, <2>2, <2>3, ChangeTypes, AccountsAssumption DEF ChangeOf
<1>5. ASSUME NEW saved \in BOOLEAN, NEW q \in changes, NEW p \in Passwords, NEW role \in Roles,
             CreateUser(q, p, role, saved)
      PROVE  TypeOK'
  <2>1. auths' \subseteq Auth /\ cookies' \subseteq Cookie /\ changes' \subseteq Change /\ UNCHANGED <<cli, env>>
    BY <1>5 DEF CreateUser
  <2>2. fresh' \in Nat
    BY <1>5, DrawTypes DEF CreateUser
  <2>3. q.target \in Users
    BY DEF Change
  <2> HIDE DEF TypeOK
  <2>4. CASE UNCHANGED <<mem, disk, fresh, told>>
    BY <2>1, <2>4, QuietTypes
  <2>5. CASE \E new : ChangeOf(new, q.target) /\ SaveChange(new, q.target, Promised(p, role), saved)
    BY <2>1, <2>2, <2>3, <2>5, ChangeTypes DEF ChangeOf
  <2>6. QED
    BY <1>5, <2>4, <2>5, CreateUserChanges
<1>6. ASSUME NEW saved \in BOOLEAN, NEW q \in changes, NEW p \in Passwords, NEW role \in Roles,
             UpdateUser(q, p, role, saved)
      PROVE  TypeOK'
  <2>1. auths' \subseteq Auth /\ cookies' \subseteq Cookie /\ changes' \subseteq Change /\ UNCHANGED <<cli, env>>
    BY <1>6 DEF UpdateUser
  <2>2. fresh' \in Nat
    BY <1>6, DrawTypes DEF UpdateUser
  <2>3. q.target \in Users
    BY DEF Change
  <2> HIDE DEF TypeOK
  <2>4. CASE UNCHANGED <<mem, disk, fresh, told>>
    BY <2>1, <2>4, QuietTypes
  <2>5. CASE \E new : ChangeOf(new, q.target) /\ SaveChange(new, q.target, Promise(q, p, role), saved)
    BY <2>1, <2>2, <2>3, <2>5, ChangeTypes DEF ChangeOf
  <2>6. QED
    BY <1>6, <2>4, <2>5, UpdateUserChanges
<1>7. ASSUME NEW u \in Users, Login(u)
      PROVE  TypeOK'
  <2>1. Authenticated("login", u) \in Auth
    BY RecordTypes DEF Authenticated, Auth, Hash
  <2> HIDE DEF TypeOK
  <2>2. QED
    BY <1>7, <2>1, QuietTypes DEF Login, TypeOK
<1>8. ASSUME NEW q \in auths, ReadToken(q)
      PROVE  TypeOK'
  <2>1. [q EXCEPT !.phase = "token", !.token = UserSessionToken(mem, q.user)] \in Auth
    BY RecordTypes DEF Auth
  <2>2. QED
    BY <1>8, <2>1, QuietTypes DEF ReadToken
<1>9. ASSUME NEW q \in auths, SetSession(q)
      PROVE  TypeOK'
  <2>1. [user |-> q.user, token |-> q.token, key |-> mem.key, era |-> era[q.user]] \in Cookie
    BY ConfigFields DEF Auth, Cookie
  <2>2. QED
    BY <1>9, <2>1, QuietTypes DEF SetSession
<1>10. ASSUME NEW c \in cookies, NEW op \in Operation, NEW t \in Users, BeginChange(c, op, t)
       PROVE  TypeOK'
  <2>1. [op |-> op, cookie |-> c, target |-> t, phase |-> "begun", caller |-> NoUser] \in Change
    BY DEF Change
  <2>2. QED
    BY <1>10, <2>1, QuietTypes DEF BeginChange
<1>11. ASSUME NEW q \in changes, NameCaller(q)
       PROVE  TypeOK'
  <2>1. SessionUser(mem, q.cookie) \in Users \cup {NoUser}
    BY DEF SessionUser, Change, Cookie
  <2>2. [q EXCEPT !.phase = "named", !.caller = SessionUser(mem, q.cookie)] \in Change
    BY <2>1 DEF Change
  <2>3. QED
    BY <1>11, <2>2, QuietTypes DEF NameCaller
<1>12. ASSUME NEW q \in changes, CheckCurrentPassword(q)
       PROVE  TypeOK'
  <2>1. q.cookie.user \in Users
    BY DEF Change, Cookie
  <2>2. Authenticated("settings", q.cookie.user) \in Auth
    BY <2>1, RecordTypes DEF Authenticated, Auth, Hash
  <2>3. QED
    BY <1>12, <2>2, QuietTypes DEF CheckCurrentPassword
<1>13. ASSUME CliRead
       PROVE  TypeOK'
  BY <1>13 DEF CliRead, told
<1>14. ASSUME NEW copy \in cli, NEW p \in Passwords, CliWrite(copy, p)
       PROVE  TypeOK'
  <2>1. IsConfig(copy) /\ fresh \in Nat
    OBVIOUS
  <2>2. IsConfig(SetAdminPassword(copy, p))
    BY <2>1, OwnerChanged
  <2>3. IsConfig(disk')
    BY <1>14, <2>1, <2>2, KeyChanged DEF CliWrite
  <2>4. fresh' \in Nat
    BY <1>14, DrawTypes DEF CliWrite
  <2>5. QED
    BY <1>14, <2>3, <2>4 DEF CliWrite, env
<1>15. ASSUME Restart
       PROVE  TypeOK'
  BY <1>15 DEF env, Restart
<1>16. ASSUME UNCHANGED vars
       PROVE  TypeOK'
  BY <1>16 DEF env, vars, told
<1>0. panel.passwords \subseteq Passwords /\ panel.roles \subseteq Roles
  BY PanelTypes
<1> HIDE DEF TypeOK
<1>17. QED
  BY <1>0, <1>1, <1>2, <1>3, <1>4, <1>5, <1>6, <1>7, <1>8, <1>9, <1>10, <1>11, <1>12, <1>13, <1>14, <1>15, <1>16 DEF Next

\* The types of the configurations, the cookies and the requests in flight hold
\* in every reachable state.
THEOREM TypeCorrect == Spec => []TypeOK
BY TypeInit, TypeStep, PTL DEF Spec

-----------------------------------------------------------------------------
(* The owner and the sessions.                                             *)

\* The inductive strengthening of RevokedStaysRevoked, for a panel beside
\* which reset-password has not run: no token or key in use is in the future,
\* so a change draws one that no cookie has.
SessionInv ==
  resets = 0 =>
    /\ fresh > 0
    /\ Bounded(mem, fresh) /\ Bounded(disk, fresh)
    /\ \A c \in cookies : c.token < fresh /\ c.key < fresh /\ c.era <= era[c.user]
    /\ \A q \in auths : q.token < fresh
    /\ cli = {}
    /\ RevokedStaysRevoked

Inv == TypeOK /\ OwnerIntact /\ SessionInv

\* A cookie made before the change is refused after it if it is one of the
\* changed account, or if it was refused already.
LEMMA ChangeRevokes ==
  ASSUME TypeOK, NEW u \in Users, NEW new, ChangeOf(new, u), NEW c \in cookies,
         c.token < fresh, c.key < fresh,
         c.user = u \/ ~ValidSession(mem, c)
  PROVE  ~ValidSession(new, c)
<1>1. c.user \in Users /\ c.token \in Nat /\ c.key \in Nat /\ fresh \in Nat /\ IsConfig(new) /\ IsConfig(mem)
  BY DEF TypeOK, Cookie, ChangeOf
<1>2. new.key \in Nat /\ UserSessionToken(new, c.user) \in Nat
  BY <1>1, ConfigFields, RecordTypes
<1>3. CASE new.key >= fresh
  BY <1>1, <1>2, <1>3 DEF ValidSession
<1>4. CASE /\ new.key = mem.key /\ new.admin = mem.admin
           /\ UserSessionToken(new, u) >= fresh \/ (u # Owner /\ u \notin Accounts(new))
           /\ SameTokens(new, Users \ {u})
  <2>1. CASE c.user = u
    BY <1>1, <1>2, <1>4, <2>1 DEF ValidSession, HasToken
  <2>2. CASE c.user # u
    BY <1>1, <1>4, <2>2 DEF ValidSession, HasToken, SameTokens
  <2>3. QED
    BY <2>1, <2>2
<1>5. QED
  BY <1>3, <1>4 DEF ChangeOf

\* A change of an account that was drawn a new token keeps the invariant of the sessions.
LEMMA ChangeKeeps ==
  ASSUME Inv, TypeOK', NEW u \in Users, NEW new, NEW promise, NEW saved \in BOOLEAN,
         ChangeOf(new, u), SaveChange(new, u, promise, saved),
         UNCHANGED <<cookies, cli, env>>, fresh' >= fresh,
         \A q \in auths' : q \in auths \/ q.token = 0
  PROVE  OwnerIntact' /\ SessionInv'
<1>1. mem' = new /\ disk' \in {disk, new}
  BY DEF SaveChange, Save, Written
<1>2. OwnerIntact'
  BY <1>1 DEF OwnerIntact, ChangeOf, Inv
<1>3. SessionInv'
  <2> SUFFICES ASSUME resets = 0
               PROVE  /\ fresh' > 0
                      /\ Bounded(new, fresh') /\ Bounded(disk, fresh')
                      /\ \A c \in cookies : c.token < fresh' /\ c.key < fresh' /\ c.era <= era'[c.user]
                      /\ \A q \in auths' : q.token < fresh'
                      /\ cli = {}
                      /\ RevokedStaysRevoked'
    BY <1>1 DEF env, SessionInv, Bounded, UserSessionToken, Accounts
  <2>1. fresh \in Nat /\ fresh' \in Nat /\ IsConfig(mem) /\ IsConfig(disk) /\ IsConfig(new)
    BY DEF Inv, TypeOK, ChangeOf
  <2>2. /\ fresh > 0 /\ Bounded(mem, fresh) /\ Bounded(disk, fresh)
        /\ \A c \in cookies : c.token < fresh /\ c.key < fresh /\ c.era <= era[c.user]
        /\ \A q \in auths : q.token < fresh
        /\ cli = {}
        /\ RevokedStaysRevoked
    BY DEF Inv, SessionInv
  <2>3. Bounded(new, fresh')
    BY <2>2 DEF ChangeOf
  <2>4. Bounded(disk, fresh')
    BY <2>1, <2>2, ConfigFields, RecordTypes DEF Bounded
  <2>5. \A c \in cookies : /\ c.user \in Users /\ c.token \in Nat /\ c.key \in Nat /\ c.era \in Nat
                           /\ era[c.user] \in Nat /\ era'[c.user] \in Nat
    BY DEF Inv, TypeOK, Cookie
  <2>6. \A c \in cookies : era'[c.user] = era[c.user] \/ (c.user = u /\ saved)
    BY <2>5 DEF SaveChange, Inv, TypeOK
  <2>7. \A c \in cookies : era'[c.user] >= era[c.user]
    BY <2>5 DEF SaveChange, Inv, TypeOK
  <2>8. \A c \in cookies : c.token < fresh' /\ c.key < fresh' /\ c.era <= era'[c.user]
    BY <2>1, <2>2, <2>5, <2>7
  <2>9. \A q \in auths' : q.token < fresh'
    BY <2>1, <2>2 DEF Inv, TypeOK, Auth
  <2>10. RevokedStaysRevoked'
    <3> SUFFICES ASSUME NEW c \in cookies, c.era < era'[c.user]
                 PROVE  ~ValidSession(new, c) /\ ~ValidSession(disk', c)
      BY <1>1 DEF RevokedStaysRevoked
    <3>1. CASE era'[c.user] = era[c.user]
      <4>1. ~ValidSession(mem, c) /\ ~ValidSession(disk, c)
        BY <2>2, <3>1 DEF RevokedStaysRevoked
      <4>2. ~ValidSession(new, c)
        BY <2>2, <4>1, ChangeRevokes DEF Inv
      <4>3. QED
        BY <1>1, <4>1, <4>2
    <3>2. CASE c.user = u /\ saved
      <4>1. ~ValidSession(new, c)
        BY <2>2, <3>2, ChangeRevokes DEF Inv
      <4>2. disk' = new
        BY <3>2 DEF SaveChange, Save, Written
      <4>3. QED
        BY <4>1, <4>2
    <3>3. QED
      BY <2>6, <3>1, <3>2
  <2>11. QED
    BY <2>1, <2>2, <2>3, <2>4, <2>8, <2>9, <2>10
<1>4. QED
  BY <1>2, <1>3

\* What leaves the sessions alone keeps the invariant of the sessions.
LEMMA SilentKeeps ==
  ASSUME Inv, NEW new, NEW saved \in BOOLEAN, SilentChange(new), SaveSilently(new, saved),
         UNCHANGED <<cookies, cli, env, fresh>>,
         \A q \in auths' : \E r \in auths : q.token = r.token
  PROVE  OwnerIntact' /\ SessionInv'
<1>1. mem' = new /\ disk' \in {disk, new} /\ era' = era
  BY DEF SaveSilently, Save, Written
<1>2. OwnerIntact'
  BY <1>1 DEF OwnerIntact, SilentChange, Inv
<1>3. Bounded(mem, fresh) => Bounded(new, fresh)
  BY DEF SilentChange, SameTokens, Bounded
<1>4. \A c \in cookies : ValidSession(new, c) <=> ValidSession(mem, c)
  BY DEF SilentChange, SameTokens, ValidSession, HasToken, Inv, TypeOK, Cookie
<1>5. RevokedStaysRevoked => RevokedStaysRevoked'
  BY <1>1, <1>4 DEF env, RevokedStaysRevoked
<1>6. QED
  BY <1>1, <1>2, <1>3, <1>5 DEF env, SessionInv, Inv, Bounded, UserSessionToken, Accounts

\* Steps that touch neither copy of the configuration.
LEMMA QuietKeeps ==
  ASSUME Inv, UNCHANGED <<mem, disk, cli, fresh, env, told>>,
         \A c \in cookies' : \/ c \in cookies
                             \/ c.token < fresh /\ c.key = mem.key /\ c.era = era[c.user] /\ c.user \in Users,
         \A q \in auths' : \/ \E r \in auths : q.token = r.token
                           \/ q.token = 0
                           \/ \E u \in Users : q.token = UserSessionToken(mem, u)
  PROVE  OwnerIntact' /\ SessionInv'
<1>1. OwnerIntact'
  BY DEF Inv, OwnerIntact, Intact, Accounts
<1>2. ASSUME resets = 0
      PROVE  /\ fresh > 0
             /\ Bounded(mem, fresh) /\ Bounded(disk, fresh)
             /\ \A c \in cookies' : c.token < fresh /\ c.key < fresh /\ c.era <= era[c.user]
             /\ \A q \in auths' : q.token < fresh
             /\ cli = {}
             /\ RevokedStaysRevoked'
  <2>1. /\ fresh > 0 /\ Bounded(mem, fresh) /\ Bounded(disk, fresh)
        /\ \A c \in cookies : c.token < fresh /\ c.key < fresh /\ c.era <= era[c.user]
        /\ \A q \in auths : q.token < fresh
        /\ cli = {}
        /\ RevokedStaysRevoked
    BY <1>2 DEF Inv, SessionInv
  <2>2. \A u \in Users : era[u] \in Nat
    BY DEF Inv, TypeOK
  <2>3. \A c \in cookies' : c.token < fresh /\ c.key < fresh /\ c.era <= era[c.user]
    BY <2>1, <2>2 DEF Bounded
  <2>4. \A q \in auths' : q.token < fresh
    BY <2>1 DEF Bounded, Inv, TypeOK
  <2>5. \A c \in cookies' : c.era < era[c.user] => c \in cookies
    BY <2>2
  <2>6. RevokedStaysRevoked'
    <3> SUFFICES ASSUME NEW c \in cookies', c.era < era[c.user]
                 PROVE  ~ValidSession(mem, c) /\ ~ValidSession(disk, c)
      BY DEF RevokedStaysRevoked, told, ValidSession, HasToken, UserSessionToken, Accounts
    <3>1. QED
      BY <1>2, <2>1, <2>5 DEF RevokedStaysRevoked
  <2>7. QED
    BY <2>1, <2>3, <2>4, <2>6
<1>3. SessionInv'
  BY <1>2 DEF env, SessionInv, told, Bounded, UserSessionToken, Accounts
<1>4. QED
  BY <1>1, <1>3

\* The invariant holds at the start.
LEMMA InvInit == Init => Inv
<1> SUFFICES ASSUME Init
             PROVE  Inv
  OBVIOUS
<1>1. TypeOK
  BY TypeInit
<1>2. Intact(mem) /\ mem.key = 0 /\ \A u \in Users : UserSessionToken(mem, u) = 0
  <2>1. CASE mem \in NotSetUp
    BY <2>1 DEF NotSetUp, Intact, UserSessionToken, Accounts
  <2>2. ASSUME NEW pws \in [Users -> Passwords], NEW roles, Owner \in DOMAIN roles, roles[Owner] = "admin",
               mem = Installed(pws, roles)
        PROVE  Intact(mem) /\ mem.key = 0 /\ \A u \in Users : UserSessionToken(mem, u) = 0
    BY <2>2 DEF Installed, Intact, UserSessionToken, Accounts
  <2>3. CASE mem \notin NotSetUp
    <3>0. panel.passwords \subseteq Passwords /\ panel.roles \subseteq Roles
      BY PanelTypes DEF Init
    <3>1. \E pws \in [Users -> Passwords],
             roles \in {f \in UNION {[S -> Roles] : S \in SUBSET Users} : Owner \in DOMAIN f /\ f[Owner] = "admin"} :
             mem = Installed(pws, roles)
      BY <2>3, <3>0 DEF Init, LoadedConfigs
    <3>2. QED
      BY <2>2, <3>1
  <2>4. QED
    BY <2>1, <2>3
<1>3. OwnerIntact
  BY <1>2 DEF Init, OwnerIntact
<1>4. SessionInv
  BY <1>2 DEF Init, SessionInv, Bounded, RevokedStaysRevoked
<1>5. QED
  BY <1>1, <1>3, <1>4 DEF Inv

\* Every step keeps the invariant.
LEMMA InvStep == Inv /\ [Next]_vars => Inv'
<1> SUFFICES ASSUME Inv, [Next]_vars
             PROVE  OwnerIntact' /\ SessionInv'
  BY TypeStep DEF Inv
<1>0. TypeOK /\ TypeOK' /\ fresh \in Nat
  BY TypeStep DEF Inv, TypeOK
<1>1. ASSUME NEW saved \in BOOLEAN, SaveOtherSettings(saved)
      PROVE  OwnerIntact' /\ SessionInv'
  BY <1>0, <1>1, NoChangeIsSilent, SilentKeeps DEF SaveOtherSettings
<1>2. ASSUME NEW saved \in BOOLEAN, NEW q \in auths, RehashUserPassword(q, saved)
      PROVE  OwnerIntact' /\ SessionInv'
  <2>1. SilentChange(Rehashed(mem, q.user, q.pw))
    BY <1>0, RehashIsSilent
  <2>2. \A x \in auths' : \E r \in auths : x.token = r.token
    <3>1. q \in Auth
      BY <1>0 DEF TypeOK
    <3>2. [q EXCEPT !.phase = "verified"].token = q.token
      BY <3>1 DEF Auth
    <3>3. QED
      BY <1>2, <3>2 DEF RehashUserPassword
  <2>3. SaveSilently(Rehashed(mem, q.user, q.pw), saved) /\ UNCHANGED <<cookies, cli, env, fresh>>
    BY <1>2 DEF RehashUserPassword
  <2>4. QED
    BY <2>1, <2>2, <2>3, SilentKeeps
<1>3. ASSUME NEW saved \in BOOLEAN, NEW p \in Passwords, Setup(p, saved)
      PROVE  OwnerIntact' /\ SessionInv'
  <2>1. PICK new : ChangeOf(new, Owner) /\ SaveChange(new, Owner, Promised(p, "admin"), saved)
    BY <1>0, <1>3, SetupChanges
  <2>2. fresh' >= fresh /\ UNCHANGED <<cookies, cli, env>> /\ \A x \in auths' : x \in auths \/ x.token = 0
    BY <1>0, <1>3, DrawTypes DEF Setup
  <2>3. QED
    BY <1>0, <2>1, <2>2, ChangeKeeps, AccountsAssumption
<1>4. ASSUME NEW saved \in BOOLEAN, NEW p \in Passwords, NEW q \in auths, ChangeOwnerPassword(q, p, saved)
      PROVE  OwnerIntact' /\ SessionInv'
  <2>1. PICK new : ChangeOf(new, Owner) /\ SaveChange(new, Owner, Promised(p, "admin"), saved)
    BY <1>0, <1>4, OwnerPasswordChanges
  <2>2. fresh' >= fresh /\ UNCHANGED <<cookies, cli, env>> /\ \A x \in auths' : x \in auths \/ x.token = 0
    BY <1>0, <1>4, DrawTypes DEF ChangeOwnerPassword
  <2>3. QED
    BY <1>0, <2>1, <2>2, ChangeKeeps, AccountsAssumption
<1>5. ASSUME NEW saved \in BOOLEAN, NEW q \in changes, NEW p \in Passwords, NEW role \in Roles,
             CreateUser(q, p, role, saved) \/ UpdateUser(q, p, role, saved)
      PROVE  OwnerIntact' /\ SessionInv'
  <2>1. \/ UNCHANGED <<mem, disk, fresh, told>>
        \/ \E new, promise : ChangeOf(new, q.target) /\ SaveChange(new, q.target, promise, saved)
    BY <1>0, <1>5, CreateUserChanges, UpdateUserChanges
  <2>2. UNCHANGED <<cookies, auths, cli, env>>
    BY <1>5 DEF CreateUser, UpdateUser
  <2>3. fresh' >= fresh
    BY <1>0, <1>5, DrawTypes DEF CreateUser, UpdateUser
  <2>4. q.target \in Users
    BY <1>0 DEF TypeOK, Change
  <2>5. CASE UNCHANGED <<mem, disk, fresh, told>>
    BY <2>2, <2>5, QuietKeeps
  <2>6. CASE \E new, promise : ChangeOf(new, q.target) /\ SaveChange(new, q.target, promise, saved)
    BY <1>0, <2>2, <2>3, <2>4, <2>6, ChangeKeeps
  <2>7. QED
    BY <2>1, <2>5, <2>6
<1>6. ASSUME NEW u \in Users, Login(u)
      PROVE  OwnerIntact' /\ SessionInv'
  BY <1>6, QuietKeeps DEF Login, Authenticated
<1>7. ASSUME NEW q \in auths, ReadToken(q)
      PROVE  OwnerIntact' /\ SessionInv'
  <2>1. q \in Auth /\ q.user \in Users
    BY <1>0 DEF TypeOK, Auth
  <2>2. [q EXCEPT !.phase = "token", !.token = UserSessionToken(mem, q.user)].token = UserSessionToken(mem, q.user)
    BY <2>1 DEF Auth
  <2>3. QED
    BY <1>7, <2>1, <2>2, QuietKeeps DEF ReadToken
<1>8. ASSUME NEW q \in auths, SetSession(q)
      PROVE  OwnerIntact' /\ SessionInv'
  <2>1. q.user \in Users
    BY <1>0 DEF TypeOK, Auth
  <2>2. CASE resets = 0
    <3>1. q.token < fresh
      BY <2>2 DEF Inv, SessionInv
    <3>2. QED
      BY <1>8, <2>1, <3>1, QuietKeeps DEF SetSession
  <2>3. CASE resets # 0
    <3>1. mem' = mem /\ disk' = disk /\ resets' = resets
      BY <1>8 DEF env, SetSession
    <3>2. QED
      BY <2>3, <3>1 DEF SessionInv, Inv, OwnerIntact
  <2>4. QED
    BY <2>2, <2>3
<1>9. ASSUME NEW c \in cookies, NEW op \in Operation, NEW t \in Users, BeginChange(c, op, t)
      PROVE  OwnerIntact' /\ SessionInv'
  BY <1>9, QuietKeeps DEF BeginChange
<1>10. ASSUME NEW q \in changes, NameCaller(q) \/ CheckCurrentPassword(q)
       PROVE  OwnerIntact' /\ SessionInv'
  BY <1>10, QuietKeeps DEF NameCaller, CheckCurrentPassword, Authenticated
<1>11. ASSUME CliRead
       PROVE  OwnerIntact' /\ SessionInv'
  <2>1. resets' # 0
    BY <1>0, <1>11 DEF CliRead, TypeOK
  <2>2. QED
    BY <1>11, <2>1 DEF CliRead, SessionInv, Inv, OwnerIntact, Intact, Accounts
<1>12. ASSUME NEW copy \in cli, NEW p \in Passwords, CliWrite(copy, p)
       PROVE  OwnerIntact' /\ SessionInv'
  <2>1. IsConfig(copy) /\ fresh \in Nat
    BY <1>0 DEF TypeOK
  <2>2. IsConfig(SetAdminPassword(copy, p)) /\ Intact(SetAdminPassword(copy, p))
    BY <2>1, OwnerChanged
  <2>3. Intact(NewKey(SetAdminPassword(copy, p), fresh))
    BY <2>1, <2>2, KeyChanged DEF Intact, Accounts
  <2>4. resets # 0 /\ resets' = resets
    BY <1>12 DEF env, CliWrite, Inv, SessionInv
  <2>5. QED
    BY <1>12, <2>3, <2>4 DEF CliWrite, SessionInv, Inv, OwnerIntact, Intact, Accounts
<1>13. ASSUME Restart
       PROVE  OwnerIntact' /\ SessionInv'
  <2>1. OwnerIntact'
    BY <1>13 DEF Restart, Inv, OwnerIntact, Intact, Accounts
  <2>2. SessionInv'
    BY <1>13 DEF env, Restart, Inv, SessionInv, RevokedStaysRevoked, Bounded, UserSessionToken, Accounts,
                 ValidSession, HasToken
  <2>3. QED
    BY <2>1, <2>2
<1>14. ASSUME UNCHANGED vars
       PROVE  OwnerIntact' /\ SessionInv'
  BY <1>14, QuietKeeps DEF vars
<1>15. panel.passwords \subseteq Passwords /\ panel.roles \subseteq Roles
  BY <1>0, PanelTypes DEF TypeOK
<1>16. QED
  BY <1>1, <1>2, <1>3, <1>4, <1>5, <1>6, <1>7, <1>8, <1>9, <1>10, <1>11, <1>12, <1>13, <1>14, <1>15 DEF Next

\* The owner's record and the two copies of the owner's hash survive every
\* sequence of changes, failed saves, rehashes, resets and restarts.
THEOREM OwnerSafe == Spec => []OwnerIntact
<1>1. Inv => OwnerIntact
  BY DEF Inv
<1>2. QED
  BY <1>1, InvInit, InvStep, PTL DEF Spec

\* As long as reset-password has not been run beside it, the panel refuses
\* every session that was handed out before an acknowledged change of its
\* account, now and after any restart.
THEOREM SessionsRevoked == Spec => []RevokedStaysRevoked
<1>1. Inv => RevokedStaysRevoked
  BY DEF Inv, SessionInv, RevokedStaysRevoked
<1>2. QED
  BY <1>1, InvInit, InvStep, PTL DEF Spec

-----------------------------------------------------------------------------
(* Restarts and changes.                                                   *)

\* A panel that is not set up has no accounts, nobody logged in and no file that
\* reset-password could read.
SetUpInv ==
  /\ ~mem.admin => Accounts(mem) = {}
  /\ ~disk.admin => Accounts(disk) = {}
  /\ \A copy \in cli : copy.admin
  /\ auths # {} \/ changes # {} => mem.admin

\* Tokens and keys are of the past, in the copies that reset-password works on too; until
\* the restart after it, the key it drew is in the file only.
ResetInv ==
  /\ fresh > 0
  /\ Bounded(mem, fresh) /\ Bounded(disk, fresh) /\ \A copy \in cli : Bounded(copy, fresh)
  /\ \A c \in cookies : c.key < fresh
  /\ pending => /\ mem.key # disk.key /\ \A c \in cookies : c.key # disk.key
                /\ disk.users[Owner].hash.pw \in reset

RestartInv == Inv /\ SetUpInv /\ ResetInv /\ NothingUnsaved

\* A record that is put into a directory is what the account's user sees, and nobody else.
LEMMA PutView ==
  ASSUME NEW cfg, IsConfig(cfg), NEW new, NEW u \in Users, NEW rec \in UserRecord, new.users = Put(cfg.users, u, rec)
  PROVE  /\ View(new, u) = {[pw |-> rec.hash.pw, role |-> rec.role]}
         /\ \A x \in Users \ {u} : View(new, x) = View(cfg, x)
<1>1. /\ DOMAIN new.users = DOMAIN cfg.users \cup {u} /\ new.users[u] = rec
      /\ \A x \in DOMAIN cfg.users : x # u => new.users[x] = cfg.users[x]
  BY ConfigFields, PutDirectory
<1>2. QED
  BY <1>1 DEF View, Accounts

\* A record that is dropped is missed by the account's user, and nobody else.
LEMMA DropView ==
  ASSUME NEW cfg, IsConfig(cfg), NEW new, NEW u \in Users, new.users = Drop(cfg.users, u)
  PROVE  View(new, u) = {} /\ \A x \in Users \ {u} : View(new, x) = View(cfg, x)
<1>0. IsDirectory(cfg.users)
  BY ConfigFields
<1>1. /\ DOMAIN new.users = DOMAIN cfg.users \ {u}
      /\ \A x \in DOMAIN cfg.users : x # u => new.users[x] = cfg.users[x]
  BY <1>0, DropDirectory
<1>2. QED
  BY <1>1 DEF View, Accounts

\* The change of the account u has been made in memory as promised, and no other.
Fulfilled(u, promise) ==
  mem'.admin /\ View(mem', u) = promise /\ \A x \in Users \ {u} : View(mem', x) = View(mem, x)

\* The setup gives the panel its first account.
LEMMA SetupFulfils ==
  ASSUME TypeOK, SetUpInv, NEW p \in Passwords, NEW saved \in BOOLEAN, Setup(p, saved)
  PROVE  Fulfilled(Owner, Promised(p, "admin"))
<1> DEFINE rec == [hash |-> HashPassword(p), role |-> "admin", token |-> fresh]
<1>1. /\ mem'.admin /\ mem'.users = Put([u \in {} |-> 0], Owner, rec) /\ Accounts(mem) = {}
  BY DEF Setup, SaveChange, Save, SetUpInv
<1>2. DOMAIN mem'.users = {Owner} /\ mem'.users[Owner] = rec
  BY <1>1 DEF Put
<1>3. rec.hash.pw = p /\ rec.role = "admin"
  BY DEF HashPassword
<1> HIDE DEF rec
<1>4. View(mem', Owner) = Promised(p, "admin")
  BY <1>2, <1>3 DEF View, Accounts, Promised
<1>5. \A x \in Users \ {Owner} : View(mem', x) = {} /\ View(mem, x) = {}
  BY <1>1, <1>2 DEF View, Accounts
<1>6. QED
  BY <1>1, <1>4, <1>5 DEF Fulfilled

\* So does a creation, for one account more.
LEMMA CreateFulfils ==
  ASSUME TypeOK, SetUpInv, NEW q \in changes, NEW p \in Passwords, NEW role \in Roles, NEW saved \in BOOLEAN,
         CreateUser(q, p, role, saved)
  PROVE  \/ UNCHANGED <<mem, disk, fresh, told>>
         \/ SaveChange(mem', q.target, Promised(p, role), saved) /\ Fulfilled(q.target, Promised(p, role))
<1> DEFINE rec == [hash |-> HashPassword(p), role |-> role, token |-> fresh]
           new == [mem EXCEPT !.users = Put(@, q.target, rec)]
<1> SUFFICES ASSUME SaveChange(new, q.target, Promised(p, role), saved)
             PROVE  SaveChange(mem', q.target, Promised(p, role), saved) /\ Fulfilled(q.target, Promised(p, role))
  BY DEF CreateUser
<1>1. mem' = new /\ fresh \in Nat /\ q.target \in Users /\ IsConfig(mem) /\ mem.admin
  BY DEF TypeOK, Change, SaveChange, Save, SetUpInv
<1>2. rec \in UserRecord /\ rec.hash.pw = p /\ rec.role = role
  BY <1>1, HashTypes DEF UserRecord, HashPassword
<1> HIDE DEF rec
<1>3. new.users = Put(mem.users, q.target, rec) /\ new.admin = mem.admin
  <2>1. mem = [admin |-> mem.admin, users |-> mem.users, ownerHash |-> mem.ownerHash, key |-> mem.key]
    BY <1>1, ConfigFields
  <2>2. QED
    BY <2>1
<1> HIDE DEF new
<1>4. View(mem', q.target) = Promised(p, role) /\ \A x \in Users \ {q.target} : View(mem', x) = View(mem, x)
  BY <1>1, <1>2, <1>3, PutView DEF Promised
<1>5. QED
  BY <1>1, <1>3, <1>4 DEF Fulfilled

\* An update or deletion does what it promises to the account it names.
LEMMA UpdateFulfils ==
  ASSUME TypeOK, SetUpInv, NEW q \in changes, NEW p \in Passwords, NEW role \in Roles, NEW saved \in BOOLEAN,
         UpdateUser(q, p, role, saved)
  PROVE  \/ UNCHANGED <<mem, disk, fresh, told>>
         \/ SaveChange(mem', q.target, Promise(q, p, role), saved) /\ Fulfilled(q.target, Promise(q, p, role))
<1> DEFINE new == [mem EXCEPT !.users = Updated(q, p, role, fresh)]
           user == mem.users[q.target]
<1> SUFFICES ASSUME MayUpdate(q), SaveChange(new, q.target, Promise(q, p, role), saved)
             PROVE  SaveChange(mem', q.target, Promise(q, p, role), saved) /\ Fulfilled(q.target, Promise(q, p, role))
  BY DEF UpdateUser
<1>1. /\ mem' = new /\ fresh \in Nat /\ q.target \in Users /\ IsConfig(mem) /\ mem.admin
      /\ q.op \in {"delete", "role", "password"}
  BY DEF TypeOK, Change, SaveChange, Save, SetUpInv, UpdateUser
<1>2. user \in UserRecord
  BY <1>1, RecordTypes DEF MayUpdate
<1>3. CASE q.op = "delete"
  <2>1. Updated(q, p, role, fresh) = Drop(mem.users, q.target) /\ Promise(q, p, role) = {}
    BY <1>3 DEF Updated, Promise
  <2>2. new.users = Drop(mem.users, q.target) /\ new.admin = mem.admin
    <3>1. new = [mem EXCEPT !.users = Drop(mem.users, q.target)] /\ IsDirectory(mem.users)
      BY <1>1, <2>1, ConfigFields
    <3>2. IsDirectory(Drop(mem.users, q.target))
      BY <1>1, <3>1, DropDirectory
    <3> HIDE DEF new
    <3>3. QED
      BY <1>1, <3>1, <3>2, DirectoryChanged
  <2> HIDE DEF new
  <2>3. View(mem', q.target) = {} /\ \A x \in Users \ {q.target} : View(mem', x) = View(mem, x)
    BY <1>1, <2>2, DropView
  <2>4. QED
    BY <1>1, <2>1, <2>2, <2>3 DEF Fulfilled
<1>4. CASE q.op # "delete"
  <2> DEFINE rec == IF q.op = "role" THEN [user EXCEPT !.role = role, !.token = fresh]
                                     ELSE [user EXCEPT !.hash = HashPassword(p), !.token = fresh]
  <2>1. rec \in UserRecord /\ Promise(q, p, role) = {[pw |-> rec.hash.pw, role |-> rec.role]}
    <3>1. CASE q.op = "role"
      BY <1>1, <1>2, <3>1 DEF UserRecord, Promise, Promised
    <3>2. CASE q.op = "password"
      BY <1>1, <1>2, <3>2, HashTypes DEF UserRecord, Promise, Promised, HashPassword
    <3>3. QED
      BY <1>1, <1>4, <3>1, <3>2
  <2>2. Updated(q, p, role, fresh) = Put(mem.users, q.target, rec)
    BY <1>1, <1>4 DEF Updated
  <2> HIDE DEF rec
  <2>3. new.users = Put(mem.users, q.target, rec) /\ new.admin = mem.admin
    <3>1. new = [mem EXCEPT !.users = Put(mem.users, q.target, rec)] /\ IsDirectory(mem.users)
      BY <1>1, <2>2, ConfigFields
    <3>2. IsDirectory(Put(mem.users, q.target, rec))
      BY <1>1, <2>1, <3>1, PutDirectory
    <3> HIDE DEF new
    <3>3. QED
      BY <1>1, <3>1, <3>2, DirectoryChanged
  <2> HIDE DEF new
  <2>4. View(mem', q.target) = Promise(q, p, role) /\ \A x \in Users \ {q.target} : View(mem', x) = View(mem, x)
    BY <1>1, <2>1, <2>3, PutView
  <2>5. QED
    BY <1>1, <2>3, <2>4 DEF Fulfilled
<1>5. QED
  BY <1>3, <1>4

\* The settings change the password of the owner.
LEMMA OwnerFulfils ==
  ASSUME TypeOK, SetUpInv, NEW q \in auths, NEW p \in Passwords, NEW saved \in BOOLEAN, ChangeOwnerPassword(q, p, saved)
  PROVE  Fulfilled(Owner, Promised(p, "admin"))
<1> DEFINE set == SetAdminPassword(mem, p)
           owner == [hash |-> HashPassword(p), role |-> "admin", token |-> UserSessionToken(mem, Owner)]
<1>1. mem' = NewKey(set, fresh) /\ IsConfig(mem) /\ mem.admin /\ fresh \in Nat
  BY DEF TypeOK, ChangeOwnerPassword, SaveChange, Save, SetUpInv
<1>2. IsConfig(set) /\ set.admin = mem.admin
  BY <1>1, OwnerChanged
<1>3. set.users = Put(mem.users, Owner, owner)
  BY DEF SetAdminPassword, WithOwnerHash
<1>4. owner \in UserRecord /\ owner.hash.pw = p /\ owner.role = "admin" /\ Owner \in Users
  BY <1>1, RecordTypes, HashTypes, AccountsAssumption DEF UserRecord, HashPassword
<1> HIDE DEF set, owner
<1>5. mem'.users = set.users /\ mem'.admin
  BY <1>1, <1>2, KeyChanged
<1>6. View(mem', Owner) = Promised(p, "admin") /\ \A x \in Users \ {Owner} : View(mem', x) = View(mem, x)
  BY <1>1, <1>3, <1>4, <1>5, PutView DEF Promised
<1>7. QED
  BY <1>5, <1>6 DEF Fulfilled

\* A rehash changes what one account's user sees at most: and of the directory, nothing
\* but hashes.
LEMMA RehashSeen ==
  ASSUME NEW cfg, IsConfig(cfg), NEW u \in Users, NEW p \in Passwords
  PROVE  /\ \A x \in Users \ {u} : View(Rehashed(cfg, u, p), x) = View(cfg, x)
         /\ Directory(Rehashed(cfg, u, p)) = Directory(cfg)
<1> DEFINE rec == [cfg.users[u] EXCEPT !.hash = HashPassword(p)]
           new == Rehashed(cfg, u, p)
<1>1. new.key = cfg.key /\ Accounts(new) = Accounts(cfg)
  BY RehashChanged
<1>2. /\ \A x \in Accounts(cfg) : x # u => new.users[x] = cfg.users[x]
      /\ u \in Accounts(cfg) => new.users[u].role = cfg.users[u].role /\ new.users[u].token = cfg.users[u].token
  <2>1. CASE u \in Accounts(cfg)
    <3>1. rec \in UserRecord /\ rec.role = cfg.users[u].role /\ rec.token = cfg.users[u].token
      BY <2>1, RecordTypes, HashTypes DEF UserRecord
    <3>2. new.users = Put(cfg.users, u, rec)
      BY <2>1 DEF Rehashed, WithOwnerHash
    <3> HIDE DEF rec, new
    <3>3. DOMAIN new.users = DOMAIN cfg.users \cup {u}
      BY <3>2 DEF Put
    <3>4. new.users[u] = rec /\ \A x \in DOMAIN cfg.users : x # u => new.users[x] = cfg.users[x]
      BY <3>2 DEF Put
    <3>5. QED
      BY <3>1, <3>4 DEF Accounts
  <2>2. CASE u \notin Accounts(cfg)
    <3>1. new.users = cfg.users
      BY <2>2 DEF Rehashed, WithOwnerHash
    <3>2. QED
      BY <2>2, <3>1 DEF Accounts
  <2>3. QED
    BY <2>1, <2>2
<1> HIDE DEF new
<1>3. \A x \in Users \ {u} : View(new, x) = View(cfg, x)
  BY <1>1, <1>2 DEF View
<1>4. \A x \in Accounts(cfg) : new.users[x].role = cfg.users[x].role /\ new.users[x].token = cfg.users[x].token
  BY <1>2
<1>5. Directory(new) = Directory(cfg)
  BY <1>1, <1>4 DEF Directory
<1>6. QED
  BY <1>3, <1>5 DEF new

\* Tokens and keys that are of the past stay so.
LEMMA BoundedLonger ==
  ASSUME NEW cfg, IsConfig(cfg), NEW m \in Nat, NEW n \in Nat, Bounded(cfg, m), n >= m
  PROVE  Bounded(cfg, n)
BY ConfigFields, RecordTypes DEF Bounded

\* A change of an account, saved or not, keeps the invariants of the restarts.
LEMMA ChangeRestarts ==
  ASSUME RestartInv, TypeOK', NEW u \in Users, NEW promise, NEW saved \in BOOLEAN,
         ChangeOf(mem', u), SaveChange(mem', u, promise, saved), mem'.admin,
         UNCHANGED <<cookies, cli, env>>, fresh' >= fresh
  PROVE  SetUpInv' /\ ResetInv' /\ NothingUnsaved'
<1>1. /\ TypeOK /\ SetUpInv /\ ResetInv /\ fresh \in Nat /\ fresh' \in Nat
      /\ IsConfig(disk) /\ IsConfig(mem) /\ IsConfig(mem')
  BY DEF RestartInv, Inv, TypeOK, ChangeOf
<1>2. disk' = (IF saved THEN mem' ELSE disk) /\ pending' = (pending /\ ~saved) /\ reset' = reset
  BY DEF SaveChange, Save, Written
<1>3. SetUpInv'
  BY <1>1, <1>2 DEF SetUpInv, Accounts
<1>4. ResetInv'
  <2>1. Bounded(mem', fresh') /\ Bounded(disk, fresh')
    BY <1>1, BoundedLonger DEF ResetInv, ChangeOf
  <2>2. \A copy \in cli : Bounded(copy, fresh')
    BY <1>1, BoundedLonger DEF ResetInv, TypeOK
  <2>3. \A c \in cookies : c.key < fresh'
    BY <1>1 DEF ResetInv, TypeOK, Cookie
  <2>4. ASSUME pending'
        PROVE  /\ mem'.key # disk.key /\ disk' = disk
               /\ \A c \in cookies : c.key # disk.key
               /\ disk.users[Owner].hash.pw \in reset
    <3>0. pending /\ ~saved
      BY <1>2, <2>4
    <3>1. /\ mem.key # disk.key /\ disk.key < fresh
          /\ \A c \in cookies : c.key # disk.key
          /\ disk.users[Owner].hash.pw \in reset
      BY <1>1, <3>0 DEF ResetInv, Bounded
    <3>2. mem'.key >= fresh \/ mem'.key = mem.key
      BY DEF ChangeOf
    <3>3. disk.key \in Nat /\ mem'.key \in Nat
      BY <1>1, ConfigFields
    <3>4. mem'.key # disk.key
      BY <1>1, <3>1, <3>2, <3>3
    <3>5. QED
      BY <1>2, <3>0, <3>1, <3>4
  <2>5. fresh' > 0
    BY <1>1 DEF ResetInv
  <2>6. Bounded(disk', fresh') /\ cookies' = cookies /\ cli' = cli
    BY <1>2, <2>1
  <2>7. QED
    BY <1>2, <2>1, <2>2, <2>3, <2>4, <2>5, <2>6 DEF ResetInv, Bounded, UserSessionToken, Accounts
<1>5. NothingUnsaved'
  <2>1. CASE saved
    BY <1>2, <2>1 DEF NothingUnsaved, Directory, Accounts
  <2>2. CASE ~saved
    <3>1. unacked'[u] = unacked[u] \cup {promise}
      BY <1>1, <2>2 DEF SaveChange, TypeOK
    <3>2. QED
      BY <3>1 DEF NothingUnsaved
  <2>3. QED
    BY <2>1, <2>2
<1>6. QED
  BY <1>3, <1>4, <1>5

\* A save that changes hashes at most keeps the invariants of the restarts.
LEMMA SilentRestarts ==
  ASSUME RestartInv, NEW new, NEW saved \in BOOLEAN, SilentChange(new), Directory(new) = Directory(mem), mem.admin,
         SaveSilently(new, saved), UNCHANGED <<cookies, cli, env, fresh>>
  PROVE  SetUpInv' /\ ResetInv' /\ NothingUnsaved'
<1>1. /\ mem' = new /\ disk' = (IF saved THEN new ELSE disk) /\ pending' = (pending /\ ~saved)
      /\ UNCHANGED <<reset, unacked>>
  BY DEF SaveSilently, Save, Written
<1>2. /\ TypeOK /\ SetUpInv /\ ResetInv /\ NothingUnsaved
      /\ new.admin /\ new.key = mem.key
  BY DEF RestartInv, Inv, SilentChange
<1>3. SetUpInv'
  BY <1>1, <1>2 DEF SetUpInv, Accounts
<1>4. ResetInv'
  <2>1. Bounded(new, fresh)
    BY <1>2 DEF ResetInv, SilentChange, SameTokens, Bounded
  <2>2. QED
    BY <1>1, <1>2, <2>1 DEF ResetInv, Bounded, UserSessionToken, Accounts
<1>5. NothingUnsaved'
  <2>1. CASE saved
    BY <1>1, <2>1 DEF NothingUnsaved, Directory, Accounts
  <2>2. CASE ~saved
    BY <1>1, <1>2, <2>2 DEF env, NothingUnsaved, Directory, Accounts
  <2>3. QED
    BY <2>1, <2>2
<1>6. QED
  BY <1>3, <1>4, <1>5

\* So do the steps that touch neither copy of the configuration.
LEMMA QuietRestarts ==
  ASSUME RestartInv, UNCHANGED <<mem, disk, cli, fresh, env, told>>,
         \A c \in cookies' : c \in cookies \/ c.key = mem.key,
         auths' # {} \/ changes' # {} => mem.admin
  PROVE  SetUpInv' /\ ResetInv' /\ NothingUnsaved'
<1>1. SetUpInv'
  BY DEF RestartInv, SetUpInv, Accounts
<1>2. ResetInv'
  BY DEF RestartInv, ResetInv, Bounded, UserSessionToken, Accounts, told
<1>3. NothingUnsaved'
  BY DEF RestartInv, NothingUnsaved, Directory, Accounts, told, env
<1>4. QED
  BY <1>1, <1>2, <1>3

\* The invariants of the restarts hold at the start.
LEMMA RestartInit == Init => RestartInv
<1> SUFFICES ASSUME Init
             PROVE  RestartInv
  OBVIOUS
<1>1. Inv /\ TypeOK
  BY InvInit DEF Inv
<1>2. ~mem.admin => Accounts(mem) = {}
  <2>1. CASE mem \in NotSetUp
    BY <2>1 DEF NotSetUp, Accounts
  <2>2. CASE mem \notin NotSetUp
    BY <2>2 DEF Init, LoadedConfigs, Installed
  <2>3. QED
    BY <2>1, <2>2
<1>3. SetUpInv
  BY <1>2 DEF Init, SetUpInv
<1>4. mem.key = 0 /\ \A u \in Users : UserSessionToken(mem, u) = 0
  <2>1. CASE mem \in NotSetUp
    BY <2>1 DEF NotSetUp, UserSessionToken, Accounts
  <2>2. CASE mem \notin NotSetUp
    BY <2>2 DEF Init, LoadedConfigs, Installed, UserSessionToken, Accounts
  <2>3. QED
    BY <2>1, <2>2
<1>5. ResetInv
  BY <1>4 DEF Init, ResetInv, Bounded
<1>6. NothingUnsaved
  BY DEF Init, NothingUnsaved
<1>7. QED
  BY <1>1, <1>3, <1>5, <1>6 DEF RestartInv

\* Every step keeps the invariants of the restarts.
LEMMA RestartStep == RestartInv /\ [Next]_vars => RestartInv'
<1> SUFFICES ASSUME RestartInv, [Next]_vars
             PROVE  SetUpInv' /\ ResetInv' /\ NothingUnsaved'
  BY InvStep DEF RestartInv
<1>0. TypeOK /\ TypeOK' /\ SetUpInv /\ ResetInv /\ NothingUnsaved /\ fresh \in Nat
  BY TypeStep DEF RestartInv, Inv, TypeOK
<1>1. ASSUME NEW saved \in BOOLEAN, SaveOtherSettings(saved)
      PROVE  SetUpInv' /\ ResetInv' /\ NothingUnsaved'
  BY <1>0, <1>1, NoChangeIsSilent, SilentRestarts DEF SaveOtherSettings
<1>2. ASSUME NEW saved \in BOOLEAN, NEW q \in auths, RehashUserPassword(q, saved)
      PROVE  SetUpInv' /\ ResetInv' /\ NothingUnsaved'
  <2>1. SilentChange(Rehashed(mem, q.user, q.pw))
    BY <1>0, RehashIsSilent
  <2>2. IsConfig(mem) /\ q.user \in Users /\ q.pw \in Passwords /\ mem.admin
    BY <1>0 DEF TypeOK, Auth, SetUpInv
  <2>3. Directory(Rehashed(mem, q.user, q.pw)) = Directory(mem)
    BY <2>2, RehashSeen
  <2>4. SaveSilently(Rehashed(mem, q.user, q.pw), saved) /\ UNCHANGED <<cookies, cli, env, fresh>>
    BY <1>2 DEF RehashUserPassword
  <2>5. QED
    BY <2>1, <2>2, <2>3, <2>4, SilentRestarts
<1>3. ASSUME NEW saved \in BOOLEAN, NEW p \in Passwords, Setup(p, saved)
      PROVE  SetUpInv' /\ ResetInv' /\ NothingUnsaved'
  <2>1. PICK new : ChangeOf(new, Owner) /\ SaveChange(new, Owner, Promised(p, "admin"), saved)
    BY <1>0, <1>3, SetupChanges
  <2>2. fresh' >= fresh /\ UNCHANGED <<cookies, cli, env>>
    BY <1>0, <1>3, DrawTypes DEF Setup
  <2>3. mem'.admin
    BY <1>0, <1>3, SetupFulfils DEF Fulfilled
  <2>4. mem' = new
    BY <2>1 DEF SaveChange, Save
  <2>5. QED
    BY <1>0, <2>1, <2>2, <2>3, <2>4, ChangeRestarts, AccountsAssumption
<1>4. ASSUME NEW saved \in BOOLEAN, NEW p \in Passwords, NEW q \in auths, ChangeOwnerPassword(q, p, saved)
      PROVE  SetUpInv' /\ ResetInv' /\ NothingUnsaved'
  <2>1. PICK new : ChangeOf(new, Owner) /\ SaveChange(new, Owner, Promised(p, "admin"), saved)
    BY <1>0, <1>4, OwnerPasswordChanges
  <2>2. fresh' >= fresh /\ UNCHANGED <<cookies, cli, env>>
    BY <1>0, <1>4, DrawTypes DEF ChangeOwnerPassword
  <2>3. mem'.admin
    BY <1>0, <1>4, OwnerFulfils DEF Fulfilled
  <2>4. mem' = new
    BY <2>1 DEF SaveChange, Save
  <2>5. QED
    BY <1>0, <2>1, <2>2, <2>3, <2>4, ChangeRestarts, AccountsAssumption
<1>5. ASSUME NEW saved \in BOOLEAN, NEW q \in changes, NEW p \in Passwords, NEW role \in Roles,
             CreateUser(q, p, role, saved) \/ UpdateUser(q, p, role, saved)
      PROVE  SetUpInv' /\ ResetInv' /\ NothingUnsaved'
  <2>1. \/ UNCHANGED <<mem, disk, fresh, told>>
        \/ \E new, promise : ChangeOf(new, q.target) /\ SaveChange(new, q.target, promise, saved)
    BY <1>0, <1>5, CreateUserChanges, UpdateUserChanges
  <2>2. UNCHANGED <<cookies, auths, cli, env>> /\ changes' \subseteq changes
    BY <1>5 DEF CreateUser, UpdateUser
  <2>3. fresh' >= fresh
    BY <1>0, <1>5, DrawTypes DEF CreateUser, UpdateUser
  <2>4. q.target \in Users /\ mem.admin
    BY <1>0 DEF TypeOK, Change, SetUpInv
  <2>5. CASE UNCHANGED <<mem, disk, fresh, told>>
    BY <2>2, <2>4, <2>5, QuietRestarts
  <2>6. CASE ~UNCHANGED <<mem, disk, fresh, told>>
    <3>1. PICK new, promise : ChangeOf(new, q.target) /\ SaveChange(new, q.target, promise, saved)
      BY <2>1, <2>6
    <3>2. mem'.admin
      BY <1>0, <1>5, <2>6, CreateFulfils, UpdateFulfils DEF Fulfilled
    <3>3. mem' = new
      BY <3>1 DEF SaveChange, Save
    <3>4. QED
      BY <1>0, <2>2, <2>3, <2>4, <3>1, <3>2, <3>3, ChangeRestarts
  <2>7. QED
    BY <2>5, <2>6
<1>6. ASSUME NEW u \in Users, Login(u)
      PROVE  SetUpInv' /\ ResetInv' /\ NothingUnsaved'
  BY <1>6, QuietRestarts DEF Login, HasHash
<1>7. ASSUME NEW q \in auths, ReadToken(q) \/ SetSession(q)
      PROVE  SetUpInv' /\ ResetInv' /\ NothingUnsaved'
  <2>1. mem.admin
    BY <1>0 DEF SetUpInv
  <2>2. UNCHANGED <<mem, disk, cli, fresh, env, told>> /\ \A c \in cookies' : c \in cookies \/ c.key = mem.key
    BY <1>7 DEF ReadToken, SetSession
  <2>3. QED
    BY <2>1, <2>2, QuietRestarts
<1>8. ASSUME NEW c \in cookies, NEW op \in Operation, NEW t \in Users, BeginChange(c, op, t)
      PROVE  SetUpInv' /\ ResetInv' /\ NothingUnsaved'
  BY <1>8, QuietRestarts DEF BeginChange, IsAdmin
<1>9. ASSUME NEW q \in changes, NameCaller(q) \/ CheckCurrentPassword(q)
      PROVE  SetUpInv' /\ ResetInv' /\ NothingUnsaved'
  <2>1. mem.admin
    BY <1>0 DEF SetUpInv
  <2>2. UNCHANGED <<mem, disk, cli, fresh, env, told, cookies>>
    BY <1>9 DEF NameCaller, CheckCurrentPassword
  <2>3. QED
    BY <2>1, <2>2, QuietRestarts
<1>10. ASSUME CliRead
       PROVE  SetUpInv' /\ ResetInv' /\ NothingUnsaved'
  <2>1. resets' # 0
    BY <1>0, <1>10 DEF CliRead, TypeOK
  <2>2. SetUpInv'
    BY <1>0, <1>10 DEF CliRead, SetUpInv, Accounts
  <2>3. ResetInv'
    BY <1>0, <1>10 DEF CliRead, ResetInv, Bounded, UserSessionToken, Accounts, told
  <2>4. QED
    BY <2>1, <2>2, <2>3 DEF NothingUnsaved
<1>11. ASSUME NEW copy \in cli, NEW p \in Passwords, CliWrite(copy, p)
       PROVE  SetUpInv' /\ ResetInv' /\ NothingUnsaved'
  <2> DEFINE set == SetAdminPassword(copy, p)
             new == NewKey(set, fresh)
  <2>1. IsConfig(copy) /\ copy.admin /\ Bounded(copy, fresh) /\ IsConfig(mem)
    BY <1>0 DEF TypeOK, SetUpInv, ResetInv
  <2>2. IsConfig(set) /\ set.admin = copy.admin /\ \A x \in Users : UserSessionToken(set, x) = UserSessionToken(copy, x)
    BY <2>1, OwnerChanged, OwnerTokenKept
  <2>3. set.users[Owner].hash.pw = p
    <3>1. set.users[Owner] = [hash |-> HashPassword(p), role |-> "admin", token |-> UserSessionToken(copy, Owner)]
      BY DEF SetAdminPassword, WithOwnerHash, Put
    <3>2. QED
      BY <3>1 DEF HashPassword
  <2>4. disk' = new /\ fresh' = fresh + 1 /\ reset' = {p} /\ cli' \subseteq cli /\ UNCHANGED <<mem, cookies, auths, changes, resets>>
    BY <1>0, <1>11, DrawTypes DEF CliWrite, env
  <2> HIDE DEF set
  <2>5. new.key = fresh /\ new.users = set.users /\ new.admin = set.admin
    BY <1>0, <2>2, KeyChanged
  <2> HIDE DEF new
  <2>6. SetUpInv'
    BY <1>0, <2>1, <2>2, <2>4, <2>5 DEF SetUpInv, Accounts
  <2>7. \A x \in Users : UserSessionToken(new, x) = UserSessionToken(copy, x)
    BY <2>2, <2>5 DEF UserSessionToken, Accounts
  <2>8. Bounded(new, fresh + 1)
    BY <1>0, <2>1, <2>5, <2>7, RecordTypes DEF Bounded
  <2>9. Bounded(mem, fresh + 1) /\ \A c \in cli : Bounded(c, fresh + 1)
    BY <1>0, BoundedLonger DEF ResetInv, TypeOK
  <2>10. mem.key # fresh /\ \A c \in cookies : c.key # fresh /\ c.key < fresh + 1
    BY <1>0, <2>1, ConfigFields DEF ResetInv, Bounded, TypeOK, Cookie
  <2>11. fresh + 1 > 0
    BY <1>0
  <2>12. ResetInv'
    BY <2>3, <2>4, <2>5, <2>8, <2>9, <2>10, <2>11 DEF ResetInv, Bounded, UserSessionToken, Accounts
  <2>13. resets # 0
    BY DEF RestartInv, Inv, SessionInv
  <2>14. QED
    BY <2>4, <2>6, <2>12, <2>13 DEF NothingUnsaved
<1>12. ASSUME Restart
       PROVE  SetUpInv' /\ ResetInv' /\ NothingUnsaved'
  <2>1. SetUpInv'
    BY <1>0, <1>12 DEF Restart, SetUpInv, Accounts
  <2>2. ResetInv'
    BY <1>0, <1>12 DEF Restart, ResetInv, Bounded, UserSessionToken, Accounts
  <2>3. NothingUnsaved'
    BY <1>12 DEF Restart, NothingUnsaved, Directory, Accounts
  <2>4. QED
    BY <2>1, <2>2, <2>3
<1>13. ASSUME UNCHANGED vars
       PROVE  SetUpInv' /\ ResetInv' /\ NothingUnsaved'
  BY <1>0, <1>13, QuietRestarts DEF vars, SetUpInv
<1>14. panel.passwords \subseteq Passwords /\ panel.roles \subseteq Roles
  BY <1>0, PanelTypes DEF TypeOK
<1>15. QED
  BY <1>1, <1>2, <1>3, <1>4, <1>5, <1>6, <1>7, <1>8, <1>9, <1>10, <1>11, <1>12, <1>13, <1>14 DEF Next

\* A restart changes neither the accounts nor the sessions of a panel whose
\* changes have all been acknowledged, and after reset-password it brings the
\* new password and revokes every session.
THEOREM RestartsHold == Spec => []RestartAsTold
<1>1. RestartInv => RestartAsTold
  BY DEF RestartInv, ResetInv, RestartAsTold, ResetTakesEffect, ValidSession
<1>2. QED
  BY <1>1, RestartInit, RestartStep, PTL DEF Spec

\* A change takes effect for the account it is about, and for no other.
LEMMA ChangeWins ==
  ASSUME TypeOK, NEW w \in Users, NEW promise, NEW saved \in BOOLEAN,
         SaveChange(mem', w, promise, saved), Fulfilled(w, promise),
         NEW u \in Users, LastChangeOf(u)
  PROVE  LastChangeOf(u)'
<1>1. disk' = IF saved THEN mem' ELSE disk
  BY DEF SaveChange, Save, Written
<1>2. /\ View(mem, u) \in {acked[u]} \cup unacked[u]
      /\ View(disk, u) \in {acked[u]} \cup unacked[u]
  BY DEF LastChangeOf
<1>3. /\ View(mem', u) \in {acked'[u]} \cup unacked'[u]
      /\ View(disk', u) \in {acked'[u]} \cup unacked'[u]
  <2>1. CASE u = w
    <3>1. View(mem', u) = promise
      BY <2>1 DEF Fulfilled
    <3>2. CASE saved
      <4>1. acked'[u] = promise
        BY <2>1, <3>2 DEF SaveChange, TypeOK
      <4>2. QED
        BY <1>1, <3>1, <3>2, <4>1
    <3>3. CASE ~saved
      <4>1. acked'[u] = acked[u] /\ unacked'[u] = unacked[u] \cup {promise}
        BY <2>1, <3>3 DEF SaveChange, TypeOK
      <4>2. QED
        BY <1>1, <1>2, <3>1, <3>3, <4>1
    <3>4. QED
      BY <3>2, <3>3
  <2>2. CASE u # w
    <3>1. View(mem', u) = View(mem, u)
      BY <2>2 DEF Fulfilled
    <3>2. acked'[u] = acked[u] /\ unacked'[u] = unacked[u]
      BY <2>2 DEF SaveChange, TypeOK
    <3>3. QED
      BY <1>1, <1>2, <3>1, <3>2
  <2>3. QED
    BY <2>1, <2>2
<1>4. QED
  BY <1>3 DEF LastChangeOf, View, Accounts

\* One step: only a rehash, and only for its own account, can lose the last change.
LEMMA LastChangeStep ==
  ASSUME RestartInv, [Next]_vars, NEW u \in Users, LastChangeOf(u), resets' = 0
  PROVE  LastChangeOf(u)' \/ \E q \in auths, saved \in BOOLEAN : q.user = u /\ RehashUserPassword(q, saved)
<1>0. TypeOK /\ SetUpInv
  BY DEF RestartInv, Inv
<1>1. ASSUME NEW saved \in BOOLEAN, SaveOtherSettings(saved)
      PROVE  LastChangeOf(u)'
  BY <1>1 DEF SaveOtherSettings, SaveSilently, Save, Written, LastChangeOf, View, Accounts
<1>2. ASSUME NEW saved \in BOOLEAN, NEW q \in auths, RehashUserPassword(q, saved), q.user # u
      PROVE  LastChangeOf(u)'
  <2> DEFINE new == Rehashed(mem, q.user, q.pw)
  <2>1. View(new, u) = View(mem, u)
    <3>1. IsConfig(mem) /\ q.user \in Users /\ q.pw \in Passwords
      BY <1>0 DEF TypeOK, Auth
    <3>2. QED
      BY <1>2, <3>1, RehashSeen
  <2>2. mem' = new /\ disk' \in {new, disk} /\ UNCHANGED <<acked, unacked>>
    BY <1>2 DEF RehashUserPassword, SaveSilently, Save, Written
  <2> HIDE DEF new
  <2>3. View(mem', u) \in {acked'[u]} \cup unacked'[u] /\ View(disk', u) \in {acked'[u]} \cup unacked'[u]
    BY <2>1, <2>2 DEF LastChangeOf
  <2>4. QED
    BY <2>3 DEF LastChangeOf, View, Accounts
<1>3. ASSUME NEW saved \in BOOLEAN, NEW p \in Passwords, Setup(p, saved)
      PROVE  LastChangeOf(u)'
  <2>1. SaveChange(mem', Owner, Promised(p, "admin"), saved)
    BY <1>3 DEF Setup, SaveChange, Save
  <2>2. QED
    BY <1>0, <1>3, <2>1, SetupFulfils, ChangeWins, AccountsAssumption
<1>4. ASSUME NEW saved \in BOOLEAN, NEW p \in Passwords, NEW q \in auths, ChangeOwnerPassword(q, p, saved)
      PROVE  LastChangeOf(u)'
  <2>1. SaveChange(mem', Owner, Promised(p, "admin"), saved)
    BY <1>4 DEF ChangeOwnerPassword, SaveChange, Save
  <2>2. QED
    BY <1>0, <1>4, <2>1, OwnerFulfils, ChangeWins, AccountsAssumption
<1>5. ASSUME NEW saved \in BOOLEAN, NEW q \in changes, NEW p \in Passwords, NEW role \in Roles,
             CreateUser(q, p, role, saved) \/ UpdateUser(q, p, role, saved)
      PROVE  LastChangeOf(u)'
  <2>1. q.target \in Users
    BY <1>0 DEF TypeOK, Change
  <2>2. \/ UNCHANGED <<mem, disk, fresh, told>>
        \/ \E promise : SaveChange(mem', q.target, promise, saved) /\ Fulfilled(q.target, promise)
    BY <1>0, <1>5, CreateFulfils, UpdateFulfils
  <2>3. CASE UNCHANGED <<mem, disk, fresh, told>>
    BY <2>3 DEF told, LastChangeOf, View, Accounts
  <2>4. QED
    BY <1>0, <2>1, <2>2, <2>3, ChangeWins
<1>6. ASSUME UNCHANGED <<mem, disk, told>>
      PROVE  LastChangeOf(u)'
  BY <1>6 DEF told, LastChangeOf, View, Accounts
<1>7. ASSUME CliRead
      PROVE  FALSE
  BY <1>0, <1>7 DEF CliRead, TypeOK
<1>8. ASSUME NEW copy \in cli, NEW p \in Passwords, CliWrite(copy, p)
      PROVE  FALSE
  BY <1>8 DEF CliWrite, env, RestartInv, Inv, SessionInv
<1>9. ASSUME Restart
      PROVE  LastChangeOf(u)'
  BY <1>9 DEF Restart, LastChangeOf, View, Accounts
<1>10. panel.passwords \subseteq Passwords /\ panel.roles \subseteq Roles
  BY <1>0, PanelTypes DEF TypeOK
<1>11. ASSUME \/ \E v \in Users : Login(v)
              \/ \E q \in auths : ReadToken(q) \/ SetSession(q)
              \/ \E c \in cookies, op \in Operation, t \in Users : BeginChange(c, op, t)
              \/ \E q \in changes : NameCaller(q) \/ CheckCurrentPassword(q)
              \/ UNCHANGED vars
       PROVE  UNCHANGED <<mem, disk, told>>
  BY <1>11 DEF Login, ReadToken, SetSession, BeginChange, NameCaller, CheckCurrentPassword, vars
<1>12. QED
  BY <1>1, <1>2, <1>3, <1>4, <1>5, <1>6, <1>7, <1>8, <1>9, <1>10, <1>11 DEF Next

\* In memory and on disk, no step takes an account back behind its last
\* acknowledged change, but the rehash of a login that verified the old
\* password before the change.
THEOREM LastChangesKept == Spec => LastChangeWins
<1>1. RestartInv /\ [Next]_vars
        => [\A u \in Users :
              LastChangeOf(u) /\ resets' = 0
                => \/ LastChangeOf(u)'
                   \/ \E q \in auths, saved \in BOOLEAN : q.user = u /\ RehashUserPassword(q, saved)]_vars
  BY LastChangeStep
<1>2. QED
  BY <1>1, RestartInit, RestartStep, PTL DEF Spec, LastChangeWins

-----------------------------------------------------------------------------
(* THE AUDIT LOG                                                           *)

-----------------------------------------------------------------------------
(* The invariant                                                           *)

AuditTypeInv ==
  /\ AuditTypeOK
  /\ DOMAIN reader = DOMAIN NoPage
  /\ \A w \in Writers :
       /\ writers[w].step = "idle" => writers[w].number = 0
       /\ writers[w].step \in {"remove", "rename"} => writers[w].number \in 1 .. Archives

\* While the panel and a command have not worked together, one append or one migration works at a time.  A rotation moves an archive to a place that it has made free,
\* and what it has moved leaves a place that is free already; then the line finds room.
AppendInv ==
  /\ \A v, w \in Writers : writers[v].step # "idle" /\ writers[w].step # "idle" => v = w
  /\ \A w \in Writers : writers[w].step # "idle" =>
       phase[ProcessOf(w)] = "serve" /\ \A p \in Processes : phase[p] # "migrate"
  /\ \A p, q \in Processes : phase[p] = "migrate" /\ phase[q] = "migrate" => p = q
  /\ \A w \in Writers :
       LET step == writers[w].step
           number == writers[w].number IN
       /\ step = "rename" => number \notin DOMAIN files
       /\ ~log.renameFails =>
            /\ step = "remove" /\ number < Archives => number \notin DOMAIN files
            /\ step = "write" => 0 \notin DOMAIN files \/ Len(files[0]) < log.maxFile

\* The files that the migration has been at are clean.
MigrateInv ==
  \A p \in Processes : phase[p] = "migrate" =>
    \A n \in DOMAIN files : n > at[p] => \A i \in DOMAIN files[n] : ~files[n][i].raw

\* Where nothing fails, an archive is missing between others only while a rotation is at it.
HolesInv ==
  ~log.renameFails /\ crashes = 0 =>
    /\ \A n \in DOMAIN files : \A m \in 1 .. n - 1 :
         m \in DOMAIN files \/ \E w \in Writers : writers[w].step \in {"remove", "rename"} /\ writers[w].number = m
    /\ Rotating => 0 \in DOMAIN files

AuditInv ==
  /\ AuditTypeInv
  /\ ~together => /\ AppendInv
                  /\ Sized /\ RetainedSuffix /\ Ordered
                  /\ MigratedClean /\ MigrateInv
                  /\ HolesInv

-----------------------------------------------------------------------------
(* Files *)

\* The bounds of the log are numbers.
LEMMA LogIs ==
  ASSUME AuditTypeInv
  PROVE  /\ log.maxFile \in Nat \ {0} /\ log.legacy \in Nat /\ log.lines \in Nat /\ log.renameFails \in BOOLEAN
         /\ log.crashes \in Nat /\ Archives \in Nat \ {0} /\ count \in 0 .. log.lines
BY AuditLogAssumption DEF AuditTypeInv, AuditTypeOK, Log

\* A file is a sequence of lines, whose numbers are those of lines that may be written.
LEMMA FileIs ==
  ASSUME AuditTypeInv, NEW n \in DOMAIN files
  PROVE  /\ n \in Numbers /\ files[n] \in Seq(Line) /\ DOMAIN files[n] = 1 .. Len(files[n]) /\ Len(files[n]) \in Nat
         /\ \A i \in DOMAIN files[n] : files[n][i] \in Line /\ files[n][i].id \in 1 .. log.lines
<1>1. n \in Numbers /\ files[n] \in Seq(Line)
  BY DEF AuditTypeInv, AuditTypeOK
<1>2. DOMAIN files[n] = 1 .. Len(files[n]) /\ Len(files[n]) \in Nat /\ files[n] \in [1 .. Len(files[n]) -> Line]
  BY <1>1, LenProperties
<1>3. \A l \in Line : l.id \in 1 .. log.lines
  BY DEF Line
<1>4. QED
  BY <1>1, <1>2, <1>3

\* A line is in the log when some file holds it.
LEMMA IdsAre == \A id : id \in Ids <=> \E n \in DOMAIN files : \E i \in DOMAIN files[n] : id = files[n][i].id
BY DEF Ids

\* What is said of the files alone.
FilesInv ==
  /\ DOMAIN files \subseteq Numbers /\ \A n \in DOMAIN files : files[n] \in Seq(Line)
  /\ Sized /\ RetainedSuffix /\ Ordered

\* What leaves the files alone keeps what is said of them.
LEMMA NothingKeeps ==
  ASSUME FilesInv, UNCHANGED <<files, log, count>>
  PROVE  FilesInv' /\ Ids' = Ids
<1>1. Ids' = Ids /\ Line' = Line
  BY DEF Ids, Line
<1>2. Sized' /\ RetainedSuffix'
  BY <1>1 DEF FilesInv, Sized, RetainedSuffix
<1>3. Ordered'
  BY <1>1 DEF FilesInv, Ordered
<1>4. QED
  BY <1>1, <1>2, <1>3 DEF FilesInv

\* The migration rewrites lines, and neither their numbers nor their places.
LEMMA SanitizeKeeps ==
  ASSUME AuditTypeInv, FilesInv, NEW p \in Processes, Sanitize(p)
  PROVE  FilesInv' /\ Ids' = Ids
<1> DEFINE k == at[p]
           clean == [i \in DOMAIN files[k] |-> [files[k][i] EXCEPT !.raw = FALSE]]
<1>0. UNCHANGED <<log, count>> /\ Line' = Line
  BY DEF Sanitize, auditEnv, Line
<1>1. UNCHANGED <<log, count>> /\ DOMAIN files' = DOMAIN files
      /\ \A n \in DOMAIN files : files'[n] = IF n = k THEN clean ELSE files[n]
  BY DEF Sanitize, auditEnv
<1>2. k \in DOMAIN files => /\ clean \in Seq(Line) /\ Len(clean) = Len(files[k]) /\ DOMAIN clean = DOMAIN files[k]
                             /\ \A i \in DOMAIN files[k] : clean[i].id = files[k][i].id
  <2>1. SUFFICES ASSUME k \in DOMAIN files
                 PROVE  /\ clean \in Seq(Line) /\ Len(clean) = Len(files[k]) /\ DOMAIN clean = DOMAIN files[k]
                        /\ \A i \in DOMAIN files[k] : clean[i].id = files[k][i].id
    OBVIOUS
  <2>2. DOMAIN files[k] = 1 .. Len(files[k]) /\ Len(files[k]) \in Nat /\ \A i \in DOMAIN files[k] : files[k][i] \in Line
    BY <2>1, FileIs
  <2>3. \A i \in DOMAIN files[k] : clean[i] \in Line /\ clean[i].id = files[k][i].id
    BY <2>2 DEF Line
  <2>4. clean = [i \in 1 .. Len(files[k]) |-> clean[i]] /\ clean \in [1 .. Len(files[k]) -> Line]
    BY <2>2, <2>3
  <2>5. clean \in Seq(Line) /\ Len(clean) = Len(files[k]) /\ DOMAIN clean = DOMAIN files[k]
    BY <2>2, <2>4
  <2>6. QED
    BY <2>3, <2>5
<1>3. /\ \A n \in DOMAIN files : /\ DOMAIN files'[n] = DOMAIN files[n] /\ Len(files'[n]) = Len(files[n])
                                 /\ files'[n] \in Seq(Line)
                                 /\ \A i \in DOMAIN files[n] : files'[n][i].id = files[n][i].id
  BY <1>1, <1>2 DEF FilesInv
<1>4. Ids' = Ids
  BY <1>1, <1>3 DEF Ids
<1>5. Sized'
  BY <1>1, <1>3 DEF FilesInv, Sized
<1>6. RetainedSuffix'
  BY <1>1, <1>4 DEF FilesInv, RetainedSuffix
<1>7. Ordered'
  <2>1. \A id \in Ids' : id <= count'
    BY <1>1, <1>4 DEF FilesInv, Ordered
  <2>2. \A n \in DOMAIN files' : \A i, j \in DOMAIN files'[n] : i < j => files'[n][i].id < files'[n][j].id
    BY <1>1, <1>3 DEF FilesInv, Ordered
  <2>3. \A m, n \in DOMAIN files' : m < n =>
          \A i \in DOMAIN files'[n], j \in DOMAIN files'[m] : files'[n][i].id < files'[m][j].id
    BY <1>1, <1>3 DEF FilesInv, Ordered
  <2>4. QED
    BY <2>1, <2>2, <2>3 DEF Ordered
<1>8. DOMAIN files' \subseteq Numbers /\ \A n \in DOMAIN files' : files'[n] \in Seq(Line')
  BY <1>1, <1>3 DEF FilesInv, Line
<1>9. QED
  BY <1>4, <1>5, <1>6, <1>7, <1>8 DEF FilesInv

\* Removing an archive drops the oldest lines, and only when the last archive is there.
LEMMA RemoveKeeps ==
  ASSUME AuditTypeInv, AppendInv, FilesInv, NEW w \in Writers, RemoveArchive(w)
  PROVE  /\ FilesInv'
         /\ ~log.renameFails /\ ~(Ids \subseteq Ids') => writers[w].number = Archives /\ Archives \in DOMAIN files
<1> DEFINE k == writers[w].number
<1>1. UNCHANGED <<log, count>> /\ DOMAIN files' = DOMAIN files \ {k} /\ \A n \in DOMAIN files \ {k} : files'[n] = files[n]
  BY DEF RemoveArchive, Without, auditEnv
<1>2. k \in 1 .. Archives /\ (~log.renameFails /\ k < Archives => k \notin DOMAIN files)
  BY DEF RemoveArchive, AppendInv, AuditTypeInv
<1>3. Archives \in Nat /\ \A n \in DOMAIN files : n \in 0 .. Archives
  BY LogIs DEF FilesInv, Numbers
<1>4. Ids' \subseteq Ids
  BY <1>1 DEF Ids
<1>5. ~log.renameFails /\ ~(Ids \subseteq Ids') => k = Archives /\ Archives \in DOMAIN files
  <2>1. k \notin DOMAIN files => Ids \subseteq Ids'
    BY <1>1 DEF Ids
  <2>2. QED
    BY <1>2, <1>3, <2>1
<1>6. Sized' /\ Ordered'
  BY <1>1, <1>4 DEF FilesInv, Sized, Ordered
<1>7. RetainedSuffix'
  <2>1. SUFFICES ASSUME ~log.renameFails, NEW id \in Ids', NEW later \in id .. count
                 PROVE  later \in Ids'
    BY <1>1 DEF RetainedSuffix
  <2>2. later \in Ids
    BY <1>4, <2>1 DEF FilesInv, RetainedSuffix
  <2>3. PICK m \in DOMAIN files : \E j \in DOMAIN files[m] : later = files[m][j].id
    BY <2>2, IdsAre
  <2>4. PICK j \in DOMAIN files[m] : later = files[m][j].id
    BY <2>3
  <2>5. PICK n \in DOMAIN files \ {k} : \E i \in DOMAIN files[n] : id = files[n][i].id
    BY <1>1, <2>1 DEF Ids
  <2>6. PICK i \in DOMAIN files[n] : id = files[n][i].id
    BY <2>5
  <2>7. m # k
    <3>1. SUFFICES ASSUME m = k
                   PROVE  FALSE
      OBVIOUS
    <3>2. n < m
      BY <1>2, <1>3, <2>1, <2>3, <2>5, <3>1
    <3>3. later < id
      BY <2>4, <2>6, <3>2 DEF FilesInv, Ordered
    <3>4. id \in Nat /\ later \in Nat
      BY <2>4, <2>6, FileIs, LogIs
    <3>5. QED
      BY <2>1, <3>3, <3>4
  <2>8. QED
    BY <1>1, <2>4, <2>7 DEF Ids
<1>8. QED
  BY <1>1, <1>5, <1>6, <1>7 DEF FilesInv, Line

\* A rename moves an archive to the free place after it, or fails and moves nothing.
LEMMA RenamedIs ==
  ASSUME AuditTypeInv, AppendInv, NEW w \in Writers, RenameArchive(w)
  PROVE  LET k == writers[w].number IN
         /\ k \in 1 .. Archives /\ k \notin DOMAIN files
         /\ \/ UNCHANGED files /\ (log.renameFails \/ k - 1 \notin DOMAIN files)
            \/ /\ k - 1 \in DOMAIN files
               /\ DOMAIN files' = (DOMAIN files \ {k - 1}) \cup {k}
               /\ files'[k] = files[k - 1]
               /\ \A n \in DOMAIN files \ {k - 1} : files'[n] = files[n]
<1> DEFINE k == writers[w].number
<1>1. k \in 1 .. Archives /\ k \notin DOMAIN files
  BY DEF RenameArchive, AppendInv, AuditTypeInv
<1>2. CASE k - 1 \in DOMAIN files /\ files' = Renamed(k)
  <2>1. DOMAIN files' = (DOMAIN files \ {k - 1}) \cup {k}
    BY <1>2 DEF Renamed
  <2>2. files'[k] = files[k - 1] /\ \A n \in DOMAIN files \ {k - 1} : files'[n] = files[n]
    BY <1>1, <1>2 DEF Renamed
  <2>3. QED
    BY <1>1, <1>2, <2>1, <2>2
<1>3. CASE UNCHANGED files /\ (log.renameFails \/ k - 1 \notin DOMAIN files)
  BY <1>1, <1>3
<1>4. QED
  BY <1>2, <1>3 DEF RenameArchive

\* Renaming an archive keeps every line and the order of the lines.
LEMMA RenameKeeps ==
  ASSUME AuditTypeInv, AppendInv, FilesInv, NEW w \in Writers, RenameArchive(w)
  PROVE  FilesInv' /\ Ids' = Ids
<1> DEFINE k == writers[w].number
           from(n) == IF n = k THEN k - 1 ELSE n
<1>1. UNCHANGED <<log, count>>
  BY DEF RenameArchive, auditEnv
<1>2. CASE UNCHANGED files
  BY <1>1, <1>2, NothingKeeps
<1>3. CASE /\ k - 1 \in DOMAIN files
           /\ DOMAIN files' = (DOMAIN files \ {k - 1}) \cup {k}
           /\ files'[k] = files[k - 1]
           /\ \A n \in DOMAIN files \ {k - 1} : files'[n] = files[n]
  <2>1. k \in 1 .. Archives /\ k \notin DOMAIN files /\ Archives \in Nat /\ DOMAIN files \subseteq 0 .. Archives
    BY RenamedIs, LogIs DEF FilesInv, Numbers
  <2>2. \A n \in DOMAIN files' : from(n) \in DOMAIN files /\ files'[n] = files[from(n)] /\ n \in 0 .. Archives
    BY <1>3, <2>1
  <2>3. \A m, n \in DOMAIN files' : m < n => from(m) < from(n)
    <3>1. SUFFICES ASSUME NEW m \in DOMAIN files', NEW n \in DOMAIN files', m < n
                   PROVE  from(m) < from(n)
      OBVIOUS
    <3>2. m # k - 1 /\ n # k - 1
      BY <1>3, <2>1, <3>1
    <3>3. QED
      BY <2>1, <2>2, <3>1, <3>2
  <2>4. \A n \in DOMAIN files : \E m \in DOMAIN files' : files'[m] = files[n]
    BY <1>3, <2>1
  <2>5. Ids' = Ids
    BY <2>2, <2>4 DEF Ids
  <2>6. Ordered'
    <3>1. ASSUME NEW m \in DOMAIN files', NEW n \in DOMAIN files', m < n, NEW i \in DOMAIN files'[n], NEW j \in DOMAIN files'[m]
          PROVE  files'[n][i].id < files'[m][j].id
      BY <2>2, <2>3, <3>1 DEF FilesInv, Ordered
    <3>2. \A n \in DOMAIN files' : \A i, j \in DOMAIN files'[n] : i < j => files'[n][i].id < files'[n][j].id
      BY <2>2 DEF FilesInv, Ordered
    <3>3. \A id \in Ids' : id <= count'
      BY <1>1, <2>5 DEF FilesInv, Ordered
    <3>4. QED
      BY <3>1, <3>2, <3>3 DEF Ordered
  <2>7. Sized'
    BY <1>1, <2>2 DEF FilesInv, Sized
  <2>8. RetainedSuffix'
    BY <1>1, <2>5 DEF FilesInv, RetainedSuffix
  <2>9. DOMAIN files' \subseteq Numbers /\ \A n \in DOMAIN files' : files'[n] \in Seq(Line')
    BY <1>1, <2>2 DEF FilesInv, Numbers, Line
  <2>10. QED
    BY <2>5, <2>6, <2>7, <2>8, <2>9 DEF FilesInv
<1>4. QED
  BY <1>2, <1>3, RenamedIs

\* A line that is written is the newest, and goes where there is room for it.
LEMMA WriteKeeps ==
  ASSUME AuditTypeInv, AppendInv, FilesInv, NEW w \in Writers, WriteLine(w)
  PROVE  FilesInv' /\ Ids \subseteq Ids'
<1> DEFINE line == [id |-> count + 1, raw |-> FALSE]
<1>t. /\ log.maxFile \in Nat \ {0} /\ log.lines \in Nat /\ Archives \in Nat \ {0} /\ count \in 0 .. log.lines
      /\ count < log.lines /\ log' = log
  BY LogIs DEF WriteLine, auditEnv
<1>1. CASE UNCHANGED <<files, count>>
  BY <1>1, <1>t, NothingKeeps
<1>2. CASE /\ files' = [n \in DOMAIN files \cup {0} |-> IF n = 0 THEN Append(LinesOf(0), line) ELSE files[n]]
           /\ count' = count + 1
  <2>1. line \in Line /\ line.id = count + 1
    BY <1>t DEF Line
  <2>2. LinesOf(0) \in Seq(Line) /\ Len(LinesOf(0)) \in Nat
    BY DEF LinesOf, FilesInv
  <2>3. /\ DOMAIN files' = DOMAIN files \cup {0}
        /\ files'[0] = Append(LinesOf(0), line)
        /\ \A n \in DOMAIN files \ {0} : files'[n] = files[n]
    BY <1>2
  <2>4. /\ files'[0] \in Seq(Line) /\ Len(files'[0]) = Len(LinesOf(0)) + 1
        /\ DOMAIN files'[0] = 1 .. Len(LinesOf(0)) + 1
        /\ files'[0][Len(LinesOf(0)) + 1] = line
        /\ \A i \in 1 .. Len(LinesOf(0)) : files'[0][i] = LinesOf(0)[i]
    BY <2>1, <2>2, <2>3, AppendProperties
  <2>5. \A i \in 1 .. Len(LinesOf(0)) : 0 \in DOMAIN files /\ LinesOf(0) = files[0] /\ i \in DOMAIN files[0]
    BY FileIs DEF LinesOf
  <2>6. ASSUME NEW n \in DOMAIN files', NEW i \in DOMAIN files'[n]
        PROVE  \/ n = 0 /\ i = Len(LinesOf(0)) + 1 /\ files'[n][i].id = count + 1
               \/ n \in DOMAIN files /\ i \in DOMAIN files[n] /\ files'[n][i] = files[n][i]
                  /\ (n = 0 => i \in 1 .. Len(LinesOf(0)))
    BY <2>1, <2>2, <2>3, <2>4, <2>5, <2>6
  <2>7. Ids' = Ids \cup {count + 1}
    <3>1. Ids' \subseteq Ids \cup {count + 1}
      BY <2>6 DEF Ids
    <3>2. count + 1 \in Ids'
      BY <2>1, <2>2, <2>3, <2>4 DEF Ids
    <3>3. ASSUME NEW n \in DOMAIN files, NEW i \in DOMAIN files[n]
          PROVE  n \in DOMAIN files' /\ i \in DOMAIN files'[n] /\ files'[n][i] = files[n][i]
      <4>1. CASE n = 0
        BY <2>2, <2>3, <2>4, <3>3, <4>1, FileIs DEF LinesOf
      <4>2. CASE n # 0
        BY <2>3, <3>3, <4>2
      <4>3. QED
        BY <4>1, <4>2
    <3>4. Ids \subseteq Ids'
      BY <3>3 DEF Ids
    <3>5. QED
      BY <3>1, <3>2, <3>4
  <2>8. \A n \in DOMAIN files : \A i \in DOMAIN files[n] : files[n][i].id \in Nat /\ files[n][i].id < count + 1
    <3>1. SUFFICES ASSUME NEW n \in DOMAIN files, NEW i \in DOMAIN files[n]
                   PROVE  files[n][i].id \in Nat /\ files[n][i].id < count + 1
      OBVIOUS
    <3>2. files[n][i].id \in 1 .. log.lines
      BY FileIs
    <3>3. files[n][i].id <= count
      BY IdsAre DEF FilesInv, Ordered
    <3>4. QED
      BY <1>t, <3>2, <3>3
  <2>9. Ordered'
    <3>1. \A id \in Ids' : id <= count'
      <4>1. \A id \in Ids : id \in Nat
        BY <2>8 DEF Ids
      <4>2. QED
        BY <1>2, <1>t, <2>7, <4>1 DEF FilesInv, Ordered
    <3>2. ASSUME NEW n \in DOMAIN files', NEW i \in DOMAIN files'[n], NEW j \in DOMAIN files'[n], i < j
          PROVE  files'[n][i].id < files'[n][j].id
      <4>1. CASE n = 0 /\ j = Len(LinesOf(0)) + 1
        <5>1. i # Len(LinesOf(0)) + 1 /\ files'[n][j].id = count + 1
          BY <2>1, <2>2, <2>4, <3>2, <4>1
        <5>2. n \in DOMAIN files /\ i \in DOMAIN files[n] /\ files'[n][i] = files[n][i]
          BY <2>6, <5>1
        <5>3. QED
          BY <2>8, <5>1, <5>2
      <4>2. CASE ~(n = 0 /\ j = Len(LinesOf(0)) + 1)
        <5>1. n \in DOMAIN files /\ j \in DOMAIN files[n] /\ files'[n][j] = files[n][j] /\ (n = 0 => j \in 1 .. Len(LinesOf(0)))
          BY <2>6, <4>2
        <5>2. ~(n = 0 /\ i = Len(LinesOf(0)) + 1)
          BY <2>2, <3>2, <5>1
        <5>3. i \in DOMAIN files[n] /\ files'[n][i] = files[n][i]
          BY <2>6, <5>2
        <5>4. QED
          BY <3>2, <5>1, <5>3 DEF FilesInv, Ordered
      <4>3. QED
        BY <4>1, <4>2
    <3>3. ASSUME NEW m \in DOMAIN files', NEW n \in DOMAIN files', m < n, NEW i \in DOMAIN files'[n], NEW j \in DOMAIN files'[m]
          PROVE  files'[n][i].id < files'[m][j].id
      <4>1. n # 0 /\ m \in Nat
        BY <1>t, <2>3, <3>3 DEF FilesInv, Numbers
      <4>2. n \in DOMAIN files /\ i \in DOMAIN files[n] /\ files'[n][i] = files[n][i]
        BY <2>6, <4>1
      <4>3. CASE files'[m][j].id = count + 1
        BY <2>8, <4>2, <4>3
      <4>4. CASE m \in DOMAIN files /\ j \in DOMAIN files[m] /\ files'[m][j] = files[m][j]
        BY <3>3, <4>2, <4>4 DEF FilesInv, Ordered
      <4>5. QED
        BY <2>6, <4>3, <4>4
    <3>4. QED
      BY <3>1, <3>2, <3>3 DEF Ordered
  <2>10. Sized'
    <3>1. SUFFICES ASSUME ~log.renameFails, NEW n \in DOMAIN files'
                   PROVE  Len(files'[n]) <= log.maxFile \/ \A i \in DOMAIN files'[n] : files'[n][i].id <= log.legacy
      BY <1>t DEF Sized
    <3>2. CASE n = 0
      <4>1. 0 \notin DOMAIN files \/ Len(files[0]) < log.maxFile
        BY <3>1 DEF AppendInv, WriteLine
      <4>2. Len(LinesOf(0)) < log.maxFile
        BY <1>t, <4>1 DEF LinesOf
      <4>3. QED
        BY <1>t, <2>2, <2>4, <3>2, <4>2
    <3>3. CASE n # 0
      BY <2>3, <3>1, <3>3 DEF FilesInv, Sized
    <3>4. QED
      BY <3>2, <3>3
  <2>11. RetainedSuffix'
    <3>1. SUFFICES ASSUME ~log.renameFails, NEW id \in Ids', NEW later \in id .. count + 1
                   PROVE  later \in Ids'
      BY <1>2, <1>t DEF RetainedSuffix
    <3>2. \A x \in Ids : x \in Nat
      BY <2>8 DEF Ids
    <3>3. CASE later = count + 1
      BY <2>7, <3>3
    <3>4. CASE later # count + 1
      <4>1. id \in Ids /\ later \in id .. count
        BY <1>t, <2>7, <3>1, <3>2, <3>4
      <4>2. QED
        BY <2>7, <3>1, <4>1 DEF FilesInv, RetainedSuffix
    <3>5. QED
      BY <3>3, <3>4
  <2>12. DOMAIN files' \subseteq Numbers /\ \A n \in DOMAIN files' : files'[n] \in Seq(Line')
    <3>1. Line' = Line /\ 0 \in Numbers
      BY <1>t DEF Line, Numbers
    <3>2. QED
      BY <2>3, <2>4, <3>1 DEF FilesInv
  <2>13. QED
    BY <2>7, <2>9, <2>10, <2>11, <2>12 DEF FilesInv
<1>3. QED
  BY <1>1, <1>2 DEF WriteLine

-----------------------------------------------------------------------------
(* The beginning *)

\* The lines that an older version left in a file are numbered without a gap.
LEMMA RawIs ==
  ASSUME NEW k \in Nat, NEW last \in Nat, k <= last, last <= log.lines, log.lines \in Nat
  PROVE  /\ Raw(k + 1, last) \in Seq(Line) /\ Len(Raw(k + 1, last)) = last - k
         /\ DOMAIN Raw(k + 1, last) = 1 .. last - k
         /\ \A i \in 1 .. last - k : Raw(k + 1, last)[i].id = k + i
<1> DEFINE n == last - (k + 1) + 1
           line(i) == [id |-> (k + 1) + i - 1, raw |-> TRUE]
<1>1. n = last - k /\ n \in Nat
  OBVIOUS
<1>2. \A i \in 1 .. n : (k + 1) + i - 1 = k + i /\ (k + 1) + i - 1 \in 1 .. log.lines
  OBVIOUS
<1>3. \A i \in 1 .. n : line(i) \in Line /\ line(i).id = k + i
  BY <1>2 DEF Line
<1>4. Raw(k + 1, last) = [i \in 1 .. n |-> line(i)]
  BY DEF Raw
<1>5. QED
  <2> HIDE DEF n, line
  <2>1. Raw(k + 1, last) \in [1 .. n -> Line] /\ \A i \in 1 .. n : Raw(k + 1, last)[i].id = k + i
    BY <1>3, <1>4
  <2>2. QED
    BY <1>1, <2>1

\* The files that an older version leaves satisfy the invariant.
LEMMA AuditStarts == AuditInit => AuditInv
<1> SUFFICES ASSUME AuditInit
             PROVE  AuditInv
  OBVIOUS
<1>1. /\ log \in Logs /\ marker = FALSE /\ phase = [p \in Processes |-> "start"]
      /\ at = [p \in Processes |-> -1] /\ together = FALSE /\ writers = [w \in Writers |-> Idle]
      /\ reader = NoPage /\ count = log.legacy /\ crashes = 0
  BY DEF AuditInit, None
<1>2. /\ log.maxFile \in Nat \ {0} /\ log.legacy \in Nat /\ log.lines \in Nat /\ log.legacy <= log.lines
      /\ log.crashes \in Nat /\ Archives \in Nat \ {0}
  BY <1>1, AuditLogAssumption DEF Log
<1>3. PICK k \in 0 .. log.legacy :
        files = [n \in {m \in {0, 1} : IF m = 0 THEN k < log.legacy ELSE k > 0} |->
                   IF n = 0 THEN Raw(k + 1, log.legacy) ELSE Raw(1, k)]
  BY DEF AuditInit
<1>4. k \in Nat /\ k <= log.legacy
  BY <1>2
<1>5. /\ Raw(1, k) \in Seq(Line) /\ Len(Raw(1, k)) = k /\ DOMAIN Raw(1, k) = 1 .. k
      /\ \A i \in 1 .. k : Raw(1, k)[i].id = i
  <2>1. 0 <= k /\ k <= log.lines /\ k - 0 = k /\ 0 + 1 = 1 /\ \A i \in 1 .. k : 0 + i = i
    BY <1>2, <1>4
  <2>2. /\ Raw(0 + 1, k) \in Seq(Line) /\ Len(Raw(0 + 1, k)) = k - 0 /\ DOMAIN Raw(0 + 1, k) = 1 .. k - 0
        /\ \A i \in 1 .. k - 0 : Raw(0 + 1, k)[i].id = 0 + i
    BY <1>2, <1>4, <2>1, RawIs
  <2>3. QED
    BY <2>1, <2>2
<1>6. /\ Raw(k + 1, log.legacy) \in Seq(Line) /\ Len(Raw(k + 1, log.legacy)) = log.legacy - k
      /\ DOMAIN Raw(k + 1, log.legacy) = 1 .. log.legacy - k
      /\ \A i \in 1 .. log.legacy - k : Raw(k + 1, log.legacy)[i].id = k + i
  BY <1>2, <1>4, RawIs
<1>7. /\ DOMAIN files \subseteq {0, 1} /\ (0 \in DOMAIN files <=> k < log.legacy) /\ (1 \in DOMAIN files <=> k > 0)
      /\ 0 \in DOMAIN files => files[0] = Raw(k + 1, log.legacy)
      /\ 1 \in DOMAIN files => files[1] = Raw(1, k)
  BY <1>3
<1>8. \A n \in DOMAIN files : files[n] \in Seq(Line) /\ \A i \in DOMAIN files[n] : files[n][i].id \in 1 .. log.legacy
  <2>1. 0 \in DOMAIN files => \A i \in DOMAIN files[0] : files[0][i].id \in 1 .. log.legacy
    <3>1. \A i \in 1 .. log.legacy - k : k + i \in 1 .. log.legacy
      BY <1>2, <1>4
    <3>2. QED
      BY <1>6, <1>7, <3>1
  <2>2. 1 \in DOMAIN files => \A i \in DOMAIN files[1] : files[1][i].id \in 1 .. log.legacy
    BY <1>2, <1>4, <1>5, <1>7
  <2>3. QED
    BY <1>5, <1>6, <1>7, <2>1, <2>2
<1>9. Ids = 1 .. log.legacy
  <2>1. Ids \subseteq 1 .. log.legacy
    BY <1>8 DEF Ids
  <2>2. ASSUME NEW id \in 1 .. log.legacy
        PROVE  id \in Ids
    <3>1. CASE id <= k
      <4>1. 1 \in DOMAIN files /\ id \in DOMAIN files[1] /\ files[1][id].id = id
        BY <1>4, <1>5, <1>7, <2>2, <3>1
      <4>2. QED
        BY <4>1, IdsAre
    <3>2. CASE id > k
      <4>1. 0 \in DOMAIN files /\ id - k \in DOMAIN files[0] /\ files[0][id - k].id = id
        <5>1. id - k \in 1 .. log.legacy - k /\ k + (id - k) = id /\ k < log.legacy
          BY <1>2, <1>4, <2>2, <3>2
        <5>2. Raw(k + 1, log.legacy)[id - k].id = k + (id - k)
          BY <1>6, <5>1
        <5>3. QED
          BY <1>6, <1>7, <5>1, <5>2
      <4>2. QED
        BY <4>1, IdsAre
    <3>3. QED
      BY <1>4, <2>2, <3>1, <3>2
  <2>3. QED
    BY <2>1, <2>2
<1>10. AuditTypeInv
  <2>1. DOMAIN files \subseteq Numbers
    BY <1>2, <1>7 DEF Numbers
  <2>2. /\ at \in [Processes -> -1 .. Archives] /\ phase \in [Processes -> {"start", "migrate", "serve"}]
        /\ 0 \in Numbers /\ 0 \in 0 .. Archives + 1 /\ count \in 0 .. log.lines /\ crashes \in 0 .. log.crashes
    BY <1>1, <1>2 DEF Numbers
  <2>3. QED
    BY <1>1, <1>8, <2>1, <2>2 DEF AuditTypeInv, AuditTypeOK, Idle, WriterSteps, NoPage
<1>11. AppendInv
  BY <1>1 DEF AppendInv, Idle
<1>12. Sized
  BY <1>2, <1>8 DEF Sized
<1>13. RetainedSuffix
  <2>1. \A id \in 1 .. log.legacy : id .. count \subseteq 1 .. log.legacy
    BY <1>1, <1>2
  <2>2. QED
    BY <1>9, <2>1 DEF RetainedSuffix
<1>14. Ordered
  <2>1. \A id \in Ids : id <= count
    BY <1>1, <1>2, <1>9
  <2>2. \A n \in DOMAIN files : \A i, j \in DOMAIN files[n] : i < j => files[n][i].id < files[n][j].id
    <3>1. 0 \in DOMAIN files => \A i, j \in DOMAIN files[0] : i < j => files[0][i].id < files[0][j].id
      BY <1>2, <1>4, <1>6, <1>7
    <3>2. 1 \in DOMAIN files => \A i, j \in DOMAIN files[1] : i < j => files[1][i].id < files[1][j].id
      BY <1>5, <1>7
    <3>3. QED
      BY <1>7, <3>1, <3>2
  <2>3. \A m, n \in DOMAIN files : m < n =>
          \A i \in DOMAIN files[n], j \in DOMAIN files[m] : files[n][i].id < files[m][j].id
    <3>1. 0 \in DOMAIN files /\ 1 \in DOMAIN files =>
            \A i \in DOMAIN files[1], j \in DOMAIN files[0] : files[1][i].id < files[0][j].id
      <4>1. \A i \in 1 .. k, j \in 1 .. log.legacy - k : i < k + j
        BY <1>2, <1>4
      <4>2. SUFFICES ASSUME 0 \in DOMAIN files, 1 \in DOMAIN files, NEW i \in DOMAIN files[1], NEW j \in DOMAIN files[0]
                     PROVE  files[1][i].id < files[0][j].id
        OBVIOUS
      <4>3. i \in 1 .. k /\ files[1][i].id = i
        BY <1>5, <1>7, <4>2
      <4>4. j \in 1 .. log.legacy - k /\ files[0][j].id = k + j
        BY <1>6, <1>7, <4>2
      <4>5. QED
        BY <4>1, <4>3, <4>4
    <3>2. QED
      BY <1>7, <3>1
  <2>4. QED
    BY <2>1, <2>2, <2>3 DEF Ordered
<1>15. MigratedClean /\ MigrateInv
  BY <1>1 DEF MigratedClean, MigrateInv
<1>16. HolesInv
  <2>1. ~Rotating
    BY <1>1 DEF Rotating, Idle
  <2>2. \A n \in DOMAIN files : \A m \in 1 .. n - 1 : FALSE
    BY <1>7
  <2>3. QED
    BY <2>1, <2>2 DEF HolesInv
<1>17. QED
  BY <1>10, <1>11, <1>12, <1>13, <1>14, <1>15, <1>16 DEF AuditInv

-----------------------------------------------------------------------------
(* Steps *)

Filing == FilesInv /\ AuditTypeInv /\ AppendInv

\* The invariant says of the files what the steps need.
LEMMA FilingIs == AuditInv /\ ~together => Filing /\ MigratedClean /\ MigrateInv /\ HolesInv
BY DEF AuditInv, Filing, FilesInv, AuditTypeInv, AuditTypeOK

\* A step of an append leaves the other appends as they are.
LEMMA GoesTo ==
  ASSUME AuditTypeInv, NEW w \in Writers, NEW step \in WriterSteps, NEW number \in Numbers, Goto(w, step, number)
  PROVE  /\ writers' \in [Writers -> [step : WriterSteps, number : Numbers]]
         /\ writers'[w].step = step /\ writers'[w].number = number
         /\ \A v \in Writers \ {w} : writers'[v] = writers[v]
BY DEF AuditTypeInv, AuditTypeOK, Goto

\* The step that an append makes.
Appends(w) == AppendLine(w) \/ RemoveArchive(w) \/ RenameArchive(w) \/ WriteLine(w)

\* An append goes to one of its steps, and a command may end with it.
LEMMA WriterGoes ==
  ASSUME AuditTypeInv, NEW w \in Writers, Appends(w)
  PROVE  /\ writers' \in [Writers -> [step : WriterSteps, number : Numbers]]
         /\ writers'[w].step = "idle" => writers'[w].number = 0
         /\ writers'[w].step \in {"remove", "rename"} => writers'[w].number \in 1 .. Archives
         /\ \A v \in Writers \ {w} : writers'[v] = writers[v]
         /\ UNCHANGED <<marker, at, log, crashes>>
         /\ phase' = phase \/ (phase' = [phase EXCEPT !["command"] = "start"] /\ WriteLine(w))
<1>t. Archives \in Nat \ {0} /\ 0 \in Numbers /\ Archives \in Numbers /\ Archives \in 1 .. Archives
  BY LogIs DEF Numbers
<1>1. CASE AppendLine(w)
  <2>1. Goto(w, "remove", Archives) \/ Goto(w, "write", 0)
    BY <1>1 DEF AppendLine, Oldest
  <2>2. UNCHANGED <<marker, at, log, crashes, phase>>
    BY <1>1 DEF AppendLine, auditEnv
  <2>3. QED
    BY <1>t, <2>1, <2>2, GoesTo DEF WriterSteps
<1>2. CASE RemoveArchive(w)
  <2>1. Goto(w, "rename", writers[w].number) /\ writers[w].number \in 1 .. Archives
    BY <1>2 DEF RemoveArchive, AuditTypeInv
  <2>2. writers[w].number \in Numbers
    BY <1>t, <2>1 DEF Numbers
  <2>3. UNCHANGED <<marker, at, log, crashes, phase>>
    BY <1>2 DEF RemoveArchive, auditEnv
  <2>4. QED
    BY <2>1, <2>2, <2>3, GoesTo DEF WriterSteps
<1>3. CASE RenameArchive(w)
  <2>1. writers[w].number \in 1 .. Archives
    BY <1>3 DEF RenameArchive, AuditTypeInv
  <2>2. (writers[w].number > 1 /\ Goto(w, "remove", writers[w].number - 1)) \/ Goto(w, "write", 0)
    BY <1>3 DEF RenameArchive
  <2>3. writers[w].number - 1 \in Numbers /\ (writers[w].number > 1 => writers[w].number - 1 \in 1 .. Archives)
    BY <1>t, <2>1 DEF Numbers
  <2>4. UNCHANGED <<marker, at, log, crashes, phase>>
    BY <1>3 DEF RenameArchive, auditEnv
  <2>5. QED
    BY <1>t, <2>2, <2>3, <2>4, GoesTo DEF WriterSteps
<1>4. CASE WriteLine(w)
  <2>1. Goto(w, "idle", 0) /\ UNCHANGED <<marker, at, log, crashes>>
    BY <1>4 DEF WriteLine, auditEnv
  <2>2. phase' = phase \/ phase' = [phase EXCEPT !["command"] = "start"]
    BY <1>4 DEF WriteLine, Ends
  <2>3. QED
    BY <1>4, <1>t, <2>1, <2>2, GoesTo DEF WriterSteps
<1>5. QED
  BY <1>1, <1>2, <1>3, <1>4 DEF Appends

\* Unless the panel and a command work together, an append works while nothing else does.
LEMMA WriterAlone ==
  ASSUME AuditTypeInv, AppendInv, ~together', NEW w \in Writers, Appends(w)
  PROVE  /\ \A v \in Writers \ {w} : writers'[v] = writers[v] /\ writers[v].step = "idle"
         /\ \A p \in Processes : phase[p] # "migrate" /\ phase'[p] # "migrate"
         /\ writers'[w].step # "idle" => phase'[ProcessOf(w)] = "serve"
<1>t. phase \in [Processes -> {"start", "migrate", "serve"}] /\ \A v \in Writers : ProcessOf(v) \in Processes
  BY DEF AuditTypeInv, AuditTypeOK, ProcessOf, Processes
<1>1. \A v \in Writers \ {w} : writers'[v] = writers[v]
  BY WriterGoes
<1>2. CASE AppendLine(w)
  <2> DEFINE p == ProcessOf(w)
  <2>1. phase[p] = "serve" /\ Unlocked(p) /\ Joins(p) /\ phase' = phase
    BY <1>2 DEF AppendLine
  <2>2. \A q \in Processes \ {p} : ~Working(q)
    BY <2>1 DEF Joins
  <2>3. \A q \in Processes : phase[q] # "migrate"
    BY <2>1, <2>2 DEF Working
  <2>4. \A v \in Writers : writers[v] = Idle
    BY <1>t, <2>1, <2>2 DEF Working, Unlocked
  <2>5. QED
    BY <1>1, <2>1, <2>3, <2>4 DEF Idle
<1>3. CASE RemoveArchive(w) \/ RenameArchive(w) \/ WriteLine(w)
  <2>1. writers[w].step # "idle"
    BY <1>3 DEF RemoveArchive, RenameArchive, WriteLine
  <2>2. \A p \in Processes : phase[p] # "migrate"
    BY <2>1 DEF AppendInv
  <2>3. \A p \in Processes : phase'[p] # "migrate"
    BY <1>t, <2>2, WriterGoes
  <2>4. phase[ProcessOf(w)] = "serve"
    BY <2>1 DEF AppendInv
  <2>5. WriteLine(w) => writers'[w].step = "idle"
    <3>1. 0 \in Numbers
      BY LogIs DEF Numbers
    <3>2. QED
      BY <3>1, GoesTo DEF WriteLine, WriterSteps
  <2>6. writers'[w].step # "idle" => phase'[ProcessOf(w)] = "serve"
    BY <2>4, <2>5, WriterGoes
  <2>7. QED
    BY <1>1, <2>1, <2>2, <2>3, <2>6 DEF AppendInv
<1>4. QED
  BY <1>2, <1>3 DEF Appends

\* What the other steps leave alone.
Others ==
  \/ \E p \in Processes : Boot(p) \/ AbandonMigration(p) \/ FinishMigration(p) \/ Crash(p)
  \/ NoLine \/ ReadRecent \/ ScanNext \/ ShowPage

\* A step is a migration's, an append's or one that leaves the files alone.
LEMMA AuditNextIs ==
  [AuditNext]_auditVars <=>
    (\E p \in Processes : Sanitize(p)) \/ (\E w \in Writers : Appends(w)) \/ Others \/ UNCHANGED auditVars
BY DEF AuditNext, Appends, Others

\* The other steps leave the files alone, and only a stop ends appends, those of its process.
LEMMA OthersLeave ==
  ASSUME Others \/ UNCHANGED auditVars
  PROVE  /\ UNCHANGED <<files, count, log>>
         /\ \/ writers' = writers /\ crashes' = crashes
            \/ \E p \in Processes : Crash(p)
BY DEF Others, Boot, AbandonMigration, FinishMigration, NoLine, ReadRecent, ScanNext, ShowPage, Crash, auditVars, auditEnv,
       EndsMigration

\* When the panel and a command have worked together, they have for ever.
LEMMA TogetherStays ==
  ASSUME [AuditNext]_auditVars, ~together'
  PROVE  ~together
<1>1. \A w \in Writers : Appends(w) => ~together
  BY DEF Appends, AppendLine, RemoveArchive, RenameArchive, WriteLine, Joins
<1>2. \A p \in Processes : Sanitize(p) => ~together
  BY DEF Sanitize
<1>3. Others \/ UNCHANGED auditVars => ~together
  BY DEF Others, Boot, AbandonMigration, FinishMigration, NoLine, ReadRecent, ScanNext, ShowPage, Crash, auditVars, Joins
<1>4. QED
  BY <1>1, <1>2, <1>3, AuditNextIs

\* Every step leaves sequences of lines in the files.
LEMMA FilesTyped ==
  ASSUME AuditTypeInv, [AuditNext]_auditVars
  PROVE  DOMAIN files' \subseteq Numbers /\ \A n \in DOMAIN files' : files'[n] \in Seq(Line')
<1>t. /\ DOMAIN files \subseteq Numbers /\ \A n \in DOMAIN files : files[n] \in Seq(Line)
      /\ Archives \in Nat \ {0} /\ 0 \in Numbers /\ log.lines \in Nat /\ count \in 0 .. log.lines
  BY LogIs DEF AuditTypeInv, AuditTypeOK, Numbers
<1>1. log' = log => Line' = Line
  BY DEF Line
<1>2. ASSUME NEW w \in Writers, Appends(w)
      PROVE  DOMAIN files' \subseteq Numbers /\ \A n \in DOMAIN files' : files'[n] \in Seq(Line)
  <2>1. CASE AppendLine(w)
    BY <1>t, <2>1 DEF AppendLine
  <2>2. CASE RemoveArchive(w)
    BY <1>t, <2>2 DEF RemoveArchive, Without
  <2>3. CASE RenameArchive(w)
    <3> DEFINE k == writers[w].number
    <3>1. k \in Numbers
      BY <1>t, <2>3 DEF RenameArchive, AuditTypeInv, Numbers
    <3>2. CASE k - 1 \in DOMAIN files /\ files' = Renamed(k)
      BY <1>t, <3>1, <3>2 DEF Renamed
    <3>3. QED
      BY <1>t, <2>3, <3>2 DEF RenameArchive
  <2>4. CASE WriteLine(w)
    <3> DEFINE line == [id |-> count + 1, raw |-> FALSE]
    <3>1. count < log.lines
      BY <2>4 DEF WriteLine
    <3>2. count + 1 \in 1 .. log.lines
      BY <1>t, <3>1
    <3>3. line \in Line
      BY <3>2 DEF Line
    <3>4. LinesOf(0) \in Seq(Line)
      BY <1>t DEF LinesOf
    <3>5. Append(LinesOf(0), line) \in Seq(Line)
      BY <3>3, <3>4, AppendProperties
    <3>6. \/ files' = [n \in DOMAIN files \cup {0} |-> IF n = 0 THEN Append(LinesOf(0), line) ELSE files[n]]
          \/ files' = files
      BY <2>4 DEF WriteLine
    <3>7. QED
      BY <1>t, <3>5, <3>6
  <2>5. QED
    BY <1>2, <2>1, <2>2, <2>3, <2>4 DEF Appends
<1>3. ASSUME NEW p \in Processes, Sanitize(p)
      PROVE  DOMAIN files' \subseteq Numbers /\ \A n \in DOMAIN files' : files'[n] \in Seq(Line)
  <2>1. ASSUME NEW n \in DOMAIN files
        PROVE  [i \in DOMAIN files[n] |-> [files[n][i] EXCEPT !.raw = FALSE]] \in Seq(Line)
    <3>1. DOMAIN files[n] = 1 .. Len(files[n]) /\ Len(files[n]) \in Nat /\ \A i \in DOMAIN files[n] : files[n][i] \in Line
      BY <2>1, FileIs
    <3>2. \A i \in DOMAIN files[n] : [files[n][i] EXCEPT !.raw = FALSE] \in Line
      BY <3>1 DEF Line
    <3>3. QED
      BY <3>1, <3>2
  <2>2. QED
    BY <1>t, <1>3, <2>1 DEF Sanitize
<1>4. CASE Others \/ UNCHANGED auditVars
  BY <1>t, <1>1, <1>4, OthersLeave
<1>5. \A w \in Writers : Appends(w) => log' = log
  BY WriterGoes
<1>6. \A p \in Processes : Sanitize(p) => log' = log
  BY DEF Sanitize, auditEnv
<1>7. QED
  BY <1>1, <1>2, <1>3, <1>4, <1>5, <1>6, AuditNextIs

\* Unless the panel and a command work together, a step keeps the order of the lines, their sizes
\* and the end of the log.
LEMMA FilesKept ==
  ASSUME Filing, [AuditNext]_auditVars, ~together'
  PROVE  FilesInv'
<1>1. ASSUME NEW w \in Writers, Appends(w)
      PROVE  FilesInv'
  <2>1. CASE AppendLine(w)
    BY <2>1, NothingKeeps DEF Filing, AppendLine, auditEnv
  <2>2. CASE RemoveArchive(w) \/ RenameArchive(w) \/ WriteLine(w)
    BY <2>2, RemoveKeeps, RenameKeeps, WriteKeeps DEF Filing
  <2>3. QED
    BY <1>1, <2>1, <2>2 DEF Appends
<1>2. ASSUME NEW p \in Processes, Sanitize(p)
      PROVE  FilesInv'
  BY <1>2, SanitizeKeeps DEF Filing
<1>3. CASE Others \/ UNCHANGED auditVars
  BY <1>3, OthersLeave, NothingKeeps DEF Filing
<1>4. QED
  BY <1>1, <1>2, <1>3, AuditNextIs

\* Every step keeps the types.
LEMMA AuditTypeKept ==
  ASSUME AuditTypeInv, [AuditNext]_auditVars
  PROVE  AuditTypeInv'
<1> DEFINE Steps == [step : WriterSteps, number : Numbers]
<1>t. /\ Archives \in Nat \ {0} /\ count \in 0 .. log.lines /\ log.lines \in Nat /\ log.crashes \in Nat
  BY LogIs
<1>f. DOMAIN files' \subseteq Numbers /\ \A n \in DOMAIN files' : files'[n] \in Seq(Line')
  BY FilesTyped
<1>0. /\ reader.step \in {"idle", "scan"} /\ reader.number \in 0 .. Archives + 1 /\ DOMAIN reader = DOMAIN NoPage
      /\ marker \in BOOLEAN /\ phase \in [Processes -> {"start", "migrate", "serve"}] /\ at \in [Processes -> -1 .. Archives]
      /\ writers \in [Writers -> Steps] /\ log \in Logs /\ crashes \in 0 .. log.crashes /\ together \in BOOLEAN
  BY <1>t DEF AuditTypeInv, AuditTypeOK
<1>w. \A w \in Writers : /\ writers[w].step = "idle" => writers[w].number = 0
                         /\ writers[w].step \in {"remove", "rename"} => writers[w].number \in 1 .. Archives
  BY DEF AuditTypeInv
<1>p. /\ NoPage.step \in {"idle", "scan"} /\ NoPage.number \in 0 .. Archives + 1
      /\ Archives \in -1 .. Archives
  BY <1>t DEF NoPage
<1>1. count' \in 0 .. log'.lines
  <2>1. ASSUME NEW w \in Writers, Appends(w)
        PROVE  count' \in 0 .. log.lines
    <3>1. count' = count \/ (count < log.lines /\ count' = count + 1)
      BY <2>1 DEF Appends, AppendLine, RemoveArchive, RenameArchive, WriteLine
    <3>2. QED
      BY <1>t, <3>1
  <2>2. \A w \in Writers : Appends(w) => log' = log
    BY <1>t, WriterGoes
  <2>3. \A p \in Processes : Sanitize(p) => count' = count /\ log' = log
    BY DEF Sanitize, auditEnv
  <2>4. QED
    BY <1>t, <2>1, <2>2, <2>3, AuditNextIs, OthersLeave
<1>2. log' \in Logs /\ crashes' \in 0 .. log'.crashes
  <2>1. \A p \in Processes : Crash(p) => crashes' \in 0 .. log.crashes /\ log' = log
    BY <1>t, <1>0 DEF Crash
  <2>2. \A w \in Writers : Appends(w) => log' = log /\ crashes' = crashes
    BY <1>t, WriterGoes
  <2>3. \A p \in Processes : Sanitize(p) => log' = log /\ crashes' = crashes
    BY DEF Sanitize, auditEnv
  <2>4. QED
    BY <1>0, <2>1, <2>2, <2>3, AuditNextIs, OthersLeave
<1>3. marker' \in BOOLEAN /\ together' \in BOOLEAN
  <2>1. \A w \in Writers : Appends(w) => marker' = marker /\ together' \in BOOLEAN
    BY <1>0, WriterGoes DEF Appends, AppendLine, RemoveArchive, RenameArchive, WriteLine, Joins
  <2>2. \A p \in Processes : Sanitize(p) => UNCHANGED <<marker, together>>
    BY DEF Sanitize
  <2>3. Others \/ UNCHANGED auditVars => marker' \in {marker, TRUE} /\ together' \in BOOLEAN
    BY <1>0 DEF Others, Boot, AbandonMigration, FinishMigration, NoLine, ReadRecent, ScanNext, ShowPage, Crash, auditVars, Joins
  <2>4. QED
    BY <1>0, <2>1, <2>2, <2>3, AuditNextIs
<1>4. phase' \in [Processes -> {"start", "migrate", "serve"}] /\ at' \in [Processes -> -1 .. Archives]
  <2>1. \A w \in Writers : Appends(w) => phase' \in [Processes -> {"start", "migrate", "serve"}] /\ at' = at
    BY <1>0, WriterGoes
  <2>2. ASSUME NEW p \in Processes, Sanitize(p)
        PROVE  phase' = phase /\ at' \in [Processes -> -1 .. Archives]
    <3>1. phase' = phase /\ at[p] # -1 /\ at' = [at EXCEPT ![p] = @ - 1]
      BY <2>2 DEF Sanitize, None
    <3>2. at[p] \in -1 .. Archives
      BY <1>0
    <3>3. at[p] - 1 \in -1 .. Archives
      BY <1>t, <3>1, <3>2
    <3>4. QED
      BY <1>0, <3>1, <3>3
  <2>3. ASSUME NEW p \in Processes, Boot(p) \/ AbandonMigration(p) \/ FinishMigration(p) \/ Crash(p)
        PROVE  phase' \in [Processes -> {"start", "migrate", "serve"}] /\ at' \in [Processes -> -1 .. Archives]
    <3>1. \E x \in {"start", "migrate", "serve"} : phase' = [phase EXCEPT ![p] = x]
      BY <2>3 DEF Boot, AbandonMigration, FinishMigration, Crash, EndsMigration
    <3>2. \E x \in {-1, Archives} : at' = [at EXCEPT ![p] = x]
      BY <2>3 DEF Boot, AbandonMigration, FinishMigration, Crash, EndsMigration, FirstMigrated, None
    <3>3. -1 \in -1 .. Archives
      BY <1>t
    <3>4. QED
      BY <1>0, <1>p, <3>1, <3>2, <3>3
  <2>4. NoLine => phase' \in [Processes -> {"start", "migrate", "serve"}] /\ at' = at
    BY <1>0 DEF NoLine, Ends
  <2>5. ReadRecent \/ ScanNext \/ ShowPage \/ UNCHANGED auditVars => phase' = phase /\ at' = at
    BY DEF ReadRecent, ScanNext, ShowPage, auditVars
  <2>6. QED
    BY <1>0, <2>1, <2>2, <2>3, <2>4, <2>5, AuditNextIs DEF Others
<1>5. /\ writers' \in [Writers -> Steps]
      /\ \A w \in Writers : /\ writers'[w].step = "idle" => writers'[w].number = 0
                            /\ writers'[w].step \in {"remove", "rename"} => writers'[w].number \in 1 .. Archives
  <2>1. ASSUME NEW w \in Writers, Appends(w)
        PROVE  /\ writers' \in [Writers -> Steps]
               /\ \A v \in Writers : /\ writers'[v].step = "idle" => writers'[v].number = 0
                                     /\ writers'[v].step \in {"remove", "rename"} => writers'[v].number \in 1 .. Archives
    BY <1>w, <2>1, WriterGoes
  <2>2. \A p \in Processes : Sanitize(p) => writers' = writers
    BY DEF Sanitize
  <2>3. Idle \in Steps /\ Idle.step = "idle" /\ Idle.number = 0
    BY <1>t DEF Idle, WriterSteps, Numbers
  <2>4. ASSUME NEW p \in Processes, Crash(p)
        PROVE  writers' \in [Writers -> Steps] /\ \A w \in Writers : writers'[w] = writers[w] \/ writers'[w] = Idle
    BY <1>0, <2>3, <2>4 DEF Crash
  <2>5. QED
    BY <1>0, <1>w, <2>1, <2>2, <2>3, <2>4, AuditNextIs, OthersLeave
<1>6. reader'.step \in {"idle", "scan"} /\ reader'.number \in 0 .. Archives + 1 /\ DOMAIN reader' = DOMAIN NoPage
  <2>1. ASSUME NEW w \in Writers, Appends(w)
        PROVE  reader' = reader \/ reader' = [reader EXCEPT !.moved = reader.step = "scan"]
    BY <2>1 DEF Appends, AppendLine, RemoveArchive, RenameArchive, WriteLine
  <2>2. CASE ScanNext
    <3>1. reader'.step = reader.step /\ reader'.number = reader.number + 1 /\ DOMAIN reader' = DOMAIN reader
      BY <1>0, <2>2 DEF ScanNext, NoPage
    <3>2. reader.number <= Archives
      BY <2>2 DEF ScanNext, More
    <3>3. reader.number + 1 \in 0 .. Archives + 1
      BY <1>t, <1>0, <3>2
    <3>4. QED
      BY <1>0, <3>1, <3>3
  <2>3. CASE ReadRecent
    BY <1>p, <2>3 DEF ReadRecent, NoPage
  <2>4. \A p \in Processes : Sanitize(p) => \E b : reader' = [reader EXCEPT !.moved = b]
    BY DEF Sanitize
  <2>5. Others \/ UNCHANGED auditVars => reader' = reader \/ reader' = NoPage \/ ScanNext \/ ReadRecent
    BY DEF Others, Boot, AbandonMigration, FinishMigration, NoLine, ShowPage, Crash, auditVars
  <2>6. \A b : LET q == [reader EXCEPT !.moved = b] IN
                 q.step = reader.step /\ q.number = reader.number /\ DOMAIN q = DOMAIN reader
    BY <1>0 DEF NoPage
  <2>7. \A w \in Writers : Appends(w) => reader'.step = reader.step /\ reader'.number = reader.number /\ DOMAIN reader' = DOMAIN reader
    BY <2>1, <2>6
  <2>8. \A p \in Processes : Sanitize(p) => reader'.step = reader.step /\ reader'.number = reader.number /\ DOMAIN reader' = DOMAIN reader
    BY <2>4, <2>6
  <2>9. QED
    BY <1>0, <1>p, <2>2, <2>3, <2>5, <2>7, <2>8, AuditNextIs
<1>7. DOMAIN NoPage' = DOMAIN NoPage
  BY DEF NoPage
<1>8. QED
  <2>1. writers' \in [Writers -> [step : WriterSteps, number : Numbers]]
    BY <1>5
  <2>2. AuditTypeOK'
    BY <1>f, <1>1, <1>2, <1>3, <1>4, <1>6, <2>1 DEF AuditTypeOK
  <2>3. QED
    BY <1>5, <1>6, <1>7, <2>2 DEF AuditTypeInv

\* Unless the panel and a command work together, a step keeps an append or a migration alone, and
\* the place that a rotation has made free.
LEMMA AppendKept ==
  ASSUME Filing, [AuditNext]_auditVars, ~together'
  PROVE  AppendInv'
<1>t. /\ Archives \in Nat \ {0} /\ log.maxFile \in Nat \ {0} /\ AuditTypeInv /\ AppendInv
      /\ \A n \in DOMAIN files : Len(files[n]) \in Nat
      /\ phase \in [Processes -> {"start", "migrate", "serve"}]
  BY LogIs, FileIs DEF Filing, AuditTypeInv, AuditTypeOK
<1>u. \A w \in Writers : ProcessOf(w) \in Processes
  BY DEF ProcessOf, Processes
<1>1. ASSUME NEW w \in Writers, Appends(w),
             LET step == writers'[w].step
                 number == writers'[w].number IN
             /\ step = "rename" => number \notin DOMAIN files'
             /\ ~log.renameFails =>
                  /\ step = "remove" /\ number < Archives => number \notin DOMAIN files'
                  /\ step = "write" => 0 \notin DOMAIN files' \/ Len(files'[0]) < log.maxFile
      PROVE  AppendInv'
  <2>1. /\ \A v \in Writers \ {w} : writers'[v] = writers[v] /\ writers[v].step = "idle"
        /\ \A p \in Processes : phase'[p] # "migrate"
        /\ writers'[w].step # "idle" => phase'[ProcessOf(w)] = "serve"
        /\ log' = log
    BY <1>1, <1>t, WriterGoes, WriterAlone
  <2>2. \A v \in Writers \ {w} : writers'[v].step = "idle"
    BY <2>1
  <2>3. QED
    BY <1>1, <2>1, <2>2 DEF AppendInv
<1>2. ASSUME NEW w \in Writers, AppendLine(w)
      PROVE  AppendInv'
  <2>1. UNCHANGED files /\ 0 \in Numbers /\ Archives \in Numbers
    BY <1>2, <1>t DEF AppendLine, Numbers
  <2>2. CASE 0 \in DOMAIN files /\ Full(files[0]) /\ Goto(w, "remove", Archives)
    <3>1. writers'[w].step = "remove" /\ writers'[w].number = Archives
      BY <1>t, <2>1, <2>2, GoesTo DEF WriterSteps
    <3>2. QED
      BY <1>1, <1>2, <1>t, <3>1 DEF Appends
  <2>3. CASE ~(0 \in DOMAIN files /\ Full(files[0])) /\ Goto(w, "write", 0)
    <3>1. writers'[w].step = "write" /\ writers'[w].number = 0
      BY <1>t, <2>1, <2>3, GoesTo DEF WriterSteps
    <3>2. 0 \notin DOMAIN files \/ Len(files[0]) < log.maxFile
      BY <1>t, <2>3 DEF Full
    <3>3. QED
      BY <1>1, <1>2, <2>1, <3>1, <3>2 DEF Appends
  <2>4. QED
    BY <1>2, <2>2, <2>3 DEF AppendLine, Oldest
<1>3. ASSUME NEW w \in Writers, RemoveArchive(w)
      PROVE  AppendInv'
  <2>1. writers[w].number \in 1 .. Archives /\ writers[w].number \in Numbers
    BY <1>3, <1>t DEF RemoveArchive, AuditTypeInv, Numbers
  <2>2. writers'[w].step = "rename" /\ writers'[w].number = writers[w].number
    BY <1>3, <1>t, <2>1, GoesTo DEF RemoveArchive, WriterSteps
  <2>3. writers[w].number \notin DOMAIN files'
    BY <1>3 DEF RemoveArchive, Without
  <2>4. QED
    BY <1>1, <1>3, <2>1, <2>2, <2>3 DEF Appends
<1>4. ASSUME NEW w \in Writers, RenameArchive(w)
      PROVE  AppendInv'
  <2> DEFINE k == writers[w].number
  <2>0. k \in 1 .. Archives
    BY <1>4, <1>t DEF RenameArchive, AuditTypeInv
  <2>1. k \in 1 .. Archives /\ k - 1 \in Numbers /\ 0 \in Numbers
    BY <1>t, <2>0 DEF Numbers
  <2>2. ~log.renameFails => k - 1 \notin DOMAIN files'
    <3>1. k - 1 # k
      BY <2>1
    <3>2. \/ log.renameFails \/ (UNCHANGED files /\ k - 1 \notin DOMAIN files)
          \/ DOMAIN files' = (DOMAIN files \ {k - 1}) \cup {k}
      BY <1>4, <1>t, RenamedIs
    <3>3. QED
      BY <3>1, <3>2
  <2>3. CASE k > 1 /\ Goto(w, "remove", k - 1)
    <3>1. writers'[w].step = "remove" /\ writers'[w].number = k - 1
      BY <1>t, <2>1, <2>3, GoesTo DEF WriterSteps
    <3>2. QED
      BY <1>1, <1>4, <2>2, <3>1 DEF Appends
  <2>4. CASE k <= 1 /\ Goto(w, "write", 0)
    <3>1. writers'[w].step = "write"
      BY <1>t, <2>1, <2>4, GoesTo DEF WriterSteps
    <3>2. k - 1 = 0
      BY <1>t, <2>1, <2>4
    <3>3. QED
      BY <1>1, <1>4, <2>2, <3>1, <3>2 DEF Appends
  <2>5. QED
    BY <1>4, <2>1, <2>3, <2>4 DEF RenameArchive
<1>5. ASSUME NEW w \in Writers, WriteLine(w)
      PROVE  AppendInv'
  <2>1. 0 \in Numbers
    BY <1>t DEF Numbers
  <2>2. writers'[w].step = "idle"
    BY <1>5, <1>t, <2>1, GoesTo DEF WriteLine, WriterSteps
  <2>3. QED
    BY <1>1, <1>5, <2>2 DEF Appends
<1>6. ASSUME NEW p \in Processes, Sanitize(p)
      PROVE  AppendInv'
  <2>1. phase[p] = "migrate" /\ UNCHANGED <<phase, writers, log>> /\ DOMAIN files' = DOMAIN files
    BY <1>6 DEF Sanitize, auditEnv
  <2>2. \A w \in Writers : writers[w].step = "idle"
    BY <1>t, <2>1 DEF AppendInv
  <2>3. QED
    BY <1>t, <2>1, <2>2 DEF AppendInv
<1>7. ASSUME NEW p \in Processes, Boot(p)
      PROVE  AppendInv'
  <2>1. UNCHANGED <<files, log, writers>>
    BY <1>7 DEF Boot, auditEnv
  <2>2. CASE marker
    <3>1. phase' = [phase EXCEPT ![p] = "serve"]
      BY <1>7, <2>2 DEF Boot
    <3>2. \A q \in Processes : (phase'[q] = "migrate" => phase[q] = "migrate") /\ (phase[q] = "serve" => phase'[q] = "serve")
      BY <1>t, <3>1
    <3>3. QED
      BY <1>t, <1>u, <2>1, <3>2 DEF AppendInv
  <2>3. CASE ~marker
    <3>1. phase' = [phase EXCEPT ![p] = "migrate"] /\ Joins(p) /\ phase[p] = "start"
      BY <1>7, <2>3 DEF Boot
    <3>2. \A q \in Processes \ {p} : phase[q] # "migrate" /\ phase'[q] # "migrate"
      BY <1>t, <3>1 DEF Joins, Working
    <3>3. ASSUME NEW w \in Writers, writers[w].step # "idle"
          PROVE  FALSE
      <4>1. writers[w] # Idle
        BY <3>3 DEF Idle
      <4>2. ProcessOf(w) = p
        BY <1>u, <3>1, <3>3, <4>1 DEF Joins, Working
      <4>3. QED
        BY <1>t, <3>1, <3>3, <4>2 DEF AppendInv
    <3>4. QED
      BY <2>1, <3>2, <3>3 DEF AppendInv
  <2>4. QED
    BY <2>2, <2>3
<1>8. ASSUME NEW p \in Processes, Crash(p)
      PROVE  AppendInv'
  <2>1. UNCHANGED <<files, log>> /\ phase' = [phase EXCEPT ![p] = "start"]
        /\ writers' = [w \in Writers |-> IF ProcessOf(w) = p THEN Idle ELSE writers[w]]
    BY <1>8 DEF Crash
  <2>2. \A q \in Processes : phase'[q] = "migrate" => phase[q] = "migrate"
    BY <1>t, <2>1
  <2>3. \A w \in Writers : writers'[w].step # "idle" => writers'[w] = writers[w]
    BY <2>1 DEF Idle
  <2>4. \A v, w \in Writers : writers'[v].step # "idle" /\ writers'[w].step # "idle" => v = w
    BY <1>t, <2>3 DEF AppendInv
  <2>5. \A w \in Writers : writers'[w].step # "idle" => ProcessOf(w) # p /\ phase'[ProcessOf(w)] = "serve"
    BY <1>t, <1>u, <2>1, <2>3 DEF AppendInv, Idle
  <2>6. QED
    BY <1>t, <2>1, <2>2, <2>3, <2>4, <2>5 DEF AppendInv
<1>9. ASSUME \/ \E p \in Processes : AbandonMigration(p) \/ FinishMigration(p)
             \/ NoLine \/ ReadRecent \/ ScanNext \/ ShowPage \/ UNCHANGED auditVars
      PROVE  AppendInv'
  <2>1. UNCHANGED <<files, log, writers>>
    BY <1>9 DEF AbandonMigration, FinishMigration, NoLine, ReadRecent, ScanNext, ShowPage, auditVars, auditEnv
  <2>2. \/ phase' = phase
        \/ \E p \in Processes : phase' = [phase EXCEPT ![p] = "serve"]
        \/ NoLine /\ phase' = [phase EXCEPT !["command"] = "start"]
    BY <1>9 DEF AbandonMigration, FinishMigration, NoLine, ReadRecent, ScanNext, ShowPage, auditVars, EndsMigration, Ends
  <2>3. \A q \in Processes : phase'[q] = "migrate" => phase[q] = "migrate"
    BY <1>t, <2>2
  <2>4. NoLine => \A w \in Writers : writers[w].step # "idle" => ProcessOf(w) # "command"
    BY DEF NoLine, Unlocked, Idle
  <2>5. \A w \in Writers : writers[w].step # "idle" => phase'[ProcessOf(w)] = "serve"
    BY <1>t, <1>u, <2>2, <2>4 DEF AppendInv
  <2>6. QED
    BY <1>t, <2>1, <2>3, <2>5 DEF AppendInv
<1>10. QED
  BY <1>2, <1>3, <1>4, <1>5, <1>6, <1>7, <1>8, <1>9, AuditNextIs DEF Appends, Others

\* Unless the panel and a command work together, a step keeps the files clean that a migration has been at.
LEMMA CleanKept ==
  ASSUME Filing, MigratedClean, MigrateInv, [AuditNext]_auditVars, ~together'
  PROVE  MigratedClean' /\ MigrateInv'
<1>t. AuditTypeInv /\ AppendInv /\ Archives \in Nat /\ DOMAIN files \subseteq 0 .. Archives
      /\ at \in [Processes -> -1 .. Archives] /\ phase \in [Processes -> {"start", "migrate", "serve"}]
  BY LogIs DEF Filing, FilesInv, Numbers, AuditTypeInv, AuditTypeOK
<1>1. ASSUME NEW w \in Writers, Appends(w)
      PROVE  MigratedClean' /\ MigrateInv'
  <2>1. marker' = marker /\ \A p \in Processes : phase'[p] # "migrate"
    BY <1>1, <1>t, WriterGoes, WriterAlone
  <2>2. SUFFICES ASSUME marker, NEW n \in DOMAIN files', NEW i \in DOMAIN files'[n]
                 PROVE  ~files'[n][i].raw
    BY <2>1 DEF MigratedClean, MigrateInv
  <2>3. \A m \in DOMAIN files : \A j \in DOMAIN files[m] : ~files[m][j].raw
    BY <2>2 DEF MigratedClean
  <2>4. CASE AppendLine(w)
    BY <2>2, <2>3, <2>4 DEF AppendLine
  <2>5. CASE RemoveArchive(w)
    BY <2>2, <2>3, <2>5 DEF RemoveArchive, Without
  <2>6. CASE RenameArchive(w)
    <3> DEFINE k == writers[w].number
    <3>1. CASE UNCHANGED files
      BY <2>2, <2>3, <3>1
    <3>2. CASE /\ k - 1 \in DOMAIN files
               /\ DOMAIN files' = (DOMAIN files \ {k - 1}) \cup {k}
               /\ files'[k] = files[k - 1]
               /\ \A m \in DOMAIN files \ {k - 1} : files'[m] = files[m]
      <4> HIDE DEF k
      <4>1. \E m \in DOMAIN files : files'[n] = files[m]
        BY <2>2, <3>2
      <4>2. QED
        BY <2>2, <2>3, <4>1
    <3>3. QED
      BY <1>t, <2>6, <3>1, <3>2, RenamedIs
  <2>7. CASE WriteLine(w)
    <3>1. CASE UNCHANGED files
      BY <2>2, <2>3, <3>1
    <3>2. CASE files' = [m \in DOMAIN files \cup {0} |->
                           IF m = 0 THEN Append(LinesOf(0), [id |-> count + 1, raw |-> FALSE]) ELSE files[m]]
      <4> DEFINE line == [id |-> count + 1, raw |-> FALSE]
      <4>1. CASE n # 0
        BY <2>2, <2>3, <3>2, <4>1
      <4>2. CASE n = 0
        <5>1. LinesOf(0) \in Seq(Line) /\ line \in Line /\ Len(LinesOf(0)) \in Nat
          <6>1. count + 1 \in 1 .. log.lines
            BY <1>t, <2>7, LogIs DEF WriteLine
          <6>2. line \in Line
            BY <6>1 DEF Line
          <6>3. LinesOf(0) \in Seq(Line)
            BY DEF LinesOf, Filing, FilesInv
          <6>4. QED
            BY <6>2, <6>3
        <5>2. files'[0] = Append(LinesOf(0), line)
          BY <3>2
        <5>3. /\ DOMAIN files'[0] = 1 .. Len(LinesOf(0)) + 1
              /\ files'[0][Len(LinesOf(0)) + 1] = line
              /\ \A j \in 1 .. Len(LinesOf(0)) : files'[0][j] = LinesOf(0)[j]
          BY <5>1, <5>2, AppendProperties
        <5>4. CASE i = Len(LinesOf(0)) + 1
          BY <4>2, <5>3, <5>4
        <5>5. CASE i # Len(LinesOf(0)) + 1
          <6>1. i \in 1 .. Len(LinesOf(0))
            BY <2>2, <4>2, <5>1, <5>3, <5>5
          <6>2. 0 \in DOMAIN files /\ LinesOf(0) = files[0] /\ DOMAIN files[0] = 1 .. Len(files[0])
            BY <1>t, <6>1, FileIs DEF LinesOf
          <6>3. QED
            BY <2>3, <4>2, <5>3, <6>1, <6>2
        <5>6. QED
          BY <5>4, <5>5
      <4>3. QED
        BY <4>1, <4>2
    <3>3. QED
      BY <2>7, <3>1, <3>2 DEF WriteLine
  <2>8. QED
    BY <1>1, <2>4, <2>5, <2>6, <2>7 DEF Appends
<1>2. ASSUME NEW p \in Processes, Sanitize(p)
      PROVE  MigratedClean' /\ MigrateInv'
  <2> DEFINE k == at[p]
  <2>1. /\ UNCHANGED <<marker, phase>> /\ phase[p] = "migrate" /\ DOMAIN files' = DOMAIN files
        /\ \A n \in DOMAIN files \ {k} : files'[n] = files[n]
        /\ k \in DOMAIN files => files'[k] = [i \in DOMAIN files[k] |-> [files[k][i] EXCEPT !.raw = FALSE]]
    BY <1>2 DEF Sanitize
  <2>2. k \in DOMAIN files => \A i \in DOMAIN files'[k] : ~files'[k][i].raw
    <3>1. SUFFICES ASSUME k \in DOMAIN files, NEW i \in DOMAIN files'[k]
                   PROVE  ~files'[k][i].raw
      OBVIOUS
    <3>2. i \in DOMAIN files[k] /\ files'[k][i] = [files[k][i] EXCEPT !.raw = FALSE] /\ files[k][i] \in Line
      BY <1>t, <2>1, <3>1, FileIs
    <3>3. QED
      BY <3>2 DEF Line
  <2>3. at'[p] = k - 1 /\ k \in -1 .. Archives
    BY <1>t, <1>2 DEF Sanitize
  <2>4. \A n \in DOMAIN files : n > at'[p] => n = k \/ n > k
    BY <1>t, <2>3
  <2>5. \A q \in Processes : phase'[q] = "migrate" => q = p
    BY <1>t, <2>1 DEF AppendInv
  <2>6. MigratedClean'
    BY <2>1, <2>2 DEF MigratedClean
  <2>7. \A n \in DOMAIN files : n > k => \A i \in DOMAIN files[n] : ~files[n][i].raw
    BY <2>1 DEF MigrateInv
  <2>8. \A n \in DOMAIN files' : n > at'[p] => \A i \in DOMAIN files'[n] : ~files'[n][i].raw
    <3> HIDE DEF k
    <3>1. QED
      BY <2>1, <2>2, <2>4, <2>7
  <2>9. MigrateInv'
    BY <2>5, <2>8 DEF MigrateInv
  <2>10. QED
    BY <2>6, <2>9
<1>3. ASSUME NEW p \in Processes, Boot(p)
      PROVE  MigratedClean' /\ MigrateInv'
  <2>1. /\ UNCHANGED <<files, marker>> /\ \A q \in Processes \ {p} : phase'[q] = phase[q] /\ at'[q] = at[q]
        /\ phase'[p] = "migrate" => at'[p] = Archives
    BY <1>3, <1>t DEF Boot, FirstMigrated
  <2>2. \A n \in DOMAIN files : ~(n > Archives)
    BY <1>t
  <2>3. QED
    BY <2>1, <2>2 DEF MigratedClean, MigrateInv
<1>4. ASSUME NEW p \in Processes, FinishMigration(p)
      PROVE  MigratedClean' /\ MigrateInv'
  <2>1. /\ phase[p] = "migrate" /\ at[p] = -1 /\ UNCHANGED files
        /\ phase' = [phase EXCEPT ![p] = "serve"] /\ at' = [at EXCEPT ![p] = -1]
    BY <1>4 DEF FinishMigration, EndsMigration, None
  <2>2. \A n \in DOMAIN files : n > at[p]
    BY <1>t, <2>1
  <2>3. MigratedClean'
    BY <2>1, <2>2 DEF MigratedClean, MigrateInv
  <2>4. \A q \in Processes : phase'[q] = "migrate" => phase[q] = "migrate" /\ at'[q] = at[q]
    BY <1>t, <2>1
  <2>5. MigrateInv'
    BY <2>1, <2>4 DEF MigrateInv
  <2>6. QED
    BY <2>3, <2>5
<1>5. ASSUME \/ \E p \in Processes : AbandonMigration(p) \/ Crash(p)
             \/ NoLine \/ ReadRecent \/ ScanNext \/ ShowPage \/ UNCHANGED auditVars
      PROVE  MigratedClean' /\ MigrateInv'
  <2>1. UNCHANGED <<files, marker>>
    BY <1>5 DEF AbandonMigration, Crash, NoLine, ReadRecent, ScanNext, ShowPage, auditVars
  <2>2. \/ UNCHANGED <<phase, at>>
        \/ \E p \in Processes, x \in {"start", "serve"} :
             phase' = [phase EXCEPT ![p] = x] /\ (at' = at \/ at' = [at EXCEPT ![p] = None])
    BY <1>5 DEF AbandonMigration, Crash, NoLine, ReadRecent, ScanNext, ShowPage, auditVars, EndsMigration, Ends, Processes
  <2>3. \A q \in Processes : phase'[q] = "migrate" => phase[q] = "migrate" /\ at'[q] = at[q]
    BY <1>t, <2>2
  <2>4. QED
    BY <2>1, <2>3 DEF MigratedClean, MigrateInv
<1>6. QED
  BY <1>1, <1>2, <1>3, <1>4, <1>5, AuditNextIs DEF Others

\* Unless the panel and a command work together, a step keeps the archives without a gap but the one that a rotation is moving.
LEMMA HolesKept ==
  ASSUME Filing, HolesInv, [AuditNext]_auditVars, ~together'
  PROVE  HolesInv'
<1> DEFINE Free(m) == \E w \in Writers : writers[w].step \in {"remove", "rename"} /\ writers[w].number = m
<1>t. /\ AuditTypeInv /\ AppendInv /\ Archives \in Nat /\ Archives > 0 /\ DOMAIN files \subseteq 0 .. Archives
      /\ crashes \in Nat
  BY LogIs DEF Filing, FilesInv, Numbers, AuditTypeInv, AuditTypeOK
<1>0. log' = log /\ (crashes' = 0 => crashes = 0)
  <2>1. \A w \in Writers : Appends(w) => log' = log /\ crashes' = crashes
    BY <1>t, WriterGoes
  <2>2. \A p \in Processes : Crash(p) => log' = log /\ crashes' # 0
    BY <1>t DEF Crash
  <2>3. \A p \in Processes : Sanitize(p) => log' = log /\ crashes' = crashes
    BY DEF Sanitize, auditEnv
  <2>4. QED
    BY <2>1, <2>2, <2>3, AuditNextIs, OthersLeave
<1>1. SUFFICES ASSUME ~log.renameFails, crashes' = 0
               PROVE  /\ \A n \in DOMAIN files' : \A m \in 1 .. n - 1 :
                           \/ m \in DOMAIN files'
                           \/ \E w \in Writers : writers'[w].step \in {"remove", "rename"} /\ writers'[w].number = m
                      /\ Rotating' => 0 \in DOMAIN files'
  BY <1>0 DEF HolesInv
<1>2. /\ \A n \in DOMAIN files : \A m \in 1 .. n - 1 : m \in DOMAIN files \/ Free(m)
      /\ Rotating => 0 \in DOMAIN files
  BY <1>0, <1>1 DEF HolesInv
<1>3. CASE UNCHANGED writers /\ DOMAIN files' = DOMAIN files
  <2>1. Rotating' <=> Rotating
    BY <1>3 DEF Rotating
  <2>2. QED
    BY <1>2, <1>3, <2>1
<1>4. ASSUME NEW w \in Writers, AppendLine(w)
      PROVE  /\ \A n \in DOMAIN files' : \A m \in 1 .. n - 1 :
                  \/ m \in DOMAIN files'
                  \/ \E v \in Writers : writers'[v].step \in {"remove", "rename"} /\ writers'[v].number = m
             /\ Rotating' => 0 \in DOMAIN files'
  <2>1. UNCHANGED files /\ \A v \in Writers : writers[v].step = "idle"
    BY <1>4, <1>t, WriterAlone DEF AppendLine, Appends, Idle
  <2>2. \A m : ~Free(m)
    BY <2>1
  <2>3. Rotating' => 0 \in DOMAIN files
    <3>1. CASE 0 \in DOMAIN files
      BY <3>1
    <3>2. CASE 0 \notin DOMAIN files
      <4>1. Goto(w, "write", 0) /\ 0 \in Numbers
        BY <1>4, <1>t, <3>2 DEF AppendLine, Numbers
      <4>2. writers'[w].step = "write" /\ \A v \in Writers \ {w} : writers'[v] = writers[v]
        BY <1>t, <4>1, GoesTo DEF WriterSteps
      <4>3. QED
        BY <2>1, <4>2 DEF Rotating
    <3>3. QED
      BY <3>1, <3>2
  <2>4. QED
    BY <1>2, <2>1, <2>2, <2>3
<1>5. ASSUME NEW w \in Writers, RemoveArchive(w)
      PROVE  /\ \A n \in DOMAIN files' : \A m \in 1 .. n - 1 :
                  \/ m \in DOMAIN files'
                  \/ \E v \in Writers : writers'[v].step \in {"remove", "rename"} /\ writers'[v].number = m
             /\ Rotating' => 0 \in DOMAIN files'
  <2> DEFINE k == writers[w].number
  <2>1. k \in 1 .. Archives /\ k \in Numbers /\ DOMAIN files' = DOMAIN files \ {k}
    BY <1>5, <1>t DEF RemoveArchive, AuditTypeInv, Without, Numbers
  <2>2. writers'[w].step = "rename" /\ writers'[w].number = k
    BY <1>5, <1>t, <2>1, GoesTo DEF RemoveArchive, WriterSteps
  <2>3. \A m : Free(m) => m = k
    BY <1>5, <1>t DEF RemoveArchive, AppendInv
  <2>4. 0 \in DOMAIN files
    BY <1>2, <1>5 DEF RemoveArchive, Rotating
  <2>5. 0 # k
    BY <2>1
  <2>6. QED
    BY <1>2, <2>1, <2>2, <2>3, <2>4, <2>5
<1>6. ASSUME NEW w \in Writers, RenameArchive(w)
      PROVE  /\ \A n \in DOMAIN files' : \A m \in 1 .. n - 1 :
                  \/ m \in DOMAIN files'
                  \/ \E v \in Writers : writers'[v].step \in {"remove", "rename"} /\ writers'[v].number = m
             /\ Rotating' => 0 \in DOMAIN files'
  <2> DEFINE k == writers[w].number
  <2>1. k \in 1 .. Archives /\ k - 1 \in Numbers /\ 0 \in Numbers /\ k \notin DOMAIN files
    <3>1. k \in 1 .. Archives /\ k \notin DOMAIN files
      BY <1>6, <1>t, RenamedIs
    <3>2. QED
      BY <1>t, <3>1 DEF Numbers
  <2>2. \A m : Free(m) => m = k
    BY <1>6, <1>t DEF RenameArchive, AppendInv
  <2>3. 0 \in DOMAIN files
    BY <1>2, <1>6 DEF RenameArchive, Rotating
  <2>4. k > 1 => writers'[w].step = "remove" /\ writers'[w].number = k - 1
    BY <1>6, <1>t, <2>1, GoesTo DEF RenameArchive, WriterSteps
  <2>5. Rotating' => k > 1
    <3>1. SUFFICES ASSUME ~(k > 1)
                   PROVE  ~Rotating'
      OBVIOUS
    <3>2. writers'[w].step = "write"
      BY <1>6, <1>t, <2>1, <3>1, GoesTo DEF RenameArchive, WriterSteps
    <3>3. \A v \in Writers \ {w} : writers'[v].step = "idle"
      BY <1>6, <1>t, WriterAlone DEF Appends
    <3>4. QED
      BY <3>2, <3>3 DEF Rotating
  <2>6. CASE UNCHANGED files /\ k - 1 \notin DOMAIN files
    <3>1. k > 1
      BY <2>1, <2>3, <2>6
    <3>2. \A n \in DOMAIN files : \A m \in 1 .. n - 1 : m # k
      <4>1. ASSUME NEW n \in DOMAIN files, n > k
            PROVE  FALSE
        <5>1. k - 1 \in 1 .. n - 1
          BY <1>t, <2>1, <3>1, <4>1
        <5>2. k - 1 # k
          BY <2>1
        <5>3. QED
          BY <1>2, <2>2, <2>6, <5>1, <5>2
      <4>2. QED
        BY <1>t, <2>1, <4>1
    <3>3. QED
      BY <1>2, <2>2, <2>3, <2>6, <3>2
  <2>7. CASE /\ k - 1 \in DOMAIN files
             /\ DOMAIN files' = (DOMAIN files \ {k - 1}) \cup {k}
    <3>1. ASSUME NEW n \in DOMAIN files', NEW m \in 1 .. n - 1, m # k - 1
          PROVE  m \in DOMAIN files'
      <4>1. CASE m = k
        BY <2>7, <4>1
      <4>2. CASE m # k /\ n # k
        <5>1. m \in DOMAIN files
          BY <1>2, <2>2, <2>7, <3>1, <4>2
        <5>2. QED
          BY <2>7, <3>1, <5>1
      <4>3. CASE m # k /\ n = k
        <5>1. m \in 1 .. (k - 1) - 1
          BY <2>1, <3>1, <4>3
        <5>2. m \in DOMAIN files
          BY <1>2, <2>2, <2>7, <4>3, <5>1
        <5>3. QED
          BY <2>7, <3>1, <5>2
      <4>4. QED
        BY <4>1, <4>2, <4>3
    <3>2. \A n \in DOMAIN files' : \A m \in 1 .. n - 1 : m = k - 1 => k > 1
      BY <2>1
    <3>3. Rotating' => 0 \in DOMAIN files'
      <4>1. k > 1 => 0 # k - 1
        BY <2>1
      <4>2. QED
        BY <2>3, <2>5, <2>7, <4>1
    <3>4. QED
      BY <2>4, <3>1, <3>2, <3>3
  <2>8. QED
    BY <1>1, <1>6, <1>t, <2>6, <2>7, RenamedIs
<1>7. ASSUME NEW w \in Writers, WriteLine(w)
      PROVE  /\ \A n \in DOMAIN files' : \A m \in 1 .. n - 1 :
                  \/ m \in DOMAIN files'
                  \/ \E v \in Writers : writers'[v].step \in {"remove", "rename"} /\ writers'[v].number = m
             /\ Rotating' => 0 \in DOMAIN files'
  <2>1. \A v \in Writers : writers[v].step \notin {"remove", "rename"}
    BY <1>7, <1>t DEF WriteLine, AppendInv
  <2>2. \A m : ~Free(m)
    BY <2>1
  <2>3. 0 \in Numbers
    BY <1>t DEF Numbers
  <2>4. writers'[w].step = "idle" /\ \A v \in Writers \ {w} : writers'[v] = writers[v]
    BY <1>7, <1>t, <2>3, GoesTo DEF WriteLine, WriterSteps
  <2>5. ~Rotating'
    BY <2>1, <2>4 DEF Rotating
  <2>6. DOMAIN files' = DOMAIN files \/ DOMAIN files' = DOMAIN files \cup {0}
    BY <1>7 DEF WriteLine
  <2>7. \A m \in 1 .. 0 - 1 : FALSE
    OBVIOUS
  <2>8. QED
    BY <1>2, <2>2, <2>5, <2>6, <2>7
<1>8. ASSUME NEW p \in Processes, Sanitize(p)
      PROVE  UNCHANGED writers /\ DOMAIN files' = DOMAIN files
  BY <1>8 DEF Sanitize
<1>9. CASE Others \/ UNCHANGED auditVars
  <2>1. \A p \in Processes : ~Crash(p)
    BY <1>1, <1>t DEF Crash
  <2>2. QED
    BY <1>3, <1>9, <2>1, OthersLeave
<1>10. QED
  BY <1>3, <1>4, <1>5, <1>6, <1>7, <1>8, <1>9, AuditNextIs DEF Appends

-----------------------------------------------------------------------------
(* Theorems *)

\* What the audit log's files, its appends and its migration keep, whatever stops and fails.
THEOREM AuditInvariant == AuditSpec => []AuditInv
<1>1. AuditInit => AuditInv
  BY AuditStarts
<1>2. AuditInv /\ [AuditNext]_auditVars => AuditInv'
  <2>1. SUFFICES ASSUME AuditInv, [AuditNext]_auditVars
                 PROVE  AuditInv'
    OBVIOUS
  <2>2. AuditTypeInv'
    BY <2>1, AuditTypeKept DEF AuditInv
  <2>3. ASSUME ~together'
        PROVE  AppendInv' /\ FilesInv' /\ MigratedClean' /\ MigrateInv' /\ HolesInv'
    <3>1. Filing /\ MigratedClean /\ MigrateInv /\ HolesInv
      BY <2>1, <2>3, FilingIs, TogetherStays
    <3>2. FilesInv' /\ AppendInv'
      BY <2>1, <2>3, <3>1, FilesKept, AppendKept
    <3>3. MigratedClean' /\ MigrateInv' /\ HolesInv'
      BY <2>1, <2>3, <3>1, CleanKept, HolesKept
    <3>4. QED
      BY <3>2, <3>3
  <2>4. QED
    BY <2>2, <2>3 DEF AuditInv, FilesInv
<1>3. QED
  BY <1>1, <1>2, PTL DEF AuditSpec

\* The files hold the end of the log: in order, within their sizes, without a gap, and nothing raw
\* once they are migrated (appendAuditLine, rotateAuditLogs, migrateLegacyAuditLogs).
THEOREM AuditConsistent == AuditSpec => []Consistent
<1>1. AuditInv => Consistent
  BY DEF AuditInv, AuditTypeInv, Consistent
<1>2. QED
  BY <1>1, AuditInvariant, PTL

\* Where nothing fails, a line is dropped only when audit.jsonl and every archive exist (rotateAuditLogs).
THEOREM DropsOnlyWhenFull == AuditSpec => DropsWhenFull
<1>1. AuditInv /\ [AuditNext]_auditVars
        => [~together /\ ~log.renameFails /\ crashes = 0 /\ ~(Ids \subseteq Ids') => DOMAIN files = Numbers]_auditVars
  <2>1. SUFFICES ASSUME AuditInv, [AuditNext]_auditVars, ~together, ~log.renameFails, crashes = 0, ~(Ids \subseteq Ids')
                 PROVE  DOMAIN files = Numbers
    OBVIOUS
  <2>2. AuditTypeInv /\ AppendInv /\ FilesInv /\ HolesInv
    BY <2>1, FilingIs DEF AuditInv, Filing
  <2>3. PICK w \in Writers : RemoveArchive(w)
    <3>1. ASSUME NEW w \in Writers, Appends(w), ~RemoveArchive(w)
          PROVE  Ids \subseteq Ids'
      <4>1. AppendLine(w) => Ids' = Ids
        BY DEF AppendLine, Ids
      <4>2. QED
        BY <2>2, <3>1, <4>1, RenameKeeps, WriteKeeps DEF Appends
    <3>2. \A p \in Processes : Sanitize(p) => Ids' = Ids
      BY <2>2, SanitizeKeeps
    <3>3. Others \/ UNCHANGED auditVars => Ids' = Ids
      BY OthersLeave DEF Ids
    <3>4. QED
      BY <2>1, <3>1, <3>2, <3>3, AuditNextIs
  <2>4. writers[w].number = Archives /\ Archives \in DOMAIN files
    BY <2>1, <2>2, <2>3, RemoveKeeps
  <2>5. \A v \in Writers : writers[v].step \in {"remove", "rename"} => v = w
    BY <2>2, <2>3 DEF RemoveArchive, AppendInv
  <2>6. 0 \in DOMAIN files
    BY <2>1, <2>2, <2>3 DEF HolesInv, Rotating, RemoveArchive
  <2>7. Archives \in Nat \ {0} /\ DOMAIN files \subseteq 0 .. Archives
    BY <2>2, LogIs DEF FilesInv, Numbers
  <2>8. ASSUME NEW m \in 1 .. Archives - 1
        PROVE  m \in DOMAIN files
    <3>1. m # Archives
      BY <2>7
    <3>2. QED
      BY <2>1, <2>2, <2>4, <2>5, <3>1 DEF HolesInv
  <2>9. \A m \in 0 .. Archives : m = 0 \/ m = Archives \/ m \in 1 .. Archives - 1
    BY <2>7
  <2>10. QED
    BY <2>4, <2>6, <2>7, <2>8, <2>9 DEF Numbers
<1>2. AuditSpec => [][~together /\ ~log.renameFails /\ crashes = 0 /\ ~(Ids \subseteq Ids') => DOMAIN files = Numbers]_auditVars
  BY <1>1, AuditInvariant, PTL DEF AuditSpec
<1>3. QED
  BY <1>2 DEF DropsWhenFull

=============================================================================
