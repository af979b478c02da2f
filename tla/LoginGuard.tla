----------------------------- MODULE LoginGuard -----------------------------
(***************************************************************************)
(* The limits on failed logins: one counter for the source of a login, one *)
(* for its subnet, one for the account it names and one for all logins     *)
(* together, in the map loginAttempts.                                     *)
(*                                                                         *)
(* A login asks for a block first, under mu, verifies the password without *)
(* the lock, and takes mu again to record a failure or to clear counters   *)
(* after a success.  The map is in memory: a restart forgets it.           *)
(***************************************************************************)
EXTENDS Naturals, FiniteSets, SequencesExt

CONSTANTS
  Handlers,    \* concurrent requests of the login page
  Sources,     \* addresses that logins come from
  Subnet,      \* loginSubnet of each source
  Public,      \* sources that may be banned: public, and no ssh peer
  Accounts,    \* names that logins give
  Names,       \* the accounts that the logins of each source name
  Blank,       \* the empty subnet, and the empty name
  Threshold,   \* failures that block, for each layer
  BlockFor,    \* time a layer blocks
  Window,      \* loginFailureWindow
  MaxAttempts, \* maxLoginAttempts, the size of the map
  MaxTime      \* bound of the clock

Layers == {"ip", "subnet", "account", "global"}

ASSUME LoginGuardAssumption ==
  /\ IsFiniteSet(Handlers) /\ Handlers # {} /\ Sources # {} /\ Accounts # {}
  /\ Public \subseteq Sources /\ DOMAIN Subnet = Sources /\ Names \in [Sources -> SUBSET Accounts]
  /\ Threshold \in [Layers -> Nat \ {0}] /\ BlockFor \in [Layers -> Nat \ {0}]
  /\ Window \in Nat /\ MaxAttempts \in Nat \ {0} /\ MaxTime \in Nat \ {0}
  /\ \A layer \in Layers \ {"global"} : BlockFor[layer] > Window

VARIABLES
  attempts, \* loginAttempts
  logins,   \* what each handler is doing
  now,
  banned    \* sources handed to the firewall

vars == <<attempts, logins, now, banned>>

-----------------------------------------------------------------------------
(* Data *)

Key(layer, of) == [layer |-> layer, of |-> of]
Ip(source) == Key("ip", source)
Account(account) == Key("account", account)
Global == Key("global", "all")

\* loginLimits: a source without a subnet and a blank name have no counter there.
LoginLimits(source, account) ==
  {Ip(source), Global} \cup {k \in {Key("subnet", Subnet[source]), Account(account)} : k.of # Blank}

Keys == UNION {LoginLimits(s, a) : s \in Sources, a \in Accounts}

Time == 0 .. MaxTime
\* until = 0: BlockedUntil is the zero time.  No code reads times, the times of
\* all failures of the counter.
NoAttempt == [failures |-> 0, last |-> 0, until |-> 0, times |-> <<>>]

Blocked(map, k) == k \in DOMAIN map /\ now < map[k].until
Quiet(attempt) == now > attempt.last + Window
Expired(attempt) == attempt.until > 0 /\ now >= attempt.until

Without(map, ks) == [k \in DOMAIN map \ ks |-> map[k]]
With(map, k, v) == [i \in DOMAIN map \cup {k} |-> IF i = k THEN v ELSE map[i]]

-----------------------------------------------------------------------------
(* The steps of a login *)

\* What loginBlockStatus drops while it looks for a block.
Stale(map, ks) ==
  {k \in ks \cap DOMAIN map : ~Blocked(map, k) /\ (Quiet(map[k]) \/ Expired(map[k]))}

\* loginBlockStatus, and the refusal of a blocked login.
Check(h, source, account) ==
  LET ks == LoginLimits(source, account) IN
  /\ logins[h].step = "idle"
  /\ attempts' = Without(attempts, Stale(attempts, ks))
  /\ \/ \E k \in ks : Blocked(attempts, k) /\ UNCHANGED logins
     \/ /\ \A k \in ks : ~Blocked(attempts, k)
        /\ logins' = [logins EXCEPT ![h] = [step |-> "verify", source |-> source, account |-> account]]
  /\ UNCHANGED <<now, banned>>

\* pruneLoginAttemptsLocked, when the map is full.
Pruned(map) ==
  IF Cardinality(DOMAIN map) < MaxAttempts THEN map
  ELSE Without(map, {k \in DOMAIN map : Quiet(map[k]) /\ now > map[k].until})

\* evictOldestLoginAttemptLocked: the maps it may leave, ties being decided by
\* the order of the iteration.
Evicted(map) ==
  {Without(map, {k}) : k \in {i \in DOMAIN map : \A j \in DOMAIN map : map[i].last <= map[j].last}}

Room(map, k) == IF k \notin DOMAIN map /\ Cardinality(DOMAIN map) >= MaxAttempts THEN Evicted(map) ELSE {map}

Attempt(map, k) == IF k \in DOMAIN map THEN map[k] ELSE NoAttempt

\* Mutant: the counter has to pass the limit.
OverLimit_Off(layer, failures) == failures > Threshold[layer]

OverLimit(layer, failures) == failures >= Threshold[layer]

\* One more failure; the counter starts again after a quiet window.
Counted(attempt, layer) ==
  LET failures == IF Quiet(attempt) THEN 1 ELSE attempt.failures + 1 IN
  [failures |-> failures, last |-> now, times |-> Append(attempt.times, now),
   until |-> IF OverLimit(layer, failures) THEN now + BlockFor[layer] ELSE attempt.until]

\* The results of recordLoginFailure for one key, from the results before it.
Recorded(results, k) ==
  UNION {{[map |-> With(m, k, Counted(Attempt(m, k), k.layer)),
           layers |-> r.layers \cup {l \in {k.layer} : OverLimit(l, Counted(Attempt(m, k), l).failures)}] :
          m \in Room(r.map, k)} : r \in results}

RecordedNamed(results, k) == IF k.of = Blank THEN results ELSE Recorded(results, k)

\* The limits are recorded one after the other: source, subnet, account, panel.
RecordLoginFailure(source, account) ==
  LET pruned == {[map |-> Pruned(attempts), layers |-> {}]}
      ip == Recorded(pruned, Ip(source))
      subnet == RecordedNamed(ip, Key("subnet", Subnet[source]))
      named == RecordedNamed(subnet, Account(account)) IN
  Recorded(named, Global)

\* autoBlockLoginSource: the layer that blocks longest is not the global one.
Bans(layers, source) == source \in Public /\ layers \ {"global"} # {}

Failure(h) ==
  LET source == logins[h].source  account == logins[h].account IN
  /\ logins[h].step = "verify"
  /\ \E r \in RecordLoginFailure(source, account) :
       /\ attempts' = r.map
       /\ logins' = [logins EXCEPT ![h].step = IF Bans(r.layers, source) THEN "ban" ELSE "idle"]
  /\ UNCHANGED <<now, banned>>

Ban(h) ==
  /\ logins[h].step = "ban"
  /\ banned' = banned \cup {logins[h].source}
  /\ logins' = [logins EXCEPT ![h].step = "idle"]
  /\ UNCHANGED <<attempts, now>>

\* Mutant: a success clears every layer.
Cleared_All(source, account) == LoginLimits(source, account)

\* clearLoginFailures leaves the evidence of the subnet and of the panel.
Cleared(source, account) == {Ip(source), Account(account)}

Success(h) ==
  LET ks == Cleared(logins[h].source, logins[h].account) IN
  /\ logins[h].step = "verify"
  /\ attempts' = Without(attempts, ks)
  /\ logins' = [logins EXCEPT ![h].step = "idle"]
  /\ UNCHANGED <<now, banned>>

Tick ==
  /\ now < MaxTime /\ now' = now + 1
  /\ UNCHANGED <<attempts, logins, banned>>

-----------------------------------------------------------------------------

Empty == [k \in {} |-> NoAttempt]
Quiescent == [h \in Handlers |-> [step |-> "idle", source |-> CHOOSE s \in Sources : TRUE,
                                  account |-> CHOOSE a \in Accounts : TRUE]]

Restart ==
  /\ attempts' = Empty /\ logins' = Quiescent
  /\ UNCHANGED <<now, banned>>

\* The clock starts at 1: 0 is the zero time.
Init ==
  /\ attempts = Empty /\ logins = Quiescent
  /\ now = 1 /\ banned = {}

Next ==
  \/ \E h \in Handlers :
       \/ \E s \in Sources : \E a \in Names[s] : Check(h, s, a)
       \/ Failure(h) \/ Ban(h) \/ Success(h)
  \/ Tick
  \/ Restart

Spec == Init /\ [][Next]_vars

-----------------------------------------------------------------------------
(* Properties *)

TypeOK ==
  /\ DOMAIN attempts \subseteq Keys
  /\ \A k \in DOMAIN attempts :
       /\ attempts[k].failures \in Nat \ {0} /\ attempts[k].last \in Time \ {0}
       /\ attempts[k].until \in 0 .. MaxTime + BlockFor[k.layer]
       /\ attempts[k].times \in Seq(Time)
  /\ logins \in [Handlers -> [step : {"idle", "verify", "ban"}, source : Sources, account : Accounts]]
  /\ now \in Time /\ banned \subseteq Public

\* Whatever order failures arrive in, the map never outgrows maxLoginAttempts.
LimitedMemory == Cardinality(DOMAIN attempts) <= MaxAttempts

\* A limit is passed by no more failures than there are logins under way: the
\* check and the record of a login are two holdings of the lock.
OvershootBounded ==
  \A k \in DOMAIN attempts : attempts[k].failures < Threshold[k.layer] + Cardinality(Handlers)

\* As many failures within a window as a limit allows block the key at once,
\* however they are spread over logins under way; only the block of the whole
\* panel is shorter than the window.
FailuresBlock ==
  \A k \in DOMAIN attempts :
    LET recent == {i \in DOMAIN attempts[k].times : attempts[k].times[i] + Window >= now} IN
    Cardinality(recent) >= Threshold[k.layer] =>
      Blocked(attempts, k) \/ (k = Global /\ Expired(attempts[k]))

\* A block ends early only when a login from that source or to that account
\* succeeds, when the keys of a failure do not all fit in the map, or with the
\* panel; the evidence against a subnet and against all survives every success.
BlockKept ==
  [][\A k \in DOMAIN attempts :
       Blocked(attempts, k) =>
         \/ k \in DOMAIN attempts' /\ attempts'[k].until >= attempts[k].until
         \/ \E h \in Handlers :
              LET source == logins[h].source  account == logins[h].account IN
              \/ Success(h) /\ k \in {Ip(source), Account(account)}
              \/ Failure(h) /\ Cardinality(DOMAIN attempts \cup LoginLimits(source, account)) > MaxAttempts
         \/ Restart]_vars

\* A public source that its own failures block is banned, or about to be.
BlockedIsBanned ==
  \A s \in Public : Blocked(attempts, Ip(s)) =>
    s \in banned \/ \E h \in Handlers : logins[h].step = "ban" /\ logins[h].source = s

\* The map of counters says what the limits promise (recordLoginFailure,
\* autoBlockLoginSource): it is never too large, a limit that is reached blocks
\* and is overshot by the logins under way at most, and who is blocked gets banned.
Consistent ==
  /\ TypeOK
  /\ LimitedMemory
  /\ OvershootBounded
  /\ FailuresBlock
  /\ BlockedIsBanned

=============================================================================
