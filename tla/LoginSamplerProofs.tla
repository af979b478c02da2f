-------------------------- MODULE LoginSamplerProofs --------------------------
(***************************************************************************)
(* Proofs about what the panel keeps by the minute: the limits of logins,  *)
(* and what its sampler does.                                              *)
(*                                                                         *)
(* LoginGuard, for every number of handlers, every set of sources and      *)
(* accounts, and all limits and times: the map of counters never outgrows  *)
(* its limit, and as many failures as a limit allows block.                *)
(*                                                                         *)
(* Sampler with Metrics and Cloudflare, for every length of the history,   *)
(* every set of zones and records, and all times and settings: no point of *)
(* the history leaves its file too early, and the proxy of a record is     *)
(* only turned on where that was enabled within the hour.                  *)
(***************************************************************************)
EXTENDS LoginGuard, Sampler, FiniteSetTheorems, SequenceTheorems, TLAPS

-----------------------------------------------------------------------------
(* LOGINGUARD                                                              *)

-----------------------------------------------------------------------------
(* The inductive invariant.                                                *)

\* Failures of a counter within the window, at a time.
Recent(attempt, time) == {i \in DOMAIN attempt.times : attempt.times[i] + Window >= time}

\* What a counter says of the failures it stands for: the failures of the window are
\* counted, and a counter over its limit blocks from the last failure on.
Sound(attempt, layer, time) ==
  /\ attempt.failures \in Nat /\ attempt.last \in 0 .. time
  /\ attempt.until \in 0 .. attempt.last + BlockFor[layer]
  /\ attempt.times \in Seq(Time) /\ \A i \in DOMAIN attempt.times : attempt.times[i] <= attempt.last
  /\ Cardinality(Recent(attempt, time)) <= attempt.failures
  /\ OverLimit(layer, attempt.failures) => attempt.until = attempt.last + BlockFor[layer]

\* Logins that have passed the check of a key and not yet recorded their outcome.
Verifying(k) ==
  {h \in Handlers : logins[h].step = "verify" /\ k \in LoginLimits(logins[h].source, logins[h].account)}

\* A counter over its limit has been passed by some of them, and the others may follow.
Passed(k) ==
  OverLimit(k.layer, attempts[k].failures) =>
    attempts[k].failures + Cardinality(Verifying(k)) < Threshold[k.layer] + Cardinality(Handlers)

CountersInv ==
  /\ IsFiniteSet(DOMAIN attempts)
  /\ \A k \in DOMAIN attempts : Sound(attempts[k], k.layer, now) /\ Passed(k)

\* Only public sources are about to be banned.
BansPublic == \A h \in Handlers : logins[h].step = "ban" => logins[h].source \in Public

\* The clock never shows the zero time.
Positive == now # 0

Inv == TypeOK /\ Positive /\ CountersInv /\ BansPublic /\ LimitedMemory /\ BlockedIsBanned

-----------------------------------------------------------------------------
(* Keys and counters.                                                      *)

\* The keys of a login, and the layers they are of.
LEMMA LimitKeys ==
  ASSUME NEW s \in Sources, NEW a \in Accounts
  PROVE  /\ LoginLimits(s, a) \subseteq {Ip(s), Key("subnet", Subnet[s]), Account(a), Global}
         /\ LoginLimits(s, a) \subseteq Keys
<1>1. LoginLimits(s, a) \subseteq {Ip(s), Key("subnet", Subnet[s]), Account(a), Global}
  BY DEF LoginLimits
<1>2. LoginLimits(s, a) \subseteq Keys
  BY DEF Keys
<1>3. QED
  BY <1>1, <1>2

\* The keys of a login are finitely many.
LEMMA LimitsFinite ==
  ASSUME NEW s \in Sources, NEW a \in Accounts
  PROVE  IsFiniteSet(LoginLimits(s, a))
<1> DEFINE subnet == Key("subnet", Subnet[s])
<1>1. IsFiniteSet({Ip(s)}) /\ IsFiniteSet({subnet}) /\ IsFiniteSet({Account(a)}) /\ IsFiniteSet({Global})
  BY FS_Singleton
<1>2. IsFiniteSet({Ip(s)} \cup {subnet}) /\ IsFiniteSet({Account(a)} \cup {Global})
  BY <1>1, FS_Union
<1>3. IsFiniteSet(({Ip(s)} \cup {subnet}) \cup ({Account(a)} \cup {Global}))
  BY <1>2, FS_Union
<1>4. LoginLimits(s, a) \subseteq ({Ip(s)} \cup {subnet}) \cup ({Account(a)} \cup {Global})
  BY LimitKeys
<1>5. QED
  BY <1>3, <1>4, FS_Subset

\* Every key is of a layer, and one of them is of the whole panel.
LEMMA KeyLayers ==
  ASSUME NEW k \in Keys
  PROVE  k.layer \in Layers /\ (k.layer = "global" => k = Global)
<1>1. PICK s \in Sources, a \in Accounts : k \in LoginLimits(s, a)
  BY DEF Keys
<1>2. k \in {Ip(s), Key("subnet", Subnet[s]), Account(a), Global}
  BY <1>1, LimitKeys
<1>3. QED
  BY <1>2 DEF Ip, Account, Global, Key, Layers

\* The failures of the window are finitely many.
LEMMA RecentFinite ==
  ASSUME NEW attempt, NEW time \in Time, attempt.times \in Seq(Time)
  PROVE  IsFiniteSet(Recent(attempt, time)) /\ Cardinality(Recent(attempt, time)) \in Nat
<1>1. DOMAIN attempt.times = 1 .. Len(attempt.times) /\ Len(attempt.times) \in Nat
  BY LenProperties
<1>2. IsFiniteSet(1 .. Len(attempt.times))
  BY <1>1, FS_Interval
<1>3. Recent(attempt, time) \subseteq 1 .. Len(attempt.times)
  BY <1>1 DEF Recent
<1>4. QED
  BY <1>2, <1>3, FS_Subset, FS_CardinalityType

\* A counter that has counted nothing is sound.
LEMMA NoAttemptSound ==
  ASSUME now \in Time, NEW layer \in Layers
  PROVE  Sound(NoAttempt, layer, now)
<1>1. NoAttempt.times = << >> /\ << >> \in Seq(Time) /\ DOMAIN NoAttempt.times = {}
  BY DEF NoAttempt
<1>2. Recent(NoAttempt, now) = {}
  BY <1>1 DEF Recent
<1>3. Cardinality(Recent(NoAttempt, now)) = 0
  BY <1>2, FS_EmptySet
<1>4. QED
  BY <1>1, <1>3, LoginGuardAssumption DEF Sound, NoAttempt, OverLimit, Time

\* One more failure keeps a counter sound: it is counted with those of the window.
LEMMA CountedSound ==
  ASSUME now \in Time, NEW layer \in Layers, NEW old, Sound(old, layer, now)
  PROVE  LET new == Counted(old, layer) IN
         /\ Sound(new, layer, now) /\ new.failures \in Nat \ {0} /\ new.last = now
         /\ new.failures <= old.failures + 1 /\ new.until >= old.until
         /\ ~OverLimit(layer, new.failures) => new.until = old.until
         /\ ~Quiet(old) => new.failures = old.failures + 1
         /\ Quiet(old) => new.failures = 1
<1> USE LoginGuardAssumption DEF Time
<1>0. PICK new : new = Counted(old, layer)
  OBVIOUS
<1>1. /\ new.failures = IF Quiet(old) THEN 1 ELSE old.failures + 1
      /\ new.last = now /\ new.times = Append(old.times, now)
      /\ new.until = IF OverLimit(layer, new.failures) THEN now + BlockFor[layer] ELSE old.until
  BY <1>0 DEF Counted
<1>2. BlockFor[layer] \in Nat /\ Threshold[layer] \in Nat /\ old.failures \in Nat
  BY DEF Sound
<1>3. new.failures \in Nat \ {0} /\ new.failures <= old.failures + 1
  BY <1>1, <1>2
<1>4. /\ Len(old.times) \in Nat /\ DOMAIN old.times = 1 .. Len(old.times)
      /\ new.times \in Seq(Time) /\ DOMAIN new.times = 1 .. Len(old.times) + 1
      /\ new.times[Len(old.times) + 1] = now
      /\ \A i \in DOMAIN old.times : new.times[i] = old.times[i] /\ old.times[i] \in Time
  <2>1. old.times \in Seq(Time) /\ now \in Time /\ new.times = Append(old.times, now)
    BY <1>1 DEF Sound
  <2>2. /\ Len(old.times) \in Nat /\ DOMAIN old.times = 1 .. Len(old.times)
        /\ \A i \in DOMAIN old.times : old.times[i] \in Time
    <3> HIDE DEF Time
    <3>1. QED
      BY <2>1
  <2>3. /\ new.times \in Seq(Time) /\ DOMAIN new.times = 1 .. Len(old.times) + 1
        /\ new.times[Len(old.times) + 1] = now
        /\ \A i \in DOMAIN old.times : new.times[i] = old.times[i]
    <3> HIDE DEF Time
    <3>1. QED
      BY <2>1, <2>2, AppendProperties
  <2>4. QED
    BY <2>2, <2>3
<1>5. \A i \in DOMAIN new.times : new.times[i] <= now
  <2>1. SUFFICES ASSUME NEW i \in DOMAIN new.times
                 PROVE  new.times[i] <= now
    OBVIOUS
  <2>2. CASE i = Len(old.times) + 1
    BY <1>4, <2>2
  <2>3. CASE i \in DOMAIN old.times
    <3>1. new.times[i] = old.times[i] /\ old.times[i] \in 0 .. MaxTime
      BY <1>4, <2>3
    <3>2. old.times[i] <= old.last /\ old.last \in 0 .. now
      BY <2>3 DEF Sound
    <3>3. QED
      BY <3>1, <3>2
  <2>4. QED
    BY <1>4, <2>2, <2>3
<1>6. Recent(new, now) \subseteq Recent(old, now) \cup {Len(old.times) + 1}
  <2>1. \A i \in DOMAIN new.times : i \in DOMAIN old.times \/ i = Len(old.times) + 1
    BY <1>4
  <2>2. QED
    BY <1>4, <2>1 DEF Recent
<1>7. IsFiniteSet(Recent(old, now)) /\ Cardinality(Recent(old, now)) \in Nat
      /\ IsFiniteSet(Recent(new, now)) /\ Cardinality(Recent(new, now)) \in Nat
  BY <1>4, RecentFinite DEF Sound
<1>8. Cardinality(Recent(new, now)) <= new.failures
  <2>1. CASE Quiet(old)
    <3>1. Recent(old, now) = {}
      <4>1. SUFFICES ASSUME NEW i \in DOMAIN old.times
                     PROVE  ~(old.times[i] + Window >= now)
        BY DEF Recent
      <4>2. old.times[i] \in 0 .. MaxTime /\ old.times[i] <= old.last /\ old.last \in 0 .. now
        BY <1>4 DEF Sound
      <4>3. now > old.last + Window
        BY <2>1 DEF Quiet
      <4>4. QED
        BY <4>2, <4>3
    <3>2. Recent(new, now) \subseteq {Len(old.times) + 1}
      BY <1>6, <3>1
    <3>3. IsFiniteSet({Len(old.times) + 1}) /\ Cardinality({Len(old.times) + 1}) = 1
      BY FS_Singleton
    <3>4. Cardinality(Recent(new, now)) <= 1
      BY <3>2, <3>3, FS_Subset
    <3>5. QED
      BY <1>1, <2>1, <3>4
  <2>2. CASE ~Quiet(old)
    <3>1. /\ IsFiniteSet(Recent(old, now) \cup {Len(old.times) + 1})
          /\ Cardinality(Recent(old, now) \cup {Len(old.times) + 1}) <= Cardinality(Recent(old, now)) + 1
          /\ Cardinality(Recent(old, now) \cup {Len(old.times) + 1}) \in Nat
      <4>1. Cardinality(Recent(old, now)) \in Nat /\ IsFiniteSet(Recent(old, now))
        BY <1>7
      <4>2. /\ IsFiniteSet(Recent(old, now) \cup {Len(old.times) + 1})
            /\ Cardinality(Recent(old, now) \cup {Len(old.times) + 1}) =
                 IF Len(old.times) + 1 \in Recent(old, now) THEN Cardinality(Recent(old, now)) ELSE Cardinality(Recent(old, now)) + 1
        BY <4>1, FS_AddElement, Zenon
      <4>3. QED
        BY <4>1, <4>2
    <3>2. Cardinality(Recent(new, now)) <= Cardinality(Recent(old, now)) + 1
      BY <1>6, <1>7, <3>1, FS_Subset
    <3>3. QED
      BY <1>1, <1>2, <1>7, <2>2, <3>2 DEF Sound
  <2>3. QED
    BY <2>1, <2>2
<1>9. new.until \in 0 .. now + BlockFor[layer] /\ new.until >= old.until
  BY <1>1, <1>2 DEF Sound
<1>10. Sound(new, layer, now)
  <2>1. new.last \in 0 .. now /\ (OverLimit(layer, new.failures) => new.until = new.last + BlockFor[layer])
    BY <1>1
  <2>2. \A i \in DOMAIN new.times : new.times[i] <= new.last
    BY <1>1, <1>5
  <2>3. new.failures \in Nat /\ new.until \in 0 .. new.last + BlockFor[layer] /\ new.times \in Seq(Time)
    BY <1>1, <1>3, <1>4, <1>9
  <2>4. QED
    BY <1>8, <2>1, <2>2, <2>3 DEF Sound
<1>11. QED
  BY <1>0, <1>1, <1>2, <1>3, <1>9, <1>10

-----------------------------------------------------------------------------
(* The record of a failure, limit by limit.                                *)

\* A map of counters within its limit.
Bounded(map) == IsFiniteSet(DOMAIN map) /\ Cardinality(DOMAIN map) <= MaxAttempts

\* A result when the keys done are recorded: the counter of another key is as it was,
\* and that of a key of done is one failure ahead, or starts with it; its layer is named
\* when it blocks.
Stage(r, done) ==
  /\ Bounded(r.map)
  /\ \A k \in DOMAIN r.map :
       IF k \notin done THEN k \in DOMAIN attempts /\ r.map[k] = attempts[k]
       ELSE /\ \/ r.map[k] = Counted(NoAttempt, k.layer)
               \/ k \in DOMAIN attempts /\ r.map[k] = Counted(attempts[k], k.layer)
            /\ OverLimit(k.layer, r.map[k].failures) => k.layer \in r.layers

\* Room is made for a key by leaving out another one.
LEMMA RoomMade ==
  ASSUME NEW map, NEW k, Bounded(map), NEW m \in Room(map, k)
  PROVE  /\ DOMAIN m \subseteq DOMAIN map /\ \A i \in DOMAIN m : m[i] = map[i]
         /\ Bounded(m) /\ (k \in DOMAIN m \/ Cardinality(DOMAIN m) < MaxAttempts)
         /\ k \notin DOMAIN map => k \notin DOMAIN m
<1>0. MaxAttempts \in Nat /\ Cardinality(DOMAIN map) \in Nat
  BY LoginGuardAssumption, FS_CardinalityType DEF Bounded
<1>1. CASE k \notin DOMAIN map /\ Cardinality(DOMAIN map) >= MaxAttempts
  <2>1. PICK i \in DOMAIN map : m = Without(map, {i})
    BY <1>1 DEF Room, Evicted
  <2>2. DOMAIN m = DOMAIN map \ {i} /\ \A j \in DOMAIN m : m[j] = map[j]
    BY <2>1 DEF Without
  <2>3. IsFiniteSet(DOMAIN m) /\ Cardinality(DOMAIN m) = Cardinality(DOMAIN map) - 1
    BY <2>2, FS_RemoveElement DEF Bounded
  <2>4. QED
    BY <1>0, <1>1, <2>2, <2>3 DEF Bounded
<1>2. CASE k \in DOMAIN map \/ Cardinality(DOMAIN map) < MaxAttempts
  BY <1>0, <1>2 DEF Room, Bounded
<1>3. QED
  BY <1>0, <1>1, <1>2

\* The limit of one key, recorded.
LEMMA RecordedStage ==
  ASSUME NEW results, NEW done, NEW k, k \notin done, \A r \in results : Stage(r, done),
         NEW next \in Recorded(results, k)
  PROVE  Stage(next, done \cup {k})
<1>0. PICK r \in results : \E m \in Room(r.map, k) :
        next = [map |-> With(m, k, Counted(Attempt(m, k), k.layer)),
                layers |-> r.layers \cup {l \in {k.layer} : OverLimit(l, Counted(Attempt(m, k), l).failures)}]
  BY DEF Recorded
<1>1. PICK m \in Room(r.map, k) :
        next = [map |-> With(m, k, Counted(Attempt(m, k), k.layer)),
                layers |-> r.layers \cup {l \in {k.layer} : OverLimit(l, Counted(Attempt(m, k), l).failures)}]
  BY <1>0
<1>2. Stage(r, done)
  OBVIOUS
<1>3. /\ DOMAIN m \subseteq DOMAIN r.map /\ \A i \in DOMAIN m : m[i] = r.map[i]
      /\ Bounded(m) /\ (k \in DOMAIN m \/ Cardinality(DOMAIN m) < MaxAttempts)
  BY <1>2, RoomMade DEF Stage
<1>4. /\ DOMAIN next.map = DOMAIN m \cup {k} /\ next.map[k] = Counted(Attempt(m, k), k.layer)
      /\ \A i \in DOMAIN m \ {k} : next.map[i] = m[i]
      /\ r.layers \subseteq next.layers
      /\ OverLimit(k.layer, Counted(Attempt(m, k), k.layer).failures) => k.layer \in next.layers
  BY <1>1 DEF With
<1>5. Bounded(next.map)
  <2>1. MaxAttempts \in Nat /\ IsFiniteSet(DOMAIN m) /\ Cardinality(DOMAIN m) \in Nat
    BY <1>3, LoginGuardAssumption, FS_CardinalityType DEF Bounded
  <2>2. /\ IsFiniteSet(DOMAIN m \cup {k})
        /\ Cardinality(DOMAIN m \cup {k}) = IF k \in DOMAIN m THEN Cardinality(DOMAIN m) ELSE Cardinality(DOMAIN m) + 1
    BY <2>1, FS_AddElement, Zenon
  <2>3. QED
    BY <1>3, <1>4, <2>1, <2>2 DEF Bounded
<1>6. \/ Attempt(m, k) = NoAttempt
      \/ k \in DOMAIN attempts /\ Attempt(m, k) = attempts[k]
  BY <1>2, <1>3 DEF Attempt, Stage
<1>7. ASSUME NEW i \in DOMAIN m \ {k}
      PROVE  /\ i \notin done \cup {k} => i \in DOMAIN attempts /\ next.map[i] = attempts[i]
             /\ i \in done => /\ \/ next.map[i] = Counted(NoAttempt, i.layer)
                                 \/ i \in DOMAIN attempts /\ next.map[i] = Counted(attempts[i], i.layer)
                              /\ OverLimit(i.layer, next.map[i].failures) => i.layer \in next.layers
  <2>1. next.map[i] = r.map[i] /\ i \in DOMAIN r.map
    BY <1>3, <1>4
  <2>2. QED
    BY <1>2, <1>4, <2>1 DEF Stage
<1>8. QED
  BY <1>4, <1>5, <1>6, <1>7 DEF Stage

\* The keys of a failure fit in the map beside those that are there.
Fits(ks) == Cardinality(DOMAIN attempts \cup ks) <= MaxAttempts

\* Then no block is evicted, or shortened.
KeptExcept(r, ks) ==
  Fits(ks) =>
    /\ DOMAIN r.map \subseteq DOMAIN attempts \cup ks
    /\ \A k \in DOMAIN attempts :
         Blocked(attempts, k) => k \in DOMAIN r.map /\ r.map[k].until >= attempts[k].until

\* The limit of one key, recorded where the keys fit.
LEMMA RecordedKept ==
  ASSUME Inv, NEW results, NEW done, NEW ks \in SUBSET Keys, IsFiniteSet(ks), NEW k \in ks, k \notin done,
         \A r \in results : Stage(r, done) /\ KeptExcept(r, ks),
         NEW next \in Recorded(results, k)
  PROVE  KeptExcept(next, ks)
<1> SUFFICES ASSUME Fits(ks)
             PROVE  KeptExcept(next, ks)
  BY DEF KeptExcept
<1>0. PICK r \in results : \E m \in Room(r.map, k) :
        next.map = With(m, k, Counted(Attempt(m, k), k.layer))
  BY DEF Recorded
<1>1. PICK m \in Room(r.map, k) : next.map = With(m, k, Counted(Attempt(m, k), k.layer))
  BY <1>0
<1>2. Stage(r, done) /\ KeptExcept(r, ks)
  OBVIOUS
<1>3. m = r.map
  <2>1. CASE k \in DOMAIN r.map
    BY <2>1 DEF Room
  <2>2. CASE k \notin DOMAIN r.map
    <3>1. IsFiniteSet(DOMAIN attempts \cup ks) /\ Cardinality(DOMAIN attempts \cup ks) \in Nat
      BY FS_Union, FS_CardinalityType DEF Inv, CountersInv
    <3>2. IsFiniteSet(DOMAIN r.map) /\ Cardinality(DOMAIN r.map) \in Nat
      BY <1>2, FS_CardinalityType DEF Stage, Bounded
    <3>3. IsFiniteSet(DOMAIN r.map \cup {k}) /\ Cardinality(DOMAIN r.map \cup {k}) = Cardinality(DOMAIN r.map) + 1
      BY <2>2, <3>2, FS_AddElement
    <3>4. DOMAIN r.map \cup {k} \subseteq DOMAIN attempts \cup ks
      BY <1>2 DEF KeptExcept
    <3>5. Cardinality(DOMAIN r.map \cup {k}) <= Cardinality(DOMAIN attempts \cup ks)
      BY <3>1, <3>4, FS_Subset
    <3>6. Cardinality(DOMAIN r.map) < MaxAttempts
      BY <3>1, <3>2, <3>3, <3>5, LoginGuardAssumption DEF Fits
    <3>7. QED
      BY <3>2, <3>6, LoginGuardAssumption DEF Room
  <2>3. QED
    BY <2>1, <2>2
<1>4. /\ DOMAIN next.map = DOMAIN r.map \cup {k} /\ next.map[k] = Counted(Attempt(r.map, k), k.layer)
      /\ \A i \in DOMAIN r.map \ {k} : next.map[i] = r.map[i]
  BY <1>1, <1>3 DEF With
<1>5. DOMAIN next.map \subseteq DOMAIN attempts \cup ks
  BY <1>2, <1>4 DEF KeptExcept
<1>6. ASSUME NEW i \in DOMAIN attempts, Blocked(attempts, i)
      PROVE  i \in DOMAIN next.map /\ next.map[i].until >= attempts[i].until
  <2>1. i \in DOMAIN r.map /\ r.map[i].until >= attempts[i].until
    BY <1>2, <1>6 DEF KeptExcept
  <2>2. CASE i = k
    <3>1. Attempt(r.map, k) = attempts[k]
      BY <1>2, <2>1, <2>2 DEF Attempt, Stage
    <3>2. now \in Time /\ Sound(attempts[k], k.layer, now) /\ k.layer \in Layers
      BY <1>6, <2>2, KeyLayers DEF Inv, TypeOK, CountersInv
    <3>3. Counted(attempts[k], k.layer).until >= attempts[k].until
      BY <3>2, CountedSound
    <3>4. QED
      BY <1>4, <2>2, <3>1, <3>3
  <2>3. CASE i # k
    BY <1>4, <2>1, <2>3
  <2>4. QED
    BY <2>2, <2>3
<1>7. QED
  BY <1>5, <1>6 DEF KeptExcept

\* The key of each limit is recorded once; what recordLoginFailure leaves.
LEMMA FailureStage ==
  ASSUME Inv, NEW s \in Sources, NEW a \in Accounts, NEW r \in RecordLoginFailure(s, a)
  PROVE  Stage(r, LoginLimits(s, a)) /\ KeptExcept(r, LoginLimits(s, a))
<1> DEFINE ks == LoginLimits(s, a)
           start == {[map |-> Pruned(attempts), layers |-> {}]}
           subnet == Key("subnet", Subnet[s])
           account == Account(a)
           named(k) == IF k.of = Blank THEN {} ELSE {k}
           one == Recorded(start, Ip(s))
           two == RecordedNamed(one, subnet)
           three == RecordedNamed(two, account)
           four == Recorded(three, Global)
<1>1. r \in four
  BY DEF RecordLoginFailure
<1>2. \A p \in start : Stage(p, {}) /\ KeptExcept(p, ks)
  <2>1. /\ DOMAIN Pruned(attempts) \subseteq DOMAIN attempts
        /\ \A k \in DOMAIN Pruned(attempts) : Pruned(attempts)[k] = attempts[k]
        /\ \A k \in DOMAIN attempts : Blocked(attempts, k) => k \in DOMAIN Pruned(attempts)
    <3>1. \A k \in DOMAIN attempts : now \in Nat /\ attempts[k].until \in Nat
      BY KeyLayers, LoginGuardAssumption DEF Inv, TypeOK, Time
    <3>2. QED
      BY <3>1 DEF Pruned, Without, Blocked
  <2>2. Bounded(Pruned(attempts))
    <3>1. /\ IsFiniteSet(DOMAIN attempts) /\ Cardinality(DOMAIN attempts) \in Nat /\ MaxAttempts \in Nat
          /\ Cardinality(DOMAIN attempts) <= MaxAttempts
      BY LoginGuardAssumption, FS_CardinalityType DEF Inv, CountersInv, LimitedMemory
    <3>2. /\ IsFiniteSet(DOMAIN Pruned(attempts)) /\ Cardinality(DOMAIN Pruned(attempts)) \in Nat
          /\ Cardinality(DOMAIN Pruned(attempts)) <= Cardinality(DOMAIN attempts)
      BY <2>1, <3>1, FS_Subset, FS_CardinalityType
    <3>3. QED
      BY <3>1, <3>2 DEF Bounded
  <2>3. \A k \in DOMAIN attempts : attempts[k].until \in Nat
    BY KeyLayers, LoginGuardAssumption DEF Inv, TypeOK
  <2>4. QED
    BY <2>1, <2>2, <2>3 DEF Stage, KeptExcept
<1>3. Ip(s) # subnet /\ account \notin {Ip(s), subnet} /\ Global \notin {Ip(s), subnet, account}
  BY DEF Ip, Account, Global, Key
<1>4. /\ ks = {Ip(s), Global} \cup named(subnet) \cup named(account)
      /\ named(subnet) \subseteq {subnet} /\ named(account) \subseteq {account}
      /\ ks \subseteq Keys
  BY LimitKeys DEF LoginLimits
<1>5. IsFiniteSet(ks)
  BY LimitsFinite
<1> HIDE DEF ks, start, subnet, account, one, two, three, four
<1>6. \A p \in one : Stage(p, {} \cup {Ip(s)}) /\ KeptExcept(p, ks)
  BY <1>2, <1>4, <1>5, RecordedStage, RecordedKept DEF one
<1>7. \A p \in two : Stage(p, {Ip(s)} \cup named(subnet)) /\ KeptExcept(p, ks)
  <2>1. \A p \in one : Stage(p, {Ip(s)}) /\ KeptExcept(p, ks)
    BY <1>6
  <2>2. CASE subnet.of = Blank
    BY <2>1, <2>2 DEF two, RecordedNamed
  <2>3. CASE subnet.of # Blank
    <3>1. two = Recorded(one, subnet) /\ named(subnet) = {subnet} /\ subnet \in ks /\ subnet \in Keys
      BY <1>4, <2>3 DEF two, RecordedNamed
    <3>2. \A p \in two : Stage(p, {Ip(s)} \cup {subnet}) /\ KeptExcept(p, ks)
      BY <1>3, <1>4, <1>5, <2>1, <3>1, RecordedStage, RecordedKept
    <3>3. QED
      BY <3>1, <3>2
  <2>4. QED
    BY <2>2, <2>3
<1>8. \A p \in three : Stage(p, ({Ip(s)} \cup named(subnet)) \cup named(account)) /\ KeptExcept(p, ks)
  <2> DEFINE done == {Ip(s)} \cup named(subnet)
  <2>1. account \notin done /\ done \subseteq ks
    BY <1>3, <1>4
  <2>2. \A p \in two : Stage(p, done) /\ KeptExcept(p, ks)
    BY <1>7
  <2> HIDE DEF done
  <2>3. CASE account.of = Blank
    <3>1. done \cup named(account) = done /\ three = two
      BY <2>3 DEF three, RecordedNamed
    <3>2. QED
      BY <2>2, <3>1 DEF done
  <2>4. CASE account.of # Blank
    <3>1. three = Recorded(two, account) /\ named(account) = {account} /\ account \in ks /\ account \in Keys
      BY <1>4, <2>4 DEF three, RecordedNamed
    <3>2. \A p \in three : Stage(p, done \cup {account}) /\ KeptExcept(p, ks)
      BY <1>4, <1>5, <2>1, <2>2, <3>1, RecordedStage, RecordedKept
    <3>3. QED
      BY <3>1, <3>2 DEF done
  <2>5. QED
    BY <2>3, <2>4
<1>9. \A p \in four : Stage(p, (({Ip(s)} \cup named(subnet)) \cup named(account)) \cup {Global}) /\ KeptExcept(p, ks)
  <2> DEFINE done == ({Ip(s)} \cup named(subnet)) \cup named(account)
  <2>1. Global \notin done /\ done \subseteq ks /\ Global \in ks /\ Global \in Keys
    BY <1>3, <1>4
  <2>2. \A p \in three : Stage(p, done) /\ KeptExcept(p, ks)
    BY <1>8
  <2> HIDE DEF done
  <2>3. \A p \in four : Stage(p, done \cup {Global}) /\ KeptExcept(p, ks)
    BY <1>4, <1>5, <2>1, <2>2, RecordedStage, RecordedKept DEF four
  <2>4. QED
    BY <2>3 DEF done
<1>10. (({Ip(s)} \cup named(subnet)) \cup named(account)) \cup {Global} = ks
  BY <1>4
<1>11. QED
  BY <1>1, <1>9, <1>10 DEF ks

-----------------------------------------------------------------------------
(* Every step keeps the invariant.                                         *)

\* A set of logins is finite.
LEMMA VerifyingFinite ==
  ASSUME NEW V, V \subseteq Handlers
  PROVE  IsFiniteSet(V) /\ Cardinality(V) \in Nat /\ Cardinality(V) <= Cardinality(Handlers)
         /\ Cardinality(Handlers) \in Nat
BY LoginGuardAssumption, FS_Subset, FS_CardinalityType

\* A step that only drops counters, and lets no more logins pass a counter that is over
\* its limit.
LEMMA FewerCounters ==
  ASSUME Inv, now' = now, DOMAIN attempts' \subseteq DOMAIN attempts,
         \A k \in DOMAIN attempts' : attempts'[k] = attempts[k],
         \A k \in DOMAIN attempts' : OverLimit(k.layer, attempts[k].failures) => Verifying(k)' \subseteq Verifying(k)
  PROVE  CountersInv' /\ LimitedMemory'
<1>1. IsFiniteSet(DOMAIN attempts) /\ Cardinality(DOMAIN attempts) <= MaxAttempts
  BY DEF Inv, CountersInv, LimitedMemory
<1>2. IsFiniteSet(DOMAIN attempts') /\ Cardinality(DOMAIN attempts') <= Cardinality(DOMAIN attempts)
      /\ Cardinality(DOMAIN attempts') \in Nat /\ Cardinality(DOMAIN attempts) \in Nat
  BY <1>1, FS_Subset, FS_CardinalityType
<1>3. LimitedMemory'
  BY <1>1, <1>2, LoginGuardAssumption DEF LimitedMemory
<1>4. ASSUME NEW k \in DOMAIN attempts'
      PROVE  Sound(attempts'[k], k.layer, now')
  BY <1>4 DEF Inv, CountersInv
<1>5. ASSUME NEW k \in DOMAIN attempts', OverLimit(k.layer, attempts'[k].failures)
      PROVE  attempts'[k].failures + Cardinality(Verifying(k)') < Threshold[k.layer] + Cardinality(Handlers)
  <2>1. Verifying(k) \subseteq Handlers /\ Verifying(k)' \subseteq Verifying(k)
    BY <1>5 DEF Verifying
  <2>2. Cardinality(Verifying(k)') <= Cardinality(Verifying(k)) /\ Cardinality(Verifying(k)') \in Nat
        /\ Cardinality(Verifying(k)) \in Nat /\ Cardinality(Handlers) \in Nat
    BY <2>1, VerifyingFinite, FS_Subset, FS_CardinalityType
  <2>3. attempts[k].failures + Cardinality(Verifying(k)) < Threshold[k.layer] + Cardinality(Handlers)
        /\ attempts[k].failures \in Nat /\ k.layer \in Layers
    BY <1>5, KeyLayers DEF Inv, TypeOK, CountersInv, Passed, Sound
  <2>4. QED
    BY <2>2, <2>3, LoginGuardAssumption
<1>6. QED
  BY <1>2, <1>3, <1>4, <1>5 DEF CountersInv, Passed

\* A login passes the check of a key only while its counter is below its limit.
LEMMA CheckStep ==
  ASSUME Inv, NEW h \in Handlers, NEW s \in Sources, NEW a \in Accounts, Check(h, s, a)
  PROVE  Inv'
<1> DEFINE ks == LoginLimits(s, a)
<1>1. /\ attempts' = Without(attempts, Stale(attempts, ks)) /\ now' = now /\ banned' = banned
      /\ logins[h].step = "idle"
      /\ \/ logins' = logins
         \/ /\ \A k \in ks : ~Blocked(attempts, k)
            /\ logins' = [logins EXCEPT ![h] = [step |-> "verify", source |-> s, account |-> a]]
  BY DEF Check
<1>2. DOMAIN attempts' = DOMAIN attempts \ Stale(attempts, ks) /\ \A k \in DOMAIN attempts' : attempts'[k] = attempts[k]
  BY <1>1 DEF Without
<1>3. logins \in [Handlers -> [step : {"idle", "verify", "ban"}, source : Sources, account : Accounts]]
  BY DEF Inv, TypeOK
<1>4. ASSUME NEW k \in DOMAIN attempts', OverLimit(k.layer, attempts[k].failures)
      PROVE  Verifying(k)' \subseteq Verifying(k)
  <2>1. CASE logins' = logins
    BY <2>1 DEF Verifying
  <2>2. CASE /\ \A i \in ks : ~Blocked(attempts, i)
             /\ logins' = [logins EXCEPT ![h] = [step |-> "verify", source |-> s, account |-> a]]
    <3>1. k \notin ks
      <4>1. SUFFICES ASSUME k \in ks
                     PROVE  k \in Stale(attempts, ks)
        BY <1>2
      <4>2. k \in DOMAIN attempts /\ attempts[k].until = attempts[k].last + BlockFor[k.layer]
            /\ attempts[k].last \in Nat /\ k.layer \in Layers /\ now \in Nat
        BY <1>2, <1>4, KeyLayers DEF Inv, CountersInv, Sound, TypeOK, Time
      <4>3. attempts[k].until > 0 /\ attempts[k].until \in Nat
        BY <4>2, LoginGuardAssumption
      <4>4. Expired(attempts[k])
        BY <2>2, <4>1, <4>2, <4>3 DEF Blocked, Expired
      <4>5. QED
        BY <2>2, <4>1, <4>2, <4>4 DEF Stale
    <3>2. ASSUME NEW g \in Verifying(k)'
          PROVE  g \in Verifying(k)
      <4>1. CASE g = h
        <5>1. logins'[h].source = s /\ logins'[h].account = a
          BY <1>3, <2>2
        <5>2. QED
          BY <3>1, <3>2, <4>1, <5>1 DEF Verifying
      <4>2. CASE g # h
        <5>1. g \in Handlers /\ logins'[g] = logins[g]
          BY <1>3, <2>2, <3>2, <4>2 DEF Verifying
        <5>2. QED
          BY <3>2, <5>1 DEF Verifying
      <4>3. QED
        BY <4>1, <4>2
    <3>3. QED
      BY <3>2
  <2>3. QED
    BY <1>1, <2>1, <2>2
<1>5. CountersInv' /\ LimitedMemory'
  BY <1>1, <1>2, <1>4, FewerCounters
<1>6. \A g \in Handlers : logins'[g].step = "ban" <=> logins[g].step = "ban" 
  BY <1>1, <1>3
<1>7. \A g \in Handlers : logins[g].step = "ban" => logins'[g] = logins[g]
  BY <1>1, <1>3
<1>8. TypeOK'
  <2>1. logins' \in [Handlers -> [step : {"idle", "verify", "ban"}, source : Sources, account : Accounts]]
    BY <1>1, <1>3
  <2>2. QED
    BY <1>1, <1>2, <2>1 DEF Inv, TypeOK
<1>9. BansPublic'
  BY <1>6, <1>7 DEF Inv, BansPublic
<1>10. BlockedIsBanned'
  BY <1>1, <1>2, <1>7 DEF Inv, BlockedIsBanned, Blocked
<1>11. QED
  BY <1>1, <1>5, <1>8, <1>9, <1>10 DEF Inv, Positive

\* A login that ends clears counters, or adds its source to the bans.
LEMMA EndStep ==
  ASSUME Inv, NEW h \in Handlers, Success(h) \/ Ban(h)
  PROVE  Inv'
<1>1. /\ now' = now
      /\ DOMAIN attempts' \subseteq DOMAIN attempts /\ \A k \in DOMAIN attempts' : attempts'[k] = attempts[k]
      /\ logins' = [logins EXCEPT ![h].step = "idle"]
      /\ banned' = IF logins[h].step = "ban" THEN banned \cup {logins[h].source} ELSE banned
  BY DEF Success, Ban, Without
<1>2. logins \in [Handlers -> [step : {"idle", "verify", "ban"}, source : Sources, account : Accounts]]
  BY DEF Inv, TypeOK
<1>3. logins'[h].step = "idle" /\ \A g \in Handlers \ {h} : logins'[g] = logins[g]
  BY <1>1, <1>2
<1>4. \A k \in DOMAIN attempts' : Verifying(k)' \subseteq Verifying(k)
  BY <1>3 DEF Verifying
<1>5. CountersInv' /\ LimitedMemory'
  BY <1>1, <1>4, FewerCounters
<1>6. TypeOK'
  <2>1. logins' \in [Handlers -> [step : {"idle", "verify", "ban"}, source : Sources, account : Accounts]]
    BY <1>1, <1>2
  <2>2. banned' \subseteq Public
    BY <1>1 DEF Inv, TypeOK, BansPublic
  <2>3. QED
    BY <1>1, <2>1, <2>2 DEF Inv, TypeOK
<1>7. BansPublic'
  BY <1>3 DEF Inv, BansPublic
<1>8. BlockedIsBanned'
  BY <1>1, <1>3 DEF Inv, BlockedIsBanned, Blocked
<1>9. QED
  BY <1>1, <1>5, <1>6, <1>7, <1>8 DEF Inv, Positive

\* What the counters are after a failure: sound, and one failure ahead at most.
LEMMA FailureCounters ==
  ASSUME Inv, NEW s \in Sources, NEW a \in Accounts, NEW r \in RecordLoginFailure(s, a),
         NEW k \in DOMAIN r.map
  PROVE  /\ k \in Keys /\ Sound(r.map[k], k.layer, now)
         /\ r.map[k].failures \in Nat \ {0} /\ r.map[k].last \in Time \ {0}
         /\ k \notin LoginLimits(s, a) => k \in DOMAIN attempts /\ r.map[k] = attempts[k]
         /\ k \in LoginLimits(s, a) =>
              /\ OverLimit(k.layer, r.map[k].failures) => k.layer \in r.layers
              /\ \/ r.map[k].failures = 1 /\ (~OverLimit(k.layer, r.map[k].failures) => r.map[k].until = 0)
                 \/ k \in DOMAIN attempts /\ r.map[k].failures <= attempts[k].failures + 1
                    /\ (~OverLimit(k.layer, r.map[k].failures) => r.map[k].until = attempts[k].until)
<1> DEFINE ks == LoginLimits(s, a)
<1>1. Stage(r, ks)
  BY FailureStage
<1>2. now \in Time /\ now \in Nat
  BY DEF Inv, TypeOK, Time
<1>3. k \in Keys /\ k.layer \in Layers
  <2>1. k \in ks \/ k \in DOMAIN attempts
    BY <1>1 DEF Stage
  <2>2. QED
    BY <2>1, LimitKeys, KeyLayers DEF Inv, TypeOK
<1>4. CASE k \notin ks
  BY <1>1, <1>3, <1>4 DEF Stage, Inv, TypeOK, CountersInv
<1>5. CASE k \in ks /\ r.map[k] = Counted(NoAttempt, k.layer)
  <2>1. /\ Sound(r.map[k], k.layer, now) /\ r.map[k].failures \in Nat \ {0} /\ r.map[k].last = now
        /\ r.map[k].failures <= NoAttempt.failures + 1
        /\ ~OverLimit(k.layer, r.map[k].failures) => r.map[k].until = NoAttempt.until
    BY <1>2, <1>3, <1>5, NoAttemptSound, CountedSound
  <2>2. NoAttempt.failures = 0 /\ NoAttempt.until = 0
    BY DEF NoAttempt
  <2>3. now # 0
    BY DEF Inv, Positive
  <2>4. QED
    BY <1>1, <1>2, <1>3, <1>5, <2>1, <2>2, <2>3 DEF Stage
<1>6. CASE k \in ks /\ k \in DOMAIN attempts /\ r.map[k] = Counted(attempts[k], k.layer)
  <2>1. /\ Sound(r.map[k], k.layer, now) /\ r.map[k].failures \in Nat \ {0} /\ r.map[k].last = now
        /\ r.map[k].failures <= attempts[k].failures + 1
        /\ ~OverLimit(k.layer, r.map[k].failures) => r.map[k].until = attempts[k].until
    BY <1>2, <1>3, <1>6, CountedSound DEF Inv, CountersInv
  <2>2. now # 0
    BY DEF Inv, Positive
  <2>3. QED
    BY <1>1, <1>2, <1>3, <1>6, <2>1, <2>2 DEF Stage
<1>7. QED
  BY <1>1, <1>4, <1>5, <1>6 DEF Stage

\* A failure is one login less that may pass a limit, and bans whom it blocks.
LEMMA FailureStep ==
  ASSUME Inv, NEW h \in Handlers, Failure(h)
  PROVE  Inv'
<1> DEFINE s == logins[h].source
           a == logins[h].account
           ks == LoginLimits(s, a)
<1>1. PICK r \in RecordLoginFailure(s, a) :
        attempts' = r.map /\ logins' = [logins EXCEPT ![h].step = IF Bans(r.layers, s) THEN "ban" ELSE "idle"]
  BY DEF Failure
<1>2. logins[h].step = "verify" /\ now' = now /\ banned' = banned
  BY DEF Failure
<1>3. logins \in [Handlers -> [step : {"idle", "verify", "ban"}, source : Sources, account : Accounts]]
      /\ s \in Sources /\ a \in Accounts
  BY DEF Inv, TypeOK
<1>4. /\ logins'[h].step = IF Bans(r.layers, s) THEN "ban" ELSE "idle"
      /\ logins'[h].source = s /\ \A g \in Handlers \ {h} : logins'[g] = logins[g]
  BY <1>1, <1>3
<1>5. IsFiniteSet(DOMAIN attempts') /\ LimitedMemory'
  BY <1>1, <1>3, FailureStage DEF LimitedMemory, Bounded, Stage
<1>6. \A k \in DOMAIN attempts' :
        /\ k \in Keys /\ Sound(attempts'[k], k.layer, now')
        /\ attempts'[k].failures \in Nat \ {0} /\ attempts'[k].last \in Time \ {0}
  BY <1>1, <1>2, <1>3, FailureCounters
<1>7. ASSUME NEW k \in DOMAIN attempts', OverLimit(k.layer, attempts'[k].failures)
      PROVE  attempts'[k].failures + Cardinality(Verifying(k)') < Threshold[k.layer] + Cardinality(Handlers)
  <2>1. Verifying(k)' = Verifying(k) \ {h}
    BY <1>3, <1>4 DEF Verifying
  <2>2. /\ IsFiniteSet(Verifying(k)) /\ Cardinality(Verifying(k)) \in Nat
        /\ Cardinality(Verifying(k)) <= Cardinality(Handlers) /\ Cardinality(Handlers) \in Nat
    BY VerifyingFinite DEF Verifying
  <2>3. Cardinality(Verifying(k)') = IF h \in Verifying(k) THEN Cardinality(Verifying(k)) - 1 ELSE Cardinality(Verifying(k))
    BY <2>1, <2>2, FS_RemoveElement, Zenon
  <2>4. Threshold[k.layer] \in Nat \ {0} /\ k \in Keys
    BY <1>6, <1>7, KeyLayers, LoginGuardAssumption
  <2>5. CASE k \notin ks
    <3>1. k \in DOMAIN attempts /\ attempts'[k] = attempts[k]
      BY <1>1, <1>3, <1>7, <2>5, FailureCounters
    <3>2. attempts[k].failures + Cardinality(Verifying(k)) < Threshold[k.layer] + Cardinality(Handlers)
      BY <1>7, <3>1 DEF Inv, CountersInv, Passed
    <3>3. h \notin Verifying(k)
      BY <2>5 DEF Verifying
    <3>4. QED
      BY <2>3, <3>1, <3>2, <3>3
  <2>6. CASE k \in ks
    <3>1. h \in Verifying(k)
      BY <1>2, <2>6 DEF Verifying
    <3>2. Cardinality(Verifying(k)') = Cardinality(Verifying(k)) - 1
      BY <2>3, <3>1
    <3>3. CASE attempts'[k].failures = 1
      BY <2>2, <2>4, <3>2, <3>3
    <3>4. CASE k \in DOMAIN attempts /\ attempts'[k].failures <= attempts[k].failures + 1
      <4>1. attempts[k].failures \in Nat /\ attempts'[k].failures \in Nat
        BY <1>6, <1>7, <3>4 DEF Inv, TypeOK
      <4>2. CASE OverLimit(k.layer, attempts[k].failures)
        <5>1. attempts[k].failures + Cardinality(Verifying(k)) < Threshold[k.layer] + Cardinality(Handlers)
          BY <3>4, <4>2 DEF Inv, CountersInv, Passed
        <5>2. QED
          BY <2>2, <2>4, <3>2, <3>4, <4>1, <5>1
      <4>3. CASE ~OverLimit(k.layer, attempts[k].failures)
        BY <2>2, <2>4, <3>2, <3>4, <4>1, <4>3 DEF OverLimit
      <4>4. QED
        BY <4>2, <4>3
    <3>5. QED
      BY <1>1, <1>3, <1>7, <2>6, <3>3, <3>4, FailureCounters
  <2>7. QED
    BY <2>5, <2>6
<1>8. TypeOK'
  <2>1. \A k \in DOMAIN attempts' :
          attempts'[k].until \in 0 .. MaxTime + BlockFor[k.layer] /\ attempts'[k].times \in Seq(Time)
    <3>1. SUFFICES ASSUME NEW k \in DOMAIN attempts'
                   PROVE  attempts'[k].until \in 0 .. MaxTime + BlockFor[k.layer] /\ attempts'[k].times \in Seq(Time)
      OBVIOUS
    <3>2. k.layer \in Layers /\ BlockFor[k.layer] \in Nat /\ now' \in 0 .. MaxTime /\ MaxTime \in Nat
      BY <1>2, <1>6, KeyLayers, LoginGuardAssumption DEF Inv, TypeOK, Time
    <3>3. QED
      BY <1>6, <3>2 DEF Sound
  <2>2. logins' \in [Handlers -> [step : {"idle", "verify", "ban"}, source : Sources, account : Accounts]]
    BY <1>1, <1>3
  <2>3. QED
    BY <1>2, <1>6, <2>1, <2>2 DEF Inv, TypeOK
<1>9. BansPublic'
  BY <1>4 DEF Inv, BansPublic, Bans
<1>10. BlockedIsBanned'
  <2>1. SUFFICES ASSUME NEW p \in Public, Ip(p) \in DOMAIN attempts', now < attempts'[Ip(p)].until
                 PROVE  p \in banned \/ \E g \in Handlers : logins'[g].step = "ban" /\ logins'[g].source = p
    BY <1>2 DEF BlockedIsBanned, Blocked
  <2>2. ASSUME Blocked(attempts, Ip(p))
        PROVE  p \in banned \/ \E g \in Handlers : logins'[g].step = "ban" /\ logins'[g].source = p
    BY <1>2, <1>4, <2>2 DEF Inv, BlockedIsBanned
  <2>3. CASE Ip(p) \in ks
    <3>1. p = s
      BY <1>3, <2>3, LimitKeys DEF Ip, Key, Account, Global
    <3>2. CASE OverLimit("ip", attempts'[Ip(p)].failures)
      <4>1. "ip" \in r.layers
        BY <1>1, <1>3, <2>1, <2>3, <3>2, FailureCounters DEF Ip, Key
      <4>2. QED
        BY <1>4, <3>1, <4>1 DEF Bans
    <3>3. CASE ~OverLimit("ip", attempts'[Ip(p)].failures)
      <4>1. attempts'[Ip(p)].until = 0 \/ (Ip(p) \in DOMAIN attempts /\ attempts'[Ip(p)].until = attempts[Ip(p)].until)
        BY <1>1, <1>3, <2>1, <2>3, <3>3, FailureCounters DEF Ip, Key
      <4>2. now \in Nat
        BY DEF Inv, TypeOK, Time
      <4>3. QED
        BY <2>1, <2>2, <4>1, <4>2 DEF Blocked
    <3>4. QED
      BY <3>2, <3>3
  <2>4. CASE Ip(p) \notin ks
    <3>1. Ip(p) \in DOMAIN attempts /\ attempts'[Ip(p)] = attempts[Ip(p)]
      BY <1>1, <1>3, <2>1, <2>4, FailureCounters
    <3>2. QED
      BY <2>1, <2>2, <3>1 DEF Blocked
  <2>5. QED
    BY <2>3, <2>4
<1>11. QED
  BY <1>2, <1>5, <1>6, <1>7, <1>8, <1>9, <1>10 DEF Inv, CountersInv, Passed, Positive

\* Time passes: failures leave the window, and blocks end.
LEMMA TickStep ==
  ASSUME Inv, Tick
  PROVE  Inv'
<1>1. /\ attempts' = attempts /\ logins' = logins /\ banned' = banned
      /\ now' = now + 1 /\ now \in Nat /\ now' \in Time /\ now' # 0 /\ now \in Time
  BY LoginGuardAssumption DEF Inv, TypeOK, Tick, Time
<1>2. ASSUME NEW k \in DOMAIN attempts
      PROVE  Sound(attempts[k], k.layer, now')
  <2>1. Sound(attempts[k], k.layer, now)
    BY DEF Inv, CountersInv
  <2>2. Recent(attempts[k], now') \subseteq Recent(attempts[k], now)
    <3>1. \A i \in DOMAIN attempts[k].times : attempts[k].times[i] \in Time
      BY <2>1 DEF Sound
    <3>2. QED
      BY <1>1, <3>1, LoginGuardAssumption DEF Recent, Time
  <2>3. /\ IsFiniteSet(Recent(attempts[k], now)) /\ Cardinality(Recent(attempts[k], now)) \in Nat
        /\ Cardinality(Recent(attempts[k], now')) \in Nat
    BY <1>1, <2>1, RecentFinite DEF Sound
  <2>4. Cardinality(Recent(attempts[k], now')) <= Cardinality(Recent(attempts[k], now))
    BY <2>2, <2>3, FS_Subset
  <2>5. QED
    BY <1>1, <2>1, <2>3, <2>4 DEF Sound
<1>3. \A k \in DOMAIN attempts : Passed(k)'
  BY <1>1 DEF Inv, CountersInv, Passed, Verifying
<1>4. CountersInv'
  BY <1>1, <1>2, <1>3 DEF Inv, CountersInv
<1>5. BlockedIsBanned'
  <2>1. SUFFICES ASSUME NEW s \in Public, Blocked(attempts, Ip(s))'
                 PROVE  Blocked(attempts, Ip(s))
    BY <1>1 DEF Inv, BlockedIsBanned
  <2>2. Ip(s) \in DOMAIN attempts /\ now + 1 < attempts[Ip(s)].until /\ attempts[Ip(s)].until \in Nat
    BY <1>1, <2>1, KeyLayers, LoginGuardAssumption DEF Blocked, Inv, TypeOK
  <2>3. QED
    BY <1>1, <2>2 DEF Blocked
<1>6. QED
  BY <1>1, <1>4, <1>5 DEF Inv, TypeOK, Positive, BansPublic, LimitedMemory

\* A panel that starts has no counters and no logins under way.
LEMMA Fresh ==
  /\ DOMAIN Empty = {}
  /\ Quiescent \in [Handlers -> [step : {"idle", "verify", "ban"}, source : Sources, account : Accounts]]
  /\ \A h \in Handlers : Quiescent[h].step = "idle"
<1>1. (CHOOSE s \in Sources : TRUE) \in Sources /\ (CHOOSE a \in Accounts : TRUE) \in Accounts
  BY LoginGuardAssumption
<1>2. QED
  BY <1>1 DEF Empty, Quiescent

LEMMA RestartStep ==
  ASSUME Inv, Restart
  PROVE  Inv'
<1>1. attempts' = Empty /\ logins' = Quiescent /\ now' = now /\ banned' = banned
  BY DEF Restart
<1>2. CountersInv' /\ LimitedMemory'
  BY <1>1, Fresh, FewerCounters
<1>3. TypeOK'
  BY <1>1, Fresh DEF Inv, TypeOK
<1>4. BlockedIsBanned' /\ BansPublic'
  BY <1>1, Fresh DEF BlockedIsBanned, Blocked, BansPublic
<1>5. QED
  BY <1>1, <1>2, <1>3, <1>4 DEF Inv, Positive

\* The invariant holds in every state of every run.
THEOREM Invariant == Spec => []Inv
<1>1. Init => Inv
  <2> SUFFICES ASSUME Init
               PROVE  Inv
    OBVIOUS
  <2>1. attempts = Empty /\ logins = Quiescent /\ now = 1 /\ banned = {} /\ DOMAIN attempts = {}
    BY Fresh DEF Init
  <2>2. TypeOK /\ Positive
    BY <2>1, Fresh, LoginGuardAssumption DEF TypeOK, Time, Positive
  <2>3. IsFiniteSet(DOMAIN attempts) /\ Cardinality(DOMAIN attempts) = 0
    BY <2>1, FS_EmptySet
  <2>4. CountersInv /\ LimitedMemory
    BY <2>1, <2>3, LoginGuardAssumption DEF CountersInv, LimitedMemory
  <2>5. BansPublic /\ BlockedIsBanned
    BY <2>1, Fresh DEF BansPublic, BlockedIsBanned, Blocked
  <2>6. QED
    BY <2>2, <2>4, <2>5 DEF Inv
<1>2. Inv /\ [Next]_vars => Inv'
  <2> SUFFICES ASSUME Inv, [Next]_vars
               PROVE  Inv'
    OBVIOUS
  <2>0. \A s \in Sources : Names[s] \subseteq Accounts
    BY LoginGuardAssumption
  <2>1. CASE \E h \in Handlers : \E s \in Sources : \E a \in Names[s] : Check(h, s, a)
    BY <2>0, <2>1, CheckStep
  <2>2. CASE \E h \in Handlers : Failure(h)
    BY <2>2, FailureStep
  <2>3. CASE \E h \in Handlers : Success(h) \/ Ban(h)
    BY <2>3, EndStep
  <2>4. CASE Tick
    BY <2>4, TickStep
  <2>5. CASE Restart
    BY <2>5, RestartStep
  <2>6. CASE UNCHANGED vars
    BY <2>6 DEF vars, Inv, TypeOK, Positive, CountersInv, Passed, Verifying, BansPublic, LimitedMemory,
                BlockedIsBanned, Blocked
  <2>7. QED
    BY <2>1, <2>2, <2>3, <2>4, <2>5, <2>6 DEF Next
<1>3. QED
  BY <1>1, <1>2, PTL DEF Spec

-----------------------------------------------------------------------------
(* What the runs check.                                                    *)

\* As many failures in a window as a limit allows block the key now: the last of them
\* is in the window, and the block it began is longer than the window.
LEMMA WindowBlocks ==
  ASSUME Inv, NEW k \in DOMAIN attempts, Cardinality(Recent(attempts[k], now)) >= Threshold[k.layer]
  PROVE  Blocked(attempts, k) \/ (k = Global /\ Expired(attempts[k]))
<1>1. /\ now \in Time /\ k.layer \in Layers /\ (k.layer = "global" => k = Global)
      /\ Sound(attempts[k], k.layer, now)
  BY KeyLayers DEF Inv, TypeOK, CountersInv
<1>2. /\ Threshold[k.layer] \in Nat \ {0} /\ BlockFor[k.layer] \in Nat \ {0} /\ Window \in Nat
      /\ k.layer # "global" => BlockFor[k.layer] > Window
  BY <1>1, LoginGuardAssumption
<1>3. Cardinality(Recent(attempts[k], now)) \in Nat
  BY <1>1, RecentFinite DEF Sound
<1>4. OverLimit(k.layer, attempts[k].failures)
  BY <1>1, <1>2, <1>3 DEF OverLimit, Sound
<1>5. attempts[k].last + Window >= now /\ attempts[k].last \in Nat
  <2>1. Recent(attempts[k], now) # {}
    BY <1>2, <1>3, FS_EmptySet
  <2>2. PICK i \in DOMAIN attempts[k].times : attempts[k].times[i] + Window >= now
    BY <2>1 DEF Recent
  <2>3. /\ attempts[k].times[i] \in Time /\ attempts[k].times[i] <= attempts[k].last
        /\ attempts[k].last \in 0 .. now
    BY <1>1 DEF Sound
  <2>4. QED
    BY <1>1, <1>2, <2>2, <2>3 DEF Time
<1>6. attempts[k].until = attempts[k].last + BlockFor[k.layer]
  BY <1>1, <1>4 DEF Sound
<1>7. now \in Nat
  BY <1>1 DEF Time
<1>8. CASE k.layer # "global"
  BY <1>2, <1>5, <1>6, <1>7, <1>8 DEF Blocked
<1>9. CASE k.layer = "global"
  BY <1>1, <1>2, <1>5, <1>6, <1>7, <1>9 DEF Blocked, Expired
<1>10. QED
  BY <1>8, <1>9

\* The map of counters is never too large, a limit that is reached blocks and is overshot
\* by the logins under way at most, and who is blocked gets banned.
THEOREM LimitsHold == Spec => []Consistent
<1>1. Inv => Consistent
  <2> SUFFICES ASSUME Inv
               PROVE  Consistent
    OBVIOUS
  <2>1. OvershootBounded
    <3>1. SUFFICES ASSUME NEW k \in DOMAIN attempts
                   PROVE  attempts[k].failures < Threshold[k.layer] + Cardinality(Handlers)
      BY DEF OvershootBounded
    <3>2. attempts[k].failures \in Nat /\ Threshold[k.layer] \in Nat
      BY KeyLayers, LoginGuardAssumption DEF Inv, TypeOK
    <3>3. Cardinality(Verifying(k)) \in Nat /\ Cardinality(Handlers) \in Nat
      BY VerifyingFinite DEF Verifying
    <3>4. Passed(k)
      BY DEF Inv, CountersInv
    <3>5. QED
      BY <3>2, <3>3, <3>4 DEF Passed, OverLimit
  <2>2. FailuresBlock
    BY WindowBlocks DEF FailuresBlock, Recent
  <2>3. QED
    BY <2>1, <2>2 DEF Inv, Consistent
<1>2. QED
  BY <1>1, Invariant, PTL

\* A block ends early only for a login that succeeds, for want of room, or with the panel.
THEOREM BlocksKept == Spec => BlockKept
<1> DEFINE Early(k) ==
      \/ k \in DOMAIN attempts' /\ attempts'[k].until >= attempts[k].until
      \/ \E h \in Handlers :
           LET source == logins[h].source  account == logins[h].account IN
           \/ Success(h) /\ k \in {Ip(source), Account(account)}
           \/ Failure(h) /\ Cardinality(DOMAIN attempts \cup LoginLimits(source, account)) > MaxAttempts
      \/ Restart
<1>1. Inv /\ [Next]_vars => [\A k \in DOMAIN attempts : Blocked(attempts, k) => Early(k)]_vars
  <2> SUFFICES ASSUME Inv, Next, NEW k \in DOMAIN attempts, Blocked(attempts, k)
               PROVE  Early(k)
    BY DEF vars
  <2>0. attempts[k].until \in Nat
    BY KeyLayers, LoginGuardAssumption DEF Inv, TypeOK
  <2>1. ASSUME NEW h \in Handlers, NEW s \in Sources, NEW a \in Accounts, Check(h, s, a)
        PROVE  Early(k)
    <3>1. k \notin Stale(attempts, LoginLimits(s, a))
      BY DEF Stale
    <3>2. k \in DOMAIN attempts' /\ attempts'[k] = attempts[k]
      BY <2>1, <3>1 DEF Check, Without
    <3>3. QED
      BY <2>0, <3>2
  <2>2. ASSUME NEW h \in Handlers, Failure(h)
        PROVE  Early(k)
    <3> DEFINE ks == LoginLimits(logins[h].source, logins[h].account)
    <3>1. PICK r \in RecordLoginFailure(logins[h].source, logins[h].account) : attempts' = r.map
      BY <2>2 DEF Failure
    <3>2. logins[h].source \in Sources /\ logins[h].account \in Accounts
      BY DEF Inv, TypeOK
    <3>3. CASE Fits(ks)
      BY <3>1, <3>2, <3>3, FailureStage DEF KeptExcept
    <3>4. CASE ~Fits(ks)
      <4>1. Cardinality(DOMAIN attempts \cup ks) \in Nat
        BY <3>2, LimitsFinite, FS_Union, FS_CardinalityType DEF Inv, CountersInv
      <4>2. Cardinality(DOMAIN attempts \cup ks) > MaxAttempts
        BY <3>4, <4>1, LoginGuardAssumption DEF Fits
      <4>3. QED
        BY <2>2, <4>2
    <3>5. QED
      BY <3>3, <3>4
  <2>3. ASSUME NEW h \in Handlers, Success(h)
        PROVE  Early(k)
    <3>1. CASE k \in {Ip(logins[h].source), Account(logins[h].account)}
      BY <2>3, <3>1
    <3>2. CASE k \notin {Ip(logins[h].source), Account(logins[h].account)}
      <4>1. k \in DOMAIN attempts' /\ attempts'[k] = attempts[k]
        BY <2>3, <3>2 DEF Success, Cleared, Without
      <4>2. QED
        BY <2>0, <4>1
    <3>3. QED
      BY <3>1, <3>2
  <2>4. ASSUME attempts' = attempts
        PROVE  Early(k)
    BY <2>0, <2>4
  <2>5. ASSUME NEW s \in Sources
        PROVE  Names[s] \subseteq Accounts
    BY LoginGuardAssumption
  <2>6. QED
    BY <2>1, <2>2, <2>3, <2>4, <2>5 DEF Next, Ban, Tick
<1>2. QED
  BY <1>1, Invariant, PTL DEF Spec, BlockKept

-----------------------------------------------------------------------------
(* SAMPLER                                                                 *)

-----------------------------------------------------------------------------
(* The invariant                                                           *)

\* Unless a line was lost, the file lacks at most the point that is about to be appended.
\* Unless a start has read a part of the file, the file has nothing that is not in memory
\* too, and not the point that is still to come.
HistoryInv ==
  /\ MetricsTypeOK
  /\ ~up => sampler = "idle"
  /\ sampler # "idle" => persisted
  /\ sampler = "append" => 0 \in history
  /\ up /\ ~lossy => Kept(history) = Kept(file.points) \cup (IF sampler = "append" THEN {0} ELSE {})
  /\ up /\ ~cut => /\ Kept(file.points) \subseteq history
                   /\ ~persisted \/ sampler = "append" => 0 \notin file.points

\* There is one goroutine that switches at most; it is younger than an hour, and its zone was
\* enabled when it was started.
SwitchInv ==
  /\ ProxyTypeOK
  /\ \A w \in worker : worker = {w}
  /\ worker # {} => lastAction \in 1 .. Hour
  /\ \A w \in worker : enabledAge[w.zone] < lastAction
  /\ \A z \in Zones : EnabledFor(cfg, z) => enabledAge[z] = 0

\* Where the configuration can always be saved, credentials never go away.
CredentialsInv ==
  "save" \notin setting.fails =>
    /\ saved = cfg
    /\ shown => cfg.cred
    /\ cfg.auto => Wanted(cfg)
    /\ \A p \in posts : p.auto => p.zone \in Zones /\ (p.key = "new" \/ cfg.cred)

SettingInv == setting \in Settings /\ mishaps \in 0 .. setting.mishaps

SamplerInv == HistoryInv /\ SwitchInv /\ CredentialsInv /\ SettingInv

-----------------------------------------------------------------------------
(* Steps *)

CheckedLoad ==
  /\ sampler = "proxy" /\ sampler' = "idle"
  /\ UNCHANGED <<up, minute, file, history, persisted, high, lossy, cut>>

\* What happens to the history.
HistoryStep ==
  \/ \E load \in BOOLEAN : CollectSample(load)
  \/ AppendLine \/ LoseLine \/ Compact(TRUE) \/ Compact(FALSE)
  \/ CheckedLoad
  \/ Stop
  \/ \E first \in 0 .. Keep + 1 : LoadMetricHistory(first)
  \/ NextMinute

\* Where the configuration can always be saved, it is.
Saved(ok) == ok \/ "save" \in setting.fails

\* What happens to the automatic proxying.
ProxyStep ==
  \/ \E p \in setting.posts : FromPage(p)
  \/ \E p \in posts, ok \in BOOLEAN : Configure(p, ok) /\ Saved(ok)
  \/ MaybeAutoOrangeCloud(high)
  \/ \E w \in worker : List(w) \/ (\E r \in w.todo : Patch(w, r)) \/ FailCall(w)
                     \/ \E r \in setting.refused : Refuse(w, r)
  \/ \E w \in worker, ok \in BOOLEAN : Report(w, ok) /\ Saved(ok)
  \/ \E z \in Zones, r \in Records : Unproxy(z, r)
  \/ ProxyStop \/ ProxyMinute

LEMMA StepIs ==
  ASSUME SettingInv, [SamplerNext]_samplerVars
  PROVE  /\ HistoryStep \/ UNCHANGED metricVars
         /\ ProxyStep \/ UNCHANGED proxyVars
         /\ SettingInv' /\ setting' = setting
<1>t. setting.mishaps \in Nat
  BY SamplerAssumption DEF SettingInv, Setting
<1>e. Mishap \/ UNCHANGED env => SettingInv' /\ setting' = setting
  BY <1>t DEF Mishap, env, SettingInv
<1>1. ASSUME NEW load \in BOOLEAN, Sample(load)
      PROVE  HistoryStep /\ UNCHANGED <<proxyVars, env>>
  BY <1>1 DEF Sample, HistoryStep
<1>2. ASSUME NEW ok \in BOOLEAN, WriteHistory(ok)
      PROVE  HistoryStep /\ UNCHANGED proxyVars /\ (Mishap \/ UNCHANGED env)
  BY <1>2 DEF WriteHistory, HistoryStep, Fails, Works
<1>3. ASSUME CheckLoad
      PROVE  HistoryStep /\ ProxyStep /\ UNCHANGED env
  BY <1>3 DEF CheckLoad, HistoryStep, CheckedLoad, ProxyStep
<1>4. ASSUME Request
      PROVE  ProxyStep /\ UNCHANGED metricVars /\ (Mishap \/ UNCHANGED env)
  <2>1. CASE \E p \in setting.posts : FromPage(p) /\ UNCHANGED env
    BY <1>4, <2>1 DEF Request, ProxyStep
  <2>2. CASE \E p \in posts, ok \in BOOLEAN : Configure(p, ok) /\ Works(ok, "save")
    BY <1>4, <2>2 DEF Request, ProxyStep, Saved, Works, Fails
  <2>3. QED
    BY <1>4, <2>1, <2>2 DEF Request
<1>5. ASSUME Switch
      PROVE  ProxyStep /\ UNCHANGED metricVars /\ (Mishap \/ UNCHANGED env)
  <2>1. PICK w \in worker :
          \/ List(w) /\ UNCHANGED env
          \/ \E r \in w.todo \ setting.refused : Patch(w, r) /\ UNCHANGED env
          \/ \E r \in setting.refused : Refuse(w, r) /\ UNCHANGED env
          \/ FailCall(w) /\ Fails("call")
          \/ \E ok \in BOOLEAN : Report(w, ok) /\ Works(ok, "save")
    BY <1>5 DEF Switch
  <2>2. CASE \E ok \in BOOLEAN : Report(w, ok) /\ Works(ok, "save")
    BY <1>5, <2>2 DEF Switch, ProxyStep, Saved, Works, Fails
  <2>3. CASE \/ List(w) /\ UNCHANGED env
             \/ \E r \in w.todo \ setting.refused : Patch(w, r) /\ UNCHANGED env
             \/ \E r \in setting.refused : Refuse(w, r) /\ UNCHANGED env
             \/ FailCall(w) /\ Fails("call")
    BY <1>5, <2>3 DEF Switch, ProxyStep, Fails
  <2>4. QED
    BY <2>1, <2>2, <2>3
<1>6. ASSUME TakeOff
      PROVE  ProxyStep /\ UNCHANGED metricVars /\ Mishap
  BY <1>6 DEF TakeOff, ProxyStep, Mishap
<1>7. ASSUME Crash
      PROVE  HistoryStep /\ ProxyStep /\ Mishap
  BY <1>7 DEF Crash, HistoryStep, ProxyStep
<1>8. ASSUME NEW first \in 0 .. Keep + 1, Start(first)
      PROVE  HistoryStep /\ UNCHANGED proxyVars /\ (Mishap \/ UNCHANGED env)
  BY <1>8 DEF Start, HistoryStep, Fails
<1>9. ASSUME Minute
      PROVE  HistoryStep /\ ProxyStep /\ UNCHANGED env
  BY <1>9 DEF Minute, HistoryStep, ProxyStep
<1>10. CASE UNCHANGED samplerVars
  BY <1>10, <1>e DEF samplerVars, metricVars
<1>11. CASE SamplerNext
  BY <1>11, <1>e, <1>1, <1>2, <1>3, <1>4, <1>5, <1>6, <1>7, <1>8, <1>9 DEF SamplerNext, metricVars, env
<1>12. QED
  BY <1>10, <1>11

-----------------------------------------------------------------------------
(* The history *)

LEMMA KeptOlder ==
  ASSUME NEW points \in SUBSET Ages
  PROVE  /\ Older(points) \subseteq Ages /\ 0 \notin Older(points)
         /\ \A b \in Ages : b \in Kept(Older(points)) <=> b # 0 /\ b <= Keep /\ b - 1 \in Kept(points)
<1>1. Keep \in Nat
  BY MetricsAssumption
<1>2. \A a \in points : a \in 0 .. Keep + 1
  BY DEF Ages
<1>3. Older(points) \subseteq Ages /\ 0 \notin Older(points)
  BY <1>1, <1>2 DEF Older, Ages
<1>4. ASSUME NEW b \in Ages, b \in Kept(Older(points))
      PROVE  b # 0 /\ b <= Keep /\ b - 1 \in Kept(points)
  BY <1>1, <1>2, <1>4 DEF Older, Kept, Ages
<1>5. ASSUME NEW b \in Ages, b # 0, b <= Keep, b - 1 \in Kept(points)
      PROVE  b \in Kept(Older(points))
  <2>1. b = (b - 1) + 1 /\ b - 1 <= Keep /\ b - 1 \in points
    BY <1>1, <1>5 DEF Ages, Kept
  <2>2. b \in Older(points)
    <3>1. (IF b - 1 > Keep THEN b - 1 ELSE (b - 1) + 1) = b
      BY <1>1, <2>1, <1>2
    <3>2. QED
      BY <2>1, <3>1 DEF Older
  <2>3. QED
    BY <1>5, <2>2 DEF Kept
<1>6. QED
  BY <1>3, <1>4, <1>5

\* At the start no minute is sampled yet.
LEMMA HistoryStarts == SamplerInit => HistoryInv
<1> SUFFICES ASSUME SamplerInit
             PROVE  HistoryInv
  OBVIOUS
<1>1. /\ up = TRUE /\ minute = 0 /\ history = {} /\ persisted = FALSE /\ sampler = "idle"
      /\ high = FALSE /\ lossy = FALSE /\ cut = FALSE /\ file = [points |-> {}, torn |-> FALSE]
  BY DEF SamplerInit, MetricsInit
<1>2. 0 \in 0 .. Day - 1
  BY MetricsAssumption
<1>3. MetricsTypeOK
  BY <1>1, <1>2 DEF MetricsTypeOK
<1>4. Kept({}) = {} /\ file.points = {}
  BY <1>1 DEF Kept
<1>5. QED
  BY <1>1, <1>3, <1>4 DEF HistoryInv

\* A step of the history keeps its points in their order.
LEMMA HistoryStepKeeps == HistoryInv /\ HistoryStep => HistoryInv'
<1> SUFFICES ASSUME HistoryInv, HistoryStep
             PROVE  HistoryInv'
  OBVIOUS
<1> USE DEF HistoryInv
<1>t. /\ Keep \in Nat /\ Day \in Nat \ {0, 1} /\ 0 \in Ages
      /\ up \in BOOLEAN /\ persisted \in BOOLEAN /\ lossy \in BOOLEAN /\ cut \in BOOLEAN /\ high \in BOOLEAN
      /\ minute \in 0 .. Day - 1 /\ history \subseteq Ages
      /\ file.points \subseteq Ages /\ file.torn \in BOOLEAN /\ file = [points |-> file.points, torn |-> file.torn]
      /\ sampler \in {"idle", "append", "compact", "proxy"}
  BY MetricsAssumption DEF MetricsTypeOK, Ages
<1>0. Kept({0}) = {0}
  BY <1>t DEF Kept
<1>1. ASSUME NEW load \in BOOLEAN, CollectSample(load)
      PROVE  HistoryInv'
  <2>1. MetricsTypeOK'
    BY <1>1, <1>t DEF CollectSample, Collected, MetricsTypeOK, Kept, Ages
  <2>2. Kept(Collected) = Kept(history) \cup {0}
    BY <1>t DEF Collected, Kept
  <2>3. QED
    BY <1>1, <1>t, <2>1, <2>2 DEF CollectSample, Collected, Kept
<1>2. CASE AppendLine
  <2>1. MetricsTypeOK'
    BY <1>2, <1>t DEF AppendLine, AfterAppend, MetricsTypeOK
  <2>2. Kept(file.points \cup {0}) = Kept(file.points) \cup {0}
    BY <1>t DEF Kept
  <2>3. file'.points = IF file.torn THEN file.points ELSE file.points \cup {0}
    BY <1>2 DEF AppendLine
  <2>4. QED
    BY <1>2, <1>t, <2>1, <2>2, <2>3 DEF AppendLine, AfterAppend
<1>3. CASE LoseLine
  <2>1. file' \in [points : SUBSET Ages, torn : BOOLEAN] /\ file'.points = file.points
    <3>1. CASE file' = file
      BY <1>t, <3>1
    <3>2. CASE file' = [file EXCEPT !.torn = TRUE]
      BY <1>t, <3>2
    <3>3. QED
      BY <1>3, <3>1, <3>2 DEF LoseLine
  <2>2. MetricsTypeOK'
    BY <1>3, <1>t, <2>1 DEF LoseLine, AfterAppend, MetricsTypeOK
  <2>3. QED
    BY <1>3, <1>t, <2>1, <2>2 DEF LoseLine, AfterAppend
<1>4. CASE Compact(TRUE)
  <2>1. MetricsTypeOK' /\ file'.points = history
    BY <1>4, <1>t DEF Compact, MetricsTypeOK
  <2>2. QED
    BY <1>4, <1>t, <2>1 DEF Compact, Kept
<1>5. CASE Compact(FALSE)
  <2>1. MetricsTypeOK' /\ file' = file /\ lossy' = lossy
    BY <1>5, <1>t DEF Compact, MetricsTypeOK
  <2>2. QED
    BY <1>5, <1>t, <2>1 DEF Compact
<1>6. CASE CheckedLoad
  <2>1. MetricsTypeOK'
    BY <1>6, <1>t DEF CheckedLoad, MetricsTypeOK
  <2>2. QED
    BY <1>6, <1>t, <2>1 DEF CheckedLoad
<1>7. CASE Stop
  <2>1. file' \in [points : SUBSET Ages, torn : BOOLEAN]
    <3>1. CASE file' = file
      BY <1>t, <3>1
    <3>2. CASE file' = [file EXCEPT !.torn = TRUE]
      BY <1>t, <3>2
    <3>3. QED
      BY <1>7, <3>1, <3>2 DEF Stop
  <2>2. MetricsTypeOK'
    BY <1>7, <1>t, <2>1 DEF Stop, MetricsTypeOK
  <2>3. QED
    BY <1>7, <2>2 DEF Stop
<1>8. ASSUME NEW first \in 0 .. Keep + 1, LoadMetricHistory(first)
      PROVE  HistoryInv'
  <2>1. MetricsTypeOK'
    BY <1>8, <1>t DEF LoadMetricHistory, LastPersisted, MetricsTypeOK, Kept
  <2>2. Kept(history') = history'
    BY <1>8 DEF LoadMetricHistory, Kept
  <2>3. 0 \in Kept(file.points) <=> 0 \in file.points
    BY <1>t DEF Kept
  <2>4. QED
    BY <1>8, <1>t, <2>1, <2>2, <2>3 DEF LoadMetricHistory, LastPersisted
<1>9. CASE NextMinute
  <2>1. history' = Older(history) /\ file'.points = Older(file.points) /\ file' \in [points : SUBSET Ages, torn : BOOLEAN]
    BY <1>9, <1>t, KeptOlder DEF NextMinute
  <2>2. MetricsTypeOK'
    <3>1. (minute + 1) % Day \in 0 .. Day - 1
      BY <1>t
    <3>2. QED
      BY <1>9, <1>t, <2>1, <3>1, KeptOlder DEF NextMinute, MetricsTypeOK
  <2>3. 0 \notin file'.points
    BY <1>t, <2>1, KeptOlder
  <2>4. \A points \in SUBSET Ages : Kept(points) \subseteq Ages
    BY DEF Kept
  <2>5. sampler # "append"
    BY <1>9 DEF NextMinute
  <2>6. up /\ ~lossy => Kept(history') = Kept(file'.points)
    BY <1>t, <2>1, <2>2, <2>4, <2>5, KeptOlder DEF MetricsTypeOK
  <2>7. up /\ ~cut => Kept(file'.points) \subseteq history'
    <3>1. SUFFICES ASSUME up, ~cut, NEW b \in Kept(file'.points)
                   PROVE  b \in Kept(history')
      BY DEF Kept
    <3>2. b \in Ages /\ b # 0 /\ b <= Keep /\ b - 1 \in Kept(file.points)
      BY <1>t, <2>1, <2>4, <3>1, KeptOlder
    <3>3. b - 1 \in Kept(history)
      BY <3>1, <3>2 DEF Kept
    <3>4. QED
      BY <1>t, <2>1, <3>2, <3>3, KeptOlder
  <2>8. QED
    BY <1>9, <1>t, <2>2, <2>3, <2>5, <2>6, <2>7 DEF NextMinute
<1>10. QED
  BY <1>1, <1>2, <1>3, <1>4, <1>5, <1>6, <1>7, <1>8, <1>9 DEF HistoryStep

-----------------------------------------------------------------------------
(* Automatic proxying *)

LEMMA OneOrNone ==
  ASSUME NEW S, S = {} \/ \E x : S = {x}
  PROVE  Cardinality(S) <= 1
<1>1. CASE S = {}
  BY <1>1, FS_EmptySet
<1>2. ASSUME NEW x, S = {x}
      PROVE  Cardinality(S) <= 1
  <2>1. Cardinality({x}) = 1
    BY FS_Singleton, Zenon
  <2>2. QED
    BY <1>2, <2>1
<1>3. QED
  BY <1>1, <1>2

\* At the start nothing was switched.
LEMMA SwitchStarts == SamplerInit => SwitchInv
<1> SUFFICES ASSUME SamplerInit
             PROVE  SwitchInv
  OBVIOUS
<1>1. /\ cfg = Installed /\ saved = cfg /\ posts = {} /\ highSince = 0 /\ lastAction = 0 /\ worker = {}
      /\ proxied = [z \in Zones |-> {}] /\ enabledAge = [z \in Zones |-> Hour + 1] /\ shown = FALSE
  BY DEF SamplerInit, ProxyInit
<1>2. cfg \in Config /\ \A z \in Zones : ~EnabledFor(cfg, z)
  BY <1>1 DEF Installed, Config, EnabledFor
<1>3. Cardinality(worker) <= 1
  BY <1>1, FS_EmptySet
<1>4. highSince \in 0 .. Sustain + 1 /\ lastAction \in 0 .. Hour + 1 /\ Hour + 1 \in 0 .. Hour + 1
  BY <1>1, CloudflareAssumption
<1>5. enabledAge \in [Zones -> 0 .. Hour + 1] /\ proxied \in [Zones -> SUBSET Records]
  BY <1>1, <1>4
<1>6. ProxyTypeOK
  BY <1>1, <1>2, <1>3, <1>4, <1>5 DEF ProxyTypeOK
<1>7. QED
  BY <1>1, <1>2, <1>6 DEF SwitchInv

\* Where the configuration becomes c, the zone that it enables is as young as can be.
LEMMA Ages0 ==
  ASSUME SwitchInv, NEW c \in Config, NEW ages \in [Zones -> 0 .. Hour + 1]
  PROVE  /\ EnabledAges(c, ages) \in [Zones -> 0 .. Hour + 1]
         /\ \A z \in Zones : EnabledAges(c, ages)[z] <= ages[z]
         /\ \A z \in Zones : EnabledFor(c, z) => EnabledAges(c, ages)[z] = 0
BY CloudflareAssumption DEF EnabledAges

LEMMA SaveKeeps ==
  ASSUME SwitchInv, NEW c \in Config, NEW ok \in BOOLEAN, Save(c, ok),
         worker' \subseteq worker, proxied' = proxied, highSince' = highSince, lastAction' = lastAction,
         posts' \subseteq Post
  PROVE  SwitchInv'
<1>1. enabledAge' = EnabledAges(c, enabledAge) /\ enabledAge \in [Zones -> 0 .. Hour + 1] /\ cfg' = c
  BY DEF Save, SwitchInv, ProxyTypeOK
<1>2. saved' \in Config /\ shown' \in BOOLEAN
  BY DEF Save, SwitchInv, ProxyTypeOK, Config
<1>3. worker' \subseteq Worker /\ (worker' = {} \/ worker' = worker)
  BY DEF SwitchInv, ProxyTypeOK
<1>4. Cardinality(worker') <= 1
  <2>1. CASE worker' = {}
    BY <2>1, OneOrNone
  <2>2. CASE worker' = worker
    BY <2>2 DEF SwitchInv, ProxyTypeOK
  <2>3. QED
    BY <1>3, <2>1, <2>2
<1>5. ProxyTypeOK'
  BY <1>1, <1>2, <1>3, <1>4, Ages0 DEF ProxyTypeOK, SwitchInv
<1>6. \A w \in worker' : enabledAge'[w.zone] < lastAction'
  <2>1. SUFFICES ASSUME NEW w \in worker'
                 PROVE  enabledAge'[w.zone] < lastAction
    OBVIOUS
  <2>2. w \in worker /\ w.zone \in Zones
    BY <1>3 DEF Worker
  <2>3. enabledAge'[w.zone] <= enabledAge[w.zone] /\ enabledAge[w.zone] < lastAction
    BY <1>1, <2>2, Ages0 DEF SwitchInv
  <2>4. /\ enabledAge'[w.zone] \in 0 .. Hour + 1 /\ enabledAge[w.zone] \in 0 .. Hour + 1
        /\ lastAction \in 0 .. Hour + 1 /\ Hour \in Nat
    BY <1>1, <2>2, Ages0, CloudflareAssumption DEF SwitchInv, ProxyTypeOK
  <2>5. QED
    BY <2>3, <2>4
<1>7. \A z \in Zones : EnabledFor(cfg', z) => enabledAge'[z] = 0
  BY <1>1, Ages0
<1>8. QED
  BY <1>3, <1>5, <1>6, <1>7 DEF SwitchInv, EnabledFor

\* The goroutine goes on in its zone.
LEMMA WorkerGoes ==
  ASSUME SwitchInv, NEW w \in worker, NEW next \in Worker, next.zone = w.zone, Proceed(w, next),
         proxied' \in [Zones -> SUBSET Records],
         UNCHANGED <<cfg, saved, posts, highSince, lastAction, enabledAge, shown>>
  PROVE  SwitchInv'
<1> DEFINE there == IF next.step = "patch" /\ next.todo = {} THEN [next EXCEPT !.step = "report"] ELSE next
<1>1. there \in Worker /\ there.zone = w.zone
  BY DEF Worker
<1>2. worker' = {there}
  BY DEF SwitchInv, Proceed
<1>3. Cardinality(worker') <= 1
  BY <1>2, OneOrNone
<1>4. ProxyTypeOK'
  BY <1>1, <1>2, <1>3 DEF ProxyTypeOK, SwitchInv
<1>5. QED
  BY <1>1, <1>2, <1>4 DEF SwitchInv, EnabledFor

LEMMA AttemptKeeps == SwitchInv /\ MaybeAutoOrangeCloud(high) => SwitchInv'
<1> SUFFICES ASSUME SwitchInv, MaybeAutoOrangeCloud(high)
             PROVE  SwitchInv'
  OBVIOUS
<1>t. /\ lastAction \in 0 .. Hour + 1 /\ highSince \in 0 .. Sustain + 1 /\ Hour \in Nat \ {0} /\ Sustain \in Nat \ {0}
      /\ worker \subseteq Worker
  BY CloudflareAssumption DEF SwitchInv, ProxyTypeOK
<1>1. UNCHANGED <<cfg, saved, posts, proxied, enabledAge, shown>>
  BY DEF MaybeAutoOrangeCloud
<1>2. highSince' \in 0 .. Sustain + 1
  BY <1>t DEF MaybeAutoOrangeCloud
<1>3. CASE UNCHANGED <<lastAction, worker>>
  BY <1>1, <1>2, <1>3 DEF SwitchInv, ProxyTypeOK, EnabledFor
<1>4. ASSUME Wanted(cfg), Due, lastAction' = 1,
             worker' = worker \cup {[zone |-> cfg.zone, step |-> "list", todo |-> {}, ok |-> TRUE]}
      PROVE  SwitchInv'
  <2>1. PICK z \in Zones : EnabledFor(cfg, z)
    BY <1>4 DEF Wanted
  <2>2. cfg.zone = z /\ enabledAge[z] = 0
    BY <2>1 DEF EnabledFor, SwitchInv
  <2>3. worker = {}
    BY <1>4, <1>t DEF Due, SwitchInv
  <2>4. worker' = {[zone |-> z, step |-> "list", todo |-> {}, ok |-> TRUE]}
    BY <1>4, <2>2, <2>3
  <2>5. Cardinality(worker') <= 1 /\ worker' \subseteq Worker
    <3>1. Cardinality(worker') <= 1
      BY <2>4, OneOrNone
    <3>2. QED
      BY <2>4, <3>1 DEF Worker
  <2>6. ProxyTypeOK'
    BY <1>1, <1>2, <1>4, <1>t, <2>5 DEF ProxyTypeOK, SwitchInv
  <2>7. /\ \A w \in worker' : worker' = {w} /\ enabledAge[w.zone] < 1
        /\ \A x \in Zones : EnabledFor(cfg, x) => enabledAge[x] = 0
    BY <2>2, <2>4 DEF SwitchInv
  <2>8. 1 \in 1 .. Hour
    BY <1>t
  <2>9. QED
    BY <1>1, <1>4, <2>6, <2>7, <2>8 DEF SwitchInv, EnabledFor
<1>5. QED
  BY <1>3, <1>4 DEF MaybeAutoOrangeCloud

LEMMA ProxyMinuteKeeps == SwitchInv /\ ProxyMinute => SwitchInv'
<1> SUFFICES ASSUME SwitchInv, ProxyMinute
             PROVE  SwitchInv'
  OBVIOUS
<1> DEFINE ages == [z \in Zones |-> AnHourMore(enabledAge[z])]
<1>t. /\ lastAction \in 0 .. Hour + 1 /\ highSince \in 0 .. Sustain + 1 /\ Hour \in Nat \ {0} /\ Sustain \in Nat \ {0}
      /\ worker \subseteq Worker /\ cfg \in Config /\ enabledAge \in [Zones -> 0 .. Hour + 1]
  BY CloudflareAssumption DEF SwitchInv, ProxyTypeOK
<1>1. UNCHANGED <<cfg, saved, posts, worker, proxied, shown>> /\ enabledAge' = EnabledAges(cfg, ages)
  BY DEF ProxyMinute
<1>2. highSince' \in 0 .. Sustain + 1 /\ lastAction' \in 0 .. Hour + 1
  BY <1>t DEF ProxyMinute, AnHourMore
<1>3. ages \in [Zones -> 0 .. Hour + 1] /\ \A z \in Zones : ages[z] <= enabledAge[z] + 1
  BY <1>t DEF AnHourMore
<1>4. worker # {} => lastAction' = lastAction + 1 /\ lastAction' \in 1 .. Hour
  BY <1>t DEF ProxyMinute, AnHourMore, SwitchInv
<1>5. ProxyTypeOK'
  BY <1>1, <1>2, <1>3, <1>t, Ages0 DEF ProxyTypeOK, SwitchInv
<1>6. ASSUME NEW w \in worker
      PROVE  enabledAge'[w.zone] < lastAction'
  <2>1. w.zone \in Zones
    BY <1>t DEF Worker
  <2>2. enabledAge'[w.zone] <= ages[w.zone] /\ ages[w.zone] <= enabledAge[w.zone] + 1 /\ enabledAge[w.zone] < lastAction
    BY <1>1, <1>3, <1>t, <2>1, Ages0 DEF SwitchInv
  <2>3. enabledAge'[w.zone] \in 0 .. Hour + 1 /\ ages[w.zone] \in 0 .. Hour + 1 /\ enabledAge[w.zone] \in 0 .. Hour + 1
    BY <1>1, <1>3, <1>t, <2>1, Ages0
  <2>4. QED
    BY <1>4, <1>t, <2>2, <2>3
<1>7. \A z \in Zones : EnabledFor(cfg, z) => enabledAge'[z] = 0
  BY <1>1, <1>3, <1>t, Ages0
<1>8. QED
  BY <1>1, <1>4, <1>5, <1>6, <1>7 DEF SwitchInv, EnabledFor

LEMMA SwitchStepKeeps == SettingInv /\ SwitchInv /\ ProxyStep => SwitchInv'
<1> SUFFICES ASSUME SettingInv, SwitchInv, ProxyStep
             PROVE  SwitchInv'
  OBVIOUS
<1>t. /\ cfg \in Config /\ saved \in Config /\ posts \subseteq Post /\ setting.posts \subseteq Post
      /\ worker \subseteq Worker /\ proxied \in [Zones -> SUBSET Records]
      /\ enabledAge \in [Zones -> 0 .. Hour + 1]
  BY SamplerAssumption DEF SettingInv, Setting, SwitchInv, ProxyTypeOK
<1>1. ASSUME NEW p \in setting.posts, FromPage(p)
      PROVE  SwitchInv'
  <2>1. posts' \subseteq Post
    BY <1>1, <1>t DEF FromPage, CheckPost
  <2>2. QED
    BY <1>1, <2>1 DEF FromPage, CheckPost, SwitchInv, ProxyTypeOK, EnabledFor
<1>2. ASSUME NEW p \in posts, NEW ok \in BOOLEAN, Configure(p, ok)
      PROVE  SwitchInv'
  <2>1. Configured(p) \in Config
    BY <1>t DEF Configured, Config, Post
  <2>2. QED
    BY <1>2, <1>t, <2>1, SaveKeeps DEF Configure
<1>3. CASE MaybeAutoOrangeCloud(high)
  BY <1>3, AttemptKeeps
<1>4. ASSUME NEW w \in worker, List(w)
      PROVE  SwitchInv'
  <2>1. [w EXCEPT !.step = "patch", !.todo = Page[w.zone] \ proxied[w.zone]] \in Worker
    BY <1>t, CloudflareAssumption DEF Worker
  <2>2. [w EXCEPT !.step = "patch", !.todo = Page[w.zone] \ proxied[w.zone]].zone = w.zone
    BY <1>t DEF Worker
  <2>3. QED
    BY <1>4, <1>t, <2>1, <2>2, WorkerGoes DEF List
<1>5. ASSUME NEW w \in worker, NEW r \in w.todo, Patch(w, r)
      PROVE  SwitchInv'
  <2>1. [w EXCEPT !.todo = @ \ {r}] \in Worker /\ [w EXCEPT !.todo = @ \ {r}].zone = w.zone /\ r \in Records
    BY <1>t DEF Worker
  <2>2. proxied' \in [Zones -> SUBSET Records]
    BY <1>5, <1>t, <2>1 DEF Patch, PatchedZone
  <2>3. QED
    BY <1>5, <2>1, <2>2, WorkerGoes DEF Patch
<1>6. ASSUME NEW w \in worker, FailCall(w)
      PROVE  SwitchInv'
  <2>1. [w EXCEPT !.step = "report", !.ok = FALSE] \in Worker /\ [w EXCEPT !.step = "report", !.ok = FALSE].zone = w.zone
        /\ w.todo \subseteq Records
    BY <1>t DEF Worker
  <2>2. proxied' \in [Zones -> SUBSET Records]
    BY <1>6, <1>t, <2>1 DEF FailCall, PatchedZone
  <2>3. QED
    BY <1>6, <2>1, <2>2, WorkerGoes DEF FailCall
<1>r. ASSUME NEW w \in worker, NEW r \in setting.refused, Refuse(w, r)
      PROVE  SwitchInv'
  <2>1. [w EXCEPT !.step = "report", !.ok = FALSE] \in Worker /\ [w EXCEPT !.step = "report", !.ok = FALSE].zone = w.zone
    BY <1>t DEF Worker
  <2>2. proxied' \in [Zones -> SUBSET Records]
    BY <1>r, <1>t DEF Refuse
  <2>3. QED
    BY <1>r, <2>1, <2>2, WorkerGoes DEF Refuse
<1>7. ASSUME NEW w \in worker, NEW ok \in BOOLEAN, Report(w, ok)
      PROVE  SwitchInv'
  <2>1. [cfg EXCEPT !.result = IF w.ok THEN "switched" ELSE "error"] \in Config
    BY <1>t DEF Config
  <2>2. QED
    BY <1>7, <1>t, <2>1, SaveKeeps DEF Report
<1>8. ASSUME NEW z \in Zones, NEW r \in Records, Unproxy(z, r)
      PROVE  SwitchInv'
  <2>1. proxied' \in [Zones -> SUBSET Records]
    BY <1>8, <1>t DEF Unproxy
  <2>2. QED
    BY <1>8, <2>1 DEF Unproxy, SwitchInv, ProxyTypeOK, EnabledFor
<1>9. CASE ProxyStop
  <2>1. cfg' = saved /\ enabledAge' = EnabledAges(saved, enabledAge) /\ worker' = {} /\ saved' = saved
    BY <1>9 DEF ProxyStop
  <2>2. Cardinality(worker') <= 1
    BY <2>1, FS_EmptySet
  <2>3. 0 \in 0 .. Sustain + 1 /\ 0 \in 0 .. Hour + 1
    BY CloudflareAssumption
  <2>4. ProxyTypeOK'
    BY <1>9, <1>t, <2>1, <2>2, <2>3, Ages0 DEF ProxyStop, ProxyTypeOK, SwitchInv
  <2>5. \A z \in Zones : EnabledFor(cfg', z) => enabledAge'[z] = 0
    BY <1>t, <2>1, Ages0
  <2>6. QED
    BY <2>1, <2>4, <2>5 DEF SwitchInv, EnabledFor
<1>10. CASE ProxyMinute
  BY <1>10, ProxyMinuteKeeps
<1>11. QED
  BY <1>1, <1>2, <1>3, <1>4, <1>5, <1>6, <1>r, <1>7, <1>8, <1>9, <1>10 DEF ProxyStep

-----------------------------------------------------------------------------
(* Credentials *)

\* At the start no credentials are shown.
LEMMA CredentialsStart == SamplerInit => CredentialsInv
BY DEF SamplerInit, ProxyInit, Installed, CredentialsInv

\* Every step keeps the credentials that are shown, where saves succeed.
LEMMA CredentialsKept ==
  SettingInv /\ SwitchInv /\ CredentialsInv /\ setting' = setting /\ (ProxyStep \/ UNCHANGED proxyVars) => CredentialsInv'
<1> SUFFICES ASSUME SettingInv, SwitchInv, CredentialsInv, setting' = setting, ProxyStep \/ UNCHANGED proxyVars,
                    "save" \notin setting.fails
             PROVE  CredentialsInv'
  BY DEF CredentialsInv
<1>t. /\ cfg \in Config /\ saved \in Config /\ posts \subseteq Post /\ setting.posts \subseteq Post
  BY SamplerAssumption DEF SettingInv, Setting, SwitchInv, ProxyTypeOK
<1>1. /\ saved = cfg
      /\ shown => cfg.cred
      /\ cfg.auto => Wanted(cfg)
      /\ \A p \in posts : p.auto => p.zone \in Zones /\ (p.key = "new" \/ cfg.cred)
  BY DEF CredentialsInv
<1>2. CASE UNCHANGED <<cfg, saved, posts, shown>>
  BY <1>1, <1>2 DEF CredentialsInv, Wanted, EnabledFor
<1>3. ASSUME NEW p \in setting.posts, FromPage(p)
      PROVE  CredentialsInv'
  <2>1. UNCHANGED <<cfg, saved, shown>> /\ posts' = posts \cup {p} /\ p \in Post
    BY <1>3, <1>t DEF FromPage, CheckPost
  <2>2. p.auto => p.zone \in Zones /\ (p.key = "new" \/ cfg.cred)
    BY <1>1, <1>3, <2>1 DEF FromPage, CheckPost, Post
  <2>3. QED
    BY <1>1, <2>1, <2>2 DEF CredentialsInv, Wanted, EnabledFor
<1>4. ASSUME NEW p \in posts, NEW ok \in BOOLEAN, Configure(p, ok), Saved(ok)
      PROVE  CredentialsInv'
  <2> DEFINE c == Configured(p)
  <2>1. cfg' = c /\ saved' = c /\ posts' = posts \ {p} /\ shown' = (shown \/ c.cred)
    BY <1>4 DEF Configure, Save, Saved
  <2>2. /\ c.auto = p.auto /\ c.zone = p.zone
        /\ cfg.cred \/ p.key = "new" => c.cred
    BY <1>t DEF Configured, Config
  <2>3. c.auto => Wanted(c)
    <3>1. c.auto => p.zone \in Zones /\ c.cred
      BY <1>1, <2>2
    <3>2. QED
      BY <2>2, <3>1 DEF Wanted, EnabledFor
  <2>4. shown' => c.cred
    BY <1>1, <2>1, <2>2
  <2>5. \A o \in posts' : o.auto => o.zone \in Zones /\ (o.key = "new" \/ c.cred)
    BY <1>1, <2>1, <2>2
  <2>6. QED
    BY <2>1, <2>3, <2>4, <2>5 DEF CredentialsInv, Wanted, EnabledFor
<1>5. ASSUME NEW w \in worker, NEW ok \in BOOLEAN, Report(w, ok), Saved(ok)
      PROVE  CredentialsInv'
  <2> DEFINE c == [cfg EXCEPT !.result = IF w.ok THEN "switched" ELSE "error"]
  <2>1. cfg' = c /\ saved' = c /\ posts' = posts /\ shown' = (shown \/ c.cred)
    BY <1>5 DEF Report, Save, Saved
  <2>2. c.auto = cfg.auto /\ c.zone = cfg.zone /\ c.cred = cfg.cred
    BY <1>t DEF Config
  <2>3. QED
    BY <1>1, <2>1, <2>2 DEF CredentialsInv, Wanted, EnabledFor
<1>6. CASE ProxyStop
  <2>1. cfg' = cfg /\ saved' = cfg /\ posts' = {} /\ shown' = shown
    BY <1>1, <1>6 DEF ProxyStop
  <2>2. QED
    BY <1>1, <2>1 DEF CredentialsInv, Wanted, EnabledFor
<1>7. CASE \/ UNCHANGED proxyVars \/ MaybeAutoOrangeCloud(high) \/ ProxyMinute
           \/ \E w \in worker : List(w) \/ (\E r \in w.todo : Patch(w, r)) \/ FailCall(w)
                              \/ \E r \in setting.refused : Refuse(w, r)
           \/ \E z \in Zones, r \in Records : Unproxy(z, r)
  BY <1>2, <1>7 DEF proxyVars, MaybeAutoOrangeCloud, ProxyMinute, List, Patch, FailCall, Refuse, Unproxy
<1>8. QED
  BY <1>3, <1>4, <1>5, <1>6, <1>7 DEF ProxyStep

-----------------------------------------------------------------------------
(* What follows for the history and for the proxies *)

\* The types; what the file of the history can lack or have too much; and that the goroutine that
\* switches is younger than an hour, and that its zone was enabled when it was started.
THEOREM SamplerInvariant == SamplerSpec => []SamplerInv
<1>1. SamplerInit => SamplerInv
  <2>1. SamplerInit => SettingInv
    BY SamplerAssumption DEF SamplerInit, SettingInv, Setting
  <2>2. QED
    BY <2>1, HistoryStarts, SwitchStarts, CredentialsStart DEF SamplerInv
<1>2. SamplerInv /\ [SamplerNext]_samplerVars => SamplerInv'
  <2> SUFFICES ASSUME SamplerInv, [SamplerNext]_samplerVars
               PROVE  SamplerInv'
    OBVIOUS
  <2>1. /\ HistoryStep \/ UNCHANGED metricVars
        /\ ProxyStep \/ UNCHANGED proxyVars
        /\ SettingInv' /\ setting' = setting
    BY StepIs DEF SamplerInv
  <2>2. HistoryInv'
    <3>1. CASE UNCHANGED metricVars
      BY <3>1 DEF SamplerInv, HistoryInv, MetricsTypeOK, metricVars
    <3>2. QED
      BY <2>1, <3>1, HistoryStepKeeps DEF SamplerInv
  <2>3. SwitchInv'
    <3>1. CASE UNCHANGED proxyVars
      BY <3>1 DEF SamplerInv, SwitchInv, ProxyTypeOK, proxyVars, EnabledFor
    <3>2. QED
      BY <2>1, <3>1, SwitchStepKeeps DEF SamplerInv
  <2>4. CredentialsInv'
    BY <2>1, CredentialsKept DEF SamplerInv
  <2>5. QED
    BY <2>1, <2>2, <2>3, <2>4 DEF SamplerInv
<1>3. QED
  BY <1>1, <1>2, PTL DEF SamplerSpec

\* Between samples the file has the points that are in memory, unless a line was lost; and where
\* the configuration can always be saved, one that is enabled has a zone and credentials.
THEOREM SamplersConsistent == SamplerSpec => []SamplerConsistent
<1>1. SamplerInv => SamplerConsistent
  <2> SUFFICES ASSUME SamplerInv
               PROVE  SamplerConsistent
    OBVIOUS
  <2>1. SamplerTypeOK
    BY DEF SamplerInv, SamplerTypeOK, HistoryInv, SwitchInv, SettingInv
  <2>2. HistoryOnFile
    BY DEF SamplerInv, HistoryInv, HistoryOnFile
  <2>3. EnabledIsUsable
    BY DEF SamplerInv, CredentialsInv, EnabledIsUsable
  <2>4. QED
    BY <2>1, <2>2, <2>3 DEF SamplerConsistent
<1>2. QED
  BY <1>1, SamplerInvariant, PTL

\* Short of time passing, a point of the last thirty days never leaves the file, and the point of a
\* minute is never written twice, unless a start has read only a part of the file.
THEOREM PointsKept == SamplerSpec => HistoryKept
<1>1. ASSUME SamplerInv, [SamplerNext]_samplerVars, ~cut, minute' = minute
      PROVE  Kept(file.points) \subseteq file'.points
  <2>t. /\ minute \in 0 .. Day - 1 /\ Day \in Nat \ {0, 1}
        /\ file = [points |-> file.points, torn |-> file.torn]
    BY <1>1, MetricsAssumption DEF SamplerInv, HistoryInv, MetricsTypeOK
  <2>1. HistoryStep \/ UNCHANGED metricVars
    BY <1>1, StepIs DEF SamplerInv
  <2>2. ~NextMinute
    <3>1. minute + 1 = Day \/ minute + 1 \in 0 .. Day - 1
      BY <2>t
    <3>2. (minute + 1) % Day # minute
      BY <2>t, <3>1
    <3>3. QED
      BY <1>1, <3>2 DEF NextMinute
  <2>3. CASE AppendLine
    BY <2>3 DEF AppendLine, Kept
  <2>4. CASE LoseLine \/ Stop
    <3>1. file' = file \/ file' = [file EXCEPT !.torn = TRUE]
      BY <2>4 DEF LoseLine, Stop
    <3>2. file'.points = file.points
      BY <2>t, <3>1
    <3>3. QED
      BY <3>2 DEF Kept
  <2>5. CASE Compact(TRUE)
    <3>1. file'.points = history /\ up
      BY <1>1, <2>5 DEF Compact, SamplerInv, HistoryInv
    <3>2. QED
      BY <1>1, <3>1 DEF SamplerInv, HistoryInv
  <2>6. CASE file' = file
    BY <2>6 DEF Kept
  <2>7. QED
    BY <2>1, <2>2, <2>3, <2>4, <2>5, <2>6 DEF HistoryStep, CollectSample, Compact, CheckedLoad, LoadMetricHistory, metricVars
<1>2. ASSUME SamplerInv, ~cut, sampler = "append"
      PROVE  0 \notin file.points
  BY <1>2 DEF SamplerInv, HistoryInv
<1>3. SamplerInv /\ [SamplerNext]_samplerVars =>
        (~cut => /\ minute' = minute => Kept(file.points) \subseteq file'.points
                 /\ sampler = "append" /\ sampler' # "append" /\ up' => 0 \notin file.points)
  BY <1>1, <1>2
<1>4. QED
  BY <1>3, SamplerInvariant, PTL DEF HistoryKept, SamplerSpec

\* The panel turns on the proxy of a record only in a zone for which automatic proxying was enabled
\* within the last hour.
THEOREM SwitchesWhereEnabled == SamplerSpec => OnlyWhereEnabled
<1>1. ASSUME SamplerInv, [SamplerNext]_samplerVars, NEW z \in Zones, proxied'[z] \ proxied[z] # {}
      PROVE  enabledAge[z] < Hour
  <2>t. /\ proxied \in [Zones -> SUBSET Records] /\ worker \subseteq Worker /\ SwitchInv
        /\ enabledAge \in [Zones -> 0 .. Hour + 1] /\ Hour \in Nat
    BY <1>1, CloudflareAssumption DEF SamplerInv, SwitchInv, ProxyTypeOK
  <2>1. ProxyStep /\ proxied' # proxied
    BY <1>1, StepIs DEF SamplerInv, proxyVars
  <2>2. ~\E x \in Zones, r \in Records : Unproxy(x, r)
    BY <1>1, <2>t DEF Unproxy
  <2>3. PICK w \in worker : (\E r \in w.todo : Patch(w, r)) \/ FailCall(w)
    BY <2>1, <2>2 DEF ProxyStep, FromPage, CheckPost, Configure, MaybeAutoOrangeCloud, List, Refuse, Report, ProxyStop, ProxyMinute
  <2>4. PICK r \in w.todo : proxied' = [proxied EXCEPT ![w.zone] = @ \cup {r}]
    BY <2>1, <2>3 DEF Patch, FailCall, PatchedZone
  <2>5. z = w.zone
    BY <1>1, <2>t, <2>4
  <2>6. enabledAge[z] < lastAction /\ lastAction \in 1 .. Hour
    BY <2>t, <2>5 DEF SwitchInv
  <2>7. enabledAge[z] \in 0 .. Hour + 1
    BY <2>t
  <2>8. QED
    BY <2>t, <2>6, <2>7
<1>2. SamplerInv /\ [SamplerNext]_samplerVars =>
        \A z \in Zones : proxied'[z] \ proxied[z] # {} => enabledAge[z] < Hour
  BY <1>1
<1>3. QED
  BY <1>2, SamplerInvariant, PTL DEF OnlyWhereEnabled, SamplerSpec

=============================================================================
