----------------------------- MODULE Cloudflare -----------------------------
(***************************************************************************)
(* Automatic proxying: after every sample maybeAutoOrangeCloud looks at    *)
(* the load, and when it has been high for long enough it starts a         *)
(* goroutine that turns on the proxy of Cloudflare for the records of the  *)
(* zone, one by one, and then enters its result into the configuration.    *)
(*                                                                         *)
(* The goroutine works on the copy of the configuration that was taken     *)
(* under a.mu, while requests change it.  When the load became high and    *)
(* when the goroutine was last started are known to memory only.           *)
(* A configuration that is enabled has a threshold; which one, and whether *)
(* the load reaches it, is the input `high' of a check.                    *)
(***************************************************************************)
EXTENDS Naturals, FiniteSets

CONSTANTS
  Zones,    \* zones at Cloudflare
  NoZone,   \* the empty zone
  Records,  \* records of a zone that can be proxied
  Page,     \* those of each zone that Cloudflare names when it is asked for a hundred records
  Sustain,  \* minutes the load has to be high
  Hour      \* minutes between two attempts

ASSUME CloudflareAssumption ==
  NoZone \notin Zones /\ Page \in [Zones -> SUBSET Records] /\ Sustain \in Nat \ {0} /\ Hour \in Nat \ {0}

VARIABLES
  cfg,        \* the configuration in memory
  saved,      \* its copy in config.json
  posts,      \* requests past their check
  highSince,  \* 0, or 1 + the minutes since the load became high
  lastAction, \* 0, or 1 + the minutes since the last attempt
  worker,     \* the goroutine that switches, if there is one
  proxied,    \* the records of each zone that are proxied
  enabledAge, \* minutes since the zone was last enabled in memory; no code reads it
  shown       \* the page has shown a masked key, which it may post again; no code reads it

proxyVars == <<cfg, saved, posts, highSince, lastAction, worker, proxied, enabledAge, shown>>

\* cred: there is a token or a key; result: lastSwitch and lastError.
Config == [auto : BOOLEAN, zone : Zones \cup {NoZone}, cred : BOOLEAN, result : {"none", "switched", "error"}]
Post == [auto : BOOLEAN, zone : Zones \cup {NoZone}, key : {"none", "masked", "new"}]
Worker == [zone : Zones, step : {"list", "patch", "report"}, todo : SUBSET Records, ok : BOOLEAN]

EnabledFor(c, z) == c.auto /\ c.cred /\ c.zone = z
Wanted(c) == \E z \in Zones : EnabledFor(c, z)

\* The ages of the zones once the configuration is c.
EnabledAges(c, ages) == [z \in Zones |-> IF EnabledFor(c, z) THEN 0 ELSE ages[z]]
AnHourMore(n) == IF n > Hour THEN n ELSE n + 1

Save(c, ok) ==
  /\ cfg' = c
  /\ saved' = IF ok THEN c ELSE saved
  /\ enabledAge' = EnabledAges(c, enabledAge)
  /\ shown' = (shown \/ c.cred)

-----------------------------------------------------------------------------
(* handleCloudflare *)

\* The check reads the credentials there are, and takes a masked key for one,
CheckPost(p) ==
  /\ p.auto => p.zone # NoZone /\ (p.key # "none" \/ cfg.cred)
  /\ posts' = posts \cup {p}
  /\ UNCHANGED <<cfg, saved, highSince, lastAction, worker, proxied, enabledAge, shown>>

\* Mutant: an empty or masked key replaces the one there is.
Configured_Cleared(p) == [cfg EXCEPT !.auto = p.auto, !.zone = p.zone, !.cred = p.key = "new"]

\* and another lock is held for the change: the key there is stays for an empty or masked one.
Configured(p) == [cfg EXCEPT !.auto = p.auto, !.zone = p.zone, !.cred = @ \/ p.key = "new"]

Configure(p, ok) ==
  /\ Save(Configured(p), ok)
  /\ posts' = posts \ {p}
  /\ UNCHANGED <<highSince, lastAction, worker, proxied>>

-----------------------------------------------------------------------------
(* maybeAutoOrangeCloud, under a.mu *)

\* Mutant: an attempt is never repeated.
Due_Once == highSince > Sustain /\ lastAction = 0

Due == highSince > Sustain /\ (lastAction = 0 \/ lastAction > Hour)

MaybeAutoOrangeCloud(reached) ==
  /\ highSince' = IF ~(reached /\ Wanted(cfg)) THEN 0 ELSE IF highSince = 0 THEN 1 ELSE highSince
  /\ IF highSince > 0 /\ reached /\ Wanted(cfg) /\ Due
       THEN /\ lastAction' = 1
            /\ worker' = worker \cup {[zone |-> cfg.zone, step |-> "list", todo |-> {}, ok |-> TRUE]}
       ELSE UNCHANGED <<lastAction, worker>>
  /\ UNCHANGED <<cfg, saved, posts, proxied, enabledAge, shown>>

-----------------------------------------------------------------------------
(* The goroutine *)

Proceed(w, next) ==
  worker' = (worker \ {w}) \cup {IF next.step = "patch" /\ next.todo = {} THEN [next EXCEPT !.step = "report"] ELSE next}

\* enableCloudflareProxy lists those of the first hundred records that are not proxied, and no others,
List(w) ==
  /\ w.step = "list"
  /\ Proceed(w, [w EXCEPT !.step = "patch", !.todo = Page[w.zone] \ proxied[w.zone]])
  /\ UNCHANGED <<cfg, saved, posts, highSince, lastAction, proxied, enabledAge, shown>>

\* Mutant: the zone is read again from the configuration.
PatchedZone_Now(w) == IF cfg.zone = NoZone THEN w.zone ELSE cfg.zone

PatchedZone(w) == w.zone

\* and turns on the proxy of one after the other.
Patch(w, r) ==
  /\ w.step = "patch" /\ r \in w.todo
  /\ proxied' = [proxied EXCEPT ![PatchedZone(w)] = @ \cup {r}]
  /\ Proceed(w, [w EXCEPT !.todo = @ \ {r}])
  /\ UNCHANGED <<cfg, saved, posts, highSince, lastAction, enabledAge, shown>>

\* The first call that fails is the last.  Its effect may have been had.
FailCall(w) ==
  /\ w.step \in {"list", "patch"}
  /\ proxied' \in {proxied} \cup {[proxied EXCEPT ![PatchedZone(w)] = @ \cup {r}] : r \in w.todo}
  /\ Proceed(w, [w EXCEPT !.step = "report", !.ok = FALSE])
  /\ UNCHANGED <<cfg, saved, posts, highSince, lastAction, enabledAge, shown>>

\* Cloudflare refuses a record, which ends the attempt in the same way.
Refuse(w, r) ==
  /\ w.step = "patch" /\ r \in w.todo
  /\ Proceed(w, [w EXCEPT !.step = "report", !.ok = FALSE])
  /\ UNCHANGED <<cfg, saved, posts, highSince, lastAction, proxied, enabledAge, shown>>

\* The result is entered into the configuration there is by now.
Report(w, ok) ==
  /\ w.step = "report"
  /\ Save([cfg EXCEPT !.result = IF w.ok THEN "switched" ELSE "error"], ok)
  /\ worker' = worker \ {w}
  /\ UNCHANGED <<posts, highSince, lastAction, proxied>>

\* Somebody turns the proxy of a record off, at Cloudflare.
Unproxy(z, r) ==
  /\ r \in proxied[z]
  /\ proxied' = [proxied EXCEPT ![z] = @ \ {r}]
  /\ UNCHANGED <<cfg, saved, posts, highSince, lastAction, worker, enabledAge, shown>>

-----------------------------------------------------------------------------

\* A stop of the panel, and a start from config.json.
ProxyStop ==
  /\ cfg' = saved /\ enabledAge' = EnabledAges(saved, enabledAge)
  /\ posts' = {} /\ highSince' = 0 /\ lastAction' = 0 /\ worker' = {}
  /\ UNCHANGED <<saved, proxied, shown>>

\* A call takes 20 seconds at most, and there are at most 101 of them: the
\* goroutine ends well within the hour.
ProxyMinute ==
  /\ worker = {} \/ lastAction < Hour
  /\ highSince' = IF highSince \in 1 .. Sustain THEN highSince + 1 ELSE highSince
  /\ lastAction' = IF lastAction = 0 THEN 0 ELSE AnHourMore(lastAction)
  /\ enabledAge' = EnabledAges(cfg, [z \in Zones |-> AnHourMore(enabledAge[z])])
  /\ UNCHANGED <<cfg, saved, posts, worker, proxied, shown>>

Installed == [auto |-> FALSE, zone |-> NoZone, cred |-> FALSE, result |-> "none"]

ProxyInit ==
  /\ cfg = Installed /\ saved = cfg
  /\ posts = {} /\ highSince = 0 /\ lastAction = 0 /\ worker = {}
  /\ proxied = [z \in Zones |-> {}]
  /\ enabledAge = [z \in Zones |-> Hour + 1] /\ shown = FALSE

ProxyTypeOK ==
  /\ cfg \in Config /\ saved \in Config
  /\ posts \subseteq Post
  /\ highSince \in 0 .. Sustain + 1 /\ lastAction \in 0 .. Hour + 1
  /\ worker \subseteq Worker /\ Cardinality(worker) <= 1
  /\ proxied \in [Zones -> SUBSET Records]
  /\ enabledAge \in [Zones -> 0 .. Hour + 1] /\ shown \in BOOLEAN

=============================================================================
