------------------------------ MODULE Sampler ------------------------------
(***************************************************************************)
(* The goroutine of startSampler, which after every sample first writes    *)
(* the history of the metrics and then looks at the automatic proxying,    *)
(* beside the requests, the goroutine that switches, stops of the panel    *)
(* and the passing of time.                                                *)
(***************************************************************************)
EXTENDS Metrics, Cloudflare

CONSTANT Settings  \* the settings that are checked, see Setting

\* What may happen: the configurations that are posted, whether writes, calls
\* and readings of the history may fail, the records that Cloudflare refuses
\* every time, and the bound on other failures, on stops and on records that
\* somebody takes off the proxy.
Setting == [posts : SUBSET Post, fails : SUBSET {"line", "rewrite", "read", "save", "call"}, refused : SUBSET Records,
            mishaps : Nat]

ASSUME SamplerAssumption == Settings \subseteq Setting

VARIABLES setting, mishaps

env == <<setting, mishaps>>
samplerVars == <<metricVars, proxyVars, env>>

Mishap == mishaps < setting.mishaps /\ mishaps' = mishaps + 1 /\ UNCHANGED setting
Fails(what) == what \in setting.fails /\ Mishap

\* A write or a call that works, or one that is said to fail.
Works(ok, what) == IF ok THEN UNCHANGED env ELSE Fails(what)

-----------------------------------------------------------------------------

Sample(load) == CollectSample(load) /\ UNCHANGED <<proxyVars, env>>

WriteHistory(ok) ==
  /\ \/ ok /\ AppendLine /\ UNCHANGED env
     \/ ~ok /\ LoseLine /\ Fails("line")
     \/ Compact(ok) /\ Works(ok, "rewrite")
  /\ UNCHANGED proxyVars

CheckLoad ==
  /\ sampler = "proxy" /\ sampler' = "idle"
  /\ MaybeAutoOrangeCloud(high)
  /\ UNCHANGED <<up, minute, history, persisted, file, high, lossy, cut, env>>

\* Requests come from the page, which posts a masked key only when it has been shown one.
FromPage(p) == (p.key = "masked" => shown) /\ CheckPost(p)

Request ==
  /\ up
  /\ \/ \E p \in setting.posts : FromPage(p) /\ UNCHANGED env
     \/ \E p \in posts, ok \in BOOLEAN : Configure(p, ok) /\ Works(ok, "save")
  /\ UNCHANGED metricVars

Switch ==
  /\ \E w \in worker :
       \/ List(w) /\ UNCHANGED env
       \/ \E r \in w.todo \ setting.refused : Patch(w, r) /\ UNCHANGED env
       \/ \E r \in setting.refused : Refuse(w, r) /\ UNCHANGED env
       \/ FailCall(w) /\ Fails("call")
       \/ \E ok \in BOOLEAN : Report(w, ok) /\ Works(ok, "save")
  /\ UNCHANGED metricVars

TakeOff == \E z \in Zones, r \in Records : Unproxy(z, r) /\ Mishap /\ UNCHANGED metricVars

Crash == Stop /\ ProxyStop /\ Mishap

Start(first) ==
  /\ LoadMetricHistory(first)
  /\ IF cut' THEN Fails("read") ELSE UNCHANGED env
  /\ UNCHANGED proxyVars

Minute == NextMinute /\ ProxyMinute /\ UNCHANGED env

SamplerInit == MetricsInit /\ ProxyInit /\ setting \in Settings /\ mishaps = 0

SamplerNext ==
  \/ \E load \in BOOLEAN : Sample(load)
  \/ \E ok \in BOOLEAN : WriteHistory(ok)
  \/ CheckLoad
  \/ Request \/ Switch \/ TakeOff
  \/ Crash
  \/ \E first \in 0 .. Keep + 1 : Start(first)
  \/ Minute

\* The ticker and the scheduler go on, a call ends within its time limit, and
\* systemd starts a panel that has failed again.  However many samples there
\* are, the minute passes.
Fairness ==
  /\ WF_samplerVars(\E load \in BOOLEAN : Sample(load))
  /\ WF_samplerVars(\E ok \in BOOLEAN : WriteHistory(ok))
  /\ WF_samplerVars(CheckLoad)
  /\ WF_samplerVars(Switch)
  /\ WF_samplerVars(\E first \in 0 .. Keep + 1 : Start(first))
  /\ SF_samplerVars(Minute)

SamplerSpec == SamplerInit /\ [][SamplerNext]_samplerVars /\ Fairness

-----------------------------------------------------------------------------
(* Properties *)

SamplerTypeOK ==
  /\ MetricsTypeOK /\ ProxyTypeOK
  /\ setting \in Settings /\ mishaps \in 0 .. setting.mishaps

\* Between samples the file has the points that are in memory, unless a line was
\* lost: a restart does not take back what the page of the metrics has shown
\* (appendMetricHistory, loadMetricHistory).
HistoryOnFile == up /\ ~lossy /\ sampler \in {"idle", "proxy"} => Kept(history) = Kept(file.points)

\* Where the configuration can always be saved, one that is enabled, in memory or
\* on disk, has a zone and credentials, although handleCloudflare checks them
\* under another lock than the one that it makes the change under, and takes a
\* masked key for one: whoever posts a masked key without having been shown one
\* can enable what has no credentials.
EnabledIsUsable == "save" \notin setting.fails => \A c \in {cfg, saved} : c.auto => Wanted(c)

\* The history, the configuration and their files agree.
SamplerConsistent == SamplerTypeOK /\ HistoryOnFile /\ EnabledIsUsable

\* Short of time passing, a point of the last thirty days never leaves the file,
\* and the point of a minute is never written twice: not by the daily rewrite,
\* torn lines, stops or starts, unless a start has read only a part of the file.
HistoryKept ==
  [][~cut =>
       /\ minute' = minute => Kept(file.points) \subseteq file'.points
       /\ sampler = "append" /\ sampler' # "append" /\ up' => 0 \notin file.points]_samplerVars

\* The panel turns on the proxy of a record only in a zone for which automatic
\* proxying was enabled within the last hour: what was switched off, given
\* another zone, not saved or forgotten by a restart is obeyed within that time.
OnlyWhereEnabled ==
  [][\A z \in Zones : proxied'[z] \ proxied[z] # {} => enabledAge[z] < Hour]_samplerVars

\* Once automatic proxying stays enabled for a zone, the load stays high and calls no longer fail,
\* every record that Cloudflare names in its first hundred is proxied again and again: an attempt
\* that failed half-way, or that a stop has cut off, is repeated.  A record that is refused every
\* time ends every attempt before those after it, and the records after the hundredth are never
\* asked for.
EventuallyProxied ==
  \A z \in Zones :
    <>[](high /\ EnabledFor(cfg, z) /\ Page[z] \cap setting.refused = {}) => []<>(Page[z] \subseteq proxied[z])

=============================================================================
