------------------------------ MODULE Metrics ------------------------------
(***************************************************************************)
(* The history of the metrics: one point a minute, kept for thirty days in *)
(* memory and in metrics-minute.jsonl.  The goroutine of startSampler adds *)
(* the first sample of a minute to both, and rewrites the file from memory *)
(* once a day; a start reads it.                                           *)
(*                                                                         *)
(* Time is counted in minutes, and a point is how many minutes old it is:  *)
(* Keep + 1 stands for every age beyond the thirty days.  Of the values of *)
(* a sample only `high' matters, whether its load reaches the thresholds   *)
(* of the automatic proxying.  Sampler lets time pass.                     *)
(***************************************************************************)
EXTENDS Naturals

CONSTANTS
  Keep,  \* minutes in thirty days
  Day    \* minutes in a day

ASSUME MetricsAssumption == Keep \in Nat /\ Day \in Nat \ {0, 1}

VARIABLES
  up,         \* whether the panel runs
  minute,     \* the minute of the day
  history,    \* a.history
  persisted,  \* a.lastPersistMinute is this minute
  file,       \* metrics-minute.jsonl: its points, and whether its last line is torn
  sampler,    \* what the goroutine does next
  high,       \* the load in the last sample
  \* No code reads these.
  lossy,      \* a line has been lost since the file was last rewritten or read
  cut         \* the last start read only the first lines of the file

metricVars == <<up, minute, history, persisted, file, sampler, high, lossy, cut>>

Ages == 0 .. Keep + 1
Kept(points) == {a \in points : a <= Keep}
Older(points) == {IF a > Keep THEN a ELSE a + 1 : a \in points}

-----------------------------------------------------------------------------
(* collectSample and appendMetricHistory *)

\* The history with this minute's point, without those beyond the thirty days.
Collected == Kept(history) \cup {0}

\* Under a.mu; the other samples of a minute are kept in memory only.
CollectSample(load) ==
  /\ up /\ sampler = "idle"
  /\ high' = load
  /\ persisted' = TRUE
  /\ IF persisted THEN sampler' = "proxy" /\ UNCHANGED history
                  ELSE sampler' = "append" /\ history' = Collected
  /\ UNCHANGED <<up, minute, file, lossy, cut>>

AfterAppend == sampler' = IF minute = 0 THEN "compact" ELSE "proxy"

\* A line that follows a torn one is part of it, and neither can be read.
AppendLine ==
  /\ sampler = "append" /\ AfterAppend
  /\ file' = [points |-> IF file.torn THEN file.points ELSE file.points \cup {0}, torn |-> FALSE]
  /\ lossy' = (lossy \/ file.torn)
  /\ UNCHANGED <<up, minute, history, persisted, high, cut>>

\* The file cannot be opened, or takes a part of the line; the code ignores both.
LoseLine ==
  /\ sampler = "append" /\ AfterAppend
  /\ file' \in {file, [file EXCEPT !.torn = TRUE]}
  /\ lossy' = TRUE
  /\ UNCHANGED <<up, minute, history, persisted, high, cut>>

\* The history is copied to another file, which replaces the first; when that
\* cannot be written, or the panel stops before the rename, nothing is changed.
Compact(written) ==
  /\ sampler = "compact" /\ sampler' = "proxy"
  /\ file' = IF written THEN [points |-> history, torn |-> FALSE] ELSE file
  /\ lossy' = (lossy /\ ~written)
  /\ UNCHANGED <<up, minute, history, persisted, high, cut>>

-----------------------------------------------------------------------------
(* Stops and starts *)

\* A stop while a line is being written may tear it.
Stop ==
  /\ up /\ up' = FALSE
  /\ file' \in {file} \cup (IF sampler = "append" THEN {[file EXCEPT !.torn = TRUE]} ELSE {})
  /\ history' = {} /\ persisted' = FALSE /\ sampler' = "idle" /\ high' = FALSE
  /\ UNCHANGED <<minute, lossy, cut>>

\* Mutant: the minute of the last point is not looked up.
LastPersisted_Never(points) == FALSE

LastPersisted(points) == 0 \in points

\* loadMetricHistory; the panel starts all the same when reading ends in an
\* error after some lines, the oldest.
LoadMetricHistory(first) ==
  /\ ~up /\ up' = TRUE
  /\ history' = {a \in Kept(file.points) : a >= first}
  /\ persisted' = LastPersisted(history')
  /\ cut' = (history' # Kept(file.points)) /\ lossy' = cut'
  /\ UNCHANGED <<minute, file, sampler, high>>

\* The next minute.  There is a sample every five seconds, and its steps are
\* over within the minute.
NextMinute ==
  /\ up => persisted /\ sampler = "idle"
  /\ minute' = (minute + 1) % Day
  /\ history' = Older(history) /\ file' = [file EXCEPT !.points = Older(@)]
  /\ persisted' = FALSE
  /\ UNCHANGED <<up, sampler, high, lossy, cut>>

MetricsInit ==
  /\ up = TRUE /\ minute = 0
  /\ history = {} /\ persisted = FALSE /\ file = [points |-> {}, torn |-> FALSE]
  /\ sampler = "idle" /\ high = FALSE
  /\ lossy = FALSE /\ cut = FALSE

MetricsTypeOK ==
  /\ {up, persisted, high, lossy, cut} \subseteq BOOLEAN
  /\ minute \in 0 .. Day - 1
  /\ history \subseteq Ages
  /\ file \in [points : SUBSET Ages, torn : BOOLEAN]
  /\ sampler \in {"idle", "append", "compact", "proxy"}

=============================================================================
