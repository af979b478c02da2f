-------------------------------- MODULE Jobs --------------------------------
(***************************************************************************)
(* Background jobs of the panel: the bounded in-memory registry (app.jobs) *)
(* and the execution slots shared by startManagedJob, startNodeJob and     *)
(* startArgsJob.                                                           *)
(*                                                                         *)
(* A request handler stamps a job with time.Now(), then registers it under *)
(* app.mu, then spawns a goroutine.  The goroutine sends on the buffered   *)
(* channel jobExecutionSlots, runs its commands, publishes its result      *)
(* under app.mu, and keeps its slot until the audit record and the         *)
(* notification are out.  Each action is one critical section, or one      *)
(* external command, of the code.                                          *)
(***************************************************************************)
EXTENDS Integers, Sequences, FiniteSets

CONSTANTS
  Jobs,         \* the submissions a behaviour may make, each at most once
  MaxRetained,  \* maxRetainedJobs (100 in the code)
  Slots,        \* capacity of jobExecutionSlots (4 in the code)
  MaxCommands   \* bound on the external commands of one job

ASSUME JobsAssumption ==
  /\ IsFiniteSet(Jobs)
  /\ MaxRetained \in Nat \ {0}
  /\ Slots \in Nat \ {0}
  /\ MaxCommands \in Nat

VARIABLES
  pc,        \* where the submission of a job, then its goroutine, stands
  status,    \* job.Status
  started,   \* job.Started, a reading of clock
  clock,     \* time.Now(): a tick per submission
  registry,  \* the keys of app.jobs
  tokens,    \* elements in the channel jobExecutionSlots
  queue,     \* goroutines blocked sending on the channel, in arrival order
  todo,      \* commands the job has left
  failure    \* finalErr # nil

vars == <<pc, status, started, clock, registry, tokens, queue, todo, failure>>
jobVars == <<status, started, clock, registry>>
slotVars == <<tokens, queue>>
workVars == <<todo, failure>>

-----------------------------------------------------------------------------
(* States of a job.                                                        *)

PC == {"idle", "stamped", "spawned", "waiting", "working", "reporting",
       "done", "refused", "lost"}

Status == {"running", "success", "failed"}

\* The goroutine exists and has not published a result.
Unfinished == {"spawned", "waiting", "working"}

\* The goroutine holds an execution slot.
Holding == {"working", "reporting"}

InPC(P) == {j \in Jobs : pc[j] \in P}

\* Mutants: a job that failed, or one still running, is taken for the other.
Finished_SuccessOnly == {j \in registry : status[j] = "success"}
Finished_All == registry

Finished == {j \in registry : status[j] # "running"}

\* Mutant: any finished job is as good as the oldest.
OldestFinished_Any(k) == k \in Finished

OldestFinished(k) ==
  /\ k \in Finished
  /\ \A m \in Finished : started[k] <= started[m]

Full(S) == Cardinality(S) >= MaxRetained

\* Mutant: the channel takes one element more than its capacity.
SlotFree_OffByOne == tokens <= Slots

SlotFree == tokens < Slots

HasCommand(j) == todo[j] > 0 /\ ~failure[j]

WorkOver(j) == todo[j] = 0 \/ failure[j]

Outcome(j) == IF failure[j] THEN "failed" ELSE "success"

\* Mutant: the most recent sender overtakes the others.
NextSender_Newest == queue[Len(queue)]

NextSender == Head(queue)

Goto(j, label) == pc' = [pc EXCEPT ![j] = label]

-----------------------------------------------------------------------------
Init ==
  /\ pc = [j \in Jobs |-> "idle"]
  /\ status = [j \in Jobs |-> "running"]
  /\ started = [j \in Jobs |-> 0]
  /\ clock = 0
  /\ registry = {}
  /\ tokens = 0
  /\ queue = <<>>
  /\ todo = [j \in Jobs |-> 0]
  /\ failure = [j \in Jobs |-> FALSE]

\* A handler builds the job record; Started is read before app.mu is taken,
\* so jobs can be registered in another order than the one of their stamps.
NewJob(j) ==
  /\ pc[j] = "idle"
  /\ Goto(j, "stamped")
  /\ clock' = clock + 1
  /\ started' = [started EXCEPT ![j] = clock]
  /\ \E n \in 0..MaxCommands : todo' = [todo EXCEPT ![j] = n]
  /\ UNCHANGED <<status, registry, slotVars, failure>>

\* The end of registerJobLocked, after its eviction left the jobs in kept.
AddOrRefuse(j, kept) ==
  IF Full(kept)
  THEN /\ registry' = kept
       /\ status' = [status EXCEPT ![j] = "failed"]
       /\ Goto(j, "refused")
  ELSE /\ registry' = kept \union {j}
       /\ Goto(j, "spawned")
       /\ UNCHANGED status

\* registerJobLocked: a full registry first drops its oldest finished job.
RegisterJobLocked(j) ==
  /\ pc[j] = "stamped"
  /\ \/ /\ ~Full(registry) \/ Finished = {}
        /\ AddOrRefuse(j, registry)
     \/ /\ Full(registry)
        /\ \E k \in registry :
             /\ OldestFinished(k)
             /\ AddOrRefuse(j, registry \ {k})
  /\ UNCHANGED <<started, clock, slotVars, workVars>>

\* A send on the buffered channel: at once when there is room, else the
\* goroutine joins the channel's FIFO of blocked senders.
AcquireJobExecutionSlot(j) ==
  /\ pc[j] = "spawned"
  /\ \/ /\ SlotFree
        /\ tokens' = tokens + 1
        /\ Goto(j, "working")
        /\ UNCHANGED queue
     \/ /\ ~SlotFree
        /\ queue' = Append(queue, j)
        /\ Goto(j, "waiting")
        /\ UNCHANGED tokens
  /\ UNCHANGED <<jobVars, workVars>>

\* One external command; it may fail, or be killed by its own timeout.
RunCommand(j) ==
  /\ pc[j] = "working"
  /\ HasCommand(j)
  /\ \/ /\ todo' = [todo EXCEPT ![j] = @ - 1]
        /\ UNCHANGED failure
     \/ /\ failure' = [failure EXCEPT ![j] = TRUE]
        /\ UNCHANGED todo
  /\ UNCHANGED <<pc, jobVars, slotVars>>

\* pruneJobsLocked over the registry, given the statuses st: the oldest
\* finished jobs go until the bound is met or no finished job is left.
PruneJobsLocked(st) ==
  LET over == {j \in registry : st[j] # "running"}
  IN  IF Cardinality(registry) <= MaxRetained
      THEN UNCHANGED registry
      ELSE \E dropped \in SUBSET over :
             /\ \A k \in dropped, m \in over \ dropped : started[k] <= started[m]
             /\ \/ Cardinality(dropped) = Cardinality(registry) - MaxRetained
                \/ /\ dropped = over
                   /\ Cardinality(over) < Cardinality(registry) - MaxRetained
             /\ registry' = registry \ dropped

\* The goroutine publishes its result under app.mu.  It still has its slot.
FinishJob(j) ==
  /\ pc[j] = "working"
  /\ WorkOver(j)
  /\ status' = [status EXCEPT ![j] = Outcome(j)]
  /\ PruneJobsLocked(status')
  /\ Goto(j, "reporting")
  /\ UNCHANGED <<started, clock, slotVars, workVars>>

\* Mutant: the goroutine returns without receiving from the channel.
ReleaseSlot_Forgotten(j) ==
  /\ pc[j] = "reporting"
  /\ Goto(j, "done")
  /\ UNCHANGED <<jobVars, slotVars, workVars>>

\* The deferred receive, once audit and notification have returned: the
\* longest blocked sender takes the place that becomes free.
ReleaseSlot(j) ==
  /\ pc[j] = "reporting"
  /\ \/ /\ queue = <<>>
        /\ tokens' = tokens - 1
        /\ Goto(j, "done")
        /\ UNCHANGED queue
     \/ /\ queue # <<>>
        /\ queue' = Tail(queue)
        /\ pc' = [pc EXCEPT ![j] = "done", ![NextSender] = "working"]
        /\ UNCHANGED tokens
  /\ UNCHANGED <<jobVars, workVars>>

\* The process dies and systemd starts it again: jobs live in memory only.
Restart ==
  /\ pc' = [j \in Jobs |->
              CASE pc[j] \in Unfinished \union {"stamped"} -> "lost"
                [] pc[j] = "reporting" -> "done"
                [] OTHER -> pc[j]]
  /\ registry' = {}
  /\ tokens' = 0
  /\ queue' = <<>>
  /\ UNCHANGED <<status, started, clock, workVars>>

-----------------------------------------------------------------------------
System(j) ==
  \/ RegisterJobLocked(j)
  \/ AcquireJobExecutionSlot(j)
  \/ RunCommand(j)
  \/ FinishJob(j)
  \/ ReleaseSlot(j)

Next ==
  \/ \E j \in Jobs : NewJob(j) \/ System(j)
  \/ Restart

Spec == Init /\ [][Next]_vars

\* Users need not submit anything and the process need not restart, but a
\* goroutine that can run does: every command has a timeout, app.mu is a
\* starvation-free RWMutex and the notification client gives up after 10 s.
FairSpec == Spec /\ \A j \in Jobs : WF_vars(System(j))

-----------------------------------------------------------------------------
(* Properties.                                                             *)

TypeOK ==
  /\ pc \in [Jobs -> PC]
  /\ status \in [Jobs -> Status]
  /\ started \in [Jobs -> Nat]
  /\ clock \in Nat
  /\ registry \in SUBSET Jobs
  /\ tokens \in Int
  /\ queue \in Seq(Jobs)
  /\ todo \in [Jobs -> 0..MaxCommands]
  /\ failure \in [Jobs -> BOOLEAN]

\* The registry never outgrows maxRetainedJobs, whatever the order in which
\* submissions and results reach app.mu.
RetentionBound == Cardinality(registry) <= MaxRetained

\* A job whose goroutine has not published its result is listed as running:
\* GET /api/jobs?id=... answers 404 for no job that is still to do something.
UnfinishedJobsListed ==
  \A j \in InPC(Unfinished) : j \in registry /\ status[j] = "running"

\* The status a poll shows follows the goroutine: it is "running" until a
\* result is published, and no listed job is stuck in "running" without a
\* goroutine, where nothing would ever evict it.
RunningJobsAlive ==
  \A j \in Jobs :
    /\ status[j] = "running" <=> pc[j] \in Unfinished \union {"idle", "stamped", "lost"}
    /\ j \in registry => pc[j] \notin {"idle", "stamped", "refused", "lost"}

\* The channel counts its holders exactly, never more than its capacity, and
\* nobody is blocked on it while there is room (no lost wake-up).
SlotsConserved ==
  /\ tokens = Cardinality(InPC(Holding))
  /\ tokens <= Slots
  /\ queue # <<>> => tokens = Slots

\* The blocked goroutines are those in the channel's queue, each of them once:
\* a release hands the slot to a goroutine that waits for it and to no other.
QueueIsWaiters ==
  /\ \A j \in Jobs : pc[j] = "waiting" <=> \E i \in 1..Len(queue) : queue[i] = j
  /\ \A a, b \in 1..Len(queue) : queue[a] = queue[b] => a = b

\* A result of "success" stands for a job all of whose commands ran: the loop
\* stopped early on no path that leaves finalErr nil.
SuccessMeansAllRan ==
  \A j \in Jobs : status[j] = "success" => todo[j] = 0 /\ ~failure[j]

\* The registry is bounded, and polls of it tell the truth about every job
\* (registerJobLocked, pruneJobsLocked, startManagedJob).
RegistrySound ==
  /\ RetentionBound
  /\ UnfinishedJobsListed
  /\ RunningJobsAlive
  /\ SuccessMeansAllRan

\* No slot is lost, shared or withheld (acquireJobExecutionSlot).
SlotsSound ==
  /\ SlotsConserved
  /\ QueueIsWaiters

\* A submission is turned away only while the registry is full of jobs that
\* are all still running.
RefusalJustified ==
  [][\A j \in Jobs :
       pc[j] # "refused" /\ pc'[j] = "refused"
         => /\ Cardinality(registry) = MaxRetained
            /\ \A k \in registry : status[k] = "running"]_vars

\* Only the admission of a new job into a full registry, or a restart, forgets
\* a job; the admission forgets one, the finished job with the oldest stamp.
\* In particular pruneJobsLocked never removes anything.
OnlyAdmissionForgets ==
  [][registry \subseteq registry'
       \/ (registry' = {} /\ tokens' = 0)
       \/ \E k \in Finished, j \in Jobs :
            /\ \A m \in Finished : started[k] <= started[m]
            /\ pc[j] = "stamped" /\ pc'[j] = "spawned"
            /\ registry' = (registry \ {k}) \union {j}]_vars

-----------------------------------------------------------------------------
(* Refinement of the abstract job service.                                 *)

PhaseOf(label) ==
  CASE label = "idle" -> "new"
    [] label = "stamped" -> "submitted"
    [] label \in {"spawned", "waiting"} -> "accepted"
    [] label = "working" -> "executing"
    [] label \in {"reporting", "done"} -> "ended"
    [] label = "refused" -> "refused"
    [] label = "lost" -> "lost"

phaseBar == [j \in Jobs |-> PhaseOf(pc[j])]

Service == INSTANCE JobService WITH phase <- phaseBar, listed <- registry

\* The panel keeps the promise of JobService step by step: the audit and the
\* notification that hold a slot after the result is published only delay the
\* next job.
ServiceSafety == Service!SafeSpec

\* Every submission is answered and every accepted job ends or dies with the
\* process: no path of the goroutine leaves a slot or a waiter behind.
ServiceLiveness == Service!AllServed
=============================================================================
