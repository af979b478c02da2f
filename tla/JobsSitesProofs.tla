--------------------------- MODULE JobsSitesProofs ---------------------------
(***************************************************************************)
(* Proofs about the background jobs and about the sites of nginx, which    *)
(* the requests and the jobs of the panel change.                          *)
(*                                                                         *)
(* Jobs, for every set of submissions and every bound: what the registry   *)
(* and the slots hold, whom a refusal is justified by, and that Jobs       *)
(* implements JobService.                                                  *)
(*                                                                         *)
(* Sites, for every set of domains, handlers and servers: nginx accepts    *)
(* what is on the disk while no request is under way, a request that       *)
(* fails leaves the files of its domain as they were, and a line of        *)
(* /etc/hosts is lost to no other domain.                                  *)
(***************************************************************************)
EXTENDS Jobs, Sites, FiniteSetTheorems, SequenceTheorems, TLAPS

-----------------------------------------------------------------------------
(* JOBS                                                                    *)

-----------------------------------------------------------------------------
(* Type correctness.                                                       *)

\* A sender that blocks joins the queue at its end, one that is served leaves
\* it at its head; either way a queue of jobs remains.
LEMMA QueueOps ==
  ASSUME NEW q \in Seq(Jobs), NEW j \in Jobs
  PROVE  /\ Append(q, j) \in Seq(Jobs)
         /\ q # <<>> => Tail(q) \in Seq(Jobs) /\ Head(q) \in Jobs
BY AppendProperties, HeadTailProperties

\* The states of the registry and of the channel stay in their types, for
\* every interleaving of handlers, goroutines and restarts.
THEOREM TypeCorrect == Spec => []TypeOK
<1> USE JobsAssumption DEF TypeOK, PC, Status, vars, jobVars, slotVars, workVars
<1>1. Init => TypeOK
  BY DEF Init
<1>2. TypeOK /\ [Next]_vars => TypeOK'
  <2> SUFFICES ASSUME TypeOK, [Next]_vars
               PROVE  TypeOK'
    OBVIOUS
  <2>1. ASSUME NEW j \in Jobs, NewJob(j)
        PROVE  TypeOK'
    BY <2>1 DEF NewJob, Goto
  <2>2. ASSUME NEW j \in Jobs, RegisterJobLocked(j)
        PROVE  TypeOK'
    <3>1. ASSUME NEW kept \in SUBSET registry, AddOrRefuse(j, kept)
          PROVE  pc' \in [Jobs -> PC] /\ status' \in [Jobs -> Status]
                 /\ registry' \in SUBSET Jobs
      BY <3>1 DEF AddOrRefuse, Goto
    <3>2. PICK kept \in SUBSET registry : AddOrRefuse(j, kept)
      BY <2>2 DEF RegisterJobLocked
    <3>3. QED
      BY <2>2, <3>1, <3>2 DEF RegisterJobLocked
  <2>3. ASSUME NEW j \in Jobs, AcquireJobExecutionSlot(j)
        PROVE  TypeOK'
    <3>1. pc' \in [Jobs -> PC]
      BY <2>3 DEF AcquireJobExecutionSlot, Goto
    <3>2. tokens' \in Int
      BY <2>3 DEF AcquireJobExecutionSlot
    <3>3. queue' \in Seq(Jobs)
      <4>1. queue' = queue \/ queue' = Append(queue, j)
        BY <2>3 DEF AcquireJobExecutionSlot
      <4>2. QED
        BY <4>1, QueueOps
    <3>4. QED
      BY <2>3, <3>1, <3>2, <3>3 DEF AcquireJobExecutionSlot
  <2>4. ASSUME NEW j \in Jobs, RunCommand(j)
        PROVE  TypeOK'
    <3>1. todo' \in [Jobs -> 0..MaxCommands]
      <4>1. todo[j] \in 1..MaxCommands
        BY <2>4 DEF RunCommand, HasCommand
      <4>2. todo[j] - 1 \in 0..MaxCommands
        BY <4>1
      <4>3. QED
        BY <2>4, <4>2 DEF RunCommand
    <3>2. failure' \in [Jobs -> BOOLEAN]
      BY <2>4 DEF RunCommand
    <3>3. QED
      BY <2>4, <3>1, <3>2 DEF RunCommand
  <2>5. ASSUME NEW j \in Jobs, FinishJob(j)
        PROVE  TypeOK'
    <3>1. registry' \in SUBSET Jobs
      BY <2>5 DEF FinishJob, PruneJobsLocked
    <3>2. QED
      BY <2>5, <3>1 DEF FinishJob, Outcome, Goto
  <2>6. ASSUME NEW j \in Jobs, ReleaseSlot(j)
        PROVE  TypeOK'
    <3>1. pc' \in [Jobs -> PC]
      BY <2>6 DEF ReleaseSlot, NextSender, Goto
    <3>2. tokens' \in Int
      BY <2>6 DEF ReleaseSlot
    <3>3. queue' \in Seq(Jobs)
      <4>1. queue' = queue \/ (queue # <<>> /\ queue' = Tail(queue))
        BY <2>6 DEF ReleaseSlot
      <4>2. QED
        BY <4>1, QueueOps
    <3>4. QED
      BY <2>6, <3>1, <3>2, <3>3 DEF ReleaseSlot
  <2>7. CASE Restart
    BY <2>7 DEF Restart
  <2>8. CASE UNCHANGED vars
    BY <2>8
  <2>9. QED
    BY <2>1, <2>2, <2>3, <2>4, <2>5, <2>6, <2>7, <2>8 DEF Next, System
<1>3. QED
  BY <1>1, <1>2, PTL DEF Spec

-----------------------------------------------------------------------------
(* The slot channel.                                                       *)

SlotInv == SlotsConserved /\ QueueIsWaiters

\* Steps that leave the channel alone and move no job into or out of the
\* waiting and the holding states keep the channel's invariant.
LEMMA SlotInvFrame ==
  ASSUME SlotInv, UNCHANGED slotVars,
         \A j \in Jobs : pc'[j] = "waiting" <=> pc[j] = "waiting",
         \A j \in Jobs : pc'[j] \in Holding <=> pc[j] \in Holding
  PROVE  SlotInv'
<1>1. InPC(Holding)' = InPC(Holding)
  BY DEF InPC, Holding
<1>2. SlotsConserved'
  BY <1>1 DEF SlotInv, SlotsConserved, slotVars
<1>3. QueueIsWaiters'
  BY DEF SlotInv, QueueIsWaiters, slotVars
<1>4. QED
  BY <1>2, <1>3 DEF SlotInv

\* The holders of slots are finitely many, so adding one adds one to the count.
LEMMA HoldersFinite ==
  /\ IsFiniteSet(InPC(Holding))
  /\ Cardinality(InPC(Holding)) \in Nat
<1>1. IsFiniteSet(InPC(Holding))
  BY FS_Subset, JobsAssumption DEF InPC, JobsAssumption
<1>2. QED
  BY <1>1, FS_CardinalityType

\* A send on the channel, blocking or not.
LEMMA AcquireKeepsSlotInv ==
  ASSUME TypeOK, SlotInv, NEW j \in Jobs, AcquireJobExecutionSlot(j)
  PROVE  SlotInv'
<1>1. /\ pc \in [Jobs -> PC] /\ pc[j] = "spawned" /\ queue \in Seq(Jobs)
      /\ tokens \in Int /\ Slots \in Nat \ {0}
  BY JobsAssumption DEF TypeOK, AcquireJobExecutionSlot, JobsAssumption
<1>2. CASE SlotFree
  <2>1. pc' = [pc EXCEPT ![j] = "working"] /\ tokens' = tokens + 1 /\ queue' = queue
    BY <1>2 DEF AcquireJobExecutionSlot, Goto
  <2>2. InPC(Holding)' = InPC(Holding) \union {j} /\ j \notin InPC(Holding)
    BY <1>1, <2>1 DEF InPC, Holding
  <2>3. Cardinality(InPC(Holding)') = Cardinality(InPC(Holding)) + 1
    BY <2>2, HoldersFinite, FS_AddElement
  <2>4. SlotsConserved'
    BY <1>1, <1>2, <2>1, <2>3, HoldersFinite DEF SlotInv, SlotsConserved, SlotFree
  <2>5. QueueIsWaiters'
    BY <1>1, <2>1 DEF SlotInv, QueueIsWaiters
  <2>6. QED
    BY <2>4, <2>5 DEF SlotInv
<1>3. CASE ~SlotFree
  <2>1. /\ pc' = [pc EXCEPT ![j] = "waiting"] /\ tokens' = tokens
        /\ queue' = Append(queue, j)
    BY <1>3 DEF AcquireJobExecutionSlot, Goto
  <2>2. InPC(Holding)' = InPC(Holding)
    BY <1>1, <2>1 DEF InPC, Holding
  <2>3. SlotsConserved'
    BY <1>1, <1>3, <2>1, <2>2 DEF SlotInv, SlotsConserved, SlotFree
  <2>4. /\ Len(queue') = Len(queue) + 1 /\ Len(queue) \in Nat
        /\ \A i \in 1..Len(queue) : queue'[i] = queue[i]
        /\ queue'[Len(queue) + 1] = j
    BY <1>1, <2>1, AppendProperties
  <2>5. \A k \in Jobs : pc'[k] = "waiting" <=> \E i \in 1..Len(queue') : queue'[i] = k
    <3>1. \A k \in Jobs : pc[k] = "waiting" <=> \E i \in 1..Len(queue) : queue[i] = k
      BY DEF SlotInv, QueueIsWaiters
    <3>2. ASSUME NEW k \in Jobs
          PROVE  (\E i \in 1..Len(queue') : queue'[i] = k)
                   <=> k = j \/ (\E i \in 1..Len(queue) : queue[i] = k)
      BY <2>4
    <3>3. QED
      BY <1>1, <2>1, <3>1, <3>2
  <2>6. \A a, b \in 1..Len(queue') : queue'[a] = queue'[b] => a = b
    <3>1. \A i \in 1..Len(queue) : queue[i] # j
      BY <1>1 DEF SlotInv, QueueIsWaiters
    <3>2. QED
      BY <2>4, <3>1 DEF SlotInv, QueueIsWaiters
  <2>7. QED
    BY <2>3, <2>5, <2>6 DEF SlotInv, QueueIsWaiters
<1>4. QED
  BY <1>2, <1>3

\* The job at the head of the queue is blocked, and it is not the one releasing.
LEMMA HeadWaits ==
  ASSUME TypeOK, SlotInv, queue # <<>>
  PROVE  NextSender \in Jobs /\ NextSender = queue[1] /\ pc[NextSender] = "waiting"
<1>1. queue \in Seq(Jobs)
  BY DEF TypeOK
<1>2. Head(queue) \in Jobs /\ Head(queue) = queue[1] /\ 1 \in 1..Len(queue)
  BY <1>1
<1>3. QED
  BY <1>2 DEF SlotInv, QueueIsWaiters, NextSender

\* A receive from the channel, with or without a blocked sender.
LEMMA ReleaseKeepsSlotInv ==
  ASSUME TypeOK, SlotInv, NEW j \in Jobs, ReleaseSlot(j)
  PROVE  SlotInv'
<1>1. /\ pc \in [Jobs -> PC] /\ pc[j] = "reporting" /\ queue \in Seq(Jobs)
      /\ tokens \in Int /\ Slots \in Nat \ {0} /\ j \in InPC(Holding)
  BY JobsAssumption DEF TypeOK, ReleaseSlot, JobsAssumption, InPC, Holding
<1>2. CASE queue = <<>>
  <2>1. pc' = [pc EXCEPT ![j] = "done"] /\ tokens' = tokens - 1 /\ queue' = queue
    BY <1>2 DEF ReleaseSlot, Goto
  <2>2. InPC(Holding)' = InPC(Holding) \ {j}
    BY <1>1, <2>1 DEF InPC, Holding
  <2>3. Cardinality(InPC(Holding)') = Cardinality(InPC(Holding)) - 1
    BY <1>1, <2>2, HoldersFinite, FS_RemoveElement
  <2>4. SlotsConserved'
    BY <1>1, <1>2, <2>1, <2>3, HoldersFinite DEF SlotInv, SlotsConserved
  <2>5. QueueIsWaiters'
    BY <1>1, <2>1 DEF SlotInv, QueueIsWaiters
  <2>6. QED
    BY <2>4, <2>5 DEF SlotInv
<1>3. CASE queue # <<>>
  <2> DEFINE h == NextSender
  <2>1. /\ pc' = [pc EXCEPT ![j] = "done", ![h] = "working"] /\ tokens' = tokens
        /\ queue' = Tail(queue)
    BY <1>3 DEF ReleaseSlot
  <2>2. h \in Jobs /\ h = queue[1] /\ pc[h] = "waiting"
    BY <1>3, HeadWaits
  <2> HIDE DEF h
  <2>3. InPC(Holding)' = (InPC(Holding) \ {j}) \union {h} /\ h \notin InPC(Holding) \ {j}
    BY <1>1, <2>1, <2>2 DEF InPC, Holding
  <2>4. Cardinality(InPC(Holding)') = Cardinality(InPC(Holding))
    <3>1. /\ IsFiniteSet(InPC(Holding) \ {j})
          /\ Cardinality(InPC(Holding) \ {j}) = Cardinality(InPC(Holding)) - 1
      BY <1>1, HoldersFinite, FS_RemoveElement
    <3>2. Cardinality(InPC(Holding)') = (Cardinality(InPC(Holding)) - 1) + 1
      BY <2>3, <3>1, FS_AddElement
    <3>3. QED
      BY <3>2, HoldersFinite
  <2>5. SlotsConserved'
    BY <1>1, <1>3, <2>1, <2>4 DEF SlotInv, SlotsConserved
  <2>6. /\ Len(queue) \in Nat /\ Len(queue') = Len(queue) - 1 /\ Len(queue) > 0
        /\ \A i \in 1..Len(queue') : queue'[i] = queue[i + 1]
    BY <1>1, <1>3, <2>1, HeadTailProperties
  <2>7. \A k \in Jobs : pc'[k] = "waiting" <=> \E i \in 1..Len(queue') : queue'[i] = k
    <3>1. \A k \in Jobs : pc[k] = "waiting" <=> \E i \in 1..Len(queue) : queue[i] = k
      BY DEF SlotInv, QueueIsWaiters
    <3>2. \A a, b \in 1..Len(queue) : queue[a] = queue[b] => a = b
      BY DEF SlotInv, QueueIsWaiters
    <3>3. ASSUME NEW k \in Jobs
          PROVE  (\E i \in 1..Len(queue') : queue'[i] = k)
                   <=> k # h /\ (\E i \in 1..Len(queue) : queue[i] = k)
      <4>1. ASSUME NEW i \in 1..Len(queue'), queue'[i] = k
            PROVE  k # h /\ (\E n \in 1..Len(queue) : queue[n] = k)
        BY <2>2, <2>6, <3>2, <4>1
      <4>2. ASSUME k # h, NEW n \in 1..Len(queue), queue[n] = k
            PROVE  \E i \in 1..Len(queue') : queue'[i] = k
        <5>1. n # 1
          BY <2>2, <4>2
        <5>2. n - 1 \in 1..Len(queue') /\ queue'[n - 1] = k
          BY <2>6, <4>2, <5>1
        <5>3. QED
          BY <5>2
      <4>3. QED
        BY <4>1, <4>2
    <3>4. QED
      BY <1>1, <2>1, <2>2, <3>1, <3>3
  <2>8. \A a, b \in 1..Len(queue') : queue'[a] = queue'[b] => a = b
    <3>1. \A a, b \in 1..Len(queue) : queue[a] = queue[b] => a = b
      BY DEF SlotInv, QueueIsWaiters
    <3>2. QED
      BY <2>6, <3>1
  <2>9. QED
    BY <2>5, <2>7, <2>8 DEF SlotInv, QueueIsWaiters
<1>4. QED
  BY <1>2, <1>3

\* A restart empties the channel and kills all its senders.
LEMMA RestartKeepsSlotInv ==
  ASSUME TypeOK, Restart
  PROVE  SlotInv'
<1>1. \A j \in Jobs : pc'[j] \notin Holding /\ pc'[j] # "waiting"
  BY DEF Restart, Holding, Unfinished, TypeOK, PC
<1>2. InPC(Holding)' = {}
  BY <1>1 DEF InPC, Holding
<1>3. SlotsConserved'
  BY <1>2, FS_EmptySet, JobsAssumption DEF Restart, SlotsConserved, JobsAssumption
<1>4. QueueIsWaiters'
  BY <1>1 DEF Restart, QueueIsWaiters
<1>5. QED
  BY <1>3, <1>4 DEF SlotInv

\* Every step keeps the count of the slots and the order of the queue.
LEMMA SlotInvStep ==
  ASSUME TypeOK, SlotInv, [Next]_vars
  PROVE  SlotInv'
<1>1. ASSUME NEW j \in Jobs, NewJob(j)
      PROVE  SlotInv'
  BY <1>1, SlotInvFrame DEF NewJob, Goto, TypeOK, Holding, slotVars
<1>2. ASSUME NEW j \in Jobs, RegisterJobLocked(j)
      PROVE  SlotInv'
  <2>1. /\ pc[j] = "stamped" /\ UNCHANGED slotVars
        /\ \/ pc' = [pc EXCEPT ![j] = "spawned"]
           \/ pc' = [pc EXCEPT ![j] = "refused"]
    BY <1>2 DEF RegisterJobLocked, AddOrRefuse, Goto
  <2>2. QED
    BY <2>1, SlotInvFrame DEF TypeOK, Holding
<1>3. ASSUME NEW j \in Jobs, AcquireJobExecutionSlot(j)
      PROVE  SlotInv'
  BY <1>3, AcquireKeepsSlotInv
<1>4. ASSUME NEW j \in Jobs, RunCommand(j)
      PROVE  SlotInv'
  BY <1>4, SlotInvFrame DEF RunCommand
<1>5. ASSUME NEW j \in Jobs, FinishJob(j)
      PROVE  SlotInv'
  <2>1. pc[j] = "working" /\ pc' = [pc EXCEPT ![j] = "reporting"] /\ UNCHANGED slotVars
    BY <1>5 DEF FinishJob, Goto
  <2>2. QED
    BY <2>1, SlotInvFrame DEF TypeOK, Holding
<1>6. ASSUME NEW j \in Jobs, ReleaseSlot(j)
      PROVE  SlotInv'
  BY <1>6, ReleaseKeepsSlotInv
<1>7. CASE Restart
  BY <1>7, RestartKeepsSlotInv
<1>8. CASE UNCHANGED vars
  BY <1>8, SlotInvFrame DEF vars, slotVars
<1>9. QED
  BY <1>1, <1>2, <1>3, <1>4, <1>5, <1>6, <1>7, <1>8 DEF Next, System

\* jobExecutionSlots counts its holders, never exceeds its capacity, and no
\* goroutine is blocked on it while there is room; the goroutines blocked are
\* those in its queue.
LEMMA SlotsKept == Spec => [](SlotsConserved /\ QueueIsWaiters)
<1>1. Init => SlotInv
  <2> SUFFICES ASSUME Init PROVE SlotInv
    OBVIOUS
  <2>1. InPC(Holding) = {}
    BY DEF Init, InPC, Holding
  <2>2. SlotsConserved
    BY <2>1, FS_EmptySet, JobsAssumption DEF Init, SlotsConserved, JobsAssumption
  <2>3. QueueIsWaiters
    BY DEF Init, QueueIsWaiters
  <2>4. QED
    BY <2>2, <2>3 DEF SlotInv
<1>2. TypeOK /\ SlotInv /\ [Next]_vars => SlotInv'
  BY SlotInvStep
<1>3. SlotInv => SlotsConserved /\ QueueIsWaiters
  BY DEF SlotInv
<1>4. QED
  BY <1>1, <1>2, <1>3, TypeCorrect, PTL DEF Spec

-----------------------------------------------------------------------------
(* The registry.                                                           *)

RegInv == RetentionBound /\ UnfinishedJobsListed /\ RunningJobsAlive

\* The registry is finite, so its cardinality is a number that evictions lower.
LEMMA RegistryFinite ==
  ASSUME TypeOK, NEW kept \in SUBSET registry
  PROVE  /\ IsFiniteSet(registry) /\ IsFiniteSet(kept)
         /\ Cardinality(registry) \in Nat /\ Cardinality(kept) \in Nat
         /\ Cardinality(kept) <= Cardinality(registry)
<1>1. IsFiniteSet(registry)
  BY FS_Subset, JobsAssumption DEF TypeOK, JobsAssumption
<1>2. QED
  BY <1>1, FS_Subset, FS_CardinalityType

\* The two outcomes of registerJobLocked: the job is added after an eviction
\* that removes one oldest finished job and only when the registry was full,
\* or it is refused, and then the registry is full of running jobs.
LEMMA RegisterOutcome ==
  ASSUME TypeOK, RetentionBound, NEW j \in Jobs, RegisterJobLocked(j)
  PROVE  /\ pc[j] = "stamped"
         /\ \/ \E kept \in SUBSET registry :
                 /\ registry' = kept \union {j}
                 /\ Cardinality(kept) < MaxRetained
                 /\ kept = registry \/ \E k \in registry : OldestFinished(k) /\ kept = registry \ {k}
                 /\ pc' = [pc EXCEPT ![j] = "spawned"]
                 /\ UNCHANGED status
            \/ /\ UNCHANGED registry
               /\ Cardinality(registry) = MaxRetained
               /\ Finished = {}
               /\ pc' = [pc EXCEPT ![j] = "refused"]
               /\ status' = [status EXCEPT ![j] = "failed"]
<1> USE JobsAssumption DEF JobsAssumption
<1>1. Cardinality(registry) \in Nat /\ Cardinality(registry) <= MaxRetained
  BY RegistryFinite DEF RetentionBound
<1>2. CASE (~Full(registry) \/ Finished = {}) /\ AddOrRefuse(j, registry)
  <2>1. CASE Full(registry)
    BY <1>1, <1>2, <2>1 DEF AddOrRefuse, Full, Goto, RegisterJobLocked
  <2>2. CASE ~Full(registry)
    BY <1>1, <1>2, <2>2 DEF AddOrRefuse, Full, Goto, RegisterJobLocked
  <2>3. QED
    BY <2>1, <2>2
<1>3. ASSUME NEW k \in registry, OldestFinished(k), AddOrRefuse(j, registry \ {k})
      PROVE  \E kept \in SUBSET registry :
                 /\ registry' = kept \union {j}
                 /\ Cardinality(kept) < MaxRetained
                 /\ kept = registry \/ \E m \in registry : OldestFinished(m) /\ kept = registry \ {m}
                 /\ pc' = [pc EXCEPT ![j] = "spawned"]
                 /\ UNCHANGED status
  <2>1. Cardinality(registry \ {k}) = Cardinality(registry) - 1
    BY RegistryFinite, FS_RemoveElement
  <2>2. Cardinality(registry \ {k}) < MaxRetained
    BY <1>1, <2>1
  <2>3. /\ registry' = (registry \ {k}) \union {j} /\ pc' = [pc EXCEPT ![j] = "spawned"]
        /\ UNCHANGED status
    <3>1. ~Full(registry \ {k})
      BY <1>1, <2>1 DEF Full
    <3>2. QED
      BY <1>3, <3>1 DEF AddOrRefuse, Goto
  <2>4. QED
    BY <1>3, <2>2, <2>3
<1>4. QED
  BY <1>2, <1>3 DEF RegisterJobLocked

\* pruneJobsLocked is dead code: the registry is never over its bound.
LEMMA PruneIdle ==
  ASSUME RetentionBound, NEW st, PruneJobsLocked(st)
  PROVE  registry' = registry
BY DEF RetentionBound, PruneJobsLocked

\* Registration keeps the registry within its bound and full of live jobs.
LEMMA RegisterKeepsRegInv ==
  ASSUME TypeOK, RegInv, NEW j \in Jobs, RegisterJobLocked(j)
  PROVE  RegInv'
<1> USE JobsAssumption DEF JobsAssumption
<1>1. RetentionBound /\ UnfinishedJobsListed /\ RunningJobsAlive /\ pc \in [Jobs -> PC]
      /\ status \in [Jobs -> Status] /\ registry \in SUBSET Jobs
  BY DEF RegInv, TypeOK
<1>2. pc[j] = "stamped"
  BY <1>1, RegisterOutcome
<1>3. ASSUME NEW kept \in SUBSET registry,
             registry' = kept \union {j}, Cardinality(kept) < MaxRetained,
             kept = registry \/ \E k \in registry : OldestFinished(k) /\ kept = registry \ {k},
             pc' = [pc EXCEPT ![j] = "spawned"], UNCHANGED status
      PROVE  RegInv'
  <2>1. RetentionBound'
    <3>1. j \notin kept
      BY <1>1, <1>2 DEF RunningJobsAlive
    <3>2. Cardinality(registry') = Cardinality(kept) + 1
      BY <1>3, <3>1, RegistryFinite, FS_AddElement
    <3>3. QED
      BY <1>3, <3>2, RegistryFinite DEF RetentionBound
  <2>2. UnfinishedJobsListed'
    <3>1. \A i \in registry : status[i] = "running" => i \in kept
      BY <1>3 DEF OldestFinished, Finished
    <3>2. QED
      BY <1>1, <1>2, <1>3, <3>1 DEF UnfinishedJobsListed, RunningJobsAlive, InPC, Unfinished
  <2>3. RunningJobsAlive'
    BY <1>1, <1>2, <1>3 DEF RunningJobsAlive, Unfinished
  <2>4. QED
    BY <2>1, <2>2, <2>3 DEF RegInv
<1>4. ASSUME UNCHANGED registry,
             pc' = [pc EXCEPT ![j] = "refused"], status' = [status EXCEPT ![j] = "failed"]
      PROVE  RegInv'
  <2>1. RetentionBound'
    BY <1>1, <1>4 DEF RetentionBound
  <2>2. UnfinishedJobsListed'
    BY <1>1, <1>2, <1>4 DEF UnfinishedJobsListed, InPC, Unfinished
  <2>3. RunningJobsAlive'
    BY <1>1, <1>2, <1>4 DEF RunningJobsAlive, Unfinished
  <2>4. QED
    BY <2>1, <2>2, <2>3 DEF RegInv
<1>5. QED
  BY <1>1, <1>3, <1>4, RegisterOutcome

\* Every step keeps the bound of the registry and the jobs that it lists.
LEMMA RegInvStep ==
  ASSUME TypeOK, SlotInv, RegInv, [Next]_vars
  PROVE  RegInv'
<1> USE DEF RegInv
<1>1. /\ pc \in [Jobs -> PC] /\ status \in [Jobs -> Status] /\ registry \in SUBSET Jobs
  BY DEF TypeOK
<1>2. ASSUME NEW j \in Jobs, NewJob(j)
      PROVE  RegInv'
  BY <1>1, <1>2 DEF NewJob, Goto, RetentionBound, UnfinishedJobsListed, RunningJobsAlive, InPC, Unfinished
<1>3. ASSUME NEW j \in Jobs, RegisterJobLocked(j)
      PROVE  RegInv'
  BY <1>3, RegisterKeepsRegInv
<1>4. ASSUME NEW j \in Jobs, AcquireJobExecutionSlot(j)
      PROVE  RegInv'
  <2>1. /\ pc[j] = "spawned" /\ UNCHANGED <<registry, status>>
        /\ \/ pc' = [pc EXCEPT ![j] = "working"]
           \/ pc' = [pc EXCEPT ![j] = "waiting"]
    BY <1>4 DEF AcquireJobExecutionSlot, Goto, jobVars
  <2>2. QED
    BY <1>1, <2>1 DEF RetentionBound, UnfinishedJobsListed, RunningJobsAlive, InPC, Unfinished
<1>5. ASSUME NEW j \in Jobs, RunCommand(j)
      PROVE  RegInv'
  BY <1>5 DEF RunCommand, jobVars, RetentionBound, UnfinishedJobsListed, RunningJobsAlive, InPC
<1>6. ASSUME NEW j \in Jobs, FinishJob(j)
      PROVE  RegInv'
  <2>1. /\ pc[j] = "working" /\ pc' = [pc EXCEPT ![j] = "reporting"]
        /\ \E result \in {"failed", "success"} : status' = [status EXCEPT ![j] = result]
        /\ registry' = registry
    BY <1>6, PruneIdle DEF FinishJob, Goto, Outcome
  <2>2. QED
    BY <1>1, <2>1 DEF RetentionBound, UnfinishedJobsListed, RunningJobsAlive, InPC, Unfinished
<1>7. ASSUME NEW j \in Jobs, ReleaseSlot(j)
      PROVE  RegInv'
  <2>1. /\ pc[j] = "reporting" /\ UNCHANGED <<registry, status>>
        /\ \/ pc' = [pc EXCEPT ![j] = "done"]
           \/ \E h \in Jobs : pc[h] = "waiting" /\ pc' = [pc EXCEPT ![j] = "done", ![h] = "working"]
    BY <1>7, HeadWaits DEF ReleaseSlot, Goto, jobVars
  <2>2. QED
    BY <1>1, <2>1 DEF RetentionBound, UnfinishedJobsListed, RunningJobsAlive, InPC, Unfinished
<1>8. CASE Restart
  <2>1. registry' = {} /\ UNCHANGED status
    BY <1>8 DEF Restart
  <2>2. RetentionBound'
    BY <2>1, FS_EmptySet, JobsAssumption DEF RetentionBound, JobsAssumption
  <2>3. \A j \in Jobs : /\ pc'[j] \notin Unfinished
                        /\ pc'[j] \in {"idle", "stamped", "lost"}
                             <=> pc[j] \in Unfinished \union {"idle", "stamped", "lost"}
    BY <1>1, <1>8 DEF Restart, Unfinished, PC
  <2>4. UnfinishedJobsListed' /\ RunningJobsAlive'
    BY <1>1, <2>1, <2>3 DEF UnfinishedJobsListed, RunningJobsAlive, InPC
  <2>5. QED
    BY <2>2, <2>4
<1>9. CASE UNCHANGED vars
  BY <1>9 DEF vars, RetentionBound, UnfinishedJobsListed, RunningJobsAlive, InPC
<1>10. QED
  BY <1>2, <1>3, <1>4, <1>5, <1>6, <1>7, <1>8, <1>9 DEF Next, System

IInv == TypeOK /\ SlotInv /\ RegInv

\* The types, the slots and the registry together are an invariant.
LEMMA IInvCorrect == Spec => []IInv
<1>1. Init => RegInv
  <2> SUFFICES ASSUME Init PROVE RegInv
    OBVIOUS
  <2>1. Cardinality(registry) = 0
    BY FS_EmptySet DEF Init
  <2>2. QED
    BY <2>1, JobsAssumption
       DEF Init, RegInv, RetentionBound, UnfinishedJobsListed, RunningJobsAlive, InPC,
           Unfinished, JobsAssumption
<1>2. TypeOK /\ SlotInv /\ RegInv /\ [Next]_vars => RegInv'
  BY RegInvStep
<1>3. SlotsConserved /\ QueueIsWaiters => SlotInv
  BY DEF SlotInv
<1>4. TypeOK /\ SlotInv /\ RegInv => IInv
  BY DEF IInv
<1>5. QED
  BY <1>1, <1>2, <1>3, <1>4, TypeCorrect, SlotsKept, PTL DEF Spec

\* The registry stays within maxRetainedJobs, lists every job that has not
\* published its result, and its statuses follow the goroutines.
LEMMA RegistryKept ==
  Spec => [](RetentionBound /\ UnfinishedJobsListed /\ RunningJobsAlive)
<1>1. IInv => RetentionBound /\ UnfinishedJobsListed /\ RunningJobsAlive
  BY DEF IInv, RegInv
<1>2. QED
  BY <1>1, IInvCorrect, PTL

\* A job shows "success" only when all its commands ran without error, whatever
\* happened to other jobs and to the process in the meantime.
LEMMA SuccessHonest == Spec => []SuccessMeansAllRan
<1>1. Init => SuccessMeansAllRan
  BY DEF Init, SuccessMeansAllRan
<1>2. IInv /\ SuccessMeansAllRan /\ [Next]_vars => SuccessMeansAllRan'
  <2> SUFFICES ASSUME IInv, SuccessMeansAllRan, [Next]_vars
               PROVE  SuccessMeansAllRan'
    OBVIOUS
  <2>1. /\ status \in [Jobs -> Status] /\ todo \in [Jobs -> 0..MaxCommands]
        /\ failure \in [Jobs -> BOOLEAN] /\ RunningJobsAlive
    BY DEF IInv, TypeOK, RegInv
  <2>2. ASSUME NEW j \in Jobs, NewJob(j)
        PROVE  SuccessMeansAllRan'
    <3>1. status[j] = "running"
      BY <2>1, <2>2 DEF NewJob, RunningJobsAlive
    <3>2. QED
      BY <2>1, <2>2, <3>1 DEF NewJob, SuccessMeansAllRan
  <2>3. ASSUME NEW j \in Jobs, RegisterJobLocked(j)
        PROVE  SuccessMeansAllRan'
    <3>1. UNCHANGED workVars /\ (UNCHANGED status \/ status' = [status EXCEPT ![j] = "failed"])
      BY <2>3 DEF RegisterJobLocked, AddOrRefuse
    <3>2. QED
      BY <2>1, <3>1 DEF SuccessMeansAllRan, workVars
  <2>4. ASSUME NEW j \in Jobs, AcquireJobExecutionSlot(j) \/ ReleaseSlot(j)
        PROVE  SuccessMeansAllRan'
    BY <2>4 DEF AcquireJobExecutionSlot, ReleaseSlot, jobVars, workVars, SuccessMeansAllRan
  <2>5. ASSUME NEW j \in Jobs, RunCommand(j)
        PROVE  SuccessMeansAllRan'
    <3>1. status[j] = "running" /\ UNCHANGED status
      BY <2>1, <2>5 DEF RunCommand, RunningJobsAlive, Unfinished, jobVars
    <3>2. \A k \in Jobs \ {j} : todo'[k] = todo[k] /\ failure'[k] = failure[k]
      BY <2>1, <2>5 DEF RunCommand
    <3>3. QED
      BY <3>1, <3>2 DEF SuccessMeansAllRan
  <2>6. ASSUME NEW j \in Jobs, FinishJob(j)
        PROVE  SuccessMeansAllRan'
    <3>1. /\ UNCHANGED workVars /\ (todo[j] = 0 \/ failure[j])
          /\ status' = [status EXCEPT ![j] = Outcome(j)]
      BY <2>6 DEF FinishJob, WorkOver
    <3>2. Outcome(j) = "success" => todo[j] = 0 /\ ~failure[j]
      BY <2>1, <3>1 DEF Outcome
    <3>3. QED
      BY <2>1, <3>1, <3>2 DEF SuccessMeansAllRan, workVars
  <2>7. CASE Restart \/ UNCHANGED vars
    BY <2>7 DEF Restart, vars, workVars, SuccessMeansAllRan
  <2>8. QED
    BY <2>2, <2>3, <2>4, <2>5, <2>6, <2>7 DEF Next, System
<1>3. QED
  BY <1>1, <1>2, IInvCorrect, PTL DEF Spec

\* The registry is bounded, lists every job that still works, and tells the
\* truth about each, "success" included, for every bound and number of jobs.
THEOREM RegistrySafe == Spec => []RegistrySound
<1>1. RetentionBound /\ UnfinishedJobsListed /\ RunningJobsAlive /\ SuccessMeansAllRan => RegistrySound
  BY DEF RegistrySound
<1>2. QED
  BY <1>1, RegistryKept, SuccessHonest, PTL

\* No slot of jobExecutionSlots is lost, shared or withheld, for every number
\* of jobs and slots.
THEOREM SlotsSafe == Spec => []SlotsSound
<1>1. SlotsConserved /\ QueueIsWaiters => SlotsSound
  BY DEF SlotsSound
<1>2. QED
  BY <1>1, SlotsKept, PTL

\* No submission is turned away while an entry of the registry could make room.
THEOREM RefusalsJustified == Spec => RefusalJustified
<1> DEFINE Justified ==
      \A j \in Jobs : pc[j] # "refused" /\ pc'[j] = "refused"
                        => /\ Cardinality(registry) = MaxRetained
                           /\ \A k \in registry : status[k] = "running"
<1>1. IInv /\ [Next]_vars => [Justified]_vars
  <2> SUFFICES ASSUME IInv, Next, NEW i \in Jobs, pc[i] # "refused", pc'[i] = "refused"
               PROVE  /\ Cardinality(registry) = MaxRetained
                      /\ \A k \in registry : status[k] = "running"
    OBVIOUS
  <2>1. TypeOK /\ RetentionBound /\ pc \in [Jobs -> PC]
    BY DEF IInv, RegInv, TypeOK
  <2>2. ASSUME NEW j \in Jobs, RegisterJobLocked(j)
        PROVE  /\ Cardinality(registry) = MaxRetained
               /\ \A k \in registry : status[k] = "running"
    <3>1. CASE pc' = [pc EXCEPT ![j] = "spawned"]
      BY <2>1, <3>1
    <3>2. CASE Cardinality(registry) = MaxRetained /\ Finished = {}
      BY <3>2 DEF Finished
    <3>3. QED
      BY <2>1, <2>2, <3>1, <3>2, RegisterOutcome
  <2>3. ASSUME NEW j \in Jobs, ReleaseSlot(j)
        PROVE  FALSE
    <3>1. \/ pc' = [pc EXCEPT ![j] = "done"]
          \/ \E h \in Jobs : pc' = [pc EXCEPT ![j] = "done", ![h] = "working"]
      BY <2>1, <2>3, HeadWaits DEF ReleaseSlot, Goto, IInv
    <3>2. QED
      BY <2>1, <3>1
  <2>4. ASSUME NEW j \in Jobs,
               NewJob(j) \/ AcquireJobExecutionSlot(j) \/ RunCommand(j) \/ FinishJob(j)
        PROVE  FALSE
    BY <2>1, <2>4 DEF NewJob, AcquireJobExecutionSlot, RunCommand, FinishJob, Goto
  <2>5. ~ Restart
    BY <2>1 DEF Restart, PC, Unfinished
  <2>6. QED
    BY <2>2, <2>3, <2>4, <2>5 DEF Next, System
<1>2. QED
  BY <1>1, IInvCorrect, PTL DEF Spec, RefusalJustified

\* No job leaves the registry but in a restart and for a new one, whose
\* admission forgets the oldest finished job: pruneJobsLocked has nothing to do.
THEOREM AdmissionForgets == Spec => OnlyAdmissionForgets
<1> DEFINE Forgets ==
      \/ registry \subseteq registry'
      \/ registry' = {} /\ tokens' = 0
      \/ \E k \in Finished, j \in Jobs :
           /\ \A m \in Finished : started[k] <= started[m]
           /\ pc[j] = "stamped" /\ pc'[j] = "spawned"
           /\ registry' = (registry \ {k}) \union {j}
<1>1. IInv /\ [Next]_vars => [Forgets]_vars
  <2> SUFFICES ASSUME IInv, Next
               PROVE  Forgets
    OBVIOUS
  <2>1. TypeOK /\ RetentionBound /\ pc \in [Jobs -> PC]
    BY DEF IInv, RegInv, TypeOK
  <2>2. ASSUME NEW j \in Jobs, RegisterJobLocked(j)
        PROVE  Forgets
    <3>1. ASSUME NEW kept \in SUBSET registry, registry' = kept \union {j},
                 kept = registry \/ \E k \in registry : OldestFinished(k) /\ kept = registry \ {k},
                 pc[j] = "stamped", pc' = [pc EXCEPT ![j] = "spawned"]
          PROVE  Forgets
      <4>1. CASE kept = registry
        BY <3>1, <4>1
      <4>2. ASSUME NEW k \in registry, OldestFinished(k), kept = registry \ {k}
            PROVE  Forgets
        <5>1. k \in Finished /\ (\A m \in Finished : started[k] <= started[m]) /\ pc'[j] = "spawned"
          BY <2>1, <3>1, <4>2 DEF OldestFinished
        <5>2. QED
          BY <3>1, <4>2, <5>1
      <4>3. QED
        BY <3>1, <4>1, <4>2
    <3>2. CASE UNCHANGED registry
      BY <3>2
    <3>3. QED
      BY <2>1, <2>2, <3>1, <3>2, RegisterOutcome
  <2>3. ASSUME NEW j \in Jobs, FinishJob(j)
        PROVE  Forgets
    BY <2>1, <2>3 DEF FinishJob, PruneJobsLocked, RetentionBound
  <2>4. ASSUME NEW j \in Jobs, NewJob(j) \/ AcquireJobExecutionSlot(j) \/ RunCommand(j) \/ ReleaseSlot(j)
        PROVE  Forgets
    BY <2>4 DEF NewJob, AcquireJobExecutionSlot, RunCommand, ReleaseSlot, jobVars
  <2>5. CASE Restart
    BY <2>5 DEF Restart
  <2>6. QED
    BY <2>2, <2>3, <2>4, <2>5 DEF Next, System
<1>2. QED
  BY <1>1, IInvCorrect, PTL DEF Spec, OnlyAdmissionForgets

-----------------------------------------------------------------------------
(* The abstract service.                                                   *)

\* The abstract module counts as this one does.
LEMMA SameCount == \A S : Service!Cardinality(S) = Cardinality(S)
BY DEF Service!Cardinality, Cardinality

\* The phase of each label.
LEMMA PhaseValues ==
  /\ PhaseOf("idle") = "new" /\ PhaseOf("stamped") = "submitted"
  /\ PhaseOf("spawned") = "accepted" /\ PhaseOf("waiting") = "accepted"
  /\ PhaseOf("working") = "executing" /\ PhaseOf("reporting") = "ended"
  /\ PhaseOf("done") = "ended" /\ PhaseOf("refused") = "refused"
  /\ PhaseOf("lost") = "lost"
BY DEF PhaseOf

\* The abstract phase of a job follows from where the job stands.
LEMMA PhaseBarAt ==
  ASSUME NEW j \in Jobs
  PROVE  phaseBar[j] = PhaseOf(pc[j])
BY DEF phaseBar

\* A job that moves in pc moves in the abstract phase.
LEMMA PhaseBarMoves ==
  ASSUME NEW j \in Jobs, pc \in [Jobs -> PC], NEW label, pc' = [pc EXCEPT ![j] = label]
  PROVE  Service!Move(j, PhaseOf(pc[j]), PhaseOf(label))
<1>1. phaseBar' = [k \in Jobs |-> PhaseOf(pc'[k])]
  BY DEF phaseBar
<1>2. \A k \in Jobs : PhaseOf(pc'[k]) = IF k = j THEN PhaseOf(label) ELSE phaseBar[k]
  BY DEF phaseBar
<1>3. [phaseBar EXCEPT ![j] = PhaseOf(label)]
        = [k \in Jobs |-> IF k = j THEN PhaseOf(label) ELSE phaseBar[k]]
  BY DEF phaseBar
<1>4. QED
  BY <1>1, <1>2, <1>3, PhaseBarAt DEF Service!Move

\* A job that moves between labels of one phase does not move there.
LEMMA PhaseBarStutters ==
  ASSUME NEW j \in Jobs, pc \in [Jobs -> PC], NEW label, pc' = [pc EXCEPT ![j] = label],
         PhaseOf(label) = PhaseOf(pc[j])
  PROVE  phaseBar' = phaseBar
<1>1. \A k \in Jobs : PhaseOf(pc'[k]) = PhaseOf(pc[k])
  OBVIOUS
<1>2. QED
  BY <1>1 DEF phaseBar

\* The jobs the service executes hold slots, so a free slot means that the
\* service has room.
LEMMA ExecutingHold ==
  ASSUME IInv
  PROVE  /\ Service!Executing = {j \in Jobs : pc[j] = "working"}
         /\ Service!Open = InPC(Unfinished)
<1>1. \A j \in Jobs : /\ phaseBar[j] = "executing" <=> pc[j] = "working"
                      /\ phaseBar[j] \in {"accepted", "executing"} <=> pc[j] \in Unfinished
  BY DEF phaseBar, PhaseOf, IInv, TypeOK, PC, Unfinished
<1>2. QED
  BY <1>1 DEF Service!Executing, Service!Open, InPC

\* A goroutine that takes a slot finds fewer jobs executing than there are slots.
LEMMA RoomToBegin ==
  ASSUME IInv, NEW H \in SUBSET InPC(Holding), Cardinality(H) < Slots,
         \A j \in Jobs : pc[j] = "working" => j \in H
  PROVE  Cardinality(Service!Executing) < Slots
<1>1. Service!Executing \subseteq H
  BY ExecutingHold
<1>2. IsFiniteSet(H) /\ Cardinality(H) \in Nat
  BY HoldersFinite, FS_Subset, FS_CardinalityType
<1>3. Cardinality(Service!Executing) <= Cardinality(H) /\ Cardinality(Service!Executing) \in Nat
  BY <1>1, <1>2, FS_Subset, FS_CardinalityType
<1>4. QED
  BY <1>2, <1>3, JobsAssumption DEF JobsAssumption

\* Registration either accepts, forgetting only jobs that have ended, or
\* refuses for want of room.
LEMMA RegisterRefines ==
  ASSUME IInv, NEW j \in Jobs, RegisterJobLocked(j)
  PROVE  Service!Accept(j) \/ Service!Refuse(j)
<1>1. /\ TypeOK /\ RegInv /\ RetentionBound /\ RunningJobsAlive /\ UnfinishedJobsListed
      /\ pc \in [Jobs -> PC] /\ pc[j] = "stamped" /\ phaseBar[j] = "submitted"
  BY RegisterOutcome, PhaseValues, PhaseBarAt DEF IInv, RegInv, TypeOK
<1>2. ASSUME NEW kept \in SUBSET registry,
             registry' = kept \union {j}, Cardinality(kept) < MaxRetained,
             kept = registry \/ \E k \in registry : OldestFinished(k) /\ kept = registry \ {k},
             pc' = [pc EXCEPT ![j] = "spawned"]
      PROVE  Service!Accept(j)
  <2>1. Service!Move(j, "submitted", "accepted")
    BY <1>1, <1>2, PhaseValues, PhaseBarMoves
  <2>2. InPC(Unfinished) \subseteq kept
    BY <1>1, <1>2 DEF OldestFinished, Finished, UnfinishedJobsListed
  <2>3. QED
    BY <1>2, <2>1, <2>2, ExecutingHold, SameCount DEF Service!Accept
<1>3. ASSUME UNCHANGED registry, Cardinality(registry) = MaxRetained, Finished = {},
             pc' = [pc EXCEPT ![j] = "refused"]
      PROVE  Service!Refuse(j)
  <2>1. Service!Move(j, "submitted", "refused")
    BY <1>1, <1>3, PhaseValues, PhaseBarMoves
  <2>2. registry \subseteq InPC(Unfinished)
    BY <1>1, <1>3 DEF Finished, RunningJobsAlive, InPC, TypeOK
  <2>3. QED
    BY <1>3, <2>1, <2>2, ExecutingHold, SameCount, JobsAssumption
       DEF Service!Refuse, JobsAssumption
<1>4. QED
  BY <1>1, <1>2, <1>3, RegisterOutcome

\* Every step of the panel is a step of the service or a stutter.
LEMMA StepRefines ==
  ASSUME IInv, [Next]_vars
  PROVE  [Service!Next]_(Service!vars)
<1>1. /\ TypeOK /\ SlotInv /\ RegInv /\ RetentionBound
      /\ pc \in [Jobs -> PC] /\ Slots \in Nat
  BY JobsAssumption DEF IInv, TypeOK, RegInv, JobsAssumption
<1>2. ASSUME NEW j \in Jobs, NewJob(j)
      PROVE  Service!Submit(j)
  <2>1. Service!Move(j, "new", "submitted")
    BY <1>1, <1>2, PhaseValues, PhaseBarMoves DEF NewJob, Goto
  <2>2. QED
    BY <1>2, <2>1 DEF NewJob, Service!Submit, Service!Move
<1>3. ASSUME NEW j \in Jobs, RegisterJobLocked(j)
      PROVE  Service!Accept(j) \/ Service!Refuse(j)
  BY <1>3, RegisterRefines
<1>4. ASSUME NEW j \in Jobs, AcquireJobExecutionSlot(j)
      PROVE  Service!Begin(j) \/ UNCHANGED Service!vars
  <2>1. pc[j] = "spawned" /\ UNCHANGED registry
    BY <1>4 DEF AcquireJobExecutionSlot, jobVars
  <2>2. CASE SlotFree
    <3>1. pc' = [pc EXCEPT ![j] = "working"]
      BY <1>4, <2>2 DEF AcquireJobExecutionSlot, Goto
    <3>2. Service!Move(j, "accepted", "executing")
      BY <1>1, <2>1, <3>1, PhaseValues, PhaseBarMoves
    <3>3. Cardinality(InPC(Holding)) < Slots
      BY <1>1, <2>2 DEF SlotFree, SlotInv, SlotsConserved
    <3>4. Cardinality(Service!Executing) < Slots
      BY <3>3, RoomToBegin DEF InPC, Holding
    <3>5. QED
      BY <2>1, <3>2, <3>4, SameCount DEF Service!Begin
  <2>3. CASE ~SlotFree
    <3>1. pc' = [pc EXCEPT ![j] = "waiting"]
      BY <1>4, <2>3 DEF AcquireJobExecutionSlot, Goto
    <3>2. phaseBar' = phaseBar
      BY <1>1, <2>1, <3>1, PhaseValues, PhaseBarStutters
    <3>3. QED
      BY <2>1, <3>2 DEF Service!vars
  <2>4. QED
    BY <2>2, <2>3
<1>5. ASSUME NEW j \in Jobs, RunCommand(j)
      PROVE  UNCHANGED Service!vars
  BY <1>5 DEF RunCommand, jobVars, Service!vars, phaseBar
<1>6. ASSUME NEW j \in Jobs, FinishJob(j)
      PROVE  Service!End(j)
  <2>1. pc[j] = "working" /\ pc' = [pc EXCEPT ![j] = "reporting"] /\ registry' = registry
    BY <1>1, <1>6, PruneIdle DEF FinishJob, Goto
  <2>2. Service!Move(j, "executing", "ended")
    BY <1>1, <2>1, PhaseValues, PhaseBarMoves
  <2>3. QED
    BY <2>1, <2>2 DEF Service!End
<1>7. ASSUME NEW j \in Jobs, ReleaseSlot(j)
      PROVE  (\E h \in Jobs : Service!Begin(h)) \/ UNCHANGED Service!vars
  <2>1. pc[j] = "reporting" /\ UNCHANGED registry /\ j \in InPC(Holding)
    BY <1>7 DEF ReleaseSlot, jobVars, InPC, Holding
  <2>2. CASE queue = <<>>
    <3>1. pc' = [pc EXCEPT ![j] = "done"]
      BY <1>7, <2>2 DEF ReleaseSlot, Goto
    <3>2. phaseBar' = phaseBar
      BY <1>1, <2>1, <3>1, PhaseValues, PhaseBarStutters
    <3>3. QED
      BY <2>1, <3>2 DEF Service!vars
  <2>3. CASE queue # <<>>
    <3>1. PICK h \in Jobs : /\ pc[h] = "waiting"
                            /\ pc' = [pc EXCEPT ![j] = "done", ![h] = "working"]
      BY <1>1, <1>7, <2>3, HeadWaits DEF ReleaseSlot
    <3>2. Service!Move(h, "accepted", "executing")
      <4> DEFINE released == [pc EXCEPT ![j] = "done"]
      <4>1. \A k \in Jobs : PhaseOf(released[k]) = phaseBar[k]
        BY <1>1, <2>1, PhaseValues, PhaseBarAt
      <4>2. \A k \in Jobs : pc'[k] = IF k = h THEN "working" ELSE released[k]
        BY <1>1, <2>1, <3>1
      <4> HIDE DEF released
      <4>3. \A k \in Jobs : PhaseOf(pc'[k]) = IF k = h THEN "executing" ELSE phaseBar[k]
        BY <4>1, <4>2, PhaseValues
      <4>4. phaseBar[h] = "accepted"
        BY <3>1, PhaseValues, PhaseBarAt
      <4>5. phaseBar' = [k \in Jobs |-> IF k = h THEN "executing" ELSE phaseBar[k]]
        BY <4>3 DEF phaseBar
      <4>6. phaseBar = [k \in Jobs |-> phaseBar[k]]
        BY DEF phaseBar
      <4>7. QED
        BY <4>4, <4>5, <4>6 DEF Service!Move
    <3>3. Cardinality(InPC(Holding) \ {j}) < Slots
      <4>1. Cardinality(InPC(Holding) \ {j}) = Cardinality(InPC(Holding)) - 1
        BY <2>1, HoldersFinite, FS_RemoveElement
      <4>2. QED
        BY <1>1, <4>1, HoldersFinite DEF SlotInv, SlotsConserved
    <3>4. Cardinality(Service!Executing) < Slots
      BY <2>1, <3>3, RoomToBegin DEF InPC, Holding
    <3>5. QED
      BY <2>1, <3>2, <3>4, SameCount DEF Service!Begin
  <2>4. QED
    BY <2>2, <2>3
<1>8. CASE Restart
  <2>1. phaseBar' = [j \in Jobs |-> IF phaseBar[j] \in {"submitted", "accepted", "executing"}
                                    THEN "lost" ELSE phaseBar[j]]
    BY <1>1, <1>8 DEF Restart, phaseBar, PhaseOf, PC, Unfinished
  <2>2. Service!Crash
    BY <1>8, <2>1 DEF Restart, Service!Crash
  <2>3. QED
    BY <2>2 DEF Service!Next
<1>9. CASE UNCHANGED vars
  BY <1>9 DEF vars, Service!vars, phaseBar
<1>10. QED
  BY <1>2, <1>3, <1>4, <1>5, <1>6, <1>7, <1>8, <1>9
     DEF Next, System, Service!Next, Service!Serve

\* The registry, the channel and the goroutines implement the abstract service.
THEOREM JobsRefineService == Spec => ServiceSafety
<1>1. Init => Service!Init
  BY DEF Init, Service!Init, phaseBar, PhaseOf
<1>2. IInv /\ [Next]_vars => [Service!Next]_(Service!vars)
  BY StepRefines
<1>3. QED
  BY <1>1, <1>2, IInvCorrect, PTL DEF Spec, ServiceSafety, Service!SafeSpec

-----------------------------------------------------------------------------
(* SITES                                                                   *)

-----------------------------------------------------------------------------
(* What a request is                                                       *)

Before == {"download", "install", "database", "setup", "change"}
After == {"test", "undo", "reload", "hosts", "override"}

Conf(name) == <<name, "conf">>
Disabled(name) == <<name, "disabled">>

\* The paths and the content of a request, by its action.
Shape(q) ==
  /\ q.from[1] = q.to[1]
  /\ q.action \in {"create", "wordpress"} => q.to = Conf(q.to[1])
  /\ q.action = "disable" => q.from = Conf(q.to[1]) /\ q.to = Disabled(q.to[1])
  /\ q.action = "enable" => q.from = Disabled(q.to[1]) /\ q.to = Conf(q.to[1])
  /\ q.step \notin Resting /\ q.action \in {"create", "edit", "wordpress"} => q.content \in Contents
  /\ q.step \in {"hosts", "override"} => q.action = "create"
  /\ q.step \in Before \ {"change"} => q.action = "wordpress"

SiteTypeInv ==
  /\ SiteTypeOK
  /\ \A r \in Requests : Shape(requests[r])
  /\ \A r \in Requests \ server.handlers : requests[r].step = "idle"

\* What a request makes of the files that it found.
Made(q) ==
  CASE q.action \in {"create", "edit", "wordpress"} -> [q.before EXCEPT ![q.to] = q.content]
    [] q.action \in {"disable", "enable"} -> [q.before EXCEPT ![q.to] = q.before[q.from], ![q.from] = None]
    [] q.action = "delete" -> [q.before EXCEPT ![q.to] = None]

Active(r) == requests[r].step \notin Resting
Domain(r) == requests[r].to[1]
ValidIn(fs, n) == fs[Conf(n)] = None \/ fs[Conf(n)].valid

\* Where handlers work apart, each finds the files of its domain as it left them, and what
\* it would put back is valid.
Undoable(r) ==
  LET q == requests[r] IN
  /\ \A p \in Paths : p[1] = Domain(r) => files[p] = IF q.step \in Before THEN q.before[p] ELSE Made(q)[p]
  /\ q.old = q.before[q.to]
  /\ ValidIn(q.before, Domain(r))
  /\ q.action \in {"disable", "enable"} => q.before[q.to] = None /\ q.before[q.from] # None

FilesInv ==
  Undisturbed =>
    /\ \A r, s \in Requests : r # s /\ Active(r) /\ Active(s) => Domain(r) # Domain(s)
    /\ \A r \in Requests : Active(r) => Undoable(r)
    /\ \A n \in Names : (\A r \in Requests : requests[r].step \in {"test", "undo"} => Domain(r) # n) => ValidIn(files, n)

\* A request that is alone knows all files, /etc/hosts, and what nginx serves.
AloneInv ==
  Alone =>
    /\ \A r \in Requests : Active(r) => \A p \in Paths : p[1] # Domain(r) => files[p] = requests[r].before[p]
    /\ \A r \in Requests : requests[r].step = "override" => requests[r].hosts = hosts
    /\ ~server.reloadFails =>
         /\ \A r \in Requests : requests[r].step \in {"test", "undo", "reload"} => served = Enabled(requests[r].before)
         /\ (\A r \in Requests : requests[r].step \notin {"test", "undo", "reload"}) => served = Enabled(files)

SiteInv == SiteTypeInv /\ FilesInv /\ AloneInv

-----------------------------------------------------------------------------
(* Steps of one handler *)

\* The two files of a domain.
LEMMA PathsOf == \A n \in Names : Conf(n) \in Paths /\ Disabled(n) \in Paths /\ Conf(n)[1] = n /\ Disabled(n)[1] = n
BY DEF Conf, Disabled, Paths

\* A step of one handler leaves the others as they are.
Turn(r, q) == requests' = [requests EXCEPT ![r] = q]

LEMMA Turned ==
  ASSUME SiteTypeInv, NEW r \in Requests, NEW q, Turn(r, q)
  PROVE  DOMAIN requests' = Requests /\ requests'[r] = q /\ \A s \in Requests \ {r} : requests'[s] = requests[s]
BY DEF SiteTypeInv, SiteTypeOK, Turn

LEMMA Proceeds ==
  ASSUME SiteTypeInv, NEW r \in Requests, NEW step \in Steps, Proceed(r, step)
  PROVE  /\ Turn(r, requests'[r])
         /\ requests'[r] = [requests[r] EXCEPT !.step = step]
         /\ requests'[r] \in Request /\ requests'[r].step = step
         /\ requests'[r].action = requests[r].action /\ requests'[r].from = requests[r].from
         /\ requests'[r].to = requests[r].to /\ requests'[r].content = requests[r].content
         /\ requests'[r].old = requests[r].old /\ requests'[r].before = requests[r].before
         /\ requests'[r].hosts = requests[r].hosts
<1>1. requests[r] \in Request /\ DOMAIN requests = Requests
  BY DEF SiteTypeInv, SiteTypeOK
<1>2. requests'[r] = [requests[r] EXCEPT !.step = step] /\ Turn(r, requests'[r])
  BY <1>1 DEF Proceed, Turn
<1>3. QED
  BY <1>1, <1>2 DEF Request

\* A request that goes on keeps its shape.
LEMMA ShapeKept ==
  ASSUME NEW q \in Request, NEW p \in Request, Shape(q), q.step \notin Resting,
         p.action = q.action, p.from = q.from, p.to = q.to, p.content = q.content,
         p.step \in {"hosts", "override"} => p.action = "create",
         p.step \in Before \ {"change"} => p.action = "wordpress"
  PROVE  Shape(p)
BY DEF Shape

LEMMA SiteTypeStep ==
  ASSUME SiteTypeInv, NEW r \in server.handlers, NEW q \in Request, Turn(r, q), Shape(q),
         files' \in [Paths -> Contents \cup {None}], served' \in [Names -> Contents \cup {None}],
         hosts' \subseteq Names, roots' \subseteq Names, databases' \subseteq Names,
         server' = server, count' \in 0 .. server.requests
  PROVE  SiteTypeInv'
<1>1. server.handlers \subseteq Requests /\ server \in Servers
  BY SitesAssumption DEF SiteTypeInv, SiteTypeOK, Server
<1>2. DOMAIN requests' = Requests /\ requests'[r] = q /\ \A s \in Requests \ {r} : requests'[s] = requests[s]
  BY <1>1, Turned
<1>3. SiteTypeOK'
  BY <1>1, <1>2 DEF SiteTypeInv, SiteTypeOK
<1>4. QED
  BY <1>1, <1>2, <1>3 DEF SiteTypeInv

\* A request begins.
Begins(r) ==
  \/ \E n \in Names, c \in Contents : (\E proxy \in BOOLEAN : Create(r, n, c, proxy)) \/ WordPress(r, n, c)
  \/ \E p \in Paths, c \in Contents : Edit(r, p, c)
  \/ \E n \in Names : Disable(r, n) \/ Enable(r, n)
  \/ \E p \in Paths : Delete(r, p)

\* What the check of a request has made sure of.
Started(r, q) ==
  /\ requests[r].step \in Resting /\ q \in Request /\ Shape(q)
  /\ q.step \in Before /\ q.before = files /\ q.old = files[q.to]
  /\ server.apart => \A s \in Requests \ {r} : requests[s].step \in Resting \/ requests[s].to[1] # q.to[1]
  /\ q.action \in {"disable", "enable"} => files[q.to] = None /\ files[q.from] # None

LEMMA CheckedStarts ==
  ASSUME SiteTypeInv, NEW r \in Requests, NEW action \in Actions, NEW from \in Paths, NEW to \in Paths,
         NEW content \in Contents \cup {None}, Checked(r, action, from, to, content),
         from[1] = to[1],
         action \in {"create", "wordpress"} => to = Conf(to[1]),
         action = "disable" => from = Conf(to[1]) /\ to = Disabled(to[1]),
         action = "enable" => from = Disabled(to[1]) /\ to = Conf(to[1]),
         action \in {"create", "edit", "wordpress"} => content \in Contents,
         action \in {"disable", "enable"} => files[to] = None /\ files[from] # None
  PROVE  \E q : Turn(r, q) /\ Started(r, q)
<1> DEFINE q == [step |-> IF action = "wordpress" THEN "download" ELSE "change", action |-> action,
                 from |-> from, to |-> to, content |-> content,
                 old |-> files[to], hosts |-> {}, before |-> files]
<1>1. Turn(r, q) /\ requests[r].step \in Resting
  BY DEF Checked, Turn, MayStart
<1>2. q \in Request
  BY DEF Request, Steps, SiteTypeInv, SiteTypeOK
<1>3. Shape(q) /\ q.step \in Before
  BY DEF Shape, Before, Resting
<1>4. server.apart => \A s \in Requests \ {r} : requests[s].step \in Resting \/ requests[s].to[1] # q.to[1]
  BY DEF Checked, MayStart
<1>5. Started(r, q)
  BY <1>1, <1>2, <1>3, <1>4 DEF Started
<1>6. QED
  BY <1>1, <1>5

LEMMA BeginStarts ==
  ASSUME SiteTypeInv, NEW r \in server.handlers, Begins(r)
  PROVE  /\ UNCHANGED <<files, served, hosts, databases, server>>
         /\ roots' \subseteq Names /\ count' \in 0 .. server.requests
         /\ UNCHANGED requests \/ \E q : Turn(r, q) /\ Started(r, q)
<1>t. /\ r \in Requests /\ roots \subseteq Names /\ count \in 0 .. server.requests
      /\ server.requests \in Nat
  BY SitesAssumption DEF SiteTypeInv, SiteTypeOK, Server
<1>1. ASSUME NEW action, NEW from, NEW to, NEW content, Checked(r, action, from, to, content)
      PROVE  UNCHANGED <<files, served, hosts, databases, server>> /\ count' \in 0 .. server.requests
  BY <1>1, <1>t DEF Checked
<1>a. Actions = {"create", "edit", "disable", "enable", "delete", "wordpress"}
  BY DEF Actions
<1>2. ASSUME NEW n \in Names, NEW c \in Contents, NEW proxy \in BOOLEAN, Create(r, n, c, proxy)
      PROVE  /\ UNCHANGED <<files, served, hosts, databases, server>>
             /\ roots' \subseteq Names /\ count' \in 0 .. server.requests
             /\ UNCHANGED requests \/ \E q : Turn(r, q) /\ Started(r, q)
  <2>1. roots' \subseteq Names
    BY <1>2, <1>t DEF Create
  <2>2. CASE Checked(r, "create", Conf(n), Conf(n), c)
    <3>1. Checked(r, "create", Conf(n), Conf(n), c)
      BY <2>2
    <3>2. \E q : Turn(r, q) /\ Started(r, q)
      BY <3>1, <1>t, <1>a, PathsOf, CheckedStarts
    <3>3. QED
      BY <2>1, <3>1, <3>2, <1>1
  <2>3. CASE UNCHANGED <<files, served, hosts, databases, requests, env>>
    BY <2>1, <2>3, <1>t DEF env
  <2>4. QED
    BY <1>2, <2>2, <2>3 DEF Create, Conf
<1>3. ASSUME NEW n \in Names, NEW c \in Contents, WordPress(r, n, c)
      PROVE  Checked(r, "wordpress", Conf(n), Conf(n), c) /\ UNCHANGED roots /\ \E q : Turn(r, q) /\ Started(r, q)
  <2>1. Checked(r, "wordpress", Conf(n), Conf(n), c) /\ UNCHANGED roots
    BY <1>3 DEF WordPress, Conf
  <2>2. QED
    BY <2>1, <1>t, <1>a, PathsOf, CheckedStarts
<1>4. ASSUME NEW p \in Paths, NEW c \in Contents, Edit(r, p, c)
      PROVE  Checked(r, "edit", p, p, c) /\ UNCHANGED roots /\ \E q : Turn(r, q) /\ Started(r, q)
  <2>1. Checked(r, "edit", p, p, c) /\ UNCHANGED roots
    BY <1>4 DEF Edit
  <2>2. QED
    BY <2>1, <1>t, <1>a, CheckedStarts
<1>5. ASSUME NEW n \in Names, Disable(r, n)
      PROVE  Checked(r, "disable", Conf(n), Disabled(n), None) /\ UNCHANGED roots /\ \E q : Turn(r, q) /\ Started(r, q)
  <2>1. Checked(r, "disable", Conf(n), Disabled(n), None) /\ UNCHANGED roots /\ files[Conf(n)] # None /\ files[Disabled(n)] = None
    BY <1>5 DEF Disable, Conf, Disabled
  <2>2. QED
    BY <2>1, <1>t, <1>a, PathsOf, CheckedStarts
<1>6. ASSUME NEW n \in Names, Enable(r, n)
      PROVE  Checked(r, "enable", Disabled(n), Conf(n), None) /\ UNCHANGED roots /\ \E q : Turn(r, q) /\ Started(r, q)
  <2>1. Checked(r, "enable", Disabled(n), Conf(n), None) /\ UNCHANGED roots /\ files[Disabled(n)] # None /\ files[Conf(n)] = None
    BY <1>6 DEF Enable, Conf, Disabled
  <2>2. QED
    BY <2>1, <1>t, <1>a, PathsOf, CheckedStarts
<1>7. ASSUME NEW p \in Paths, Delete(r, p)
      PROVE  Checked(r, "delete", p, p, None) /\ UNCHANGED roots /\ \E q : Turn(r, q) /\ Started(r, q)
  <2>1. Checked(r, "delete", p, p, None) /\ UNCHANGED roots
    BY <1>7 DEF Delete
  <2>2. QED
    BY <2>1, <1>t, <1>a, CheckedStarts
<1>8. CASE \E n \in Names, c \in Contents, proxy \in BOOLEAN : Create(r, n, c, proxy)
  BY <1>2, <1>8
<1>9. QED
  BY <1>1, <1>3, <1>4, <1>5, <1>6, <1>7, <1>8, <1>t DEF Begins

-----------------------------------------------------------------------------
(* Types *)

LEMMA SiteStarts == SiteInit => SiteTypeInv
<1> SUFFICES ASSUME SiteInit
             PROVE  SiteTypeInv
  OBVIOUS
<1>1. (CHOOSE p \in Paths : TRUE) \in Paths
  <2>1. PICK n \in Names : TRUE
    BY SitesAssumption
  <2>2. Conf(n) \in Paths
    BY PathsOf
  <2>3. QED
    BY <2>2
<1>2. PICK path \in Paths : requests = [r \in Requests |->
       [step |-> "idle", action |-> "edit", from |-> path, to |-> path, content |-> None,
        old |-> None, hosts |-> {}, before |-> [p \in Paths |-> None]]]
  BY <1>1 DEF SiteInit
<1>3. \A r \in Requests : requests[r] \in Request /\ requests[r].step = "idle" /\ Shape(requests[r])
  BY <1>2 DEF Request, Steps, Actions, Shape, Resting, Before
<1>4. files \in [Paths -> Contents \cup {None}] /\ served \in [Names -> Contents \cup {None}]
  <2>1. PICK there \in [Names -> {c \in Contents : c.valid} \cup {None}] :
          /\ files = [p \in Paths |-> IF p[2] = "conf" THEN there[p[1]] ELSE None]
          /\ served = there
    BY DEF SiteInit
  <2>2. \A p \in Paths : p[1] \in Names
    BY DEF Paths
  <2>3. QED
    BY <2>1, <2>2
<1>5. server \in Servers /\ count \in 0 .. server.requests
  BY SitesAssumption DEF SiteInit, Server
<1>6. {hosts, roots, databases} \subseteq SUBSET Names
  BY DEF SiteInit
<1>7. SiteTypeOK
  BY <1>2, <1>3, <1>4, <1>5, <1>6 DEF SiteTypeOK
<1>8. QED
  BY <1>3, <1>7 DEF SiteTypeInv

\* The step that a handler makes of its request, for the steps after the check.
Works(r) == (\E n \in Names : WordPressJob(r, n)) \/ Change(r) \/ Test(r) \/ Undo(r) \/ Reload(r) \/ ReadHosts(r) \/ WriteHosts(r)

LEMMA NextIs == SiteNext <=> \E r \in server.handlers : Begins(r) \/ Works(r)
BY DEF SiteNext, Begins, Works

\* Where a request can go from each of its steps.
Follows(q) ==
  CASE q.step = "download" -> {"install", "failed"}
    [] q.step = "install" -> {"database", "failed"}
    [] q.step = "database" -> {"setup", "failed"}
    [] q.step = "setup" -> {"change", "failed"}
    [] q.step = "change" -> {"test", "failed"}
    [] q.step = "test" -> {"reload", "undo"}
    [] q.step = "undo" -> {"failed"}
    [] q.step = "reload" -> {"done", "failed"} \cup (IF q.action = "create" THEN {"hosts"} ELSE {})
                              \cup (IF q.action \in {"edit", "disable", "enable"} THEN {"undo"} ELSE {})
    [] q.step = "hosts" -> {"override", "failed"}
    [] q.step = "override" -> {"done"}
    [] OTHER -> {}

\* A step of a request, and what it may change beside its own.
Goes(r, q) ==
  /\ Active(r) /\ Turn(r, q) /\ q \in Request /\ q.step \in Follows(requests[r])
  /\ q.action = requests[r].action /\ q.from = requests[r].from /\ q.to = requests[r].to
  /\ q.content = requests[r].content /\ q.before = requests[r].before
  /\ q.old = requests[r].old \/ (requests[r].step = "change" /\ q.old = files[q.to])
  /\ q.hosts = requests[r].hosts \/ (requests[r].step = "hosts" /\ q.hosts = hosts)
  /\ files' = files \/ requests[r].step \in {"change", "undo"}
  /\ served' = served \/ requests[r].step = "reload"
  /\ hosts' = hosts \/ requests[r].step = "override"
  /\ server' = server /\ count' = count
  /\ roots' \subseteq Names /\ databases' \subseteq Names

LEMMA CommandGoes ==
  ASSUME SiteTypeInv, NEW r \in server.handlers, NEW n \in Names, WordPressJob(r, n)
  PROVE  Goes(r, requests'[r]) /\ UNCHANGED <<files, served, hosts>>
<1>t. /\ r \in Requests /\ roots \subseteq Names /\ databases \subseteq Names
      /\ requests[r].to[1] \in Names /\ DOMAIN requests = Requests
  BY SitesAssumption DEF SiteTypeInv, SiteTypeOK, Server, Request, Paths
<1>1. ASSUME NEW at, NEW then, Command(r, n, at, then), at \in Before \ {"change"},
             Follows(requests[r]) = {then, "failed"}, {then, "failed"} \subseteq Steps
      PROVE  /\ Active(r) /\ Turn(r, requests'[r]) /\ requests'[r] \in Request /\ requests'[r].step \in Follows(requests[r])
             /\ requests'[r].action = requests[r].action /\ requests'[r].from = requests[r].from
             /\ requests'[r].to = requests[r].to /\ requests'[r].content = requests[r].content
             /\ requests'[r].before = requests[r].before /\ requests'[r].old = requests[r].old
             /\ requests'[r].hosts = requests[r].hosts
             /\ UNCHANGED <<files, served, hosts, server, count>>
  <2>1. PICK step \in {then, "failed"} : Proceed(r, step)
    BY <1>1 DEF Command, Proceed
  <2>2. requests[r].step = at /\ UNCHANGED <<files, served, hosts, server, count>>
    BY <1>1 DEF Command, env
  <2>3. Active(r)
    BY <2>2, <1>1 DEF Active, Resting, Before
  <2>4. QED
    BY <1>1, <1>t, <2>1, <2>2, <2>3, Proceeds
<1>2. CASE Command(r, n, "download", "install") /\ UNCHANGED wordpress
  <2>1. Follows(requests[r]) = {"install", "failed"} /\ roots' \subseteq Names /\ databases' \subseteq Names
    BY <1>2, <1>t DEF Command, Follows, wordpress
  <2>2. QED
    BY <1>1, <1>2, <2>1 DEF Goes, Before, Steps
<1>3. CASE Command(r, n, "install", "database") /\ UNCHANGED databases
           /\ (requests'[r].step = "database" => roots' = roots \cup {n}) /\ (requests'[r].step = "failed" => UNCHANGED roots)
  <2>1. Follows(requests[r]) = {"database", "failed"}
    BY <1>3 DEF Command, Follows
  <2>2. QED
    BY <1>1, <1>3, <1>t, <2>1 DEF Goes, Before, Steps
<1>4. CASE Command(r, n, "database", "setup") /\ UNCHANGED roots
           /\ (requests'[r].step = "setup" => databases' = databases \cup {n})
           /\ (requests'[r].step = "failed" => databases' \in {databases, databases \cup {n}})
  <2>1. Follows(requests[r]) = {"setup", "failed"}
    BY <1>4 DEF Command, Follows
  <2>2. QED
    BY <1>1, <1>4, <1>t, <2>1 DEF Goes, Before, Steps
<1>5. CASE Command(r, n, "setup", "change") /\ UNCHANGED wordpress
  <2>1. Follows(requests[r]) = {"change", "failed"} /\ roots' \subseteq Names /\ databases' \subseteq Names
    BY <1>5, <1>t DEF Command, Follows, wordpress
  <2>2. QED
    BY <1>1, <1>5, <2>1 DEF Goes, Before, Steps
<1>6. QED
  BY <1>2, <1>3, <1>4, <1>5 DEF WordPressJob

\* A handler that goes on only changes its own request, and no more than its step may.
LEMMA WorkGoes ==
  ASSUME SiteTypeInv, NEW r \in server.handlers, Works(r)
  PROVE  Goes(r, requests'[r])
<1>t. /\ r \in Requests /\ roots \subseteq Names /\ databases \subseteq Names
      /\ DOMAIN requests = Requests /\ requests[r] \in Request
  BY SitesAssumption DEF SiteTypeInv, SiteTypeOK, Server
<1>1. ASSUME NEW step \in Steps, Proceed(r, step), UNCHANGED <<wordpress, env>>, step \in Follows(requests[r]), Active(r),
             files' = files \/ requests[r].step \in {"change", "undo"},
             served' = served \/ requests[r].step = "reload",
             hosts' = hosts \/ requests[r].step = "override"
      PROVE  Goes(r, requests'[r])
  BY <1>1, <1>t, Proceeds DEF Goes, wordpress, env
<1>2. ASSUME NEW n \in Names, WordPressJob(r, n)
      PROVE  Goes(r, requests'[r])
  BY <1>2, CommandGoes
<1>3. CASE Change(r)
  <2>1. requests[r].step = "change" /\ UNCHANGED <<served, hosts, wordpress, env>>
    BY <1>3 DEF Change
  <2>2. Active(r) /\ Follows(requests[r]) = {"test", "failed"}
    BY <2>1 DEF Active, Resting, Follows
  <2>3. CASE Proceed(r, "failed")
    BY <2>1, <2>2, <2>3, <1>1 DEF Steps
  <2>4. CASE requests' = [requests EXCEPT ![r].step = "test",
                            ![r].old = IF requests[r].action = "delete" THEN files[requests[r].to] ELSE @]
    <3>1. requests'[r] = [requests[r] EXCEPT !.step = "test",
                            !.old = IF requests[r].action = "delete" THEN files[requests[r].to] ELSE @]
          /\ Turn(r, requests'[r])
      BY <2>4, <1>t DEF Turn
    <3>2. files[requests[r].to] \in Contents \cup {None}
      BY <1>t DEF SiteTypeInv, SiteTypeOK, Request
    <3>3. /\ requests'[r] \in Request /\ requests'[r].step = "test"
          /\ requests'[r].action = requests[r].action /\ requests'[r].from = requests[r].from
          /\ requests'[r].to = requests[r].to /\ requests'[r].content = requests[r].content
          /\ requests'[r].before = requests[r].before /\ requests'[r].hosts = requests[r].hosts
          /\ requests'[r].old = requests[r].old \/ requests'[r].old = files[requests[r].to]
      BY <3>1, <3>2, <1>t DEF Request, Steps
    <3>4. QED
      BY <3>1, <3>3, <2>1, <2>2, <1>t DEF Goes, wordpress, env
  <2>5. QED
    BY <1>3, <2>3, <2>4 DEF Change
<1>4. CASE Test(r)
  <2>1. requests[r].step = "test" /\ UNCHANGED <<files, served, hosts, wordpress, env>>
        /\ \E step \in {"reload", "undo"} : Proceed(r, step)
    BY <1>4 DEF Test
  <2>2. Active(r) /\ Follows(requests[r]) = {"reload", "undo"}
    BY <2>1 DEF Active, Resting, Follows
  <2>3. QED
    BY <2>1, <2>2, <1>1 DEF Steps
<1>5. CASE Undo(r)
  <2>1. requests[r].step = "undo" /\ UNCHANGED <<served, hosts, wordpress, env>> /\ Proceed(r, "failed")
    BY <1>5 DEF Undo
  <2>2. Active(r) /\ Follows(requests[r]) = {"failed"}
    BY <2>1 DEF Active, Resting, Follows
  <2>3. QED
    BY <2>1, <2>2, <1>1 DEF Steps
<1>6. CASE Reload(r)
  <2>1. requests[r].step = "reload" /\ UNCHANGED <<files, hosts, wordpress, env>>
        /\ \E step \in {"done", "hosts", AfterReloadFails(requests[r].action)} :
             Proceed(r, step) /\ (step = "hosts" => requests[r].action = "create")
    BY <1>6 DEF Reload, AfterReloadFails
  <2>2. Active(r) /\ {"done", AfterReloadFails(requests[r].action)} \subseteq Follows(requests[r])
        /\ (requests[r].action = "create" => "hosts" \in Follows(requests[r]))
    BY <2>1, <1>t DEF Active, Resting, Follows, AfterReloadFails, Request, Actions
  <2>3. {"done", "hosts", AfterReloadFails(requests[r].action)} \subseteq Steps
    BY DEF AfterReloadFails, Steps
  <2>4. QED
    BY <2>1, <2>2, <2>3, <1>1
<1>7. CASE ReadHosts(r)
  <2>1. requests[r].step = "hosts" /\ UNCHANGED <<files, served, hosts, wordpress, env>>
    BY <1>7 DEF ReadHosts
  <2>2. Active(r) /\ Follows(requests[r]) = {"override", "failed"}
    BY <2>1 DEF Active, Resting, Follows
  <2>3. CASE Proceed(r, "failed")
    BY <2>1, <2>2, <2>3, <1>1 DEF Steps
  <2>4. CASE requests' = [requests EXCEPT ![r].step = "override", ![r].hosts = hosts]
    <3>1. requests'[r] = [requests[r] EXCEPT !.step = "override", !.hosts = hosts] /\ Turn(r, requests'[r])
      BY <2>4, <1>t DEF Turn
    <3>2. hosts \in SUBSET Names
      BY DEF SiteTypeInv, SiteTypeOK
    <3>3. /\ requests'[r] \in Request /\ requests'[r].step = "override"
          /\ requests'[r].action = requests[r].action /\ requests'[r].from = requests[r].from
          /\ requests'[r].to = requests[r].to /\ requests'[r].content = requests[r].content
          /\ requests'[r].before = requests[r].before /\ requests'[r].hosts = hosts
          /\ requests'[r].old = requests[r].old
      BY <3>1, <3>2, <1>t DEF Request, Steps
    <3>4. QED
      BY <3>1, <3>3, <2>1, <2>2, <1>t DEF Goes, wordpress, env
  <2>5. QED
    BY <1>7, <2>3, <2>4 DEF ReadHosts
<1>8. CASE WriteHosts(r)
  <2>1. requests[r].step = "override" /\ UNCHANGED <<files, served, wordpress, env>> /\ Proceed(r, "done")
    BY <1>8 DEF WriteHosts
  <2>2. Active(r) /\ Follows(requests[r]) = {"done"}
    BY <2>1 DEF Active, Resting, Follows
  <2>3. QED
    BY <2>1, <2>2, <1>1 DEF Steps
<1>9. QED
  BY <1>2, <1>3, <1>4, <1>5, <1>6, <1>7, <1>8 DEF Works

\* What a change makes of the files.
Changes(q) ==
  CASE q.action \in {"create", "edit", "wordpress"} -> [files EXCEPT ![q.to] = q.content]
    [] q.action \in {"disable", "enable"} -> Renamed(q.from, q.to)
    [] q.action = "delete" -> [files EXCEPT ![q.to] = None]

\* The files that a step leaves.
LEMMA WorkFiles ==
  ASSUME SiteTypeInv, NEW r \in server.handlers, Works(r)
  PROVE  LET q == requests[r] IN
         /\ q.step \notin {"change", "undo"} => files' = files
         /\ q.step = "undo" => files' = Undone(r)
         /\ q.step = "change" => \/ requests'[r].step = "test" /\ files' = Changes(q)
                                 \/ requests'[r].step = "failed" /\ files' = files
         /\ q.step = "test" /\ requests'[r].step = "reload" => Passes(files)
<1>t. r \in Requests /\ DOMAIN requests = Requests /\ requests[r] \in Request
  BY SitesAssumption DEF SiteTypeInv, SiteTypeOK, Server
<1>p. ASSUME NEW step, Proceed(r, step)
      PROVE  requests'[r].step = step
  BY <1>p, <1>t DEF Proceed, Request
<1>1. CASE Change(r)
  <2>1. ASSUME requests' = [requests EXCEPT ![r].step = "test",
                            ![r].old = IF requests[r].action = "delete" THEN files[requests[r].to] ELSE @]
        PROVE  requests'[r].step = "test"
    BY <2>1, <1>t DEF Request
  <2>2. QED
    BY <1>1, <1>p, <2>1 DEF Change, Changes
<1>2. CASE Undo(r) \/ Test(r)
  BY <1>2, <1>p DEF Undo, Test
<1>3. CASE (\E n \in Names : WordPressJob(r, n)) \/ Reload(r) \/ ReadHosts(r) \/ WriteHosts(r)
  <2>1. ASSUME NEW n \in Names, WordPressJob(r, n)
        PROVE  requests[r].step \notin {"change", "undo", "test"} /\ files' = files
    BY <2>1 DEF WordPressJob, Command
  <2>2. QED
    BY <1>3, <2>1 DEF Reload, ReadHosts, WriteHosts
<1>4. QED
  BY <1>1, <1>2, <1>3 DEF Works

LEMMA WorkServed ==
  ASSUME SiteTypeInv, NEW r \in server.handlers, Works(r)
  PROVE  /\ served' # served => requests[r].step = "reload"
         /\ requests[r].step = "reload" =>
              /\ served' = served \/ (Passes(files) /\ served' = Enabled(files))
              /\ ~server.reloadFails => /\ served' = IF Passes(files) THEN Enabled(files) ELSE served
                                        /\ requests'[r].step # "undo"
              /\ requests'[r].step = "failed" => requests[r].action \in {"create", "wordpress"}
         /\ requests[r].step = "override" => hosts' = OtherLines(requests[r].hosts, Domain(r)) \cup {Domain(r)}
<1>t. r \in Requests /\ DOMAIN requests = Requests /\ requests[r] \in Request
  BY SitesAssumption DEF SiteTypeInv, SiteTypeOK, Server
<1>1. CASE Reload(r)
  <2>1. ASSUME NEW step, Proceed(r, step)
        PROVE  requests'[r].step = step
    BY <2>1, <1>t DEF Proceed, Request
  <2>2. AfterReloadFails(requests[r].action) = "failed" => requests[r].action \in {"create", "wordpress"}
    BY DEF AfterReloadFails
  <2>3. QED
    BY <1>1, <2>1, <2>2 DEF Reload
<1>2. CASE WriteHosts(r)
  BY <1>2 DEF WriteHosts, Domain
<1>3. CASE Change(r) \/ Test(r) \/ Undo(r) \/ ReadHosts(r)
  BY <1>3 DEF Change, Test, Undo, ReadHosts
<1>4. ASSUME NEW n \in Names, WordPressJob(r, n)
      PROVE  served' = served /\ requests[r].step \notin {"reload", "override"}
  BY <1>4 DEF WordPressJob, Command
<1>5. QED
  BY <1>1, <1>2, <1>3, <1>4 DEF Works

\* Every step keeps the types.
LEMMA SiteTypesKept == SiteTypeInv /\ [SiteNext]_siteVars => SiteTypeInv'
<1> SUFFICES ASSUME SiteTypeInv, [SiteNext]_siteVars
             PROVE  SiteTypeInv'
  OBVIOUS
<1>t. /\ DOMAIN requests = Requests /\ \A r \in Requests : requests[r] \in Request /\ Shape(requests[r])
      /\ server.handlers \subseteq Requests /\ count \in 0 .. server.requests
      /\ files \in [Paths -> Contents \cup {None}] /\ served \in [Names -> Contents \cup {None}]
      /\ hosts \subseteq Names /\ roots \subseteq Names /\ databases \subseteq Names
  BY SitesAssumption DEF SiteTypeInv, SiteTypeOK, Server
<1>1. ASSUME NEW r \in server.handlers, Begins(r)
      PROVE  SiteTypeInv'
  <2>1. /\ UNCHANGED <<files, served, hosts, databases, server>>
        /\ roots' \subseteq Names /\ count' \in 0 .. server.requests
    BY <1>1, BeginStarts
  <2>2. CASE \E q : Turn(r, q) /\ Started(r, q)
    BY <2>1, <2>2, <1>t, SiteTypeStep DEF Started
  <2>3. CASE UNCHANGED requests
    BY <2>1, <2>3 DEF SiteTypeInv, SiteTypeOK
  <2>4. QED
    BY <1>1, <2>2, <2>3, BeginStarts
<1>2. ASSUME NEW r \in server.handlers, Works(r)
      PROVE  SiteTypeInv'
  <2> DEFINE q == requests[r]
  <2>1. Goes(r, requests'[r])
    BY <1>2, WorkGoes
  <2>2. requests'[r].step \in {"hosts", "override"} => q.action = "create"
    BY <2>1, <1>t DEF Goes, Follows, Shape
  <2>3. requests'[r].step \in Before \ {"change"} => q.action = "wordpress"
    BY <2>1, <1>t DEF Goes, Follows, Shape, Before
  <2>4. Shape(requests'[r])
    BY <2>1, <2>2, <2>3, <1>t, ShapeKept DEF Goes, Active
  <2>5. files' \in [Paths -> Contents \cup {None}]
    <3>1. q.to \in Paths /\ q.from \in Paths /\ q.old \in Contents \cup {None}
      BY <1>t DEF Request
    <3>2. q.action \in {"create", "edit", "wordpress"} => q.content \in Contents
      BY <2>1, <1>t DEF Goes, Active, Shape
    <3>3. q.action \in Actions
      BY <1>t DEF Request
    <3>4. Renamed(q.from, q.to) \in [Paths -> Contents \cup {None}] /\ Renamed(q.to, q.from) \in [Paths -> Contents \cup {None}]
      BY <3>1, <1>t DEF Renamed
    <3>5. Undone(r) \in [Paths -> Contents \cup {None}]
      BY <3>1, <3>4, <1>t DEF Undone
    <3>6. QED
      BY <1>2, <1>t, <2>1, <3>1, <3>2, <3>3, <3>4, <3>5, WorkFiles DEF Actions, Changes, Goes
  <2>6. served' \in [Names -> Contents \cup {None}]
    <3>1. Enabled(files) \in [Names -> Contents \cup {None}]
      BY <1>t DEF Enabled, Paths
    <3>2. QED
      BY <3>1, <1>2, <1>t, WorkServed
  <2>7. hosts' \subseteq Names
    <3>1. Domain(r) \in Names /\ q.hosts \subseteq Names
      BY <1>t DEF Domain, Request, Paths
    <3>2. OtherLines(q.hosts, Domain(r)) \subseteq Names
      BY <3>1 DEF OtherLines
    <3>3. QED
      BY <2>1, <3>1, <3>2, <1>2, <1>t, WorkServed DEF Goes
  <2>8. QED
    BY <2>1, <2>4, <2>5, <2>6, <2>7, <1>t, SiteTypeStep DEF Goes
<1>3. CASE UNCHANGED siteVars
  BY <1>3 DEF siteVars, env, wordpress, SiteTypeInv, SiteTypeOK
<1>4. QED
  BY <1>1, <1>2, <1>3, NextIs

-----------------------------------------------------------------------------
(* The files *)

\* A handler that is alone is the only one that works.
LEMMA OnlyOne ==
  ASSUME SiteTypeInv, Alone, NEW r \in server.handlers, NEW s \in Requests, Active(s)
  PROVE  s = r
<1>1. server.handlers \subseteq Requests
  BY SitesAssumption DEF SiteTypeInv, SiteTypeOK, Server
<1>2. IsFiniteSet(server.handlers)
  BY <1>1, SitesAssumption, FS_Subset
<1>3. \E x : server.handlers = {x}
  BY <1>2, FS_Singleton DEF Alone
<1>4. s \in server.handlers
  BY DEF SiteTypeInv, Active, Resting
<1>5. QED
  BY <1>3, <1>4

\* The server that is managed stays the same.
LEMMA ServerKept == SiteTypeInv /\ [SiteNext]_siteVars => server' = server
<1>1. ASSUME SiteTypeInv, NEW r \in server.handlers, Begins(r) \/ Works(r)
      PROVE  server' = server
  BY <1>1, BeginStarts, WorkGoes DEF Goes
<1>2. QED
  BY <1>1, NextIs DEF siteVars, env

\* Where the change of a request is taken back, its domain has the files that it found.
LEMMA UndoRestores ==
  ASSUME SiteTypeInv, NEW r \in Requests, requests[r].step = "undo", Undoable(r),
         NEW p \in Paths, p[1] = Domain(r)
  PROVE  Undone(r)[p] = requests[r].before[p]
<1> DEFINE q == requests[r]
<1>t. /\ q \in Request /\ Shape(q) /\ files \in [Paths -> Contents \cup {None}] /\ q.before \in [Paths -> Contents \cup {None}]
      /\ q.to \in Paths /\ q.from \in Paths /\ q.action \in Actions
  BY DEF SiteTypeInv, SiteTypeOK, Request
<1>1. \A o \in Paths : o[1] = Domain(r) => files[o] = Made(q)[o]
  BY DEF Undoable, Before
<1>2. q.old = q.before[q.to]
  BY DEF Undoable
<1>3. CASE q.action \in {"disable", "enable"}
  <2>1. q.from # q.to /\ q.from[1] = Domain(r) /\ q.to[1] = Domain(r)
    BY <1>3, <1>t DEF Shape, Conf, Disabled, Domain
  <2>2. Made(q) = [q.before EXCEPT ![q.to] = q.before[q.from], ![q.from] = None]
    BY <1>3 DEF Made
  <2>3. q.before[q.to] = None /\ q.before[q.from] # None
    BY <1>3 DEF Undoable
  <2>4. files[q.to] = q.before[q.from]
    BY <1>1, <1>t, <2>1, <2>2
  <2>5. Undone(r) = [files EXCEPT ![q.from] = files[q.to], ![q.to] = None]
    BY <1>3, <2>3, <2>4 DEF Undone, Renamed
  <2>6. QED
    BY <1>1, <1>t, <2>1, <2>2, <2>3, <2>4, <2>5
<1>4. CASE q.action \in {"create", "edit", "wordpress", "delete"}
  <2>1. Undone(r) = [files EXCEPT ![q.to] = q.old]
    BY <1>4 DEF Undone
  <2>2. p # q.to => Made(q)[p] = q.before[p]
    BY <1>4, <1>t DEF Made
  <2>3. QED
    BY <1>1, <1>2, <1>t, <2>1, <2>2
<1>5. QED
  BY <1>3, <1>4, <1>t DEF Actions

\* What a change makes of the files of its domain.
LEMMA ChangeMakes ==
  ASSUME SiteTypeInv, NEW r \in Requests, requests[r].step = "change", Undoable(r),
         NEW p \in Paths, p[1] = Domain(r)
  PROVE  Changes(requests[r])[p] = Made(requests[r])[p]
<1> DEFINE q == requests[r]
<1>t. /\ q \in Request /\ Shape(q) /\ files \in [Paths -> Contents \cup {None}] /\ q.before \in [Paths -> Contents \cup {None}]
      /\ q.to \in Paths /\ q.from \in Paths /\ q.action \in Actions
  BY DEF SiteTypeInv, SiteTypeOK, Request
<1>1. \A o \in Paths : o[1] = Domain(r) => files[o] = q.before[o]
  BY DEF Undoable, Before
<1>2. q.from[1] = Domain(r)
  BY <1>t DEF Shape, Domain
<1>3. CASE q.action \in {"disable", "enable"}
  BY <1>1, <1>2, <1>3, <1>t DEF Changes, Made, Renamed
<1>4. CASE q.action \in {"create", "edit", "wordpress"}
  BY <1>1, <1>4, <1>t DEF Changes, Made
<1>5. CASE q.action = "delete"
  BY <1>1, <1>5, <1>t DEF Changes, Made
<1>6. QED
  BY <1>3, <1>4, <1>5, <1>t DEF Actions

\* A step leaves the files of other domains alone.
LEMMA OtherFiles ==
  ASSUME SiteTypeInv, NEW r \in server.handlers, Works(r), NEW p \in Paths, p[1] # Domain(r)
  PROVE  files'[p] = files[p]
<1> DEFINE q == requests[r]
<1>t. /\ r \in Requests /\ q \in Request /\ Shape(q) /\ files \in [Paths -> Contents \cup {None}]
      /\ q.to \in Paths /\ q.from \in Paths /\ q.action \in Actions
  BY SitesAssumption DEF SiteTypeInv, SiteTypeOK, Request, Server
<1>1. p # q.to /\ p # q.from
  BY <1>t DEF Shape, Domain
<1>2. Changes(q)[p] = files[p]
  <2>1. CASE q.action \in {"disable", "enable"}
    BY <1>1, <2>1, <1>t DEF Changes, Renamed
  <2>2. CASE q.action \in {"create", "edit", "wordpress"}
    BY <1>1, <2>2, <1>t DEF Changes
  <2>3. CASE q.action = "delete"
    BY <1>1, <2>3, <1>t DEF Changes
  <2>4. QED
    BY <2>1, <2>2, <2>3, <1>t DEF Actions
<1>3. Undone(r)[p] = files[p]
  BY <1>1, <1>t DEF Undone, Renamed
<1>4. QED
  BY <1>2, <1>3, WorkFiles

\* At the start no request has a file to undo.
LEMMA FilesInvStarts == SiteInit => FilesInv
<1> SUFFICES ASSUME SiteInit
             PROVE  FilesInv
  OBVIOUS
<1>1. \A r \in Requests : requests[r].step = "idle"
  BY DEF SiteInit
<1>2. PICK there \in [Names -> {c \in Contents : c.valid} \cup {None}] :
        files = [p \in Paths |-> IF p[2] = "conf" THEN there[p[1]] ELSE None]
  BY DEF SiteInit
<1>3. \A n \in Names : files[Conf(n)] = there[n]
  BY <1>2 DEF Conf, Paths
<1>4. \A n \in Names : ValidIn(files, n)
  BY <1>3 DEF ValidIn
<1>5. QED
  BY <1>1, <1>4 DEF FilesInv, Active, Resting

\* A request that begins touches no file.
LEMMA BeginKeepsFiles ==
  ASSUME SiteTypeInv, FilesInv, Undisturbed, NEW r \in server.handlers, Begins(r)
  PROVE  FilesInv'
<1>r. r \in Requests
  BY SitesAssumption DEF SiteTypeInv, SiteTypeOK, Server
<1>1. UNCHANGED <<files, server>>
  BY BeginStarts
<1>2. CASE UNCHANGED requests
  BY <1>1, <1>2 DEF FilesInv, Undisturbed, Active, Domain, Undoable, ValidIn
<1>3. ASSUME NEW q, Turn(r, q), Started(r, q)
      PROVE  FilesInv'
  <2>1. requests'[r] = q /\ \A s \in Requests \ {r} : requests'[s] = requests[s]
    BY <1>3, <1>r, Turned
  <2>2. ~Active(r) /\ q.step \in Before /\ q.step \notin {"test", "undo"}
    BY <1>3 DEF Started, Active, Before
  <2>3. \A s \in Requests \ {r} : Active(s) => Domain(s) # q.to[1]
    <3>1. CASE server.apart
      BY <1>3, <3>1 DEF Started, Active, Domain
    <3>2. CASE Alone
      BY <3>2, OnlyOne
    <3>3. QED
      BY <3>1, <3>2 DEF Undisturbed, Alone
  <2>4. \A s \in Requests \ {r} : Active(s)' <=> Active(s)
    BY <2>1 DEF Active
  <2>5. \A s \in Requests \ {r} : Domain(s)' = Domain(s) /\ (Undoable(s) => Undoable(s)')
    BY <1>1, <2>1 DEF Domain, Undoable, ValidIn
  <2>6. \A s, t \in Requests : s # t /\ Active(s)' /\ Active(t)' => Domain(s)' # Domain(t)'
    <3>1. Domain(r)' = q.to[1]
      BY <2>1 DEF Domain
    <3>2. QED
      BY <2>3, <2>4, <2>5, <3>1 DEF FilesInv
  <2>7. \A n \in Names : (\A s \in Requests : requests'[s].step \in {"test", "undo"} => Domain(s)' # n) => ValidIn(files, n)
    <3>1. requests[r].step \notin {"test", "undo"}
      BY <2>2 DEF Active, Resting
    <3>2. QED
      BY <2>1, <2>2, <2>5, <3>1 DEF FilesInv
  <2>8. Undoable(r)'
    <3>1. q.to[1] \in Names /\ q.before = files /\ q.old = files[q.to]
      BY <1>3 DEF Started, Request, Paths
    <3>2. \A s \in Requests : requests'[s].step \in {"test", "undo"} => Domain(s)' # q.to[1]
      BY <2>1, <2>2, <2>3, <2>5 DEF Active, Resting
    <3>3. ValidIn(files, q.to[1])
      BY <2>7, <3>1, <3>2
    <3>4. QED
      BY <1>1, <1>3, <2>1, <2>2, <3>1, <3>3 DEF Undoable, Domain, Started, ValidIn
  <2>9. QED
    BY <1>1, <2>4, <2>5, <2>6, <2>7, <2>8 DEF FilesInv, ValidIn
<1>4. QED
  BY <1>2, <1>3, BeginStarts

\* A step of a request keeps what a failure would undo.
LEMMA WorkKeepsFiles ==
  ASSUME SiteTypeInv, FilesInv, Undisturbed, NEW r \in server.handlers, Works(r)
  PROVE  FilesInv'
<1> DEFINE q == requests[r]
           next == requests'[r]
<1>r. r \in Requests /\ q \in Request
  BY SitesAssumption DEF SiteTypeInv, SiteTypeOK, Server
<1>1. Goes(r, next)
  BY WorkGoes
<1>2. \A s \in Requests \ {r} : requests'[s] = requests[s]
  BY <1>1, <1>r, Turned DEF Goes
<1>3. Active(r) /\ Undoable(r) /\ Domain(r)' = Domain(r) /\ Domain(r) \in Names
  BY <1>1, <1>r DEF FilesInv, Goes, Domain, Request, Paths
<1>5. \A s, t \in Requests : s # t /\ Active(s)' /\ Active(t)' => Domain(s)' # Domain(t)'
  BY <1>1, <1>2, <1>3 DEF FilesInv, Active, Domain, Goes
<1>6. \A p \in Paths : p[1] # Domain(r) => files'[p] = files[p]
  BY OtherFiles
<1>7. ASSUME NEW s \in Requests \ {r}, Active(s)
      PROVE  Undoable(s)'
  <2>1. requests'[s] = requests[s] /\ Domain(s)' = Domain(s) /\ Undoable(s) /\ Domain(s) # Domain(r)
    BY <1>2, <1>3, <1>7, <1>r DEF FilesInv, Active, Domain
  <2>2. \A p \in Paths : p[1] = Domain(s) => files'[p] = files[p]
    BY <2>1, <1>6
  <2>3. QED
    BY <2>1, <2>2 DEF Undoable, ValidIn
<1>8. ASSUME next.step \notin Resting
      PROVE  Undoable(r)'
  <2>1. /\ next.action = q.action /\ next.from = q.from /\ next.to = q.to /\ next.before = q.before
        /\ next.content = q.content
    BY <1>1 DEF Goes
  <2>2. Made(next) = Made(q)
    BY <2>1 DEF Made
  <2>3. next.old = q.before[q.to]
    <3>1. q.step = "change" => files[q.to] = q.before[q.to]
      BY <1>3, <1>r DEF Undoable, Domain, Before, Request
    <3>2. QED
      BY <1>1, <1>3, <2>1, <3>1 DEF Goes, Undoable
  <2>4. ASSUME NEW p \in Paths, p[1] = Domain(r)
        PROVE  files'[p] = IF next.step \in Before THEN q.before[p] ELSE Made(q)[p]
    <3>1. files[p] = IF q.step \in Before THEN q.before[p] ELSE Made(q)[p]
      BY <1>3, <2>4 DEF Undoable
    <3>2. CASE q.step = "change"
      <4>1. next.step = "test" /\ files' = Changes(q)
        BY <1>8, <3>2, WorkFiles DEF Resting
      <4>2. QED
        BY <3>2, <4>1, <1>3, <1>r, <2>4, ChangeMakes DEF Before
    <3>3. CASE q.step \in Before \ {"change"}
      <4>1. next.step \in Before /\ files' = files
        BY <1>1, <1>8, <3>3, WorkFiles DEF Goes, Follows, Before, Resting
      <4>2. QED
        BY <3>1, <3>3, <4>1
    <3>4. CASE q.step \in {"test", "reload", "hosts"}
      <4>1. next.step \in After /\ files' = files
        BY <1>1, <1>8, <3>4, WorkFiles DEF Goes, Follows, After, Resting
      <4>2. QED
        BY <3>1, <3>4, <4>1 DEF Before, After
    <3>5. q.step \notin {"undo", "override"}
      BY <1>1, <1>8 DEF Goes, Follows, Resting
    <3>6. QED
      BY <1>r, <1>3, <3>2, <3>3, <3>4, <3>5 DEF Request, Steps, Before, Active, Resting
  <2>5. QED
    BY <1>3, <2>1, <2>2, <2>3, <2>4 DEF Undoable, Domain, ValidIn
<1>9. ASSUME NEW n \in Names, \A s \in Requests : requests'[s].step \in {"test", "undo"} => Domain(s)' # n
      PROVE  ValidIn(files, n)'
  <2>1. CASE n # Domain(r)
    <3>1. files'[Conf(n)] = files[Conf(n)]
      BY <2>1, <1>6, PathsOf
    <3>2. \A s \in Requests : requests[s].step \in {"test", "undo"} => Domain(s) # n
      BY <1>2, <1>9, <2>1 DEF Domain
    <3>3. QED
      BY <3>1, <3>2 DEF FilesInv, ValidIn
  <2>2. CASE n = Domain(r)
    <3>1. next.step \notin {"test", "undo"}
      BY <1>3, <1>9, <1>r, <2>2
    <3>2. CASE q.step = "undo"
      <4>1. files'[Conf(n)] = q.before[Conf(n)]
        BY <3>2, <2>2, <1>3, <1>r, UndoRestores, WorkFiles, PathsOf
      <4>2. QED
        BY <4>1, <2>2, <1>3 DEF Undoable, ValidIn
    <3>3. CASE q.step = "test"
      <4>1. next.step = "reload" /\ files' = files
        BY <3>1, <3>3, <1>1, WorkFiles DEF Goes, Follows
      <4>2. QED
        BY <3>3, <4>1, WorkFiles DEF Passes, ValidIn, Conf
    <3>4. CASE q.step \notin {"undo", "test"}
      <4>1. \A s \in Requests : requests[s].step \in {"test", "undo"} => Domain(s) # n
        BY <1>2, <1>9, <3>4 DEF Domain
      <4>2. files' = files
        BY <3>1, <3>4, WorkFiles
      <4>3. QED
        BY <4>1, <4>2 DEF FilesInv, ValidIn
    <3>5. QED
      BY <3>2, <3>3, <3>4
  <2>3. QED
    BY <2>1, <2>2
<1>10. \A s \in Requests : Active(s)' => Undoable(s)'
  <2> SUFFICES ASSUME NEW s \in Requests, Active(s)'
               PROVE  Undoable(s)'
    OBVIOUS
  <2>1. CASE s = r
    BY <1>8, <2>1 DEF Active
  <2>2. CASE s # r
    BY <1>2, <1>7, <2>2 DEF Active
  <2>3. QED
    BY <2>1, <2>2
<1>11. QED
  BY <1>5, <1>9, <1>10 DEF FilesInv

\* Every step keeps what failures would undo.
LEMMA FilesInvKept == SiteTypeInv /\ FilesInv /\ [SiteNext]_siteVars => FilesInv'
<1> SUFFICES ASSUME SiteTypeInv, FilesInv, [SiteNext]_siteVars, Undisturbed'
             PROVE  FilesInv'
  BY DEF FilesInv
<1>1. Undisturbed
  BY ServerKept DEF Undisturbed
<1>2. ASSUME NEW r \in server.handlers, Begins(r) \/ Works(r)
      PROVE  FilesInv'
  BY <1>1, <1>2, BeginKeepsFiles, WorkKeepsFiles
<1>3. CASE UNCHANGED siteVars
  BY <1>3 DEF siteVars, env, wordpress, FilesInv, Undisturbed, Active, Domain, Undoable, ValidIn
<1>4. QED
  BY <1>2, <1>3, NextIs

-----------------------------------------------------------------------------
(* A request that is alone *)

\* At the start no request is under way, and nginx serves what is on the disk.
LEMMA AloneInvStarts == SiteInit => AloneInv
<1> SUFFICES ASSUME SiteInit
             PROVE  AloneInv
  OBVIOUS
<1>1. \A r \in Requests : requests[r].step = "idle"
  BY DEF SiteInit
<1>2. PICK there \in [Names -> {c \in Contents : c.valid} \cup {None}] :
        files = [p \in Paths |-> IF p[2] = "conf" THEN there[p[1]] ELSE None] /\ served = there
  BY DEF SiteInit
<1>3. served = Enabled(files)
  BY <1>2 DEF Enabled, Paths
<1>4. QED
  BY <1>1, <1>3 DEF AloneInv, Active, Resting

\* What is read of /etc/hosts is what is there.
LEMMA HostsRead ==
  ASSUME SiteTypeInv, NEW r \in server.handlers, Works(r), requests'[r].step = "override"
  PROVE  requests'[r].hosts = hosts /\ hosts' = hosts
<1>t. r \in Requests /\ DOMAIN requests = Requests /\ requests[r] \in Request
  BY SitesAssumption DEF SiteTypeInv, SiteTypeOK, Server
<1>1. requests[r].step = "hosts"
  BY WorkGoes DEF Goes, Follows, Active, Resting
<1>2. ReadHosts(r)
  <2>1. ASSUME NEW n \in Names, WordPressJob(r, n)
        PROVE  requests[r].step \in Before
    BY <2>1 DEF WordPressJob, Command, Before
  <2>2. QED
    BY <1>1, <2>1 DEF Works, Change, Test, Undo, Reload, WriteHosts, Before
<1>3. requests' # [requests EXCEPT ![r].step = "failed"]
  BY <1>t DEF Request
<1>4. requests' = [requests EXCEPT ![r].step = "override", ![r].hosts = hosts] /\ hosts' = hosts
  BY <1>2, <1>3 DEF ReadHosts, Proceed
<1>5. QED
  BY <1>4, <1>t DEF Request

\* A request that begins knows the files, and what nginx serves stays what they are.
LEMMA BeginKeepsAlone ==
  ASSUME SiteTypeInv, AloneInv, Alone, NEW r \in server.handlers, Begins(r)
  PROVE  AloneInv'
<1>r. r \in Requests
  BY SitesAssumption DEF SiteTypeInv, SiteTypeOK, Server
<1>1. UNCHANGED <<files, served, hosts, server>>
  BY BeginStarts
<1>2. CASE UNCHANGED requests
  BY <1>1, <1>2 DEF AloneInv, Alone, Active, Domain
<1>3. ASSUME NEW q, Turn(r, q), Started(r, q)
      PROVE  AloneInv'
  <2>1. requests'[r] = q /\ \A s \in Requests \ {r} : requests'[s] = requests[s]
    BY <1>3, <1>r, Turned
  <2>2. q.step \in Before /\ q.before = files
    BY <1>3 DEF Started
  <2>3. \A s \in Requests : requests[s].step \in Resting
    BY <1>3, OnlyOne DEF Started, Active
  <2>4. \A s \in Requests : requests'[s].step \in Resting \cup Before
    BY <2>1, <2>2, <2>3
  <2>5. \A s \in Requests : requests'[s].step \notin Resting => requests'[s].before = files
    BY <2>1, <2>2, <2>3
  <2>6. ~server.reloadFails => served = Enabled(files)
    BY <2>3 DEF AloneInv, Resting
  <2>7. \A s \in Requests : requests'[s].step \notin {"test", "undo", "reload", "override"}
    BY <2>4 DEF Before, Resting
  <2>8. QED
    BY <1>1, <2>5, <2>6, <2>7 DEF AloneInv, Active, Enabled
<1>4. QED
  BY <1>2, <1>3, BeginStarts

\* A step of a request that is alone keeps what it knows of the files and of nginx.
LEMMA WorkKeepsAlone ==
  ASSUME SiteTypeInv, FilesInv, AloneInv, Alone, NEW r \in server.handlers, Works(r)
  PROVE  AloneInv'
<1> DEFINE q == requests[r]
           next == requests'[r]
<1>r. /\ r \in Requests /\ q \in Request /\ next \in Request /\ files \in [Paths -> Contents \cup {None}]
      /\ Domain(r) \in Names
  BY SitesAssumption, WorkGoes DEF SiteTypeInv, SiteTypeOK, Server, Goes, Request, Paths, Domain
<1>1. Goes(r, next) /\ Active(r)
  BY WorkGoes DEF Goes
<1>2. \A s \in Requests \ {r} : requests'[s] = requests[s] /\ requests[s].step \in Resting
  BY <1>1, <1>r, Turned, OnlyOne DEF Goes, Active
<1>3. Undoable(r) /\ next.before = q.before /\ next.to = q.to
  BY <1>1, <1>r DEF FilesInv, Undisturbed, Alone, Goes
<1>4. \A p \in Paths : p[1] # Domain(r) => files[p] = q.before[p] /\ files'[p] = q.before[p]
  BY <1>1, <1>r, OtherFiles DEF AloneInv
<1>5. \A s \in Requests : requests'[s].step \notin Resting =>
        \A p \in Paths : p[1] # requests'[s].to[1] => files'[p] = requests'[s].before[p]
  BY <1>2, <1>3, <1>4 DEF Domain
<1>6. \A s \in Requests : requests'[s].step = "override" => requests'[s].hosts = hosts'
  BY <1>2, HostsRead DEF Resting
<1>7. ASSUME ~server.reloadFails, next.step \in {"test", "undo", "reload"}
      PROVE  served' = Enabled(q.before)
  <2>1. CASE q.step = "change"
    <3>1. \A p \in Paths : p[1] = Domain(r) => files[p] = q.before[p]
      BY <1>3, <2>1 DEF Undoable, Before
    <3>2. Enabled(files) = Enabled(q.before)
      BY <1>4, <3>1, PathsOf DEF Enabled, Conf
    <3>3. served = Enabled(files)
      BY <1>2, <1>7, <1>r, <2>1 DEF AloneInv, Resting
    <3>4. QED
      BY <2>1, <3>2, <3>3, WorkServed
  <2>2. CASE q.step = "test"
    BY <1>7, <1>r, <2>2, WorkServed DEF AloneInv
  <2>3. q.step \in {"change", "test"}
    BY <1>1, <1>7, WorkServed DEF Goes, Follows
  <2>4. QED
    BY <2>1, <2>2, <2>3
<1>8. ASSUME ~server.reloadFails, next.step \notin {"test", "undo", "reload"}
      PROVE  served' = Enabled(files')
  <2>1. CASE q.step = "undo"
    <3>1. \A p \in Paths : p[1] = Domain(r) => files'[p] = q.before[p]
      BY <1>3, <1>r, <2>1, UndoRestores, WorkFiles
    <3>2. Enabled(files') = Enabled(q.before)
      BY <1>4, <3>1, PathsOf DEF Enabled, Conf
    <3>3. QED
      BY <1>8, <1>r, <2>1, <3>2, WorkServed DEF AloneInv
  <2>2. CASE q.step = "reload"
    <3>1. \A s \in Requests : requests[s].step \notin {"test", "undo"}
      BY <1>2, <2>2 DEF Resting
    <3>2. Passes(files)
      BY <3>1 DEF FilesInv, Undisturbed, Alone, ValidIn, Conf, Passes
    <3>3. QED
      BY <1>8, <2>2, <3>2, WorkServed, WorkFiles
  <2>3. CASE q.step \notin {"test", "undo", "reload"}
    <3>1. files' = files /\ served' = served
      BY <1>8, <2>3, WorkFiles, WorkServed
    <3>2. served = Enabled(files)
      BY <1>2, <1>8, <2>3 DEF AloneInv, Resting
    <3>3. QED
      BY <3>1, <3>2
  <2>4. q.step # "test"
    BY <1>1, <1>8 DEF Goes, Follows
  <2>5. QED
    BY <2>1, <2>2, <2>3, <2>4
<1>9. server' = server
  BY <1>1 DEF Goes
<1>10. ASSUME ~server.reloadFails
       PROVE  /\ \A s \in Requests : requests'[s].step \in {"test", "undo", "reload"} => served' = Enabled(requests'[s].before)
              /\ (\A s \in Requests : requests'[s].step \notin {"test", "undo", "reload"}) => served' = Enabled(files')
  BY <1>2, <1>3, <1>7, <1>8, <1>10, <1>r DEF Resting
<1>11. QED
  BY <1>5, <1>6, <1>9, <1>10 DEF AloneInv, Active, Domain, Enabled

\* Every step keeps what a request that is alone knows.
LEMMA AloneInvKept == SiteInv /\ [SiteNext]_siteVars => AloneInv'
<1> SUFFICES ASSUME SiteInv, [SiteNext]_siteVars, Alone'
             PROVE  AloneInv'
  BY DEF AloneInv
<1>1. Alone
  BY ServerKept DEF Alone, SiteInv
<1>2. ASSUME NEW r \in server.handlers, Begins(r) \/ Works(r)
      PROVE  AloneInv'
  BY <1>1, <1>2, BeginKeepsAlone, WorkKeepsAlone DEF SiteInv
<1>3. CASE UNCHANGED siteVars
  BY <1>3 DEF SiteInv, siteVars, env, wordpress, AloneInv, Alone, Active, Domain
<1>4. QED
  BY <1>2, <1>3, NextIs

-----------------------------------------------------------------------------
(* What follows for the sites *)

\* The types with the shape of each request; what is on the disk of the domain of a request, with
\* what was there before it; and what one request alone knows of all files and of nginx.
THEOREM SiteInvariant == SiteSpec => []SiteInv
<1>1. SiteInit => SiteInv
  BY SiteStarts, FilesInvStarts, AloneInvStarts DEF SiteInv
<1>2. SiteInv /\ [SiteNext]_siteVars => SiteInv'
  BY SiteTypesKept, FilesInvKept, AloneInvKept DEF SiteInv
<1>3. QED
  BY <1>1, <1>2, PTL DEF SiteSpec

\* While no request is under way nginx accepts the files that there are, also where handlers of
\* different domains have worked at a time, and serves them where requests come one at a time.
THEOREM SitesConsistent == SiteSpec => []Consistent
<1>1. ASSUME SiteInv
      PROVE  Consistent
  <2>1. ASSUME Undisturbed, AtRest
        PROVE  Passes(files)
    <3>1. \A r \in Requests : requests[r].step \notin {"test", "undo"}
      BY <2>1 DEF AtRest, Resting
    <3>2. \A n \in Names : ValidIn(files, n)
      BY <1>1, <2>1, <3>1 DEF SiteInv, FilesInv
    <3>3. QED
      BY <3>2 DEF Passes, ValidIn, Conf
  <2>2. ASSUME Alone, ~server.reloadFails, AtRest
        PROVE  served = Enabled(files)
    <3>1. \A r \in Requests : requests[r].step \notin {"test", "undo", "reload"}
      BY <2>2 DEF AtRest, Resting
    <3>2. QED
      BY <1>1, <2>2, <3>1 DEF SiteInv, AloneInv
  <2>3. QED
    BY <1>1, <2>1, <2>2 DEF Consistent, ValidAtRest, ServedAtRest, SiteInv, SiteTypeInv
<1>2. QED
  BY <1>1, SiteInvariant, PTL

\* The handler that fails its request leaves the files of its domain as they were.
LEMMA FailureIs ==
  ASSUME SiteInv, NEW r \in server.handlers, Works(r), Undisturbed, requests'[r].step = "failed"
  PROVE  \/ \A p \in Paths : p[1] = requests[r].to[1] => files'[p] = requests[r].before[p]
         \/ requests[r].action \in {"create", "wordpress"} /\ files'[requests[r].to].valid
<1> DEFINE q == requests[r]
<1>r. SiteTypeInv /\ r \in Requests /\ q \in Request /\ Shape(q) /\ Domain(r) \in Names
  BY SitesAssumption DEF SiteInv, SiteTypeInv, SiteTypeOK, Server, Request, Paths, Domain
<1>1. Goes(r, requests'[r])
  BY <1>r, WorkGoes
<1>2. Undoable(r)
  BY <1>1, <1>r DEF SiteInv, FilesInv, Goes
<1>3. CASE q.step \in Before
  <2>1. files' = files
    BY <1>3, <1>r, WorkFiles DEF Before
  <2>2. QED
    BY <1>2, <1>3, <2>1 DEF Undoable, Domain
<1>4. CASE q.step = "undo"
  BY <1>2, <1>4, <1>r, UndoRestores, WorkFiles DEF Domain
<1>5. CASE q.step \in {"reload", "hosts"}
  <2>1. q.action \in {"create", "wordpress"} /\ files' = files
    BY <1>5, <1>r, WorkServed, WorkFiles DEF Shape
  <2>2. q.to = Conf(Domain(r)) /\ q.content \in Contents
    BY <1>5, <2>1, <1>r DEF Shape, Resting, Domain
  <2>3. files[q.to] = q.content
    <3>1. q.to \in Paths /\ q.before \in [Paths -> Contents \cup {None}]
      BY <1>r DEF Request
    <3>2. files[q.to] = Made(q)[q.to]
      BY <1>2, <1>5, <3>1 DEF Undoable, Domain, Before
    <3>3. QED
      BY <2>1, <3>1, <3>2 DEF Made
  <2>4. \A s \in Requests : requests[s].step \in {"test", "undo"} => Domain(s) # Domain(r)
    BY <1>5, <1>r DEF SiteInv, FilesInv, Active, Resting
  <2>5. ValidIn(files, Domain(r))
    BY <1>r, <2>4 DEF SiteInv, FilesInv
  <2>6. q.content # None
    BY <2>2, SitesAssumption DEF Contents
  <2>7. QED
    BY <2>1, <2>2, <2>3, <2>5, <2>6 DEF ValidIn
<1>6. q.step \in Before \cup {"undo", "reload", "hosts"}
  BY <1>1 DEF Goes, Follows, Before, Active, Resting
<1>7. QED
  BY <1>3, <1>4, <1>5, <1>6

\* A request that fails leaves the files of its domain as they were, but for a new site that passed
\* the test, whatever the handlers of other domains do meanwhile.
THEOREM FailuresRestore == SiteSpec => FailureRestores
<1>1. ASSUME SiteInv, [SiteNext]_siteVars, NEW r \in Requests,
             Undisturbed, requests[r].step \notin Resting, requests'[r].step = "failed"
      PROVE  \/ \A p \in Paths : p[1] = requests[r].to[1] => files'[p] = requests[r].before[p]
             \/ requests[r].action \in {"create", "wordpress"} /\ files'[requests[r].to].valid
  <2>t. SiteTypeInv /\ server.handlers \subseteq Requests
    BY <1>1, SitesAssumption DEF SiteInv, SiteTypeInv, SiteTypeOK, Server
  <2>1. requests' # requests
    BY <1>1 DEF Resting
  <2>2. PICK s \in server.handlers : Begins(s) \/ Works(s)
    BY <1>1, <2>1, NextIs DEF siteVars
  <2>3. ~Begins(s)
    <3>1. ASSUME NEW q, Turn(s, q), Started(s, q)
          PROVE  FALSE
      <4>1. requests'[s] = q /\ \A x \in Requests \ {s} : requests'[x] = requests[x]
        BY <2>t, <2>2, <3>1, Turned
      <4>2. requests'[s].step # "failed"
        BY <3>1, <4>1 DEF Started, Before
      <4>3. QED
        BY <1>1, <4>1, <4>2 DEF Resting
    <3>2. QED
      BY <2>t, <2>1, <2>2, <3>1, BeginStarts
  <2>4. \A x \in Requests \ {s} : requests'[x] = requests[x]
    BY <2>t, <2>2, <2>3, WorkGoes, Turned DEF Goes
  <2>5. s = r
    BY <1>1, <2>4 DEF Resting
  <2>6. QED
    BY <1>1, <2>2, <2>3, <2>5, FailureIs
<1>2. SiteInv /\ [SiteNext]_siteVars =>
        \A r \in Requests :
          Undisturbed /\ requests[r].step \notin Resting /\ requests'[r].step = "failed" =>
            \/ \A p \in Paths : p[1] = requests[r].to[1] => files'[p] = requests[r].before[p]
            \/ requests[r].action \in {"create", "wordpress"} /\ files'[requests[r].to].valid
  BY <1>1
<1>3. QED
  BY <1>2, SiteInvariant, PTL DEF FailureRestores, SiteSpec

\* The line of a domain in /etc/hosts is only lost to a domain that the name of its own begins with.
THEOREM OverridesStay == SiteSpec => OverridesKept
<1>1. ASSUME SiteInv, [SiteNext]_siteVars, Alone, NEW n \in hosts \ hosts'
      PROVE  \E m \in hosts' : <<n, m>> \in Extends
  <2>t. SiteTypeInv /\ server.handlers \subseteq Requests
    BY <1>1, SitesAssumption DEF SiteInv, SiteTypeInv, SiteTypeOK, Server
  <2>1. hosts' # hosts
    BY <1>1
  <2>2. PICK r \in server.handlers : Works(r)
    BY <1>1, <2>t, <2>1, NextIs, BeginStarts DEF siteVars
  <2>3. requests[r].step = "override"
    BY <2>t, <2>1, <2>2, WorkGoes DEF Goes
  <2>4. hosts' = OtherLines(hosts, Domain(r)) \cup {Domain(r)}
    BY <1>1, <2>t, <2>2, <2>3, WorkServed DEF SiteInv, AloneInv
  <2>5. QED
    BY <1>1, <2>4 DEF OtherLines
<1>2. SiteInv /\ [SiteNext]_siteVars =>
        (Alone => \A n \in hosts \ hosts' : \E m \in hosts' : <<n, m>> \in Extends)
  BY <1>1
<1>3. QED
  BY <1>2, SiteInvariant, PTL DEF OverridesKept, SiteSpec

=============================================================================
