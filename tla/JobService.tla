----------------------------- MODULE JobService -----------------------------
(***************************************************************************)
(* What the panel promises about background jobs, without channels, locks  *)
(* or commands: every submission is answered, an accepted job is listed    *)
(* until it has ended, at most Slots of them execute at a time, and at     *)
(* most MaxRetained are listed.  The module Jobs implements it.            *)
(***************************************************************************)
EXTENDS Naturals, FiniteSets

CONSTANTS Jobs, MaxRetained, Slots

VARIABLES
  phase,   \* the life of a submission
  listed   \* the jobs GET /api/jobs can find

vars == <<phase, listed>>

Phase == {"new", "submitted", "refused", "accepted", "executing", "ended", "lost"}

Open == {j \in Jobs : phase[j] \in {"accepted", "executing"}}

Executing == {j \in Jobs : phase[j] = "executing"}

Move(j, from, to) ==
  /\ phase[j] = from
  /\ phase' = [phase EXCEPT ![j] = to]

Init ==
  /\ phase = [j \in Jobs |-> "new"]
  /\ listed = {}

Submit(j) ==
  /\ Move(j, "new", "submitted")
  /\ UNCHANGED listed

\* An accepted job is listed; jobs that have ended may be forgotten for it.
Accept(j) ==
  /\ Move(j, "submitted", "accepted")
  /\ \E kept \in SUBSET listed :
       /\ Open \subseteq kept
       /\ Cardinality(kept) < MaxRetained
       /\ listed' = kept \union {j}

Refuse(j) ==
  /\ Move(j, "submitted", "refused")
  /\ listed \subseteq Open
  /\ Cardinality(listed) >= MaxRetained
  /\ UNCHANGED listed

Begin(j) ==
  /\ Move(j, "accepted", "executing")
  /\ Cardinality(Executing) < Slots
  /\ UNCHANGED listed

End(j) ==
  /\ Move(j, "executing", "ended")
  /\ UNCHANGED listed

\* The service stops and starts again with nothing in memory.
Crash ==
  /\ phase' = [j \in Jobs |->
                 IF phase[j] \in {"submitted", "accepted", "executing"}
                 THEN "lost" ELSE phase[j]]
  /\ listed' = {}

Serve(j) == Accept(j) \/ Refuse(j) \/ Begin(j) \/ End(j)

Next ==
  \/ \E j \in Jobs : Submit(j) \/ Serve(j)
  \/ Crash

SafeSpec == Init /\ [][Next]_vars

\* Every submission is answered, and every accepted job ends, unless the
\* service crashes.
AllServed ==
  \A j \in Jobs :
    phase[j] \in {"submitted", "accepted", "executing"}
      ~> phase[j] \in {"refused", "ended", "lost"}

Spec == SafeSpec /\ AllServed
=============================================================================
