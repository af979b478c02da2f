------------------------------ MODULE MCBackups ------------------------------
(* A small instance of Backups: two settings with two values, three tasks. *)
EXTENDS Backups, TLC

CONSTANTS i1, i2, i3, c1, c2, s1, s2

\* Requests for three tasks, with writes that fail and stops of the panel.
TaskLoad ==
  [ids |-> {i1, i2, i3}, commands |-> {c1, c2}, requests |-> 5, faults |-> 2, stops |-> 2,
   overlap |-> FALSE, saves |-> 0, jobs |-> 0]

\* Requests, changes and jobs one after the other.
QuietLoad ==
  [ids |-> {i1}, commands |-> {c1, c2}, requests |-> 3, faults |-> 0, stops |-> 0,
   overlap |-> FALSE, saves |-> 2, jobs |-> 3]

\* Jobs beside requests, changes and a write that fails.
BusyLoad ==
  [ids |-> {i1}, commands |-> {c1}, requests |-> 2, faults |-> 1, stops |-> 0,
   overlap |-> TRUE, saves |-> 1, jobs |-> 2]

\* Stops at any step of a job, and another job after them.
StoppedLoad ==
  [ids |-> {i1}, commands |-> {c1}, requests |-> 2, faults |-> 0, stops |-> 1,
   overlap |-> FALSE, saves |-> 2, jobs |-> 3]

\* Jobs between requests that fail or are cut by a stop, so that an archive may lack the list.
FaultyLoad ==
  [ids |-> {i1}, commands |-> {c1}, requests |-> 2, faults |-> 2, stops |-> 1,
   overlap |-> FALSE, saves |-> 0, jobs |-> 3]

FiveLoads == {TaskLoad, QuietLoad, BusyLoad, StoppedLoad, FaultyLoad}

Symmetry == Permutations({i2, i3}) \cup Permutations(Settings)
=============================================================================
