---------------------------- MODULE MCDeployments ----------------------------
(* A small instance of Deployments. *)
EXTENDS Deployments, TLC

CONSTANTS web, db, j1, j2

\* Two projects, in any sequence of five requests.
QuietCenter ==
  [projects |-> {web, db}, jobs |-> {j1}, overlap |-> FALSE, failures |-> FALSE, requests |-> 5, crashes |-> 0]

\* Calls that fail and stops of the panel, over eight requests for one project.
FailingCenter ==
  [projects |-> {web}, jobs |-> {j1}, overlap |-> FALSE, failures |-> TRUE, requests |-> 8, crashes |-> 2]

\* Requests beside the jobs of others, and a stop.
BusyCenter ==
  [projects |-> {web}, jobs |-> {j1, j2}, overlap |-> TRUE, failures |-> FALSE, requests |-> 4, crashes |-> 1]

ThreeCenters == {QuietCenter, FailingCenter, BusyCenter}

Symmetry == Permutations({j1, j2})

=============================================================================
