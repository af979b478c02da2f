----------------------------- MODULE MCNodePort -----------------------------
(* A small instance of NodePort: jobs for one node. *)
EXTENDS NodePort, TLC

CONSTANTS j1, j2, j3

\* Scripts that sshd refuses, and an operator who edits or deletes the entry; a stop.
RefusingHost ==
  [kinds |-> Kinds, refused |-> {"prepare", "finalize", "lock"}, cut |-> FALSE, relist |-> FALSE,
   edits |-> 1, crashes |-> 1]

\* Every script may be refused, and the panel stops.
StoppingPanel ==
  [kinds |-> Kinds, refused |-> {"prepare", "rollback", "finalize", "lock"}, cut |-> FALSE, relist |-> FALSE,
   edits |-> 0, crashes |-> 2]

\* Connections are cut between any two lines of a script.
CutConnections ==
  [kinds |-> Kinds, refused |-> {"prepare", "finalize", "lock"}, cut |-> TRUE, relist |-> FALSE,
   edits |-> 0, crashes |-> 0]

\* The operator lists ports himself.
ListingOperator ==
  [kinds |-> Kinds, refused |-> {"prepare"}, cut |-> FALSE, relist |-> TRUE, edits |-> 1, crashes |-> 0]

FourSettings == {RefusingHost, StoppingPanel, CutConnections, ListingOperator}

Symmetry == Permutations({j1, j2, j3})

=============================================================================
