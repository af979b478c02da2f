---------------------------- MODULE MCLoginGuard ----------------------------
(* A small instance of LoginGuard: the limits of the code scaled down in     *)
(* their order, ip before account and subnet before the panel, and times     *)
(* longer than the window for all but the panel.                             *)
EXTENDS LoginGuard, TLC

CONSTANTS h1, h2, src1, src2, ann, blank

SameSubnet == [s \in Sources |-> "net"]
\* Both sources try the one account; the second also leaves the name blank.
BlankToo == [s \in Sources |-> IF s = src1 THEN {ann} ELSE {ann, blank}]
SmallThreshold == [ip |-> 2, subnet |-> 3, account |-> 3, global |-> 4]
SmallBlockFor == [ip |-> 2, subnet |-> 2, account |-> 2, global |-> 1]

Symmetry == Permutations({h1, h2})

=============================================================================
