------------------------------- MODULE MCSites -------------------------------
(* A small instance of Sites: two domains, of which one begins with the other. *)
EXTENDS Sites, TLC

CONSTANTS r1, r2, a, b, none

ABeginsWithB == {<<a, b>>}

\* Requests one at a time, with reloads that work and reloads that may fail.
QuietServer == [handlers |-> {r1}, apart |-> FALSE, reloadFails |-> FALSE, requests |-> 4]
FailingServer == [handlers |-> {r1}, apart |-> FALSE, reloadFails |-> TRUE, requests |-> 4]

\* Two requests at a time, for different domains and for any.
SharedServer == [handlers |-> {r1, r2}, apart |-> TRUE, reloadFails |-> TRUE, requests |-> 3]
BusyServer == [handlers |-> {r1, r2}, apart |-> FALSE, reloadFails |-> TRUE, requests |-> 2]

FourServers == {QuietServer, FailingServer, SharedServer, BusyServer}

Symmetry == Permutations({r1, r2})

=============================================================================
