----------------------------- MODULE MCFirewall -----------------------------
(* Small instances of Firewall: sshd on port 22, and another port it may    *)
(* move to.                                                                 *)
EXTENDS Firewall, TLC

CONSTANTS h1, h2, src1, src2

SshRules == {Allow("v4", 22), Allow("v6", 22), [Allow("v4", 22) EXCEPT !.from = "net"]}
TwoPorts == {Allow("v4", 22), Allow("v6", 22), Allow("v4", 2222), Allow("v6", 2222)}
AllRules == SshRules \cup TwoPorts

\* Failing loads and writes, and stops of the panel or the machine.
FaultyHost ==
  [rules |-> SshRules, addresses |-> {src1}, boots |-> {"load"}, cli |-> FALSE, apart |-> FALSE,
   time |-> 1, failures |-> 2, crashes |-> 1, moves |-> 0]

\* Two sources.
BannedHost ==
  [rules |-> {}, addresses |-> {src1, src2}, boots |-> {"load"}, cli |-> FALSE, apart |-> FALSE,
   time |-> 1, failures |-> 1, crashes |-> 1, moves |-> 0]

\* sshd on the move, beside requests and between them.
MovingHost ==
  [rules |-> TwoPorts, addresses |-> {}, boots |-> {"load"}, cli |-> FALSE, apart |-> TRUE,
   time |-> 0, failures |-> 2, crashes |-> 1, moves |-> 2]
BusyHost == [MovingHost EXCEPT !.apart = FALSE, !.failures = 1, !.crashes = 0, !.moves = 1]

\* Every kind of start, and the command beside the panel and its page.
SharedHost ==
  [rules |-> SshRules, addresses |-> {}, boots |-> {"load", "skip", "fail"}, cli |-> TRUE, apart |-> FALSE,
   time |-> 0, failures |-> 1, crashes |-> 1, moves |-> 0]

\* All of these, with sshd on the move between them.
CrowdedHost == [SharedHost EXCEPT !.rules = {Allow("v4", 22), Allow("v4", 2222), Allow("v6", 2222)},
                                  !.apart = TRUE, !.failures = 0, !.moves = 1]

\* The command beside a ban that ends and is entered again.
CommandHost == [BannedHost EXCEPT !.rules = {[Allow("v4", 22) EXCEPT !.from = "net"]}, !.addresses = {src1},
                                  !.cli = TRUE, !.failures = 0, !.crashes = 0]

SevenHosts == {FaultyHost, BannedHost, MovingHost, BusyHost, SharedHost, CrowdedHost, CommandHost}

Symmetry == Permutations({h1, h2})

=============================================================================
