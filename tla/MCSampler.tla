----------------------------- MODULE MCSampler -----------------------------
(* Small instances of Sampler: days of two minutes, of which three minutes  *)
(* are kept, and hours of two minutes.                                      *)
EXTENDS Sampler

CONSTANTS z1, z2, none, rec1, rec2, rec3

Disabled(z) == [auto |-> FALSE, zone |-> z, key |-> "none"]
Enabled(z, key) == [auto |-> TRUE, zone |-> z, key |-> key]

\* The history, with every failure of its files.
Filing == [posts |-> {}, fails |-> {"line", "rewrite", "read"}, refused |-> {}, mishaps |-> 3]

\* A zone that is enabled and disabled, and another one beside it.
Switching ==
  [posts |-> {Enabled(z1, "new"), Enabled(z1, "masked"), Disabled(z2)}, fails |-> {"call"}, refused |-> {}, mishaps |-> 2]

\* A zone whose configuration may not be saved.
Forgetting == [posts |-> {Enabled(z1, "new"), Enabled(z1, "masked")}, fails |-> {"save"}, refused |-> {}, mishaps |-> 2]

\* A record that Cloudflare refuses every time.
Refusing ==
  [posts |-> {Enabled(z1, "new"), Disabled(z1)}, fails |-> {}, refused |-> {rec2}, mishaps |-> 1]

FourSettings == {Filing, Switching, Forgetting, Refusing}

\* The third record of a zone is after its hundredth.
FirstPage == [z \in {z1, z2} |-> IF z = z1 THEN {rec1, rec2} ELSE {rec1}]
=============================================================================
