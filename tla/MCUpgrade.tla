------------------------------ MODULE MCUpgrade ------------------------------
(* Packages of each kind, of which one is forged: it has the version of a   *)
(* signed one, and no key signed it.                                        *)
EXTENDS Upgrade

CONSTANTS old, good, crash, hang, forged, key

VersionOf == [p \in Packages |-> IF p = forged THEN good ELSE p]
SignedBy == [k \in Keys |-> Packages \ {old, forged}]
=============================================================================
