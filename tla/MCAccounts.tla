----------------------------- MODULE MCAccounts -----------------------------
(* Small instances of Accounts: an owner and one more account. *)
EXTENDS Accounts, TLC

CONSTANTS kun, ann, pw0, pw1, pw2

\* Two roles and older hashes: what becomes of the sessions of an account.
OldPanel ==
  [roles |-> {"admin", "viewer"}, passwords |-> {pw0}, legacy |-> {kun, ann}, cookies |-> 2, resets |-> 0]

\* Two passwords, and reset-password beside the panel: what becomes of a change.
ResetPanel ==
  [roles |-> {"admin"}, passwords |-> {pw1, pw2}, legacy |-> {}, cookies |-> 1, resets |-> 1]

TwoPanels == {OldPanel, ResetPanel}

PasswordSymmetry == Permutations({pw1, pw2})

=============================================================================
