----------------------------- MODULE MCAccounts -----------------------------
(* A small instance of Accounts for TLC: a behaviour mixes registrations with *)
(* verdicts, or works on the one-time codes of a phone.                        *)
EXTENDS Accounts, TLC

CONSTANTS e1, e2, root, n1, n2, f1, r1, r2

TheMixes == {{"register", "resend", "verdict"}, {"send", "verify", "delete"}}

Symmetric == Permutations(Req) \cup Permutations(Nit) \cup Permutations({e1, e2})
=============================================================================
