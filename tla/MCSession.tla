----------------------------- MODULE MCSession -----------------------------
(* A small instance of Session for TLC. *)
EXTENDS Session, TLC

CONSTANTS d1, d2, r1, r2

Symmetric == Permutations(Req)
=============================================================================
