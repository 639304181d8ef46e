----------------------------- MODULE MCNotices -----------------------------
(* A small instance of Notices for TLC: notices and devices of two users, or *)
(* the weather alerts of one of them.                                         *)
EXTENDS Notices, TLC

CONSTANTS ana, beto, phone, t1, a1, a2, rain, r1, r2

TheMixes == {{"send", "register", "login", "ack"}, {"send", "register", "unregister"},
             {"job", "alert"}, {"job", "register", "ack"}}
Kinds    == a1 :> rain @@ a2 :> rain
Owners   == [a \in Alert |-> ana]

Symmetric == Permutations(Req)
=============================================================================
