---------------------------- MODULE MCSyncClient ----------------------------
(* Small instances of SyncClient for TLC. *)
EXTENDS SyncClient, TLC

CONSTANTS ana, beto, p1, p2

OneOwner == [e \in Entity |-> ana]
TwoOwners == p1 :> ana @@ p2 :> beto

=============================================================================
