------------------------------ MODULE MCPages ------------------------------
(* A small instance of Pages for TLC. *)
EXTENDS Pages

\* Four rows within two milliseconds of two instants each.
MCId == 1..4

AllListings == {"pending", "deletions", "guias", "posts", "messages"}
============================================================================
