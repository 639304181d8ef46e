------------------------------- MODULE MCFeed -------------------------------
(* Small instances of Feed for TLC: the delta while rows are written, the    *)
(* pages while the listing changes, and the two ways into SQLite together.   *)
EXTENDS Feed, TLC

CONSTANTS m1

TheMixes == {{"flush", "write"}, {"page", "look", "list"}, {"flush", "write", "look"}}
OnlyPages == {{"page"}}
=============================================================================
