----------------------------- MODULE MCCatalog -----------------------------
(* A small instance of Catalog for TLC: uploads and removals, the files that *)
(* are opened, or the prices.                                                 *)
EXTENDS Catalog, TLC

CONSTANTS maiz, r1, r2

TheMixes  == {{"upload", "remove"}, {"upload", "open"}, {"report", "price"}}
Symmetric == Permutations(Req)
=============================================================================
