----------------------------- MODULE MCLateEntry ------------------------------
(***************************************************************************)
(* An instance of LateEntry for TLC: two imports, so that one can be taken *)
(* and the other not, and one thread beside the main one.                  *)
(***************************************************************************)
EXTENDS LateEntry

CONSTANTS d3d, joy

SomeImports == {d3d, joy}
===============================================================================
