-------------------------- MODULE MCPatchTransaction --------------------------
(***************************************************************************)
(* Instances of PatchTransaction for TLC: two pages of code and one of     *)
(* imports, four bytes each.                                               *)
(***************************************************************************)
EXTENDS PatchTransaction

CodeAndImports == [g \in Pages |-> IF g = 2 THEN "ro" ELSE "rx"]

Site(a, n) == [addr |-> a, size |-> n, code |-> TRUE]
Slot(a, n) == [addr |-> a, size |-> n, code |-> FALSE]

\* Two sites that share a page, two that overlap, one that is too long, one
\* alone on its page, two import slots.
PagedPlaces == {Site(0, 2), Site(1, 1), Site(2, 2), Site(4, 4), Site(5, 2),
                Slot(8, 2), Slot(10, 2)}

\* Three speed sites of TH14 (games/th14.c: 0x448eb6, 0x448ff8, 0x449eff, ten
\* bytes each), the second of which lies across two pages.
Th14Places == {Site(1, 1), Site(3, 2), Site(6, 1)}
===============================================================================
