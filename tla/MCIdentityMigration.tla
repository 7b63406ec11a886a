------------------------ MODULE MCIdentityMigration ------------------------
(***************************************************************************)
(* Small instances of IdentityMigration: document d1 declares x besides    *)
(* itself, d3 declares z with the same legacy identifier, and d1 and d2    *)
(* refer to one another's entities.                                        *)
(***************************************************************************)
EXTENDS IdentityMigration, TLC

CONSTANTS d1, d2, d3, a, b, c, x, z, A1, A2, A3, AX, r1, r2, r3, n1, n2

MCHome == (a :> d1) @@ (x :> d1) @@ (b :> d2) @@ (c :> d3) @@ (z :> d3)
MCRoot == (d1 :> a) @@ (d2 :> b) @@ (d3 :> c)
MCAliasOf == (a :> A1) @@ (x :> AX) @@ (b :> A2) @@ (c :> A3) @@ (z :> AX)
MCNameOf == (a :> n1) @@ (x :> n2) @@ (b :> n1) @@ (c :> n2) @@ (z :> n2)
MCFrom == (r1 :> d1) @@ (r2 :> d2) @@ (r3 :> d2)
MCTo == (r1 :> x) @@ (r2 :> x) @@ (r3 :> a)

(* Fresh ones for x in either map, and the one that the first map has for x. *)
MCReplacements == {<<3, x>>, <<4, x>>, <<1, x>>}

MCPlace == (a :> 1) @@ (x :> 2) @@ (b :> 3) @@ (c :> 4) @@ (z :> 5)
=============================================================================
