--------------------------- MODULE MCIdAllocation ---------------------------
(***************************************************************************)
(* Small instances of IdAllocation: two types, two documents of one and    *)
(* one of the other, a normal band of three numbers and one reserved.      *)
(***************************************************************************)
EXTENDS IdAllocation, TLC

CONSTANTS L, PS, f1, f2, f3, i1, i2

MCTypeOf == (f1 :> L) @@ (f2 :> L) @@ (f3 :> PS)

FileSymmetry == Permutations({f1, f2})
=============================================================================
