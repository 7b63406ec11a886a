---------------------------- MODULE MCPromotion ----------------------------
(***************************************************************************)
(* Small instances of Promotion: two contracts over two governed files,    *)
(* in two shapes that differ in what the contracts share.                  *)
(***************************************************************************)
EXTENDS Promotion, TLC

CONSTANTS A, B, pA, pB, pN, m1, m2, m3, v0

M(id, target, operation) == [id |-> id, target |-> target, operation |-> operation]

(* Distinct mutation identifiers and targets; both contracts amend pA. *)
MCDistinct == (A :> <<M(m1, pA, "amend"), M(m2, pN, "create")>>) @@ (B :> <<M(m3, pA, "amend")>>)

(* Both contracts number their mutations from m1 (every journal has "M-01"). *)
MCSharedIds == (A :> <<M(m1, pA, "amend")>>) @@ (B :> <<M(m1, pB, "amend")>>)
=============================================================================
