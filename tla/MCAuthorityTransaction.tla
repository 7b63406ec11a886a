----------------------- MODULE MCAuthorityTransaction -----------------------
(***************************************************************************)
(* Small instances of AuthorityTransaction: three governed files, and the  *)
(* plans a promotion or a migration submits -- an update with a create, two *)
(* updates of one file (two amend mutations of one ADR), an update alone.  *)
(***************************************************************************)
EXTENDS AuthorityTransaction, TLC

CONSTANTS p1, p2, p3, old, new, j1, j2

U(p, c) == [path |-> p, content |-> c, operation |-> "update"]
C(p, c) == [path |-> p, content |-> c, operation |-> "create"]

MCPlans == { <<U(p1, new), C(p2, new)>>, <<U(p3, old), U(p3, new)>>, <<U(p1, old)>> }

JournalSymmetry == Permutations({j1, j2})
=============================================================================
