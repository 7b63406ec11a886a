---------------------------- MODULE AtomicCommit ----------------------------
(***************************************************************************)
(* What commit_all_or_none promises its callers, "commit all or recover    *)
(* none": the governed files change only by applying one whole list of     *)
(* planned writes at once.                                                 *)
(***************************************************************************)
EXTENDS Naturals, Sequences

CONSTANTS Path, Bytes, Absent, Plans

VARIABLE authority

Init == authority \in [Path -> Bytes \cup {Absent}]

(* Every target gets the content planned last for it; nothing else changes. *)
(* A create is for a path with no file, any other write for a file.         *)
Apply(w) ==
    /\ \A i \in DOMAIN w : w[i].operation = "create" <=> authority[w[i].path] = Absent
    /\ authority' \in [Path -> Bytes \cup {Absent}]
    /\ \A p \in Path : (\A i \in DOMAIN w : w[i].path # p) => authority'[p] = authority[p]
    /\ \A i \in DOMAIN w :
          (\A m \in (i + 1)..Len(w) : w[m].path # w[i].path)
              => authority'[w[i].path] = w[i].content

Next == \E w \in Plans : Apply(w)

Spec == Init /\ [][Next]_authority
=============================================================================
