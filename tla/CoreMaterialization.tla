------------------------- MODULE CoreMaterialization -------------------------
(***************************************************************************)
(* The core's two materialization operations over the same kind of sealed  *)
(* basis: the protocol of the request says which of them runs.             *)
(***************************************************************************)
EXTENDS SourceBasis

CONSTANT Requests

(* What parsing and the authoring schemas guarantee: lists are lists, and  *)
(* a valid document that has a topology embeds a system.                   *)
Fragment == [id : STRING, kind : STRING, state : STRING]

Document ==
    [type : STRING, version : STRING, valid : BOOLEAN, unmapped : BOOLEAN, id : STRING,
     system : Seq(Fragment), specifications : Seq(Fragment), children : Seq(Fragment), propositions : Seq(Fragment),
     implements : Seq(STRING), related : Seq(STRING),
     components : Seq([key : STRING, ref : STRING]),
     edges      : Seq([type : STRING, from : STRING, to : STRING]),
     relations  : Seq([id : STRING, from : STRING, to : STRING, state : STRING])]

ASSUME IdentityAssumption == NONE \notin Canonical

ASSUME RequestsAssumption ==
    \A r \in Requests :
        /\ r.artifacts \in Seq(ItemsOf(r.artifacts))
        /\ \A a \in ItemsOf(r.artifacts) :
              /\ a.ref \in Nat /\ a.document \in Document
              /\ a.document.valid /\ a.document.components # <<>> => a.document.system # <<>>

VARIABLES request, pc, todo, work, result

M10 == INSTANCE Materialization

M11 == INSTANCE ForwardMaterialization

vars == <<request, pc, todo, work, result>>

Old == request.protocol # "1.3"

Init == /\ request \in Requests
        /\ M10!Init

Next == \/ Old /\ M10!Next
        \/ ~Old /\ M11!Next

Spec == Init /\ [][Next]_vars

-----------------------------------------------------------------------------
Materialized == result.outcome = "Materialized"

Basis == ItemsOf(request.artifacts)

Parts(doc) == IF Old THEN Declarations(doc) ELSE <<Root(doc)>> \o M11!Fragments(doc)

(* The identity a declared part has in the model.                          *)
Mapped(id) == IF Old THEN M10!MapSourceId(id) ELSE id

(* The references a document makes, by where it makes them.                *)
Authored(doc) ==
    {<<"components", k>> : k \in DOMAIN doc.components}
        \cup {<<"edges", k>> : k \in DOMAIN doc.edges}
        \cup {<<"relations", k>> : k \in DOMAIN doc.relations}
        \cup {<<"implements", k>> : k \in IF Old THEN DOMAIN doc.implements ELSE {}}

-----------------------------------------------------------------------------
(* The identity that the p-th declaration of the k-th artifact has.        *)
Declares(k) == DOMAIN Parts(request.artifacts[k].document)

IdAt(k, p) == Mapped(Parts(request.artifacts[k].document)[p].id)

(* A materialized model holds every identity that the documents of the     *)
(* basis declare, once: no artifact is skipped and no two declarations     *)
(* meet in one entity, within a document or across documents, legacy or    *)
(* canonical (the duplicate checks of both operations).                    *)
DeclaredOnce ==
    Materialized =>
        /\ result.model.entities =
              UNION {{IdAt(k, p) : p \in Declares(k)} : k \in DOMAIN request.artifacts}
        /\ \A j, k \in DOMAIN request.artifacts : \A p \in Declares(j), q \in Declares(k) :
              IdAt(j, p) = IdAt(k, q) => j = k /\ p = q

(* Operation 1.1 does not refuse two artifacts with one sourceRef, whose   *)
(* relationships then say the same of where they come from.                *)
HasOwnRef(a) == \A b \in Basis : b.ref = a.ref => b = a

(* Every reference of a materialized basis is accounted for: as one        *)
(* relationship or as one unresolved item, never as both or as neither     *)
(* (composed_of, topology edges, extension relationships, implements).     *)
ReferencesAccounted ==
    Materialized => \A a \in {b \in Basis : HasOwnRef(b)} : \A at \in Authored(a.document) :
        LET kept == {r \in result.model.relationships : r.ref = a.ref /\ r.at = at}
            open == IF Old THEN {r \in result.model.unresolved :
                                    r.ref = a.ref /\ r.at = at}
                    ELSE {u \in ItemsOf(result.model.unresolved) :
                            at = <<"edges", u.at>>
                            /\ u.missing \subseteq {a.document.edges[u.at].from,
                                                    a.document.edges[u.at].to}}
        IN  \/ Cardinality(kept) = 1 /\ (Old => open = {})
            \/ kept = {} /\ open # {}

EarlierIds(r) == {Mapped(x.id) : x \in UNION {ItemsOf(Parts(a.document)) :
                                    a \in {b \in Basis : b.ref < r.ref}}}

(* An unresolved item of operation 1.0 has an end that nothing declares;   *)
(* only a topology member may be unresolved although it is declared, and   *)
(* then by the artifact itself or by one that sorts after it.              *)
ResolvedWhenDeclared ==
    Old /\ Materialized => \A r \in result.model.unresolved :
        CASE r.at[1] = "components" -> r.to \notin EarlierIds(r)
          [] r.at[1] = "related" -> M10!Indexed(r.to) \notin result.model.entities
          [] OTHER -> ~({r.from, r.to} \subseteq result.model.entities)

(* The model of operation 1.1 does not depend on the order of its basis.   *)
(* (semantic_core_v13_tests.rs,                                            *)
(* protocol_1_3_artifact_permutation_preserves_canonical_model_and_...)    *)
Backwards == [k \in DOMAIN request.artifacts |->
                 request.artifacts[Len(request.artifacts) + 1 - k]]

OrderIndependent ==
    ~Old /\ Materialized =>
        result.model = M11!Assemble(
            [k \in DOMAIN Backwards |->
                M11!InterpretDocument(Backwards[k].document, Backwards[k].ref)])
=============================================================================
