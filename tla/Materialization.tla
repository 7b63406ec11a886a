-------------------------- MODULE Materialization --------------------------
(***************************************************************************)
(* Materialization 1.0: a sealed basis of authoring 1.5 and 1.6 documents  *)
(* becomes one normalized model 2.3, or the request is refused whole.      *)
(***************************************************************************)
EXTENDS SourceBasis

VARIABLES request,   \* the request, fixed
          pc,        \* request, artifacts, admit, validate, done
          todo,      \* the positions of the artifacts left
          work,      \* what has been collected
          result     \* the bounded outcome

vars == <<request, pc, todo, work, result>>

(***************************************************************************)
(* Resources: the first selected bundle that lists a key owns it, a later  *)
(* one must agree on digest and content.                                   *)
(***************************************************************************)
Manifest(family) == request.bundles[family]

Families == <<"architecture-interpretation", "normalized-model">>

Contents(family) ==
    {k \in DOMAIN Manifest(family) : Manifest(family)[k].content # NONE}

Owner(k) == IF k \in Contents(Families[1]) THEN Families[1] ELSE Families[2]

Governed == Contents(Families[1]) \cup Contents(Families[2])

GovernedDigest(k) == Manifest(Owner(k))[k].digest

ResourceViewCodes ==
    {"source_resource_content_missing" :
        f \in {g \in ItemsOf(Families) : Contents(g) # DOMAIN Manifest(g)}}
    \cup {"selected_resource_conflict" :
        k \in {j \in Contents(Families[1]) \cap Contents(Families[2]) :
                  Manifest(Families[1])[j] # Manifest(Families[2])[j]}}
    \cup {"invalid_source_document" : keys \in {Governed} \cap {{}}}
    \cup {"source_resource_content_unqualified" :
        k \in {j \in Governed :
                  Manifest(Owner(j))[j].content # GovernedDigest(j)}}

ImportOwnershipCodes ==
    {"selected_import_owner_missing" :
        k \in {j \in DOMAIN Manifest(Families[1]) :
                  j[1] = "2.3" /\ j \notin DOMAIN Manifest(Families[2])}}

(***************************************************************************)
(* Identities.                                                             *)
(***************************************************************************)
(* The legacy identity map is a list of pairs; of two pairs for a source   *)
(* the last one counts, and the request is refused.                        *)
Entries == request.legacy.entries

Sources == {e[1] : e \in ItemsOf(Entries)}

IdentityMap ==
    [s \in Sources |->
        LET uses == {k \in DOMAIN Entries : Entries[k][1] = s}
        IN  Entries[CHOOSE k \in uses : \A j \in uses : j <= k][2]]

MapSourceId(id) ==
    IF id \in Canonical THEN id
    ELSE IF id \in DOMAIN IdentityMap /\ IdentityMap[id] \in Canonical
         THEN IdentityMap[id] ELSE NONE

MapCode(id) == IF id \in DOMAIN IdentityMap THEN "identity_map_invalid_target"
               ELSE "identity_qualification_required"

IdentityMapCodes ==
    {"identity_map_unsealed" : m \in {request.legacy.sealed} \ {TRUE}}
        \cup {"identity_map_provider_mismatch" : m \in {request.legacy.provider} \ {TRUE}}
        \cup {"identity_map_duplicate_source" :
                 m \in {Cardinality(Sources)} \ {Len(Entries)}}

(* related_adrs are looked up among the identities of every document of    *)
(* the request, read before any of them is qualified.                      *)
Indexed(id) == IF id \in Canonical THEN id
               ELSE IF id \in DOMAIN IdentityMap THEN IdentityMap[id] ELSE NONE

IdentityIndex ==
    (UNION {{Indexed(x.id) : x \in ItemsOf(Declarations(a.document))} :
               a \in ItemsOf(request.artifacts)}) \ {NONE}

(***************************************************************************)
(* Qualification of one artifact against its source contract.              *)
(***************************************************************************)
Governs(k, digest) == k \in Governed /\ GovernedDigest(k) = digest

BoundClosureCodes(a) ==
    LET expected == ExpectedResources(a.binding.version, a.document.type) \cap Governed
    IN  {"source_contract_resource_unqualified" :
            k \in {j \in DOMAIN a.binding.closure : ~Governs(j, a.binding.closure[j])}}
        \cup {"source_contract_closure_mismatch" :
            c \in {a.binding.closure} \ {[e \in expected |-> GovernedDigest(e)]}}

BoundSchemaCodes(a) ==
    LET b == a.binding
    IN  {"source_contract_schema_mismatch" :
            k \in {b.schema} \ {<<b.version, a.document.type>>}}
        \cup {"source_contract_schema_unqualified" :
            k \in {j \in {b.schema} : ~Governs(j, b.digest)}}

SourceContractCodes(a) ==
    IF a.binding.version \notin {"1.5", "1.6"} THEN {"unsupported_source_contract"}
    ELSE BoundSchemaCodes(a) \cup BoundClosureCodes(a)

(* The first refusal of an artifact, in the order of the checks.           *)
QualificationCodes(a) ==
    CASE ~a.complete -> {"incomplete_source_artifact"}
      [] a.complete /\ a.document.version # a.binding.version ->
            {"artifact_contract_mismatch"}
      [] OTHER ->
            IF SourceContractCodes(a) # {} THEN SourceContractCodes(a)
            ELSE IF \/ ~a.document.valid
                    \/ a.binding.version = "1.5" /\ a.document.propositions # <<>>
                 THEN {"invalid_source_document"} ELSE {}

(***************************************************************************)
(* What an artifact contributes is collected into sets: every record keeps *)
(* the place it was authored at, so nothing that counts is merged.         *)
(***************************************************************************)
Note(w, codes) == [w EXCEPT !.diags = @ \cup codes]

Collect(w, kept, open) == [w EXCEPT !.relationships = @ \cup kept, !.unresolved = @ \cup open]

(***************************************************************************)
(* Declaring entities: why a part does not become one.  A custom entity is *)
(* checked before its identity is looked up, a proposition after.          *)
(***************************************************************************)
EntityCodes(x) == IF MapSourceId(x.id) = NONE THEN {MapCode(x.id)} ELSE {}

ExtensionCodes(x) == IF Ok(x) THEN EntityCodes(x) ELSE {"invalid_extension_entity"}

PropositionCodes(x) ==
    IF MapSourceId(x.id) # NONE /\ ~Ok(x) THEN {"invalid_normative_proposition"}
    ELSE EntityCodes(x)

PartCodes(x) ==
    CASE x.kind = "extension" -> ExtensionCodes(x)
      [] x.kind = "np" -> PropositionCodes(x)
      [] OTHER -> EntityCodes(x)

Declared(parts) == {k \in DOMAIN parts : PartCodes(parts[k]) = {}}

PartId(parts, k) == MapSourceId(parts[k].id)

(* The declarations whose identity is taken, by the basis or by the list.  *)
Taken(w, parts) ==
    {k \in Declared(parts) : \/ PartId(parts, k) \in w.known
                              \/ \E j \in Declared(parts) :
                                     j < k /\ PartId(parts, j) = PartId(parts, k)}

Enter(w, parts, ref) ==
    [w EXCEPT !.known = @ \cup {PartId(parts, k) : k \in Declared(parts)},
              !.entities = @ \cup {[id |-> PartId(parts, k), ref |-> ref] : k \in Declared(parts)}]

(* A mutant: a second declaration of an identity replaces the first.       *)
DeclareAllAgain(w, parts, ref) ==
    Note(Enter(w, parts, ref), UNION {PartCodes(parts[k]) : k \in DOMAIN parts})

(* An accepted part becomes an entity; a second one with its identity is   *)
(* noted and kept.                                                         *)
DeclareAll(w, parts, ref) ==
    Note(Enter(w, parts, ref),
         (UNION {PartCodes(parts[k]) : k \in DOMAIN parts})
             \cup {"duplicate_canonical_definition" : k \in Taken(w, parts)})

(***************************************************************************)
(* Relationships.  A record keeps the reference as it was authored (field, *)
(* index), which is what its source pointer says.                          *)
(***************************************************************************)
Rel(type, from, to, ref, at) ==
    [type |-> type, from |-> from, to |-> to, ref |-> ref, at |-> at]

Implements(w, doc, ref) ==
    LET Target(k) == MapSourceId(doc.implements[k])
        lost == {k \in DOMAIN doc.implements : Target(k) = NONE}
    IN  Note(Collect(w, {Rel("implements", MapSourceId(doc.id), Target(k), ref, <<"implements", k>>) :
                            k \in DOMAIN doc.implements \ lost}, {}),
             {MapCode(doc.implements[k]) : k \in lost})

(* Topology members are looked up among the entities known so far, under   *)
(* the reference as authored.                                              *)
Member(doc, k, ref) ==
    Rel("composed_of", MapSourceId(doc.system[1].id), doc.components[k].ref, ref, <<"components", k>>)

TopologyMembers(w, doc, ref) ==
    IF doc.system = <<>> THEN w
    ELSE IF MapSourceId(doc.system[1].id) = NONE THEN Note(w, {MapCode(doc.system[1].id)})
    ELSE LET found == {k \in DOMAIN doc.components : doc.components[k].ref \in w.known}
         IN  Collect(w, {Member(doc, k, ref) : k \in found},
                        {Member(doc, k, ref) : k \in DOMAIN doc.components \ found})

(* A handle names the last component that uses it.                         *)
Handle(doc, key) ==
    LET uses == {k \in DOMAIN doc.components : doc.components[k].key = key}
    IN  IF uses = {} THEN NONE
        ELSE doc.components[CHOOSE k \in uses : \A j \in uses : j <= k].ref

EdgeOf(doc, k, ref) ==
    Rel(doc.edges[k].type, Handle(doc, doc.edges[k].from), Handle(doc, doc.edges[k].to), ref,
        <<"edges", k>>)

(* The edges that have a handle no component uses.                         *)
Loose(doc) ==
    {k \in DOMAIN doc.edges :
        NONE \in {Handle(doc, doc.edges[k].from), Handle(doc, doc.edges[k].to)}}

(* A mutant: an edge with an unknown handle is skipped.                    *)
TopologyEdgesKnown(w, doc, ref) ==
    Collect(w, {EdgeOf(doc, k, ref) : k \in DOMAIN doc.edges \ Loose(doc)}, {})

TopologyEdges(w, doc, ref) ==
    Collect(w, {EdgeOf(doc, k, ref) : k \in DOMAIN doc.edges \ Loose(doc)},
               {EdgeOf(doc, k, ref) : k \in Loose(doc)})

(* The identity, the source end and the target end are looked up in turn;  *)
(* a relationship's identity is not compared with those of the entities.   *)
RelationshipCodes(x) ==
    LET ids  == <<x.id, x.from, x.to>>
        lost == {i \in 1 .. 3 : MapSourceId(ids[i]) = NONE}
    IN  IF lost # {} THEN {MapCode(ids[CHOOSE i \in lost : \A j \in lost : i <= j])}
        ELSE IF Ok(x) THEN {} ELSE {"invalid_source_relationship"}

ExtensionRelationships(w, doc, ref) ==
    LET From(k) == MapSourceId(doc.relations[k].from)
        To(k)   == MapSourceId(doc.relations[k].to)
        sound   == {k \in DOMAIN doc.relations : RelationshipCodes(doc.relations[k]) = {}}
    IN  Note(Collect(w, {Rel("custom", From(k), To(k), ref, <<"relations", k>>) : k \in sound}, {}),
             UNION {RelationshipCodes(doc.relations[k]) : k \in DOMAIN doc.relations})

RelatedAdrs(w, doc, ref) ==
    Collect(w, {}, {Rel("related", doc.id, doc.related[k], ref, <<"related", k>>) :
                       k \in {j \in DOMAIN doc.related : Indexed(doc.related[j]) \notin IdentityIndex}})

(* A document's fields that no mapping accepts are refused, not dropped.   *)
UnmappedCodes(doc) ==
    {"unsupported_source_construct" : u \in {doc.unmapped} \ {FALSE}}

(***************************************************************************)
(* One artifact of the loop.                                               *)
(***************************************************************************)
Seen(w, a) ==
    [w EXCEPT !.refs = @ \cup {a.ref}, !.roots = @ \cup {a.document.id},
              !.diags = IF a.ref \in w.refs \/ a.document.id \in w.roots
                        THEN @ \cup {"duplicate_source_identity"} ELSE @]

Admit(w, a) ==
    [Note(Seen(w, a), UnmappedCodes(a.document)) EXCEPT
        !.limits = IF a.binding.version = "1.5" THEN @ \cup {a.binding.schema} ELSE @]

MaterializeDocument(w, a) ==
    LET doc == a.document
        declared == DeclareAll(Admit(w, a),
            <<Root(doc)>> \o PartsBefore(doc), a.ref)
        linked == TopologyEdges(
            TopologyMembers(Implements(declared, doc, a.ref), doc, a.ref), doc, a.ref)
        closed == DeclareAll(linked, PartsAfter(doc), a.ref)
    IN  RelatedAdrs(ExtensionRelationships(closed, doc, a.ref), doc, a.ref)

MaterializeArtifact(w, a) ==
    CASE QualificationCodes(a) # {} -> Note(w, QualificationCodes(a))
      [] QualificationCodes(a) = {} /\ MapSourceId(a.document.id) = NONE ->
            Note(Seen(w, a), {MapCode(a.document.id)})
      [] OTHER -> MaterializeDocument(w, a)

(***************************************************************************)
(* The operation.                                                          *)
(***************************************************************************)
NoModel == [entities |-> {}, relationships |-> {}, unresolved |-> {}, limits |-> {}]

Failed(outcome, codes) == [outcome |-> outcome, codes |-> codes, model |-> NoModel]

Pending == [outcome |-> "none", codes |-> {}, model |-> NoModel]

EmptyWork == [known |-> {}, entities |-> {}, relationships |-> {}, unresolved |-> {},
              diags |-> {}, refs |-> {}, roots |-> {}, limits |-> {}]

Init == /\ pc = "request"
        /\ todo = {}
        /\ work = EmptyWork
        /\ result = Pending

RequestRefusal ==
    CASE ~request.stated \/ ~request.resolved -> Failed("Rejected", {"request"})
      [] request.stated /\ request.resolved /\ ~request.provider ->
            Failed("Rejected", {"provider_identity_required"})
      [] OTHER -> Failed("Unavailable", {"source_basis_unavailable"})

Refuse == /\ pc = "request"
          /\ \/ ~request.stated \/ ~request.resolved
             \/ ~request.provider \/ ~request.basis
          /\ result' = RequestRefusal
          /\ pc' = "done"
          /\ UNCHANGED <<request, todo, work>>

Begin == /\ pc = "request"
         /\ request.stated /\ request.resolved /\ request.provider /\ request.basis
         /\ todo' = DOMAIN request.artifacts
         /\ work' = Note(work, ResourceViewCodes \cup ImportOwnershipCodes
                                 \cup IdentityMapCodes
                                 \cup {"source_basis_not_sealed" :
                                          s \in {request.sealed} \ {TRUE}})
         /\ pc' = "artifacts"
         /\ UNCHANGED <<request, result>>

(* A mutant: the artifacts are taken in the order of the request.          *)
FirstUnsorted(k) == \A j \in todo : k <= j

(* The artifacts are taken by their references; the sort is stable.        *)
First(k) ==
    LET Ref(j) == request.artifacts[j].ref
    IN  \A j \in todo : Ref(k) < Ref(j) \/ (Ref(k) = Ref(j) /\ k <= j)

NextArtifact == /\ pc = "artifacts"
                /\ \E k \in todo : /\ First(k)
                                    /\ work' = MaterializeArtifact(work, request.artifacts[k])
                                    /\ todo' = todo \ {k}
                /\ UNCHANGED <<request, pc, result>>

(* A relationship is admitted when both ends are known once every artifact *)
(* has been read; the others join the unresolved ones.                     *)
Admitted(r) == {r.from, r.to} \subseteq work.known

AdmitRelationships ==
    /\ pc = "artifacts"
    /\ todo = {}
    /\ LET admitted == {r \in work.relationships : Admitted(r)}
       IN work' = [work EXCEPT !.relationships = admitted,
                               !.unresolved = @ \cup (work.relationships \ admitted)]
    /\ pc' = "admit"
    /\ UNCHANGED <<request, todo, result>>

ModelOf(w) == [entities |-> {e.id : e \in w.entities}, relationships |-> w.relationships,
               unresolved |-> w.unresolved, limits |-> w.limits]

EndpointsEmitted(m) ==
    \A r \in m.relationships : {r.from, r.to} \subseteq m.entities

Finish(valid) ==
    /\ pc = "admit"
    /\ result' = IF work.diags # {} THEN Failed("Rejected", work.diags)
                 ELSE IF ~valid \/ ~EndpointsEmitted(ModelOf(work))
                 THEN Failed("Rejected", {"normalized_model_invalid"})
                 ELSE [outcome |-> "Materialized", codes |-> {}, model |-> ModelOf(work)]
    /\ pc' = "done"
    /\ UNCHANGED <<request, todo, work>>

Next == \/ Refuse
        \/ Begin
        \/ NextArtifact
        \/ AdmitRelationships
        \/ \E valid \in BOOLEAN : Finish(valid)
=============================================================================
