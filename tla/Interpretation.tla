--------------------------- MODULE Interpretation ---------------------------
(***************************************************************************)
(* Architecture Interpretation 1.1: what one authoring 1.7 document means, *)
(* and how the meanings of several documents become one model.             *)
(***************************************************************************)
EXTENDS SourceBasis

(***************************************************************************)
(* The result of one fragment.                                             *)
(***************************************************************************)
Accepted(record) == [disposition |-> "accepted", record |-> record]

Unresolved(record) == [disposition |-> "unresolved", record |-> record]

Rejected(reason) == [disposition |-> "rejected", record |-> [reason |-> reason]]

(* A document is invalid as soon as one of its fragments is not            *)
(* interpretable: the code returns the first error.                        *)
Fails(results) == \E r \in results : r.disposition = "rejected"

RecordsOf(disposition, results) ==
    {r.record : r \in {q \in results : q.disposition = disposition}}

(***************************************************************************)
(* Custom entities and relationships need their exact qualification.       *)
(***************************************************************************)
CustomQualification(x) ==
    CASE x.state = "unqualified" -> {"custom_qualification_missing"}
      [] x.state = "mismatched" -> {"custom_qualification_mismatch"}
      [] OTHER -> {}

CustomEntityResult(x) ==
    CASE x.state = "retired" -> Rejected("forward_type_forbidden")
      [] x.state # "retired" /\ CustomQualification(x) # {} ->
            Rejected(CHOOSE reason \in CustomQualification(x) : TRUE)
      [] OTHER -> Accepted([id |-> x.id, class |-> "qualified_custom"])

FragmentResult(x) ==
    CASE x.kind = "np" /\ x.state = "retired" -> Rejected("np_lifecycle_forbidden")
      [] x.kind = "extension" -> CustomEntityResult(x)
      [] x.kind \notin {"np", "extension"} /\ x.state = "retired" ->
            Rejected("forward_type_forbidden")
      [] OTHER -> Accepted([id |-> x.id, class |-> "canonical"])

DocumentResult(doc) ==
    IF doc.type \in Types THEN Accepted([id |-> doc.id, class |-> "canonical"])
    ELSE Rejected("forward_type_forbidden")

(***************************************************************************)
(* The fragments of a document.  The system that a physical-system document*)
(* embeds under the document's own identity is the document itself.        *)
(***************************************************************************)
Fragments(doc) ==
    PartsAfter(doc)
    \o (IF \E x \in ItemsOf(doc.system) : x.id = doc.id THEN <<>> ELSE doc.system)
    \o doc.specifications

EntityResults(doc) ==
    {DocumentResult(doc)} \cup {FragmentResult(x) : x \in ItemsOf(Fragments(doc))}

(* Every accepted fragment needs a canonical identity of its own.          *)
NormalizedEntity(record) == record.id \in Canonical

Repeats(parts) == {p \in DOMAIN parts : \E q \in 1 .. p - 1 : parts[p].id = parts[q].id}

EntitiesInterpretable(doc) ==
    /\ ~Fails(EntityResults(doc))
    /\ \A e \in RecordsOf("accepted", EntityResults(doc)) : NormalizedEntity(e)
    /\ Repeats(<<Root(doc)>> \o Fragments(doc)) = {}

Classification(doc, id) ==
    LET uses == {e \in RecordsOf("accepted", EntityResults(doc)) : e.id = id}
    IN  IF uses = {} THEN "unknown" ELSE (CHOOSE e \in uses : TRUE).class

(***************************************************************************)
(* Relationships.                                                          *)
(***************************************************************************)
Edge(type, kind, from, to, ref, at) ==
    [type |-> type, kind |-> kind, from |-> from, to |-> to, ref |-> ref, at |-> at]

Keys(doc) == {c.key : c \in ItemsOf(doc.components)}

TopologyIndex(doc) ==
    [key \in Keys(doc) |-> (CHOOSE c \in ItemsOf(doc.components) : c.key = key).ref]

KeyRepeated(doc) == Cardinality(Keys(doc)) # Len(doc.components)

TopologyRelationship(doc, k, ref) ==
    LET edge == doc.edges[k]
        missing == {edge.from, edge.to} \ Keys(doc)
    IN  CASE edge.type \notin {"calls", "depends_on"} ->
                Rejected("forward_relationship_forbidden")
          [] edge.type \in {"calls", "depends_on"} /\ KeyRepeated(doc) ->
                Rejected("duplicate owner-local topology key")
          [] edge.type \in {"calls", "depends_on"} /\ ~KeyRepeated(doc)
                /\ missing # {} ->
                Unresolved([code |-> "topology_key_unresolved", at |-> k,
                            missing |-> missing])
          [] OTHER ->
                Accepted(Edge(edge.type, "compatibility", TopologyIndex(doc)[edge.from],
                              TopologyIndex(doc)[edge.to], ref, <<"edges", k>>))

CompositionRelationship(doc, k, ref) ==
    IF doc.system = <<>> THEN Rejected("physical-system document lacks system")
    ELSE Accepted(Edge("composed_of", "compatibility", doc.system[1].id,
                       doc.components[k].ref, ref, <<"components", k>>))

EndpointsGoverned(doc, x) ==
    \A id \in {x.from, x.to} : Classification(doc, id) # "unknown"

CustomRelationshipResult(doc, k, ref) ==
    LET x == doc.relations[k]
    IN  CASE x.state = "retired" -> Rejected("forward_relationship_forbidden")
          [] x.state # "retired" /\ ~EndpointsGoverned(doc, x) ->
                Rejected("custom_endpoint_classification_invalid")
          [] x.state # "retired" /\ EndpointsGoverned(doc, x)
                /\ CustomQualification(x) # {} ->
                Rejected(CHOOSE reason \in CustomQualification(x) : TRUE)
          [] OTHER -> Accepted(Edge("custom", "canonical", x.from, x.to, ref,
                                    <<"relations", k>>))

RelationshipResults(doc, ref) ==
    {TopologyRelationship(doc, k, ref) : k \in DOMAIN doc.edges}
        \cup {CompositionRelationship(doc, k, ref) : k \in DOMAIN doc.components}
        \cup {CustomRelationshipResult(doc, k, ref) : k \in DOMAIN doc.relations}

(***************************************************************************)
(* One document.                                                           *)
(***************************************************************************)
NoInterpretation == [ok |-> FALSE, entities |-> {}, relationships |-> {},
                     unresolved |-> <<>>]

(* Unresolved items are sorted by code and pointer, and there is one code. *)
UnresolvedInOrder(doc, ref) ==
    LET records == RecordsOf("unresolved", RelationshipResults(doc, ref))
    IN  ConcatAll([k \in DOMAIN doc.edges |->
            IF \E r \in records : r.at = k
            THEN <<CHOOSE r \in records : r.at = k>> ELSE <<>>])

InterpretDocument(doc, ref) ==
    IF ~EntitiesInterpretable(doc) \/ Fails(RelationshipResults(doc, ref))
    THEN NoInterpretation
    ELSE [ok |-> TRUE,
          entities |-> RecordsOf("accepted", EntityResults(doc)),
          relationships |-> RecordsOf("accepted", RelationshipResults(doc, ref)),
          unresolved |-> UnresolvedInOrder(doc, ref)]

(***************************************************************************)
(* Several documents, in the order of the request.  Nothing compares the   *)
(* ends of the relationships with the entities.                            *)
(***************************************************************************)
AssemblyFails(readings) ==
    \E p, q \in DOMAIN readings :
        p < q /\ {e.id : e \in readings[p].entities}
                     \cap {e.id : e \in readings[q].entities} # {}

(* The items by their places; those of one place as they come.             *)
InOrder(items) ==
    LET Placed(at) == ConcatAll([p \in DOMAIN items |->
                                   IF items[p].at = at THEN <<items[p]>> ELSE <<>>])
        places == {item.at : item \in ItemsOf(items)}
    IN  ConcatAll([at \in 1 .. (CHOOSE n \in places \cup {0} : \A m \in places : m <= n) |->
                      Placed(at)])

Assemble(readings) ==
    [entities |-> UNION {{e.id : e \in r.entities} : r \in ItemsOf(readings)},
     relationships |-> UNION {r.relationships : r \in ItemsOf(readings)},
     unresolved |-> InOrder(ConcatAll([p \in DOMAIN readings |-> readings[p].unresolved]))]
=============================================================================
