------------------------- MODULE MCMaterialization -------------------------
(***************************************************************************)
(* Requests for TLC: three documents (a logical ADR, a system, a component)*)
(* in every order, with the references, identities and faults that the     *)
(* properties are about, one kind varied at a time.                        *)
(***************************************************************************)
EXTENDS CoreMaterialization

Uuids == {"u1", "u2", "u3", "u4", "u5", "u6", "u7", "u8", "u9"}

Part(id, kind) == [id |-> id, kind |-> kind, state |-> "exact"]

Link(id, from, to) == [id |-> id, from |-> from, to |-> to, state |-> "exact"]

Bare(type, version, id) ==
    [type |-> type, version |-> version, valid |-> TRUE, unmapped |-> FALSE, id |-> id,
     system |-> <<>>, specifications |-> <<>>, implements |-> <<>>, components |-> <<>>,
     edges |-> <<>>, children |-> <<>>, propositions |-> <<>>, relations |-> <<>>,
     related |-> <<>>]

Propositions(v) == IF v = "1.5" THEN <<>> ELSE <<Part("u3", "np")>>

Logical(v, child, links, related) ==
    [Bare("logical", v, "u1") EXCEPT !.children = <<child>>, !.relations = links,
                                     !.propositions = Propositions(v), !.related = related]

SystemDoc(v, own, members, edges) ==
    [Bare("physical-system", v, "u4") EXCEPT !.system = <<Part(own, "system")>>,
        !.components = members, !.edges = edges, !.implements = <<"u1">>]

ComponentDoc(v, id) ==
    [Bare("physical-component", v, "u6") EXCEPT
        !.specifications = <<Part(id, "component"), Part("u8", "interface")>>,
        !.implements = <<"u1">>]

Resources(v) == {<<v, n>> : n \in {"adr-common", "types", "physical-base"} \cup Types}

Bundle(keys) == [k \in keys |-> [digest |-> k, content |-> k]]

Bundles == [f \in {"architecture-interpretation", "normalized-model"} |->
    IF f = "normalized-model" THEN Bundle({<<"2.3", "model">>, <<"1.6", "types">>})
    ELSE Bundle(Resources("1.5") \cup Resources("1.6") \cup {<<"2.3", "model">>})]

Artifact(ref, doc) ==
    [ref |-> ref, complete |-> TRUE, document |-> doc,
     binding |-> [version |-> doc.version, schema |-> <<doc.version, doc.type>>,
                  digest |-> <<doc.version, doc.type>>,
                  closure |-> [k \in ExpectedResources(doc.version, doc.type) |-> k]]]

Request(protocol, artifacts, map) ==
    [protocol |-> protocol, stated |-> TRUE, resolved |-> TRUE, provider |-> TRUE,
     basis |-> TRUE, sealed |-> TRUE, legacy |-> [sealed |-> TRUE, provider |-> TRUE, entries |-> map],
     bundles |-> Bundles, artifacts |-> artifacts]

ProtocolOf(v) == IF v = "1.7" THEN "1.3" ELSE "1.1"

Versions == {"1.5", "1.6", "1.7"}

Maps == {<<>>, <<<<"L7", "u7">>>>, <<<<"L7", "bad">>>>, <<<<"L7", "u9">>, <<"L7", "u7">>>>}

Placed(orders, documents) ==
    {[k \in 1 .. 3 |-> Artifact(o[k], documents[k])] : o \in orders}

Members == {<<[key |-> a, ref |-> r], [key |-> b, ref |-> "u8"]>> :
               a \in {"a"}, b \in {"a", "b"}, r \in {"u7", "L7", "u9"}}

EdgeLists == {<<>>} \cup {<<[type |-> "calls", from |-> "a", to |-> t]>> : t \in {"b", "z"}}
                \cup {<<[type |-> "calls", from |-> "a", to |-> "z"],
                        [type |-> "depends_on", from |-> "a", to |-> "a"]>>}

(* Topology and order of the basis.                                        *)
Topologies ==
    UNION {{Request(ProtocolOf(v), as, map) :
              as \in Placed({o \in [1 .. 3 -> 1 .. 3] : o[1] # o[2] /\ o[1] # o[3] /\ o[2] # o[3]},
                            <<Logical(v, Part("u2", "decision"), <<>>, <<>>),
                              SystemDoc(v, IF v = "1.7" THEN "u4" ELSE "u5", ms, es),
                              ComponentDoc(v, "u7")>>)} :
           v \in Versions, ms \in Members, es \in EdgeLists, map \in {<<>>, <<<<"L7", "u7">>>>}}

(* Two systems, each with its own handles.                                 *)
Twin(own, edges) ==
    [SystemDoc("1.7", own, <<[key |-> "a", ref |-> "u7"]>>, edges) EXCEPT !.id = own]

Twins ==
    {Request("1.3", <<Artifact(1, Twin("u4", e)), Artifact(2, Twin("u6", f))>>, <<>>) :
        e \in EdgeLists, f \in EdgeLists \cup {<<[type |-> "calls", from |-> "a", to |-> "b"]>>}}

(* Declarations: second definitions, legacy identities, custom entities.   *)
Children == {Part(i, k) : i \in {"u1", "u2", "u7", "L7"}, k \in {"decision", "extension"}}
               \cup {[Part("u2", k) EXCEPT !.state = s] :
                        k \in {"extension", "np"},
                        s \in {"retired", "unqualified", "mismatched"}}

Declaring ==
    {Request(ProtocolOf(v),
             <<Artifact(1, Logical(v, c, <<>>, <<>>)),
               Artifact(2, ComponentDoc(v, id))>>, map) :
        v \in Versions, c \in Children, id \in {"u7", "L7", "u2"}, map \in Maps}

(* Extension relationships and related ADRs.                               *)
Links == {<<Link("u9", f, t)>> : f \in {"u1", "u2"}, t \in {"u2", "u7", "u5", "L7"}}
            \cup {<<Link("u9", "u1", "u2"), [Link("u5", "u1", "u2") EXCEPT !.state = s]>> :
                     s \in {"exact", "retired", "mismatched"}}

Relating ==
    {Request(ProtocolOf(v),
             <<Artifact(1, Logical(v, Part("u2", "extension"), ls, rel)),
               Artifact(2, ComponentDoc(v, "u7"))>>, map) :
        v \in Versions, ls \in Links, rel \in {<<>>, <<"u6", "u9", "L7">>}, map \in Maps}

(* Faults of the request, of a binding and of a document, one at a time.   *)
Sound(v) == Request(ProtocolOf(v),
                    <<Artifact(1, Logical(v, Part("u2", "decision"), <<>>, <<>>)),
                      Artifact(2, ComponentDoc(v, "u7"))>>, <<>>)

Faulty(a) == {[a EXCEPT !.complete = FALSE], [a EXCEPT !.document.valid = FALSE],
              [a EXCEPT !.document.unmapped = TRUE], [a EXCEPT !.document.version = "1.4"],
              [a EXCEPT !.binding.version = "1.4"], [a EXCEPT !.binding.closure = <<>>],
              [a EXCEPT !.binding.schema = <<"1.6", "physical-system">>],
              [a EXCEPT !.binding.digest = <<"other">>], [a EXCEPT !.document.id = "L6"],
              [a EXCEPT !.ref = 1], [a EXCEPT !.document.type = "unknown"],
              [a EXCEPT !.document.propositions = <<Part("u3", "np")>>]}

Faults ==
    (UNION {{[Sound(v) EXCEPT !.artifacts = <<Sound(v).artifacts[1], f>>] :
                f \in Faulty(Sound(v).artifacts[2])} : v \in Versions})
    \cup (UNION {{[Sound(v) EXCEPT !.stated = FALSE], [Sound(v) EXCEPT !.resolved = FALSE],
                  [Sound(v) EXCEPT !.provider = FALSE], [Sound(v) EXCEPT !.basis = FALSE],
                  [Sound(v) EXCEPT !.sealed = FALSE], [Sound(v) EXCEPT !.legacy.sealed = FALSE],
                  [Sound(v) EXCEPT !.legacy.provider = FALSE],
                  [Sound(v) EXCEPT !.protocol = "1.3"],
                  [Sound(v) EXCEPT !.bundles["normalized-model"] = Bundle({})],
                  [Sound(v) EXCEPT !.bundles["normalized-model"] =
                      [k \in {<<"2.3", "model">>} |-> [digest |-> k, content |-> NONE]]]} :
               v \in Versions})

MCRequests == Topologies \cup Twins \cup Declaring \cup Relating \cup Faults
=============================================================================
