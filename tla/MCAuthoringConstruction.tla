---------------------- MODULE MCAuthoringConstruction ----------------------
(***************************************************************************)
(* Requests for TLC: a decision composed into a logical ADR, a consumer's  *)
(* asset and a relationship between them, and one deviation at a time.     *)
(***************************************************************************)
EXTENDS AuthoringConstruction, CandidateCodec

Text == Leaf("text")

Uuid == Leaf("uuid")

Common == <<<<"id", Uuid>>, <<"alias_id", Text>>, <<"alias_name", Leaf("typed")>>>>

CommonNames == {"id", "alias_id", "alias_name"}

Decision == Struct(Common \o <<<<"summary", Text>>, <<"rationale", Text>>,
                               <<"consequences", OneOf(<<Text, ArrayOf(Text)>>)>>>>,
                   CommonNames \cup {"summary", "rationale"}, Closed)

Gap == Struct(Common \o <<<<"question", Text>>, <<"context", Text>>>>,
              CommonNames \cup {"question"}, Closed)

LogicalAdr == Struct(Common \o <<<<"schema_version", Text>>, <<"decisions", ArrayOf(Decision)>>>>,
                     CommonNames \cup {"schema_version"}, Closed)

TopologyComponent == Struct(<<<<"topology_key", Text>>, <<"purpose", Text>>>>,
                            {"topology_key", "purpose"}, Closed)

Topology == Struct(<<<<"components", ArrayOf(TopologyComponent)>>,
                     <<"relationships", ArrayOf(Text)>>>>, {}, Closed)

SystemAdr == Struct(Common \o <<<<"schema_version", Text>>, <<"implements_logical", ArrayOf(Uuid)>>,
                                <<"system", Struct(Common, CommonNames, Closed)>>,
                                <<"component_topology", Topology>>>>,
                    CommonNames \cup {"schema_version", "implements_logical", "system"}, Closed)

Properties == Struct(<<>>, {}, Open)

CustomEntity == Struct(Common \o <<<<"entity_type", Text>>, <<"qualification", Text>>,
                                   <<"properties", Properties>>, <<"rationale", Text>>>>,
                       CommonNames \cup {"entity_type", "qualification", "properties", "rationale"},
                       Closed)

CustomRelationship ==
    Struct(Common \o <<<<"relationship_type", Text>>, <<"qualification", Text>>,
                       <<"from_entity_id", Uuid>>, <<"to_entity_id", Uuid>>,
                       <<"properties", Properties>>, <<"rationale", Text>>>>,
           CommonNames \cup {"relationship_type", "qualification", "from_entity_id",
                             "to_entity_id", "properties", "rationale"}, Closed)

MCSchema == ("entity/decision" :> Decision) @@ ("entity/gap" :> Gap)
    @@ ("adr/logical" :> LogicalAdr) @@ ("adr/physical-system" :> SystemAdr)
    @@ ("custom_entity" :> CustomEntity) @@ ("custom_relationship" :> CustomRelationship)

MCKindOf == [type \in {"adr/logical", "adr/physical-system"} |-> "adr"]
    @@ [type \in {"entity/decision", "entity/gap", "entity/unknown"} |-> "entity"]
    @@ [type \in {"relationship/depends_on", "relationship/composed_of"} |-> "relationship"]
    @@ [type \in {"acme:asset", "acme:links", "acme.x:asset", "custom_entity",
                  "custom_relationship"} |-> "custom"]

MCDefaultAlias == [type \in DOMAIN MCKindOf |-> IF type = "acme.x:asset" THEN "loose" ELSE "good"]

Posture == [op \in {"create", "update", "reference", "retire"} |->
               IF op = "retire" THEN "unsupported" ELSE "supported"]

MCAdc == [type \in {"entity/decision", "entity/gap", "adr/logical", "adr/physical-system"} |->
             [fields |-> NamesIn(MCSchema[type]), posture |-> Posture]]

MCLexical == <<"alias_id", "alias_name", "id", "owner", "size">>

Rounds == [t1 |-> <<"m1", "m2", "m3", "m4">>, t2 |-> <<"n1", "n2", "n3", "n4">>]

Minted == ItemsOf(Rounds.t1) \cup ItemsOf(Rounds.t2)

MCUuids == {"u1", "u2", "u3"} \cup Minted

(* Qualifications and the registry of the consumer.                        *)
Custom(kind, type) == [family |-> "custom", kind |-> kind, type |-> type,
                       version |-> "1.0", print |-> "p"]

AssetQ == Custom("entity", "acme:asset")

DottedQ == Custom("entity", "acme.x:asset")

LinkQ == Custom("relationship", "acme:links")

Body == [required |-> {}, forbidden |-> {"secret"}, establishes |-> FALSE,
         fields |-> [properties |-> Properties, rationale |-> Text, id |-> Text],
         from |-> {"acme:asset", "acme.x:asset"}, to |-> {"entity/decision", "entity/gap"},
         bounded |-> FALSE]

Entry(q, body) == [q |-> q, body |-> body, genuine |-> TRUE]

Registry(body) == <<Entry(AssetQ, body), Entry(LinkQ, body), Entry(DottedQ, body)>>

CustomBasis(body) ==
    LET registry == Registry(body)
    IN  [exact |-> TRUE, intact |-> TRUE, valid |-> TRUE, registry |-> registry,
         selected |-> [k \in 1 .. 3 |-> [q |-> registry[k].q, at |-> k, digest |-> registry[k]]]]

Source(ref, id, type, qual) ==
    [ref |-> ref, id |-> id, type |-> type, qual |-> qual, intact |-> TRUE]

Basis == [inexact |-> {}, closed |-> TRUE, latest |-> FALSE, custom |-> CustomBasis(Body),
          references |-> <<Source("ref1", "u3", "entity/decision", AdcQualification)>>,
          existing |-> <<>>]

(* Fragments and relationships.                                            *)
Good(names) == [n \in names |-> Scalar("good")]

Fragment(key, type, qual, fields) ==
    [key |-> key, kind |-> MCKindOf[type], type |-> type, op |-> "create", mode |-> "prepared",
     fields |-> fields, qual |-> qual, refs |-> <<>>]

D1 == Fragment("d1", "entity/decision", AdcQualification,
               Good({"alias_id", "alias_name", "summary", "rationale"}))

G1 == Fragment("d1", "entity/gap", AdcQualification, Good({"alias_id", "alias_name", "question"}))

L1 == Fragment("l1", "adr/logical", AdcQualification, Good({"alias_id", "alias_name"}))

S1 == Fragment("s1", "adr/physical-system", AdcQualification, Good({"alias_id", "alias_name"}))

A1 == [Fragment("a1", "acme:asset", AssetQ,
                [properties |-> Map([owner |-> Scalar("good"), size |-> Scalar("loose")]),
                 rationale |-> Scalar("good")]) EXCEPT !.kind = "entity"]

End(kind, target) == [kind |-> kind, target |-> target]

R1 == [key |-> "r1", type |-> "acme:links", from |-> End("request", "a1"),
       to |-> End("request", "d1"), fields |-> [size |-> Scalar("good")], qual |-> LinkQ]

Request(fragments, relationships, basis) ==
    [conforms |-> TRUE, op |-> "construct_authoring_set", fragments |-> fragments,
     relationships |-> relationships,
     compositions |-> <<[parent |-> "l1", child |-> "d1"]>>, basis |-> basis, times |-> 1]

Whole == Request(<<D1, L1, A1>>, <<R1>>, Basis)

With(f, name, value) == [f EXCEPT !.fields = (name :> value) @@ @]

Without(f, name) == [f EXCEPT !.fields = [n \in DOMAIN @ \ {name} |-> @[n]]]

(* Topologies of a system: components with and without a purpose, and      *)
(* shapes the enrichment passes over.                                      *)
Components ==
    LET bare == [topology_key |-> Scalar("good")]
    IN  {<<>>, <<Map(bare)>>, <<Scalar("good")>>,
         <<Map(bare), Map(bare ++ [purpose |-> Scalar("good")])>>,
         <<Map(bare ++ [purpose |-> Scalar("loose")])>>}

Topologies ==
    {Map([components |-> List(c)]) : c \in Components}
        \cup {Map([components |-> List(c), relationships |-> List(<<Scalar("good")>>)]) :
                  c \in Components}
        \cup {Map([relationships |-> List(<<>>)]), Map([components |-> Map(<<>>)]),
               List(<<>>), Scalar("good")}

(* Deviations of the decision, of the asset, of the relationship.          *)
Decisions ==
    {D1, G1, With(G1, "context", Scalar("good")), [D1 EXCEPT !.kind = "adr"],
     [D1 EXCEPT !.qual = AssetQ], [D1 EXCEPT !.type = "entity/unknown"],
     With(D1, "consequences", List(<<Scalar("good"), Scalar("loose")>>)),
     With(D1, "consequences", List(<<>>)), With(D1, "consequences", Map(<<>>)),
     [With(D1, "prompt", Scalar("good")) EXCEPT !.mode = "compact"],
     Without([D1 EXCEPT !.mode = "compact"], "summary")}
        \cup {With(D1, n, Scalar("good")) : n \in {"id", "owner", "lifecycle_stage"}}
        \cup {Without(D1, n) : n \in {"summary", "alias_id"}} \cup {With(D1, "alias_name", Scalar("loose"))}
        \cup {With(D1, "alias_id", Scalar(v)) : v \in {"loose", "conformance", "bad"}}
        \cup {With(D1, "summary", Scalar(v)) : v \in {"loose", "bad"}}
        \cup {With([D1 EXCEPT !.op = o], "id", Scalar(v)) :
                  o \in {"create", "update", "reference", "retire"}, v \in {"u1", "bad"}}
        \cup {[D1 EXCEPT !.op = o] : o \in {"update", "reference"}}

Assets ==
    {[A1 EXCEPT !.op = o] : o \in {"update", "reference", "retire"}}
        \cup {With(A1, n, Scalar("good")) : n \in {"secret", "owner"}}
        \cup {With(A1, "properties", v) : v \in {Map(<<>>), Scalar("bad"),
                  Map([owner |-> List(<<Scalar("good")>>)])}}
        \cup {With(A1, "id", Scalar("u1")), With(A1, "rationale", Scalar("loose")),
               [A1 EXCEPT !.qual = LinkQ], [A1 EXCEPT !.qual = [AssetQ EXCEPT !.version = "2.0"]],
               [A1 EXCEPT !.qual = DottedQ, !.type = "acme.x:asset"]}

Updates == {With([A1 EXCEPT !.op = "update"], "id", Scalar("u1")),
            With([D1 EXCEPT !.op = "update"], "id", Scalar("u1"))}

Existing ==
    LET kept == {Source("x", "u1", "acme:asset", AssetQ),
                 Source("x", "u1", "entity/decision", AdcQualification)}
    IN  {<<>>} \cup {<<e>> : e \in kept} \cup {<<[e EXCEPT !.intact = FALSE]>> : e \in kept}
            \cup {<<[e EXCEPT !.qual = DottedQ]>> : e \in kept}

Ends == {End("request", "d1"), End("request", "a1"), End("request", "zz"), End("request", "r1"),
         End("reference", "ref1"), End("reference", "zz"), End("topology", "d1")}

Relationships ==
    {[R1 EXCEPT !.from = e] : e \in Ends} \cup {[R1 EXCEPT !.to = e] : e \in Ends}
        \cup {[R1 EXCEPT !.from = End("request", "zz"), !.to = End("request", "zz")],
               [R1 EXCEPT !.type = "relationship/composed_of", !.qual = AdcQualification],
               [R1 EXCEPT !.type = "relationship/depends_on", !.qual = AdcQualification],
               [R1 EXCEPT !.qual = AssetQ], [R1 EXCEPT !.key = "a1"],
               [R1 EXCEPT !.fields = ("id" :> Scalar("u2")) @@ @]}

(* Ends that the reference basis knows by the key of an intent.            *)
Namesakes == {Request(<<D1, L1, A1>>, <<[R1 EXCEPT !.to = End("reference", name)]>>,
                      [Basis EXCEPT !.references = <<Source(name, "u3", "entity/decision",
                                                            AdcQualification)>>]) :
                 name \in {"d1", "a1", "r1"}}

Link(kind, target, type, qual) == [kind |-> kind, target |-> target, type |-> type, qual |-> qual]

References == {Link("request", t, NONE, NONE) : t \in {"d1", "a1", "zz"}}
    \cup {Link("existing", t, type, NONE) : t \in {"ref1", "zz"},
                                           type \in {NONE, "entity/decision", "entity/gap"}}
    \cup {Link("request", "a1", "acme:asset", q) : q \in {NONE, AssetQ, DottedQ}}

CustomBases ==
    LET base == CustomBasis(Body)
    IN  {NONE, [base EXCEPT !.exact = FALSE], [base EXCEPT !.intact = FALSE],
         [base EXCEPT !.valid = FALSE], [base EXCEPT !.selected = Tail(@)],
         [base EXCEPT !.registry = Tail(@)], [base EXCEPT !.selected[1].at = 2],
         [base EXCEPT !.registry[1].genuine = FALSE], [base EXCEPT !.registry[2].genuine = FALSE]}
            \cup {CustomBasis(body) : body \in
                     {[Body EXCEPT !.required = {"id"}, !.establishes = e] : e \in BOOLEAN}
                         \cup {[Body EXCEPT !.to = {"adr/logical"}]}}

Bases ==
    {[Basis EXCEPT !.inexact = s] : s \in {{"authoring"}, {"architecture_interpretation"}}}
        \cup {[Basis EXCEPT !.closed = FALSE], [Basis EXCEPT !.latest = TRUE],
               [Basis EXCEPT !.references[1].intact = FALSE]}
        \cup {[Basis EXCEPT !.custom = c] : c \in CustomBases}

Orders(f, g, h) == {<<f, g, h>>, <<h, g, f>>}

Crowds == {<<R1>>, <<R1, [R1 EXCEPT !.key = "r2"]>>}

MCRequests ==
    UNION {{Request(o, <<R1>>, Basis) : o \in Orders(d, L1, A1)} : d \in Decisions}
        \cup {Request(<<D1, L1, a>>, <<R1>>, Basis) : a \in Assets}
        \cup {Request(<<u>>, <<>>, [Basis EXCEPT !.existing = e]) : u \in Updates, e \in Existing}
        \cup {Request(<<D1, L1, A1>>, <<r>>, Basis) : r \in Relationships}
        \cup Namesakes
        \cup {Request(<<[D1 EXCEPT !.refs = <<r>>], A1>>, <<>>, Basis) : r \in References}
        \cup {Request(<<D1, A1>>, <<R1>>, b) : b \in Bases}
        \cup {Request(<<D1, A1>>, crowd, [Basis EXCEPT !.custom =
                  CustomBasis([Body EXCEPT !.bounded = b])]) : crowd \in Crowds, b \in BOOLEAN}
        \cup {Request(fs, <<>>, Basis) : fs \in
                  {<<>>, <<G1>>, <<With(G1, "context", Scalar("good"))>>, <<S1>>, <<With(S1, "id", Scalar("u1"))>>, <<D1, D1>>, <<D1, G1>>,
                   <<With(D1, "id", Scalar("u1")), With([G1 EXCEPT !.key = "g1"], "id", Scalar("u1"))>>}}
        \cup {Request(<<With(S1, "component_topology", t)>>, <<>>, Basis) : t \in Topologies}
        \cup {[Whole EXCEPT !.op = "validate_authoring"], [Whole EXCEPT !.conforms = FALSE]}
        \cup {[Request(<<D1, A1>>, <<R1>>, Basis) EXCEPT !.times = 3]}
=============================================================================
