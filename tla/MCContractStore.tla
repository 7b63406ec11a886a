--------------------------- MODULE MCContractStore ---------------------------
(***************************************************************************)
(* Corpora for TLC.  The three families have one resource each, but for    *)
(* the interpretation, whose conformance resource refers to its rules.     *)
(***************************************************************************)
EXTENDS ContractStore

Plain == [refs |-> {}, semanticDependencies |-> {}, binding |-> NONE,
          markers |-> [path \in {} |-> Marker]]

SelfBound ==
    [Plain EXCEPT !.binding = <<<<"scf">>, <<"cases", "*">>>>,
                  !.markers = [path \in {<<"scf">>, <<"cases", "0">>, <<"cases", "1">>} |->
                                  Marker]]

To(kind, key) == {[kind |-> kind, key |-> key]}

MCContentOf ==
    [first |-> Plain, second |-> Plain, rival |-> Plain, swapped |-> Plain,
     seeCases |-> [Plain EXCEPT !.refs = To("relative", "cases")],
     seeNet |-> [Plain EXCEPT !.refs = To("remote", "rules")],
     cases |-> [SelfBound EXCEPT !.refs = To("relative", "rules")],
     bound |-> SelfBound, bound2 |-> SelfBound,
     unbound |-> [SelfBound EXCEPT !.binding = <<<<"scf">>>>]]

Resource(key, content) == [key |-> key, content |-> content]

(* An entry for a resource that depends on the resources in deps.          *)
Listed(resource, role, deps) ==
    [key |-> resource.key, digest |-> Digest(resource.content), role |-> role,
     deps |-> [i \in DOMAIN deps |-> [key |-> deps[i].key, digest |-> Digest(deps[i].content)]]]

Declare(d) == [d EXCEPT !.declared = SCF(d)]

Define(family, version, manifest, frozen) ==
    Declare([family |-> family, version |-> version, governed |-> TRUE, declared |-> NONE,
             manifest |-> manifest, frozen |-> frozen])

Bundle(definition, resources) == [definition |-> definition, resources |-> resources]

Single(family, version, body) ==
    LET r == Resource(family, body)
    IN  Bundle(Define(family, version, <<Listed(r, "normative-conformance", <<>>)>>, <<family>>),
               <<r>>)

Interpretation(version, body) ==
    LET rules == Resource("rules", body)
        cases == Resource("cases", "cases")
    IN  Bundle(Define("interpretation", version,
                      <<Listed(rules, "interpretation-rule", <<>>),
                        Listed(cases, "interpretation-conformance", <<rules>>)>>, <<"cases">>),
               <<rules, cases>>)

I10 == Interpretation("1.0", "first")
I11 == Interpretation("1.1", "second")
M23 == Single("model", "2.3", "bound")
M24 == Single("model", "2.4", "bound2")
N10 == Single("normative", "1.0", "bound")

(* The same definition in another order; another one of the same version.  *)
Permuted == Bundle([I10.definition EXCEPT !.manifest = Reverse(@)], Reverse(I10.resources))
Rival == Interpretation("1.0", "rival")

(* Rules replaced, in the contents only.                                   *)
Swapped == [I10 EXCEPT !.resources[1].content = "swapped"]

(* Resources that refer to each other.                                     *)
Cyclic ==
    LET rules == Resource("rules", "seeCases")
        cases == Resource("cases", "cases")
    IN  Bundle(Define("interpretation", "1.0",
                      <<Listed(rules, "interpretation-rule", <<cases>>),
                        Listed(cases, "interpretation-conformance", <<rules>>)>>, <<"cases">>),
               <<rules, cases>>)

T10 == {MemberOf(I10), MemberOf(M23), MemberOf(N10)}
T11 == {MemberOf(I11), MemberOf(M24), MemberOf(N10)}
TRival == {MemberOf(Rival), MemberOf(M23), MemberOf(N10)}

Id10 == ContractSetId(T10)
Id11 == ContractSetId(T11)
IdRival == ContractSetId(TRival)

Profile(id, version, families) ==
    [id |-> id, version |-> version, governed |-> TRUE,
     families |-> [i \in DOMAIN families |->
                      [family |-> families[i][1], version |-> families[i][2], cardinality |-> 1]],
     operations |-> MaterializationOperations, purposes |-> <<"architecture-materialization">>]

P10 == Profile("am@1.0", "1.0",
               <<<<"interpretation", "1.0">>, <<"model", "2.3">>, <<"normative", "1.0">>>>)
P11 == Profile("am@1.1", "1.1",
               <<<<"interpretation", "1.1">>, <<"model", "2.4">>, <<"normative", "1.0">>>>)

Op == "resolve_current"

Record(id, profile, members) ==
    [id |-> id, governed |-> TRUE, operation |-> Op, direction |-> "none", profile |-> profile.id,
     set |-> ContractSetId(members), members |-> members, outcome |-> "qualified",
     installed |-> TRUE, newUse |-> TRUE, historical |-> TRUE]

Q10 == Record("q10", P10, T10)
Q11 == Record("q11", P11, T11)
QRival == Record("qr", P10, TRival)
QAcross == Record("qx", P10, T11)

Entered(id) == [set |-> id, catalogued |-> TRUE, lifecycle |-> "active", historical |-> TRUE]
Deprecated(id) == [Entered(id) EXCEPT !.lifecycle = "deprecated"]

Permitted(id) == [set |-> id, operation |-> Op, direction |-> "none", newUse |-> TRUE,
                  installed |-> TRUE, historical |-> TRUE]
Prohibited(id) == [Permitted(id) EXCEPT !.newUse = FALSE]

Records(entries) == [governed |-> TRUE, revision |-> 1, entries |-> entries]

Pointer(id, record) ==
    [governed |-> TRUE, profile |-> "am@1.0", operation |-> Op, direction |-> "none", set |-> id,
     record |-> record, catalogRevision |-> 1, policyRevision |-> 1]

Start(definitions, qualifications, ids, current, written) ==
    [governance |-> [definitions |-> definitions, qualifications |-> qualifications,
                     catalog |-> Records([i \in DOMAIN ids |-> Entered(ids[i])]),
                     policy |-> Records([i \in DOMAIN ids |-> Permitted(ids[i])]),
                     current |-> current],
     written |-> written]

MCStarts ==
    {Start(<<Permuted, M23, N10>>, <<Q10>>, <<Id10>>, Pointer(Id10, "q10"), {}),
     Start(<<I10, M23, N10>>, <<Q10>>, <<Id10>>, Pointer(Id10, "q10"), {T10}),
     [Start(<<I10, M23, N10>>, <<Q10>>, <<Id10>>, Pointer(Id10, "q10"), {T10}) EXCEPT
         !.governance.catalog = Records(<<Deprecated(Id10)>>)],
     Start(<<I10, M23, N10>>, <<Q10, QRival>>, <<Id10, IdRival>>, NONE, {T10}),
     Start(<<I10, I11, M23, M24, N10>>, <<Q10>>, <<Id10, Id11>>, NONE, {T10, T11}),
     Start(<<I10, I11, M23, M24, N10>>, <<Q11>>, <<Id10, Id11>>, NONE, {T10}),
     Start(<<I10, I11, M23, M24, N10>>, <<Q10, QAcross>>, <<Id10, Id11>>, Pointer(Id11, "qx"),
           {T10, T11}),
     Start(<<I10, M23, N10>>, <<Q10, QRival>>, <<Id10, IdRival>>, NONE, {T10, TRival}),
     Start(<<Swapped, M23, N10>>, <<Q10>>, <<Id10>>, Pointer(Id10, "q10"), {T10}),
     Start(<<Cyclic, M23, N10>>, <<>>, <<>>, NONE, {})}

MCNames == <<T10, T11, TRival>>

MCRequests ==
    {[profile |-> P10, members |-> m, operation |-> Op, direction |-> "none"] :
        m \in {T10, TRival}}
    \cup {[profile |-> P11, members |-> T11, operation |-> Op, direction |-> "none"]}

Addition(kind, values) == {[kind |-> kind, value |-> v] : v \in values}

MCAdditions ==
    Addition("definitions", {Rival, Permuted, M24})
    \cup Addition("qualifications", {Q11, [Q10 EXCEPT !.id = "no", !.outcome = "rejected"],
                                     [Q10 EXCEPT !.id = "q10b"]})
    \cup Addition("catalog", {Deprecated(Id10), Entered(Id11)})
    \cup Addition("policy", {Prohibited(Id10), Permitted(Id11)})

Symmetry == Permutations(Hosts)

MCPointers == {Pointer(Id10, "q10")}
=============================================================================
