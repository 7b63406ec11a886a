----------------------- MODULE AuthoringConstruction -----------------------
(***************************************************************************)
(* The construction coordinator (ACC 1.0): validation, one identity for    *)
(* each intent, one sealed and re-read candidate source for each intent,   *)
(* the sealed basis, the round trip.  An intent is a fragment or, after    *)
(* all fragments, a relationship.  One call follows another in a process,  *)
(* which keeps the counter of its identity minter.                         *)
(***************************************************************************)
EXTENDS AuthoringValidation

CONSTANTS Requests,
          DefaultAlias,  \* type -> is the alias made from its name a legal one
          Epochs,        \* the readings of the clock after the Unix epoch
          Minter,        \* reading -> the identities it can give, by counter
          CounterWidth   \* the counter wraps here (a u16)

IsList(s) == s \in Seq(ItemsOf(s))

RequestFields == {"conforms", "op", "fragments", "relationships", "compositions",
                  "basis", "times"}

RequestsAssumption ==
    \A r \in Requests : /\ DOMAIN r = RequestFields
                        /\ IsList(r.fragments) /\ IsList(r.relationships)

ASSUME RequestsAssumption

(* One reading's identities are as many as the counter's low bits count,   *)
(* the wrap of the counter falls between two rounds of them, and an        *)
(* identity carries its reading and its count (mint_uuidv7's format).      *)
MinterAssumption ==
    /\ CounterWidth \in Nat \ {0}
    /\ \A now \in Epochs :
          /\ IsList(Minter[now]) /\ Minter[now] # <<>>
          /\ CounterWidth % Len(Minter[now]) = 0
          /\ \A p, q \in DOMAIN Minter[now] : Minter[now][p] = Minter[now][q] => p = q
    /\ \A now, then \in Epochs :
          /\ Len(Minter[now]) = Len(Minter[then])
          /\ now # then => ItemsOf(Minter[now]) \cap ItemsOf(Minter[then]) = {}

ASSUME MinterAssumption

VARIABLES request,
          pc,
          at,        \* the next intent
          ids,       \* request key -> [id, disposition]
          work,      \* [artifacts, map, diags]
          result,
          counter,
          minted,    \* history: every identity minted
          calls      \* history: the calls answered

vars == <<request, pc, at, ids, work, result, counter, minted, calls>>

EmptyWork == [artifacts |-> <<>>, map |-> <<>>, diags |-> {}]

NoResult == [outcome |-> "none", codes |-> {}, map |-> <<>>, artifacts |-> <<>>,
             sealed |-> FALSE]

Init == /\ request \in Requests
        /\ pc = "validate"
        /\ at = 1
        /\ ids = <<>>
        /\ work = EmptyWork
        /\ result = NoResult
        /\ counter = 0
        /\ minted = <<>>
        /\ calls = 0

IntentsOf(r) == r.fragments \o r.relationships

IsRelationship(r, k) == k > Len(r.fragments)

Intents == IntentsOf(request)

Answer(outcome, codes, w, sealed) ==
    /\ result' = [outcome |-> outcome, codes |-> codes, map |-> w.map,
                  artifacts |-> w.artifacts, sealed |-> sealed]
    /\ pc' = "done"
    /\ calls' = calls + 1

(***************************************************************************)
(* Validation is shared with the operation that only validates.            *)
(***************************************************************************)
OutcomeOf == [invalid |-> "Rejected", unavailable |-> "Unavailable",
              unresolved |-> "Unresolved"]

Validate ==
    /\ pc = "validate"
    /\ LET report == Report(request)
           status == StatusOf(report)
       IN  \/ /\ request.op = "validate_authoring"
              /\ Answer(status, report, EmptyWork, FALSE)
           \/ /\ request.op # "validate_authoring" /\ status # "valid"
              /\ Answer(OutcomeOf[status], report, EmptyWork, FALSE)
           \/ /\ request.op # "validate_authoring" /\ status = "valid"
              /\ pc' = "identify"
              /\ UNCHANGED <<result, calls>>
    /\ UNCHANGED <<request, at, ids, work, counter, minted>>

(***************************************************************************)
(* Identities.  An identity that is no text counts as absent.              *)
(***************************************************************************)
SuppliedId(x) == IF "id" \notin DOMAIN x.fields THEN NONE
                 ELSE IF x.fields["id"].v = "bad" THEN NONE ELSE x.fields["id"].v

Disposition(k) ==
    IF ~IsRelationship(request, k) /\ Intents[k].op = "reference" THEN "reused" ELSE "preserved"

Establish(id, disposition) ==
    ids' = [key \in {Intents[at].key} |-> [id |-> id, disposition |-> disposition]] ++ ids

KeepIdentity ==
    /\ pc = "identify" /\ at <= Len(Intents)
    /\ SuppliedId(Intents[at]) # NONE
    /\ Establish(SuppliedId(Intents[at]), Disposition(at))
    /\ at' = at + 1
    /\ UNCHANGED <<request, pc, work, result, counter, minted, calls>>

(* A mutant: every call starts the counter again.                          *)
NextCountOfCall == IF ids = <<>> THEN 1 ELSE (counter + 1) % CounterWidth

NextCount == (counter + 1) % CounterWidth

MintIdentity ==
    /\ pc = "identify" /\ at <= Len(Intents)
    /\ SuppliedId(Intents[at]) = NONE
    /\ \E now \in Epochs :
          LET id == Minter[now][(counter % Len(Minter[now])) + 1]
          IN  /\ Establish(id, "minted")
              /\ minted' = Append(minted, id)
    /\ counter' = NextCount
    /\ at' = at + 1
    /\ UNCHANGED <<request, pc, work, result, calls>>

(* The clock reads a time before the Unix epoch.                           *)
MintFails ==
    /\ pc = "identify" /\ at <= Len(Intents)
    /\ SuppliedId(Intents[at]) = NONE
    /\ work' = [work EXCEPT !.diags = @ \cup
                   {Diagnostic("identity_unavailable", "unavailable", Intents[at].key)}]
    /\ at' = at + 1
    /\ UNCHANGED <<request, pc, ids, result, counter, minted, calls>>

Identified ==
    /\ pc = "identify" /\ at > Len(Intents)
    /\ \/ /\ work.diags # {}
          /\ Answer("Unavailable", work.diags, EmptyWork, FALSE)
          /\ at' = at
       \/ /\ work.diags = {}
          /\ pc' = "build"
          /\ at' = 1
          /\ UNCHANGED <<result, calls>>
    /\ UNCHANGED <<request, ids, work, counter, minted>>

(***************************************************************************)
(* The source of an intent.                                                *)
(***************************************************************************)
Alias(fields, type) ==
    LET given == IF "alias_id" \notin DOMAIN fields THEN "bad" ELSE fields["alias_id"].v
    IN  CASE given = "bad" -> DefaultAlias[type]
          [] given = "conformance" -> "good"
          [] OTHER -> given

CeremonyAlias(fields, type) ==
    [alias_id |-> Scalar(Alias(fields, type))] ++ fields ++ [alias_name |-> Scalar("good")]

CustomSource(source) ==
    [entity_type |-> Scalar("good"), qualification |-> Scalar("good")] ++ source
        ++ [properties |-> Map(<<>>), rationale |-> Scalar("good")]

(* The decisions of a logical ADR are the fragments composed into it.      *)
Children(r, identities, key) ==
    LET composed == SelectSeq(r.compositions, LAMBDA c :
                        c.parent = key /\ c.child \in DOMAIN identities
                        /\ Has(r.fragments, LAMBDA f : f.key = c.child))
        ChildSource(c) ==
            LET child == r.fragments[First(r.fragments, LAMBDA f : f.key = c.child)]
            IN  Map(CeremonyAlias([id |-> Scalar(identities[c.child].id)] ++ child.fields,
                                  child.type))
    IN  List([k \in DOMAIN composed |-> ChildSource(composed[k])])

LogicalSource(r, identities, key, source) ==
    IF Children(r, identities, key).items = <<>> THEN source
    ELSE [decisions |-> Children(r, identities, key)] ++ source

(* A component of a supplied topology that states no purpose gets one.     *)
Purpose == Scalar("explicit")

(* A mutant: the default replaces a purpose that was supplied.             *)
RepurposeComponent(component) ==
    IF component.t = "map" THEN Map([purpose |-> Purpose] ++ component.f) ELSE component

EnrichComponent(component) ==
    IF component.t = "map" THEN Map(component.f ++ [purpose |-> Purpose]) ELSE component

HasComponents(topology) ==
    /\ topology.t = "map"
    /\ "components" \in DOMAIN topology.f
    /\ topology.f["components"].t = "list"

EnrichTopology(topology) ==
    IF ~HasComponents(topology) THEN topology
    ELSE LET given == topology.f["components"].items
             enriched == [k \in DOMAIN given |-> EnrichComponent(given[k])]
         IN  Map([components |-> List(enriched)] ++ topology.f)

SystemSource(source) ==
    LET system == Map([id |-> source["id"], alias_id |-> Scalar("good"),
                       alias_name |-> source["alias_name"]])
        topology == [n \in DOMAIN source \cap {"component_topology"} |->
                        EnrichTopology(source[n])]
    IN  [implements_logical |-> List(<<source["id"]>>), system |-> system]
            ++ topology ++ source

AdrSource(r, identities, f, source) ==
    LET versioned == [schema_version |-> Scalar("good")] ++ source
    IN  CASE f.type = "adr/logical" -> LogicalSource(r, identities, f.key, versioned)
          [] f.type = "adr/physical-system" -> SystemSource(versioned)
          [] OTHER -> versioned

FragmentSource(r, identities, f) ==
    LET source == CeremonyAlias([id |-> Scalar(identities[f.key].id)] ++ f.fields, f.type)
    IN  Map(CASE IsCustom(f.type) -> CustomSource(source)
              [] KindOf[f.type] = "adr" -> AdrSource(r, identities, f, source)
              [] OTHER -> source)

(* An endpoint is looked up among the request's own keys, whatever it is.  *)
EndpointId(identities, end) ==
    IF end.target \in DOMAIN identities THEN identities[end.target].id ELSE ""

RelationshipSource(identities, x) ==
    Map([id |-> Scalar(identities[x.key].id),
         relationship_type |-> Scalar(IF IsCustom(x.type) THEN "good" ELSE "loose"),
         qualification |-> Scalar("good"),
         alias_id |-> Scalar(DefaultAlias[x.type]), alias_name |-> Scalar("good"),
         from_entity_id |-> Scalar(EndpointId(identities, x.from)),
         to_entity_id |-> Scalar(EndpointId(identities, x.to)),
         properties |-> Map(x.fields), rationale |-> Scalar("good")])

SchemaOf(r, k) ==
    LET type == IntentsOf(r)[k].type
    IN  CASE IsRelationship(r, k) -> Schema["custom_relationship"]
          [] ~IsRelationship(r, k) /\ IsCustom(type) -> Schema["custom_entity"]
          [] OTHER -> IF type \in DOMAIN Schema THEN Schema[type] ELSE Closed

SourceOf(r, identities, k) ==
    IF IsRelationship(r, k) THEN RelationshipSource(identities, IntentsOf(r)[k])
    ELSE FragmentSource(r, identities, IntentsOf(r)[k])

(* What a fragment's references resolve to: a request key's identity, or   *)
(* the first basis entry of that name.                                     *)
ResolvedReferences(r, identities, f) ==
    LET entries == r.basis.references
        Known(x) == Has(entries, LAMBDA e : e.ref = x.target)
        Entry(x) == entries[First(entries, LAMBDA e : e.ref = x.target)]
    IN  {<<x.target, identities[x.target].id>> :
            x \in {s \in ItemsOf(f.refs) : s.kind = "request" /\ s.target \in DOMAIN identities}}
        \cup {<<x.target, Entry(x).id>> :
            x \in {s \in ItemsOf(f.refs) : s.kind # "request" /\ Known(s)}}

MapEntry(r, identities, k) ==
    LET x == IntentsOf(r)[k]
    IN  [key |-> x.key, type |-> x.type, id |-> identities[x.key].id,
         disposition |-> identities[x.key].disposition,
         state |-> IF ~IsRelationship(r, k) /\ x.op = "reference" THEN "referenced" ELSE "active",
         references |-> IF IsRelationship(r, k) THEN {} ELSE ResolvedReferences(r, identities, x)]

ArtifactOf(r, identities, k) ==
    SealArtifact(IntentsOf(r)[k].key, IntentsOf(r)[k].type, SchemaOf(r, k),
                 SourceOf(r, identities, k))

(* Rendered and sealed, then read back as the interpretation reads it.     *)
Build ==
    /\ pc = "build" /\ at <= Len(Intents)
    /\ LET x == Intents[at]
           artifact == ArtifactOf(request, ids, at)
           Fails(code) == work' = [work EXCEPT !.diags = @ \cup
                                      {Diagnostic(code, "unavailable", x.key)}]
       IN  \/ ~artifact.ok /\ Fails("source_unavailable")
           \/ /\ artifact.ok /\ ~DecodeAndValidate(artifact).ok
              /\ Fails("interpretation_unavailable")
           \/ /\ artifact.ok /\ DecodeAndValidate(artifact).ok
              /\ work' = [work EXCEPT !.artifacts = Append(@, artifact),
                                      !.map = Append(@, MapEntry(request, ids, at))]
    /\ at' = at + 1
    /\ UNCHANGED <<request, pc, ids, result, counter, minted, calls>>

(***************************************************************************)
(* The basis, and the round trip: the interpretation of a gap leaves its   *)
(* context behind.                                                         *)
(***************************************************************************)
ContextLost ==
    \E a \in ItemsOf(work.artifacts) :
        a.type = "entity/gap" /\ "context" \in DOMAIN Decode(a.bytes).value.f

Seal ==
    /\ pc = "build" /\ at > Len(Intents)
    /\ LET sealed == SealsBasis(work.artifacts)
           unsealed == {Diagnostic("source_unavailable", "unavailable", NONE)}
           lost == {Diagnostic("semantic_mismatch", "violation", NONE)}
       IN  \/ work.diags # {} /\ Answer("Unavailable", work.diags, work, FALSE)
           \/ /\ work.diags = {} /\ ~sealed
              /\ Answer("Unavailable", unsealed, work, FALSE)
           \/ /\ work.diags = {} /\ sealed /\ ContextLost
              /\ Answer("Rejected", lost, [work EXCEPT !.map = <<>>], TRUE)
           \/ /\ work.diags = {} /\ sealed /\ ~ContextLost
              /\ Answer("Constructed", {}, work, TRUE)
    /\ UNCHANGED <<request, at, ids, work, counter, minted>>

(* The process answers the same request again.                             *)
Again ==
    /\ pc = "done" /\ calls < request.times
    /\ pc' = "validate"
    /\ at' = 1
    /\ ids' = <<>>
    /\ work' = EmptyWork
    /\ result' = NoResult
    /\ UNCHANGED <<request, counter, minted, calls>>

Next == Validate \/ KeepIdentity \/ MintIdentity \/ MintFails \/ Identified \/ Build
            \/ Seal \/ Again

Spec == Init /\ [][Next]_vars

-----------------------------------------------------------------------------
Constructed == result.outcome = "Constructed"

Decoded(k) == Decode(result.artifacts[k].bytes).value.f

Fragments == {k \in DOMAIN Intents : ~IsRelationship(request, k)}

(* A constructed set is whole: every intent of the request, fragment or    *)
(* relationship, has its own key, one entry of the construction map and    *)
(* one candidate source, in the order of the request; a supplied identity  *)
(* is the one its entry carries.                                           *)
ConstructedWhole ==
    Constructed =>
        /\ Len(result.map) = Len(Intents) /\ Len(result.artifacts) = Len(Intents)
        /\ Cardinality({e.key : e \in ItemsOf(result.map)}) = Len(Intents)
        /\ \A k \in DOMAIN Intents :
              /\ result.map[k].key = Intents[k].key
              /\ result.artifacts[k].key = Intents[k].key
              /\ SuppliedId(Intents[k]) \in {NONE, result.map[k].id}

(* An end that a relationship of a constructed set states is written as    *)
(* the identity that the set gives to the intent of that name, a fragment  *)
(* if the end is one of the request's: an end that only the reference      *)
(* basis knows never gets through, though the validation resolves it.      *)
WrittenInTheSet(end, id) ==
    \E j \in DOMAIN Intents : /\ Intents[j].key = end.target
                              /\ result.map[j].id = id
                              /\ end.kind = "request" => j \in Fragments

EndsInTheSet ==
    Constructed => \A k \in DOMAIN Intents \ Fragments :
        /\ WrittenInTheSet(Intents[k].from, Decoded(k)["from_entity_id"].v)
        /\ WrittenInTheSet(Intents[k].to, Decoded(k)["to_entity_id"].v)

(* What is constructed rests on the sealed basis: an update on an intact   *)
(* existing source of its identity, type and qualification, a reference on *)
(* an identity of the request or of the basis, a consumer's type on a      *)
(* definition selected exactly.                                            *)
AuthorityBacked ==
    Constructed => \A k \in Fragments :
        LET f == Intents[k]
            e == result.map[k]
        IN  /\ f.op = "update" =>
                   \E x \in ItemsOf(request.basis.existing) :
                       <<x.id, x.type, x.qual, x.intact>> = <<e.id, f.type, f.qual, TRUE>>
            /\ {r.target : r \in ItemsOf(f.refs)} = {r[1] : r \in e.references}
            /\ IsCustom(f.type) => Defined(request.basis, f.type, f.qual)

(* The fields the construction writes itself.                              *)
Ceremony(type) ==
    {"alias_id"}
        \cup (IF IsCustom(type) THEN {"entity_type", "qualification"} ELSE {})
        \cup (IF KindOf[type] = "adr" THEN {"schema_version"} ELSE {})
        \cup (IF type = "adr/logical" THEN {"decisions"} ELSE {})
        \cup (IF type = "adr/physical-system" THEN {"implements_logical", "system"} ELSE {})

(* The topology found is the one given but for components that had no      *)
(* purpose and now have one.                                               *)
PurposesAdded(given, found) ==
    /\ HasComponents(given) /\ HasComponents(found)
    /\ DOMAIN found.f = DOMAIN given.f
    /\ \A n \in DOMAIN given.f \ {"components"} : found.f[n] = given.f[n]
    /\ LET was == given.f["components"].items
           is == found.f["components"].items
       IN  /\ DOMAIN is = DOMAIN was
           /\ \A k \in DOMAIN was :
                 \/ is[k] = was[k]
                 \/ /\ DOMAIN is[k].f = DOMAIN was[k].f \cup {"purpose"}
                    /\ \A n \in DOMAIN was[k].f : is[k].f[n] = was[k].f[n]

KeptField(type, name, given, found) ==
    \/ found = given
    \/ /\ type = "adr/physical-system" /\ name = "component_topology"
       /\ PurposesAdded(given, found)

(* A constructed source, read back from its bytes, is the source that was  *)
(* built: it carries the identity of its entry in the construction map     *)
(* and every field the request supplied, nested and open maps included;    *)
(* all that is put into a supplied field is a purpose for a component of a *)
(* system's topology that states none.                                     *)
SuppliedKept ==
    Constructed =>
        /\ \A k \in DOMAIN Intents : /\ Map(Decoded(k)) = SourceOf(request, ids, k)
                                     /\ Decoded(k)["id"].v = result.map[k].id
        /\ \A k \in Fragments :
              \A n \in DOMAIN Intents[k].fields \ (Ceremony(Intents[k].type) \cup {"id"}) :
                  KeptField(Intents[k].type, n, Intents[k].fields[n], Decoded(k)[n])

Reversed(s) == [k \in DOMAIN s |-> s[Len(s) + 1 - k]]

Codes(report) == {<<d.code, d.status>> : d \in report}

(* The order of the fragments and of the relationships has no part in what *)
(* the validation finds, unless a key is repeated.                         *)
OrderFree ==
    pc = "done" /\ Cardinality({f.key : f \in ItemsOf(request.fragments)})
                       = Len(request.fragments) =>
        Codes(Report([request EXCEPT !.fragments = Reversed(@), !.relationships = Reversed(@)]))
            = Codes(Report(request))

(* Whatever the clock does, one process mints an identity again only after *)
(* a whole round of the counter's low bits, over calls and over the wrap   *)
(* of the counter (mint_uuidv7's "& 0x0fff" of a u16).                     *)
MintsFarApart ==
    \A p, q \in DOMAIN minted :
        p < q /\ minted[p] = minted[q] => \A now \in Epochs : q - p >= Len(Minter[now])
=============================================================================
