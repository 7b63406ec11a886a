---------------------------- MODULE CompilePasses ----------------------------
(***************************************************************************)
(* The frontend pipeline of the compiler, one action per pass, and the     *)
(* registry bundle assembled from its model.  A corpus is the sequence of  *)
(* the ADR files in the order they are discovered, logical ones first.     *)
(*                                                                         *)
(* An ADR is a record: its kind, id and version, its nested parts, the     *)
(* references it authors (claims), the members and the edges of a system   *)
(* topology, and its extension relationships.                              *)
(***************************************************************************)
EXTENDS Naturals, Sequences, FiniteSets, SequencesExt

CONSTANTS Corpora,   \* the corpora that are compiled
          NoRef,     \* the component_ref of a legacy topology component
          Uuids,     \* the ids that are UUIDv7
          TopoIds    \* the ids that start with TOPO-

VARIABLES corpus, pc, version,
          entities,   \* id -> type and declaring ADR
          systems,    \* id of a physical-system ADR -> id of its system
          relations,  \* <<type, from, to>> -> declaring ADR, classification, scope
          gaps,       \* what derivation could not resolve, in order
          unresolved, \* the unresolved records
          bundle      \* the registries

vars == <<corpus, pc, version, entities, systems, relations, gaps, unresolved, bundle>>

Verbs == {"calls", "publishes_to", "subscribes_to", "reads_from", "writes_to", "depends_on"}

UuidEra == {"2.0", "2.1", "2.2", "2.3"}

Empty == <<>>

-----------------------------------------------------------------------------
(* What a claim of a field becomes: the relation, the inverse relation, if  *)
(* it is read from the target's side, what happens when its target is not   *)
(* an entity, and its classification.                                       *)
To(type, missing)      == [type |-> type, back |-> "", swap |-> FALSE,
                           missing |-> missing, class |-> "explicit"]
Both(type, back, lost) == [To(type, lost) EXCEPT !.back = back]
Weak(type)             == [To(type, "drop") EXCEPT !.class = "derived"]

LogicalRule == [
    related_adrs              |-> To("references", "drop"),
    supersedes                |-> Both("supersedes", "superseded_by", "drop"),
    superseded_by             |-> Both("superseded_by", "supersedes", "drop"),
    implemented_by_components |-> To("implemented_by", "gap"),
    parties                   |-> To("related_to", "drop"),
    enforces_invariants       |-> To("enforces", "gap"),
    enables_capabilities      |-> Both("enables", "enabled_by", "gap"),
    governs_components        |-> To("governs", "drop"),
    refines                   |-> To("refines", "drop")]

BindingRule == [
    affected_entities |-> To("", "raise"),
    rule_bindings     |-> To("binds_rule", "external")]

PhysicalRule == [
    implements_logical    |-> To("implements_logical", "drop"),
    interfaces            |-> To("provides_interface", "drop"),
    implements_capabilities |-> [To("implemented_by", "gap") EXCEPT !.swap = TRUE],
    implements_system     |-> To("embodied_in", "gap"),
    dependencies          |-> Weak("related_to"),
    implements_invariants |-> To("enforces", "drop"),
    references_components |-> Weak("related_to")]

Field == DOMAIN LogicalRule \cup DOMAIN BindingRule \cup DOMAIN PhysicalRule

Rule == [f \in Field |-> IF f \in DOMAIN LogicalRule THEN LogicalRule[f]
                         ELSE IF f \in DOMAIN BindingRule THEN BindingRule[f] ELSE PhysicalRule[f]]

(* The relation types of the core, which no extension may take. *)
CoreTypes == {Rule[f].type : f \in Field} \cup {Rule[f].back : f \in Field}
             \cup {"declared_in", "composed_of"} \cup Verbs
             \cup {"consumes_interface", "binds_substrate", "expects_evidence"}

-----------------------------------------------------------------------------
(* What the authoring models admit, file by file.                           *)
Document ==
    [id : STRING, kind : {"logical", "system", "component"}, version : STRING,
     parts      : Seq([id : STRING, type : STRING]),
     claims     : Seq([field : Field, from : STRING, to : STRING]),
     members    : Seq([handle : STRING, ref : STRING \cup {NoRef}]),
     edges      : Seq([from : STRING, to : STRING, verb : STRING]),
     extensions : Seq(STRING \X STRING \X STRING)]

(* Where an ADR authors references: in its own fields and in its parts.     *)
Authors == [logical   |-> {"capability", "contract", "decision", "invariant"},
            system    |-> {},
            component |-> {"component", "implementation_decision"}]

Sources(adr) == {adr.id} \cup {p.id : p \in {q \in Range(adr.parts) : q.type \in Authors[adr.kind]}}

(* Parts whose id no model or schema of a UUID line asks to be a UUID: the  *)
(* open line 1.4 leaves those of a component ADR free, 1.5 and 1.6 those of *)
(* its decisions; a gap of 1.3 has an id of its own form.                   *)
Unchecked == [v \in {"1.3", "1.4", "1.5", "1.6"} |->
    CASE v = "1.3" -> {"gap"}
      [] v = "1.4" -> {"component", "interface", "implementation_decision"}
      [] OTHER -> {"implementation_decision"}]

(* The topology of lines 1.3 and 1.4 is an open mapping: its verbs are free, *)
(* and so are the ids of its members (TOPO- handles in 1.3).                 *)
Admissible(adr) ==
    /\ adr.id # "PROJECT.yaml"
    /\ \A p \in Range(adr.parts) : p.type # "adr"
    /\ \A c \in Range(adr.claims) : c.from \in Sources(adr)
    /\ \A key \in Range(adr.extensions) : key[1] \notin CoreTypes
    /\ \A c \in Range(adr.claims) : c.field = "rule_bindings" => c.to \notin Uuids
    /\ adr.version \in DOMAIN Unchecked =>
          /\ adr.id \in Uuids
          /\ \A p \in Range(adr.parts) : p.type \notin Unchecked[adr.version] => p.id \in Uuids
    /\ adr.version \in {"1.5", "1.6"} =>
          \A m \in Range(adr.members) : m.ref # NoRef /\ m.ref \in Uuids
    /\ adr.version \notin {"1.3", "1.4"} => \A e \in Range(adr.edges) : e.verb \in Verbs

ASSUME CorpusAssumption ==
    \A files \in Corpora :
        /\ files \in Seq(Document)
        /\ \A i \in DOMAIN files : Admissible(files[i])
        /\ \A i, j \in DOMAIN files : files[i].kind # "logical" /\ files[j].kind = "logical" => j < i

ADRs == Range(corpus)

-----------------------------------------------------------------------------
Init ==
    /\ corpus \in Corpora
    /\ pc = "detect" /\ version = ""
    /\ entities = Empty /\ systems = Empty /\ relations = Empty
    /\ gaps = <<>> /\ unresolved = {} /\ bundle = Empty

Go(pass) == pc' = pass

Raise == /\ pc' = "failed"
         /\ UNCHANGED <<corpus, version, entities, systems, relations, gaps, unresolved, bundle>>

(* Scopes that mix one of the authoring lines 1.3 to 1.6 with anything else. *)
Line == [v \in {"1.3", "1.4", "1.5", "1.6"} |->
            CASE v = "1.3" -> "2.0" [] v = "1.4" -> "2.1" [] v = "1.5" -> "2.2" [] OTHER -> "2.3"]

VersionDetection ==
    LET versions == {a.version : a \in ADRs}
        modern   == versions \cap DOMAIN Line
    IN /\ pc = "detect"
       /\ IF modern # {} /\ (versions # modern \/ Cardinality(modern) > 1) THEN Raise
          ELSE /\ Go("logical")
               /\ version' = IF modern = {} THEN "1.1" ELSE Line[CHOOSE v \in modern : TRUE]
               /\ UNCHANGED <<corpus, entities, systems, relations, gaps, unresolved, bundle>>

(* Adding extracted entities in order: an id that is taken raises, but an   *)
(* ADR of a physical file merges into the entity it meets.                  *)
Item(id, type, adr, merge) == [id |-> id, type |-> type, adr |-> adr, merge |-> merge]

At(items, id) == {i \in DOMAIN items : items[i].id = id}

Fits(items) ==
    \A i \in DOMAIN items :
        items[i].merge \/ (items[i].id \notin DOMAIN entities /\ i = Min(At(items, items[i].id)))

AddAll(items) ==
    [id \in DOMAIN entities \cup {items[i].id : i \in DOMAIN items} |->
        IF id \in DOMAIN entities THEN entities[id]
        ELSE LET first == items[Min(At(items, id))] IN [type |-> first.type, adr |-> first.adr]]

When(test, x) == IF test THEN <<x>> ELSE <<>>

Parts(adr, types) ==
    FlattenSeq([i \in DOMAIN adr.parts |->
        When(adr.parts[i].type \in types, Item(adr.parts[i].id, adr.parts[i].type, adr.id, FALSE))])

OfLogical(adr, types) == IF adr.kind = "logical" THEN Parts(adr, types) ELSE <<>>

Logical(adr) ==
    When(adr.kind = "logical", Item(adr.id, "adr", adr.id, FALSE))
    \o OfLogical(adr, {"capability", "boundary", "contract", "decision"})

(* Declared gaps become unresolved records at once; a repeated one raises.  *)
Ugap(gap) == <<"UGAP", gap.adr, gap.id>>

LogicalEntityExtraction ==
    /\ pc = "logical"
    /\ LET items    == FlattenSeq([i \in DOMAIN corpus |-> Logical(corpus[i])])
           declared == FlattenSeq([i \in DOMAIN corpus |-> OfLogical(corpus[i], {"gap"})])
           fine     == Fits(items) /\ IsInjective([i \in DOMAIN declared |-> Ugap(declared[i])])
       IN IF ~fine THEN Raise
          ELSE /\ Go("invariants")
               /\ entities' = AddAll(items)
               /\ unresolved' = {Ugap(gap) : gap \in Range(declared)}
               /\ UNCHANGED <<corpus, version, systems, relations, gaps, bundle>>

(* An invariant has one definition: two are a duplicate or a collision.     *)
InvariantExtraction ==
    /\ pc = "invariants"
    /\ LET items == FlattenSeq([i \in DOMAIN corpus |-> OfLogical(corpus[i], {"invariant"})])
       IN IF ~Fits(items) THEN Raise
          ELSE /\ Go("physical")
               /\ entities' = AddAll(items)
               /\ UNCHANGED <<corpus, version, systems, relations, gaps, unresolved, bundle>>

PhysicalParts(adr) == Parts(adr, {"component", "interface", "implementation_decision"})

(* A fat topology component is declared by the topology itself. *)
Fats(adr) ==
    FlattenSeq([i \in DOMAIN adr.members |->
        When(adr.members[i].ref = NoRef, Item(adr.members[i].handle, "component", adr.id, FALSE))])

Physical(adr) ==
    IF adr.kind = "logical" THEN <<>>
    ELSE <<Item(adr.id, "adr", adr.id, TRUE)>>
         \o (IF adr.kind = "system" THEN Parts(adr, {"system"}) \o Fats(adr) ELSE PhysicalParts(adr))

OwnSystem(adr) == adr.parts[Min({i \in DOMAIN adr.parts : adr.parts[i].type = "system"})].id

(* The system of a physical-system ADR; of two ADRs with one id, the last's. *)
SystemOf(id) ==
    OwnSystem(corpus[Max({i \in DOMAIN corpus : corpus[i].kind = "system" /\ corpus[i].id = id})])

PhysicalEntityExtraction ==
    /\ pc = "physical"
    /\ LET items == FlattenSeq([i \in DOMAIN corpus |-> Physical(corpus[i])])
       IN IF ~Fits(items) THEN Raise
          ELSE /\ Go("propositions")
               /\ entities' = AddAll(items)
               /\ systems' = [id \in {a.id : a \in {b \in ADRs : b.kind = "system"}} |-> SystemOf(id)]
               /\ UNCHANGED <<corpus, version, relations, gaps, unresolved, bundle>>

Propositions(adr) == IF adr.version = "1.6" THEN Parts(adr, {"normative_proposition"}) ELSE <<>>

NormativePropositionExtraction ==
    /\ pc = "propositions"
    /\ LET items == FlattenSeq([i \in DOMAIN corpus |-> Propositions(corpus[i])])
       IN IF ~Fits(items) THEN Raise
          ELSE /\ Go("extensions")
               /\ entities' = AddAll(items)
               /\ UNCHANGED <<corpus, version, systems, relations, gaps, unresolved, bundle>>

(* The namespaced relationships the ADRs author, and the first that does.   *)
Extended == UNION {Range(a.extensions) : a \in ADRs}

Extender(key) == corpus[Min({i \in DOMAIN corpus : key \in Range(corpus[i].extensions)})].id

Relation(adr, class, local) == [adr |-> adr, class |-> class, local |-> local]

(* Extension entities, then extension relationships, whose endpoints exist. *)
ExtensionEntityExtraction ==
    /\ pc = "extensions"
    /\ LET items == FlattenSeq([i \in DOMAIN corpus |-> Parts(corpus[i], {"extension"})])
           added == AddAll(items)
           fine  == Fits(items) /\ \A key \in Extended : {key[2], key[3]} \subseteq DOMAIN added
       IN IF ~fine THEN Raise
          ELSE /\ Go("topology")
               /\ entities' = added
               /\ relations' = [key \in Extended |-> Relation(Extender(key), "explicit", TRUE)]
               /\ UNCHANGED <<corpus, version, systems, gaps, unresolved, bundle>>

Handles(adr) == {m.handle : m \in Range(adr.members)}

(* Mutant: a handle may be given twice. *)
LocalTopologyRepeats(adr) ==
    /\ \A m \in Range(adr.members) :
          m.ref \in DOMAIN entities /\ entities[m.ref].type = "component"
    /\ \A e \in Range(adr.edges) : e.from \in Handles(adr) /\ e.to \in Handles(adr)

(* Slim topology: one component per handle, no handle twice, edges between  *)
(* handles of the same system ADR.                                          *)
LocalTopology(adr) ==
    /\ \A i, j \in DOMAIN adr.members :
          i # j => adr.members[i].handle # adr.members[j].handle
    /\ \A m \in Range(adr.members) :
          m.ref \in DOMAIN entities /\ entities[m.ref].type = "component"
    /\ adr.members # <<>> =>
          \A e \in Range(adr.edges) : e.from \in Handles(adr) /\ e.to \in Handles(adr)

(* The handles are resolved in model version 2.2 only. *)
TopologyResolution ==
    /\ pc = "topology"
    /\ LET fine == version = "2.2" => \A a \in ADRs : a.kind = "system" => LocalTopology(a)
       IN IF ~fine THEN Raise
          ELSE /\ Go("derive")
               /\ UNCHANGED <<corpus, version, entities, systems, relations, gaps, unresolved, bundle>>

-----------------------------------------------------------------------------
(* Derivation: what the references name, and the relations they become.     *)
Lookup == IF version \in {"2.2", "2.3"} THEN DOMAIN entities
          ELSE {id \in DOMAIN entities : entities[id].type # "extension"}

Target(claim) == IF claim.field = "implements_system" /\ claim.to \in DOMAIN systems
                 THEN systems[claim.to] ELSE claim.to

Known(claim) == Target(claim) \in Lookup

Edge(key, adr, class, local) == [key |-> key, relation |-> Relation(adr, class, local)]

ClaimKey(c) == IF Rule[c.field].swap THEN <<Rule[c.field].type, Target(c), c.from>>
               ELSE <<Rule[c.field].type, c.from, Target(c)>>

Straight(adr, c) == Edge(ClaimKey(c), adr.id, Rule[c.field].class, Rule[c.field].missing # "external")

Converse(adr, c) == Edge(<<Rule[c.field].back, Target(c), c.from>>, adr.id, "derived", TRUE)

IsStated(c) == Rule[c.field].missing = "external" \/ (Rule[c.field].missing # "raise" /\ Known(c))

(* Mutant: the inverse relation is left to the other ADR to declare. *)
OfClaimOneWay(adr, c) == When(IsStated(c), Straight(adr, c))

OfClaim(adr, c) ==
    When(IsStated(c), Straight(adr, c))
    \o When(IsStated(c) /\ Rule[c.field].back # "", Converse(adr, c))

Claims(adr) == FlattenSeq([i \in DOMAIN adr.claims |-> OfClaim(adr, adr.claims[i])])

(* The component a handle names: the last one, if a handle is repeated.     *)
Named(adr, handle) ==
    LET slim == {i \in DOMAIN adr.members : /\ adr.members[i].handle = handle
                                            /\ adr.members[i].ref # NoRef}
    IN IF slim = {} THEN NoRef ELSE adr.members[Max(slim)].ref

MemberKey(adr, m) == <<"composed_of", systems[adr.id], IF m.ref = NoRef THEN m.handle ELSE m.ref>>

Members(adr) ==
    [i \in DOMAIN adr.members |-> Edge(MemberKey(adr, adr.members[i]), adr.id, "explicit", TRUE)]

EdgeKey(adr, e) == <<e.verb, Named(adr, e.from), Named(adr, e.to)>>

TopologyEdges(adr) ==
    FlattenSeq([i \in DOMAIN adr.edges |->
        LET e == adr.edges[i]
        IN When(NoRef \notin {Named(adr, e.from), Named(adr, e.to)},
                Edge(EdgeKey(adr, e), adr.id, "explicit", TRUE))])

Statements(adr) == Claims(adr) \o (IF adr.kind = "system"
                                   THEN Members(adr) \o TopologyEdges(adr) ELSE <<>>)

(* Every nested entity is declared in its ADR.                              *)
Declared == {<<"declared_in", id, entities[id].adr>> :
                id \in {e \in Lookup : entities[e].type # "adr" /\ entities[e].adr \in Lookup}}

(* A statement is heard if its ends are known; the first of a relation wins. *)
Heard(e) == e.key[2] \in Lookup /\ (e.key[3] \in Lookup \/ ~e.relation.local)

AddRelations(stated) ==
    LET heard == {i \in DOMAIN stated : Heard(stated[i])}
    IN [key \in DOMAIN relations \cup Declared \cup {stated[i].key : i \in heard} |->
          IF key \in DOMAIN relations THEN relations[key]
          ELSE IF key \in Declared THEN Relation(key[3], "explicit", TRUE)
          ELSE stated[Min({i \in heard : stated[i].key = key})].relation]

Gap(c) == Rule[c.field].missing = "gap" /\ ~Known(c)

Gaps(adr) == FlattenSeq([i \in DOMAIN adr.claims |-> When(Gap(adr.claims[i]), adr.claims[i])])

RelationshipInference ==
    /\ pc = "derive"
    /\ LET fine == \A a \in ADRs : \A c \in Range(a.claims) :
                       Rule[c.field].missing = "raise" => Known(c)
       IN IF ~fine THEN Raise
          ELSE /\ Go("unresolved")
               /\ relations' = AddRelations(FlattenSeq([i \in DOMAIN corpus |-> Statements(corpus[i])]))
               /\ gaps' = FlattenSeq([i \in DOMAIN corpus |-> Gaps(corpus[i])])
               /\ UNCHANGED <<corpus, version, entities, systems, unresolved, bundle>>

(* Mutant: only the first gap is recorded. *)
UnresolvedFew ==
    /\ pc = "unresolved" /\ Go("validate")
    /\ unresolved' = unresolved \cup {<<gaps[i].field, gaps[i].from, gaps[i].to>> :
                                         i \in DOMAIN gaps \cap {1}}
    /\ UNCHANGED <<corpus, version, entities, systems, relations, gaps, bundle>>

(* A gap that is reported twice raises. *)
UnresolvedDetection ==
    /\ pc = "unresolved"
    /\ LET fine == IsInjective(gaps)
       IN IF ~fine THEN Raise
          ELSE /\ Go("validate")
               /\ unresolved' = unresolved \cup {<<g.field, g.from, g.to>> : g \in Range(gaps)}
               /\ UNCHANGED <<corpus, version, entities, systems, relations, gaps, bundle>>

-----------------------------------------------------------------------------
Type(id) == IF id \in DOMAIN entities THEN entities[id].type ELSE "none"

EndsFit(key) ==
    /\ {key[2], key[3]} \cap TopoIds = {}
    /\ Type(key[2]) # "none" /\ (relations[key].local => Type(key[3]) # "none")
    /\ key[1] = "composed_of" => Type(key[2]) = "system" /\ Type(key[3]) = "component"
    /\ key[1] \in Verbs => /\ Type(key[2]) = "component" /\ Type(key[3]) = "component"
                           /\ relations[key].class = "explicit"

(* Systems a component claims in its own ADR; of two ADRs, the last one's.  *)
Holders(id) == {i \in DOMAIN corpus : /\ corpus[i].kind = "component"
                                      /\ \E p \in Range(corpus[i].parts) : p.id = id}

Claimed(id) ==
    {Target(c) : c \in {d \in UNION {Range(corpus[i].claims) : i \in Holders(id)} :
                           /\ d.field = "implements_system" /\ d.from = id
                           /\ d \in Range(corpus[Max(Holders(id))].claims)}}

(* What a topology says of membership, the component's own ADR says too; a  *)
(* topology speaks of the system its own file declares.                     *)
Membership ==
    \A a \in ADRs : a.kind = "system" =>
        \A m \in Range(a.members) : m.ref # NoRef => OwnSystem(a) \in Claimed(m.ref)

TopologySemantics == /\ DOMAIN entities \cap TopoIds = {}
                     /\ \A key \in DOMAIN relations : EndsFit(key)
                     /\ Membership

(* E402 and E405, over the entities and the records of the closed models,   *)
(* which have none for the type of an extension or for a verb of one's own. *)
BundleValid ==
    /\ \A key \in DOMAIN relations :
          key[1] \in CoreTypes /\ key[2] \in Lookup /\ (relations[key].local => key[3] \in Lookup)
    /\ \A u \in unresolved : u[2] \in Lookup

(* The namespace marker is an entity of its own: its id is not taken.       *)
Marker == "__namespace__"

Namespace ==
    [id \in DOMAIN entities \cup {Marker} |->
        IF id = Marker THEN [type |-> "boundary", adr |-> "PROJECT.yaml"] ELSE entities[id]]

Validation ==
    /\ pc = "validate"
    /\ LET fine == /\ IF version \in {"2.2", "2.3"} THEN TopologySemantics ELSE BundleValid
                   /\ Marker \notin DOMAIN entities
       IN IF ~fine THEN Raise
          ELSE /\ Go("assemble")
               /\ entities' = Namespace
               /\ UNCHANGED <<corpus, version, systems, relations, gaps, unresolved, bundle>>

-----------------------------------------------------------------------------
(* Projection into the registries.                                          *)
Legacy == {"capability", "component", "decision", "invariant"}

(* The UUID models drop what has no UUID. *)
Publishable(id) == version \in UuidEra => id \in Uuids

ProjectedEntities ==
    {id \in DOMAIN entities : /\ entities[id].adr # "PROJECT.yaml"
                              /\ entities[id].type = "extension" => version \notin {"1.1", "2.0"}
                              /\ Publishable(id)}

(* Mutant: only the source of a relation needs a UUID. *)
HasUuidSource(key) == key[2] \in Uuids

(* External targets have none; the owner, an ADR, has one. *)
HasUuidEnds(key) == {key[2], key[3]} \subseteq Uuids

ProjectedRelations == {key \in DOMAIN relations : version \in UuidEra => HasUuidEnds(key)}

(* A summary lists core relations to entities of the scope.                 *)
Summary(id) == {key \in DOMAIN relations : key[2] = id /\ relations[key].local
                                           /\ key \notin Extended}

OfType(t) == {id \in ProjectedEntities : entities[id].type = t}

(* The legacy registry is empty from model 2.1 on. *)
LegacyEntities == IF version \in {"1.1", "2.0"} THEN UNION {OfType(t) : t \in Legacy} ELSE {}

(* Model 2.0 validates what it projected: what a summary or a record names  *)
(* outside is logged as an error, and the bundle is assembled all the same. *)
HardFailures ==
    IF version # "2.0" THEN {}
    ELSE {key \in UNION {Summary(id) : id \in ProjectedEntities} : key[3] \notin ProjectedEntities}
         \cup {u \in unresolved : u[2] \notin ProjectedEntities}

Registries == [entities   |-> ProjectedEntities,
               relations  |-> ProjectedRelations,
               unresolved |-> unresolved,
               summary    |-> [id \in ProjectedEntities |-> Summary(id)],
               registry   |-> [t \in Legacy \cup {"system"} |-> OfType(t)],
               legacy     |-> LegacyEntities,
               failures   |-> HardFailures]

AssembleBundle ==
    /\ pc = "assemble" /\ Go("done")
    /\ bundle' = Registries
    /\ UNCHANGED <<corpus, version, entities, systems, relations, gaps, unresolved>>

Halt == pc \in {"done", "failed"} /\ UNCHANGED vars

Next == \/ VersionDetection \/ LogicalEntityExtraction \/ InvariantExtraction
        \/ PhysicalEntityExtraction \/ NormativePropositionExtraction
        \/ ExtensionEntityExtraction \/ TopologyResolution \/ RelationshipInference
        \/ UnresolvedDetection \/ Validation \/ AssembleBundle \/ Halt

Spec == Init /\ [][Next]_vars

-----------------------------------------------------------------------------
Done == pc = "done"

(* A relation the UUID models drop: an end of it has no UUID.               *)
Dropped(key) == version \in UuidEra /\ ~HasUuidEnds(key)

(* Every reference whose absence the compiler reports is accounted for: it  *)
(* has become a relation or an unresolved record, never both and never      *)
(* neither.  The records are published, and so are the relations; one that  *)
(* the UUID models drop is still told by the summary of its source.         *)
ReferencesAccounted ==
    Done => \A a \in ADRs : \A c \in Range(a.claims) :
        Rule[c.field].missing = "gap" =>
            LET key == ClaimKey(c)
            IN /\ (key \in DOMAIN relations) # (<<c.field, c.from, c.to>> \in bundle.unresolved)
               /\ key \in DOMAIN relations =>
                     IF Dropped(key) THEN key[2] \in bundle.entities => key \in bundle.summary[key[2]]
                     ELSE key \in bundle.relations

(* No ADR id is that of two system ADRs: each topology speaks of one system. *)
OneSystemEach == \A a, b \in ADRs : a.kind = "system" /\ b.kind = "system" /\ a.id = b.id => a = b

Opposite == [supersedes |-> "superseded_by", superseded_by |-> "supersedes",
             enables |-> "enabled_by", enabled_by |-> "enables"]

(* A published relation that has an inverse is published with it, whichever *)
(* of the two ADRs authored it, in whatever order their files come; and     *)
(* membership has one truth: a system composed of a component by the        *)
(* system's ADR is embodied in it by the component's ADR, unless two system *)
(* ADRs share an id, when the first one's members fall to the last system.  *)
InversesTogether ==
    Done => \A key \in bundle.relations :
        /\ key[1] \in DOMAIN Opposite =>
              <<Opposite[key[1]], key[3], key[2]>> \in bundle.relations
        /\ key[1] = "composed_of" /\ version \in {"2.2", "2.3"} /\ OneSystemEach =>
              <<"embodied_in", key[3], key[2]>> \in bundle.relations

(* In model 2.2 no authored edge of a topology with members is lost, nor    *)
(* read as an edge between other components than its handles name.          *)
TopologyKept ==
    Done /\ version = "2.2" =>
        \A a \in ADRs : a.kind = "system" =>
            \A e \in Range(a.edges) : \A m, n \in Range(a.members) :
                m.handle = e.from /\ n.handle = e.to =>
                    <<e.verb, m.ref, n.ref>> \in bundle.relations

(* A name outside the bundle has no UUID, and model 2.0 reports it.         *)
Outside(item, id) == ~Publishable(id) /\ (version = "2.0" => item \in bundle.failures)

(* The bundle is closed: its relations name entities of it, and so do its   *)
(* unresolved records and summaries, which agree with the relations, but    *)
(* for ids without a UUID, which the UUID models drop: 2.0 reports every    *)
(* one of them, the later ones leave it named without a word.  Every nested *)
(* entity has its declaring ADR.                                            *)
BundleClosed ==
    Done =>
        /\ \A key \in bundle.relations :
              /\ key[2] \in bundle.entities
              /\ relations[key].local => key[3] \in bundle.entities
        /\ \A u \in bundle.unresolved : u[2] \in bundle.entities \/ Outside(u, u[2])
        /\ \A id \in bundle.entities : \A key \in bundle.summary[id] :
              key \in bundle.relations \/ Outside(key, key[3])
        /\ \A id \in bundle.entities \ {a.id : a \in ADRs} :
              entities[id].type # "extension" \/ version # "2.1" =>
                Cardinality({key \in bundle.summary[id] : key[1] = "declared_in"}) = 1

(* The lines 1.3 and 1.4 leave the verbs of a topology free: a corpus is    *)
(* plain if none of them is a type that derivation gives a meaning.         *)
Reserved == DOMAIN Opposite \cup {"composed_of", "declared_in"}

PlainVerbs == \A files \in Corpora : \A i \in DOMAIN files :
                  \A e \in Range(files[i].edges) : e.verb \notin Reserved
=============================================================================
