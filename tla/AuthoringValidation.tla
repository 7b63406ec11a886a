------------------------ MODULE AuthoringValidation ------------------------
(***************************************************************************)
(* Validation of an authoring request (ACC 1.0): which diagnostics a       *)
(* request earns, and the status they add up to.  A request states its     *)
(* fragments, its relationships and its compositions over a sealed basis;  *)
(* a request key that is repeated names the last fragment that carries it. *)
(***************************************************************************)
EXTENDS CandidateSource

CONSTANTS Schema,    \* the 1.7 schema of every type that can be written
          Adc,       \* the authoring domain's policy for a type
          KindOf     \* a type's kind, "custom" for a consumer's types

(* The types whose definition in the common schema validation consults.    *)
Sections == {type \in DOMAIN Schema : KindOf[type] \notin {"adr", "custom"}}

IsCustom(type) == KindOf[type] = "custom"

AdcQualification == [family |-> "adc", kind |-> NONE, type |-> NONE,
                     version |-> "1.1", print |-> NONE]

Diagnostic(code, status, key) == [code |-> code, status |-> status, key |-> key]

When(condition, code, status, key) ==
    IF condition THEN {Diagnostic(code, status, key)} ELSE {}

(***************************************************************************)
(* The basis: exact resource sets, intact source bytes.                    *)
(***************************************************************************)
BasisCodes(basis) ==
    {Diagnostic("exact_qualification", "violation", name) : name \in basis.inexact}
        \cup When("architecture_interpretation" \notin basis.inexact /\ ~basis.closed,
                  "interpretation_unavailable", "unavailable", NONE)
        \cup When(basis.custom # NONE /\ ~basis.custom.exact,
                  "exact_qualification", "violation", "custom_entity")
        \cup When(basis.custom # NONE /\ ~basis.custom.intact,
                  "exact_source_digest", "violation", "custom_entity")
        \cup {Diagnostic("exact_source_digest", "violation", e.id) :
                 e \in {x \in ItemsOf(basis.references) \cup ItemsOf(basis.existing) :
                           ~x.intact}}
        \cup When(basis.latest, "latest_selection", "violation", NONE)

(* The definition of a qualification: selected exactly, at its index, in   *)
(* an intact and valid registry whose entry carries its own fingerprint.   *)
First(s, Test(_)) == LET hits == {k \in DOMAIN s : Test(s[k])}
                     IN  CHOOSE k \in hits : \A j \in hits : k <= j

Has(s, Test(_)) == \E k \in DOMAIN s : Test(s[k])

Selected(custom, q) ==
    LET Names(entry) == entry.q = q
        at == First(custom.registry, Names)
        chosen == custom.selected[First(custom.selected, Names)]
    IN  /\ Has(custom.selected, Names) /\ custom.intact /\ custom.valid
        /\ Has(custom.registry, Names)
        /\ chosen.at = at /\ chosen.digest = custom.registry[at]
        /\ custom.registry[at].genuine

Defined(basis, type, q) == /\ basis.custom # NONE
                           /\ q.type = type
                           /\ q.version = "1.0"
                           /\ Selected(basis.custom, q)

DefinitionOf(basis, q) ==
    LET registry == basis.custom.registry
    IN  registry[First(registry, LAMBDA entry : entry.q = q)].body

QualificationCodes(basis, kind, type, q, key) ==
    LET shaped == q.family = "custom" /\ q.kind = kind /\ q.type = type
        unavailable == \/ q.version # "1.0"
                       \/ basis.custom = NONE
                       \/ kind = "entity" /\ ~basis.latest /\ ~Defined(basis, type, q)
    IN  When(~shaped, "qualification_mismatch", "violation", key)
        \cup When(shaped /\ unavailable, "custom_unavailable", "unavailable", key)

(***************************************************************************)
(* One fragment.                                                           *)
(***************************************************************************)
Supplies(f, name) == name \in DOMAIN f.fields

IdOf(f) == IF Supplies(f, "id") THEN f.fields["id"].v ELSE NONE

(* A mutant: any entry of that identity will do.                           *)
ExistingMatchesIdentity(basis, f) == \E e \in ItemsOf(basis.existing) : e.id = IdOf(f)

ExistingMatches(basis, f) ==
    IdOf(f) # "bad" /\ \E e \in ItemsOf(basis.existing) :
        e.id = IdOf(f) /\ e.type = f.type /\ e.qual = f.qual /\ e.intact

Grounded(basis, f) == f.op = "update" => Supplies(f, "id") /\ ExistingMatches(basis, f)

PermissionCodes(f) ==
    When(f.type \in DOMAIN Adc /\ Adc[f.type].posture[f.op] = "unsupported",
         "operation_forbidden", "violation", f.key)

UpdateCodes(basis, f) ==
    When(f.op = "update" /\ ~Supplies(f, "id"), "update_requires_existing",
         "violation", f.key)
        \cup When(f.op = "update" /\ Supplies(f, "id") /\ ~Grounded(basis, f),
                  "existing_source_unavailable", "unavailable", f.key)

CanonicalQualificationCodes(f) ==
    When(~IsCustom(f.type) /\ (f.kind # KindOf[f.type] \/ f.qual # AdcQualification),
         "qualification_mismatch", "violation", f.key)

AllowedFields(f) ==
    CASE IsCustom(f.type) -> DOMAIN f.fields
      [] ~IsCustom(f.type) /\ f.type \in DOMAIN Schema -> NamesIn(Schema[f.type])
      [] OTHER -> IF f.type \in DOMAIN Adc THEN Adc[f.type].fields ELSE DOMAIN f.fields

UnknownFields(f) ==
    (DOMAIN f.fields \ AllowedFields(f))
        \ ({"lifecycle_stage"} \cup IF f.mode = "compact" THEN {"prompt"} ELSE {})

SurfaceValid(f) == ~Supplies(f, "lifecycle_stage") /\ UnknownFields(f) = {}

IdentityValid(f) == Supplies(f, "id") => IdOf(f) \in Uuids \cup {"bad"}

MissingFields(f) ==
    IF f.op = "create" /\ f.mode # "compact" /\ f.type \in Sections
    THEN Schema[f.type].required \ (DOMAIN f.fields \cup {"id"}) ELSE {}

InvalidFields(basis, f) ==
    IF f.type \in Sections /\ f.mode # "compact" /\ Grounded(basis, f)
    THEN {n \in DOMAIN f.fields \ {"id"} :
             ~Conforms(f.fields[n], FieldSchema(Schema[f.type], n), FALSE)} ELSE {}

FieldCodes(basis, f) ==
    When(~IdentityValid(f), "invalid_uuidv7", "violation", f.key)
        \cup When(Supplies(f, "lifecycle_stage"), "field_forbidden", "violation", f.key)
        \cup When(UnknownFields(f) # {}, "field_unknown", "violation", f.key)
        \cup When(f.mode = "compact" /\ Supplies(f, "prompt"), "semantic_inference",
                  "violation", f.key)
        \cup When(SurfaceValid(f) /\ IdentityValid(f) /\ MissingFields(f) # {},
                  "field_required", "violation", f.key)
        \cup When(SurfaceValid(f) /\ IdentityValid(f) /\ InvalidFields(basis, f) # {},
                  "field_invalid", "violation", f.key)

(* A custom fragment is held to its definition instead.                    *)
MissingCustom(f, body) ==
    {n \in body.required \ DOMAIN f.fields :
        CASE f.op = "reference" -> n = "id"
          [] f.op = "create" -> n # "id" \/ ~body.establishes
          [] OTHER -> TRUE}

ValueMatches(value, schema) == Conforms(value, schema, FALSE)

CustomFieldCodes(f, body) ==
    LET other == DOMAIN f.fields \ body.forbidden
    IN  When(MissingCustom(f, body) # {}, "field_required", "violation", f.key)
        \cup When(DOMAIN f.fields \cap body.forbidden # {}, "field_forbidden",
                  "violation", f.key)
        \cup When(other \ DOMAIN body.fields # {}, "field_unknown", "violation", f.key)
        \cup When(\E n \in other \cap DOMAIN body.fields :
                      ~ValueMatches(f.fields[n], body.fields[n]),
                  "field_invalid", "violation", f.key)

CustomCodes(basis, f) ==
    IF ~IsCustom(f.type) THEN {}
    ELSE QualificationCodes(basis, "entity", f.type, f.qual, NONE)
         \cup IF Defined(basis, f.type, f.qual)
              THEN CustomFieldCodes(f, DefinitionOf(basis, f.qual))
              ELSE When(DOMAIN f.fields # {}, "custom_unavailable", "unavailable", f.key)

FragmentCodes(basis, f) ==
    CanonicalQualificationCodes(f) \cup PermissionCodes(f) \cup UpdateCodes(basis, f)
        \cup FieldCodes(basis, f) \cup CustomCodes(basis, f)

(***************************************************************************)
(* References and relationships.                                           *)
(***************************************************************************)
(* A mutant: the first fragment of the request is not indexed.             *)
KeyedAfterFirst(request, key) ==
    {f \in ItemsOf(Tail(request.fragments)) : f.key = key}

Keyed(request, key) ==
    LET hits == {k \in DOMAIN request.fragments : request.fragments[k].key = key}
    IN  IF hits = {} THEN {}
        ELSE {request.fragments[CHOOSE k \in hits : \A j \in hits : j <= k]}

EntryNamed(basis, name) ==
    LET entries == basis.references
        Bound(e) == e.ref = name /\ e.intact
    IN  IF Has(entries, Bound) THEN {entries[First(entries, Bound)]} ELSE {}

Targets(request, kind, target) ==
    CASE kind = "request" -> Keyed(request, target)
      [] kind \in {"existing", "reference"} -> EntryNamed(request.basis, target)
      [] OTHER -> {}

ReferenceCodes(request, f, r) ==
    LET targets == Targets(request, r.kind, r.target)
        matches == \E x \in targets : r.type \in {NONE, x.type} /\ r.qual \in {NONE, x.qual}
        custom == IF r.type = NONE THEN FALSE ELSE IsCustom(r.type)
    IN  When(~matches, "fragment_unresolved", "unresolved", f.key)
        \cup When(matches /\ custom /\ (r.qual = NONE
                                        \/ ~Defined(request.basis, r.type, r.qual)),
                  "custom_unavailable", "unavailable", f.key)

EndType(request, end) == {x.type : x \in Targets(request, end.kind, end.target)}

Forbidden == {"relationship/consumes_interface", "relationship/composed_of"}

Resolved(request, x) == EndType(request, x.from) # {} /\ EndType(request, x.to) # {}

UnresolvedCodes(request, x) ==
    When(~Resolved(request, x), "endpoint_unresolved", "unresolved", x.key)
        \cup When(EndType(request, x.from) = {} /\ EndType(request, x.to) = {},
                  "check_blocked", "blocked", x.key)

(* A custom relationship whose ends resolve and whose definition is there. *)
Governed(request, x) == /\ IsCustom(x.type)
                        /\ Resolved(request, x)
                        /\ Defined(request.basis, x.type, x.qual)

EndsAllowed(request, x) ==
    LET body == DefinitionOf(request.basis, x.qual)
    IN  EndType(request, x.from) \subseteq body.from /\ EndType(request, x.to) \subseteq body.to

(* Whatever the maximum, a second relationship between the same types.     *)
Counted(request, x) == /\ Governed(request, x)
                       /\ EndsAllowed(request, x)
                       /\ DefinitionOf(request.basis, x.qual).bounded

Crowded(request, p) ==
    LET xs == request.relationships
        Signature(x) == <<x.type, EndType(request, x.from), EndType(request, x.to)>>
        Alike(q) == Counted(request, xs[q]) /\ Signature(xs[q]) = Signature(xs[p])
    IN  /\ Counted(request, xs[p])
        /\ \E q \in p + 1 .. Len(xs) : Alike(q)
        /\ \A q \in 1 .. p - 1 : ~Alike(q)

CustomRelationshipCodes(request, x) ==
    (IF IsCustom(x.type)
     THEN QualificationCodes(request.basis, "relationship", x.type, x.qual, x.key) ELSE {})
        \cup When(IsCustom(x.type) /\ Resolved(request, x) /\ ~Governed(request, x),
                  "custom_unavailable", "unavailable", x.key)

RelationshipCodes(request, p) ==
    LET x == request.relationships[p]
    IN  CustomRelationshipCodes(request, x)
        \cup When(x.type \in Forbidden, "forbidden_type", "violation", x.key)
        \cup (IF x.type \in Forbidden THEN {} ELSE UnresolvedCodes(request, x))
        \cup (IF Governed(request, x)
              THEN When(~EndsAllowed(request, x), "endpoint_forbidden", "violation", x.key)
              ELSE {})
        \cup When(Crowded(request, p), "cardinality", "violation", x.key)

(***************************************************************************)
(* The report.                                                             *)
(***************************************************************************)
Diagnostics(request) ==
    BasisCodes(request.basis)
        \cup (UNION {FragmentCodes(request.basis, f) : f \in ItemsOf(request.fragments)})
        \cup (UNION {RelationshipCodes(request, p) : p \in DOMAIN request.relationships})
        \cup (UNION {UNION {ReferenceCodes(request, f, r) : r \in ItemsOf(f.refs)} :
                        f \in ItemsOf(request.fragments)})

StatusOf(diagnostics) ==
    LET statuses == {d.status : d \in diagnostics}
    IN  CASE "violation" \in statuses -> "invalid"
          [] "violation" \notin statuses /\ "unavailable" \in statuses -> "unavailable"
          [] statuses \cap {"violation", "unavailable"} = {} /\ "unresolved" \in statuses ->
                "unresolved"
          [] OTHER -> "valid"

Report(request) ==
    IF ~request.conforms THEN {Diagnostic("schema", "violation", NONE)}
    ELSE Diagnostics(request)
=============================================================================
