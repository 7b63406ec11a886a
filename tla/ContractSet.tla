---------------------------- MODULE ContractSet ----------------------------
(***************************************************************************)
(* Semantic contract sets: one definition of each family a profile names,  *)
(* qualified as a whole for an operation.  Everything is computed from the *)
(* request, which carries the retained corpus:                             *)
(*   profile         [id, version, families, operations, purposes]         *)
(*   definitions     sequence of [definition, resources]                   *)
(*   sets            position -> [id, members], in the order of the array  *)
(*   qualifications  sequence of records for one set, operation, direction *)
(*   catalog, policy [revision, entries]                                   *)
(*   current         the pointer, or NONE                                  *)
(* Every record has a "governed" flag for the fields, grammar, schema      *)
(* version and value types the core checks one by one.                     *)
(***************************************************************************)
EXTENDS SemanticContract

(***************************************************************************)
(* Profiles.                                                               *)
(***************************************************************************)
LegacyOperations == <<"validate_profile", "qualify_tuple", "assemble_set", "validate_corpus",
                      "resolve_current">>

MaterializationOperations ==
    LegacyOperations \o <<"resolve_semantic_contract_set", "materialize_architecture">>

ProfileVersion(id) == IF id = "am@1.0" THEN "1.0" ELSE IF id = "am@1.1" THEN "1.1" ELSE ""

ExpectedFamilies(id) ==
    CASE id = "am@1.0" -> {<<"interpretation", "1.0">>, <<"model", "2.3">>, <<"normative", "1.0">>}
      [] id = "am@1.1" -> {<<"interpretation", "1.1">>, <<"model", "2.4">>, <<"normative", "1.0">>}
      [] OTHER -> {}

FamilyOf(f) == f.family

(* The version a profile names for a family: the last one counts.          *)
Participating(families) ==
    {<<families[i].family, families[i].version>> :
        i \in {j \in DOMAIN families :
                  \A k \in DOMAIN families : k > j => families[k].family # families[j].family}}

ValidateProfile(p) ==
    Problem(~ p.governed \/ p.version # ProfileVersion(p.id) \/ p.id \notin {"am@1.0", "am@1.1"}
                \/ (\E f \in ToSet(p.families) : f.cardinality # 1),
            "profile_failure")
    \cup Problem(Repeats(p.families, FamilyOf), "duplicate_profile_family")
    \cup Problem(Participating(p.families) # ExpectedFamilies(p.id), "profile_family_mismatch")
    \cup Problem(\/ p.operations \notin {LegacyOperations, MaterializationOperations}
                 \/ p.purposes # <<"architecture-materialization">>,
                 "profile_operation_mismatch")

ProfileMembersMatch(p, members) ==
    ValidateProfile(p)
    \cup Problem({<<m.family, m.version>> : m \in members} # ExpectedFamilies(p.id),
                 "profile_family_mismatch")

ProfileDeclares(p, operation) == operation \in ToSet(p.operations)

(***************************************************************************)
(* Definitions.  The bundles are indexed by family and version, and by the *)
(* whole identity; of bundles with one key an index keeps the last.        *)
(***************************************************************************)
FamilyAndVersion(b) == <<b.definition.family, b.definition.version>>

MemberOf(b) == [family |-> b.definition.family, version |-> b.definition.version,
                fingerprint |-> b.definition.declared]

VerifyBundle(b) ==
    Problem(b.definition.declared = NONE, "invalid_scf")
    \cup Problem(DeclaredFingerprint(b.definition, TRUE) # {}, "scf_mismatch")
    \cup Problem(ValidateClosure(b.definition, b.resources) # {}, "integrity_failure")

VerifyRepeatedBundles(bundles) ==
    UNION {VerifyBundle(b) : b \in ToSet(bundles)}

VerifyDefinitionBundles(bundles) ==
    (UNION {VerifyBundle(b) : b \in ToSet(bundles)})
    \cup Problem(Repeats(bundles, FamilyAndVersion), "duplicate_or_conflicting_definition")

FamilyVersion(bundles, family, version) ==
    bundles[Max({i \in DOMAIN bundles : FamilyAndVersion(bundles[i]) = <<family, version>>})]

Retained(bundles, m) == \E b \in ToSet(bundles) : FamilyAndVersion(b) = <<m.family, m.version>>

Exact(bundles, m) == {i \in DOMAIN bundles : MemberOf(bundles[i]) = m}

ValidateSetDefinitionVersions(members, bundles) ==
    Problem(\E m \in members : ~ Retained(bundles, m), "missing_definition")

ValidateSetDefinitionRefs(members, bundles) ==
    Problem(\E m \in members : ~ Retained(bundles, m), "missing_definition")
    \cup Problem(\E m \in members :
                     /\ Retained(bundles, m)
                     /\ FamilyVersion(bundles, m.family, m.version).definition.declared # m.fingerprint,
                 "member_fingerprint_mismatch")

(***************************************************************************)
(* Set artifacts.  One without members is not indexed.                     *)
(***************************************************************************)
ValidateSetArtifact(s) ==
    Problem(~ s.governed, "integrity_failure")
    \cup ParseMembers(s.members)
    \cup Problem(s.members # {} /\ s.id # ContractSetId(s.members), "scs_id_mismatch")

Indexed(sets) == {s \in ToSet(sets) : s.members # {}}

Positions(sets, id) == {i \in DOMAIN sets : sets[i].members # {} /\ sets[i].id = id}

IsKnown(sets, id) == Positions(sets, id) # {}

(* The members the index keeps for an identity: those of the last artifact.*)
KnownMembers(sets, id) ==
    sets[Max(Positions(sets, id))].members

ArtifactFor(members) ==
    [id |-> ContractSetId(members), members |-> members, governed |-> TRUE]

(***************************************************************************)
(* Qualification: a record for a whole set, one operation and direction.   *)
(* An expectation is NONE where the caller does not ask for it.            *)
(***************************************************************************)
ValidateQualification(p, q, id, members, operation, direction) ==
    Problem(~ q.governed \/ q.profile \notin {"am@1.0", "am@1.1"}, "qualification_failure")
    \cup Problem(q.profile # p.id, "qualification_profile_mismatch")
    \cup Problem(id \notin {NONE, q.set}, "qualification_set_mismatch")
    \cup Problem(operation \notin {NONE, q.operation}, "qualification_operation_mismatch")
    \cup Problem(direction \notin {NONE, q.direction}, "qualification_direction_mismatch")
    \cup ParseMembers(q.members)
    \cup Problem(members \notin {NONE, q.members}, "qualification_members_mismatch")

RecordIdOf(q) == q.id

(* Where the records are that qualify the whole set; the first is used.    *)
Qualifies(q, id, operation, direction, mode, profileId, members) ==
    /\ q.set = id
    /\ q.operation = operation
    /\ q.direction = direction
    /\ q.profile = profileId
    /\ q.outcome = "qualified"
    /\ q.installed
    /\ IF mode = "historical" THEN q.historical ELSE q.newUse
    /\ q.members = members

Qualified(qualifications, id, operation, direction, mode, profileId, members) ==
    {i \in DOMAIN qualifications :
        Qualifies(qualifications[i], id, operation, direction, mode, profileId, members)}

(* The operation that validates one record for one tuple of members.       *)
QualifyTuple(p, members, operation, direction, q) ==
    ParseMembers(members)
    \cup ProfileMembersMatch(p, members)
    \cup ValidateQualification(p, q, ContractSetId(members), members, operation, direction)

(***************************************************************************)
(* Catalog (may the set be addressed) and policy (may the operation run).  *)
(***************************************************************************)
SetOf(entry) == entry.set

PolicyKey(entry) == <<entry.set, entry.operation, entry.direction>>

ValidateCatalogPolicy(catalog, policy, knownIds) ==
    Problem(~ catalog.governed \/ ~ policy.governed, "policy_failure")
    \cup Problem(Repeats(catalog.entries, SetOf), "duplicate_catalog_entry")
    \cup Problem(\E e \in ToSet(catalog.entries) : e.set \notin knownIds, "dangling_catalog_set")
    \cup Problem(Repeats(policy.entries, PolicyKey), "conflicting_policy")
    \cup Problem(\E e \in ToSet(policy.entries) : e.set \notin knownIds, "dangling_policy_set")

PolicySupports(policy, id, operation, direction) ==
    \E e \in ToSet(policy.entries) :
        PolicyKey(e) = <<id, operation, direction>> /\ e.newUse /\ e.installed

CatalogMentions(catalog, id) ==
    \E e \in ToSet(catalog.entries) : e.set = id /\ e.catalogued

CatalogSupports(catalog, id) ==
    \E e \in ToSet(catalog.entries) : e.set = id /\ e.catalogued /\ e.lifecycle = "active"

(* Exact resolution looks at the first entry only.                         *)
ExactCatalogSupports(catalog, id, mode) ==
    LET found == {i \in DOMAIN catalog.entries : catalog.entries[i].set = id}
        entry == catalog.entries[Min(found)]
    IN  /\ found # {}
        /\ entry.catalogued
        /\ IF mode = "historical" THEN entry.historical ELSE entry.lifecycle = "active"

ExactPolicySupports(policy, id, operation, direction, mode) ==
    LET found == {i \in DOMAIN policy.entries :
                     PolicyKey(policy.entries[i]) = <<id, operation, direction>>}
        entry == policy.entries[Min(found)]
    IN  /\ found # {}
        /\ entry.installed
        /\ IF mode = "historical" THEN entry.historical ELSE entry.newUse

(***************************************************************************)
(* The operations on a corpus.                                             *)
(***************************************************************************)
ValidateSets(sets, bundles) ==
    (UNION {ValidateSetArtifact(s) : s \in ToSet(sets)})
    \cup Problem(\E s \in Indexed(sets) : \E i, j \in Positions(sets, s.id) : i < j,
                 "duplicate_or_conflicting_set")
    \cup (UNION {ValidateSetDefinitionRefs(s.members, bundles) : s \in Indexed(sets)})

RetainedQualification(c, q) ==
    Problem(~ IsKnown(c.sets, q.set), "dangling_qualification_set")
    \cup ValidateQualification(c.profile, q, NONE,
                               IF IsKnown(c.sets, q.set) THEN KnownMembers(c.sets, q.set) ELSE NONE,
                               NONE, NONE)

ValidateCorpus(c) ==
    ValidateProfile(c.profile)
    \cup VerifyDefinitionBundles(c.definitions)
    \cup ValidateSets(c.sets, c.definitions)
    \cup Problem(Repeats(c.qualifications, RecordIdOf), "conflicting_qualification")
    \cup (UNION {RetainedQualification(c, q) : q \in ToSet(c.qualifications)})
    \cup ValidateCatalogPolicy(c.catalog, c.policy, {s.id : s \in Indexed(c.sets)})

(* r: [set, operation, direction, mode].  The pointer is not consulted.    *)
ExactProblems(c, r) ==
    ValidateProfile(c.profile)
    \cup Problem(~ ProfileDeclares(c.profile, r.operation), "profile_operation_mismatch")
    \cup ValidateCorpus(c)
    \cup IF ~ IsKnown(c.sets, r.set)
         THEN {"exact_set_not_retained"}
         ELSE LET members == KnownMembers(c.sets, r.set)
              IN  ProfileMembersMatch(c.profile, members)
                  \cup ValidateSetDefinitionRefs(members, c.definitions)
                  \cup Problem(Qualified(c.qualifications, r.set, r.operation, r.direction, r.mode,
                                         c.profile.id, members) = {},
                               "missing_whole_tuple_qualification")
                  \cup Problem(~ ExactCatalogSupports(c.catalog, r.set, r.mode),
                               "exact_resolution_catalog_failure")
                  \cup Problem(~ ExactPolicySupports(c.policy, r.set, r.operation, r.direction, r.mode),
                               "exact_resolution_policy_failure")

(* What exact resolution hands to materialization, or NONE.                *)
ResolveExact(c, r) ==
    IF ExactProblems(c, r) # {}
    THEN NONE
    ELSE LET members == KnownMembers(c.sets, r.set)
         IN  [set |-> r.set, members |-> members,
              record |-> c.qualifications[Min(Qualified(c.qualifications, r.set, r.operation,
                                                        r.direction, r.mode, c.profile.id,
                                                        members))].id,
              definitions |-> {c.definitions[Max(Exact(c.definitions, m))] :
                                  m \in {n \in members : Exact(c.definitions, n) # {}}}]

(***************************************************************************)
(* Resolution of the current pointer.  What is wrong with the corpus or    *)
(* with the pointer is collected (the problems), but only a pointer        *)
(* without a set, without a record, or unsupported by record, catalog and  *)
(* policy fails: a success does not look at the problems.                  *)
(***************************************************************************)
CurrentProblems(c, operation, direction) ==
    VerifyDefinitionBundles(c.definitions)
    \cup Problem(ValidateCorpus(c) # {} /\ (\E s \in ToSet(c.sets) : s.id = c.current.set),
                 "retained_corpus_invalid")
    \cup Problem(~ c.current.governed, "pointer_ungoverned")
    \cup Problem(\/ c.current.profile # "am@1.0"
                 \/ c.current.operation # operation
                 \/ c.current.direction # direction,
                 "pointer_mismatch")
    \cup Problem(\/ c.current.catalogRevision # c.catalog.revision
                 \/ c.current.policyRevision # c.policy.revision,
                 "pointer_revisions")
    \cup (UNION {ValidateSetArtifact(s) : s \in ToSet(c.sets)})

(* The pointer's set and record, with the problems found; or NONE.         *)
ResolveCurrent(c, operation, direction) ==
    IF c.current = NONE \/ ~ IsKnown(c.sets, c.current.set)
    THEN NONE
    ELSE LET id == c.current.set
             records == Qualified(c.qualifications, id, operation, direction, "new", "am@1.0",
                                  KnownMembers(c.sets, id))
         IN  IF /\ records # {}
                /\ c.qualifications[Min(records)].id = c.current.record
                /\ CatalogSupports(c.catalog, id)
                /\ PolicySupports(c.policy, id, operation, direction)
             THEN [set |-> id, record |-> c.current.record,
                   problems |-> CurrentProblems(c, operation, direction)]
             ELSE NONE

(***************************************************************************)
(* Assembly: a requested set is approved against the corpus retained so    *)
(* far.  a: [members, operation, direction, qualification].  Retained      *)
(* records of sets that are not retained are not compared with any         *)
(* members, and a composition stored twice is accepted.                    *)
(***************************************************************************)
RequestedVersions(members, bundles) ==
    Problem(\E m \in members : ~ Retained(bundles, m), "missing_definition")

RequestedDefinitions(members, bundles) ==
    Problem(\E m \in members : ~ Retained(bundles, m), "missing_definition")
    \cup Problem(\E m \in members :
                     /\ Retained(bundles, m)
                     /\ MemberOf(FamilyVersion(bundles, m.family, m.version)) # m,
                 "member_fingerprint_mismatch")

RetainedSets(sets, bundles) ==
    (UNION {ValidateSetArtifact(s) : s \in ToSet(sets)})
    \cup (UNION {ValidateSetDefinitionRefs(s.members, bundles) : s \in Indexed(sets)})
    \cup Problem(\E s, t \in Indexed(sets) : s.id = t.id /\ s.members # t.members,
                 "conflicting_scs_preimage")

RetainedQualifications(c, a, id) ==
    Problem(Repeats(c.qualifications, RecordIdOf), "conflicting_qualification")
    \cup (UNION {ValidateQualification(c.profile, q, q.set,
                     IF IsKnown(c.sets, q.set) THEN KnownMembers(c.sets, q.set) ELSE NONE,
                     NONE, NONE) : q \in ToSet(c.qualifications)})
    \cup Problem(Qualified(c.qualifications, id, a.operation, a.direction, "new", c.profile.id,
                           a.members) = {},
                 "missing_whole_tuple_qualification")

Assemble(c, a) ==
    LET id == ContractSetId(a.members)
    IN  ParseMembers(a.members)
        \cup ProfileMembersMatch(c.profile, a.members)
        \cup VerifyDefinitionBundles(c.definitions)
        \cup RequestedDefinitions(a.members, c.definitions)
        \cup ValidateQualification(c.profile, a.qualification, id, a.members, a.operation, a.direction)
        \cup Problem(Qualified(<<a.qualification>>, id, a.operation, a.direction, "new", c.profile.id,
                               a.members) = {},
                     "assembly_qualification_not_supported")
        \cup RetainedSets(c.sets, c.definitions)
        \cup RetainedQualifications(c, a, id)
        \cup ValidateCatalogPolicy(c.catalog, c.policy,
                                   {s.id : s \in Indexed(c.sets)} \cup {id})

(* The artifact an approved assembly emits, or NONE if it is retained.     *)
Emitted(c, a) ==
    IF IsKnown(c.sets, ContractSetId(a.members)) THEN NONE ELSE ArtifactFor(a.members)
=============================================================================
