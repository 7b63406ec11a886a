-------------------------- MODULE SemanticContract --------------------------
(***************************************************************************)
(* Semantic contract definitions.  A definition lists resources by key,    *)
(* content digest, role and dependencies; its fingerprint (SCF) is the     *)
(* digest of all that without the declared fingerprint.  Resource contents *)
(* are supplied beside it, and the closure holds when the contents are     *)
(* those of the manifest and refer to what it declares.  A check answers   *)
(* the set of its diagnostic codes: empty is success.  A digest is the     *)
(* record of what it was taken from (SHA-256 without collisions).  The     *)
(* grammar of names, keys and fields is the Boolean "governed".  A content *)
(* is a name, ContentOf what a check looks at inside it.                   *)
(***************************************************************************)
EXTENDS Sequences, SequencesExt, FiniteSets

CONSTANTS NONE,      \* no declared fingerprint, no self-binding, no record
          ContentOf  \* content -> [refs, semanticDependencies, binding, markers]

Problem(condition, code) == IF condition THEN {code} ELSE {}

Repeats(s, Key(_)) == \E i, j \in DOMAIN s : i < j /\ Key(s[i]) = Key(s[j])

(***************************************************************************)
(* The manifest: [key, digest, role, deps], deps of [key, digest].  Of     *)
(* entries with one key the index keeps the last.                          *)
(***************************************************************************)
Digest(content) == [sha256 |-> content]

KeyOf(x) == x.key

Itself(x) == x

Keys(s) == {e.key : e \in ToSet(s)}

Entry(s, key) == s[Max({i \in DOMAIN s : s[i].key = key})]

ConformanceRoles == {"normative-conformance", "interpretation-conformance",
                     "normalized-model-conformance"}

Roles == ConformanceRoles \cup
         {"normative-definition", "interpretation-rule", "normalized-model-schema",
          "source-contract-schema", "source-contract-mapping"}

(***************************************************************************)
(* The depth-first search for a dependency cycle, every key in turn.  A    *)
(* call has the keys still to follow, the keys it is below, and those that *)
(* are done; it answers the keys done after it and whether it came round.  *)
(***************************************************************************)
DependencyKeys(manifest, key) ==
    LET deps == Entry(manifest, key).deps
    IN  [i \in DOMAIN deps |-> deps[i].key]

Mentioned(manifest) == Keys(manifest) \cup UNION {Keys(e.deps) : e \in ToSet(manifest)}

Calls(manifest) ==
    [todo : Seq(Mentioned(manifest)),
     visiting : SUBSET Keys(manifest), visited : SUBSET Keys(manifest)]

Call(todo, visiting, visited) == [todo |-> todo, visiting |-> visiting, visited |-> visited]

Follow(manifest, search, call) ==
    LET key == Head(call.todo)
        Rest(visited) == search[Call(Tail(call.todo), call.visiting, visited)]
        below == search[Call(DependencyKeys(manifest, key), call.visiting \cup {key}, call.visited)]
    IN  IF call.todo = <<>>
        THEN [visited |-> call.visited, cycle |-> FALSE]
        ELSE IF key \notin Keys(manifest) \/ key \in call.visited
        THEN Rest(call.visited)
        ELSE IF key \in call.visiting
        THEN [visited |-> Rest(call.visited).visited, cycle |-> TRUE]
        ELSE LET rest == Rest(below.visited \cup {key})
             IN  [visited |-> rest.visited, cycle |-> below.cycle \/ rest.cycle]

Search(manifest) ==
    LET search[call \in Calls(manifest)] == Follow(manifest, search, call)
    IN  search

DetectCycle(manifest) ==
    Search(manifest)[Call([i \in DOMAIN manifest |-> manifest[i].key], {}, {})].cycle

DependencyProblems(manifest) ==
    UNION {Problem(Repeats(e.deps, KeyOf), "duplicate_dependency")
           \cup Problem(\E d \in ToSet(e.deps) : d.key \notin Keys(manifest), "dangling_dependency")
           \cup Problem(\E d \in ToSet(e.deps) : /\ d.key \in Keys(manifest)
                                                 /\ Entry(manifest, d.key).digest # d.digest,
                        "conflicting_dependency_digest") : e \in ToSet(manifest)}

FrozenProblems(d) ==
    Problem(d.frozen = <<>>, "empty_frozen_resources")
    \cup Problem(Repeats(d.frozen, Itself), "duplicate_frozen_resource")
    \cup Problem(~ (ToSet(d.frozen) \subseteq Keys(d.manifest)), "dangling_frozen_resource")
    \cup Problem(\E key \in ToSet(d.frozen) \cap Keys(d.manifest) :
                     Entry(d.manifest, key).role \notin ConformanceRoles,
                 "invalid_frozen_resource_role")

ParseDefinition(d, requireFingerprint) ==
    Problem(~ d.governed, "unknown_field")
    \cup Problem(requireFingerprint /\ d.declared = NONE, "missing_fingerprint")
    \cup Problem(d.manifest = <<>>, "empty_resource_manifest")
    \cup Problem(Repeats(d.manifest, KeyOf), "duplicate_resource_key")
    \cup Problem(\E e \in ToSet(d.manifest) : e.role \notin Roles, "invalid_resource_role")
    \cup DependencyProblems(d.manifest)
    \cup FrozenProblems(d)
    \cup Problem(DetectCycle(d.manifest), "dependency_cycle")

(***************************************************************************)
(* The fingerprint covers the definition without the declared one, with    *)
(* manifest, dependencies and frozen keys sorted: their order is no        *)
(* meaning, so the preimage holds them as sets.                            *)
(***************************************************************************)
NormalizedDefinition(d) ==
    [family |-> d.family, version |-> d.version,
     manifest |-> {[e EXCEPT !.deps = ToSet(@)] : e \in ToSet(d.manifest)},
     frozen |-> ToSet(d.frozen)]

SCF(d) == [scf |-> NormalizedDefinition(d)]

DeclaredFingerprint(d, requireDeclared) ==
    ParseDefinition(d, requireDeclared)
    \cup Problem(requireDeclared /\ d.declared \notin {NONE, SCF(d)}, "fingerprint_mismatch")

(***************************************************************************)
(* The contents.  A reference ($ref, at any depth) is to the resource      *)
(* itself, relative (to the key it resolves to), remote, absolute, or      *)
(* escapes the namespace; other dependencies are listed by key.            *)
(***************************************************************************)
ReferenceProblems(content) ==
    Problem(\E r \in ContentOf[content].refs : r.kind = "remote", "live_external_reference")
    \cup Problem(\E r \in ContentOf[content].refs : r.kind = "absolute", "absolute_resource_reference")
    \cup Problem(\E r \in ContentOf[content].refs : r.kind = "escape", "resource_reference_escape")

Discovered(content) ==
    {r.key : r \in {x \in ContentOf[content].refs : x.kind = "relative"}} \cup ContentOf[content].semanticDependencies

EntryContentOfAnyDigest(e, manifest, resources) ==
    IF e.key \notin Keys(resources)
    THEN {"missing_resource_content"}
    ELSE LET content == Entry(resources, e.key).content
         IN  ReferenceProblems(content)
             \cup Problem(Discovered(content) # Keys(e.deps), "undeclared_dependency")
             \cup Problem(Discovered(content) \ Keys(manifest) # {}, "unresolved_resource_dependency")

EntryContent(e, manifest, resources) ==
    IF e.key \notin Keys(resources)
    THEN {"missing_resource_content"}
    ELSE LET content == Entry(resources, e.key).content
             discovered == Discovered(content)
             declared == Keys(e.deps)
         IN  Problem(Digest(content) # e.digest, "resource_digest_mismatch")
             \cup ReferenceProblems(content)
             \cup Problem(discovered \ declared # {}, "undeclared_dependency")
             \cup Problem(declared \ discovered # {}, "unjustified_dependency")
             \cup Problem(discovered \ Keys(manifest) # {}, "unresolved_resource_dependency")

ResourceContents(manifest, resources) ==
    Problem(resources = <<>>, "empty_resource_contents")
    \cup Problem(Repeats(resources, KeyOf), "conflicting_resource_definition")
    \cup (UNION {EntryContent(e, manifest, resources) : e \in ToSet(manifest)})
    \cup Problem(~ (Keys(resources) \subseteq Keys(manifest)), "unlisted_resource")

ValidateClosure(d, resources) ==
    ParseDefinition(d, TRUE)
    \cup Problem(d.declared \notin {NONE, SCF(d)}, "fingerprint_mismatch")
    \cup ResourceContents(d.manifest, resources)

(***************************************************************************)
(* Contract sets.  Members [family, version, fingerprint] are sorted where *)
(* they are parsed, so a list of them is the set it is sorted into; the    *)
(* identity (SCS) is the digest of that.                                   *)
(***************************************************************************)
ParseMembers(members) ==
    Problem(\E m \in members : m.fingerprint = NONE, "invalid_member_fingerprint")
    \cup Problem(\E m, n \in members : m # n /\ m.family = n.family, "duplicate_set_family")

ContractSetId(members) == [scs |-> members]

ComposeSet(contracts) ==
    Problem(contracts = {}, "empty_set") \cup ParseMembers(contracts)

(***************************************************************************)
(* Self-binding: the fingerprint of the enclosing definition, which a      *)
(* frozen resource cannot contain, is put in a copy of it at the paths the *)
(* resource declares.  A path is a sequence of names; "*" in a pattern     *)
(* matches any one name.                                                   *)
(***************************************************************************)
Marker == "$enclosing_scf"

Overlap(left, right) ==
    /\ Len(left) = Len(right)
    /\ \A i \in DOMAIN left : left[i] = right[i] \/ "*" \in {left[i], right[i]}

Matches(pattern, path) ==
    /\ Len(pattern) = Len(path)
    /\ \A i \in DOMAIN pattern : pattern[i] \in {path[i], "*"}

PatternsAreGoverned(content) ==
    /\ ContentOf[content].binding # NONE
    /\ ContentOf[content].binding # <<>>
    /\ \A i, j \in DOMAIN ContentOf[content].binding : i < j => ~ Overlap(ContentOf[content].binding[i], ContentOf[content].binding[j])

(* Every marker, at one declared path; every declared path with a marker.  *)
MarkersAreDeclared(content) ==
    LET Used(path) == {i \in DOMAIN ContentOf[content].binding : Matches(ContentOf[content].binding[i], path)}
        paths == DOMAIN ContentOf[content].markers
    IN  /\ \A path \in paths : ContentOf[content].markers[path] = Marker /\ Cardinality(Used(path)) = 1
        /\ paths # {}
        /\ UNION {Used(path) : path \in paths} = DOMAIN ContentOf[content].binding

(* The projection, or NONE where the binding fails.                        *)
BindConformance(d, resources, key) ==
    IF \/ DeclaredFingerprint(d, TRUE) # {}
       \/ ResourceContents(d.manifest, resources) # {}
       \/ key \notin Keys(d.manifest)
       \/ Entry(d.manifest, key).role \notin ConformanceRoles
       \/ key \notin ToSet(d.frozen)
    THEN NONE
    ELSE LET content == Entry(resources, key).content
         IN  IF PatternsAreGoverned(content) /\ MarkersAreDeclared(content)
             THEN [path \in DOMAIN ContentOf[content].markers |-> d.declared]
             ELSE NONE
=============================================================================
